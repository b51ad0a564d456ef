-------------------------------- MODULE EdgeUdp --------------------------------
(***************************************************************************)
(* The socket of UdpRecv behind an edge-triggered selector (epoll, kqueue):*)
(* what the readiness calls of both backends have in common.  MioUdp adds  *)
(* the blocking ready(), TokioUdp the async readable().                    *)
(*                                                                         *)
(* The selector reports a socket once per edge.  A datagram that arrives   *)
(* in an empty queue always raises the edge; one that arrives behind other *)
(* data may or may not, depending on the platform ("will not re-fire if a  *)
(* prior wake was only partially drained", crates/mio/src/udp.rs).         *)
(***************************************************************************)
EXTENDS UdpRecv

VARIABLES
  edge,    \* the selector has an undelivered edge for the socket
  wait,    \* where the caller is inside the readiness call; "no": outside
  woken    \* history: that call returned Ok and no recv_burst has ended since

readiness == <<edge, wait, woken>>

EdgeInit ==
  /\ Init
  /\ edge = FALSE /\ wait = "no" /\ woken = FALSE

EdgeArrive(l, p) ==
  /\ Arrive(l, p)
  /\ edge' \in (IF sock = <<>> THEN {TRUE} ELSE {edge, TRUE})
  /\ UNCHANGED <<wait, woken>>

\* recv_burst takes &mut self, so it never runs during a readiness call.
EdgeBurstCall(max) ==
  /\ wait = "no"
  /\ BurstCall(max)
  /\ UNCHANGED readiness

EdgeBurstStep ==
  /\ wait = "no"
  /\ BurstStep
  /\ woken' = (woken /\ pc' # "idle")
  /\ UNCHANGED <<edge, wait>>

EdgeDrain ==
  /\ wait = "no"
  /\ \E k \in 0 .. BatchCap : Drain(k)
  /\ UNCHANGED readiness

EdgeRefreshGate == wait = "no" /\ RefreshGate /\ UNCHANGED readiness
EdgeDropFrame == (\E f \in taken : DropFrame(f)) /\ UNCHANGED readiness
EdgeReserve == (\E s \in Slots : Reserve(s)) /\ UNCHANGED readiness
EdgeUnreserve == (\E s \in Slots : Unreserve(s)) /\ UNCHANGED readiness

\* Everything but the readiness call itself.
EdgeNext ==
  \/ \E l \in Lens, p \in Peers : EdgeArrive(l, p)
  \/ \E max \in 0 .. BatchCap + 1 : EdgeBurstCall(max)
  \/ EdgeBurstStep
  \/ EdgeDrain \/ EdgeRefreshGate
  \/ EdgeDropFrame \/ EdgeReserve \/ EdgeUnreserve

\* The readiness call starts, and ends with Ok or with an I/O error.
EnterReady(first) ==
  /\ pc = "idle" /\ wait = "no"
  /\ wait' = first
  /\ woken' = FALSE
  /\ UNCHANGED <<vars, edge>>

ReturnOk == wait' = "no" /\ woken' = TRUE

ReturnIo ==
  /\ faults < MaxFaults
  /\ faults' = faults + 1
  /\ wait' = "no" /\ woken' = FALSE
  /\ UNCHANGED <<sock, accepted, pool, batch, taken, last_peer, burst, counters,
                 reaped, rbytes, edge>>

(***************************************************************************)
(* A caller that, whatever else it does, keeps calling recv_burst with     *)
(* room for one frame and keeps draining, but only once per wake if it     *)
(* likes; frames and reservations are dropped in the end.  SF: both calls  *)
(* are possible only while the caller is outside the others.               *)
(***************************************************************************)
CallerFairness ==
  /\ WF_<<vars, readiness>>(EdgeBurstStep)
  /\ SF_<<vars, readiness>>(spare > 0 /\ EdgeBurstCall(1))
  /\ SF_<<vars, readiness>>(EdgeDrain)
  /\ WF_<<vars, readiness>>(EdgeDropFrame)
  /\ WF_<<vars, readiness>>(EdgeUnreserve)
--------------------------------------------------------------------------------
(***************************************************************************)
(* "ready() resolves when the next sync recv_burst/recv_into can make      *)
(* progress" (AsyncReady, crates/core/src/transport.rs): after it returned *)
(* Ok, the next recv_burst that has room for a frame does not answer Ok(0).*)
(* (It may still end in PoolExhausted.)                                    *)
(***************************************************************************)
ReadyMeansProgress ==
  [][pc # "idle" /\ pc' = "idle" /\ woken /\ cap > 0
       => ~(result'.kind = "Ok" /\ result'.n = 0)]_<<vars, readiness>>

(***************************************************************************)
(* Nothing is stranded: as long as the caller keeps reaping and frames are *)
(* dropped in the end, every datagram the kernel accepted is reaped, past  *)
(* exhaustion of the pool, errors and wakes that were partially drained.   *)
(***************************************************************************)
EveryDatagramReaped ==
  \A k \in 1 .. MaxArrivals : (accepted >= k) ~> (reaped >= k)
================================================================================
