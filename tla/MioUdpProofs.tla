------------------------------ MODULE MioUdpProofs ------------------------------
(***************************************************************************)
(* Proofs about MioUdp, for any pool, batch, queue and traffic.            *)
(***************************************************************************)
EXTENDS MioUdp, UdpRecvProofs

(***************************************************************************)
(* The steps that leave the readiness call alone.  Only an arrival while   *)
(* the thread sleeps concerns it: recv_burst and drain need wait = "no".   *)
(***************************************************************************)
LEMMA EdgeKeepsWakeup ==
  ASSUME NoLostWakeup, EdgeNext
  PROVE  NoLostWakeup'
<1>1. ASSUME NEW l \in Lens, NEW p \in Peers, EdgeArrive(l, p)
      PROVE  NoLostWakeup'
  <2>1. wait' = wait /\ edge' \in (IF sock = <<>> THEN {TRUE} ELSE {edge, TRUE})
    BY <1>1 DEF EdgeArrive
  <2>2. CASE sock = <<>>
    BY <2>1, <2>2 DEF NoLostWakeup
  <2>3. CASE sock # <<>>
    BY <2>1, <2>3 DEF NoLostWakeup
  <2> QED BY <2>2, <2>3
<1>2. ASSUME NEW max \in 0 .. BatchCap + 1, EdgeBurstCall(max)
      PROVE  NoLostWakeup'
  BY <1>2 DEF EdgeBurstCall, readiness, NoLostWakeup
<1>3. ASSUME EdgeBurstStep PROVE NoLostWakeup'
  BY <1>3 DEF EdgeBurstStep, NoLostWakeup
<1>4. ASSUME EdgeDrain PROVE NoLostWakeup'
  BY <1>4 DEF EdgeDrain, readiness, NoLostWakeup
<1>5. ASSUME EdgeRefreshGate \/ EdgeDropFrame \/ EdgeReserve \/ EdgeUnreserve PROVE NoLostWakeup'
  <2>1. UNCHANGED <<sock, edge, wait>>
    BY <1>5 DEF EdgeRefreshGate, EdgeDropFrame, EdgeReserve, EdgeUnreserve, readiness,
                RefreshGate, DropFrame, Reserve, Unreserve
  <2> QED BY <2>1 DEF NoLostWakeup
<1> QED BY <1>1, <1>2, <1>3, <1>4, <1>5 DEF EdgeNext

(***************************************************************************)
(* ready() never sleeps next to queued data without an edge to wake it.    *)
(***************************************************************************)
THEOREM MioNeverLosesWakeup == MioSpec => []NoLostWakeup
<1>1. EdgeInit => NoLostWakeup
  BY DEF EdgeInit, NoLostWakeup
<1>2. ASSUME NoLostWakeup, [MioNext]_mvars
      PROVE  NoLostWakeup'
  <2>1. CASE EdgeNext
    BY <1>2, <2>1, EdgeKeepsWakeup
  <2>2. CASE ReadyCall
    BY <2>2 DEF ReadyCall, EnterReady, NoLostWakeup
  <2>3. CASE ProbeHit \/ PollReadable
    BY <2>3 DEF ProbeHit, PollReadable, ReturnOk, NoLostWakeup
  <2>4. CASE ProbeMiss \/ PollStale
    BY <2>4 DEF ProbeMiss, PollStale, vars, NoLostWakeup
  <2>5. CASE ProbeError \/ PollError
    BY <2>5 DEF ProbeError, PollError, ReturnIo, NoLostWakeup
  <2>6. CASE UNCHANGED mvars
    BY <1>2, <2>6 DEF mvars, vars, readiness, NoLostWakeup
  <2> QED BY <1>2, <2>1, <2>2, <2>3, <2>4, <2>5, <2>6 DEF MioNext, ReadyStep
<1> QED BY <1>1, <1>2, PTL DEF MioSpec

--------------------------------------------------------------------------------
LEMMA ReadyStepKeeps ==
  ASSUME RecvSound, PromiseKept, ReadyStep
  PROVE  RecvSound' /\ PromiseKept' /\ Progress
<1>1. UNCHANGED vars \/ ReturnIo
  BY DEF ReadyStep, ReadyCall, EnterReady, ProbeHit, ProbeMiss, ProbeError, PollReadable,
         PollStale, PollError
<1>2. UNCHANGED <<sock, pc, cap, n>>
  BY <1>1 DEF vars, burst, ReturnIo
<1> SUFFICES PromiseKept' /\ Progress
  BY <1>1, SoundReady
<1>3. CASE ReadyCall
  BY <1>2, <1>3, PromiseReady DEF ReadyCall, EnterReady
<1>4. CASE ProbeMiss \/ ProbeError \/ PollStale \/ PollError
  <2>1. pc = "idle" /\ ~woken /\ (woken' => woken)
    BY <1>4 DEF ProbeMiss, ProbeError, PollStale, PollError, ReturnIo, PromiseKept
  <2> QED BY <1>2, <2>1, PromiseReady
<1>5. CASE ProbeHit \/ PollReadable
  BY <1>2, <1>5, PromiseReady DEF ProbeHit, PollReadable
<1> QED BY <1>3, <1>4, <1>5 DEF ReadyStep

LEMMA MioStepKeeps ==
  ASSUME RecvSound, PromiseKept, [MioNext]_mvars
  PROVE  RecvSound' /\ PromiseKept' /\ Progress
<1>1. CASE UNCHANGED mvars
  <2>1. UNCHANGED vars /\ UNCHANGED <<wait, woken, sock, pc, cap, n>>
    BY <1>1 DEF mvars, vars, readiness, burst
  <2> QED BY <2>1, SoundReady DEF PromiseKept, Progress
<1>2. CASE EdgeNext
  BY <1>2, SoundStep, PromiseEdge DEF RecvSound
<1> QED BY <1>1, <1>2, ReadyStepKeeps DEF MioNext

LEMMA MioKeeps == MioSpec => [](RecvSound /\ PromiseKept)
  BY PromiseInit, SoundInit, MioStepKeeps, PTL DEF MioSpec

(***************************************************************************)
(* Around ready(), whose probe and poll may fail at any time, recv_burst   *)
(* still leaks no slab, keeps every frame's bytes, loses no datagram and   *)
(* counts as it should.                                                    *)
(***************************************************************************)
THEOREM MioReceivesSoundly ==
  MioSpec => [](SlabsAccounted /\ FramesIntact /\ ReapedInOrder /\ MetricsExact)
BY MioKeeps, SoundFacts, PTL

(***************************************************************************)
(* After ready() returned Ok the next recv_burst with room does not answer *)
(* Ok(0): the probe took nothing, the event was checked against the queue, *)
(* and only recv_burst takes datagrams off it.                             *)
(***************************************************************************)
THEOREM MioReadyMeansProgress == MioSpec => ReadyMeansProgress
<1>1. RecvSound /\ PromiseKept /\ [MioNext]_mvars
        => [Progress]_<<vars, readiness>>
  BY MioStepKeeps
<1> QED BY <1>1, MioKeeps, PTL DEF MioSpec, ReadyMeansProgress, Progress
================================================================================
