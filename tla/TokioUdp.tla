-------------------------------- MODULE TokioUdp --------------------------------
(***************************************************************************)
(* UdpTransport::readable of crates/tokio/src/udp.rs.  The tokio reactor   *)
(* turns edges into a cached readiness bit; readable() awaits the bit and  *)
(* confirms it with a MSG_PEEK under try_io, which clears the bit when the *)
(* peek would block.  recv_burst goes to the socket directly and never     *)
(* touches the bit.                                                        *)
(*                                                                         *)
(* The reactor runs on its own thread.  Its part (readiness bit, tick, the *)
(* clear that try_io does) is external: tokio's ScheduledIo as this crate  *)
(* uses it.  The tick does not wrap here.                                  *)
(*                                                                         *)
(* wait: "await" in sock.readable().await, "try" before try_io, "peek" in  *)
(* the closure of try_io, "clear" before it clears the bit.                *)
(***************************************************************************)
EXTENDS EdgeUdp

VARIABLES
  bit,     \* cached READABLE readiness of the socket
  tick,    \* how often the reactor has set it
  seen     \* the tick try_io read together with the bit

reactor == <<bit, tick, seen>>
tvars == <<vars, readiness, reactor>>

TokioInit ==
  /\ EdgeInit
  /\ bit = FALSE /\ tick = 0 /\ seen = 0

\* The reactor takes the edge; if the socket is readable it sets the bit.
ReactorTurn ==
  /\ edge
  /\ edge' = FALSE
  /\ IF sock = <<>>
     THEN UNCHANGED <<bit, tick>>
     ELSE bit' = TRUE /\ tick' = tick + 1
  /\ UNCHANGED <<vars, wait, woken, seen>>

\* readable() is called.
ReadableCall == EnterReady("await") /\ UNCHANGED reactor

\* sock.readable().await resolves.
AwaitReady ==
  /\ wait = "await" /\ bit
  /\ wait' = "try"
  /\ UNCHANGED <<vars, edge, woken, reactor>>

\* The reactor is gone: the await fails.
AwaitError == wait = "await" /\ ReturnIo /\ UNCHANGED reactor

\* The caller drops the future at its only suspension point (a select, a timeout).
Cancel ==
  /\ wait = "await"
  /\ wait' = "no"
  /\ UNCHANGED <<vars, edge, woken, reactor>>

\* try_io: reads the bit and its tick; without the bit it would block at once.
TryIo ==
  /\ wait = "try"
  /\ wait' = (IF bit THEN "peek" ELSE "await")
  /\ seen' = tick
  /\ UNCHANGED <<vars, edge, woken, bit, tick>>

\* Mutant of PeekHit: the cached bit is trusted.
BitTrusted ==
  /\ wait = "peek"
  /\ ReturnOk
  /\ UNCHANGED <<vars, edge, reactor>>

\* peek_ready succeeds: readable() returns Ok.
PeekHit ==
  /\ wait = "peek" /\ sock # <<>>
  /\ ReturnOk
  /\ UNCHANGED <<vars, edge, reactor>>

\* peek_ready would block.
PeekMiss ==
  /\ wait = "peek" /\ sock = <<>>
  /\ wait' = "clear"
  /\ UNCHANGED <<vars, edge, woken, reactor>>

\* peek_ready fails: readable() returns the error, the bit stays.
PeekError == wait = "peek" /\ ReturnIo /\ UNCHANGED reactor

\* Mutants of ClearReadiness: clears whatever the reactor did; never clears.
ClearAlways ==
  /\ wait = "clear"
  /\ bit' = FALSE
  /\ wait' = "await"
  /\ UNCHANGED <<vars, edge, woken, tick, seen>>

ClearNever ==
  /\ wait = "clear"
  /\ wait' = "await"
  /\ UNCHANGED <<vars, edge, woken, reactor>>

\* try_io clears the bit it saw, unless the reactor has set it again since;
\* readable() loops.
ClearReadiness ==
  /\ wait = "clear"
  /\ bit' = (bit /\ tick # seen)
  /\ wait' = "await"
  /\ UNCHANGED <<vars, edge, woken, tick, seen>>

ReadableStep ==
  \/ AwaitReady \/ TryIo \/ PeekHit \/ PeekMiss \/ ClearReadiness

TokioNext ==
  \/ EdgeNext /\ UNCHANGED reactor
  \/ ReactorTurn
  \/ ReadableCall \/ ReadableStep
  \/ AwaitError \/ PeekError \/ Cancel

TokioSpec == TokioInit /\ [][TokioNext]_tvars

\* The runtime polls a task that was woken and keeps turning the reactor.
TokioFairness ==
  /\ CallerFairness
  /\ WF_tvars(ReactorTurn)
  /\ WF_tvars(ReadableStep)

TokioFairSpec == TokioSpec /\ TokioFairness
--------------------------------------------------------------------------------
(***************************************************************************)
(* Queued data is never forgotten: an edge or a readiness bit that         *)
(* survives the pending clear stands for it.  In particular a task that    *)
(* awaits next to queued data will be woken, although recv_burst consumes  *)
(* data behind the reactor's back and readable() clears the bit.           *)
(***************************************************************************)
DataIsSignalled ==
  sock # <<>> => edge \/ (bit /\ (wait = "clear" => tick # seen))

(***************************************************************************)
(* "tokio's cached readiness bit clears on stale wake": on a socket that   *)
(* stays empty, readable() does not spin, it comes to rest in the await.   *)
(***************************************************************************)
IdleTaskParks ==
  <>[](sock = <<>> /\ wait # "no") => <>[](wait = "await" /\ ~bit)
================================================================================
