------------------------------ MODULE TokioUdpProofs ------------------------------
(***************************************************************************)
(* Proofs about TokioUdp, for any pool, batch, queue and traffic.          *)
(***************************************************************************)
EXTENDS TokioUdp, UdpRecvProofs

(***************************************************************************)
(* The tick only grows, so a tick set after try_io looked is a new one:    *)
(* what makes the conditional clear of the bit safe.                       *)
(***************************************************************************)
TickGrows == tick \in Nat /\ seen \in Nat /\ seen <= tick

SignalInv == DataIsSignalled /\ TickGrows

LEMMA EdgeKeepsSignal ==
  ASSUME SignalInv, EdgeNext, UNCHANGED reactor
  PROVE  SignalInv'
<1>0. TickGrows' BY DEF SignalInv, TickGrows, reactor
<1>1. ASSUME NEW l \in Lens, NEW p \in Peers, EdgeArrive(l, p)
      PROVE  DataIsSignalled'
  <2>1. wait' = wait /\ edge' \in (IF sock = <<>> THEN {TRUE} ELSE {edge, TRUE})
    BY <1>1 DEF EdgeArrive
  <2>2. CASE sock = <<>>
    BY <2>1, <2>2 DEF DataIsSignalled
  <2>3. CASE sock # <<>>
    BY <2>1, <2>3 DEF SignalInv, DataIsSignalled, reactor
  <2> QED BY <2>2, <2>3
<1>2. ASSUME NEW max \in 0 .. BatchCap + 1, EdgeBurstCall(max)
      PROVE  DataIsSignalled'
  BY <1>2 DEF EdgeBurstCall, BurstCall, readiness, reactor, SignalInv, DataIsSignalled
<1>3. ASSUME EdgeBurstStep PROVE DataIsSignalled'
  <2>1. sock' # <<>> => sock # <<>>
    <3>1. CASE BurstRecv
      BY <3>1 DEF BurstRecv
    <3>2. CASE ~BurstRecv
      BY <1>3, <3>2 DEF EdgeBurstStep, BurstStep, BurstAcquire, BurstNoSlab,
                        BurstExhausted, BurstWouldBlock, BurstIoError, BurstDone
    <3> QED BY <3>1, <3>2
  <2>2. wait = "no" /\ UNCHANGED <<edge, wait, bit, tick, seen>>
    BY <1>3 DEF EdgeBurstStep, reactor
  <2> QED BY <2>1, <2>2 DEF SignalInv, DataIsSignalled
<1>4. ASSUME EdgeDrain \/ EdgeRefreshGate \/ EdgeDropFrame \/ EdgeReserve \/ EdgeUnreserve
      PROVE  DataIsSignalled'
  <2>1. UNCHANGED <<sock, edge, wait, bit, tick, seen>>
    BY <1>4 DEF EdgeDrain, EdgeRefreshGate, EdgeDropFrame, EdgeReserve, EdgeUnreserve, readiness,
                Drain, RefreshGate, DropFrame, Reserve, Unreserve, reactor
  <2> QED BY <2>1 DEF SignalInv, DataIsSignalled
<1>5. DataIsSignalled' BY <1>1, <1>2, <1>3, <1>4 DEF EdgeNext
<1> QED BY <1>0, <1>5 DEF SignalInv

(***************************************************************************)
(* Queued data always has an edge or a readiness bit that stands for it.   *)
(***************************************************************************)
THEOREM TokioSignalsData == TokioSpec => []DataIsSignalled
<1>1. TokioInit => SignalInv
  <2>1. TokioInit => sock = <<>>
    BY DEF TokioInit, EdgeInit, Init
  <2>2. TokioInit => TickGrows
    BY DEF TokioInit, TickGrows
  <2> QED BY <2>1, <2>2 DEF SignalInv, DataIsSignalled
<1>2. ASSUME SignalInv, [TokioNext]_tvars
      PROVE  SignalInv'
  <2> USE DEF SignalInv, DataIsSignalled, TickGrows
  <2>1. CASE EdgeNext /\ UNCHANGED reactor
    BY <1>2, <2>1, EdgeKeepsSignal
  <2>2. CASE ReactorTurn
    BY <1>2, <2>2 DEF ReactorTurn, vars
  <2>3. CASE ReadableCall
    BY <1>2, <2>3 DEF ReadableCall, EnterReady, vars, reactor
  <2>4. CASE AwaitReady \/ Cancel
    BY <1>2, <2>4 DEF AwaitReady, Cancel, vars, reactor
  <2>5. CASE TryIo
    BY <1>2, <2>5 DEF TryIo, vars
  <2>6. CASE PeekHit \/ PeekMiss
    BY <1>2, <2>6 DEF PeekHit, PeekMiss, ReturnOk, vars, reactor
  <2>7. CASE ClearReadiness
    BY <1>2, <2>7 DEF ClearReadiness, vars
  <2>8. CASE AwaitError \/ PeekError
    BY <1>2, <2>8 DEF AwaitError, PeekError, ReturnIo, reactor
  <2>9. CASE UNCHANGED tvars
    BY <1>2, <2>9 DEF tvars, vars, readiness, reactor
  <2> QED BY <1>2, <2>1, <2>2, <2>3, <2>4, <2>5, <2>6, <2>7, <2>8, <2>9
          DEF TokioNext, ReadableStep
<1>3. SignalInv => DataIsSignalled BY DEF SignalInv
<1> QED BY <1>1, <1>2, <1>3, PTL DEF TokioSpec

--------------------------------------------------------------------------------
LEMMA ReadableKeeps ==
  ASSUME RecvSound, PromiseKept,
         ReadableCall \/ ReadableStep \/ AwaitError \/ PeekError \/ Cancel \/ ReactorTurn
  PROVE  RecvSound' /\ PromiseKept' /\ Progress
<1>1. UNCHANGED vars \/ ReturnIo
  BY DEF ReadableCall, EnterReady, ReadableStep, AwaitReady, TryIo, PeekHit, PeekMiss,
         ClearReadiness, AwaitError, PeekError, Cancel, ReactorTurn
<1>2. UNCHANGED <<sock, pc, cap, n>>
  BY <1>1 DEF vars, burst, ReturnIo
<1> SUFFICES PromiseKept' /\ Progress
  BY <1>1, SoundReady
<1>3. CASE ReadableCall
  BY <1>2, <1>3, PromiseReady DEF ReadableCall, EnterReady
<1>4. CASE \/ AwaitReady \/ TryIo \/ PeekMiss \/ ClearReadiness
           \/ AwaitError \/ PeekError \/ Cancel
  <2>1. pc = "idle" /\ ~woken /\ (woken' => woken)
    BY <1>4 DEF AwaitReady, TryIo, PeekMiss, ClearReadiness, AwaitError, PeekError, Cancel,
                ReturnIo, PromiseKept
  <2> QED BY <1>2, <2>1, PromiseReady
<1>5. CASE PeekHit
  BY <1>2, <1>5, PromiseReady DEF PeekHit
<1>6. CASE ReactorTurn
  BY <1>2, <1>6 DEF ReactorTurn, PromiseKept, Progress
<1> QED BY <1>3, <1>4, <1>5, <1>6 DEF ReadableStep

LEMMA TokioStepKeeps ==
  ASSUME RecvSound, PromiseKept, [TokioNext]_tvars
  PROVE  RecvSound' /\ PromiseKept' /\ Progress
<1>1. CASE UNCHANGED tvars
  <2>1. UNCHANGED vars /\ UNCHANGED <<wait, woken, sock, pc, cap, n>>
    BY <1>1 DEF tvars, vars, readiness, burst
  <2> QED BY <2>1, SoundReady DEF PromiseKept, Progress
<1>2. CASE EdgeNext
  BY <1>2, SoundStep, PromiseEdge DEF RecvSound
<1> QED BY <1>1, <1>2, ReadableKeeps DEF TokioNext

LEMMA TokioKeeps == TokioSpec => [](RecvSound /\ PromiseKept)
  BY PromiseInit, SoundInit, TokioStepKeeps, PTL DEF TokioSpec, TokioInit

(***************************************************************************)
(* Around readable(), which may fail or be cancelled at any time,          *)
(* recv_burst still leaks no slab, keeps every frame's bytes, loses no     *)
(* datagram and counts as it should.                                       *)
(***************************************************************************)
THEOREM TokioReceivesSoundly ==
  TokioSpec => [](SlabsAccounted /\ FramesIntact /\ ReapedInOrder /\ MetricsExact)
BY TokioKeeps, SoundFacts, PTL

(***************************************************************************)
(* After readable() returned Ok the next recv_burst with room does not     *)
(* answer Ok(0): the cached bit may be stale, but the peek that confirmed  *)
(* it was not, and only recv_burst takes datagrams off the queue.          *)
(***************************************************************************)
THEOREM TokioReadyMeansProgress == TokioSpec => ReadyMeansProgress
<1>1. RecvSound /\ PromiseKept /\ [TokioNext]_tvars
        => [Progress]_<<vars, readiness>>
  BY TokioStepKeeps
<1> QED BY <1>1, TokioKeeps, PTL DEF TokioSpec, ReadyMeansProgress, Progress
================================================================================
