------------------------------ MODULE MioTcpProofs ------------------------------
(***************************************************************************)
(* Proofs about MioTcp, for any stream, buffer sizes, deadline and faults. *)
(***************************************************************************)
EXTENDS MioTcp, SequenceTheorems, TLAPS

Connecting == {"new", "cpoll", "deadline", "check"}

(***************************************************************************)
(* The inductive invariant.  Until connect returns nothing has been        *)
(* written, so room in the send buffer is no news; a failed handshake is   *)
(* remembered in SO_ERROR until take_error reads it.                       *)
(***************************************************************************)
Counts == inq \in Nat /\ sent \in Nat /\ landed \in Nat /\ read \in Nat

Phases ==
  /\ pc \in PCs /\ edges \subseteq {"R", "W"}
  /\ pc \in Connecting =>
       wire = <<>> /\ outcome # "Ok" /\ (conn = "refused" => soerr)
  /\ pc = "new" => conn = "none"
  /\ pc = "check" => conn \in {"up", "refused"}

IInv == Counts /\ Phases /\ StreamIntact /\ NoLostWakeup /\ ConnectTruthful

LEMMA InitIInv == MioInit => IInv
<1> SUFFICES ASSUME MioInit PROVE IInv
  OBVIOUS
<1>1. /\ conn = "none" /\ inq = 0 /\ sent = 0 /\ landed = 0 /\ read = 0
      /\ wire = <<>> /\ pc = "new" /\ edges = {} /\ outcome = "no call"
  BY DEF MioInit, StreamInit
<1>2. Counts
  BY <1>1 DEF Counts
<1>3. StreamIntact
  <2>1. sent = 0 /\ landed = 0 /\ inq = 0
    BY <1>1
  <2>2. 0 = 0 + 0
    OBVIOUS
  <2> QED BY <2>1, <2>2 DEF StreamIntact
<1>4. Phases /\ NoLostWakeup /\ ConnectTruthful
  BY <1>1 DEF Phases, PCs, Connecting, NoLostWakeup, ConnectTruthful
<1> QED BY <1>2, <1>3, <1>4 DEF IInv

(***************************************************************************)
(* A poll that delivers nothing met no level, so nothing is lost with the  *)
(* edges it used up; one that delivers events was given their level.       *)
(***************************************************************************)
LEMMA EmptyReport ==
  ASSUME {} \in Reports
  PROVE  /\ "R" \in edges => ~Readable
         /\ "W" \in edges => ~Writable
  BY DEF Reports, Level

LEMMA FullReport ==
  ASSUME NEW ev \in Reports
  PROVE  /\ "R" \in ev => Readable
         /\ "W" \in ev => Writable
         /\ "R" \in edges /\ Readable => "R" \in ev
  BY DEF Reports, Level

LEMMA EnvironmentKeeps ==
  ASSUME IInv, Environment
  PROVE  IInv'
<1> USE DEF IInv
<1>1. CASE MHandshakeDone
  BY <1>1 DEF MHandshakeDone, HandshakeDone, inbound, outbound, Counts, Phases, PCs,
              Connecting, StreamIntact, NoLostWakeup, ConnectTruthful, Readable
<1>2. CASE MHandshakeFails
  BY <1>2 DEF MHandshakeFails, HandshakeFails, inbound, outbound, Counts, Phases, PCs,
              Connecting, StreamIntact, NoLostWakeup, ConnectTruthful, Readable
<1>3. CASE MPeerSends
  <2>1. /\ UNCHANGED <<conn, peer, soerr, landed, wire, read, pc, outcome>>
        /\ conn = "up" /\ inq' = inq + 1 /\ sent' = sent + 1
        /\ edges' \in {edges, edges \cup {"R"}}
        /\ ~Readable => "R" \in edges'
    BY <1>3 DEF MPeerSends, PeerSends, RaiseR, outbound
  <2>2. Counts' /\ StreamIntact' /\ ConnectTruthful'
    BY <2>1 DEF Counts, StreamIntact, ConnectTruthful
  <2>3. Phases'
    BY <2>1 DEF Phases, PCs, Connecting
  <2>4. NoLostWakeup'
    BY <2>1 DEF NoLostWakeup, Writable, Room
  <2> QED BY <2>2, <2>3, <2>4
<1>4. CASE MPeerCloses
  <2>1. /\ UNCHANGED <<conn, soerr, inq, sent, landed, wire, read, pc, outcome>>
        /\ edges' \in {edges, edges \cup {"R"}}
        /\ ~Readable => "R" \in edges'
        /\ peer = "open" /\ peer' = "closed"
    BY <1>4 DEF MPeerCloses, PeerCloses, RaiseR, inbound, outbound
  <2>2. Counts' /\ StreamIntact' /\ ConnectTruthful'
    BY <2>1 DEF Counts, StreamIntact, ConnectTruthful
  <2>3. Phases'
    BY <2>1 DEF Phases, PCs, Connecting
  <2>4. NoLostWakeup'
    BY <2>1 DEF NoLostWakeup, Writable, Room
  <2> QED BY <2>2, <2>3, <2>4
<1>5. CASE MPeerReads
  <2>1. /\ UNCHANGED <<conn, peer, soerr, inq, sent, landed, wire, pc, outcome>>
        /\ read < Len(wire) /\ read' = read + 1
        /\ edges' \in {edges, edges \cup {"W"}}
    BY <1>5 DEF MPeerReads, PeerReads, inbound
  <2>2. pc \notin Connecting
    BY <2>1 DEF Phases, Counts
  <2> QED BY <2>1, <2>2 DEF Counts, Phases, PCs, Connecting, StreamIntact,
             NoLostWakeup, ConnectTruthful, Readable
<1>6. CASE MPeerResets
  <2>1. /\ UNCHANGED <<conn, landed, wire, read, pc, outcome>>
        /\ inq' \in {inq, 0} /\ sent' = sent - (inq - inq') /\ soerr'
        /\ edges' = edges \cup {"R", "W"}
    BY <1>6 DEF MPeerResets, PeerResets, outbound
  <2>2. Counts' /\ StreamIntact'
    <3>1. CASE inq' = inq
      <4>1. sent' = sent
        BY <2>1, <3>1 DEF Counts
      <4> QED BY <2>1, <3>1, <4>1 DEF Counts, StreamIntact
    <3>2. CASE inq' = 0
      <4>1. sent' = landed
        BY <2>1, <3>2 DEF Counts, StreamIntact
      <4> QED BY <2>1, <3>2, <4>1 DEF Counts, StreamIntact
    <3> QED BY <2>1, <3>1, <3>2
  <2> QED BY <2>1, <2>2 DEF Phases, PCs, Connecting, NoLostWakeup, ConnectTruthful
<1> QED BY <1>1, <1>2, <1>3, <1>4, <1>5, <1>6 DEF Environment

LEMMA ConnectKeeps ==
  ASSUME IInv,
         \/ ConnectCall \/ ConnectRefusedAtOnce \/ ConnectSetupFails
         \/ ConnectPollFails \/ ConnectStep
  PROVE  IInv'
<1> USE DEF IInv
<1>1. CASE ConnectCall
  BY <1>1 DEF ConnectCall, Goto, inbound, outbound, Counts, Phases, PCs, Connecting,
              StreamIntact, NoLostWakeup, ConnectTruthful, Writable
<1>2. CASE ConnectRefusedAtOnce \/ ConnectSetupFails \/ ConnectPollFails
  BY <1>2 DEF ConnectRefusedAtOnce, ConnectSetupFails, ConnectPollFails, ConnectFail,
              Goto, inbound, outbound, Counts, Phases, PCs, Connecting, StreamIntact,
              NoLostWakeup, ConnectTruthful
<1>3. CASE ConnectEvent
  <2>1. PICK ev \in Reports : Poll(ev) /\ "W" \in ev
    BY <1>3 DEF ConnectEvent
  <2>2. conn \in {"up", "refused"}
    BY <2>1, FullReport DEF Writable
  <2> QED BY <1>3, <2>1, <2>2 DEF ConnectEvent, Poll, Goto, svars, inbound, outbound,
             Counts, Phases, PCs, Connecting, StreamIntact, NoLostWakeup, ConnectTruthful
<1>4. CASE ConnectQuiet \/ ConnectAgain
  <2>1. /\ UNCHANGED <<conn, peer, soerr, inq, sent, landed, wire, read, edges, outcome>>
        /\ SndCap' = SndCap
        /\ pc \in {"cpoll", "deadline"} /\ pc' \in {"cpoll", "deadline"}
    BY <1>4 DEF ConnectQuiet, ConnectAgain, Goto, svars, inbound, outbound
  <2> QED BY <2>1 DEF Counts, Phases, PCs, Connecting, StreamIntact, NoLostWakeup,
             ConnectTruthful, Writable, Room
<1>5. CASE ConnectTimedOut \/ ConnectError
  BY <1>5 DEF ConnectTimedOut, ConnectError, ConnectFail, Goto, svars, inbound,
              outbound, Counts, Phases, PCs, Connecting, StreamIntact, NoLostWakeup,
              ConnectTruthful
<1>6. CASE ConnectUp
  <2>1. conn = "up"
    BY <1>6 DEF ConnectUp, Phases, Connecting
  <2> QED BY <1>6, <2>1 DEF ConnectUp, Goto, svars, inbound, outbound, Counts, Phases,
             PCs, Connecting, StreamIntact, NoLostWakeup, ConnectTruthful
<1> QED BY <1>1, <1>2, <1>3, <1>4, <1>5, <1>6 DEF ConnectStep

LEMMA RecvKeeps ==
  ASSUME IInv, NEW d \in 0 .. MaxDst, MRecvInto(d)
  PROVE  IInv'
<1> USE DEF IInv
<1>1. pc = "idle" /\ UNCHANGED <<pc, edges, outcome, conn, wire, read>>
  BY DEF MRecvInto, RecvInto, RecvLand, RecvClosed, RecvEmptyDst, RecvBlocks, RecvError,
         outbound
<1>2. Counts' /\ StreamIntact'
  <2>1. CASE RecvLand(d)
    <3>1. PICK k \in 1 .. (IF d <= inq THEN d ELSE inq) :
            inq' = inq - k /\ landed' = landed + k
      BY <2>1 DEF RecvLand
    <3>2. sent' = sent
      BY <2>1 DEF RecvLand
    <3> QED BY <1>1, <3>1, <3>2 DEF Counts, StreamIntact
  <2>2. CASE RecvClosed(d) \/ RecvEmptyDst(d) \/ RecvBlocks(d) \/ RecvError(d)
    BY <1>1, <2>2 DEF RecvClosed, RecvEmptyDst, RecvBlocks, RecvError, Counts, StreamIntact
  <2> QED BY <2>1, <2>2 DEF MRecvInto, RecvInto
<1> QED BY <1>1, <1>2 DEF Phases, PCs, Connecting, NoLostWakeup, ConnectTruthful

LEMMA ReadyKeeps ==
  ASSUME IInv, ReadyCall \/ ReadyStep \/ ParkFails
  PROVE  IInv'
<1> USE DEF IInv
<1>1. UNCHANGED <<conn, inq, sent, landed, wire, read, outcome>>
  BY DEF ReadyCall, OtherCall, ReadyStep, ProbeHit, ProbeError, ProbeMiss,
         ParkReadable, ParkWritable, ParkFails, ReadyReturn, svars, inbound, outbound
<1>2. pc \in {"idle", "probe", "park"} /\ edges' \subseteq edges
  BY DEF ReadyCall, ReadyStep, ProbeHit, ProbeError, ProbeMiss, ParkReadable,
         ParkWritable, ParkFails, Poll
<1>3. pc' \in {"idle", "probe", "park"}
  BY <1>2 DEF ReadyCall, ReadyStep, ProbeHit, ProbeError, ProbeMiss, ParkReadable,
         ParkWritable, ParkFails, ReadyReturn, Goto
<1>4. pc' = "park" => ~Readable'
  <2>1. CASE ProbeMiss
    BY <2>1 DEF ProbeMiss, svars, inbound, Readable
  <2>2. CASE ParkWritable
    <3>1. PICK ev \in Reports : Poll(ev) /\ "R" \notin ev
      BY <2>2 DEF ParkWritable
    <3>2. ~Readable
      BY <2>2, <3>1, FullReport DEF ParkWritable, NoLostWakeup
    <3> QED BY <2>2, <3>2 DEF ParkWritable, svars, inbound, Readable
  <2>3. CASE ReadyCall \/ ProbeHit \/ ProbeError \/ ParkReadable \/ ParkFails
    BY <2>3 DEF ReadyCall, ProbeHit, ProbeError, ParkReadable, ParkFails, ReadyReturn, Goto
  <2> QED BY <2>1, <2>2, <2>3 DEF ReadyStep
<1> QED BY <1>1, <1>2, <1>3, <1>4 DEF Counts, Phases, PCs, Connecting, StreamIntact,
           NoLostWakeup, ConnectTruthful

LEMMA SendKeeps ==
  ASSUME IInv, (\E s \in Sizes : MSendCall(s)) \/ SendStep \/ SendInterrupted
  PROVE  IInv'
<1> USE DEF IInv
<1>1. UNCHANGED <<conn, inq, sent, landed, read, outcome>>
  BY DEF MSendCall, SendCall, SendStep, MWriteSome, WriteSome, MWriteBlocks, WriteBlocks,
         MSendOk, SendOk, MWriteFails, WriteFails, SendEvent, SendQuiet, SendInterrupted,
         SendCut, svars, inbound, outbound, local
<1>2. pc \in {"idle", "write", "spoll"} /\ edges' \subseteq edges
  BY DEF MSendCall, SendStep, MWriteSome, MWriteBlocks, MSendOk, MWriteFails, SendEvent,
         SendQuiet, SendInterrupted, Poll, local
<1>3. pc' \in {"idle", "write", "spoll"}
  BY <1>2 DEF MSendCall, SendStep, MWriteSome, MWriteBlocks, MSendOk, MWriteFails,
         SendEvent, SendQuiet, SendInterrupted, Goto, local
<1> QED BY <1>1, <1>2, <1>3 DEF Counts, Phases, PCs, Connecting, StreamIntact,
           NoLostWakeup, ConnectTruthful

LEMMA StaleKeeps ==
  ASSUME IInv, PollStale
  PROVE  IInv'
<1>1. UNCHANGED <<conn, peer, soerr, inq, sent, landed, wire, read, pc, outcome>>
  BY DEF PollStale, svars, inbound, outbound
<1>2. edges' = {} /\ {} \in Reports /\ SndCap' = SndCap
  BY DEF PollStale
<1>3. NoLostWakeup'
  BY <1>1, <1>2, EmptyReport DEF IInv, NoLostWakeup, Readable, Writable, Room
<1> QED BY <1>1, <1>2, <1>3 DEF IInv, Counts, Phases, PCs, Connecting, StreamIntact,
           ConnectTruthful

LEMMA Inductive == MioSpec => []IInv
<1>1. ASSUME IInv, [MioNext]_mvars
      PROVE  IInv'
  <2>1. CASE UNCHANGED mvars
    BY <1>1, <2>1 DEF mvars, svars, local, inbound, outbound, IInv, Counts, Phases, PCs,
                      Connecting, StreamIntact, NoLostWakeup, ConnectTruthful, Readable,
                      Writable, Room
  <2> QED BY <1>1, <2>1, EnvironmentKeeps, ConnectKeeps, RecvKeeps, ReadyKeeps, SendKeeps,
             StaleKeeps DEF MioNext
<1> QED BY <1>1, InitIInv, PTL DEF MioSpec

(***************************************************************************)
(* ready() never sleeps next to something to read, and wait_connect never  *)
(* next to an established connection, without an edge to wake it.          *)
(***************************************************************************)
THEOREM TcpNeverLosesWakeup == MioSpec => []NoLostWakeup
  BY Inductive, PTL DEF IInv

(***************************************************************************)
(* recv_into and the probes of ready() lose no byte of the stream.         *)
(***************************************************************************)
THEOREM TcpStreamIntact == MioSpec => []StreamIntact
  BY Inductive, PTL DEF IInv

(***************************************************************************)
(* connect() answers Ok only when the handshake is done.                   *)
(***************************************************************************)
THEOREM TcpConnectTruthful == MioSpec => []ConnectTruthful
  BY Inductive, PTL DEF IInv

--------------------------------------------------------------------------------
\* What recv_into answers, field by field.
LEMMA AnswerFields ==
  ASSUME NEW kind, NEW count, NEW dst, result' = Answer(kind, count, dst)
  PROVE  /\ result'.kind = kind /\ result'.n = count /\ result'.dst = dst
         /\ result'.queued = inq /\ (result'.open <=> peer = "open")
  BY DEF Answer

(***************************************************************************)
(* An answer is made by recv_into alone, from the queue and the peer it    *)
(* met; every other step keeps it or forgets it.                           *)
(***************************************************************************)
LEMMA RecvAnswers ==
  ASSUME Counts, NEW d \in 0 .. MaxDst, RecvInto(d)
  PROVE  AnswersTrue'
<1>1. CASE RecvLand(d)
  <2>1. PICK k \in 1 .. (IF d <= inq THEN d ELSE inq) : result' = Answer("Ok", k, d)
    BY <1>1 DEF RecvLand
  <2>2. k # 0
    BY <2>1 DEF Counts
  <2>3. result'.kind = "Ok" /\ result'.n # 0
    BY <2>1, <2>2, AnswerFields
  <2> QED BY <2>3 DEF AnswersTrue
<1>2. CASE RecvClosed(d)
  <2>1. inq = 0 /\ peer # "open" /\ result' = Answer("UnexpectedEof", 0, d)
    BY <1>2 DEF RecvClosed
  <2>2. result'.kind = "UnexpectedEof" /\ result'.queued = 0 /\ ~result'.open
    BY <2>1, AnswerFields
  <2> QED BY <2>2 DEF AnswersTrue
<1>3. CASE RecvEmptyDst(d)
  <2>1. result' = Answer("UnexpectedEof", 0, d) /\ d = 0
    BY <1>3 DEF RecvEmptyDst
  <2>2. result'.kind = "UnexpectedEof" /\ result'.dst = 0
    BY <2>1, AnswerFields
  <2> QED BY <2>2 DEF AnswersTrue
<1>4. CASE RecvBlocks(d)
  <2>1. inq = 0 /\ peer = "open" /\ result' = Answer("Ok", 0, d)
    BY <1>4 DEF RecvBlocks
  <2>2. result'.kind = "Ok" /\ result'.queued = 0 /\ result'.open
    BY <2>1, AnswerFields
  <2> QED BY <2>2 DEF AnswersTrue
<1>5. CASE RecvError(d)
  <2>1. result' = Answer("Io", 0, d)
    BY <1>5 DEF RecvError
  <2>2. result'.kind = "Io"
    BY <2>1, AnswerFields
  <2> QED BY <2>2 DEF AnswersTrue
<1> QED BY <1>1, <1>2, <1>3, <1>4, <1>5 DEF RecvInto

LEMMA OthersKeepAnswer ==
  ASSUME [MioNext]_mvars
  PROVE  \/ UNCHANGED result
         \/ result' = NoAnswer
         \/ \E d \in 0 .. MaxDst : MRecvInto(d)
<1>1. CASE UNCHANGED mvars
  BY <1>1 DEF mvars, svars, inbound
<1>2. CASE Environment
  BY <1>2 DEF Environment, MHandshakeDone, HandshakeDone, MHandshakeFails, HandshakeFails,
              MPeerSends, PeerSends, MPeerCloses, PeerCloses, MPeerReads, PeerReads,
              MPeerResets, PeerResets, inbound
<1>3. CASE \/ ConnectCall \/ ConnectRefusedAtOnce \/ ConnectSetupFails \/ ConnectPollFails
           \/ ConnectStep \/ PollStale
  BY <1>3 DEF ConnectCall, ConnectRefusedAtOnce, ConnectSetupFails, ConnectPollFails,
              ConnectStep, ConnectEvent, ConnectQuiet, ConnectTimedOut, ConnectAgain,
              ConnectUp, ConnectError, PollStale, svars, inbound
<1>4. CASE ReadyCall \/ ReadyStep \/ ParkFails
  BY <1>4 DEF ReadyCall, OtherCall, ReadyStep, ProbeHit, ProbeError, ProbeMiss,
              ParkReadable, ParkWritable, ParkFails, svars, inbound
<1>5. CASE (\E s \in Sizes : MSendCall(s)) \/ SendStep \/ SendInterrupted
  BY <1>5 DEF MSendCall, SendCall, SendStep, MWriteSome, WriteSome, MWriteBlocks, WriteBlocks,
              MSendOk, SendOk, MWriteFails, WriteFails, SendEvent, SendQuiet,
              SendInterrupted, SendCut, svars, inbound
<1> QED BY <1>1, <1>2, <1>3, <1>4, <1>5 DEF MioNext

(***************************************************************************)
(* Ok(0) means that nothing was queued on an open connection, and          *)
(* UnexpectedEof, asked for with room, that everything was landed.         *)
(***************************************************************************)
THEOREM TcpAnswersTrue == MioSpec => []AnswersTrue
<1>1. MioInit => AnswersTrue
  <2> SUFFICES ASSUME MioInit PROVE AnswersTrue
    OBVIOUS
  <2>1. result.kind = "no call"
    BY DEF MioInit, StreamInit, NoAnswer
  <2> QED BY <2>1 DEF AnswersTrue
<1>2. ASSUME IInv, AnswersTrue, [MioNext]_mvars
      PROVE  AnswersTrue'
  <2>1. CASE UNCHANGED result
    BY <1>2, <2>1 DEF AnswersTrue
  <2>3. CASE result' = NoAnswer
    <3>1. result'.kind = "no call"
      BY <2>3 DEF NoAnswer
    <3> QED BY <3>1 DEF AnswersTrue
  <2>2. CASE \E d \in 0 .. MaxDst : MRecvInto(d)
    BY <1>2, <2>2, RecvAnswers DEF MRecvInto, IInv
  <2> QED BY <1>2, <2>1, <2>2, <2>3, OthersKeepAnswer
<1> QED BY <1>1, <1>2, Inductive, PTL DEF MioSpec
--------------------------------------------------------------------------------
(***************************************************************************)
(* What ready() promises holds until recv_into is called: the socket stays *)
(* readable.  A send in between may take SO_ERROR away, but then the       *)
(* connection was reset, and that stays.                                   *)
(***************************************************************************)
PromiseKept == woken => Readable /\ pc \in {"idle", "write", "spoll"}

LEMMA EnvironmentKeepsPromise ==
  ASSUME Counts, PromiseKept, Environment
  PROVE  PromiseKept'
<1>1. UNCHANGED <<pc, woken>>
  BY DEF Environment, MHandshakeDone, MHandshakeFails, MPeerSends, MPeerCloses, MPeerReads,
         MPeerResets
<1>2. Readable => Readable'
  <2>1. CASE MHandshakeDone \/ MHandshakeFails \/ MPeerReads
    BY <2>1 DEF MHandshakeDone, HandshakeDone, MHandshakeFails, HandshakeFails, MPeerReads,
                PeerReads, inbound, Readable
  <2>2. CASE MPeerSends
    BY <2>2 DEF MPeerSends, PeerSends, Readable, Counts
  <2>3. CASE MPeerCloses \/ MPeerResets
    BY <2>3 DEF MPeerCloses, PeerCloses, MPeerResets, PeerResets, Readable
  <2> QED BY <2>1, <2>2, <2>3 DEF Environment
<1> QED BY <1>1, <1>2 DEF PromiseKept

LEMMA PromiseStep ==
  ASSUME Counts, PromiseKept, [MioNext]_mvars
  PROVE  PromiseKept'
<1>1. CASE UNCHANGED mvars
  BY <1>1 DEF mvars, svars, local, inbound, PromiseKept, Readable
<1>2. CASE \/ ConnectCall \/ ConnectRefusedAtOnce \/ ConnectSetupFails \/ ConnectPollFails
           \/ ConnectStep
  <2>1. pc \in {"new", "cpoll", "deadline", "check"} /\ woken' = woken
    BY <1>2 DEF ConnectCall, ConnectRefusedAtOnce, ConnectSetupFails, ConnectPollFails,
                ConnectStep, ConnectEvent, ConnectQuiet, ConnectTimedOut, ConnectAgain,
                ConnectUp, ConnectError, ConnectFail
  <2> QED BY <2>1 DEF PromiseKept
<1>3. CASE PollStale
  BY <1>3 DEF PollStale, svars, inbound, PromiseKept, Readable
<1>4. CASE \/ \E d \in 0 .. MaxDst : MRecvInto(d)
           \/ ReadyCall \/ ProbeError \/ ParkFails
  BY <1>4 DEF MRecvInto, ReadyCall, ProbeError, ParkFails, ReadyReturn, PromiseKept
<1>5. CASE ProbeHit
  BY <1>5 DEF ProbeHit, ReadyReturn, Goto, svars, inbound, PromiseKept, Readable
<1>6. CASE ParkReadable
  <2>1. Readable
    BY <1>6, FullReport DEF ParkReadable, Poll
  <2> QED BY <1>6, <2>1 DEF ParkReadable, ReadyReturn, Goto, svars, inbound, PromiseKept,
                            Readable
<1>7. CASE ProbeMiss \/ ParkWritable
  BY <1>7 DEF ProbeMiss, ParkWritable, PromiseKept
<1>8. CASE (\E s \in Sizes : MSendCall(s)) \/ SendStep \/ SendInterrupted
  <2>1. woken' = woken /\ pc' \in {"idle", "write", "spoll"}
    BY <1>8 DEF MSendCall, SendStep, MWriteSome, MWriteBlocks, MSendOk, MWriteFails,
                SendEvent, SendQuiet, SendInterrupted, Goto, local
  <2>2. Readable => Readable'
    BY <1>8 DEF MSendCall, SendCall, SendStep, MWriteSome, WriteSome, MWriteBlocks,
                WriteBlocks, MSendOk, SendOk, MWriteFails, WriteFails, SendEvent, SendQuiet,
                SendInterrupted, SendCut, svars, inbound, Readable
  <2> QED BY <2>1, <2>2 DEF PromiseKept
<1> QED BY <1>1, <1>2, <1>3, <1>4, <1>5, <1>6, <1>7, <1>8, EnvironmentKeepsPromise
        DEF MioNext, ReadyStep

(***************************************************************************)
(* After ready() returned Ok the next recv_into with room does not answer  *)
(* Ok(0), whatever was sent in between.                                    *)
(***************************************************************************)
THEOREM TcpReadyMeansProgress == MioSpec => ReadyMeansProgress
<1> DEFINE Step == woken /\ ~woken' /\ pc = "idle" /\ pc' = "idle" /\ result'.dst > 0 =>
                     ~(result'.kind = "Ok" /\ result'.n = 0)
<1>1. MioInit => PromiseKept
  BY DEF MioInit, PromiseKept
<1>2. ASSUME IInv, PromiseKept, [MioNext]_mvars
      PROVE  PromiseKept' /\ [Step]_mvars
  <2>1. PromiseKept'
    BY <1>2, PromiseStep DEF IInv
  <2>2. SUFFICES ASSUME woken, ~woken', pc = "idle", pc' = "idle", result'.dst > 0
                 PROVE  ~(result'.kind = "Ok" /\ result'.n = 0)
    BY <2>1
  <2>3. PICK d \in 0 .. MaxDst : MRecvInto(d)
    BY <1>2, <2>2 DEF MioNext, Environment, MHandshakeDone, MHandshakeFails, MPeerSends,
       MPeerCloses, MPeerReads, MPeerResets, ConnectCall, ConnectRefusedAtOnce,
       ConnectSetupFails, ConnectPollFails, ConnectStep, ConnectEvent, ConnectQuiet,
       ConnectTimedOut, ConnectAgain, ConnectUp, ConnectError, ConnectFail, ReadyCall,
       ReadyStep, ProbeHit, ProbeError, ProbeMiss, ParkReadable, ParkWritable, ParkFails,
       ReadyReturn, MSendCall, SendStep, MWriteSome, MWriteBlocks, MSendOk, MWriteFails,
       SendEvent, SendQuiet, SendInterrupted, PollStale, Goto, local, mvars
  <2>4. Readable
    BY <1>2, <2>2 DEF PromiseKept
  <2>5. CASE RecvLand(d)
    <3>1. PICK k \in 1 .. (IF d <= inq THEN d ELSE inq) : result' = Answer("Ok", k, d)
      BY <2>5 DEF RecvLand
    <3>2. k # 0
      BY <1>2, <3>1 DEF IInv, Counts
    <3> QED BY <3>1, <3>2 DEF Answer
  <2>6. CASE RecvClosed(d) \/ RecvEmptyDst(d) \/ RecvError(d)
    BY <2>6 DEF RecvClosed, RecvEmptyDst, RecvError, Answer
  <2>7. CASE RecvBlocks(d)
    BY <2>4, <2>7 DEF RecvBlocks, Readable
  <2> QED BY <2>3, <2>5, <2>6, <2>7 DEF MRecvInto, RecvInto
<1> QED BY <1>1, <1>2, Inductive, PTL DEF MioSpec, ReadyMeansProgress
--------------------------------------------------------------------------------
(***************************************************************************)
(* A piece of k bytes put behind a sequence ends the result: its last byte *)
(* is the last one of the result.                                          *)
(***************************************************************************)
LEMMA AppendPiece ==
  ASSUME NEW S, NEW w \in Seq(S), NEW k \in Nat, k >= 1, NEW piece \in [1 .. k -> S]
  PROVE  /\ w \o piece \in Seq(S) /\ w \o piece # <<>>
         /\ (w \o piece)[Len(w \o piece)] = piece[k]
<1>1. piece \in Seq(S)
  BY SeqDef
<1>2. Len(piece) = k
  <2>1. Len(piece) \in Nat
    BY <1>1, LenProperties
  <2>2. 1 .. Len(piece) = 1 .. k
    BY <1>1, LenProperties
  <2>3. k \in 1 .. Len(piece) /\ (Len(piece) >= 1 => Len(piece) \in 1 .. k)
    <3>1. k \in 1 .. k /\ (Len(piece) >= 1 => Len(piece) \in 1 .. Len(piece))
      BY <2>1
    <3> QED BY <2>2, <3>1
  <2> QED BY <2>1, <2>3
<1> DEFINE top == Len(w) + k
<1>3. /\ w \o piece \in Seq(S)
      /\ Len(w \o piece) = top
      /\ \A i \in 1 .. top :
           (w \o piece)[i] = IF i <= Len(w) THEN w[i] ELSE piece[i - Len(w)]
  BY <1>1, <1>2, ConcatProperties
<1>4. top \in 1 .. top /\ ~(top <= Len(w)) /\ top - Len(w) = k /\ top # 0
  <2>1. Len(w) \in Nat
    BY LenProperties
  <2> QED BY <2>1
<1> HIDE DEF top
<1>5. (w \o piece)[top] = piece[top - Len(w)]
  BY <1>3, <1>4, Zenon
<1>6. w \o piece # <<>>
  BY <1>3, <1>4, EmptySeq
<1> QED BY <1>3, <1>4, <1>5, <1>6, Zenon
--------------------------------------------------------------------------------
Writing == pc \in {"write", "spoll"}

Cell == [msg : Nat, off : Nat]
Reply == [size : Nat, reply : {"Ok", "Io", "Cancelled"}]

(***************************************************************************)
(* What the refinement needs: while a send is under way its offset is the  *)
(* one read off the wire, and between sends the wire has nothing of the    *)
(* next one yet.                                                           *)
(***************************************************************************)
StreamTypes ==
  /\ inq \in Nat /\ landed \in Nat /\ read \in Nat
  /\ wire \in Seq(Cell) /\ sends \in Seq(Reply)
  /\ size \in Nat /\ off \in Nat /\ off <= size

OffsetOnWire == Writing => off = Contract!Emitted

NoneAhead ==
  wire # <<>> =>
    /\ wire[Len(wire)].msg <= Len(sends) + 1
    /\ ~Writing => wire[Len(wire)].msg <= Len(sends)

StreamInv == StreamTypes /\ OffsetOnWire /\ NoneAhead

(***************************************************************************)
(* A step that leaves the stream alone, and is not the begin or the end of *)
(* a send, stutters.                                                       *)
(***************************************************************************)
LEMMA QuietStep ==
  ASSUME StreamInv, UNCHANGED <<peer, inq, landed, wire, sends, size, off>>,
         read' \in Nat, Writing' <=> Writing
  PROVE  StreamInv' /\ UNCHANGED Contract!vars
<1>1. StreamInv'
  BY DEF StreamInv, StreamTypes, OffsetOnWire, NoneAhead, Contract!Emitted, Contract!Msg
<1>2. (pc \in {"write", "spoll"})' = (pc \in {"write", "spoll"})
  BY DEF Writing
<1>3. UNCHANGED Contract!vars
  BY <1>2 DEF Contract!vars
<1> QED BY <1>1, <1>3

\* What a step shows of itself to ByteStream.
Shown == StreamInv' /\ [Contract!Next]_(Contract!vars)

LEMMA QuietSteps ==
  ASSUME StreamInv,
         \/ MHandshakeDone \/ MHandshakeFails \/ MPeerReads
         \/ ConnectCall \/ ConnectRefusedAtOnce \/ ConnectSetupFails \/ ConnectPollFails
         \/ ConnectStep \/ ReadyCall \/ ReadyStep \/ ParkFails \/ PollStale
  PROVE  Shown
<1>1. CASE MHandshakeDone \/ MHandshakeFails \/ MPeerReads
  <2>1. UNCHANGED <<peer, inq, landed, wire, sends, size, off, pc>>
    BY <1>1 DEF MHandshakeDone, HandshakeDone, MHandshakeFails, HandshakeFails, MPeerReads,
                PeerReads, inbound, outbound
  <2>2. read' \in Nat
    BY <1>1 DEF MHandshakeDone, HandshakeDone, MHandshakeFails, HandshakeFails, MPeerReads,
                PeerReads, outbound, StreamInv, StreamTypes
  <2> QED BY <2>1, <2>2, QuietStep DEF Shown, Writing
<1>2. CASE \/ ConnectCall \/ ConnectRefusedAtOnce \/ ConnectSetupFails \/ ConnectPollFails
           \/ ConnectStep
  <2>1. UNCHANGED <<peer, inq, landed, wire, sends, size, off, read>>
    BY <1>2 DEF ConnectCall, ConnectRefusedAtOnce, ConnectSetupFails, ConnectPollFails,
                ConnectStep, ConnectEvent, ConnectQuiet, ConnectTimedOut, ConnectAgain,
                ConnectUp, ConnectError, svars, inbound, outbound
  <2>2. Writing' <=> Writing
    BY <1>2 DEF ConnectCall, ConnectRefusedAtOnce, ConnectSetupFails, ConnectPollFails,
                ConnectStep, ConnectEvent, ConnectQuiet, ConnectTimedOut, ConnectAgain,
                ConnectUp, ConnectError, ConnectFail, Writing, Goto
  <2> QED BY <2>1, <2>2, QuietStep DEF Shown, StreamInv, StreamTypes
<1>3. CASE ReadyCall \/ ReadyStep \/ ParkFails
  <2>1. UNCHANGED <<peer, inq, landed, wire, sends, size, off, read>>
    BY <1>3 DEF ReadyCall, OtherCall, ReadyStep, ProbeHit, ProbeError, ProbeMiss,
                ParkReadable, ParkWritable, ParkFails, svars, inbound, outbound
  <2>2. Writing' <=> Writing
    BY <1>3 DEF ReadyCall, ReadyStep, ProbeHit, ProbeError, ProbeMiss, ParkReadable,
                ParkWritable, ParkFails, ReadyReturn, Writing, Goto
  <2> QED BY <2>1, <2>2, QuietStep DEF Shown, StreamInv, StreamTypes
<1>4. CASE PollStale
  <2>1. UNCHANGED <<peer, inq, landed, wire, sends, size, off, read, pc>>
    BY <1>4 DEF PollStale, svars, inbound, outbound
  <2> QED BY <2>1, QuietStep DEF Shown, Writing, StreamInv, StreamTypes
<1> QED BY <1>1, <1>2, <1>3, <1>4

LEMMA PeerSteps ==
  ASSUME StreamInv, MPeerSends \/ MPeerCloses \/ MPeerResets
  PROVE  Shown
<1>1. UNCHANGED <<landed, wire, sends, size, off, read, pc>>
  BY DEF MPeerSends, PeerSends, MPeerCloses, PeerCloses, MPeerResets, PeerResets, RaiseR,
         inbound, outbound
<1>2. inq' \in Nat
  BY DEF MPeerSends, PeerSends, MPeerCloses, PeerCloses, MPeerResets, PeerResets, inbound,
         StreamInv, StreamTypes
<1>3. StreamInv'
  BY <1>1, <1>2 DEF StreamInv, StreamTypes, OffsetOnWire, NoneAhead, Writing,
                    Contract!Emitted, Contract!Msg
<1>4. Contract!Supply \/ Contract!Close \/ Contract!Reset
  BY <1>1 DEF MPeerSends, PeerSends, MPeerCloses, PeerCloses, MPeerResets, PeerResets,
              inbound, Contract!Supply, Contract!Close, Contract!Reset
<1> QED BY <1>3, <1>4 DEF Shown, Contract!Next

LEMMA RecvSteps ==
  ASSUME StreamInv, NEW d \in 0 .. MaxDst, MRecvInto(d)
  PROVE  Shown
<1>1. CASE RecvLand(d)
  <2>1. PICK k \in 1 .. (IF d <= inq THEN d ELSE inq) :
          inq' = inq - k /\ landed' = landed + k
    BY <1>1 DEF RecvLand
  <2>2. UNCHANGED <<peer, wire, sends, size, off, read, pc>>
    BY <1>1 DEF RecvLand, MRecvInto, outbound
  <2>3. inq' \in Nat /\ inq' < inq /\ landed' \in Nat /\ landed' = landed + (inq - inq')
    <3>1. inq \in Nat /\ landed \in Nat /\ k \in Nat /\ k >= 1 /\ k <= inq
      BY <2>1 DEF StreamInv, StreamTypes
    <3> QED BY <2>1, <3>1
  <2>4. StreamInv'
    BY <2>2, <2>3 DEF StreamInv, StreamTypes, OffsetOnWire, NoneAhead, Writing,
                      Contract!Emitted, Contract!Msg
  <2>5. Contract!Land
    BY <2>2, <2>3 DEF Contract!Land
  <2> QED BY <2>4, <2>5 DEF Shown, Contract!Next
<1>2. CASE ~RecvLand(d)
  <2>1. UNCHANGED <<peer, inq, landed, wire, sends, size, off, read, pc>>
    BY <1>2 DEF MRecvInto, RecvInto, RecvClosed, RecvEmptyDst, RecvBlocks, RecvError, outbound
  <2> QED BY <2>1, QuietStep DEF Shown, Writing, StreamInv, StreamTypes
<1> QED BY <1>1, <1>2

LEMMA SendSteps ==
  ASSUME StreamInv, (\E s \in Sizes : MSendCall(s)) \/ SendStep \/ SendInterrupted
  PROVE  Shown
<1>1. ASSUME NEW s \in Sizes, MSendCall(s)
      PROVE  Shown
  <2>1. /\ UNCHANGED <<peer, inq, landed, wire, sends, read>>
        /\ size' = s /\ off' = 0 /\ pc = "idle" /\ pc' = "write"
    BY <1>1 DEF MSendCall, SendCall, Goto
  <2>2. s \in Nat
    BY StreamAssumption
  <2>3. Contract!Emitted = 0
    <3>1. wire # <<>> => wire[Len(wire)].msg <= Len(sends)
      BY <2>1 DEF StreamInv, NoneAhead, Writing
    <3>2. Len(sends) \in Nat
      BY LenProperties DEF StreamInv, StreamTypes
    <3>3. wire # <<>> => wire[Len(wire)] \in Cell
      BY LenProperties, ElementOfSeq, EmptySeq DEF StreamInv, StreamTypes
    <3> QED BY <3>1, <3>2, <3>3 DEF Contract!Emitted, Contract!Msg, Cell
  <2>4. Contract!Emitted' = Contract!Emitted
    BY <2>1 DEF Contract!Emitted, Contract!Msg
  <2>5. StreamInv'
    BY <2>1, <2>2, <2>3, <2>4 DEF StreamInv, StreamTypes, OffsetOnWire, NoneAhead, Writing
  <2>6. Contract!Begin
    BY <2>1 DEF Contract!Begin
  <2> QED BY <2>5, <2>6 DEF Shown, Contract!Next
<1>2. CASE MWriteSome
  <2>1. PICK k \in 1 .. (IF Room <= size - off THEN Room ELSE size - off) :
          /\ wire' = wire \o [j \in 1 .. k |-> [msg |-> Len(sends) + 1, off |-> off + j]]
          /\ off' = off + k
    BY <1>2 DEF MWriteSome, WriteSome
  <2>2. /\ UNCHANGED <<peer, inq, landed, sends, size, read, pc>>
        /\ pc = "write" /\ peer # "reset"
    BY <1>2 DEF MWriteSome, WriteSome, inbound, local
  <2>0. off' = off + k
    BY <2>1
  <2>3. /\ k \in Nat /\ k >= 1 /\ k <= size - off /\ size - off \in Nat
        /\ off \in Nat /\ size \in Nat /\ off + k <= size /\ k \in 1 .. size
    <3>1. size \in Nat /\ off \in Nat /\ off <= size
      BY DEF StreamInv, StreamTypes
    <3>2. Room \in Int /\ size - off \in Int
      BY <3>1, StreamAssumption, LenProperties DEF Room, StreamInv, StreamTypes
    <3>3. k \in 1 .. (IF Room <= size - off THEN Room ELSE size - off)
      OBVIOUS
    <3>4. k \in Int /\ k >= 1 /\ k <= size - off
      BY <3>2, <3>3
    <3> QED BY <3>1, <3>4
  <2>4. Len(sends) \in Nat /\ Len(sends) + 1 \in Nat
    BY LenProperties DEF StreamInv, StreamTypes
  <2>5. /\ wire' \in Seq(Cell) /\ wire' # <<>>
        /\ wire'[Len(wire')] = [msg |-> Len(sends) + 1, off |-> off + k]
    <3> DEFINE piece == [j \in 1 .. k |-> [msg |-> Len(sends) + 1, off |-> off + j]]
    <3>1. \A j \in 1 .. k : [msg |-> Len(sends) + 1, off |-> off + j] \in Cell
      BY <2>3, <2>4 DEF Cell
    <3>2. piece \in [1 .. k -> Cell] /\ piece[k] = [msg |-> Len(sends) + 1, off |-> off + k]
      BY <2>3, <3>1
    <3>3. wire' = wire \o piece
      BY <2>1
    <3> HIDE DEF piece
    <3>4. wire \in Seq(Cell)
      BY DEF StreamInv, StreamTypes
    <3>5. /\ wire \o piece \in Seq(Cell) /\ wire \o piece # <<>>
          /\ (wire \o piece)[Len(wire \o piece)] = piece[k]
      BY <2>3, <3>2, <3>4, AppendPiece
    <3> QED BY <3>2, <3>3, <3>5
  <2>6. Contract!Emitted = off
    BY <2>2 DEF StreamInv, OffsetOnWire, Writing
  <2>7. Contract!Emitted' = off'
    BY <2>0, <2>2, <2>5 DEF Contract!Emitted, Contract!Msg
  <2>8. StreamInv'
    <3>1. StreamTypes'
      BY <2>0, <2>2, <2>3, <2>5 DEF StreamInv, StreamTypes
    <3>2. NoneAhead'
      BY <2>2, <2>4, <2>5 DEF NoneAhead, Writing
    <3> QED BY <2>7, <3>1, <3>2 DEF StreamInv, OffsetOnWire
  <2>9. Contract!Emit(k)
    BY <2>1, <2>2, <2>3, <2>6 DEF Contract!Emit, Contract!Msg
  <2> QED BY <2>3, <2>8, <2>9 DEF Shown, Contract!Next
<1>3. CASE MWriteBlocks \/ SendEvent \/ SendQuiet
  <2>1. UNCHANGED <<peer, inq, landed, wire, sends, size, off, read>>
    BY <1>3 DEF MWriteBlocks, WriteBlocks, SendEvent, SendQuiet, svars, inbound, outbound
  <2>2. Writing' <=> Writing
    BY <1>3 DEF MWriteBlocks, SendEvent, SendQuiet, Writing, Goto
  <2> QED BY <2>1, <2>2, QuietStep DEF Shown, StreamInv, StreamTypes
<1>4. CASE MSendOk \/ MWriteFails \/ SendInterrupted
  <2>1. PICK reply \in {"Ok", "Io", "Cancelled"} :
          /\ sends' = Append(sends, [size |-> size, reply |-> reply])
          /\ reply = "Ok" => off >= size
    BY <1>4 DEF MSendOk, SendOk, MWriteFails, WriteFails, SendInterrupted, SendCut, SendReply
  <2>2. /\ UNCHANGED <<peer, inq, landed, wire, size, off, read>>
        /\ Writing /\ ~Writing'
    BY <1>4 DEF MSendOk, SendOk, MWriteFails, WriteFails, SendInterrupted, SendCut, inbound,
                Writing, Goto
  <2>3. size \in Nat /\ off \in Nat /\ off <= size /\ off = Contract!Emitted
    BY <2>2 DEF StreamInv, StreamTypes, OffsetOnWire
  <2>4. sends' \in Seq(Reply) /\ Len(sends') = Len(sends) + 1 /\ Len(sends) \in Nat
    <3>1. [size |-> size, reply |-> reply] \in Reply
      BY <2>3 DEF Reply
    <3> QED BY <2>1, <3>1, AppendProperties, LenProperties DEF StreamInv, StreamTypes
  <2>5. StreamInv'
    <3>1. StreamTypes'
      BY <2>2, <2>4 DEF StreamInv, StreamTypes
    <3>2. NoneAhead'
      <4>1. wire # <<>> => wire[Len(wire)] \in Cell
        BY LenProperties, ElementOfSeq, EmptySeq DEF StreamInv, StreamTypes
      <4> QED BY <2>2, <2>4, <4>1 DEF StreamInv, NoneAhead, Cell
    <3> QED BY <2>2, <3>1, <3>2 DEF StreamInv, OffsetOnWire
  <2>6. Contract!End(reply)
    BY <2>1, <2>2, <2>3 DEF Contract!End, Writing
  <2> QED BY <2>5, <2>6 DEF Shown, Contract!Next
<1> QED BY <1>1, <1>2, <1>3, <1>4 DEF SendStep

(***************************************************************************)
(* mio's TcpTransport implements ByteStream: reads, probes, resumed and    *)
(* interrupted sends neither lose, repeat nor reorder a byte.              *)
(***************************************************************************)
THEOREM MioImplementsByteStream == MioSpec => KeepsStream
<1>1. MioInit => StreamInv /\ Contract!Init
  <2> SUFFICES ASSUME MioInit PROVE StreamInv /\ Contract!Init
    OBVIOUS
  <2>1. /\ peer = "open" /\ inq = 0 /\ landed = 0 /\ wire = <<>> /\ size = 0 /\ off = 0
        /\ sends = <<>> /\ read = 0 /\ pc = "new"
    BY DEF MioInit, StreamInit
  <2>2. wire \in Seq(Cell) /\ sends \in Seq(Reply)
    BY <2>1
  <2> QED BY <2>1, <2>2 DEF StreamInv, StreamTypes, OffsetOnWire, NoneAhead, Writing,
                            Contract!Init
<1>2. ASSUME StreamInv, [MioNext]_mvars
      PROVE  Shown
  <2>1. CASE UNCHANGED mvars
    BY <1>2, <2>1, QuietStep DEF mvars, local, svars, inbound, outbound, Writing, Shown, StreamInv,
                              StreamTypes
  <2> QED BY <1>2, <2>1, QuietSteps, PeerSteps, RecvSteps, SendSteps
          DEF MioNext, Environment
<1> QED BY <1>1, <1>2, PTL DEF MioSpec, Shown, KeepsStream, Contract!Spec
================================================================================
