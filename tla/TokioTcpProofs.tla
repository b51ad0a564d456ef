----------------------------- MODULE TokioTcpProofs -----------------------------
(***************************************************************************)
(* Proofs about TokioTcp, for any traffic, buffer sizes and faults: it     *)
(* implements ByteStream, nothing readable goes without a signal, and      *)
(* recv_into answers truly.                                                *)
(***************************************************************************)
EXTENDS TokioTcp, SequenceTheorems, TLAPS

(***************************************************************************)
(* A piece of k bytes put behind a sequence ends the result: its last byte *)
(* is the last one of the result.                                          *)
(***************************************************************************)
LEMMA AppendPiece ==
  ASSUME NEW S, NEW w \in Seq(S), NEW k \in Nat, k >= 1, NEW piece \in [1 .. k -> S]
  PROVE  /\ w \o piece \in Seq(S) /\ w \o piece # <<>>
         /\ (w \o piece)[Len(w \o piece)] = piece[k]
<1>1. piece \in Seq(S)
  BY SeqDef
<1>2. Len(piece) = k
  <2>1. Len(piece) \in Nat
    BY <1>1, LenProperties
  <2>2. 1 .. Len(piece) = 1 .. k
    BY <1>1, LenProperties
  <2>3. k \in 1 .. Len(piece) /\ (Len(piece) >= 1 => Len(piece) \in 1 .. k)
    <3>1. k \in 1 .. k /\ (Len(piece) >= 1 => Len(piece) \in 1 .. Len(piece))
      BY <2>1
    <3> QED BY <2>2, <3>1
  <2> QED BY <2>1, <2>3
<1> DEFINE top == Len(w) + k
<1>3. /\ w \o piece \in Seq(S)
      /\ Len(w \o piece) = top
      /\ \A i \in 1 .. top :
           (w \o piece)[i] = IF i <= Len(w) THEN w[i] ELSE piece[i - Len(w)]
  BY <1>1, <1>2, ConcatProperties
<1>4. top \in 1 .. top /\ ~(top <= Len(w)) /\ top - Len(w) = k /\ top # 0
  <2>1. Len(w) \in Nat
    BY LenProperties
  <2> QED BY <2>1
<1> HIDE DEF top
<1>5. (w \o piece)[top] = piece[top - Len(w)]
  BY <1>3, <1>4, Zenon
<1>6. w \o piece # <<>>
  BY <1>3, <1>4, EmptySeq
<1> QED BY <1>3, <1>4, <1>5, <1>6, Zenon
--------------------------------------------------------------------------------

Writing == pc \in {"write", "room"}

Cell == [msg : Nat, off : Nat]
Reply == [size : Nat, reply : {"Ok", "Io", "Cancelled"}]

(***************************************************************************)
(* What the refinement needs: while a send is under way its offset is the  *)
(* one read off the wire, and between sends the wire has nothing of the    *)
(* next one yet.                                                           *)
(***************************************************************************)
StreamTypes ==
  /\ inq \in Nat /\ landed \in Nat /\ read \in Nat
  /\ wire \in Seq(Cell) /\ sends \in Seq(Reply)
  /\ size \in Nat /\ off \in Nat /\ off <= size

OffsetOnWire == Writing => off = Contract!Emitted

NoneAhead ==
  wire # <<>> =>
    /\ wire[Len(wire)].msg <= Len(sends) + 1
    /\ ~Writing => wire[Len(wire)].msg <= Len(sends)

StreamInv == StreamTypes /\ OffsetOnWire /\ NoneAhead

(***************************************************************************)
(* A step that leaves the stream alone, and is not the begin or the end of *)
(* a send, stutters.                                                       *)
(***************************************************************************)
LEMMA QuietStep ==
  ASSUME StreamInv, UNCHANGED <<peer, inq, landed, wire, sends, size, off>>,
         read' \in Nat, Writing' <=> Writing
  PROVE  StreamInv' /\ UNCHANGED Contract!vars
<1>1. StreamInv'
  BY DEF StreamInv, StreamTypes, OffsetOnWire, NoneAhead, Contract!Emitted, Contract!Msg
<1>2. (pc \in {"write", "room"})' = (pc \in {"write", "room"})
  BY DEF Writing
<1>3. UNCHANGED Contract!vars
  BY <1>2 DEF Contract!vars
<1> QED BY <1>1, <1>3

\* What a step shows of itself to ByteStream.
Shown == StreamInv' /\ [Contract!Next]_(Contract!vars)

LEMMA ConnectSteps ==
  ASSUME StreamInv,
         \/ THandshakeDone \/ THandshakeFails \/ TPeerReads \/ ReactorTurn
         \/ ConnectCall \/ ConnectUp \/ ConnectFails \/ ConnectDropped \/ ConnectOptionFails
  PROVE  Shown
<1>1. UNCHANGED <<peer, inq, landed, wire, sends, size, off>>
  BY DEF THandshakeDone, HandshakeDone, THandshakeFails, HandshakeFails, TPeerReads, PeerReads,
         ReactorTurn, ConnectCall, ConnectUp, ConnectFails, ConnectDropped,
         ConnectOptionFails, svars, inbound, outbound
<1>3. read' \in Nat
  BY DEF THandshakeDone, HandshakeDone, THandshakeFails, HandshakeFails, TPeerReads, PeerReads,
         ReactorTurn, ConnectCall, ConnectUp, ConnectFails, ConnectDropped,
         ConnectOptionFails, svars, outbound, StreamInv, StreamTypes
<1>2. Writing' <=> Writing
  BY DEF THandshakeDone, THandshakeFails, TPeerReads, ReactorTurn, ConnectCall, ConnectUp,
         ConnectFails, ConnectDropped, ConnectOptionFails, Writing, Goto
<1> QED BY <1>1, <1>2, <1>3, QuietStep DEF Shown

LEMMA ReadableSteps ==
  ASSUME StreamInv, ReadableCall \/ ReadableStep \/ AwaitFails \/ ReadableDropped
  PROVE  Shown
<1>1. UNCHANGED <<peer, inq, landed, wire, sends, size, off, read>>
  BY DEF ReadableCall, OtherCall, ReadableStep, AwaitReady, TryIo, PeekHit, PeekError,
         PeekMiss, ClearReadiness, AwaitFails, ReadableDropped, svars, inbound, outbound
<1>2. Writing' <=> Writing
  BY DEF ReadableCall, ReadableStep, AwaitReady, TryIo, PeekHit, PeekError,
         PeekMiss, ClearReadiness, AwaitFails, ReadableDropped, Writing, Goto
<1> QED BY <1>1, <1>2, QuietStep DEF Shown, StreamInv, StreamTypes

LEMMA PeerSteps ==
  ASSUME StreamInv, TPeerSends \/ TPeerCloses \/ TPeerResets
  PROVE  Shown
<1>1. UNCHANGED <<landed, wire, sends, size, off, read, pc>>
  BY DEF TPeerSends, PeerSends, TPeerCloses, PeerCloses, TPeerResets, PeerResets, Raise,
         inbound, outbound
<1>2. inq' \in Nat
  BY DEF TPeerSends, PeerSends, TPeerCloses, PeerCloses, TPeerResets, PeerResets, inbound,
         StreamInv, StreamTypes
<1>3. StreamInv'
  BY <1>1, <1>2 DEF StreamInv, StreamTypes, OffsetOnWire, NoneAhead, Writing,
                    Contract!Emitted, Contract!Msg
<1>4. Contract!Supply \/ Contract!Close \/ Contract!Reset
  BY <1>1 DEF TPeerSends, PeerSends, TPeerCloses, PeerCloses, TPeerResets, PeerResets,
              inbound, Contract!Supply, Contract!Close, Contract!Reset
<1> QED BY <1>3, <1>4 DEF Shown, Contract!Next

LEMMA RecvSteps ==
  ASSUME StreamInv, NEW d \in 0 .. MaxDst, TRecvInto(d)
  PROVE  Shown
<1>1. CASE RecvLand(d)
  <2>1. PICK k \in 1 .. (IF d <= inq THEN d ELSE inq) :
          inq' = inq - k /\ landed' = landed + k
    BY <1>1 DEF RecvLand
  <2>2. UNCHANGED <<peer, wire, sends, size, off, read, pc>>
    BY <1>1 DEF RecvLand, TRecvInto, outbound
  <2>3. inq' \in Nat /\ inq' < inq /\ landed' \in Nat /\ landed' = landed + (inq - inq')
    <3>1. inq \in Nat /\ landed \in Nat /\ k \in Nat /\ k >= 1 /\ k <= inq
      BY <2>1 DEF StreamInv, StreamTypes
    <3> QED BY <2>1, <3>1
  <2>4. StreamInv'
    BY <2>2, <2>3 DEF StreamInv, StreamTypes, OffsetOnWire, NoneAhead, Writing,
                      Contract!Emitted, Contract!Msg
  <2>5. Contract!Land
    BY <2>2, <2>3 DEF Contract!Land
  <2> QED BY <2>4, <2>5 DEF Shown, Contract!Next
<1>2. CASE ~RecvLand(d)
  <2>1. UNCHANGED <<peer, inq, landed, wire, sends, size, off, read, pc>>
    BY <1>2 DEF TRecvInto, RecvInto, RecvClosed, RecvEmptyDst, RecvBlocks, RecvError, outbound
  <2> QED BY <2>1, QuietStep DEF Shown, Writing, StreamInv, StreamTypes
<1> QED BY <1>1, <1>2

LEMMA SendSteps ==
  ASSUME StreamInv, (\E s \in Sizes : TSendCall(s)) \/ SendStep \/ TSendFails \/ SendDropped
  PROVE  Shown
<1>1. ASSUME NEW s \in Sizes, TSendCall(s)
      PROVE  Shown
  <2>1. /\ UNCHANGED <<peer, inq, landed, wire, sends, read>>
        /\ size' = s /\ off' = 0 /\ pc = "idle" /\ pc' = "write"
    BY <1>1 DEF TSendCall, SendCall, Goto
  <2>2. s \in Nat
    BY StreamAssumption
  <2>3. Contract!Emitted = 0
    <3>1. wire # <<>> => wire[Len(wire)].msg <= Len(sends)
      BY <2>1 DEF StreamInv, NoneAhead, Writing
    <3>2. Len(sends) \in Nat
      BY LenProperties DEF StreamInv, StreamTypes
    <3>3. wire # <<>> => wire[Len(wire)] \in Cell
      BY LenProperties, ElementOfSeq, EmptySeq DEF StreamInv, StreamTypes
    <3> QED BY <3>1, <3>2, <3>3 DEF Contract!Emitted, Contract!Msg, Cell
  <2>4. Contract!Emitted' = Contract!Emitted
    BY <2>1 DEF Contract!Emitted, Contract!Msg
  <2>5. StreamInv'
    BY <2>1, <2>2, <2>3, <2>4 DEF StreamInv, StreamTypes, OffsetOnWire, NoneAhead, Writing
  <2>6. Contract!Begin
    BY <2>1 DEF Contract!Begin
  <2> QED BY <2>5, <2>6 DEF Shown, Contract!Next
<1>2. CASE TWriteSome
  <2>1. PICK k \in 1 .. (IF Room <= size - off THEN Room ELSE size - off) :
          /\ wire' = wire \o [j \in 1 .. k |-> [msg |-> Len(sends) + 1, off |-> off + j]]
          /\ off' = off + k
    BY <1>2 DEF TWriteSome, WriteSome
  <2>2. /\ UNCHANGED <<peer, inq, landed, sends, size, read, pc>>
        /\ pc = "write" /\ peer # "reset"
    BY <1>2 DEF TWriteSome, WriteSome, inbound
  <2>0. off' = off + k
    BY <2>1
  <2>3. /\ k \in Nat /\ k >= 1 /\ k <= size - off /\ size - off \in Nat
        /\ off \in Nat /\ size \in Nat /\ off + k <= size /\ k \in 1 .. size
    <3>1. size \in Nat /\ off \in Nat /\ off <= size
      BY DEF StreamInv, StreamTypes
    <3>2. Room \in Int /\ size - off \in Int
      BY <3>1, StreamAssumption, LenProperties DEF Room, StreamInv, StreamTypes
    <3>3. k \in 1 .. (IF Room <= size - off THEN Room ELSE size - off)
      OBVIOUS
    <3>4. k \in Int /\ k >= 1 /\ k <= size - off
      BY <3>2, <3>3
    <3> QED BY <3>1, <3>4
  <2>4. Len(sends) \in Nat /\ Len(sends) + 1 \in Nat
    BY LenProperties DEF StreamInv, StreamTypes
  <2>5. /\ wire' \in Seq(Cell) /\ wire' # <<>>
        /\ wire'[Len(wire')] = [msg |-> Len(sends) + 1, off |-> off + k]
    <3> DEFINE piece == [j \in 1 .. k |-> [msg |-> Len(sends) + 1, off |-> off + j]]
    <3>1. \A j \in 1 .. k : [msg |-> Len(sends) + 1, off |-> off + j] \in Cell
      BY <2>3, <2>4 DEF Cell
    <3>2. piece \in [1 .. k -> Cell] /\ piece[k] = [msg |-> Len(sends) + 1, off |-> off + k]
      BY <2>3, <3>1
    <3>3. wire' = wire \o piece
      BY <2>1
    <3> HIDE DEF piece
    <3>4. wire \in Seq(Cell)
      BY DEF StreamInv, StreamTypes
    <3>5. /\ wire \o piece \in Seq(Cell) /\ wire \o piece # <<>>
          /\ (wire \o piece)[Len(wire \o piece)] = piece[k]
      BY <2>3, <3>2, <3>4, AppendPiece
    <3> QED BY <3>2, <3>3, <3>5
  <2>6. Contract!Emitted = off
    BY <2>2 DEF StreamInv, OffsetOnWire, Writing
  <2>7. Contract!Emitted' = off'
    BY <2>0, <2>2, <2>5 DEF Contract!Emitted, Contract!Msg
  <2>8. StreamInv'
    <3>1. StreamTypes'
      BY <2>0, <2>2, <2>3, <2>5 DEF StreamInv, StreamTypes
    <3>2. NoneAhead'
      BY <2>2, <2>4, <2>5 DEF NoneAhead, Writing
    <3> QED BY <2>7, <3>1, <3>2 DEF StreamInv, OffsetOnWire
  <2>9. Contract!Emit(k)
    BY <2>1, <2>2, <2>3, <2>6 DEF Contract!Emit, Contract!Msg
  <2> QED BY <2>3, <2>8, <2>9 DEF Shown, Contract!Next
<1>3. CASE TWriteBlocks \/ RoomReady
  <2>1. UNCHANGED <<peer, inq, landed, wire, sends, size, off, read>>
    BY <1>3 DEF TWriteBlocks, WriteBlocks, RoomReady, svars, inbound, outbound
  <2>2. Writing' <=> Writing
    BY <1>3 DEF TWriteBlocks, RoomReady, Writing, Goto
  <2> QED BY <2>1, <2>2, QuietStep DEF Shown, StreamInv, StreamTypes
<1>4. CASE TSendOk \/ TWriteFails \/ TSendFails \/ SendDropped
  <2>1. PICK reply \in {"Ok", "Io", "Cancelled"} :
          /\ sends' = Append(sends, [size |-> size, reply |-> reply])
          /\ reply = "Ok" => off >= size
    BY <1>4 DEF TSendOk, SendOk, TWriteFails, WriteFails, TSendFails,
                SendDropped, SendCut, SendReply
  <2>2. /\ UNCHANGED <<peer, inq, landed, wire, size, off, read>>
        /\ Writing /\ ~Writing'
    BY <1>4 DEF TSendOk, SendOk, TWriteFails, WriteFails, TSendFails,
                SendDropped, SendCut, inbound,
                Writing, Goto
  <2>3. size \in Nat /\ off \in Nat /\ off <= size /\ off = Contract!Emitted
    BY <2>2 DEF StreamInv, StreamTypes, OffsetOnWire
  <2>4. sends' \in Seq(Reply) /\ Len(sends') = Len(sends) + 1 /\ Len(sends) \in Nat
    <3>1. [size |-> size, reply |-> reply] \in Reply
      BY <2>3 DEF Reply
    <3> QED BY <2>1, <3>1, AppendProperties, LenProperties DEF StreamInv, StreamTypes
  <2>5. StreamInv'
    <3>1. StreamTypes'
      BY <2>2, <2>4 DEF StreamInv, StreamTypes
    <3>2. NoneAhead'
      <4>1. wire # <<>> => wire[Len(wire)] \in Cell
        BY LenProperties, ElementOfSeq, EmptySeq DEF StreamInv, StreamTypes
      <4> QED BY <2>2, <2>4, <4>1 DEF StreamInv, NoneAhead, Cell
    <3> QED BY <2>2, <3>1, <3>2 DEF StreamInv, OffsetOnWire
  <2>6. Contract!End(reply)
    BY <2>1, <2>2, <2>3 DEF Contract!End, Writing
  <2> QED BY <2>5, <2>6 DEF Shown, Contract!Next
<1> QED BY <1>1, <1>2, <1>3, <1>4 DEF SendStep

(***************************************************************************)
(* tokio's TcpTransport implements ByteStream: reads, probes, cancelled    *)
(* and resumed sends neither lose, repeat nor reorder a byte.              *)
(***************************************************************************)
THEOREM TokioImplementsByteStream == TokioSpec => KeepsStream
<1>1. TokioInit => StreamInv /\ Contract!Init
  <2> SUFFICES ASSUME TokioInit PROVE StreamInv /\ Contract!Init
    OBVIOUS
  <2>1. /\ peer = "open" /\ inq = 0 /\ landed = 0 /\ wire = <<>> /\ size = 0 /\ off = 0
        /\ sends = <<>> /\ read = 0 /\ pc = "new"
    BY DEF TokioInit, StreamInit
  <2>2. wire \in Seq(Cell) /\ sends \in Seq(Reply)
    BY <2>1
  <2> QED BY <2>1, <2>2 DEF StreamInv, StreamTypes, OffsetOnWire, NoneAhead, Writing,
                            Contract!Init
<1>2. ASSUME StreamInv, [TokioNext]_tvars
      PROVE  Shown
  <2>1. CASE UNCHANGED tvars
    BY <1>2, <2>1, QuietStep DEF tvars, svars, inbound, outbound, Writing, Shown, StreamInv,
                              StreamTypes
  <2> QED BY <1>2, <2>1, ConnectSteps, ReadableSteps, PeerSteps, RecvSteps, SendSteps
          DEF TokioNext, Environment
<1> QED BY <1>1, <1>2, PTL DEF TokioSpec, Shown, KeepsStream, Contract!Spec

--------------------------------------------------------------------------------
(***************************************************************************)
(* Why nothing readable goes without a signal: before the connection is up *)
(* there is nothing to read, and a tick set after try_io looked is a new   *)
(* one, so the clear that follows a miss leaves its bit alone.             *)
(***************************************************************************)
NothingYet ==
  /\ pc = "new" => conn = "none"
  /\ conn = "none" \/ conn = "syn" => ~Readable

TickGrows == tick \in Nat /\ seen \in Nat /\ seen <= tick

SignalInv == DataIsSignalled /\ NothingYet /\ TickGrows

LEMMA SilentStep ==
  ASSUME SignalInv, UNCHANGED <<conn, edge, bit, tick, seen>>, Readable' => Readable,
         pc' # "new", pc' = "clear" => pc = "clear" \/ ~Readable
  PROVE  SignalInv'
<1>1. DataIsSignalled'
  BY DEF SignalInv, DataIsSignalled
<1>2. NothingYet' /\ TickGrows'
  BY DEF SignalInv, NothingYet, TickGrows
<1> QED BY <1>1, <1>2 DEF SignalInv

LEMMA NetworkSignals ==
  ASSUME SignalInv, Environment \/ ReactorTurn \/ ConnectCall
  PROVE  SignalInv'
<1>1. CASE THandshakeDone \/ THandshakeFails
  <2>1. /\ UNCHANGED <<edge, bit, tick, seen, pc>>
        /\ conn = "syn" /\ conn' \in {"up", "refused"}
        /\ conn' = "up" => Readable' = Readable
    BY <1>1 DEF THandshakeDone, HandshakeDone, THandshakeFails, HandshakeFails, reactor,
                inbound, Readable
  <2> QED BY <2>1 DEF SignalInv, DataIsSignalled, NothingYet, TickGrows
<1>5. CASE ConnectCall
  <2>1. /\ UNCHANGED <<edge, bit, tick, seen>> /\ Readable' = Readable
        /\ conn = "none" /\ conn' = "syn" /\ pc' = "connecting"
    BY <1>5 DEF ConnectCall, reactor, inbound, Goto, Readable, SignalInv, NothingYet
  <2> QED BY <2>1 DEF SignalInv, DataIsSignalled, NothingYet, TickGrows
<1>2. CASE TPeerSends \/ TPeerCloses \/ TPeerResets
  <2>1. /\ UNCHANGED <<conn, bit, tick, seen, pc>> /\ conn = "up"
        /\ edge' \in (IF Readable THEN {edge, TRUE} ELSE {TRUE})
    BY <1>2 DEF TPeerSends, PeerSends, TPeerCloses, PeerCloses, TPeerResets, PeerResets, Raise
  <2>2. CASE Readable
    BY <2>1, <2>2 DEF SignalInv, DataIsSignalled, NothingYet, TickGrows
  <2>3. CASE ~Readable
    BY <2>1, <2>3 DEF SignalInv, DataIsSignalled, NothingYet, TickGrows
  <2> QED BY <2>2, <2>3
<1>3. CASE TPeerReads
  BY <1>3 DEF TPeerReads, PeerReads, reactor, inbound, Readable, SignalInv, DataIsSignalled,
              NothingYet, TickGrows
<1>4. CASE ReactorTurn
  <2>1. UNCHANGED <<conn, seen, pc>> /\ Readable' = Readable
    BY <1>4 DEF ReactorTurn, svars, inbound, Readable
  <2>2. CASE Readable
    <3>1. bit' = TRUE /\ tick' = tick + 1
      BY <1>4, <2>2 DEF ReactorTurn
    <3>2. tick' \in Nat /\ seen <= tick' /\ tick' # seen /\ seen \in Nat
      BY <3>1 DEF SignalInv, TickGrows
    <3> QED BY <2>1, <3>1, <3>2 DEF SignalInv, DataIsSignalled, NothingYet, TickGrows
  <2>3. CASE ~Readable
    <3>1. UNCHANGED <<bit, tick>>
      BY <1>4, <2>3 DEF ReactorTurn
    <3> QED BY <2>1, <2>3, <3>1 DEF SignalInv, DataIsSignalled, NothingYet, TickGrows
  <2> QED BY <2>2, <2>3
<1> QED BY <1>1, <1>2, <1>3, <1>4, <1>5 DEF Environment

LEMMA TaskSignals ==
  ASSUME SignalInv,
         \/ ConnectUp \/ ConnectFails \/ ConnectDropped \/ ConnectOptionFails
         \/ \E d \in 0 .. MaxDst : TRecvInto(d)
         \/ ReadableCall \/ ReadableStep \/ AwaitFails \/ ReadableDropped
         \/ \E s \in Sizes : TSendCall(s)
         \/ SendStep \/ TSendFails \/ SendDropped
  PROVE  SignalInv'
<1>1. CASE ConnectUp \/ ConnectFails \/ ConnectDropped \/ ConnectOptionFails
  BY <1>1, SilentStep DEF ConnectUp, ConnectFails, ConnectDropped, ConnectOptionFails, svars,
                          inbound, reactor, Goto, Readable
<1>2. ASSUME NEW d \in 0 .. MaxDst, TRecvInto(d)
      PROVE  SignalInv'
  <2>1. UNCHANGED <<conn, peer, edge, bit, tick, seen, pc>> /\ pc = "idle"
    BY <1>2 DEF TRecvInto, RecvInto, RecvLand, RecvClosed, RecvEmptyDst, RecvBlocks,
                RecvError, reactor
  <2>2. Readable' => Readable
    BY <1>2 DEF TRecvInto, RecvInto, RecvLand, RecvClosed, RecvEmptyDst, RecvBlocks,
                RecvError, Readable
  <2> QED BY <2>1, <2>2, SilentStep
<1>3. CASE ReadableCall \/ AwaitReady \/ AwaitFails \/ ReadableDropped \/ PeekHit \/ PeekError
           \/ PeekMiss
  BY <1>3, SilentStep DEF ReadableCall, OtherCall, AwaitReady, AwaitFails, ReadableDropped,
              PeekHit, PeekError, PeekMiss, svars, inbound, reactor, Goto, Readable
<1>4. CASE TryIo
  <2>1. /\ UNCHANGED <<conn, edge, bit, tick>> /\ Readable' = Readable
        /\ seen' = tick /\ pc' \in {"peek", "await"}
    BY <1>4 DEF TryIo, svars, inbound, Goto, Readable
  <2> QED BY <2>1 DEF SignalInv, DataIsSignalled, NothingYet, TickGrows
<1>5. CASE ClearReadiness
  <2>1. /\ UNCHANGED <<conn, edge, tick, seen>> /\ Readable' = Readable
        /\ pc = "clear" /\ pc' = "await" /\ bit' = (bit /\ tick # seen)
    BY <1>5 DEF ClearReadiness, svars, inbound, Goto, Readable
  <2> QED BY <2>1 DEF SignalInv, DataIsSignalled, NothingYet, TickGrows
<1>6. CASE (\E s \in Sizes : TSendCall(s)) \/ SendStep \/ TSendFails \/ SendDropped
  <2>1. UNCHANGED <<conn, edge, bit, tick, seen>> /\ pc' \in {"write", "room", "idle"}
    BY <1>6 DEF TSendCall, SendCall, SendStep, TWriteSome, WriteSome, TWriteBlocks,
                WriteBlocks, RoomReady, TSendOk, SendOk, TWriteFails, WriteFails, TSendFails,
                SendDropped, SendCut, svars, reactor, Goto
  <2>2. Readable' => Readable
    BY <1>6 DEF TSendCall, SendCall, SendStep, TWriteSome, WriteSome, TWriteBlocks,
                WriteBlocks, RoomReady, TSendOk, SendOk, TWriteFails, WriteFails, TSendFails,
                SendDropped, SendCut, svars, inbound, Readable
  <2> QED BY <2>1, <2>2, SilentStep
<1> QED BY <1>1, <1>2, <1>3, <1>4, <1>5, <1>6 DEF ReadableStep

(***************************************************************************)
(* Whatever there is to read on a tokio stream is signalled, although      *)
(* recv_into goes around the reactor and readable() clears its bit.        *)
(***************************************************************************)
THEOREM TokioStreamSignals == TokioSpec => []DataIsSignalled
<1>1. TokioInit => SignalInv
  BY DEF TokioInit, StreamInit, SignalInv, DataIsSignalled, NothingYet, TickGrows, Readable
<1>2. ASSUME SignalInv, [TokioNext]_tvars
      PROVE  SignalInv'
  <2>1. CASE UNCHANGED tvars
    BY <1>2, <2>1 DEF tvars, svars, inbound, reactor, SignalInv, DataIsSignalled, NothingYet,
                      TickGrows, Readable
  <2> QED BY <1>2, <2>1, NetworkSignals, TaskSignals DEF TokioNext
<1>3. SignalInv => DataIsSignalled
  BY DEF SignalInv
<1> QED BY <1>1, <1>2, <1>3, PTL DEF TokioSpec

--------------------------------------------------------------------------------
\* What recv_into answers, field by field.
LEMMA AnswerFields ==
  ASSUME NEW kind, NEW count, NEW dst, result' = Answer(kind, count, dst)
  PROVE  /\ result'.kind = kind /\ result'.n = count /\ result'.dst = dst
         /\ result'.queued = inq /\ (result'.open <=> peer = "open")
  BY DEF Answer

(***************************************************************************)
(* An answer is made by recv_into alone, from the queue and the peer it    *)
(* met; every other step keeps it or forgets it.                           *)
(***************************************************************************)
LEMMA RecvAnswers ==
  ASSUME inq \in Nat, NEW d \in 0 .. MaxDst, RecvInto(d)
  PROVE  AnswersTrue'
<1>1. CASE RecvLand(d)
  <2>1. PICK k \in 1 .. (IF d <= inq THEN d ELSE inq) : result' = Answer("Ok", k, d)
    BY <1>1 DEF RecvLand
  <2>2. k # 0
    BY <2>1
  <2>3. result'.kind = "Ok" /\ result'.n # 0
    BY <2>1, <2>2, AnswerFields
  <2> QED BY <2>3 DEF AnswersTrue
<1>2. CASE RecvClosed(d)
  <2>1. inq = 0 /\ peer # "open" /\ result' = Answer("UnexpectedEof", 0, d)
    BY <1>2 DEF RecvClosed
  <2>2. result'.kind = "UnexpectedEof" /\ result'.queued = 0 /\ ~result'.open
    BY <2>1, AnswerFields
  <2> QED BY <2>2 DEF AnswersTrue
<1>3. CASE RecvEmptyDst(d)
  <2>1. result' = Answer("UnexpectedEof", 0, d) /\ d = 0
    BY <1>3 DEF RecvEmptyDst
  <2>2. result'.kind = "UnexpectedEof" /\ result'.dst = 0
    BY <2>1, AnswerFields
  <2> QED BY <2>2 DEF AnswersTrue
<1>4. CASE RecvBlocks(d)
  <2>1. inq = 0 /\ peer = "open" /\ result' = Answer("Ok", 0, d)
    BY <1>4 DEF RecvBlocks
  <2>2. result'.kind = "Ok" /\ result'.queued = 0 /\ result'.open
    BY <2>1, AnswerFields
  <2> QED BY <2>2 DEF AnswersTrue
<1>5. CASE RecvError(d)
  <2>1. result' = Answer("Io", 0, d)
    BY <1>5 DEF RecvError
  <2>2. result'.kind = "Io"
    BY <2>1, AnswerFields
  <2> QED BY <2>2 DEF AnswersTrue
<1> QED BY <1>1, <1>2, <1>3, <1>4, <1>5 DEF RecvInto

(***************************************************************************)
(* The bytes of the peer: queued, landed, or still to come.                *)
(***************************************************************************)
LEMMA PeerBytes ==
  ASSUME inq \in Nat, sent \in Nat, landed \in Nat, StreamIntact,
         Environment
  PROVE  /\ inq' \in Nat /\ sent' \in Nat /\ landed' \in Nat /\ StreamIntact'
         /\ UNCHANGED result
<1>1. CASE THandshakeDone \/ THandshakeFails \/ TPeerReads \/ TPeerCloses
  BY <1>1 DEF THandshakeDone, HandshakeDone, THandshakeFails, HandshakeFails, TPeerReads,
              PeerReads, TPeerCloses, PeerCloses, inbound, StreamIntact
<1>2. CASE TPeerSends
  BY <1>2 DEF TPeerSends, PeerSends, StreamIntact
<1>3. CASE TPeerResets
  <2>1. /\ UNCHANGED <<landed, result>>
        /\ inq' \in {inq, 0} /\ sent' = sent - (inq - inq')
    BY <1>3 DEF TPeerResets, PeerResets
  <2>2. CASE inq' = inq
    BY <2>1, <2>2 DEF StreamIntact
  <2>3. CASE inq' = 0
    <3>1. sent' = landed
      BY <2>1, <2>3 DEF StreamIntact
    <3> QED BY <2>1, <2>3, <3>1 DEF StreamIntact
  <2> QED BY <2>1, <2>2, <2>3
<1> QED BY <1>1, <1>2, <1>3 DEF Environment

Answered ==
  inq \in Nat /\ sent \in Nat /\ landed \in Nat /\ StreamIntact /\ AnswersTrue

LEMMA AnsweredRecv ==
  ASSUME Answered, NEW d \in 0 .. MaxDst, TRecvInto(d)
  PROVE  Answered'
<1>1. AnswersTrue'
  BY RecvAnswers DEF Answered, TRecvInto
<1>2. CASE RecvLand(d)
  <2>1. PICK k \in 1 .. (IF d <= inq THEN d ELSE inq) :
          inq' = inq - k /\ landed' = landed + k
    BY <1>2 DEF RecvLand
  <2>2. sent' = sent
    BY <1>2 DEF RecvLand
  <2> QED BY <1>1, <2>1, <2>2 DEF Answered, StreamIntact
<1>3. CASE RecvClosed(d) \/ RecvEmptyDst(d) \/ RecvBlocks(d) \/ RecvError(d)
  BY <1>1, <1>3 DEF RecvClosed, RecvEmptyDst, RecvBlocks, RecvError, Answered, StreamIntact
<1> QED BY <1>2, <1>3 DEF TRecvInto, RecvInto

LEMMA AnsweredElse ==
  ASSUME Answered, UNCHANGED <<inq, sent, landed>>, result' = result \/ result' = NoAnswer
  PROVE  Answered'
<1>1. AnswersTrue'
  <2>1. CASE result' = result
    BY <2>1 DEF Answered, AnswersTrue
  <2>2. CASE result' = NoAnswer
    <3>1. result'.kind = "no call"
      BY <2>2 DEF NoAnswer
    <3> QED BY <3>1 DEF AnswersTrue
  <2> QED BY <2>1, <2>2
<1> QED BY <1>1 DEF Answered, StreamIntact

LEMMA AnsweredStep ==
  ASSUME Answered, [TokioNext]_tvars
  PROVE  Answered'
<1>1. CASE Environment
  BY <1>1, PeerBytes DEF Answered, AnswersTrue
<1>2. CASE \E d \in 0 .. MaxDst : TRecvInto(d)
  BY <1>2, AnsweredRecv
<1>3. CASE \/ UNCHANGED tvars \/ ReactorTurn \/ ConnectCall \/ ConnectUp \/ ConnectFails
           \/ ConnectDropped \/ ConnectOptionFails
  BY <1>3, AnsweredElse DEF tvars, svars, inbound, ReactorTurn, ConnectCall, ConnectUp,
                            ConnectFails, ConnectDropped, ConnectOptionFails
<1>4. CASE ReadableCall \/ ReadableStep \/ AwaitFails \/ ReadableDropped
  BY <1>4, AnsweredElse DEF ReadableCall, OtherCall, ReadableStep, AwaitReady, TryIo, PeekHit,
         PeekError, PeekMiss, ClearReadiness, AwaitFails, ReadableDropped, svars, inbound
<1>5. CASE (\E s \in Sizes : TSendCall(s)) \/ SendStep \/ TSendFails \/ SendDropped
  BY <1>5, AnsweredElse DEF TSendCall, SendCall, SendStep, TWriteSome, WriteSome,
         TWriteBlocks, WriteBlocks, RoomReady, TSendOk, SendOk, TWriteFails, WriteFails,
         TSendFails, SendDropped, SendCut, svars, inbound
<1> QED BY <1>1, <1>2, <1>3, <1>4, <1>5 DEF TokioNext

LEMMA AnsweredAlways == TokioSpec => []Answered
<1>1. TokioInit => Answered
  <2> SUFFICES ASSUME TokioInit PROVE Answered
    OBVIOUS
  <2>1. inq = 0 /\ sent = 0 /\ landed = 0
    BY DEF TokioInit, StreamInit
  <2>2. result.kind = "no call"
    BY DEF TokioInit, StreamInit, NoAnswer
  <2>3. 0 = 0 + 0
    OBVIOUS
  <2> QED BY <2>1, <2>2, <2>3 DEF Answered, StreamIntact, AnswersTrue
<1> QED BY <1>1, AnsweredStep, PTL DEF TokioSpec

(***************************************************************************)
(* recv_into and the peeks of readable() lose no byte of the stream, also  *)
(* when the caller drops a future.                                         *)
(***************************************************************************)
THEOREM TokioStreamIntact == TokioSpec => []StreamIntact
<1>1. Answered => StreamIntact
  BY DEF Answered
<1> QED BY <1>1, AnsweredAlways, PTL

(***************************************************************************)
(* Ok(0) means that nothing was queued on an open connection, and          *)
(* UnexpectedEof, asked for with room, that everything was landed.         *)
(***************************************************************************)
THEOREM TokioAnswersTrue == TokioSpec => []AnswersTrue
<1>1. Answered => AnswersTrue
  BY DEF Answered
<1> QED BY <1>1, AnsweredAlways, PTL
================================================================================
