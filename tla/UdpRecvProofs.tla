------------------------------ MODULE UdpRecvProofs ------------------------------
(***************************************************************************)
(* Proofs about recv_burst, for any pool, batch, queue, traffic and number *)
(* of faults, and for any bounds.  The last part is about the socket       *)
(* behind a selector (EdgeUdp), for the readiness calls of both backends.  *)
(***************************************************************************)
EXTENDS EdgeUdp, SequenceTheorems, FiniteSetTheorems, FunctionTheorems, TLAPS

(***************************************************************************)
(* What every step keeps: the shape of the state, what each place in       *)
(* recv_burst knows of its locals, and the two books (datagrams, counters).*)
(***************************************************************************)
Types ==
  /\ sock \in Seq(Datagram) /\ accepted \in Nat
  /\ batch \in Seq(Frame) /\ taken \subseteq Frame
  /\ mem \in [Slots -> Nat] /\ used \subseteq Slots
  /\ n \in Nat /\ bytes \in Nat /\ base \in Nat
  /\ packets \in Nat /\ pbytes \in Nat /\ gate \in BOOLEAN
  /\ missed \in Nat /\ mbytes \in Nat
  /\ reaped \in Nat /\ rbytes \in Nat /\ faults \in Nat

Locals ==
  /\ pc = "recv" => \E s \in Slots : hand = {s}
  /\ pc # "recv" => hand = {}
  /\ pc = "idle" => n = 0 /\ bytes = 0
  /\ pc # "idle" => Len(batch) = base + n
  /\ pc = "exhausted" => n = 0
  /\ n = 0 => bytes = 0

\* What recv_burst has reaped and not yet recorded is in n and bytes; a burst
\* that fails forgets it.
Counted ==
  /\ packets + missed + n <= reaped /\ pbytes + mbytes + bytes <= rbytes
  /\ faults = 0 => /\ packets + missed + n = reaped
                  /\ pbytes + mbytes + bytes = rbytes

Book == Types /\ Locals /\ ReapedInOrder /\ Counted

LEMMA LandedType == \A l \in Lens : Landed(l) \in 0 .. SlabSize /\ Landed(l) \in Nat
  BY RecvAssumption DEF Landed

(***************************************************************************)
(* One datagram, from the head of the queue to the end of the batch.       *)
(***************************************************************************)
LEMMA RecvFacts ==
  ASSUME Types, Locals, BurstRecv
  PROVE  \E d \in Datagram, f \in Frame :
           /\ hand = {f.slot} /\ f.from = d
           /\ f.len = Landed(d.len) /\ f.len \in Nat /\ f.peer = Addr(d.peer)
           /\ d = sock[1] /\ sock # <<>> /\ sock' = Tail(sock)
           /\ batch' = Append(batch, f)
           /\ mem' = [mem EXCEPT ![f.slot] = d.id]
           /\ bytes' = bytes + f.len /\ rbytes' = rbytes + f.len
<1>1. PICK s \in Slots : hand = {s}
  BY DEF Locals, BurstRecv
<1> DEFINE d == Head(sock)
           f == [slot |-> s, len |-> Landed(d.len), peer |-> Addr(d.peer), from |-> d]
<1>2. sock # <<>> /\ sock \in Seq(Datagram)
  BY DEF BurstRecv, Types
<1>3. d \in Datagram /\ d = sock[1]
  BY <1>2, HeadTailProperties
<1>4. (CHOOSE x \in hand : TRUE) = s
  BY <1>1
<1>5. /\ sock' = Tail(sock) /\ batch' = Append(batch, f)
      /\ mem' = [mem EXCEPT ![s] = d.id]
      /\ bytes' = bytes + Landed(d.len) /\ rbytes' = rbytes + Landed(d.len)
  BY <1>4 DEF BurstRecv
<1> HIDE DEF d
<1>6. d.len \in Lens /\ d.peer \in Peers
  BY <1>3 DEF Datagram
<1>7. Landed(d.len) \in 0 .. SlabSize /\ Landed(d.len) \in Nat
  BY <1>6, LandedType
<1>8. Addr(d.peer) \in Peers \cup {Unspecified}
  BY <1>6 DEF Addr
<1>9. f \in Frame
  BY <1>3, <1>7, <1>8 DEF Frame
<1> QED BY <1>1, <1>2, <1>3, <1>5, <1>7, <1>9

LEMMA BookInit == Init => Book
<1> SUFFICES ASSUME Init PROVE Book
  OBVIOUS
<1>1. Types
  <2>1. sock \in Seq(Datagram) /\ batch \in Seq(Frame)
    BY EmptySeq DEF Init
  <2>2. gate \in BOOLEAN
    BY RecvAssumption DEF Init
  <2> QED BY <2>1, <2>2 DEF Init, Types
<1>2. Locals
  BY DEF Init, Locals
<1>3. ReapedInOrder
  <2>1. batch = <<>> /\ sock = <<>> /\ reaped = 0 /\ accepted = 0
    BY DEF Init
  <2>2. Len(batch) = 0 /\ Len(sock) = 0 /\ 1 .. 0 = {}
    BY <2>1, EmptySeq
  <2>3. accepted = reaped + Len(sock)
    BY <2>1, <2>2
  <2> QED BY <2>2, <2>3 DEF ReapedInOrder
<1>4. Counted
  <2>1. /\ packets = 0 /\ pbytes = 0 /\ missed = 0 /\ mbytes = 0
        /\ n = 0 /\ bytes = 0 /\ reaped = 0 /\ rbytes = 0
    BY DEF Init
  <2>2. /\ packets + missed + n <= reaped /\ pbytes + mbytes + bytes <= rbytes
        /\ packets + missed + n = reaped /\ pbytes + mbytes + bytes = rbytes
    BY <2>1
  <2> QED BY <2>2 DEF Counted
<1> QED BY <1>1, <1>2, <1>3, <1>4 DEF Book

LEMMA ArriveKeeps ==
  ASSUME Book, NEW l \in Lens, NEW p \in Peers, Arrive(l, p)
  PROVE  Book'
<1> DEFINE d == [id |-> accepted + 1, len |-> l, peer |-> p]
<1>1. /\ UNCHANGED <<pool, batch, taken, burst, counters, history>>
      /\ sock' = Append(sock, d) /\ accepted' = accepted + 1 /\ accepted < MaxArrivals
  BY DEF Arrive
<1>2. accepted \in Nat /\ sock \in Seq(Datagram) /\ Len(sock) \in Nat /\ reaped \in Nat
  BY LenProperties DEF Book, Types
<1>3. d \in Datagram /\ d.id = accepted + 1
  BY <1>1, <1>2, RecvAssumption DEF Datagram
<1> HIDE DEF d
<1>4. /\ sock' \in Seq(Datagram) /\ Len(sock') = Len(sock) + 1
      /\ \A k \in 1 .. Len(sock) : sock'[k] = sock[k]
      /\ sock'[Len(sock) + 1] = d
  BY <1>1, <1>2, <1>3, AppendProperties
<1>5. Types' /\ Locals' /\ Counted'
  BY <1>1, <1>2, <1>4 DEF Book, Types, Locals, Counted, pool, burst, counters, history
<1>6. ReapedInOrder'
  <2>1. accepted' = reaped' + Len(sock') /\ reaped' = reaped /\ batch' = batch
    BY <1>1, <1>2, <1>4 DEF Book, ReapedInOrder, history
  <2>2. ASSUME NEW k \in 1 .. Len(sock')
        PROVE  sock'[k].id = reaped + k
    <3>1. CASE k = Len(sock) + 1
      BY <1>2, <1>3, <1>4, <3>1 DEF Book, ReapedInOrder
    <3>2. CASE k # Len(sock) + 1
      <4>1. k \in 1 .. Len(sock)
        BY <1>2, <1>4, <3>2
      <4> QED BY <1>4, <4>1 DEF Book, ReapedInOrder
    <3> QED BY <3>1, <3>2
  <2> QED BY <2>1, <2>2 DEF Book, ReapedInOrder
<1> QED BY <1>5, <1>6 DEF Book

LEMMA RecvKeeps ==
  ASSUME Book, BurstRecv
  PROVE  Book'
<1>1. PICK d \in Datagram, f \in Frame :
        /\ hand = {f.slot} /\ f.from = d
        /\ f.len = Landed(d.len) /\ f.len \in Nat /\ f.peer = Addr(d.peer)
        /\ d = sock[1] /\ sock # <<>> /\ sock' = Tail(sock)
        /\ batch' = Append(batch, f)
        /\ mem' = [mem EXCEPT ![f.slot] = d.id]
        /\ bytes' = bytes + f.len /\ rbytes' = rbytes + f.len
  BY RecvFacts DEF Book
<1>2. /\ UNCHANGED <<accepted, used, taken, base, packets, pbytes, gate, missed, mbytes, faults>>
      /\ n' = n + 1 /\ hand' = {} /\ pc = "recv" /\ pc' = "loop" /\ reaped' = reaped + 1
  BY DEF BurstRecv, counters
<1>3. /\ sock \in Seq(Datagram) /\ batch \in Seq(Frame)
      /\ n \in Nat /\ base \in Nat /\ reaped \in Nat /\ bytes \in Nat /\ rbytes \in Nat
      /\ packets \in Nat /\ pbytes \in Nat /\ missed \in Nat /\ mbytes \in Nat
  BY DEF Book, Types
<1>4. /\ sock' \in Seq(Datagram) /\ Len(sock') = Len(sock) - 1
      /\ \A k \in 1 .. Len(sock') : sock'[k] = sock[k + 1]
  BY <1>1, <1>3, HeadTailProperties
<1>5. /\ batch' \in Seq(Frame) /\ Len(batch') = Len(batch) + 1
      /\ \A k \in 1 .. Len(batch) : batch'[k] = batch[k]
      /\ batch'[Len(batch) + 1] = f
  BY <1>1, <1>3, AppendProperties
<1>6. Len(sock) \in Nat /\ Len(sock) # 0 /\ Len(batch) \in Nat
  BY <1>1, <1>3, LenProperties, EmptySeq
<1>7. Types'
  <2>1. d.id \in Nat
    BY DEF Datagram
  <2>2. mem' \in [Slots -> Nat]
    BY <1>1, <2>1 DEF Book, Types
  <2> QED BY SMTT(30), <1>1, <1>2, <1>3, <1>4, <1>5, <2>2 DEF Book, Types
<1>8. Locals'
  <2>1. Len(batch) = base + n
    BY <1>2 DEF Book, Locals
  <2>2. Len(batch') = base' + n'
    BY <1>2, <1>3, <1>5, <1>6, <2>1
  <2>3. n' # 0
    BY <1>2, <1>3
  <2> QED BY <1>2, <2>2, <2>3 DEF Locals
<1>9. ReapedInOrder'
  <2>1. d.id = reaped + 1
    BY <1>1, <1>6 DEF Book, ReapedInOrder
  <2>2. accepted' = reaped' + Len(sock')
    BY <1>2, <1>3, <1>4, <1>6 DEF Book, ReapedInOrder
  <2>3. ASSUME NEW k \in 1 .. Len(sock')
        PROVE  sock'[k].id = reaped' + k
    <3>1. k + 1 \in 1 .. Len(sock) /\ sock'[k] = sock[k + 1] /\ k \in Nat
      BY <1>4, <1>6
    <3>2. sock[k + 1].id = reaped + (k + 1)
      BY <3>1 DEF Book, ReapedInOrder
    <3> QED BY <1>2, <1>3, <3>1, <3>2
  <2>4. ASSUME NEW k \in 1 .. Len(batch')
        PROVE  batch'[k].from.id = reaped' - Len(batch') + k
    <3>1. CASE k = Len(batch) + 1
      BY <1>1, <1>2, <1>3, <1>5, <1>6, <2>1, <3>1
    <3>2. CASE k # Len(batch) + 1
      <4>1. k \in 1 .. Len(batch) /\ batch'[k] = batch[k]
        BY <1>5, <1>6, <3>2
      <4>2. batch[k].from.id = reaped - Len(batch) + k
        BY <4>1 DEF Book, ReapedInOrder
      <4> QED BY SMTT(30), <1>2, <1>3, <1>5, <1>6, <4>1, <4>2
    <3> QED BY <3>1, <3>2
  <2> QED BY <2>2, <2>3, <2>4 DEF ReapedInOrder
<1>10. Counted'
  <2>1. /\ packets + missed + n <= reaped => packets + missed + n' <= reaped'
        /\ packets + missed + n = reaped => packets + missed + n' = reaped'
    BY <1>2, <1>3
  <2>2. /\ pbytes + mbytes + bytes <= rbytes => pbytes + mbytes + bytes' <= rbytes'
        /\ pbytes + mbytes + bytes = rbytes => pbytes + mbytes + bytes' = rbytes'
    <3>1. PICK l \in Nat : bytes' = bytes + l /\ rbytes' = rbytes + l
      BY <1>1
    <3>2. pbytes \in Nat /\ mbytes \in Nat /\ bytes \in Nat /\ rbytes \in Nat
      BY <1>3
    <3> QED BY <3>1, <3>2
  <2>3. /\ packets + missed + n <= reaped /\ pbytes + mbytes + bytes <= rbytes
        /\ faults = 0 => packets + missed + n = reaped /\ pbytes + mbytes + bytes = rbytes
    BY DEF Book, Counted
  <2>4. packets' = packets /\ pbytes' = pbytes /\ missed' = missed /\ mbytes' = mbytes
        /\ faults' = faults
    BY <1>2
  <2> QED BY <2>1, <2>2, <2>3, <2>4 DEF Counted
<1> QED BY <1>7, <1>8, <1>9, <1>10 DEF Book

LEMMA BurstKeeps ==
  ASSUME Book,
         \/ \E max \in 0 .. BatchCap + 1 : BurstCall(max)
         \/ \E s \in Slots : BurstAcquire(s)
         \/ BurstNoSlab \/ BurstExhausted \/ BurstWouldBlock
  PROVE  Book'
<1>1. /\ UNCHANGED <<sock, accepted, batch, taken, mem, counters, history>>
      /\ used' \subseteq Slots
  BY DEF Book, Types, BurstCall, BurstAcquire, BurstNoSlab, BurstExhausted, BurstWouldBlock,
         pool
<1>2. Len(batch) \in Nat
  BY LenProperties DEF Book, Types
<1>3. ReapedInOrder'
  BY <1>1 DEF Book, ReapedInOrder, history
<1>4. CASE \E max \in 0 .. BatchCap + 1 : BurstCall(max)
  <2>1. /\ pc = "idle" /\ pc' = "loop" /\ n' = 0 /\ bytes' = 0 /\ base' = Len(batch)
        /\ hand' = hand
    BY <1>4 DEF BurstCall
  <2> QED BY <1>1, <1>2, <1>3, <2>1 DEF Book, Types, Locals, Counted, counters, history
<1>5. CASE \E s \in Slots : BurstAcquire(s)
  <2>1. /\ UNCHANGED <<n, bytes, base>> /\ pc = "loop" /\ pc' = "recv"
        /\ \E s \in Slots : hand' = {s}
    BY <1>5 DEF BurstAcquire
  <2> QED BY <1>1, <1>3, <2>1 DEF Book, Types, Locals, Counted, counters, history
<1>6. CASE BurstNoSlab
  <2>1. /\ UNCHANGED <<n, bytes, base, hand>> /\ pc = "loop" /\ pc' \in {"exhausted", "done"}
        /\ pc' = "exhausted" => n = 0
    BY <1>6 DEF BurstNoSlab
  <2> QED BY <1>1, <1>3, <2>1 DEF Book, Types, Locals, Counted, counters, history
<1>7. CASE BurstExhausted
  <2>1. /\ hand' = hand /\ pc = "exhausted" /\ pc' = "idle"
        /\ n' = 0 /\ bytes' = 0 /\ base' = 0
    BY <1>7 DEF BurstExhausted, Return
  <2>2. n = 0 /\ bytes = 0
    BY <2>1 DEF Book, Locals
  <2>3. Counted'
    BY <1>1, <2>1, <2>2 DEF Book, Counted, counters, history
  <2>4. Types' /\ Locals'
    BY <1>1, <2>1 DEF Book, Types, Locals, counters, history
  <2> QED BY <1>3, <2>3, <2>4 DEF Book
<1>8. CASE BurstWouldBlock
  <2>1. /\ UNCHANGED <<n, bytes, base>> /\ hand' = {} /\ pc = "recv" /\ pc' = "done"
    BY <1>8 DEF BurstWouldBlock
  <2> QED BY <1>1, <1>3, <2>1 DEF Book, Types, Locals, Counted, counters, history
<1> QED BY <1>4, <1>5, <1>6, <1>7, <1>8

LEMMA EndKeeps ==
  ASSUME Book, BurstIoError \/ BurstDone
  PROVE  Book'
<1>1. /\ UNCHANGED <<sock, accepted, batch, taken, mem, gate, reaped, rbytes>>
      /\ used' \subseteq Slots /\ hand' = {}
      /\ pc' = "idle" /\ n' = 0 /\ bytes' = 0 /\ base' = 0
  <2>1. CASE BurstIoError
    BY <2>1 DEF Book, Types, BurstIoError, Return, counters
  <2>2. CASE BurstDone
    <3>1. hand = {} /\ hand' = hand
      BY <2>2 DEF Book, Locals, BurstDone
    <3> QED BY <2>2, <3>1 DEF Book, Types, BurstDone, RecordRecvBurst, NotRecorded, Return,
                            pool, history
  <2> QED BY <2>1, <2>2
<1>2. ReapedInOrder' /\ Locals'
  BY <1>1 DEF Book, ReapedInOrder, Locals
<1>3. CASE BurstIoError
  <2>1. UNCHANGED <<packets, pbytes, missed, mbytes>> /\ faults' = faults + 1
    BY <1>3 DEF BurstIoError, counters
  <2> QED BY <1>1, <1>2, <2>1 DEF Book, Types, Counted
<1>4. CASE BurstDone
  <2>1. /\ \/ /\ packets' = packets + n /\ pbytes' = pbytes + bytes
              /\ missed' = missed /\ mbytes' = mbytes
           \/ /\ packets' = packets /\ pbytes' = pbytes
              /\ missed' = missed + n /\ mbytes' = mbytes + bytes
        /\ faults' = faults
    BY <1>4 DEF BurstDone, RecordRecvBurst, NotRecorded, history
  <2>2. /\ packets \in Nat /\ pbytes \in Nat /\ missed \in Nat /\ mbytes \in Nat
        /\ n \in Nat /\ bytes \in Nat
    BY DEF Book, Types
  <2>3. /\ packets' \in Nat /\ pbytes' \in Nat /\ missed' \in Nat /\ mbytes' \in Nat
        /\ packets' + missed' + n' = packets + missed + n
        /\ pbytes' + mbytes' + bytes' = pbytes + mbytes + bytes
    BY <1>1, <2>1, <2>2
  <2>4. Types'
    BY <1>1, <2>1, <2>3 DEF Book, Types
  <2>5. Counted'
    BY <1>1, <2>1, <2>3 DEF Book, Counted
  <2> QED BY <1>2, <2>4, <2>5 DEF Book
<1> QED BY <1>3, <1>4

LEMMA OutsideKeeps ==
  ASSUME Book, (\E k \in 0 .. BatchCap : Drain(k)) \/ Others
  PROVE  Book'
<1>1. /\ UNCHANGED <<sock, accepted, mem, burst, counters, history>>
      /\ used' \subseteq Slots /\ taken' \subseteq Frame
  <2>1. \A k \in 1 .. Len(batch) : batch[k] \in Frame
    BY ElementOfSeq DEF Book, Types
  <2> QED BY <2>1 DEF Book, Types, Drain, Others, DropFrame, Reserve, Unreserve
<1>2. batch' = batch \/ (batch' = <<>> /\ pc = "idle")
  BY DEF Drain, Others, DropFrame, Reserve, Unreserve
<1>3. batch' \in Seq(Frame)
  BY <1>2, EmptySeq DEF Book, Types
<1>4. Types' /\ Counted'
  BY <1>1, <1>3 DEF Book, Types, Counted, burst, counters, history
<1>5. Locals'
  BY <1>1, <1>2 DEF Book, Locals, burst
<1>6. ReapedInOrder'
  BY <1>1, <1>2 DEF Book, ReapedInOrder, history
<1> QED BY <1>4, <1>5, <1>6 DEF Book

\* The gate says only where the next burst is counted.
LEMMA GateKeeps ==
  ASSUME Book, RefreshGate
  PROVE  Book'
<1>1. /\ UNCHANGED <<sock, accepted, mem, used, batch, taken, burst, packets, pbytes, missed,
                    mbytes, history>>
      /\ gate' \in BOOLEAN
  BY RecvAssumption DEF RefreshGate, pool
<1> QED BY <1>1 DEF Book, Types, Locals, ReapedInOrder, Counted, burst, history

LEMMA BookStep ==
  ASSUME Book, [Next]_vars
  PROVE  Book'
<1>1. CASE UNCHANGED vars
  BY <1>1 DEF vars, pool, burst, counters, history, Book, Types, Locals, ReapedInOrder, Counted
<1> QED BY <1>1, ArriveKeeps, RecvKeeps, BurstKeeps, EndKeeps, OutsideKeeps,
        GateKeeps DEF Next, BurstStep

LEMMA BookAlways == Spec => []Book
  BY BookInit, BookStep, PTL DEF Spec

(***************************************************************************)
(* No datagram is lost, doubled or reordered between the socket and the    *)
(* batch, whatever ends a burst.                                           *)
(***************************************************************************)
THEOREM NoDatagramLost == Spec => []ReapedInOrder
<1>1. Book => ReapedInOrder
  BY DEF Book
<1> QED BY <1>1, BookAlways, PTL

(***************************************************************************)
(* The recv counters never run ahead of the frames, and are exact as long  *)
(* as no recv_from fails.                                                  *)
(***************************************************************************)
THEOREM CountersExact == Spec => []MetricsExact
<1>1. Book => MetricsExact
  BY DEF Book, Types, Locals, Counted, MetricsExact
<1> QED BY <1>1, BookAlways, PTL

(***************************************************************************)
(* PoolExhausted is answered only by a burst that reaped nothing: only the *)
(* step after a first failing acquire answers it.                          *)
(***************************************************************************)
THEOREM ExhaustedIsEmpty == Spec => ExhaustedReapsNothing
<1>1. ASSUME Book, [Next]_vars, result' # result, result'.kind = "PoolExhausted"
      PROVE  Len(batch) = base
  <2>1. BurstExhausted \/ BurstIoError \/ BurstDone
    BY <1>1 DEF Next, BurstStep, Others, vars, burst, Arrive, BurstCall, BurstAcquire,
       BurstNoSlab, BurstRecv, BurstWouldBlock, Drain, RefreshGate, DropFrame, Reserve,
       Unreserve
  <2>2. ~BurstIoError /\ ~BurstDone
    BY <1>1 DEF BurstIoError, BurstDone, Returned
  <2>3. pc = "exhausted"
    BY <2>1, <2>2 DEF BurstExhausted
  <2>4. n = 0 /\ Len(batch) = base + n /\ base \in Nat
    BY <1>1, <2>3 DEF Book, Locals, Types
  <2> QED BY <2>4
<1>2. Book /\ [Next]_vars => [result' # result /\ result'.kind = "PoolExhausted"
                                => Len(batch) = base]_vars
  BY <1>1
<1> QED BY <1>2, BookAlways, PTL DEF Spec, ExhaustedReapsNothing

--------------------------------------------------------------------------------
(***************************************************************************)
(* A slot in use has one owner: the slab in hand, a reservation, one frame *)
(* of the batch, or one frame that was drained.                            *)
(***************************************************************************)
Owned ==
  /\ hand \subseteq used /\ reserved \subseteq used /\ hand \cap reserved = {}
  /\ \A k \in 1 .. Len(batch) : batch[k].slot \in used \ (hand \cup reserved)
  /\ \A f \in taken : f.slot \in used \ (hand \cup reserved)
  /\ \A j, k \in 1 .. Len(batch) : batch[j].slot = batch[k].slot => j = k
  /\ \A f, g \in taken : f.slot = g.slot => f = g
  /\ \A k \in 1 .. Len(batch), f \in taken : batch[k].slot # f.slot

Intact(f) ==
  mem[f.slot] = f.from.id /\ f.len = Landed(f.from.len) /\ f.peer = Addr(f.from.peer)

\* FramesIntact, by place in the batch.
Whole ==
  /\ \A k \in 1 .. Len(batch) : Intact(batch[k])
  /\ \A f \in taken : Intact(f)

LEMMA WholeInit == Init => Owned /\ Whole
<1> SUFFICES ASSUME Init PROVE Owned /\ Whole
  OBVIOUS
<1>1. /\ batch = <<>> /\ taken = {} /\ hand = {} /\ reserved = {} /\ used = {}
  BY DEF Init
<1>2. 1 .. Len(batch) = {}
  BY <1>1, EmptySeq
<1> QED BY <1>1, <1>2 DEF Owned, Whole

LEMMA WholeBurst ==
  ASSUME Book, Owned, Whole,
         (\E s \in Slots : BurstAcquire(s)) \/ BurstWouldBlock \/ BurstIoError
  PROVE  Owned' /\ Whole'
<1>1. UNCHANGED <<mem, reserved, batch, taken>>
  BY DEF BurstAcquire, BurstWouldBlock, BurstIoError
<1>2. Whole'
  BY <1>1 DEF Whole, Intact
<1>3. CASE \E s \in Slots : BurstAcquire(s)
  <2>1. PICK s \in Slots : s \notin used /\ used' = used \cup {s} /\ hand' = {s}
    BY <1>3 DEF BurstAcquire
  <2> QED BY <1>1, <1>2, <2>1 DEF Owned
<1>4. CASE BurstWouldBlock \/ BurstIoError
  <2>1. used' = used \ hand /\ hand' = {}
    BY <1>4 DEF BurstWouldBlock, BurstIoError
  <2> QED BY <1>1, <1>2, <2>1 DEF Owned
<1> QED BY <1>3, <1>4

LEMMA WholeRecv ==
  ASSUME Book, Owned, Whole, BurstRecv
  PROVE  Owned' /\ Whole'
<1>1. PICK d \in Datagram, f \in Frame :
        /\ hand = {f.slot} /\ f.from = d /\ f.len = Landed(d.len) /\ f.peer = Addr(d.peer)
        /\ batch' = Append(batch, f) /\ mem' = [mem EXCEPT ![f.slot] = d.id]
  BY RecvFacts DEF Book
<1>2. UNCHANGED <<used, reserved, taken>> /\ hand' = {}
  BY DEF BurstRecv
<1>3. batch \in Seq(Frame) /\ mem \in [Slots -> Nat] /\ f.slot \in Slots /\ taken \subseteq Frame
  BY DEF Book, Types, Frame
<1>4. /\ Len(batch') = Len(batch) + 1 /\ batch'[Len(batch) + 1] = f /\ Len(batch) \in Nat
      /\ \A k \in 1 .. Len(batch) : batch'[k] = batch[k]
  BY <1>1, <1>3, AppendProperties, LenProperties
<1>5. \A k \in 1 .. Len(batch') : k \in 1 .. Len(batch) \/ k = Len(batch) + 1
  BY <1>4
<1>6. /\ f.slot \in used /\ f.slot \notin reserved
      /\ \A k \in 1 .. Len(batch) : batch[k].slot # f.slot
      /\ \A g \in taken : g.slot # f.slot
  BY <1>1 DEF Owned
<1>7. Owned'
  BY <1>2, <1>4, <1>5, <1>6 DEF Owned
<1>8. mem'[f.slot] = d.id /\ \A s \in Slots : s # f.slot => mem'[s] = mem[s]
  BY <1>1, <1>3
<1>9. \A k \in 1 .. Len(batch) : batch[k].slot \in Slots
  BY <1>3, ElementOfSeq DEF Frame
<1>10. \A g \in taken : g.slot \in Slots
  BY <1>3 DEF Frame
<1>11. ASSUME NEW k \in 1 .. Len(batch') PROVE Intact(batch[k])'
  <2>1. CASE k = Len(batch) + 1
    BY <1>1, <1>4, <1>8, <2>1 DEF Intact
  <2>2. CASE k \in 1 .. Len(batch)
    BY <1>4, <1>6, <1>8, <1>9, <2>2 DEF Intact, Whole
  <2> QED BY <1>5, <2>1, <2>2
<1>12. \A g \in taken' : Intact(g)'
  BY <1>2, <1>6, <1>8, <1>10 DEF Intact, Whole
<1> QED BY <1>7, <1>11, <1>12 DEF Whole

LEMMA WholeDrain ==
  ASSUME Book, Owned, Whole, NEW k \in 0 .. BatchCap, Drain(k)
  PROVE  Owned' /\ Whole'
<1>1. /\ UNCHANGED <<mem, reserved, hand>> /\ batch' = <<>> /\ k \in 0 .. Len(batch)
      /\ taken' = taken \cup {batch[j] : j \in 1 .. k}
      /\ used' = used \ {batch[j].slot : j \in k + 1 .. Len(batch)}
      /\ hand = {}
  BY DEF Drain, burst, Book, Locals
<1>2. 1 .. Len(batch') = {}
  BY <1>1, EmptySeq
<1>3. Len(batch) \in Nat /\ 1 .. k \subseteq 1 .. Len(batch)
      /\ k + 1 .. Len(batch) \subseteq 1 .. Len(batch)
      /\ \A i \in 1 .. k, j \in k + 1 .. Len(batch) : i # j
  <2>1. Len(batch) \in Nat
    BY LenProperties DEF Book, Types
  <2> QED BY <1>1, <2>1
<1>4. \A f \in taken' : f \in taken \/ \E j \in 1 .. k : f = batch[j]
  BY <1>1
<1>5. \A f \in taken' : f.slot \in used' \ (hand' \cup reserved')
  <2>1. \A f \in taken : f.slot \in used'
    BY <1>1, <1>3 DEF Owned
  <2>2. \A i \in 1 .. k : batch[i].slot \in used'
    BY <1>1, <1>3 DEF Owned
  <2>3. \A f \in taken' : f.slot \notin reserved
    BY <1>3, <1>4 DEF Owned
  <2> QED BY <1>1, <1>4, <2>1, <2>2, <2>3
<1>6. \A f, g \in taken' : f.slot = g.slot => f = g
  BY <1>3, <1>4 DEF Owned
<1>7. reserved' \subseteq used'
  BY <1>1, <1>3 DEF Owned
<1>8. ASSUME NEW f \in taken' PROVE Intact(f)'
  <2>1. Intact(f)
    BY <1>3, <1>4 DEF Whole
  <2>2. mem' = mem
    BY <1>1
  <2> QED BY <2>1, <2>2 DEF Intact
<1>9. Whole'
  BY <1>2, <1>8 DEF Whole
<1>10. hand' = {}
  BY <1>1
<1>11. Owned'
  BY <1>2, <1>5, <1>6, <1>7, <1>10 DEF Owned
<1> QED BY <1>9, <1>11

LEMMA WholeOthers ==
  ASSUME Book, Owned, Whole, Others
  PROVE  Owned' /\ Whole'
<1>1. UNCHANGED <<mem, batch, hand>>
  BY DEF Others, DropFrame, Reserve, Unreserve, burst
<1>2. CASE \E f \in taken : DropFrame(f)
  <2>1. PICK f \in taken : taken' = taken \ {f} /\ used' = used \ {f.slot} /\ reserved' = reserved
    BY <1>2 DEF DropFrame
  <2> QED BY <1>1, <2>1 DEF Owned, Whole, Intact
<1>3. CASE \E s \in Slots : Reserve(s)
  <2>1. PICK s \in Slots : s \notin used /\ taken' = taken /\ used' = used \cup {s}
                           /\ reserved' = reserved \cup {s}
    BY <1>3 DEF Reserve
  <2> QED BY <1>1, <2>1 DEF Owned, Whole, Intact
<1>4. CASE \E s \in Slots : Unreserve(s)
  <2>1. PICK s \in Slots : s \in reserved /\ taken' = taken /\ used' = used \ {s}
                           /\ reserved' = reserved \ {s}
    BY <1>4 DEF Unreserve
  <2> QED BY <1>1, <2>1 DEF Owned, Whole, Intact
<1> QED BY <1>2, <1>3, <1>4 DEF Others

LEMMA WholeStep ==
  ASSUME Book, Owned, Whole, [Next]_vars
  PROVE  Owned' /\ Whole'
<1>1. ASSUME UNCHANGED <<pool, batch, taken, hand>> PROVE Owned' /\ Whole'
  <2>1. UNCHANGED <<mem, used, reserved, batch, taken, hand>>
    BY <1>1 DEF pool
  <2> QED BY <2>1 DEF Owned, Whole, Intact
<1>2. CASE UNCHANGED vars
  BY <1>1, <1>2 DEF vars, burst
<1>3. CASE \/ \E l \in Lens, p \in Peers : Arrive(l, p)
           \/ \E max \in 0 .. BatchCap + 1 : BurstCall(max)
           \/ BurstNoSlab \/ BurstExhausted \/ BurstDone \/ RefreshGate
  BY <1>1, <1>3 DEF Arrive, BurstCall, BurstNoSlab, BurstExhausted, BurstDone, RefreshGate, burst
<1> QED BY <1>2, <1>3, WholeBurst, WholeRecv, WholeDrain, WholeOthers DEF Next, BurstStep

(***************************************************************************)
(* A frame keeps the bytes, the length and the sender of its datagram from *)
(* the moment it is reaped until it is dropped, whatever runs meanwhile.   *)
(***************************************************************************)
THEOREM FramesKeepTheirBytes == Spec => []FramesIntact
<1>1. Init => Book /\ Owned /\ Whole
  BY BookInit, WholeInit
<1>2. Book /\ Owned /\ Whole /\ [Next]_vars => (Book /\ Owned /\ Whole)'
  BY BookStep, WholeStep
<1>3. Whole => FramesIntact
  BY DEF Whole, Intact, FramesIntact, InBatch
<1> QED BY <1>1, <1>2, <1>3, PTL DEF Spec
--------------------------------------------------------------------------------
(***************************************************************************)
(* The other direction of Owned: a slot in use has an owner at all.        *)
(***************************************************************************)
NoLeak ==
  \A s \in used :
    \/ s \in hand \cup reserved
    \/ \E k \in 1 .. Len(batch) : s = batch[k].slot
    \/ \E f \in taken : s = f.slot

LEMMA LeakBurst ==
  ASSUME Book, NoLeak, (\E s \in Slots : BurstAcquire(s)) \/ BurstWouldBlock \/ BurstIoError
  PROVE  NoLeak'
<1>1. UNCHANGED <<reserved, batch, taken>>
  BY DEF BurstAcquire, BurstWouldBlock, BurstIoError
<1>2. CASE \E s \in Slots : BurstAcquire(s)
  <2>1. PICK s \in Slots : used' = used \cup {s} /\ hand' = {s} /\ hand = {}
    BY <1>2 DEF BurstAcquire, Book, Locals
  <2> QED BY <1>1, <2>1 DEF NoLeak
<1>3. CASE BurstWouldBlock \/ BurstIoError
  BY <1>1, <1>3 DEF BurstWouldBlock, BurstIoError, NoLeak
<1> QED BY <1>2, <1>3

LEMMA LeakRecv ==
  ASSUME Book, NoLeak, BurstRecv
  PROVE  NoLeak'
<1>1. PICK d \in Datagram, f \in Frame : hand = {f.slot} /\ batch' = Append(batch, f)
  BY RecvFacts DEF Book
<1>2. UNCHANGED <<used, reserved, taken>>
  BY DEF BurstRecv
<1>3. batch \in Seq(Frame) /\ Len(batch) \in Nat
  BY LenProperties DEF Book, Types
<1>4. /\ Len(batch') = Len(batch) + 1 /\ batch'[Len(batch) + 1] = f
      /\ \A k \in 1 .. Len(batch) : batch'[k] = batch[k]
  BY <1>1, <1>3, AppendProperties
<1>5. /\ \A k \in 1 .. Len(batch) : k \in 1 .. Len(batch')
      /\ Len(batch) + 1 \in 1 .. Len(batch')
  BY <1>3, <1>4
<1> QED BY <1>1, <1>2, <1>4, <1>5 DEF NoLeak

LEMMA LeakDrain ==
  ASSUME Book, NoLeak, NEW k \in 0 .. BatchCap, Drain(k)
  PROVE  NoLeak'
<1>1. /\ UNCHANGED <<reserved, hand>> /\ k \in 0 .. Len(batch)
      /\ taken' = taken \cup {batch[j] : j \in 1 .. k}
      /\ used' = used \ {batch[j].slot : j \in k + 1 .. Len(batch)}
  BY DEF Drain, burst
<1>2. \A j \in 1 .. Len(batch) : j \in 1 .. k \/ j \in k + 1 .. Len(batch)
  <2>1. Len(batch) \in Nat
    BY LenProperties DEF Book, Types
  <2> QED BY <1>1, <2>1
<1>3. ASSUME NEW s \in used', NEW j \in 1 .. Len(batch), s = batch[j].slot
      PROVE  \E f \in taken' : s = f.slot
  BY <1>1, <1>2, <1>3
<1> QED BY <1>1, <1>3 DEF NoLeak

LEMMA LeakOthers ==
  ASSUME NoLeak, Others
  PROVE  NoLeak'
<1>1. UNCHANGED <<batch, hand>>
  BY DEF Others, DropFrame, Reserve, Unreserve, burst
<1>2. CASE \E f \in taken : DropFrame(f)
  BY <1>1, <1>2 DEF DropFrame, NoLeak
<1>3. CASE \E s \in Slots : Reserve(s) \/ Unreserve(s)
  BY <1>1, <1>3 DEF Reserve, Unreserve, NoLeak
<1> QED BY <1>2, <1>3 DEF Others

LEMMA LeakStep ==
  ASSUME Book, NoLeak, [Next]_vars
  PROVE  NoLeak'
<1>1. ASSUME UNCHANGED <<pool, batch, taken, hand>> PROVE NoLeak'
  BY <1>1 DEF pool, NoLeak
<1>2. CASE UNCHANGED vars
  BY <1>1, <1>2 DEF vars, burst
<1>3. CASE \/ \E l \in Lens, p \in Peers : Arrive(l, p)
           \/ \E max \in 0 .. BatchCap + 1 : BurstCall(max)
           \/ BurstNoSlab \/ BurstExhausted \/ BurstDone \/ RefreshGate
  BY <1>1, <1>3 DEF Arrive, BurstCall, BurstNoSlab, BurstExhausted, BurstDone, RefreshGate, burst
<1> QED BY <1>2, <1>3, LeakBurst, LeakRecv, LeakDrain, LeakOthers DEF Next, BurstStep

(***************************************************************************)
(* Distinct slots, one per index, are as many as the indices.              *)
(***************************************************************************)
LEMMA CountImage ==
  ASSUME NEW S, NEW T, NEW g \in [S -> T], IsFiniteSet(S),
         \A x, y \in S : g[x] = g[y] => x = y,
         \A t \in T : \E x \in S : t = g[x]
  PROVE  IsFiniteSet(T) /\ Cardinality(T) = Cardinality(S)
<1>1. g \in Bijection(S, T)
  BY DEF Bijection, Injection, Surjection, IsInjective
<1>2. ExistsBijection(S, T)
  BY <1>1 DEF ExistsBijection
<1> QED BY <1>2, FS_Bijection

LEMMA Disjoint ==
  ASSUME NEW S, NEW T, IsFiniteSet(S), IsFiniteSet(T), S \cap T = {}
  PROVE  IsFiniteSet(S \cup T) /\ Cardinality(S \cup T) = Cardinality(S) + Cardinality(T)
<1>1. Cardinality(S) \in Nat /\ Cardinality(T) \in Nat /\ Cardinality({}) = 0
  BY FS_CardinalityType, FS_EmptySet
<1>2. IsFiniteSet(S \cup T)
      /\ Cardinality(S \cup T) = Cardinality(S) + Cardinality(T) - Cardinality(S \cap T)
  BY FS_Union
<1>3. Cardinality(S \cap T) = 0
  BY <1>1, Zenon
<1> QED BY <1>1, <1>2, <1>3

(***************************************************************************)
(* The owners of the used slots are apart, so their numbers add up.        *)
(***************************************************************************)
LEMMA OwnersAddUp ==
  ASSUME Book, Owned, NoLeak
  PROVE  SlabsAccounted
<1> DEFINE B == SlotsOf(InBatch)
           D == SlotsOf(taken)
<1>1. /\ IsFiniteSet(used) /\ batch \in Seq(Frame) /\ Len(batch) \in Nat
  BY RecvAssumption, FS_Subset, LenProperties DEF Book, Types
<1>2. /\ \A k \in 1 .. Len(batch) : batch[k].slot \in B
      /\ \A s \in B : \E k \in 1 .. Len(batch) : s = batch[k].slot
      /\ \A f \in taken : f.slot \in D
      /\ \A s \in D : \E f \in taken : s = f.slot
  BY DEF SlotsOf, InBatch
<1> HIDE DEF B, D
<1>3. used = hand \cup B \cup D \cup reserved
  BY <1>2 DEF Owned, NoLeak
<1>4. /\ B \cap hand = {} /\ B \cap reserved = {} /\ B \cap D = {}
      /\ D \cap hand = {} /\ D \cap reserved = {} /\ hand \cap reserved = {}
  BY <1>2 DEF Owned
<1>5. IsFiniteSet(B) /\ Cardinality(B) = Len(batch)
  <2> DEFINE g == [k \in 1 .. Len(batch) |-> batch[k].slot]
  <2>1. g \in [1 .. Len(batch) -> B] /\ \A s \in B : \E k \in 1 .. Len(batch) : s = g[k]
    BY <1>2
  <2>2. \A j, k \in 1 .. Len(batch) : g[j] = g[k] => j = k
    BY DEF Owned
  <2>3. IsFiniteSet(1 .. Len(batch)) /\ Cardinality(1 .. Len(batch)) = Len(batch)
    BY SMTT(30), <1>1, FS_Interval
  <2> HIDE DEF g
  <2> QED BY <2>1, <2>2, <2>3, CountImage
<1>6. Cardinality(D) = Cardinality(taken) /\ IsFiniteSet(D)
  <2> DEFINE g == [s \in D |-> CHOOSE f \in taken : s = f.slot]
  <2>1. \A s \in D : g[s] \in taken /\ s = g[s].slot
    BY <1>2
  <2>2. IsFiniteSet(D)
    BY <1>1, <1>3, FS_Subset
  <2>3. g \in [D -> taken] /\ \A s, t \in D : g[s] = g[t] => s = t
    BY <2>1
  <2>4. \A f \in taken : \E s \in D : f = g[s]
    BY <1>2, <2>1 DEF Owned
  <2> HIDE DEF g
  <2> QED BY <2>2, <2>3, <2>4, CountImage
<1>7. IsFiniteSet(hand) /\ IsFiniteSet(reserved)
  BY <1>1, <1>3, FS_Subset
<1>8. Cardinality(used) = Cardinality(hand) + Len(batch) + Cardinality(taken)
                            + Cardinality(reserved)
  <2>1. /\ Cardinality(hand) \in Nat /\ Cardinality(reserved) \in Nat
        /\ Cardinality(B) \in Nat /\ Cardinality(D) \in Nat
    BY <1>5, <1>6, <1>7, FS_CardinalityType
  <2>2. IsFiniteSet(hand \cup B) /\ Cardinality(hand \cup B) = Cardinality(hand) + Cardinality(B)
    BY <1>4, <1>5, <1>7, <2>1, Disjoint
  <2>3. /\ IsFiniteSet(hand \cup B \cup D)
        /\ Cardinality(hand \cup B \cup D) = Cardinality(hand \cup B) + Cardinality(D)
    BY <1>4, <1>6, <2>1, <2>2, Disjoint
  <2>4. Cardinality(used) = Cardinality(hand \cup B \cup D) + Cardinality(reserved)
    BY <1>3, <1>4, <1>7, <2>3, Disjoint
  <2> QED BY <1>5, <1>6, <2>1, <2>2, <2>3, <2>4
<1> QED BY <1>3, <1>8 DEF SlabsAccounted, B, D

(***************************************************************************)
(* No way out of recv_burst leaks a slab or returns one in use: the used   *)
(* slots are those of the slab in hand, the batch, the frames handed out   *)
(* and the reservations, each counted once.                                *)
(***************************************************************************)
THEOREM NoSlabLeaks == Spec => []SlabsAccounted
<1>1. Init => Book /\ Owned /\ Whole /\ NoLeak
  <2>1. Init => NoLeak
    BY DEF Init, NoLeak
  <2> QED BY <2>1, BookInit, WholeInit
<1>2. Book /\ Owned /\ Whole /\ NoLeak /\ [Next]_vars => (Book /\ Owned /\ Whole /\ NoLeak)'
  BY BookStep, WholeStep, LeakStep
<1>3. Book /\ Owned /\ NoLeak => SlabsAccounted
  BY OwnersAddUp
<1> QED BY <1>1, <1>2, <1>3, PTL DEF Spec

--------------------------------------------------------------------------------
(***************************************************************************)
(* Behind the selector.  The readiness call and its faults leave everything*)
(* that recv_burst relies on alone.                                        *)
(***************************************************************************)
RecvSound == Book /\ Owned /\ Whole /\ NoLeak

LEMMA SoundInit == EdgeInit => RecvSound
<1>1. Init => NoLeak
  BY DEF Init, NoLeak
<1> QED BY <1>1, BookInit, WholeInit DEF EdgeInit, RecvSound

LEMMA SoundStep ==
  ASSUME RecvSound, EdgeNext
  PROVE  RecvSound'
<1>1. Next
  BY DEF EdgeNext, EdgeArrive, EdgeBurstCall, EdgeBurstStep, EdgeDrain, EdgeRefreshGate,
         EdgeDropFrame, EdgeReserve, EdgeUnreserve, Next, Others
<1> QED BY <1>1, BookStep, WholeStep, LeakStep DEF RecvSound

LEMMA SoundReady ==
  ASSUME RecvSound, UNCHANGED vars \/ ReturnIo
  PROVE  RecvSound'
<1>1. CASE UNCHANGED vars
  BY <1>1, BookStep, WholeStep, LeakStep DEF RecvSound
<1>2. CASE ReturnIo
  <2>1. /\ UNCHANGED <<sock, accepted, pool, batch, taken, burst, counters, reaped, rbytes>>
        /\ faults' = faults + 1
    BY <1>2 DEF ReturnIo
  <2>2. Book'
    BY SMTT(30), <2>1
    DEF RecvSound, Book, Types, Locals, ReapedInOrder, Counted, pool, burst, counters
  <2>3. Owned' /\ Whole' /\ NoLeak'
    BY <2>1 DEF RecvSound, Owned, Whole, Intact, NoLeak, pool, burst
  <2> QED BY <2>2, <2>3 DEF RecvSound
<1> QED BY <1>1, <1>2

(***************************************************************************)
(* What a caller of recv_burst relies on, wherever ready() is called.      *)
(***************************************************************************)
LEMMA SoundFacts ==
  ASSUME RecvSound
  PROVE  SlabsAccounted /\ FramesIntact /\ ReapedInOrder /\ MetricsExact
<1>1. SlabsAccounted
  BY OwnersAddUp DEF RecvSound
<1>2. FramesIntact
  BY DEF RecvSound, Whole, Intact, FramesIntact, InBatch
<1>3. ReapedInOrder /\ MetricsExact
  BY DEF RecvSound, Book, Types, Locals, Counted, MetricsExact
<1> QED BY <1>1, <1>2, <1>3

(***************************************************************************)
(* What the readiness call promises, until a burst ends: a datagram is     *)
(* queued, unless the burst under way has reaped one already.              *)
(***************************************************************************)
PromiseKept ==
  /\ cap \in Int
  /\ wait # "no" => pc = "idle" /\ ~woken
  /\ woken /\ (pc = "idle" \/ (pc \in {"loop", "recv"} /\ n = 0)) => sock # <<>>
  /\ woken /\ pc = "done" => n # 0

\* One step of ReadyMeansProgress.
Progress ==
  pc # "idle" /\ pc' = "idle" /\ woken /\ cap > 0
    => ~(result'.kind = "Ok" /\ result'.n = 0)

LEMMA PromiseInit == EdgeInit => PromiseKept
<1> SUFFICES ASSUME EdgeInit PROVE PromiseKept
  OBVIOUS
<1>1. cap = 0 /\ pc = "idle" /\ wait = "no" /\ ~woken
  BY DEF EdgeInit, Init
<1> QED BY <1>1 DEF PromiseKept

LEMMA PromiseBurst ==
  ASSUME Book, PromiseKept, EdgeBurstStep
  PROVE  PromiseKept' /\ Progress
<1>0. /\ wait = "no" /\ wait' = "no" /\ (woken' => woken /\ pc' # "idle")
      /\ n \in Nat /\ cap \in Int
  BY DEF EdgeBurstStep, Book, Types, PromiseKept
<1>1. CASE BurstExhausted \/ BurstIoError
  <2>1. pc' = "idle" /\ cap' = 0 /\ result'.kind # "Ok"
    BY <1>1 DEF BurstExhausted, BurstIoError, Return, Returned
  <2> QED BY <1>0, <2>1 DEF PromiseKept, Progress
<1>2. CASE BurstDone
  <2>1. /\ pc' = "idle" /\ cap' = 0 /\ result'.n = n
        /\ pc = "done" \/ (pc = "loop" /\ n >= cap)
    BY <1>2 DEF BurstDone, Return, Returned
  <2>2. woken /\ cap > 0 => n # 0
    BY <1>0, <2>1 DEF PromiseKept
  <2> QED BY <1>0, <2>1, <2>2 DEF PromiseKept, Progress
<1>3. CASE (\E s \in Slots : BurstAcquire(s)) \/ BurstNoSlab
  <2>1. /\ UNCHANGED <<sock, cap, n>> /\ pc = "loop"
        /\ pc' \in {"recv", "exhausted"} \/ (pc' = "done" /\ n # 0)
    BY <1>3 DEF BurstAcquire, BurstNoSlab
  <2> QED BY <1>0, <2>1 DEF PromiseKept, Progress
<1>4. CASE BurstRecv
  <2>1. cap' = cap /\ n' = n + 1 /\ pc' = "loop"
    BY <1>4 DEF BurstRecv
  <2> QED BY <1>0, <2>1 DEF PromiseKept, Progress
<1>5. CASE BurstWouldBlock
  <2>1. UNCHANGED <<cap, n>> /\ sock = <<>> /\ pc = "recv" /\ pc' = "done"
    BY <1>5 DEF BurstWouldBlock
  <2> QED BY <1>0, <2>1 DEF PromiseKept, Progress
<1> QED BY <1>1, <1>2, <1>3, <1>4, <1>5 DEF EdgeBurstStep, BurstStep

LEMMA PromiseEdge ==
  ASSUME Book, PromiseKept, EdgeNext
  PROVE  PromiseKept' /\ Progress
<1>1. ASSUME NEW l \in Lens, NEW p \in Peers, EdgeArrive(l, p)
      PROVE  PromiseKept' /\ Progress
  <2>1. /\ UNCHANGED <<wait, woken, pc, cap, n>>
        /\ sock' = Append(sock, [id |-> accepted + 1, len |-> l, peer |-> p])
        /\ accepted < MaxArrivals
    BY <1>1 DEF EdgeArrive, Arrive, burst
  <2>2. sock' # <<>>
    <3>1. sock \in Seq(Datagram) /\ accepted \in Nat
      BY DEF Book, Types
    <3>2. [id |-> accepted + 1, len |-> l, peer |-> p] \in Datagram
      BY <2>1, <3>1, RecvAssumption DEF Datagram
    <3> QED BY <2>1, <3>1, <3>2, AppendProperties
  <2> QED BY <2>1, <2>2 DEF PromiseKept, Progress
<1>2. ASSUME NEW max \in 0 .. BatchCap + 1, EdgeBurstCall(max)
      PROVE  PromiseKept' /\ Progress
  <2>1. /\ UNCHANGED <<sock, wait, woken>> /\ wait = "no" /\ pc = "idle" /\ pc' = "loop"
        /\ n' = 0 /\ cap' = (IF max <= spare THEN max ELSE spare)
    BY <1>2 DEF EdgeBurstCall, BurstCall, readiness
  <2>2. cap' \in Int
    <3>1. Len(batch) \in Nat /\ BatchCap \in Nat
      BY RecvAssumption, LenProperties DEF Book, Types
    <3>2. spare \in Int /\ max \in Int
      BY <3>1 DEF spare
    <3> QED BY <2>1, <3>2
  <2> QED BY <2>1, <2>2 DEF PromiseKept, Progress
<1>3. CASE EdgeDrain \/ EdgeRefreshGate \/ EdgeDropFrame \/ EdgeReserve \/ EdgeUnreserve
  <2>1. UNCHANGED <<sock, wait, woken, pc, cap, n>>
    BY <1>3 DEF EdgeDrain, EdgeRefreshGate, EdgeDropFrame, EdgeReserve, EdgeUnreserve, Drain,
                RefreshGate, DropFrame, Reserve, Unreserve, readiness, burst
  <2> QED BY <2>1 DEF PromiseKept, Progress
<1> QED BY <1>1, <1>2, <1>3, PromiseBurst DEF EdgeNext

(***************************************************************************)
(* Where the readiness call begins, waits, is given up, or ends; it ends   *)
(* with Ok only next to a queued datagram.                                 *)
(***************************************************************************)
LEMMA PromiseReady ==
  ASSUME PromiseKept, UNCHANGED <<sock, pc, cap, n>>,
         \/ pc = "idle" /\ ~woken'
         \/ wait # "no" /\ sock # <<>> /\ ReturnOk
  PROVE  PromiseKept' /\ Progress
BY DEF PromiseKept, Progress, ReturnOk
================================================================================
