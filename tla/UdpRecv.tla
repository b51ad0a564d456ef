-------------------------------- MODULE UdpRecv --------------------------------
(***************************************************************************)
(* UdpTransport::recv_burst, the FrameBatch it fills and the frames it     *)
(* hands out (crates/mio/src/udp.rs; crates/tokio/src/udp.rs has the same  *)
(* loop).                                                                  *)
(*                                                                         *)
(* One receiving thread owns the transport and the batch and calls         *)
(* recv_burst and drain in any order.  Meanwhile the kernel queues         *)
(* datagrams, other threads drop the frames they were given, and a user of *)
(* PoolAccess takes slabs from the same pool: all of that happens between  *)
(* any two steps of a burst.                                               *)
(*                                                                         *)
(* The pool is used through its contract (module BufferPool, which VecPool *)
(* implements): acquire returns some free slot, or None when there is      *)
(* none.  recv_burst always asks for slab_size bytes, so acquire never     *)
(* refuses for length.                                                     *)
(***************************************************************************)
EXTENDS Naturals, Sequences, FiniteSets

CONSTANTS
  Slots,         \* the slots of the pool
  SlabSize,      \* bytes in a slab
  BatchCap,      \* capacity of the FrameBatch: FrameBatch::with_capacity
  QueueCap,      \* datagrams the kernel queues before it drops
  Lens,          \* lengths of datagrams
  Peers,         \* senders
  Unresolved,    \* senders whose address recv_from cannot resolve (tokio)
  Unspecified,   \* the address reported for them, 0.0.0.0:0
  NoPeer,        \* last_peer before the first datagram
  Gates,         \* states of the metrics gate: BOOLEAN, or less as a bound
  MaxArrivals,   \* bound: datagrams the kernel accepts
  MaxFaults,     \* bound: failing system calls
  MaxReserved    \* bound: slabs held by a user of PoolAccess

ASSUME RecvAssumption ==
  /\ IsFiniteSet(Slots) /\ Slots # {}
  /\ SlabSize \in Nat \ {0}
  /\ BatchCap \in Nat
  /\ QueueCap \in Nat \ {0}
  /\ Lens \subseteq Nat
  /\ Unresolved \subseteq Peers
  /\ Gates \subseteq BOOLEAN
  /\ MaxArrivals \in Nat /\ MaxFaults \in Nat /\ MaxReserved \in Nat

VARIABLES
  sock,        \* receive queue of the socket
  accepted,    \* history: datagrams the kernel has queued, also the next id
  mem,         \* mem[s]: which datagram's bytes are in slot s (0: none)
  used,        \* slots that are not free
  reserved,    \* slots acquired through PoolAccess by somebody else
  batch,       \* FrameBatch.frames
  taken,       \* frames drained from the batch and not dropped yet
  last_peer,   \* UdpTransport.last_peer
  pc,          \* where the receiving thread is inside recv_burst
  cap, n, bytes,  \* locals of recv_burst
  hand,        \* the slab acquired for this iteration: {} or {slot}
  base,        \* history: length of the batch when recv_burst was called
  result,      \* what the latest recv_burst returned
  packets, pbytes, \* counters transport.recv.packets and .bytes
  gate,        \* metrics_enabled(): the gate of the receiving thread
  missed, mbytes,  \* history: frames and bytes reaped by bursts with the gate off
  reaped, rbytes,  \* history: datagrams pushed into the batch, and their bytes
  faults       \* history: failed system calls

burst == <<pc, cap, n, bytes, hand, base, result>>
pool == <<mem, used, reserved>>
counters == <<packets, pbytes, gate, missed, mbytes>>
history == <<reaped, rbytes, faults>>
vars == <<sock, accepted, pool, batch, taken, last_peer, burst, counters, history>>

Landed(l) == IF l <= SlabSize THEN l ELSE SlabSize
Addr(p) == IF p \in Unresolved THEN Unspecified ELSE p

Datagram == [id : 1 .. MaxArrivals, len : Lens, peer : Peers]

\* UdpFrame { slab, peer }; `from` is history: the datagram it was made for.
Frame == [slot : Slots, len : 0 .. SlabSize, peer : Peers \cup {Unspecified},
          from : Datagram]

SlotsOf(frames) == {f.slot : f \in frames}
InBatch == {batch[k] : k \in 1 .. Len(batch)}

\* FrameBatch::spare.
spare == BatchCap - Len(batch)

Returned(kind, count, inuse) == [kind |-> kind, n |-> count, in_use |-> inuse]
--------------------------------------------------------------------------------
Init ==
  /\ sock = <<>> /\ accepted = 0
  /\ mem = [s \in Slots |-> 0] /\ used = {} /\ reserved = {}
  /\ batch = <<>> /\ taken = {}
  /\ last_peer = NoPeer
  /\ pc = "idle" /\ cap = 0 /\ n = 0 /\ bytes = 0 /\ hand = {} /\ base = 0
  /\ result = Returned("no call", 0, 0)
  /\ packets = 0 /\ pbytes = 0 /\ gate \in Gates /\ missed = 0 /\ mbytes = 0
  /\ reaped = 0 /\ rbytes = 0 /\ faults = 0

\* The kernel queues a datagram; when the queue is full it drops it instead.
Arrive(l, p) ==
  /\ accepted < MaxArrivals
  /\ Len(sock) < QueueCap
  /\ sock' = Append(sock, [id |-> accepted + 1, len |-> l, peer |-> p])
  /\ accepted' = accepted + 1
  /\ UNCHANGED <<pool, batch, taken, last_peer, burst, counters, history>>
--------------------------------------------------------------------------------
\* recv_burst(out, max).
BurstCall(max) ==
  /\ pc = "idle"
  /\ pc' = "loop"
  /\ cap' = (IF max <= spare THEN max ELSE spare)
  /\ n' = 0 /\ bytes' = 0 /\ base' = Len(batch)
  /\ UNCHANGED <<sock, accepted, pool, batch, taken, last_peer, hand, result,
                 counters, history>>

\* recv_burst returns; its locals are gone.
Return ==
  /\ pc' = "idle"
  /\ cap' = 0 /\ n' = 0 /\ bytes' = 0 /\ base' = 0

\* pool.acquire(slab_size) returns Some.
BurstAcquire(s) ==
  /\ pc = "loop" /\ n < cap
  /\ s \notin used
  /\ used' = used \cup {s}
  /\ hand' = {s}
  /\ pc' = "recv"
  /\ UNCHANGED <<sock, accepted, mem, reserved, batch, taken, last_peer, cap, n,
                 bytes, base, result, counters, history>>

\* Mutant of BurstNoSlab: an error although frames were reaped.
NoSlabAlwaysFails ==
  /\ pc = "loop" /\ n < cap
  /\ used = Slots
  /\ pc' = "exhausted"
  /\ UNCHANGED <<sock, accepted, pool, batch, taken, last_peer, cap, n, bytes,
                 hand, base, result, counters, history>>

\* pool.acquire returns None: an error only if this burst reaped nothing.
BurstNoSlab ==
  /\ pc = "loop" /\ n < cap
  /\ used = Slots
  /\ pc' = (IF n = 0 THEN "exhausted" ELSE "done")
  /\ UNCHANGED <<sock, accepted, pool, batch, taken, last_peer, cap, n, bytes,
                 hand, base, result, counters, history>>

\* The error carries in_use(), a second visit to the free list.
BurstExhausted ==
  /\ pc = "exhausted"
  /\ result' = Returned("PoolExhausted", 0, Cardinality(used))
  /\ Return
  /\ UNCHANGED <<sock, accepted, pool, batch, taken, last_peer, hand, counters,
                 history>>

\* recv_from lands a datagram: truncated to the slab (what unix does with one that
\* is longer; Windows reports an error), pushed as a frame.
BurstRecv ==
  /\ pc = "recv" /\ sock # <<>>
  /\ LET d == Head(sock)
         s == CHOOSE x \in hand : TRUE
         f == [slot |-> s, len |-> Landed(d.len), peer |-> Addr(d.peer), from |-> d]
     IN /\ sock' = Tail(sock)
        /\ mem' = [mem EXCEPT ![s] = d.id]
        /\ bytes' = bytes + Landed(d.len)
        /\ last_peer' = Addr(d.peer)
        /\ batch' = Append(batch, f)
        /\ reaped' = reaped + 1
        /\ rbytes' = rbytes + Landed(d.len)
  /\ n' = n + 1
  /\ hand' = {}
  /\ pc' = "loop"
  /\ UNCHANGED <<accepted, used, reserved, taken, cap, base, result, counters,
                 faults>>

\* Mutant of BurstWouldBlock: the slab in hand is leaked.
WouldBlockLeaks ==
  /\ pc = "recv" /\ sock = <<>>
  /\ hand' = {}
  /\ pc' = "done"
  /\ UNCHANGED <<sock, accepted, pool, batch, taken, last_peer, cap, n, bytes,
                 base, result, counters, history>>

\* recv_from would block: the slab drops back to the pool, the burst ends.
BurstWouldBlock ==
  /\ pc = "recv" /\ sock = <<>>
  /\ used' = used \ hand
  /\ hand' = {}
  /\ pc' = "done"
  /\ UNCHANGED <<sock, accepted, mem, reserved, batch, taken, last_peer, cap, n,
                 bytes, base, result, counters, history>>

\* Mutant of BurstIoError: the error comes after a datagram was taken.
IoErrorLosesDatagram ==
  /\ pc = "recv" /\ faults < MaxFaults /\ sock # <<>>
  /\ sock' = Tail(sock)
  /\ faults' = faults + 1
  /\ used' = used \ hand
  /\ hand' = {}
  /\ result' = Returned("Io", 0, 0)
  /\ Return
  /\ UNCHANGED <<accepted, mem, reserved, batch, taken, last_peer, counters,
                 reaped, rbytes>>

\* recv_from fails otherwise: the slab drops and the error returns at once.
BurstIoError ==
  /\ pc = "recv" /\ faults < MaxFaults
  /\ faults' = faults + 1
  /\ used' = used \ hand
  /\ hand' = {}
  /\ result' = Returned("Io", 0, 0)
  /\ Return
  /\ UNCHANGED <<sock, accepted, mem, reserved, batch, taken, last_peer, counters,
                 reaped, rbytes>>

\* record_recv_burst with the gate off: a no-op.
NotRecorded(k, b) ==
  /\ missed' = missed + k /\ mbytes' = mbytes + b
  /\ UNCHANGED <<packets, pbytes, gate>>

\* Mutant of RecordRecvBurst: counts bursts, not frames.
RecordOnePacket(k, b) ==
  \/ /\ gate
     /\ packets' = packets + 1 /\ pbytes' = pbytes + b
     /\ UNCHANGED <<gate, missed, mbytes>>
  \/ ~gate /\ NotRecorded(k, b)

\* record_recv_burst: both counters, if the gate is on at that moment.
RecordRecvBurst(k, b) ==
  \/ /\ gate
     /\ packets' = packets + k /\ pbytes' = pbytes + b
     /\ UNCHANGED <<gate, missed, mbytes>>
  \/ ~gate /\ NotRecorded(k, b)

\* The loop is over: the burst is recorded and Ok(n) returned.
BurstDone ==
  /\ pc = "done" \/ (pc = "loop" /\ n >= cap)
  /\ RecordRecvBurst(n, bytes)
  /\ result' = Returned("Ok", n, 0)
  /\ Return
  /\ UNCHANGED <<sock, accepted, pool, batch, taken, last_peer, hand, history>>

\* Metrics are switched on or off between two bursts: the gate is a copy of the
\* global switch that the receiving thread refreshes itself.
RefreshGate ==
  /\ pc = "idle"
  /\ gate' \in Gates \ {gate}
  /\ UNCHANGED <<sock, accepted, pool, batch, taken, last_peer, burst, packets,
                 pbytes, missed, mbytes, history>>
--------------------------------------------------------------------------------
\* Mutant of Drain: the slabs of the frames handed out are reclaimed.
DrainReclaims(k) ==
  /\ pc = "idle" /\ batch # <<>> /\ k \in 0 .. Len(batch)
  /\ taken' = taken \cup {batch[j] : j \in 1 .. k}
  /\ used' = used \ SlotsOf(InBatch)
  /\ batch' = <<>>
  /\ UNCHANGED <<sock, accepted, mem, reserved, last_peer, burst, counters, history>>

\* FrameBatch::drain: the caller takes the first k frames, the iterator drops
\* the others; the batch is empty and keeps its capacity.
Drain(k) ==
  /\ pc = "idle" /\ batch # <<>> /\ k \in 0 .. Len(batch)
  /\ taken' = taken \cup {batch[j] : j \in 1 .. k}
  /\ used' = used \ {batch[j].slot : j \in k + 1 .. Len(batch)}
  /\ batch' = <<>>
  /\ UNCHANGED <<sock, accepted, mem, reserved, last_peer, burst, counters, history>>

\* A frame is dropped, on whichever thread it ended up.
DropFrame(f) ==
  /\ f \in taken
  /\ taken' = taken \ {f}
  /\ used' = used \ {f.slot}
  /\ UNCHANGED <<sock, accepted, mem, reserved, batch, last_peer, burst, counters,
                 history>>

\* A user of PoolAccess acquires a slab, or drops one.
Reserve(s) ==
  /\ s \notin used /\ Cardinality(reserved) < MaxReserved
  /\ used' = used \cup {s}
  /\ reserved' = reserved \cup {s}
  /\ UNCHANGED <<sock, accepted, mem, batch, taken, last_peer, burst, counters,
                 history>>

Unreserve(s) ==
  /\ s \in reserved
  /\ used' = used \ {s}
  /\ reserved' = reserved \ {s}
  /\ UNCHANGED <<sock, accepted, mem, batch, taken, last_peer, burst, counters,
                 history>>
--------------------------------------------------------------------------------
\* Every step of recv_burst after the call.
BurstStep ==
  \/ \E s \in Slots : BurstAcquire(s)
  \/ BurstNoSlab \/ BurstExhausted \/ BurstRecv \/ BurstWouldBlock
  \/ BurstIoError \/ BurstDone

\* What other threads do.
Others ==
  \/ \E f \in taken : DropFrame(f)
  \/ \E s \in Slots : Reserve(s) \/ Unreserve(s)

Next ==
  \/ \E l \in Lens, p \in Peers : Arrive(l, p)
  \/ \E max \in 0 .. BatchCap + 1 : BurstCall(max)
  \/ BurstStep
  \/ \E k \in 0 .. BatchCap : Drain(k)
  \/ RefreshGate
  \/ Others

Spec == Init /\ [][Next]_vars

--------------------------------------------------------------------------------
(***************************************************************************)
(* Every slot that is not free is held exactly once: by the slab in hand,  *)
(* a frame in the batch, a frame somebody drained, or a reservation.  No   *)
(* path of recv_burst (would-block, I/O error, exhaustion) leaks a slab or *)
(* returns one that is still in use.                                       *)
(***************************************************************************)
SlabsAccounted ==
  /\ used = hand \cup SlotsOf(InBatch) \cup SlotsOf(taken) \cup reserved
  /\ Cardinality(used) = Cardinality(hand) + Len(batch) + Cardinality(taken)
                           + Cardinality(reserved)

(***************************************************************************)
(* A frame keeps its datagram (bytes, truncated length, sender) from the   *)
(* moment it is reaped until it is dropped, whatever bursts run meanwhile: *)
(* "a frame outlives the recv call, moves across threads, and carries its  *)
(* own bytes" (RecvFrame, crates/core/src/transport.rs).                   *)
(***************************************************************************)
FramesIntact ==
  \A f \in InBatch \cup taken :
    /\ mem[f.slot] = f.from.id
    /\ f.len = Landed(f.from.len)
    /\ f.peer = Addr(f.from.peer)

(***************************************************************************)
(* Every datagram taken off the socket becomes a frame, once and in order: *)
(* the batch continues where the socket queue begins, and nothing was lost *)
(* on the way, not even when a burst ends in an error.                     *)
(***************************************************************************)
ReapedInOrder ==
  /\ \A k \in 1 .. Len(batch) : batch[k].from.id = reaped - Len(batch) + k
  /\ \A k \in 1 .. Len(sock) : sock[k].id = reaped + k
  /\ accepted = reaped + Len(sock)

(***************************************************************************)
(* PoolExhausted is returned only by a burst that reaped nothing, so a     *)
(* caller that stops on it abandons no frame of that burst.                *)
(***************************************************************************)
ExhaustedReapsNothing ==
  [][result' # result /\ result'.kind = "PoolExhausted" => Len(batch) = base]_vars

(***************************************************************************)
(* The counter of reaped frames counts the frames that were reaped         *)
(* ("Frames reaped", crates/core/src/telemetry.rs), those of bursts that   *)
(* ended with the gate off apart, whenever no burst is in progress.        *)
(***************************************************************************)
MetricsCountReaped ==
  pc = "idle" => packets + missed = reaped /\ pbytes + mbytes = rbytes

(***************************************************************************)
(* However metrics are switched on and off between bursts, the counters    *)
(* never run ahead of the frames reaped by bursts that ended with the gate *)
(* on, and without failing system calls they count them all.               *)
(***************************************************************************)
MetricsExact ==
  pc = "idle" =>
    /\ packets + missed <= reaped /\ pbytes + mbytes <= rbytes
    /\ faults = 0 => packets + missed = reaped /\ pbytes + mbytes = rbytes

(***************************************************************************)
(* "Ok(0) means the socket had nothing ready" (crates/mio/src/udp.rs): the *)
(* burst met an empty queue (a would-block), or the queue is empty when it *)
(* returns.                                                                *)
(***************************************************************************)
OkZeroMeansIdle ==
  [][pc # "idle" /\ pc' = "idle" /\ result'.kind = "Ok" /\ result'.n = 0
       => pc = "done" \/ sock = <<>>]_vars
================================================================================
