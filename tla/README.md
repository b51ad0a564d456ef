# Verification of the transports workspace

TLA+ specifications of this repository (crates `transport-core`,
`transport-mio`, `transport-tokio`): construction, receive paths, readiness,
sends and the scripted test peer; the TLC runs that check
them on small instances, and TLAPS proofs for every size.

    tlc -config MCVecPool.cfg MCVecPool       # one run; the cfg names are in PROJECT.json
    tlapm VecPoolProofs.tla                   # the proofs of one module

## The system

A transport receives market data. The application thread owns the transport and
calls `recv_burst` (UDP) or `recv_into` (TCP) without blocking; when there is
nothing to read it may sleep in `ready()` (mio) or await `readable()` (tokio).
A datagram lands in a *slab* of a bounded pool, the slab becomes an owned *frame*,
the frame may be dropped on any thread, and the drop returns the slab.

| Component | State | Operations | Interacts with |
|---|---|---|---|
| Slab pool `{mio,tokio}/src/pool.rs` | free list behind a `Mutex`, slot bytes behind `UnsafeCell`, `Arc` count | `acquire`, `buf_mut`, `set_len`, `as_ref`, drop of a slab, clone and drop of the handle, `in_use` | shared by every thread that holds a frame or a handle |
| UDP receive `{mio,tokio}/src/udp.rs`, `FrameBatch` | batch, `last_peer`, locals of a burst | `recv_burst`, `drain` | pool (acquire), kernel queue (recv_from), telemetry |
| mio readiness `mio/src/udp.rs` | owned `Poll` with its edges | `ready`, `probe_readable` | kernel queue (peek), selector |
| tokio readiness `tokio/src/udp.rs` | readiness bit and tick cached by the reactor | `readable`, `peek_ready` | kernel queue (peek), reactor thread |
| mio TCP `mio/src/tcp.rs` | stream, one `Poll` for connect, send and ready | `connect`, `wait_connect`, `recv_into`, `ready`, `send` | kernel stream, selector |
| tokio TCP `tokio/src/tcp.rs` | stream | `connect`, `recv_into`, `readable`, `send` | kernel stream, reactor thread |
| UDP construction and sending `{mio,tokio}/src/udp.rs` | socket, its options, its membership | `bind`, `apply_socket_opts`, `send`, `send_to`, `join_multicast` | kernel; other sockets on the address |
| Dispatch `{mio,tokio}/src/lib.rs` | the variant | `bind_udp`, `connect_tcp`, enum delegation, `Unsupported` | all of the above |
| Traits, config, errors `core/src` | none | promises the backends keep | |
| Telemetry `core/src/telemetry.rs` | two counters, a gate | `record_recv_burst` | recv_burst |
| Mock peer `core/src/testing/mock_peer.rs` | script position, report | `run` | a client under test |
| Conformance suite `core/src/testing/conformance.rs` | none | test cases | a transport under test |

What is hard: slots reached through `UnsafeCell` under a protocol that only the
free list enforces; frames dropped on other threads in the middle of a burst;
bursts that end early in four different ways with a slab in hand; readiness that
is edge-triggered below, level-triggered above and bypassed by `recv_burst`; a
cached bit that is cleared while another thread sets it; one `Poll` whose events three
loops consume; writes that stop half way; a constructor of ten system calls that may
fail, or panic, after it holds the address. `PROJECT.json` lists the
hazards line by line, with the property that covers each.

What makes each component correct:

* pool: a slot has one owner; no slot is lost; a slab whose length landed shows only
  its own bytes;
  the allocation outlives all slabs; `None` only when it is really saturated;
* receive: every datagram taken becomes one frame, in order, intact until dropped;
  no slab leaks; a burst recovers from exhaustion; the counters count what was reaped;
* readiness: never asleep next to queued data with nothing to end the sleep; `Ok`
  is never spurious; no spinning on an idle socket;
* TCP: no byte lost, repeated or reordered in either direction, also when a `send`
  is resumed, fails or is dropped; the end of the stream is told from would-block and
  never reported before the data in front of it; `connect` ends and tells the truth;
  `send` ends as long as the peer reads;
* construction: options count from the first datagram; a constructor that fails or
  panics leaves nothing bound; sends have the effect they answer, and end;
* mock peer: its report adds up, its frames parse, its verdict on the client's bytes
  does not depend on how they were cut, a run ends.

## The modules

    BufferPool      contract of the pool: who holds which slot
       ^ refined by
    VecPool         the pool of both backends            VecPoolProofs
    UdpRecv         recv_burst over the pool's contract  UdpRecvProofs
       ^ extended by
    EdgeUdp         the socket behind an edge-triggered selector
       ^ extended by
    MioUdp          ready()                              MioUdpProofs
    TokioUdp        readable()                           TokioUdpProofs
    TcpStream       recv_into, write, the kernel and the peer
       ^ extended by
    MioTcp          connect, ready(), send on one Poll   MioTcpProofs
    TokioTcp        connect, readable(), send as futures TokioTcpProofs
       | both refine
    ByteStream      contract of a stream: what is landed, what a send leaves

    UdpBind         bind of both backends, the shared address
       ^ extended by
    Transport       the enum: construction, wrong shapes, UDP sends, membership
                                                         TransportProofs

    MockPeer        the scripted peer and its client     MockPeerProofs

Modules `MC*` instantiate a module for TLC and define its symmetry sets. A definition whose comment starts with
"Mutant of" is a plausible bug that no specification uses: replacing the
definition it names by it must break the property that `PROJECT.json` lists.

### BufferPool and VecPool

`BufferPool` is the trait contract on ownership: `holder[s]` is the thread that
holds slot s. `VecPool` is the code. Threads carry a program counter through
`acquire` (lock, read the list, write the list, build the `VecSlab`) and through
`VecSlab::drop` (lock, read, write, drop the `Arc`). `Vec::pop` and `Vec::push` are
a read and a write on purpose: without the `Mutex` the interleaving would be
visible (the mutant `LockIgnored` shows it). The `Arc` count, the bytes of the
slots and the moves of slabs between threads are state. `wrote[h]`, the bytes
written through a slab, is history. `set_len` records any length (`SetLens`), as the
code does, and `as_ref` clips it to the slot only: a length that never landed shows
what the previous owner left there. `OwnBytesOnly` therefore speaks of lengths that
landed; that the one caller, `recv_burst`, records no other is `FramesIntact` of
`UdpRecv`.

The refinement mapping sends slot s to the owner of the live slab on it, or to the
thread carrying it between the list and a slab. The write of the list is the step
at which the abstract pool changes.

### UdpRecv

The two backends have the same loop. One action per way through an iteration:
`BurstAcquire` / `BurstNoSlab` / `BurstExhausted`, then `BurstRecv` /
`BurstWouldBlock` / `BurstIoError`, and `BurstDone` for the end of the loop with
the telemetry. Between any two of them the kernel queues datagrams (`Arrive`, the
kernel drops by not queueing), other threads drop frames (`DropFrame`) and another
user of `PoolAccess` takes or returns slabs (`Reserve`, `Unreserve`). The pool is
used through its contract. A frame remembers (history) the datagram it was made
from; `mem` says whose bytes are in a slot. The tokio fallback for a peer address
that does not resolve is the set `Unresolved`, empty for mio.

The metrics gate is read once, at the end of a burst, and may be switched between two
bursts (`RefreshGate`: the thread that receives reads its own copy of it). `missed` and
`mbytes` are history: what bursts reaped while it was off, which `MetricsExact` adds to
the counters. A datagram longer than the slab is cut to its size.

### EdgeUdp, MioUdp, TokioUdp

`EdgeUdp` adds the selector's undelivered edge to `UdpRecv`. A datagram that
arrives in an empty queue raises it; one that arrives behind other data may or may
not, which covers epoll (it does) and what the comments in the code guard against
(it does not). `MioUdp` adds `ready()`: the peek, then the poll loop, whose events
the selector filters against the socket state. `TokioUdp` adds the reactor (edge
to bit and tick), the await, `try_io` and its conditional clear, and cancellation
at the await. The reactor is tokio's `ScheduledIo` as this crate uses it, marked
external; its tick does not wrap in the model.

### TcpStream, MioTcp, TokioTcp

`TcpStream` is what the two streams share: `recv_into`, the same code in both; the
write system call; the handshake, the peer (`PeerSends`, `PeerReads`, `PeerCloses`,
`PeerResets`) and `SO_ERROR`, which whoever asks first consumes. Inbound bytes are
counted, since the kernel keeps their order (`inq`, `sent`, `landed`). Outbound bytes
are named by message and offset, since it is the program that resumes a partial
write; `wire` holds what the kernel took. A reset may discard queued bytes or keep
them; both are modelled, discarded bytes leave `sent`. What a read into an empty buffer
answers when nothing is queued differs between platforms (0 or would-block):
`RecvEmptyDst` allows both.

`MioTcp` is one thread. `wait_connect`, the loop of `ready()` and the wait of `send`
poll the same selector, and each poll uses up the edges of both directions, also
those its caller does not look at. `edges` holds what is undelivered; a poll delivers
the directions that had an edge (kqueue) or every direction that is ready (epoll).
The clock of `wait_connect` counts polls of 100 ms up to `Rounds`. A timed poll that
may time out with an edge pending is not modelled: the kernel looks at what is
pending before it sleeps. Setting a socket option, creating the `Poll` and the
registration are one failing step. `ready()` returning on end of stream or on an
error counts as readable, as in the code.

`TokioTcp` is one task and the reactor. `connect`, `readable` and `send` may be
dropped at their awaits, `send` only where it waits for room, which is where
`write_all` yields. A write may fail after a reset, and, as a fault, at any time and
whatever is out already (`TSendFails`). The write readiness of tokio is not cached in the model: a waiting
writer is woken when there is room, a write without room waits.

### ByteStream

What the traits promise of one connection, with no connect, readiness, retry or
offset: queued bytes go nowhere but to `Land`; one send at a time extends the wire by
the next bytes of its own buffer (`Emit`) and may answer `Ok` only at the end of it
(`End`). A send that fails or is dropped leaves a prefix, and the next one starts at
its own first byte: nothing of the code mends a torn message. `MioTcp` and `TokioTcp`
map onto it by `writing`, the places in which a send is under way; the offset of the
code (`off`) is not part of the map, so a wrong one shows on the wire.

### UdpBind, Transport

`UdpBind` is `bind` of mio and `bind_sync` of tokio: `Order` lists the system calls of
each, `at[e]` is the one an endpoint makes next. Every call but those that only warn
(`knobs`: busy-poll, drop counts, timestamps, tokio only) may fail, which drops the
socket; `Panic` is `from_std` without a runtime and the assertions of
`VecPool::build`, both reached when the socket is bound. `AddressTaken` is the
kernel's answer when an owner of the address did not set a common reuse flag.
Datagrams arrive for bound sockets in the middle of the constructor. Buffers are
counted in datagrams; the kernel grants at most `RmemMax`. so_sndbuf is set and
read back like so_rcvbuf and is part of the same step.

`Transport` adds the enum: `connect_tcp` (what happens inside is in the TCP modules: an
error of the connection comes before the panic of a pool without slabs),
`WrongShape` for every arm that answers `Unsupported`, and the UDP operations that
`UdpRecv` does not have: `send_to` with its retries (mio sleeps and tries again, tokio
awaits writability and may be dropped there), `send`, `join_multicast`. The socket of a `Udp` variant
is bound and never connected, so `send` gets an error from the kernel. `ret` is what
the last step answered; `took` and `told` are history. Memberships are state (`group`:
the kernel refuses a second one) without a property of their own.

### MockPeer

One action per outcome of an action of the script. Payloads are lengths, and what the
client says is a sequence of units (bytes over TCP, datagrams over UDP), so
expectations are met, or not, whatever pieces the units come in. `write_all` writes
what fits, `read_exact` takes what is there. `Announced` is what a reader of the
frame's length fields takes its length to be, u16 casts included. The client reads, writes and
closes as it likes; the network loses datagrams. Closing with bytes unread resets the
connection and may take what was sent with it. System calls of the peer may fail at any
place (`PeerFault`); a failing `read_exact` gives `TcpExpectShort` like the end of the
stream, and `closed` says "failed" of it. Jitter and `Sleep` pass time and
nothing else; whether a packet is dropped is a choice.

## The runs

| Run | Shows | Instance |
|---|---|---|
| `pool` | one owner, no slot lost, own bytes only, no use after free, `in_use` exact; VecPool implements BufferPool | 2 threads, 2 slots of 2 bytes, 2 handles, 2 byte values, recorded lengths 2 and 3 |
| `recv` | slabs accounted, frames intact, order, exhaustion, counters | 3 slots, batch of 2, queue of 2, 3 datagrams (empty and too long), one unresolvable peer, 1 fault, 1 reservation |
| `recv_metrics_fault` | *violated*: a failing recv_from loses counts | 1 fault |
| `recv_ok_zero` | *violated*: Ok(0) with data queued | no fault |
| `mio_ready` | no lost wake-up, no spurious Ok, everything is reaped | 2 slots, batch of 2, 3 datagrams, 1 fault, 1 reservation |
| `tokio_ready` | queued data is signalled, no spurious Ok, an idle task parks, everything is reaped | 2 slots, batch of 1, 2 datagrams, 1 fault, 1 reservation |
| `mio_tcp` | implements ByteStream, inbound whole, answers true, no lost wake-up on the shared Poll, connect truthful, no spurious Ok; connect and send end, every byte is landed | 2 bytes in, buffers of 0 to 2 bytes, 2 sends of 0 or 3 bytes through a send buffer of 2, 1 fault, deadline of 2 rounds |
| `mio_tcp_eof` | *violated*: "peer closed" on a live stream | buffers of 0 and 1 byte |
| `tokio_tcp` | implements ByteStream, what there is to read is signalled, an idle task parks, every byte is landed | 2 bytes in, 2 sends of 2 bytes through a send buffer of 1, 1 fault |
| `transport` | a refused bind has a live cause, the granted buffer counts from the start, answers match effects, send_to ends | one endpoint per backend, 3 configurations (shared with a large buffer, exclusive, panicking), 1 fault, 2 datagrams per socket, 2 sends through a buffer of 1 |
| `udp_send` | *violated*: `send` works on a UDP transport | the same, 1 datagram, 1 send |
| `mock_peer` | the report adds up, frames parse, the verdict is about the bytes only, runs end | UDP and TCP, with and without target and drops, 2 scripts (6 actions of every kind; lengths at the limit of the u16), 4 clients, a kernel buffer of 30000 bytes |

Why these bounds are enough for the interesting cases: two threads contend for one
lock and two slots are the fewest for which a slot can be confused with another; a
handle is used again for later slabs, and a slot comes back under the other one (up to
symmetry a third handle adds no state, since two slots carry at most two slabs). The
recorded length 2 is the whole slot or more than landed, 3 more than the slot. Three slots, one more than the batch
holds, and three datagrams reach: a full batch, a full queue, exhaustion at the first and
at a later iteration, an error after a success, reuse of a slot. `max` ranges up to
`BatchCap + 1`, so the cap is either of its two operands. In the readiness runs two
datagrams behind one edge and a caller that reaps one make a partial drain; one of the
two slots reserved makes the pool run out after one frame. A send longer than the send buffer is cut
and resumed, a second one follows a torn or a complete first; two bytes in make a
partial landing; two rounds tell "another round" from "deadline". `MaxArrivals`, `MaxFaults` and
`MaxReserved` (`SetLens` for the pool; `MaxIn`, `MaxSends`, `MaxDst` for the streams) bound the environment
and the caller only; every other number follows from them. Two endpoints are the
fewest that can conflict, and one of them may fail, panic and try again any number of
times; two sends through a buffer of one make the second one wait. The four clients of
the mock peer say the expected units in one piece, in others, too few and wrong ones;
frames of 65537 bytes and more through a buffer of 30000 take several writes.

Deadlock is checked everywhere except in the readiness and TCP runs, where after the
last datagram or byte `ready()` and `readable()` may sleep for ever, which is their
purpose, and a failed `connect` is the end; and in `mock_peer`, where a run ends.

### Findings

* `recv_ok_zero`: `Ok(0)` is documented as "nothing ready"; a batch without room
  (or `max = 0`) gives it too, and a caller that retries without draining makes no
  progress.
* `recv_metrics_fault`: frames reaped by a burst that then fails are never counted.
* `mio_tcp_eof`: `recv_into` with an empty buffer gets 0 from the socket and reports
  `UnexpectedEof`, "peer closed", on a live connection. A caller whose decode buffer is
  full for a moment would take it for a disconnect. The tokio code is the same.
* `udp_send`: the traits promise an async `send` for every backend, but the socket of
  `bind_udp` has no peer, so `send` on a `Udp` variant always fails with `Io`; only
  `send_to` works.

Two more, plain from the source and without a run: `read_chunk` of `RecvBufConfig` is
documented as a bound on one `recv_into` and no backend reads it; the tokio doc of
`recv_burst` says `PoolExhausted` means data was pending, while the slab is acquired
before the socket is asked.

### Fairness

The readiness runs model the loop of the repository's README: the caller, whatever
else it does, calls `recv_burst` with room for one frame and drains the batch again and
again (strong fairness, the two calls and the readiness call exclude each other), a
thread inside `recv_burst` is scheduled (weak), frames and reservations are dropped in
the end (weak). Without the drops the pool may stay exhausted for ever, as the code
allows. A pending edge is delivered to a thread parked in `poll`, the reactor takes
pending edges, a woken task is polled (weak). The TCP runs add: a timed poll times
out, the peer reads what was sent (weak; without it `send` may wait for ever, as the
code does), the caller keeps calling `recv_into` (strong, since `send` and `ready`
exclude it). No fairness is assumed for arrivals, handshakes, errors, cancellation or for entering a readiness
call; `ConnectReturns` therefore includes a peer that never answers.

`transport`: a thread or task inside `send_to` is scheduled and the device sends what is
buffered (weak; without the device mio would retry and tokio wait for ever). Nothing is
assumed of constructors, callers or arrivals. `mock_peer`: the peer's task is polled, a
client connects, reads what it is sent until it closes and says what its plan has
(weak); a write to a client that is gone fails, other failures may come or not; a client
that never connects or never reads would hold the peer for ever, since nothing there has
a timeout, and so does one that never says what is expected: `RunEnds` excepts it.

## The proofs

`VecPoolProofs` proves, for every capacity, slab size and every finite set of
threads and handles:

* `TypeCorrect`, `OwnersApart`, `SlotsConserved`, `ReadsOwnBytes`, `OutlivesSlabs`,
  `InUseCounts`: the invariants of the run `pool`;
* `ImplementsContract`: every step of VecPool is a step of BufferPool or a stutter.

None of them is inductive alone. The invariant is
`TypeOK /\ CriticalSection /\ Partition /\ SlabBytes /\ RefsExact`. `CriticalSection`
says that what a thread read of the free list is still true when it writes the
list; with it a pop removes and a push adds one slot. `Partition` is `SingleOwner`
and `Conservation` in one: a step moves one slot between list, thread and slab.
`SlabBytes` needs `Partition`, since a write goes to the slot of its own slab only.
`RefsExact` counts the references: a live slab makes the count positive.
`CriticalSection`, `SlabBytes` and `RefsExact` appear in the proofs only: a behaviour
that breaks one goes on to break `Conservation`, `OwnBytesOnly` or `NoUseAfterFree`,
which the run checks.

`UdpRecvProofs` proves the five properties of the run `recv`. `NoDatagramLost`,
`CountersExact` and `ExhaustedIsEmpty` come from one invariant, `Book`: what each place
in `recv_burst` knows of its locals (a slab in hand only before `recv_from`; the batch
has grown by `n` since the call; nothing counted when nothing was reaped), and the two
accounts. `FramesKeepTheirBytes` adds `Owned`: slab in hand, reservations, frames of
the batch and frames drained are pairwise apart and in use, so that the slot
`recv_from` writes to, or a drop frees, is nobody else's. `NoSlabLeaks` adds the
converse, `NoLeak`: a slot in use has an owner. Together they are `SlabsAccounted`:
`used` is exactly the union of the four.

`MioUdpProofs` and `TokioUdpProofs` build on it (they extend `UdpRecvProofs`), for any
pool, batch and queue:

* `NoLostWakeup` of mio, `DataIsSignalled` of tokio. The tokio invariant adds that the
  tick `try_io` read never exceeds the current one, so a tick set after it is different;
* the four invariants of the receive path hold beneath the readiness calls as well
  (`RecvSound`): peeks, polls, wakes and cancellations are steps that leave the burst,
  the pool and the counters as they are, and that has to be shown for each;
* `ReadyMeansProgress`. The invariant is `PromiseKept`: while the promise of `Ok` stands
  the queue is not empty, until the burst that uses it has taken a datagram, met an
  error or found the pool empty.

`MioTcpProofs` proves `NoLostWakeup`, `StreamIntact` and `ConnectTruthful` for any
amount of data, sends, deadline and faults. The invariant adds `Phases`: until connect
returns nothing has been written, so room in the send buffer is no news to
`wait_connect`, and a failed handshake stays in `SO_ERROR` until `take_error` reads it;
`Counts`: the counters are numbers. The argument for the shared `Poll` is the pair of
lemmas `EmptyReport` and `FullReport`: a poll that throws an edge away either delivers
its direction or met no level, and a thread only parks in `ready()` after the probe
found none. `AnswersTrue` follows step by step, since only `recv_into` answers and it
answers from what is queued; `ReadyMeansProgress` of the stream from its own
`PromiseKept`, which sends in between do not disturb.

`TokioTcpProofs` proves `DataIsSignalled`, `StreamIntact` and `AnswersTrue` for tokio.
Both stream modules prove `KeepsStream`: every step is a step of ByteStream or a
stutter. The invariant is the same for both: it relates the offset of a send under way
to the last entry of `wire` (`off` bytes of message `Len(sends) + 1`, and none of it
when `off` is 0), which is what makes the code's resumption the abstract `Emit`. What a
write adds to the wire is the lemma `AppendPiece`.

`TransportProofs` proves the three safety properties of the run `transport` for any
number of endpoints of either backend and any configurations. `MioOrder` and
`TokioOrder` read the tables of system calls; `PastIsBound` ties the place of a
constructor to its socket. `BindInv` says that whoever holds the address is past its
bind call, with the reuse flags of its configuration, and that a socket past the
buffer options has what was granted. The first part gives a refused bind
its cause (`ConflictIsReal`): what the kernel holds against it belongs to an endpoint
that is still alive. The second gives `BufferFromFirst`, because both constructors set
buffers before the bind. `EffectsMatchAnswers` is inductive once the counters are
numbers.

`MockPeerProofs` proves the three safety properties of the run `mock_peer` for every
script, plan and send buffer. The library defines sums and flattening recursively;
`SubsetInduction` and `UpTo` give an induction over finite sets and over the length of
a sequence in first-order form, from which `TotalAdd` (a sum grows by its new member)
and `FlattenMore` (the expectations met grow by the next one) follow. `FrameInv` carries
`StreamParses` and `ReportTrue`: each entry of `wire` is the whole frame of its action
or the torn one that `write_all` is at, and the report adds up action by action
(`DueTo(done)`). `HeardInv` carries `VerdictTrue`: all the client said is
`Want \o got \o inbox \o lost`, in this order, and `lost` is empty unless the
connection was reset or reading it failed. However the units were cut, the next expectation is compared with
what follows `Want`.

Assumptions: `BuildAssumption` (the assertions of `VecPool::build`),
`NamesAssumption` (finitely many threads and handles), `RecvAssumption`,
`BindAssumption`, `SendAssumption`, `StreamAssumption`, `RoundsAssumption` (the sizes
are numbers, the configurations are records) and `MockAssumption` (scripts are sequences
of `MockAction`, plans are sequences of pieces). TLC evaluates them on the instances.

Every invariant and every action property of the passing runs is thus proved. Only
model-checked: what must eventually happen (`EveryDatagramReaped`, `IdleTaskParks`,
`ConnectReturns`, `SendReturns` of the streams and of `send_to`, `EveryByteLanded`,
`RunEnds`), since the prover does not do fairness; and the four violations, which are
single behaviours.

## Not modelled

The configuration is serde data; what the program acts on (reuse flags, buffer, slab
count and size) is in the models, the rest only warned about or unread. The mio
backend ignores busy-poll, drop counts and timestamps by design. The conformance suite
is a set of fixed call sequences. What it checks of frames that outlive their burst and
of recovery from exhaustion are properties over all sequences; that a burst stays within
`max` is the guard of the loop and that a call of the wrong shape answers `Unsupported`
the whole of its arm, and no property restates either. An oversized datagram is cut as
on unix; on Windows `recv_from`
would answer an error and lose it. Left out for good: accessors, wording of errors and logs, benches and examples
(no logic of their own), the inside of tokio, mio and the kernel beyond what the
source relies on. Interrupted system calls (`EINTR`) are among the failing ones.

The order of work was: pool, receive path, readiness, the two streams, construction
and dispatch, the mock peer; proofs of the pool, of
readiness, of the streams, of the receive path, of construction and sending, of the mock
peer.
