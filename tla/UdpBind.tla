--------------------------------- MODULE UdpBind ---------------------------------
(***************************************************************************)
(* UdpTransport::bind of crates/mio/src/udp.rs and bind_sync of            *)
(* crates/tokio/src/udp.rs: a chain of system calls, most of which may     *)
(* fail, that ends in a transport, an error or a panic.                    *)
(*                                                                         *)
(* Several endpoints of either backend bind the same address at the same   *)
(* time (processes that share a feed), fail, are dropped and try again.    *)
(* Meanwhile the kernel queues datagrams for every socket that is bound,   *)
(* whether its constructor has returned or not.                            *)
(***************************************************************************)
EXTENDS Naturals, Sequences, FiniteSets

CONSTANTS
  Endpoints,   \* callers of bind_udp
  Backend,     \* Backend[e]: "mio" or "tokio"
  Configs,     \* the configurations callers ask for
  RmemMax,     \* most datagrams a receive buffer can be asked to hold
  RmemDefault, \* what it holds when nobody asks
  MaxFaults,   \* bound: failing system calls
  MaxArrivals  \* bound: datagrams sent to each socket

\* reuse: reuse_addr and reuse_port; rcvbuf: so_rcvbuf, 0 for None; slabs:
\* RingConfig::slab_count; runtime: the caller is inside a tokio runtime.
Config == [reuse : SUBSET {"addr", "port"}, rcvbuf : Nat, slabs : Nat, runtime : BOOLEAN]

ASSUME BindAssumption ==
  /\ Backend \in [Endpoints -> {"mio", "tokio"}]
  /\ Configs \subseteq Config
  /\ RmemDefault \in Nat /\ RmemMax \in Nat
  /\ MaxFaults \in Nat /\ MaxArrivals \in Nat

VARIABLES
  at,       \* the call the constructor makes next; "none", "up" outside it
  cfg,      \* its arguments
  flags,    \* reuse flags set on the socket
  room,     \* datagrams its receive buffer holds
  holders,  \* kernel: the sockets bound to the address
  queue,    \* datagrams in the receive queue
  arrived,  \* history: datagrams that came for the socket
  full,     \* history: how long the queue was when one was dropped: {} or {n}
  faults,   \* history: failed system calls
  ret       \* what the last step answered a caller, if it did

kernel == <<flags, room, holders, queue, arrived, full>>
bind == <<at, cfg, kernel, faults>>
bvars == <<bind, ret>>

NoCall == [reuse |-> {}, rcvbuf |-> 0, slabs |-> 0, runtime |-> FALSE]

Answered(op, answer) == ret' = [op |-> op, answer |-> answer]
Quiet == Answered("none", "none")

\* Mutant of Order: the options come after the bind.
OrderLate == [mio |-> <<"socket", "nonblock", "bind", "reuse", "buffers", "local",
                        "poll", "register", "pool">>,
              tokio |-> <<"socket", "nonblock", "bind", "reuse", "buffers", "knobs",
                          "from_std", "pool">>]

\* The calls of the two constructors, in the order they are made.
Order == [mio |-> <<"socket", "reuse", "buffers", "nonblock", "bind", "local",
                    "poll", "register", "pool">>,
          tokio |-> <<"socket", "reuse", "buffers", "knobs", "nonblock", "bind",
                      "from_std", "pool">>]

Calls(e) == Order[Backend[e]]
Position(e, call) == CHOOSE i \in DOMAIN Calls(e) : Calls(e)[i] = call

\* The constructor's place after the call it is at.
Then(e) ==
  IF at[e] = Calls(e)[Len(Calls(e))] THEN "up" ELSE Calls(e)[Position(e, at[e]) + 1]

Advance(e) == at' = [at EXCEPT ![e] = Then(e)]

\* What the kernel makes of a requested buffer.
Granted(request) ==
  IF request = 0 THEN RmemDefault ELSE IF request <= RmemMax THEN request ELSE RmemMax

\* Mutant of Clear: the socket is forgotten, not closed.
ClearLeaks(e) ==
  /\ flags' = [flags EXCEPT ![e] = {}]
  /\ room' = [room EXCEPT ![e] = RmemDefault]
  /\ queue' = [queue EXCEPT ![e] = 0]
  /\ arrived' = [arrived EXCEPT ![e] = 0]
  /\ full' = [full EXCEPT ![e] = {}]
  /\ UNCHANGED holders

\* The socket is dropped, and closed with it, wherever the constructor leaves.
Clear(e) ==
  /\ flags' = [flags EXCEPT ![e] = {}]
  /\ room' = [room EXCEPT ![e] = RmemDefault]
  /\ holders' = {h \in holders : h.owner # e}
  /\ queue' = [queue EXCEPT ![e] = 0]
  /\ arrived' = [arrived EXCEPT ![e] = 0]
  /\ full' = [full EXCEPT ![e] = {}]

Leave(e) ==
  /\ at' = [at EXCEPT ![e] = "none"]
  /\ cfg' = [cfg EXCEPT ![e] = NoCall]
  /\ Clear(e)
--------------------------------------------------------------------------------
BindInit ==
  /\ at = [e \in Endpoints |-> "none"]
  /\ cfg = [e \in Endpoints |-> NoCall]
  /\ flags = [e \in Endpoints |-> {}]
  /\ room = [e \in Endpoints |-> RmemDefault]
  /\ holders = {}
  /\ queue = [e \in Endpoints |-> 0] /\ arrived = [e \in Endpoints |-> 0]
  /\ full = [e \in Endpoints |-> {}]
  /\ faults = 0
  /\ ret = [op |-> "none", answer |-> "none"]

\* bind_udp is called, again after an earlier failure perhaps.
BindCall(e, c) ==
  /\ at[e] = "none"
  /\ at' = [at EXCEPT ![e] = "socket"]
  /\ cfg' = [cfg EXCEPT ![e] = c]
  /\ Quiet
  /\ UNCHANGED <<kernel, faults>>

\* A call that changes nothing the model keeps: the socket is created, made
\* nonblocking, registered with the Poll or the reactor.  Busy-poll, drop counts
\* and timestamps (knobs) are asked for; a failure there is only warned about.
Proceed(e) ==
  /\ \/ at[e] \in {"socket", "knobs", "nonblock", "local", "poll", "register"}
     \/ at[e] = "from_std" /\ cfg[e].runtime
  /\ Advance(e)
  /\ Quiet
  /\ UNCHANGED <<cfg, kernel, faults>>

SetReuse(e) ==
  /\ at[e] = "reuse"
  /\ flags' = [flags EXCEPT ![e] = cfg[e].reuse]
  /\ Advance(e)
  /\ Quiet
  /\ UNCHANGED <<cfg, room, holders, queue, arrived, full, faults>>

\* SO_RCVBUF is set and read back; getting less than asked for is no error.
SetBuffers(e) ==
  /\ at[e] = "buffers"
  /\ room' = [room EXCEPT ![e] = Granted(cfg[e].rcvbuf)]
  /\ Advance(e)
  /\ Quiet
  /\ UNCHANGED <<cfg, flags, holders, queue, arrived, full, faults>>

\* The kernel shares an address among sockets that all set the same flag.
Free(e) == \A h \in holders : h.flags \cap flags[e] # {}

BindAddress(e) ==
  /\ at[e] = "bind" /\ Free(e)
  /\ holders' = holders \cup {[owner |-> e, flags |-> flags[e]]}
  /\ Advance(e)
  /\ Quiet
  /\ UNCHANGED <<cfg, flags, room, queue, arrived, full, faults>>

AddressTaken(e) ==
  /\ at[e] = "bind" /\ ~Free(e)
  /\ Leave(e)
  /\ Answered("bind_udp", "BindFailed")
  /\ UNCHANGED faults

\* The pool is built last; the transport is handed out.
BuildPool(e) ==
  /\ at[e] = "pool" /\ cfg[e].slabs > 0
  /\ Advance(e)
  /\ Answered("bind_udp", "Ok")
  /\ UNCHANGED <<cfg, kernel, faults>>

\* from_std outside a runtime, or the assertions of the pool: the unwinding
\* drops the socket, which is bound by now.
Panic(e) ==
  /\ \/ at[e] = "pool" /\ cfg[e].slabs = 0
     \/ at[e] = "from_std" /\ ~cfg[e].runtime
  /\ Leave(e)
  /\ Answered("bind_udp", "panic")
  /\ UNCHANGED faults

\* The error a failing call is turned into.
ErrorOf(e) ==
  IF at[e] = "bind" \/ (at[e] = "socket" /\ Backend[e] = "mio") THEN "BindFailed" ELSE "Io"

CallFails(e) ==
  /\ at[e] \notin {"none", "knobs", "pool", "up"} /\ faults < MaxFaults
  /\ at[e] = "from_std" => cfg[e].runtime
  /\ faults' = faults + 1
  /\ Leave(e)
  /\ Answered("bind_udp", ErrorOf(e))

\* The transport is dropped.
Drop(e) ==
  /\ at[e] = "up"
  /\ Leave(e)
  /\ Quiet
  /\ UNCHANGED faults

\* A datagram for a bound socket: queued, or dropped when the buffer is full.
Arrive(e) ==
  /\ \E h \in holders : h.owner = e
  /\ arrived[e] < MaxArrivals
  /\ arrived' = [arrived EXCEPT ![e] = @ + 1]
  /\ IF queue[e] < room[e]
     THEN queue' = [queue EXCEPT ![e] = @ + 1] /\ UNCHANGED full
     ELSE full' = [full EXCEPT ![e] = {queue[e]}] /\ UNCHANGED queue
  /\ Quiet
  /\ UNCHANGED <<at, cfg, flags, room, holders, faults>>

Construct(e) ==
  \/ \E c \in Configs : BindCall(e, c)
  \/ Proceed(e) \/ SetReuse(e) \/ SetBuffers(e)
  \/ BindAddress(e) \/ AddressTaken(e)
  \/ BuildPool(e) \/ Panic(e) \/ CallFails(e)
--------------------------------------------------------------------------------
\* Endpoints whose socket is bound: those past their bind call.
Past(e) ==
  at[e] = "up"
    \/ \E i, j \in DOMAIN Calls(e) : Calls(e)[i] = at[e] /\ Calls(e)[j] = "bind" /\ i > j

(***************************************************************************)
(* A bind is refused without a failing system call only because of another *)
(* endpoint that holds the address at that moment and did not ask to share *)
(* it the same way: neither an earlier attempt that failed, or panicked on *)
(* a bad RingConfig after the bind, nor an option set too late (bind and   *)
(* apply_socket_opts, both backends).                                      *)
(***************************************************************************)
ConflictIsReal ==
  [][\A e \in Endpoints :
       at[e] = "bind" /\ at'[e] = "none" /\ faults' = faults =>
         \E f \in Endpoints \ {e} : Past(f) /\ cfg[f].reuse \cap cfg[e].reuse = {}]_bvars

(***************************************************************************)
(* so_rcvbuf counts from the first datagram on: the kernel never drops one *)
(* for want of room that was granted, not even while the constructor is    *)
(* still on its way from bind to the transport.                            *)
(***************************************************************************)
BufferFromFirst ==
  \A e \in Endpoints : \A n \in full[e] : n >= Granted(cfg[e].rcvbuf)
================================================================================
