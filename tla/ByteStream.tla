------------------------------- MODULE ByteStream -------------------------------
(***************************************************************************)
(* What StreamSource and TransportCore::send promise over one connection   *)
(* (crates/core/src/transport.rs), without connect, readiness, retries or  *)
(* offsets: what the kernel queued is landed and nothing else takes it;    *)
(* sends go out one at a time, each as a prefix of its buffer without gap  *)
(* or repetition, the whole of it when send says Ok.  TokioTcp and MioTcp  *)
(* implement it.                                                           *)
(***************************************************************************)
EXTENDS Naturals, Sequences

CONSTANTS Sizes   \* lengths of the buffers given to send

VARIABLES
  peer,     \* open, closed or reset
  inq,      \* bytes queued for this side
  landed,   \* bytes recv_into said it landed
  wire,     \* bytes on their way to the peer: the off-th of the msg-th buffer
  sends,    \* sizes and answers of the sends that ended
  writing,  \* a send is under way
  size      \* its buffer's length

vars == <<peer, inq, landed, wire, sends, writing, size>>

Msg == Len(sends) + 1

\* How far the current send has come, read off the wire.
Emitted ==
  IF wire # <<>> /\ wire[Len(wire)].msg = Msg THEN wire[Len(wire)].off ELSE 0

Init ==
  /\ peer = "open" /\ inq = 0 /\ landed = 0
  /\ wire = <<>> /\ sends = <<>> /\ writing = FALSE /\ size = 0

Supply ==
  /\ peer = "open"
  /\ inq' = inq + 1
  /\ UNCHANGED <<peer, landed, wire, sends, writing, size>>

Close ==
  /\ peer = "open" /\ peer' = "closed"
  /\ UNCHANGED <<inq, landed, wire, sends, writing, size>>

\* A reset may take what was queued with it.
Reset ==
  /\ peer # "reset" /\ peer' = "reset"
  /\ inq' \in {inq, 0}
  /\ UNCHANGED <<landed, wire, sends, writing, size>>

Land ==
  /\ inq' < inq /\ inq' \in Nat
  /\ landed' = landed + (inq - inq')
  /\ UNCHANGED <<peer, wire, sends, writing, size>>

Begin ==
  /\ ~writing /\ writing'
  /\ size' \in Sizes
  /\ UNCHANGED <<peer, inq, landed, wire, sends>>

Emit(k) ==
  /\ writing /\ peer # "reset" /\ Emitted + k <= size
  /\ wire' = wire \o [j \in 1 .. k |-> [msg |-> Msg, off |-> Emitted + j]]
  /\ UNCHANGED <<peer, inq, landed, sends, writing, size>>

End(reply) ==
  /\ writing /\ ~writing'
  /\ reply = "Ok" => Emitted = size
  /\ sends' = Append(sends, [size |-> size, reply |-> reply])
  /\ UNCHANGED <<peer, inq, landed, wire, size>>

Next ==
  \/ Supply \/ Close \/ Reset \/ Land \/ Begin
  \/ \E k \in 1 .. size : Emit(k)
  \/ \E reply \in {"Ok", "Io", "Cancelled"} : End(reply)

Spec == Init /\ [][Next]_vars
================================================================================
