-------------------------------- MODULE TokioTcp --------------------------------
(***************************************************************************)
(* TcpTransport of crates/tokio/src/tcp.rs: connect, recv_into, readable   *)
(* and send, as one task.  recv_into goes to the socket directly; readable *)
(* awaits the readiness bit the reactor caches and confirms it with a      *)
(* MSG_PEEK under try_io (as in TokioUdp); send is a write_all, which the  *)
(* caller may drop where it waits for room.                                *)
(*                                                                         *)
(* tokio itself (the reactor, its bit and tick, try_io's clear, the wake of*)
(* a writer) is external, modelled as this crate uses it.                  *)
(***************************************************************************)
EXTENDS TcpStream

VARIABLES
  edge,       \* an undelivered readable edge
  bit, tick,  \* the reactor's cached readiness and how often it was set
  seen,       \* the tick try_io read together with the bit
  pc          \* where the task is

reactor == <<edge, bit, tick, seen>>
tvars == <<svars, reactor, pc>>

\* new: not connected; connecting; idle: between calls; await, try, peek, clear:
\* in readable; write, room: in send; failed: no transport came of connect.
PCs == {"new", "connecting", "idle", "await", "try", "peek", "clear", "write", "room",
        "failed"}

TokioInit ==
  /\ StreamInit
  /\ edge = FALSE /\ bit = FALSE /\ tick = 0 /\ seen = 0
  /\ pc = "new"

Goto(p) == pc' = p
--------------------------------------------------------------------------------
THandshakeDone == HandshakeDone /\ UNCHANGED <<reactor, pc>>
THandshakeFails == HandshakeFails /\ UNCHANGED <<reactor, pc>>
TPeerReads == PeerReads /\ UNCHANGED <<reactor, pc>>

\* Something to read raises the edge; behind something else it may or may not.
Raise ==
  /\ edge' \in (IF Readable THEN {edge, TRUE} ELSE {TRUE})
  /\ UNCHANGED <<bit, tick, seen, pc>>

TPeerSends == PeerSends /\ Raise
TPeerCloses == PeerCloses /\ Raise
TPeerResets == PeerResets /\ Raise

\* The reactor takes the edge; if the socket is readable it sets the bit.
ReactorTurn ==
  /\ edge
  /\ edge' = FALSE
  /\ IF Readable
     THEN bit' = TRUE /\ tick' = tick + 1
     ELSE UNCHANGED <<bit, tick>>
  /\ UNCHANGED <<svars, seen, pc>>
--------------------------------------------------------------------------------
\* connect(): the future waits for the handshake, without a deadline.
ConnectCall ==
  /\ pc = "new"
  /\ conn' = "syn"
  /\ Goto("connecting")
  /\ UNCHANGED <<peer, soerr, inbound, outbound, faults, reactor>>

\* Connected; peer_addr and the socket options succeed as well.
ConnectUp ==
  /\ pc = "connecting" /\ conn = "up" /\ peer # "reset"
  /\ Goto("idle")
  /\ UNCHANGED <<svars, reactor>>

\* The connect fails (BindFailed), or peer_addr does after a reset (Io).
ConnectFails ==
  /\ pc = "connecting"
  /\ conn = "refused" \/ peer = "reset"
  /\ Goto("failed")
  /\ UNCHANGED <<svars, reactor>>

\* The caller drops the future of connect.
ConnectDropped ==
  /\ pc = "connecting"
  /\ Goto("failed")
  /\ UNCHANGED <<svars, reactor>>

\* A socket option fails.
ConnectOptionFails ==
  /\ pc = "connecting" /\ conn = "up" /\ Fault
  /\ Goto("failed")
  /\ UNCHANGED <<conn, peer, soerr, inbound, outbound, reactor>>
--------------------------------------------------------------------------------
TRecvInto(d) ==
  /\ pc = "idle"
  /\ RecvInto(d)
  /\ UNCHANGED <<reactor, pc>>

ReadableCall ==
  /\ pc = "idle"
  /\ OtherCall
  /\ Goto("await")
  /\ UNCHANGED reactor

\* stream.readable().await resolves.
AwaitReady ==
  /\ pc = "await" /\ bit
  /\ Goto("try")
  /\ UNCHANGED <<svars, reactor>>

\* The await fails, the reactor being gone.
AwaitFails ==
  /\ pc = "await" /\ Fault
  /\ Goto("idle")
  /\ UNCHANGED <<conn, peer, soerr, inbound, outbound, reactor>>

\* The caller drops the future where it waits.
ReadableDropped ==
  /\ pc = "await"
  /\ Goto("idle")
  /\ UNCHANGED <<svars, reactor>>

\* try_io reads the bit and its tick; without the bit it would block at once.
TryIo ==
  /\ pc = "try"
  /\ Goto(IF bit THEN "peek" ELSE "await")
  /\ seen' = tick
  /\ UNCHANGED <<svars, edge, bit, tick>>

\* Mutant of PeekHit: a read without MSG_PEEK.
PeekTakes ==
  /\ pc = "peek" /\ (inq > 0 \/ (peer # "open" /\ ~soerr))
  /\ inq' = (IF inq > 0 THEN inq - 1 ELSE inq)
  /\ Goto("idle")
  /\ UNCHANGED <<conn, peer, soerr, sent, landed, result, outbound, faults, reactor>>

\* peek_ready finds data or the end of the stream.
PeekHit ==
  /\ pc = "peek" /\ (inq > 0 \/ (peer # "open" /\ ~soerr))
  /\ Goto("idle")
  /\ UNCHANGED <<svars, reactor>>

\* peek_ready reports SO_ERROR.
PeekError ==
  /\ pc = "peek" /\ inq = 0 /\ soerr
  /\ soerr' = FALSE
  /\ Goto("idle")
  /\ UNCHANGED <<conn, peer, inbound, outbound, faults, reactor>>

\* peek_ready would block.
PeekMiss ==
  /\ pc = "peek" /\ ~Readable
  /\ Goto("clear")
  /\ UNCHANGED <<svars, reactor>>

\* Mutants of ClearReadiness: clears whatever the reactor did; never clears.
ClearAlways ==
  /\ pc = "clear"
  /\ bit' = FALSE
  /\ Goto("await")
  /\ UNCHANGED <<svars, edge, tick, seen>>

ClearNever ==
  /\ pc = "clear"
  /\ Goto("await")
  /\ UNCHANGED <<svars, reactor>>

\* try_io clears the bit it saw, unless the reactor has set it again since.
ClearReadiness ==
  /\ pc = "clear"
  /\ bit' = (bit /\ tick # seen)
  /\ Goto("await")
  /\ UNCHANGED <<svars, edge, tick, seen>>
--------------------------------------------------------------------------------
TSendCall(s) ==
  /\ pc = "idle"
  /\ SendCall(s)
  /\ Goto("write")
  /\ UNCHANGED reactor

TWriteSome == pc = "write" /\ WriteSome /\ UNCHANGED <<reactor, pc>>

TWriteBlocks ==
  /\ pc = "write" /\ WriteBlocks
  /\ Goto("room")
  /\ UNCHANGED reactor

\* The reactor wakes the writer.
RoomReady ==
  /\ pc = "room" /\ Writable
  /\ Goto("write")
  /\ UNCHANGED <<svars, reactor>>

\* write_all returns.
TSendOk ==
  /\ pc = "write" /\ SendOk
  /\ Goto("idle")
  /\ UNCHANGED reactor

TWriteFails ==
  /\ pc = "write" /\ WriteFails
  /\ Goto("idle")
  /\ UNCHANGED reactor

\* write fails otherwise or answers 0, or the reactor is gone while write_all waits
\* for room: an error whatever is out already.
TSendFails ==
  /\ pc = "room" \/ (pc = "write" /\ off < size)
  /\ Fault /\ SendCut("Io")
  /\ Goto("idle")
  /\ UNCHANGED reactor

\* The caller drops the future of send while it waits for room.
SendDropped ==
  /\ pc = "room"
  /\ SendCut("Cancelled") /\ UNCHANGED faults
  /\ Goto("idle")
  /\ UNCHANGED reactor
--------------------------------------------------------------------------------
Environment ==
  \/ THandshakeDone \/ THandshakeFails
  \/ TPeerSends \/ TPeerCloses \/ TPeerReads \/ TPeerResets

ReadableStep ==
  \/ AwaitReady \/ TryIo \/ PeekHit \/ PeekError \/ PeekMiss \/ ClearReadiness

SendStep ==
  \/ TWriteSome \/ TWriteBlocks \/ RoomReady \/ TSendOk \/ TWriteFails

TokioNext ==
  \/ Environment \/ ReactorTurn
  \/ ConnectCall \/ ConnectUp \/ ConnectFails \/ ConnectDropped \/ ConnectOptionFails
  \/ \E d \in 0 .. MaxDst : TRecvInto(d)
  \/ ReadableCall \/ ReadableStep \/ AwaitFails \/ ReadableDropped
  \/ \E s \in Sizes : TSendCall(s)
  \/ SendStep \/ TSendFails \/ SendDropped

TokioSpec == TokioInit /\ [][TokioNext]_tvars

(***************************************************************************)
(* The runtime turns the reactor and polls a task that was woken; the peer *)
(* reads what was sent; the caller keeps calling recv_into (SF: possible   *)
(* only between the other calls).                                          *)
(***************************************************************************)
TokioFairness ==
  /\ WF_tvars(ReactorTurn)
  /\ WF_tvars(ConnectUp \/ ConnectFails)
  /\ WF_tvars(ReadableStep)
  /\ WF_tvars(SendStep)
  /\ WF_tvars(TPeerReads)
  /\ SF_tvars(TRecvInto(1))

TokioFairSpec == TokioSpec /\ TokioFairness
--------------------------------------------------------------------------------
(***************************************************************************)
(* Whatever there is to read (data, the end, an error) is signalled by an  *)
(* edge or by a bit that survives a pending clear, although recv_into      *)
(* consumes data behind the reactor's back and readable() clears the bit.  *)
(***************************************************************************)
DataIsSignalled ==
  Readable /\ conn = "up" => edge \/ (bit /\ (pc = "clear" => tick # seen))

(***************************************************************************)
(* The connection is a ByteStream: a peek takes nothing, what recv_into    *)
(* lands is what it says, a send that waited for room goes on where it     *)
(* stopped, and after one that was dropped or failed half way the next one *)
(* begins at its own first byte, behind a torn prefix.                     *)
(***************************************************************************)
Contract == INSTANCE ByteStream WITH writing <- pc \in {"write", "room"}
KeepsStream == Contract!Spec

(***************************************************************************)
(* On a stream that stays silent readable() comes to rest in the await.    *)
(***************************************************************************)
IdleTaskParks ==
  <>[](~Readable /\ pc \in {"await", "try", "peek", "clear"}) =>
    <>[](pc = "await" /\ ~bit)

(***************************************************************************)
(* A caller that lands one byte per wake gets every byte of the stream,    *)
(* unless the connection is reset or was never handed to it.               *)
(***************************************************************************)
EveryByteLanded ==
  \A k \in 1 .. MaxIn :
    (sent >= k) ~> (landed >= k \/ peer = "reset" \/ pc = "failed")
================================================================================
