------------------------------- MODULE TcpStream -------------------------------
(***************************************************************************)
(* A TCP connection as the two TcpTransports use it: recv_into, which is   *)
(* the same in both (crates/mio/src/tcp.rs, crates/tokio/src/tcp.rs), the  *)
(* write system call their send loops make, and the kernel and the peer    *)
(* underneath.  MioTcp and TokioTcp add connect, readiness and the loops.  *)
(*                                                                         *)
(* The bytes of the peer are counted: the kernel keeps them in order.  The *)
(* bytes written are named, [msg, off], since a partial write is resumed   *)
(* by the program.                                                         *)
(***************************************************************************)
EXTENDS Naturals, Sequences

CONSTANTS
  MaxIn,      \* bound: bytes the peer sends
  MaxDst,     \* bound: length of the buffer given to recv_into
  Sizes,      \* lengths of the buffers given to send
  MaxSends,   \* bound: calls of send
  SndCap,     \* bytes the kernel buffers for the peer
  MaxFaults   \* bound: failing system calls

ASSUME StreamAssumption ==
  /\ MaxIn \in Nat /\ MaxDst \in Nat \ {0}
  /\ Sizes \subseteq Nat /\ MaxSends \in Nat /\ SndCap \in Nat \ {0}
  /\ MaxFaults \in Nat

VARIABLES
  conn,    \* the handshake: none, syn, up, refused
  peer,    \* open, closed (it sent FIN), reset (it sent RST)
  soerr,   \* SO_ERROR is set
  inq,     \* bytes in the receive queue
  sent,    \* history: bytes the kernel queued for this side
  landed,  \* history: bytes recv_into said it landed
  wire,    \* the bytes the kernel took from send, in order
  read,    \* how many of them the peer has read
  size, off, \* locals of send: length of the buffer, offset
  sends,   \* history: the calls of send that have ended
  result,  \* history: what recv_into answered and the socket it met, until
           \* the next call
  faults   \* history: failed system calls

inbound == <<inq, sent, landed, result>>
outbound == <<wire, read, size, off, sends>>
svars == <<conn, peer, soerr, inbound, outbound, faults>>

Room == SndCap - (Len(wire) - read)

\* What poll(2) would say of the socket.
Readable == inq > 0 \/ peer # "open" \/ soerr
Writable == conn = "refused" \/ (conn = "up" /\ (Room > 0 \/ peer = "reset"))

Answer(kind, count, dst) ==
  [kind |-> kind, n |-> count, dst |-> dst, queued |-> inq, open |-> peer = "open"]

NoAnswer == [kind |-> "no call", n |-> 0, dst |-> 0, queued |-> 0, open |-> TRUE]

StreamInit ==
  /\ conn = "none" /\ peer = "open" /\ soerr = FALSE
  /\ inq = 0 /\ sent = 0 /\ landed = 0
  /\ result = NoAnswer
  /\ wire = <<>> /\ read = 0 /\ size = 0 /\ off = 0 /\ sends = <<>>
  /\ faults = 0

\* A call other than recv_into begins.
OtherCall ==
  /\ result' = NoAnswer
  /\ UNCHANGED <<conn, peer, soerr, inq, sent, landed, outbound, faults>>

Fault == faults < MaxFaults /\ faults' = faults + 1
--------------------------------------------------------------------------------
\* The kernel finishes the handshake, or gives it up.
HandshakeDone ==
  /\ conn = "syn"
  /\ conn' = "up"
  /\ UNCHANGED <<peer, soerr, inbound, outbound, faults>>

HandshakeFails ==
  /\ conn = "syn"
  /\ conn' = "refused" /\ soerr' = TRUE
  /\ UNCHANGED <<peer, inbound, outbound, faults>>

PeerSends ==
  /\ conn = "up" /\ peer = "open" /\ sent < MaxIn
  /\ inq' = inq + 1 /\ sent' = sent + 1
  /\ UNCHANGED <<conn, peer, soerr, landed, result, outbound, faults>>

PeerReads ==
  /\ read < Len(wire) /\ peer # "reset"
  /\ read' = read + 1
  /\ UNCHANGED <<conn, peer, soerr, inbound, wire, size, off, sends, faults>>

PeerCloses ==
  /\ conn = "up" /\ peer = "open"
  /\ peer' = "closed"
  /\ UNCHANGED <<conn, soerr, inbound, outbound, faults>>

\* A reset may or may not discard what is queued, depending on the platform.
PeerResets ==
  /\ conn = "up" /\ peer # "reset"
  /\ peer' = "reset" /\ soerr' = TRUE
  /\ inq' \in {inq, 0}
  /\ sent' = sent - (inq - inq')
  /\ UNCHANGED <<conn, landed, result, outbound, faults>>
--------------------------------------------------------------------------------
\* recv_into(dst): the kernel lands some of what is queued.
RecvLand(d) ==
  /\ d > 0 /\ inq > 0
  /\ \E k \in 1 .. (IF d <= inq THEN d ELSE inq) :
       /\ inq' = inq - k
       /\ landed' = landed + k
       /\ result' = Answer("Ok", k, d)
  /\ UNCHANGED <<conn, peer, soerr, sent, outbound, faults>>

\* Mutant of RecvClosed: end of stream taken for "nothing ready".
ClosedIsOkZero(d) ==
  /\ inq = 0 /\ ~soerr /\ peer # "open"
  /\ result' = Answer("Ok", 0, d)
  /\ UNCHANGED <<conn, peer, soerr, inq, sent, landed, outbound, faults>>

\* recv returns 0 at the end of the stream.
RecvClosed(d) ==
  /\ inq = 0 /\ ~soerr /\ peer # "open"
  /\ result' = Answer("UnexpectedEof", 0, d)
  /\ UNCHANGED <<conn, peer, soerr, inq, sent, landed, outbound, faults>>

\* recv returns 0 for a buffer of length 0 too: with data queued everywhere, next to
\* an empty queue on some platforms (on others it would block).
RecvEmptyDst(d) ==
  /\ d = 0
  /\ result' = Answer("UnexpectedEof", 0, d)
  /\ UNCHANGED <<conn, peer, soerr, inq, sent, landed, outbound, faults>>

\* recv would block.
RecvBlocks(d) ==
  /\ inq = 0 /\ ~soerr /\ peer = "open"
  /\ result' = Answer("Ok", 0, d)
  /\ UNCHANGED <<conn, peer, soerr, inq, sent, landed, outbound, faults>>

\* recv reports SO_ERROR, once.
RecvError(d) ==
  /\ inq = 0 /\ soerr
  /\ soerr' = FALSE
  /\ result' = Answer("Io", 0, d)
  /\ UNCHANGED <<conn, peer, inq, sent, landed, outbound, faults>>

RecvInto(d) ==
  \/ RecvLand(d) \/ RecvClosed(d) \/ RecvEmptyDst(d) \/ RecvBlocks(d) \/ RecvError(d)
--------------------------------------------------------------------------------
\* send(buf) begins.
SendCall(s) ==
  /\ Len(sends) < MaxSends
  /\ size' = s /\ off' = 0
  /\ result' = NoAnswer
  /\ UNCHANGED <<conn, peer, soerr, inq, sent, landed, wire, read, sends, faults>>

\* send ends; what it answered is kept.
SendReply(reply) == sends' = Append(sends, [size |-> size, reply |-> reply])

\* write takes a part of the rest of the buffer.
WriteSome ==
  /\ off < size /\ Room > 0 /\ peer # "reset"
  /\ \E k \in 1 .. (IF Room <= size - off THEN Room ELSE size - off) :
       /\ wire' = wire \o [j \in 1 .. k |-> [msg |-> Len(sends) + 1, off |-> off + j]]
       /\ off' = off + k
  /\ UNCHANGED <<conn, peer, soerr, inbound, read, size, sends, faults>>

\* Mutant of WriteBlocks: the retry begins at the start of the buffer.
BlockedStartsOver ==
  /\ off < size /\ Room = 0 /\ peer # "reset"
  /\ off' = 0
  /\ UNCHANGED <<conn, peer, soerr, inbound, wire, read, size, sends, faults>>

\* write would block.
WriteBlocks ==
  /\ off < size /\ Room = 0 /\ peer # "reset"
  /\ UNCHANGED svars

\* write fails on a connection that was reset: the error is reported once, as
\* SO_ERROR, later writes fail as well.  Part of the buffer may be out already.
WriteFails ==
  /\ off < size /\ peer = "reset"
  /\ soerr' = FALSE
  /\ SendReply("Io")
  /\ UNCHANGED <<conn, peer, inbound, wire, read, size, off, faults>>

\* Everything is written.
SendOk ==
  /\ off >= size
  /\ SendReply("Ok")
  /\ UNCHANGED <<conn, peer, soerr, inbound, wire, read, size, off, faults>>

\* send ends early, with part of the buffer out.
SendCut(reply) ==
  /\ SendReply(reply)
  /\ UNCHANGED <<conn, peer, soerr, inbound, wire, read, size, off>>
--------------------------------------------------------------------------------
(***************************************************************************)
(* No byte of the peer is lost between the socket and the caller: what the *)
(* kernel queued has been landed and reported, or is still queued.  The    *)
(* readiness probes look at the socket without taking anything.            *)
(***************************************************************************)
StreamIntact == sent = landed + inq

(***************************************************************************)
(* "Ok(0) means nothing was ready (would-block)", "Peer close MUST surface *)
(* as Err (UnexpectedEof), never Ok(0)" (StreamSource), and UnexpectedEof, *)
(* asked for with room in dst, is the end: nothing was left to land.       *)
(***************************************************************************)
AnswersTrue ==
  /\ result.kind = "Ok" /\ result.n = 0 => result.queued = 0 /\ result.open
  /\ result.kind = "UnexpectedEof" /\ result.dst > 0 => result.queued = 0 /\ ~result.open

(***************************************************************************)
(* "peer closed" (the text of the UnexpectedEof error): recv_into reports  *)
(* it only when the peer has closed.                                       *)
(***************************************************************************)
EofMeansClosed == result.kind = "UnexpectedEof" => ~result.open
================================================================================
