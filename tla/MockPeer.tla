-------------------------------- MODULE MockPeer --------------------------------
(***************************************************************************)
(* The scripted peer the backends are tested against                       *)
(* (crates/core/src/testing/mock_peer.rs): it binds a socket, takes its    *)
(* script action by action, and returns a report or an error.              *)
(*                                                                         *)
(* A payload is its length.  What the client says is kept in units, bytes  *)
(* on a stream and whole datagrams otherwise, so that an expectation is    *)
(* met unit by unit.  Jitter and Sleep only pass time.                     *)
(***************************************************************************)
EXTENDS Naturals, Sequences, SequencesExt, FiniteSetsExt

CONSTANTS
  Peers,    \* [kind, script, target, lossy]: the MockPeer values run
  Plans,    \* what a client may say: sequences of writes or datagrams
  SockCap   \* bytes the kernel holds for a client that does not read

Header == [mold |-> 22, heartbeat |-> 20, soup |-> 3]
U16 == 65536
DatagramMax == 65507

\* What a script is made of.
MockAction ==
  [kind : DOMAIN Header, len : Nat] \cup [kind : {"expect"}, bytes : Seq(Nat)]
    \cup [kind : {"sleep"}]

ASSUME MockAssumption ==
  /\ \A p \in Peers : p.script \in Seq(MockAction)
  /\ Plans \subseteq Seq(Seq(Nat))
  /\ SockCap \in Nat

VARIABLES
  peer,     \* the MockPeer
  stage,    \* start, accept, run, write; then Ok or the error
  done,     \* report: actions_completed
  sent,     \* report: bytes_sent
  dropped,  \* report: bytes_dropped_synthetic
  left,     \* bytes of the frame write_all still has to write
  got,      \* units read for the current expectation
  wire,     \* history: [act, bytes] for each frame that was begun
  unread,   \* stream: bytes the client has not read
  plan,     \* what the client is still to say
  inbox,    \* units the socket holds for the peer
  heard,    \* history: units that reached the peer's socket
  closed    \* the client's end: no, fin, reset; failed once a read of it did

report == <<done, sent, dropped>>
client == <<plan, heard, closed>>
vars == <<peer, stage, report, left, got, wire, unread, client, inbox>>

Tcp == peer.kind = "tcp"
Over == stage \notin {"start", "accept", "run", "write"}
AtEnd == done = Len(peer.script)
Current == peer.script[done + 1]
Sending == stage = "run" /\ ~AtEnd /\ Current.kind \in DOMAIN Header
Expecting == stage = "run" /\ ~AtEnd /\ Current.kind = "expect"

Units(bytes) == IF Tcp THEN bytes ELSE <<bytes>>
Missing == Len(Units(Current.bytes)) - Len(got)

\* What encode_mold_data, encode_mold_heartbeat and encode_soup return, and how
\* far a reader of their length fields takes the frame to go.
Size(a) == Header[a.kind] + a.len

\* Mutant of Announced: the type byte is left out of a soup length.
AnnouncedShort(a) ==
  IF a.kind = "soup" THEN 2 + (a.len % U16) ELSE Header[a.kind] + (a.len % U16)

Announced(a) ==
  IF a.kind = "soup" THEN 2 + ((1 + a.len) % U16) ELSE Header[a.kind] + (a.len % U16)
--------------------------------------------------------------------------------
Init ==
  /\ peer \in Peers /\ plan \in Plans
  /\ stage = "start" /\ closed = "no"
  /\ done = 0 /\ sent = 0 /\ dropped = 0 /\ left = 0 /\ unread = 0
  /\ got = <<>> /\ wire = <<>> /\ inbox = <<>> /\ heard = <<>>

GoTo(s) == stage' = s

Open ==
  /\ stage = "start"
  /\ GoTo("Bind") \/ GoTo(IF Tcp THEN "accept" ELSE "run")
  /\ UNCHANGED <<peer, report, left, got, wire, unread, client, inbox>>

Accept ==
  /\ stage = "accept"
  /\ GoTo("run") \/ GoTo("Io")
  /\ UNCHANGED <<peer, report, left, got, wire, unread, client, inbox>>

Completed == done' = done + 1

Sleep ==
  /\ stage = "run" /\ ~AtEnd /\ Current.kind = "sleep"
  /\ Completed
  /\ UNCHANGED <<peer, stage, sent, dropped, left, got, wire, unread, client, inbox>>

Finish ==
  /\ stage = "run" /\ AtEnd
  /\ GoTo("Ok")
  /\ UNCHANGED <<peer, report, left, got, wire, unread, client, inbox>>

\* Mutant of DropPacket: a dropped packet is not accounted for.
DropUncounted ==
  /\ Sending /\ peer.lossy
  /\ Completed
  /\ UNCHANGED <<peer, stage, sent, dropped, left, got, wire, unread, client, inbox>>

\* should_drop, asked before anything else is looked at.
DropPacket ==
  /\ Sending /\ peer.lossy
  /\ dropped' = dropped + Size(Current)
  /\ Completed
  /\ UNCHANGED <<peer, stage, sent, left, got, wire, unread, client, inbox>>

SendDatagram ==
  /\ Sending /\ ~Tcp /\ peer.target /\ Size(Current) <= DatagramMax
  /\ wire' = Append(wire, [act |-> done + 1, bytes |-> Size(Current)])
  /\ sent' = sent + Size(Current)
  /\ Completed
  /\ UNCHANGED <<peer, stage, dropped, left, got, unread, client, inbox>>

\* No target, or a datagram the kernel refuses.
DatagramRefused ==
  /\ Sending /\ ~Tcp
  /\ IF ~peer.target
     THEN GoTo("MissingUdpTarget")
     ELSE Size(Current) > DatagramMax /\ GoTo("Io")
  /\ UNCHANGED <<peer, report, left, got, wire, unread, client, inbox>>

\* Fault: send_to or recv_from fails.
DatagramFails ==
  /\ ~Tcp
  /\ (Sending /\ peer.target) \/ Expecting
  /\ GoTo("Io")
  /\ UNCHANGED <<peer, report, left, got, wire, unread, client, inbox>>
--------------------------------------------------------------------------------
\* write_all: as much as fits, until the whole frame is out.
BeginWrite ==
  /\ Sending /\ Tcp
  /\ GoTo("write")
  /\ left' = Size(Current)
  /\ wire' = Append(wire, [act |-> done + 1, bytes |-> 0])
  /\ UNCHANGED <<peer, report, got, unread, client, inbox>>

Fits == IF left <= SockCap - unread THEN left ELSE SockCap - unread

WriteSome ==
  /\ stage = "write" /\ Fits > 0
  /\ wire' = [wire EXCEPT ![Len(wire)].bytes = @ + Fits]
  /\ unread' = unread + Fits
  /\ left' = left - Fits
  /\ IF left' = 0
     THEN GoTo("run") /\ sent' = sent + Size(Current) /\ Completed
     ELSE UNCHANGED <<stage, sent, done>>
  /\ UNCHANGED <<peer, dropped, got, client, inbox>>

\* A client that is gone fails the write for certain; any other error is a fault.
WriteFails ==
  /\ stage = "write"
  /\ GoTo("Io")
  /\ UNCHANGED <<peer, report, left, got, wire, unread, client, inbox>>
--------------------------------------------------------------------------------
\* recv_from takes one datagram, read_exact what has come of the bytes it needs.
Take ==
  /\ Expecting /\ Missing > 0 /\ inbox # <<>>
  /\ LET n == Min({Missing, Len(inbox)}) IN
       /\ got' = got \o SubSeq(inbox, 1, n)
       /\ inbox' = SubSeq(inbox, n + 1, Len(inbox))
  /\ UNCHANGED <<peer, stage, report, left, wire, unread, client>>

\* Mutant of Judge: what one read returned is compared (read for read_exact).
JudgeShort ==
  /\ Expecting /\ (got # <<>> \/ Missing = 0)
  /\ IF got = Units(Current.bytes)
     THEN Completed /\ got' = <<>> /\ UNCHANGED stage
     ELSE GoTo("ExpectMismatch") /\ UNCHANGED <<done, got>>
  /\ UNCHANGED <<peer, sent, dropped, left, wire, unread, client, inbox>>

Judge ==
  /\ Expecting /\ Missing = 0
  /\ IF got = Units(Current.bytes)
     THEN Completed /\ got' = <<>> /\ UNCHANGED stage
     ELSE GoTo("ExpectMismatch") /\ UNCHANGED <<done, got>>
  /\ UNCHANGED <<peer, sent, dropped, left, wire, unread, client, inbox>>

\* Mutant of Short: the end of the stream is taken for "nothing yet".
ShortNever == FALSE /\ UNCHANGED vars

Short ==
  /\ Expecting /\ Missing > 0 /\ inbox = <<>> /\ closed # "no"
  /\ GoTo("TcpExpectShort")
  /\ UNCHANGED <<peer, report, left, got, wire, unread, client, inbox>>

\* Fault: read_exact fails with bytes there or none; map_err makes it the same error.
ReadFails ==
  /\ Expecting /\ Tcp /\ Missing > 0
  /\ GoTo("TcpExpectShort")
  /\ closed' = "failed"
  /\ UNCHANGED <<peer, report, left, got, wire, unread, plan, heard, inbox>>
--------------------------------------------------------------------------------
Joined == stage \in {"run", "write"}
Connected == Joined /\ closed = "no"

ClientSays ==
  /\ Connected /\ plan # <<>>
  /\ inbox' = inbox \o Units(Head(plan))
  /\ heard' = heard \o Units(Head(plan))
  /\ plan' = Tail(plan)
  /\ UNCHANGED <<peer, stage, report, left, got, wire, unread, closed>>

LoseDatagram ==
  /\ ~Tcp /\ ~Over /\ plan # <<>>
  /\ plan' = Tail(plan)
  /\ UNCHANGED <<peer, stage, report, left, got, wire, unread, heard, closed, inbox>>

ClientReads ==
  /\ Connected /\ unread > 0
  /\ unread' = 0
  /\ UNCHANGED <<peer, stage, report, left, got, wire, client, inbox>>

\* Closing with bytes unread, or being written to after it closed, resets the
\* connection; what the client had sent may be gone with it.
ClientCloses ==
  /\ Tcp /\ Joined
  /\ closed = "no" \/ (closed = "fin" /\ unread > 0)
  /\ IF unread = 0
     THEN closed' = "fin" /\ UNCHANGED inbox
     ELSE closed' = "reset" /\ inbox' \in {inbox, <<>>}
  /\ UNCHANGED <<peer, stage, report, left, got, wire, unread, plan, heard>>
--------------------------------------------------------------------------------
PeerStep ==
  \/ Open \/ Sleep \/ Finish
  \/ DropPacket \/ SendDatagram \/ DatagramRefused
  \/ BeginWrite \/ WriteSome \/ (WriteFails /\ closed # "no")
  \/ Take \/ Judge \/ Short

PeerFault == DatagramFails \/ WriteFails \/ ReadFails

Next ==
  \/ PeerStep \/ PeerFault \/ Accept
  \/ ClientSays \/ LoseDatagram \/ ClientReads \/ ClientCloses

Spec == Init /\ [][Next]_vars

\* The peer's task is polled; the client connects, reads, and says what it has.
FairSpec ==
  Spec /\ WF_vars(PeerStep) /\ WF_vars(Accept) /\ WF_vars(ClientReads) /\ WF_vars(ClientSays)
--------------------------------------------------------------------------------
Frames == {i \in DOMAIN peer.script : peer.script[i].kind \in DOMAIN Header}
Due == MapThenSumSet(LAMBDA i : Size(peer.script[i]), Frames)
Wired == MapThenSumSet(LAMBDA i : wire[i].bytes, DOMAIN wire)

(***************************************************************************)
(* MockRunReport accounts for every byte: a run that returns Ok completed  *)
(* its whole script, sent what is on the wire, and what it did not send it *)
(* counted as dropped (run_udp, run_tcp, send_udp, send_tcp).              *)
(***************************************************************************)
ReportTrue ==
  stage = "Ok" => AtEnd /\ sent = Wired /\ sent + dropped = Due

(***************************************************************************)
(* A reader that trusts the length fields stays on frame boundaries: every *)
(* frame on the wire has the announced length exactly if the length fits   *)
(* the u16 (payloads below 65536, for soup 65535), frames come in script   *)
(* order, and drops leave no torn one behind; only the frame a write_all   *)
(* is at, or failed in, is cut (the encoders, send_tcp).                   *)
(***************************************************************************)
StreamParses ==
  \A i \in DOMAIN wire :
    LET a == peer.script[wire[i].act] IN
      /\ i > 1 => wire[i - 1].act < wire[i].act
      /\ \/ /\ wire[i].bytes = Size(a)
            /\ (Announced(a) = Size(a)) <=> (a.len < (IF a.kind = "soup" THEN 65535 ELSE 65536))
         \/ i = Len(wire) /\ stage \in {"write", "Io"} /\ wire[i].bytes < Size(a)

Met == [i \in 1 .. done |->
          IF peer.script[i].kind = "expect" THEN Units(peer.script[i].bytes) ELSE <<>>]
Want == FlattenSeq(Met)

(***************************************************************************)
(* The verdict on the client's bytes does not depend on how they came:     *)
(* completed expectations used up exactly the bytes (datagrams) they name, *)
(* ExpectMismatch means the next ones differ, and TcpExpectShort that the  *)
(* client ended its stream before them, or reset it, or a read failed      *)
(* (ExpectClientBytes).                                                    *)
(***************************************************************************)
VerdictTrue ==
  /\ SubSeq(heard, 1, Len(Want)) = Want
  /\ stage \in {"ExpectMismatch", "TcpExpectShort"} =>
       LET next == Units(Current.bytes)
           upto == Len(Want) + Len(next)
       IN IF stage = "ExpectMismatch"
          THEN upto <= Len(heard) /\ SubSeq(heard, Len(Want) + 1, upto) # next
          ELSE \/ closed \in {"reset", "failed"}
               \/ closed = "fin" /\ Len(heard) < upto

Starved == Expecting /\ Missing > 0 /\ inbox = <<>> /\ plan = <<>> /\ closed = "no"

(***************************************************************************)
(* A run comes to its end, even against a client that closes or reads      *)
(* slowly, unless it waits for something the client never says or that was *)
(* lost: there is no timeout (run_udp, run_tcp).                           *)
(***************************************************************************)
RunEnds == (stage = "start") ~> (Over \/ Starved)
================================================================================
