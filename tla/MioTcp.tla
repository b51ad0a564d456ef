--------------------------------- MODULE MioTcp ---------------------------------
(***************************************************************************)
(* TcpTransport of crates/mio/src/tcp.rs: connect with wait_connect,       *)
(* recv_into, ready and send, on one thread and one mio::Poll.             *)
(*                                                                         *)
(* The Poll is edge-triggered and shared by three loops that look for      *)
(* different things: wait_connect for writable, ready() for readable, send *)
(* for nothing at all.  Every poll uses up the edges of both directions.   *)
(* edges holds those the selector has not delivered yet.  kqueue delivers  *)
(* the direction that had an edge, epoll may deliver the other one with it.*)
(*                                                                         *)
(* Registration follows the connect call; a handshake that ends before it  *)
(* is reported by it, so it makes no difference when it ended.             *)
(***************************************************************************)
EXTENDS TcpStream

CONSTANTS
  Rounds      \* polls of 100 ms until the deadline of wait_connect

ASSUME RoundsAssumption == Rounds \in Nat \ {0}

VARIABLES
  edges,      \* directions with an undelivered edge, within {"R", "W"}
  pc,         \* where the thread is
  clock,      \* rounds of wait_connect that timed out
  outcome,    \* what connect answered
  woken       \* history: ready() returned Ok and no recv_into was called since

local == <<edges, pc, clock, outcome, woken>>
mvars == <<svars, local>>

\* new: not connected yet; cpoll, deadline, check: in wait_connect; idle:
\* between calls; probe, park: in ready; write, spoll: in send; failed: connect
\* returned an error and the socket is gone.
PCs == {"new", "cpoll", "deadline", "check", "idle", "probe", "park", "write", "spoll",
        "failed"}

Level(f) == IF f = "R" THEN Readable ELSE Writable

\* The events a poll may deliver now.
Reports ==
  {{f \in edges : Level(f)}, {f \in {"R", "W"} : edges # {} /\ Level(f)}}

MioInit ==
  /\ StreamInit
  /\ edges = {} /\ pc = "new" /\ clock = 0 /\ outcome = "no call" /\ woken = FALSE

Goto(p) == pc' = p
--------------------------------------------------------------------------------
\* The kernel and the peer, and the edges they raise.  Data that arrives behind
\* other data, and room in a buffer that was not full, may or may not raise one.
MHandshakeDone ==
  /\ HandshakeDone
  /\ edges' = edges \cup {"W"}
  /\ UNCHANGED <<pc, clock, outcome, woken>>

MHandshakeFails ==
  /\ HandshakeFails
  /\ edges' = edges \cup {"R", "W"}
  /\ UNCHANGED <<pc, clock, outcome, woken>>

RaiseR == edges' \in (IF Readable THEN {edges, edges \cup {"R"}} ELSE {edges \cup {"R"}})

MPeerSends == PeerSends /\ RaiseR /\ UNCHANGED <<pc, clock, outcome, woken>>
MPeerCloses == PeerCloses /\ RaiseR /\ UNCHANGED <<pc, clock, outcome, woken>>

MPeerReads ==
  /\ PeerReads
  /\ edges' \in {edges, edges \cup {"W"}}
  /\ UNCHANGED <<pc, clock, outcome, woken>>

MPeerResets ==
  /\ PeerResets
  /\ edges' = edges \cup {"R", "W"}
  /\ UNCHANGED <<pc, clock, outcome, woken>>
--------------------------------------------------------------------------------
\* A poll returns the events ev and uses up every edge.
Poll(ev) == ev \in Reports /\ ev # {} /\ edges' = {}

Polling == {"cpoll", "park", "spoll"}

\* Edges of a state that is over: the selector has nothing to deliver.
PollStale ==
  /\ pc \in Polling /\ edges # {} /\ {} \in Reports
  /\ edges' = {}
  /\ UNCHANGED <<svars, pc, clock, outcome, woken>>

\* connect(): the system call and the registration.
ConnectCall ==
  /\ pc = "new"
  /\ conn' = "syn"
  /\ Goto("cpoll")
  /\ UNCHANGED <<peer, soerr, inbound, outbound, faults, edges, clock, outcome, woken>>

\* connect() returns an error and drops the socket.
ConnectFail(error) ==
  /\ outcome' = error
  /\ Goto("failed")
  /\ UNCHANGED <<edges, clock, woken>>

\* The connect call fails.
ConnectRefusedAtOnce ==
  /\ pc = "new" /\ Fault
  /\ ConnectFail("BindFailed")
  /\ UNCHANGED <<conn, peer, soerr, inbound, outbound>>

\* A socket option, the Poll or the registration fails.
ConnectSetupFails ==
  /\ pc = "new" /\ Fault
  /\ ConnectFail("Io")
  /\ UNCHANGED <<conn, peer, soerr, inbound, outbound>>

\* The poll of wait_connect delivers the writable event.
ConnectEvent ==
  /\ pc = "cpoll"
  /\ \E ev \in Reports : Poll(ev) /\ "W" \in ev
  /\ Goto("check")
  /\ UNCHANGED <<svars, clock, outcome, woken>>

\* Mutant of ConnectQuiet: time does not pass.
ConnectNoClock ==
  /\ pc = "cpoll" /\ edges = {}
  /\ Goto("deadline")
  /\ UNCHANGED <<svars, edges, clock, outcome, woken>>

\* The poll of wait_connect times out after 100 ms.
ConnectQuiet ==
  /\ pc = "cpoll" /\ edges = {}
  /\ clock' = (IF clock < Rounds THEN clock + 1 ELSE clock)
  /\ Goto("deadline")
  /\ UNCHANGED <<svars, edges, outcome, woken>>

ConnectPollFails ==
  /\ pc = "cpoll" /\ Fault
  /\ ConnectFail("Io")
  /\ UNCHANGED <<conn, peer, soerr, inbound, outbound>>

\* After the poll: the deadline has passed ...
ConnectTimedOut ==
  /\ pc = "deadline" /\ clock >= Rounds
  /\ ConnectFail("TimedOut")
  /\ UNCHANGED svars

\* ... or there is another round.
ConnectAgain ==
  /\ pc = "deadline" /\ clock < Rounds
  /\ Goto("cpoll")
  /\ UNCHANGED <<svars, edges, clock, outcome, woken>>

\* Mutant of ConnectUp: writable is taken for connected.
ConnectTrusted ==
  /\ pc = "check"
  /\ outcome' = "Ok"
  /\ Goto("idle")
  /\ UNCHANGED <<svars, edges, clock, woken>>

\* take_error finds nothing: connected.  peer_addr may fail, that is ignored.
ConnectUp ==
  /\ pc = "check" /\ ~soerr
  /\ outcome' = "Ok"
  /\ Goto("idle")
  /\ UNCHANGED <<svars, edges, clock, woken>>

\* take_error takes SO_ERROR.
ConnectError ==
  /\ pc = "check" /\ soerr
  /\ soerr' = FALSE
  /\ ConnectFail("Io")
  /\ UNCHANGED <<conn, peer, inbound, outbound, faults>>
--------------------------------------------------------------------------------
MRecvInto(d) ==
  /\ pc = "idle"
  /\ RecvInto(d)
  /\ woken' = FALSE
  /\ UNCHANGED <<edges, pc, clock, outcome>>

\* ready() is called, and ends.
ReadyCall ==
  /\ pc = "idle"
  /\ OtherCall
  /\ Goto("probe")
  /\ woken' = FALSE
  /\ UNCHANGED <<edges, clock, outcome>>

ReadyReturn(ok) == Goto("idle") /\ woken' = ok /\ UNCHANGED <<clock, outcome>>

\* Mutant of ProbeHit: a read without MSG_PEEK.
ProbeTakes ==
  /\ pc = "probe" /\ (inq > 0 \/ (peer # "open" /\ ~soerr))
  /\ inq' = (IF inq > 0 THEN inq - 1 ELSE inq)
  /\ ReadyReturn(TRUE)
  /\ UNCHANGED <<conn, peer, soerr, sent, landed, result, outbound, faults, edges>>

\* The peek finds data or the end of the stream.
ProbeHit ==
  /\ pc = "probe" /\ (inq > 0 \/ (peer # "open" /\ ~soerr))
  /\ ReadyReturn(TRUE)
  /\ UNCHANGED <<svars, edges>>

\* The peek reports SO_ERROR: ready() returns it.
ProbeError ==
  /\ pc = "probe" /\ inq = 0 /\ soerr
  /\ soerr' = FALSE
  /\ ReadyReturn(FALSE)
  /\ UNCHANGED <<conn, peer, inbound, outbound, faults, edges>>

\* Mutant of ProbeMiss: polls without asking the socket.
ProbeSkipped ==
  /\ pc = "probe"
  /\ Goto("park")
  /\ UNCHANGED <<svars, edges, clock, outcome, woken>>

\* The peek would block.
ProbeMiss ==
  /\ pc = "probe" /\ ~Readable
  /\ Goto("park")
  /\ UNCHANGED <<svars, edges, clock, outcome, woken>>

\* Mutant of ParkReadable: any event ends the wait.
ParkAnything ==
  /\ pc = "park"
  /\ \E ev \in Reports : Poll(ev)
  /\ ReadyReturn(TRUE)
  /\ UNCHANGED svars

\* The poll of ready() delivers a readable event.
ParkReadable ==
  /\ pc = "park"
  /\ \E ev \in Reports : Poll(ev) /\ "R" \in ev
  /\ ReadyReturn(TRUE)
  /\ UNCHANGED svars

\* Only a writable event: ready() polls again.
ParkWritable ==
  /\ pc = "park"
  /\ \E ev \in Reports : Poll(ev) /\ "R" \notin ev
  /\ UNCHANGED <<svars, pc, clock, outcome, woken>>

ParkFails ==
  /\ pc = "park" /\ Fault
  /\ ReadyReturn(FALSE)
  /\ UNCHANGED <<conn, peer, soerr, inbound, outbound, edges>>
--------------------------------------------------------------------------------
MSendCall(s) ==
  /\ pc = "idle"
  /\ SendCall(s)
  /\ Goto("write")
  /\ UNCHANGED <<edges, clock, outcome, woken>>

MWriteSome == pc = "write" /\ WriteSome /\ UNCHANGED local

MWriteBlocks ==
  /\ pc = "write" /\ WriteBlocks
  /\ Goto("spoll")
  /\ UNCHANGED <<edges, clock, outcome, woken>>

\* send returns.
MSendOk ==
  /\ pc = "write" /\ SendOk
  /\ Goto("idle")
  /\ UNCHANGED <<edges, clock, outcome, woken>>

MWriteFails ==
  /\ pc = "write" /\ WriteFails
  /\ Goto("idle")
  /\ UNCHANGED <<edges, clock, outcome, woken>>

\* write is interrupted or answers 0, or the poll of send fails: an error
\* whatever is out already.
SendInterrupted ==
  /\ pc = "spoll" \/ (pc = "write" /\ off < size)
  /\ Fault /\ SendCut("Io")
  /\ Goto("idle")
  /\ UNCHANGED <<edges, clock, outcome, woken>>

\* The poll of send delivers events, which nobody looks at.
SendEvent ==
  /\ pc = "spoll"
  /\ \E ev \in Reports : Poll(ev)
  /\ Goto("write")
  /\ UNCHANGED <<svars, clock, outcome, woken>>

\* Mutant of SendQuiet: poll(None) waits for an edge that may never come.
SendWaits == FALSE /\ UNCHANGED mvars

\* The poll of send times out after 50 ms.
SendQuiet ==
  /\ pc = "spoll" /\ edges = {}
  /\ Goto("write")
  /\ UNCHANGED <<svars, edges, clock, outcome, woken>>
--------------------------------------------------------------------------------
Environment ==
  \/ MHandshakeDone \/ MHandshakeFails
  \/ MPeerSends \/ MPeerCloses \/ MPeerReads \/ MPeerResets

ConnectStep ==
  \/ ConnectEvent \/ ConnectQuiet \/ ConnectTimedOut \/ ConnectAgain
  \/ ConnectUp \/ ConnectError

ReadyStep ==
  \/ ProbeHit \/ ProbeError \/ ProbeMiss \/ ParkReadable \/ ParkWritable

SendStep ==
  \/ MWriteSome \/ MWriteBlocks \/ MSendOk \/ MWriteFails \/ SendEvent \/ SendQuiet

MioNext ==
  \/ Environment
  \/ ConnectCall \/ ConnectRefusedAtOnce \/ ConnectSetupFails
  \/ ConnectPollFails \/ ConnectStep
  \/ \E d \in 0 .. MaxDst : MRecvInto(d)
  \/ ReadyCall \/ ReadyStep \/ ParkFails
  \/ \E s \in Sizes : MSendCall(s)
  \/ SendStep \/ SendInterrupted
  \/ PollStale

MioSpec == MioInit /\ [][MioNext]_mvars

(***************************************************************************)
(* The thread is scheduled, polls deliver pending edges and time out, the  *)
(* peer reads what was sent.  The caller, whatever else it does, keeps     *)
(* calling recv_into (SF: possible only between the other calls).          *)
(***************************************************************************)
MioFairness ==
  /\ WF_mvars(ConnectStep)
  /\ WF_mvars(ReadyStep)
  /\ WF_mvars(SendStep)
  /\ WF_mvars(PollStale)
  /\ WF_mvars(MPeerReads)
  /\ SF_mvars(MRecvInto(1))

MioFairSpec == MioSpec /\ MioFairness
--------------------------------------------------------------------------------
(***************************************************************************)
(* The connection is a ByteStream: a probe takes nothing, what recv_into   *)
(* lands is what it says, a send that was put off by would-block goes on   *)
(* where it stopped, and after one that failed half way the next one       *)
(* begins at its own first byte, behind a torn prefix.                     *)
(***************************************************************************)
Contract == INSTANCE ByteStream WITH writing <- pc \in {"write", "spoll"}
KeepsStream == Contract!Spec

(***************************************************************************)
(* No lost wake-up: the thread never sleeps in the poll of ready() next to *)
(* something to read without an edge that ends the sleep, although connect *)
(* and send have polled the same selector and thrown readable events away; *)
(* and wait_connect never times out on a connection whose writable edge it *)
(* has been given.                                                         *)
(***************************************************************************)
NoLostWakeup ==
  /\ pc = "park" /\ Readable => "R" \in edges
  /\ pc \in {"cpoll", "deadline"} /\ Writable => "W" \in edges

(***************************************************************************)
(* connect() answers Ok only for a connection whose handshake is done: a   *)
(* failed one is writable as well, take_error tells them apart.            *)
(***************************************************************************)
ConnectTruthful == outcome = "Ok" => conn = "up"

(***************************************************************************)
(* After ready() returned Ok the next recv_into with room does not answer  *)
(* Ok(0), even if sends ran in between (AsyncReady).                       *)
(***************************************************************************)
ReadyMeansProgress ==
  [][woken /\ ~woken' /\ pc = "idle" /\ pc' = "idle" /\ result'.dst > 0 =>
       ~(result'.kind = "Ok" /\ result'.n = 0)]_mvars

(***************************************************************************)
(* connect() returns, also when the peer never answers: the deadline ends  *)
(* it.                                                                     *)
(***************************************************************************)
ConnectReturns == (pc = "cpoll") ~> (pc \in {"idle", "failed"})

(***************************************************************************)
(* send() returns as long as the peer reads: it needs no writable edge,    *)
(* which an earlier poll may have used up.                                 *)
(***************************************************************************)
SendReturns == (pc = "write") ~> (pc = "idle")

(***************************************************************************)
(* A caller that lands one byte per wake gets every byte of the stream,    *)
(* unless the connection is reset or was never handed to it.               *)
(***************************************************************************)
EveryByteLanded ==
  \A k \in 1 .. MaxIn :
    (sent >= k) ~> (landed >= k \/ peer = "reset" \/ pc = "failed")
================================================================================
