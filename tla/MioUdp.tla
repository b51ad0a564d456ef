--------------------------------- MODULE MioUdp ---------------------------------
(***************************************************************************)
(* UdpTransport::ready of crates/mio/src/udp.rs: a MSG_PEEK probe of the   *)
(* socket, then the owned mio::Poll until it reports a readable event.     *)
(*                                                                         *)
(* wait: "probe" before the peek, "park" inside Poll::poll.                *)
(***************************************************************************)
EXTENDS EdgeUdp

mvars == <<vars, readiness>>

\* ready() is called.
ReadyCall == EnterReady("probe")

\* probe_readable returns Ok(true): something is queued.
ProbeHit ==
  /\ wait = "probe" /\ sock # <<>>
  /\ ReturnOk
  /\ UNCHANGED <<vars, edge>>

\* Mutant of ProbeMiss: polls without asking the socket.
ProbeSkipped ==
  /\ wait = "probe"
  /\ wait' = "park"
  /\ UNCHANGED <<vars, edge, woken>>

\* probe_readable returns Ok(false): the thread goes on to poll.
ProbeMiss ==
  /\ wait = "probe" /\ sock = <<>>
  /\ wait' = "park"
  /\ UNCHANGED <<vars, edge, woken>>

\* probe_readable fails.
ProbeError == wait = "probe" /\ ReturnIo

\* Mutant of PollReadable: any wake-up counts.
PollAnything ==
  /\ wait = "park" /\ edge
  /\ edge' = FALSE
  /\ ReturnOk
  /\ UNCHANGED vars

\* poll delivers a readable event for UDP_TOKEN; the edge is used up.
PollReadable ==
  /\ wait = "park" /\ edge /\ sock # <<>>
  /\ edge' = FALSE
  /\ ReturnOk
  /\ UNCHANGED vars

\* The edge of data that was reaped since: the selector looks at the socket
\* again, and no event of the batch is readable.  The thread stays in the loop.
PollStale ==
  /\ wait = "park" /\ edge /\ sock = <<>>
  /\ edge' = FALSE
  /\ UNCHANGED <<vars, wait, woken>>

\* poll fails; an interrupted wait is an error too.
PollError == wait = "park" /\ ReturnIo

ReadyStep ==
  \/ ReadyCall
  \/ ProbeHit \/ ProbeMiss \/ ProbeError
  \/ PollReadable \/ PollStale \/ PollError

MioNext == EdgeNext \/ ReadyStep

MioSpec == EdgeInit /\ [][MioNext]_mvars

\* The kernel schedules the thread and delivers pending edges.
MioFairness ==
  /\ CallerFairness
  /\ WF_mvars(ProbeHit \/ ProbeMiss)
  /\ WF_mvars(PollReadable \/ PollStale)

MioFairSpec == MioSpec /\ MioFairness
--------------------------------------------------------------------------------
(***************************************************************************)
(* No lost wake-up: the thread never sleeps in poll next to queued data    *)
(* without an edge that will end the sleep, although earlier edges may     *)
(* have been used up by wakes that were only partially drained.            *)
(***************************************************************************)
NoLostWakeup == wait = "park" /\ sock # <<>> => edge
================================================================================
