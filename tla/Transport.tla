-------------------------------- MODULE Transport --------------------------------
(***************************************************************************)
(* The Transport enum of a backend (crates/mio/src/lib.rs and              *)
(* crates/tokio/src/lib.rs): built by bind_udp or connect_tcp, used        *)
(* through the traits, dropped.  An arm that has no counterpart in the     *)
(* variant answers Unsupported; the others go to the inner transport.      *)
(*                                                                         *)
(* What is behind recv_burst and the streams is in UdpRecv, MioTcp and     *)
(* TokioTcp; here they only answer.  Addressed sends and group membership  *)
(* of the Udp variant are modelled here.                                   *)
(***************************************************************************)
EXTENDS UdpBind

CONSTANTS
  SndCap,     \* datagrams the kernel buffers for the device
  MaxSends    \* bound: calls of send_to of an endpoint

ASSUME SendAssumption == SndCap \in Nat \ {0} /\ MaxSends \in Nat

VARIABLES
  pc,       \* where send_to is: idle, try, wait
  out,      \* datagrams waiting for the device
  took,     \* history: datagrams the kernel took
  sends,    \* history: calls of send_to
  told,     \* history: those that answered Ok
  group     \* kernel: the socket is a member of the group

io == <<pc, out, took, sends, told, group>>
xvars == <<bvars, io>>

TransportInit ==
  /\ BindInit
  /\ pc = [e \in Endpoints |-> "idle"]
  /\ out = [e \in Endpoints |-> 0] /\ took = [e \in Endpoints |-> 0]
  /\ sends = [e \in Endpoints |-> 0] /\ told = [e \in Endpoints |-> 0]
  /\ group = [e \in Endpoints |-> FALSE]

\* The variant: at[e] is "up" for Udp, "stream" for Tcp.
Datagram(e) == at[e] = "up" /\ pc[e] = "idle"
Stream(e) == at[e] = "stream"
--------------------------------------------------------------------------------
\* bind_udp.
XConstruct(e) == Construct(e) /\ UNCHANGED io

\* What connect_tcp panics on: the assertions of the pool, no tokio runtime.
Panics(e, c) == c.slabs = 0 \/ (Backend[e] = "tokio" /\ ~c.runtime)

\* connect_tcp: a stream, a panic, or the error of a call that comes before either.
ConnectTcp(e, c) ==
  /\ at[e] = "none"
  /\ \/ /\ ~Panics(e, c)
        /\ at' = [at EXCEPT ![e] = "stream"]
        /\ Answered("connect_tcp", "Ok") /\ UNCHANGED faults
     \/ /\ Panics(e, c)
        /\ Answered("connect_tcp", "panic") /\ UNCHANGED <<at, faults>>
     \/ /\ faults < MaxFaults /\ faults' = faults + 1
        /\ \E k \in {"BindFailed", "Io"} : Answered("connect_tcp", k)
        /\ UNCHANGED at
  /\ UNCHANGED <<cfg, kernel, io>>

\* The transport is dropped; what waits for the device goes out, memberships end.
XDrop(e) ==
  /\ \/ Datagram(e) /\ Drop(e)
     \/ Stream(e) /\ at' = [at EXCEPT ![e] = "none"] /\ Quiet /\ UNCHANGED <<cfg, kernel, faults>>
  /\ out' = [out EXCEPT ![e] = 0] /\ took' = [took EXCEPT ![e] = 0]
  /\ sends' = [sends EXCEPT ![e] = 0] /\ told' = [told EXCEPT ![e] = 0]
  /\ group' = [group EXCEPT ![e] = FALSE]
  /\ UNCHANGED pc

XArrive(e) == Arrive(e) /\ UNCHANGED io
--------------------------------------------------------------------------------
\* recv_burst and send_to, join_multicast, on Tcp; recv_into on Udp.
WrongShape(e) ==
  /\ \/ Datagram(e) /\ Answered("recv_into", "Unsupported")
     \/ Stream(e) /\ \E o \in {"recv_burst", "send_to", "join_multicast"} :
          Answered(o, "Unsupported")
  /\ UNCHANGED <<bind, io>>

\* recv_burst on Udp takes some of what is queued (module UdpRecv).
RecvBurst(e, n) ==
  /\ Datagram(e) /\ n <= queue[e]
  /\ queue' = [queue EXCEPT ![e] = @ - n]
  /\ Answered("recv_burst", "Ok")
  /\ UNCHANGED <<at, cfg, flags, room, holders, arrived, full, faults, io>>

\* recv_into and send on Tcp (modules MioTcp, TokioTcp).
StreamCall(e) ==
  /\ Stream(e)
  /\ \E o \in {"recv_into", "send"}, a \in {"Ok", "Io"} : Answered(o, a)
  /\ UNCHANGED <<bind, io>>

\* send on Udp: the socket was never connected, so the kernel wants an address.
SendUnaddressed(e) ==
  /\ Datagram(e)
  /\ Answered("send", "Io")
  /\ UNCHANGED <<bind, io>>
--------------------------------------------------------------------------------
\* send_to on Udp.
SendTo(e) ==
  /\ Datagram(e) /\ sends[e] < MaxSends
  /\ pc' = [pc EXCEPT ![e] = "try"]
  /\ sends' = [sends EXCEPT ![e] = @ + 1]
  /\ Quiet
  /\ UNCHANGED <<bind, out, took, told, group>>

SendReply(e, answer) ==
  /\ pc' = [pc EXCEPT ![e] = "idle"]
  /\ told' = [told EXCEPT ![e] = IF answer = "Ok" THEN @ + 1 ELSE @]
  /\ Answered("send_to", answer)
  /\ UNCHANGED <<sends, group>>

\* The kernel takes the whole datagram.
SendTaken(e) ==
  /\ pc[e] = "try" /\ out[e] < SndCap
  /\ out' = [out EXCEPT ![e] = @ + 1]
  /\ took' = [took EXCEPT ![e] = @ + 1]
  /\ SendReply(e, "Ok")
  /\ UNCHANGED bind

\* Mutant of SendFull: would-block ends the call as if the datagram were out.
SendFullOk(e) ==
  /\ pc[e] = "try" /\ out[e] = SndCap
  /\ SendReply(e, "Ok")
  /\ UNCHANGED <<bind, out, took>>

\* Would-block: mio sleeps 1 ms, tokio awaits writability.
SendFull(e) ==
  /\ pc[e] = "try" /\ out[e] = SndCap
  /\ pc' = [pc EXCEPT ![e] = "wait"]
  /\ Quiet
  /\ UNCHANGED <<bind, out, took, sends, told, group>>

\* Mutant of SendAgain: mio waits for a writable event, for which its socket is
\* not registered.
SendAgainUnheard(e) ==
  /\ pc[e] = "wait"
  /\ Backend[e] = "tokio" /\ out[e] < SndCap
  /\ pc' = [pc EXCEPT ![e] = "try"]
  /\ Quiet
  /\ UNCHANGED <<bind, out, took, sends, told, group>>

\* mio has slept; tokio has been told that the socket is writable.
SendAgain(e) ==
  /\ pc[e] = "wait"
  /\ Backend[e] = "mio" \/ out[e] < SndCap
  /\ pc' = [pc EXCEPT ![e] = "try"]
  /\ Quiet
  /\ UNCHANGED <<bind, out, took, sends, told, group>>

SendFails(e) ==
  /\ pc[e] = "try" /\ faults < MaxFaults
  /\ faults' = faults + 1
  /\ SendReply(e, "Io")
  /\ UNCHANGED <<at, cfg, kernel, out, took>>

\* The caller drops the future of send_to where it waits; mio's has no await.
SendDropped(e) ==
  /\ pc[e] = "wait" /\ Backend[e] = "tokio"
  /\ SendReply(e, "Cancelled")
  /\ UNCHANGED <<bind, out, took>>

\* The device takes a datagram.
Device(e) ==
  /\ out[e] > 0
  /\ out' = [out EXCEPT ![e] = @ - 1]
  /\ Quiet
  /\ UNCHANGED <<bind, pc, took, sends, told, group>>

\* join_multicast on Udp: the kernel refuses a second membership of the socket.
Join(e) ==
  /\ Datagram(e)
  /\ IF group[e]
     THEN Answered("join_multicast", "Io") /\ UNCHANGED group
     ELSE /\ group' = [group EXCEPT ![e] = TRUE]
          /\ Answered("join_multicast", "Ok")
  /\ UNCHANGED <<bind, pc, out, took, sends, told>>

\* A family that does not match the socket, an interface that is not there.
JoinFails(e) ==
  /\ Datagram(e) /\ faults < MaxFaults
  /\ faults' = faults + 1
  /\ Answered("join_multicast", "Io")
  /\ UNCHANGED <<at, cfg, kernel, io>>
--------------------------------------------------------------------------------
SendStep(e) == SendTaken(e) \/ SendFull(e) \/ SendAgain(e)

TransportNext ==
  \E e \in Endpoints :
    \/ XConstruct(e) \/ XDrop(e) \/ XArrive(e)
    \/ \E c \in Configs : ConnectTcp(e, c)
    \/ WrongShape(e) \/ StreamCall(e) \/ SendUnaddressed(e)
    \/ \E n \in 0 .. MaxArrivals : RecvBurst(e, n)
    \/ SendTo(e) \/ SendStep(e) \/ SendFails(e) \/ SendDropped(e)
    \/ Device(e) \/ Join(e) \/ JoinFails(e)

TransportSpec == TransportInit /\ [][TransportNext]_xvars

\* The sending thread is scheduled or its task polled, the device sends.
TransportFairSpec ==
  /\ TransportSpec
  /\ \A e \in Endpoints : WF_xvars(SendStep(e)) /\ WF_xvars(Device(e))
--------------------------------------------------------------------------------
(***************************************************************************)
(* What a transport answered is what happened: a send_to that said Ok put  *)
(* one datagram into the kernel, one that failed, was retried on           *)
(* would-block or was dropped at its await put none there.                 *)
(***************************************************************************)
EffectsMatchAnswers == \A e \in Endpoints : told[e] = took[e]

(***************************************************************************)
(* send_to returns as long as the device sends, although mio's loop is     *)
(* woken by nothing and has no deadline.                                   *)
(***************************************************************************)
SendReturns == \A e \in Endpoints : (pc[e] = "try") ~> (pc[e] = "idle")

(***************************************************************************)
(* "Common base every backend implements: a stable name plus the low-rate  *)
(* async `send`" (TransportCore, crates/core/src/transport.rs): without a  *)
(* failing system call, send on a transport from bind_udp does not fail.   *)
(***************************************************************************)
SendWorks ==
  [][\A e \in Endpoints :
       Datagram(e) /\ at'[e] = "up" /\ ret'.op = "send" =>
         ret'.answer = "Ok" \/ faults' # faults]_xvars
================================================================================
