------------------------------ MODULE MCMockPeer ------------------------------
(* Model-checking instance of MockPeer. *)
EXTENDS MockPeer

Send(kind, len) == [kind |-> kind, len |-> len]
Expect(bytes) == [kind |-> "expect", bytes |-> bytes]
Pause == [kind |-> "sleep"]

\* Framed traffic around two expectations; frames at the limit of the u16.
ScriptSet ==
  {<<Send("mold", 1), Expect(<<1, 2>>), Pause, Send("heartbeat", 0), Expect(<<1>>), Send("soup", 2)>>,
   <<Send("soup", 65534), Expect(<<>>), Send("soup", 65535), Send("mold", 65536)>>}

PeerSet ==
  [kind : {"udp", "tcp"}, script : ScriptSet, target : BOOLEAN, lossy : BOOLEAN]

PlanSet == {<<<<1, 2>>, <<1>>>>, <<<<1>>, <<2, 1>>>>, <<<<1, 2, 1>>>>, <<<<>>, <<2>>>>}
================================================================================
