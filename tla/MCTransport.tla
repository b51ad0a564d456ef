------------------------------ MODULE MCTransport ------------------------------
(* Model-checking instance of Transport: one endpoint of each backend. *)
EXTENDS Transport

BackendOf == [m |-> "mio", t |-> "tokio"]

Wants(reuse, rcvbuf, slabs, runtime) ==
  [reuse |-> reuse, rcvbuf |-> rcvbuf, slabs |-> slabs, runtime |-> runtime]

\* Two that share and ask for more than they get, one alone, one that panics.
ConfigSet == {Wants({"port"}, 3, 1, TRUE), Wants({}, 0, 1, TRUE), Wants({}, 0, 0, FALSE)}
================================================================================
