------------------------------- MODULE MCUdpRecv -------------------------------
(* Model-checking instance of UdpRecv. *)
EXTENDS UdpRecv, TLC

\* The slots of the pool are interchangeable.
Symmetry == Permutations(Slots)
================================================================================
