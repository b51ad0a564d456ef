-------------------------------- MODULE MCMioUdp --------------------------------
(* Model-checking instance of MioUdp. *)
EXTENDS MioUdp
================================================================================
