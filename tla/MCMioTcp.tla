-------------------------------- MODULE MCMioTcp --------------------------------
(* Model-checking instance of MioTcp. *)
EXTENDS MioTcp
================================================================================
