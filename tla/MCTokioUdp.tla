-------------------------------- MODULE MCTokioUdp --------------------------------
(* Model-checking instance of TokioUdp. *)
EXTENDS TokioUdp
================================================================================
