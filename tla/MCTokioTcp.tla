------------------------------- MODULE MCTokioTcp -------------------------------
(* Model-checking instance of TokioTcp. *)
EXTENDS TokioTcp
================================================================================
