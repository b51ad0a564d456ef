------------------------------- MODULE MCVecPool -------------------------------
(* Model-checking instance of VecPool. *)
EXTENDS VecPool, TLC

\* Threads, handles and byte values are interchangeable.
Symmetry == Permutations(Threads) \cup Permutations(Handles)
              \cup Permutations(Bytes)
================================================================================
