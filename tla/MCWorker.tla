------------------------------ MODULE MCWorker ------------------------------
(***************************************************************************)
(* Model-checking instances of Worker.                                     *)
(***************************************************************************)
EXTENDS Worker, TLC

Symmetry == Permutations(Callers) \cup Permutations(Components)
=============================================================================
