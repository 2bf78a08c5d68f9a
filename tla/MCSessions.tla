----------------------------- MODULE MCSessions -----------------------------
(***************************************************************************)
(* Model-checking instances of Sessions.                                   *)
(***************************************************************************)
EXTENDS Sessions, TLC

CONSTANTS t1, t2

Symmetry == Permutations(Tabs)
=============================================================================
