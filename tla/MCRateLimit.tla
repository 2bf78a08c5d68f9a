---------------------------- MODULE MCRateLimit -----------------------------
(***************************************************************************)
(* Model-checking instances of RateLimit.                                  *)
(***************************************************************************)
EXTENDS RateLimit, TLC

Symmetry == Permutations(Goroutines) \cup Permutations(Keys)
=============================================================================
