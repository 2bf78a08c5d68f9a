---------------------------- MODULE MCDevRunner -----------------------------
(***************************************************************************)
(* Model-checking instance of DevRunner.                                   *)
(***************************************************************************)
EXTENDS DevRunner
=============================================================================
