------------------------------- MODULE MCApp --------------------------------
(***************************************************************************)
(* Model-checking instances of App.                                        *)
(***************************************************************************)
EXTENDS App, TLC

CONSTANTS c1, c2, c3, p1

\* One page with three slots.
OnePage == [c \in {c1, c2, c3} |-> p1]
=============================================================================
