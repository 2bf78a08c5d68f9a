----------------------------- MODULE MCProject ------------------------------
(***************************************************************************)
(* Model-checking instance of Project.                                     *)
(***************************************************************************)
EXTENDS Project, TLC

Nav   == <<"Nav">>
Admin == <<"admin", "Nav">>

Declares(mode) == <<<<"//", " ", "@mode", " ", mode>>>>

\* An annotation too late to count, and a line that overflows the scanner's buffer.
SomeTexts == {<<<<>>, <<>>, <<>>, <<>>, <<>>, <<"@mode", " ", "client">>>>, <<<<"long">>>>}

SomeWords == {"//", " ", "@mode", "long"} \cup Modes
TwoPaths == {Nav, Admin}
OneStarter == Nav :> Declares("ssr")
=============================================================================
