------------------------------ MODULE MCUploads -----------------------------
(***************************************************************************)
(* Model-checking instance of Uploads.                                     *)
(***************************************************************************)
EXTENDS Uploads, TLC

CONSTANTS r1, r2, none

SomeFields == {<<>>, <<0>>, <<1>>, <<2>>, <<3>>, <<4>>, <<1, 0>>}
AllBodies == {none} \cup UNION {[1..n -> {"value", "blank", "junk"}] : n \in 0..3}
SmallKinds == [signed : BOOLEAN, values : {4, 8}]
Sym == Permutations(Requests)
=============================================================================
