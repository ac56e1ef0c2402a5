------------------------------- MODULE MCBSort -------------------------------
(***************************************************************************)
(* Arrays of numbers in three categories, two of the numbers in the same.  *)
(***************************************************************************)
EXTENDS BSort

MCElement == 0 .. 3
MCOdd == {1, 3}
MCcategorizer(e) == e % 3
=============================================================================
