------------------------------ MODULE MCTable ------------------------------
(***************************************************************************)
(* A small instance of Table: short strings, of which some collide in      *)
(* tables of every size, also through the wrap of the hash.                *)
(***************************************************************************)
EXTENDS Table

MCKey == {<<>>, <<1>>, <<2>>, <<1, 1>>}
=============================================================================
