------------------------------- MODULE MCDict -------------------------------
(***************************************************************************)
(* Small instances of Dict. Two of the keys, 20 and 21, are equal to the   *)
(* comparator and different as pointers.                                   *)
(***************************************************************************)
EXTENDS Dict

\* No property depends on which address is returned: always the lowest.
MCallocate(free) == {n \in free : \A m \in free : n <= m}

MCcompar(a, b) == (a \div 10) - (b \div 10)
MCKey == {10, 20, 21, 30, 40}
MCKeyMore == {10, 20, 21, 30, 40, 50, 60, 70}
=============================================================================
