------------------------------- MODULE MCDMath -------------------------------
(***************************************************************************)
(* int has 7 bits and long 14: numbers on both sides of what an int holds, *)
(* bases on both sides of 2 .. 36, and systems of up to 3 equations. The   *)
(* array of primes is full before the root of the largest number asked.    *)
(***************************************************************************)
EXTENDS PrimeCache

MCLongs == (-24 .. 40) \cup {-64, 60, 63, 64, 81, 100, 128, 200, 243, 256, 1000, -1000, 8191}
MCUInts == {0, 1, 2, 3, 5, 8, 10, 11, 12, 27, 64, 127}
MCBases == {-6, -1, 0, 1, 2, 3, 4, 10, 12, 36, 37}

MCRemainders == {-1, 0, 2, 6}
MCModuli == {-3, 0, 1, 2, 3, 4, 5, 7}
=============================================================================
