------------------------------- MODULE MCBigInt -------------------------------
(***************************************************************************)
(* Numbers of up to 2 chunks of 4 bits, two hexadecimal digits of 2 bits   *)
(* each.                                                                   *)
(***************************************************************************)
EXTENDS BigInt

\* The empty string, one with a character that is no digit, and strings that
\* fill their last chunk or do not.
MCStrings == {<<>>, <<1, NULL>>, <<1>>, <<2>>, <<2, 1>>, <<1, 2, 3>>, <<3, 3, 0>>}
=============================================================================
