------------------------------ MODULE MCJString ------------------------------
(***************************************************************************)
(* Memories of 5 characters, the last one a terminator: room for a run of  *)
(* three quotes, or of two escapes and a quote, behind another character.  *)
(***************************************************************************)
EXTENDS JString, TLC

MCNeedles == {<<>>, <<"quote">>, <<"quote", "letter">>, <<"escape", "escape", "quote">>}
MCmodifier == [c \in Char |-> IF c = "letter" THEN "escape" ELSE c]
=============================================================================
