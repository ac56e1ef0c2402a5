------------------------------ MODULE ShadowMap ------------------------------
(***************************************************************************)
(* What table.h promises of a table, without chains or hashes: every key   *)
(* maps to the values added to it, the last one shadowing the others until *)
(* it is removed.                                                          *)
(***************************************************************************)
EXTENDS Sequences

CONSTANTS Key, Value, NULL

VARIABLES
  open,    \* the table exists
  values,  \* the values of every key, the last added first
  result   \* what the last call returned

vars == <<open, values, result>>

Empty == [k \in Key |-> <<>>]

Init == open = FALSE /\ values = Empty /\ result = "0"

\* A call that changes nothing.
Fail(error) == result' = error /\ UNCHANGED <<open, values>>

Open ==
  /\ ~open
  /\ \/ open' = TRUE /\ result' = "0" /\ UNCHANGED values
     \/ Fail(NULL)

Close == open /\ open' = FALSE /\ values' = Empty /\ result' = "0"

Add(key, value) ==
  /\ open
  /\ \/ /\ values' = [values EXCEPT ![key] = <<value>> \o @]
        /\ result' = "0"
        /\ UNCHANGED open
     \/ Fail("ENOMEM")

Remove(key) ==
  /\ open
  /\ IF values[key] = <<>> THEN Fail("EINVAL")
     ELSE /\ values' = [values EXCEPT ![key] = Tail(@)]
          /\ result' = "0"
          /\ UNCHANGED open

Lookup(key) ==
  /\ open
  /\ Fail(IF values[key] = <<>> THEN NULL ELSE Head(values[key]))

Next ==
  \/ Open
  \/ Close
  \/ \E key \in Key, value \in Value : Add(key, value)
  \/ \E key \in Key : Remove(key) \/ Lookup(key)

Spec == Init /\ [][Next]_vars
=============================================================================
