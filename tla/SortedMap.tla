------------------------------ MODULE SortedMap ------------------------------
(***************************************************************************)
(* What dict.h promises of a dict, without a tree: pairs in the order of   *)
(* the comparator, one for each key. A put that finds its key, or one equal *)
(* to it, hands back the pair it displaces; one that does not may run out  *)
(* of memory, and then changes nothing.                                    *)
(***************************************************************************)
EXTENDS Integers, Sequences

CONSTANTS Key, Value, NULL, compar(_, _)

VARIABLES
  open,    \* the dict exists
  pairs,   \* its pairs, in ascending order
  answer   \* what dict_put returns, until its caller has it

vars == <<open, pairs, answer>>

NoPair == [key |-> NULL, value |-> NULL]
NoAnswer == [status |-> "none", old |-> NoPair]
Answer(status, old) == answer' = [status |-> status, old |-> old]

Init == open = FALSE /\ pairs = <<>> /\ answer = NoAnswer

Create == ~open /\ open' = TRUE /\ UNCHANGED <<pairs, answer>>

Destroy ==
  /\ open /\ answer = NoAnswer
  /\ open' = FALSE /\ pairs' = <<>>
  /\ UNCHANGED answer

Replace(key, value) ==
  /\ open /\ answer = NoAnswer
  /\ \E i \in DOMAIN pairs :
       /\ compar(pairs[i].key, key) = 0
       /\ pairs' = [pairs EXCEPT ![i] = [key |-> key, value |-> value]]
       /\ Answer("ok", pairs[i])
  /\ UNCHANGED open

Absent(key) == \A i \in DOMAIN pairs : compar(pairs[i].key, key) # 0

\* The new pair goes after those below it and before those above it.
Insert(key, value) ==
  /\ open /\ answer = NoAnswer
  /\ \E i \in 0 .. Len(pairs) :
       /\ \A j \in 1 .. i : compar(pairs[j].key, key) < 0
       /\ \A j \in i + 1 .. Len(pairs) : compar(pairs[j].key, key) > 0
       /\ pairs' = SubSeq(pairs, 1, i) \o <<[key |-> key, value |-> value]>>
                     \o SubSeq(pairs, i + 1, Len(pairs))
  /\ Answer("ok", NoPair)
  /\ UNCHANGED open

NoMemory(key) ==
  /\ open /\ answer = NoAnswer /\ Absent(key)
  /\ Answer("enomem", NoPair)
  /\ UNCHANGED <<open, pairs>>

Return == answer # NoAnswer /\ answer' = NoAnswer /\ UNCHANGED <<open, pairs>>

Next ==
  \/ Create \/ Destroy \/ Return
  \/ \E key \in Key :
       NoMemory(key) \/ \E value \in Value : Replace(key, value) \/ Insert(key, value)

Spec == Init /\ [][Next]_vars
=============================================================================
