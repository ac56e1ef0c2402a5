------------------------------- MODULE Deque -------------------------------
(***************************************************************************)
(* What list.h promises: a sequence of elements with both ends open, and   *)
(* an iterator that is a pair of positions in it. No nodes, no pointers,   *)
(* no memory beyond the possibility that there is none left.               *)
(***************************************************************************)
EXTENDS Integers, Sequences

CONSTANTS Element, NULL

VARIABLES
  open,    \* the list exists
  items,   \* its elements, head first
  cursor,  \* the iterator's positions of next and previous, NULL if none
  result   \* what the last call returned

vars == <<open, items, cursor, result>>

None == 0    \* a position: there is nothing in that direction
Gone == -1   \* a position: the element was removed, reset before moving there

\* Every position p of the cursor becomes move[p].
MoveCursor(move(_)) ==
  cursor' = IF cursor = NULL THEN NULL
            ELSE [next |-> move(cursor.next), previous |-> move(cursor.previous)]

Init == open = FALSE /\ items = <<>> /\ cursor = NULL /\ result = "ok"

Open ==
  /\ ~open /\ cursor = NULL
  /\ open' = TRUE /\ items' = <<>> /\ result' = "ok"
  /\ UNCHANGED cursor

AppendLast(element) ==
  /\ open
  /\ items' = Append(items, element)
  /\ result' = "ok"
  /\ UNCHANGED <<open, cursor>>

PrependFirst(element) ==
  /\ open
  /\ items' = <<element>> \o items
  /\ MoveCursor(LAMBDA p : IF p > 0 THEN p + 1 ELSE p)
  /\ result' = "ok"
  /\ UNCHANGED open

\* A call that changes nothing: a NULL element, no memory, no such element.
Fail(error) == result' = error /\ UNCHANGED <<open, items, cursor>>

RemoveAt(i, returned) ==
  /\ items' = SubSeq(items, 1, i - 1) \o SubSeq(items, i + 1, Len(items))
  /\ MoveCursor(LAMBDA p : IF p = i THEN Gone ELSE IF p > i THEN p - 1 ELSE p)
  /\ result' = returned
  /\ UNCHANGED open

Shift == open /\ IF items = <<>> THEN Fail(NULL) ELSE RemoveAt(1, items[1])
Pop == open /\ IF items = <<>> THEN Fail(NULL)
               ELSE RemoveAt(Len(items), items[Len(items)])

\* The first of equal elements goes.
Remove(element) ==
  \/ \E i \in DOMAIN items :
       /\ items[i] = element
       /\ \A j \in 1 .. i - 1 : items[j] # element
       /\ RemoveAt(i, "ok")
  \/ /\ \A i \in DOMAIN items : items[i] # element
     /\ Fail("EADDRNOTAVAIL")

Free ==
  /\ open /\ cursor = NULL
  /\ open' = FALSE /\ items' = <<>> /\ result' = "ok"
  /\ UNCHANGED cursor

\* Both ends at once: the cursor may set out in either direction.
Start == [next |-> IF items = <<>> THEN None ELSE 1, previous |-> Len(items)]

IteratorReset ==
  /\ open
  /\ cursor' = Start /\ result' = "ok"
  /\ UNCHANGED <<open, items>>

IteratorFree == cursor' = NULL /\ result' = "ok" /\ UNCHANGED <<open, items>>

IteratorNext ==
  /\ open /\ cursor # NULL /\ cursor.next # Gone
  /\ IF cursor.next = None THEN Fail(NULL)
     ELSE /\ cursor' = [next |-> IF cursor.next = Len(items) THEN None
                                 ELSE cursor.next + 1,
                        previous |-> cursor.next]
          /\ result' = items[cursor.next]
          /\ UNCHANGED <<open, items>>

IteratorPrevious ==
  /\ open /\ cursor # NULL /\ cursor.previous # Gone
  /\ IF cursor.previous = None THEN Fail(NULL)
     ELSE /\ cursor' = [next |-> cursor.previous, previous |-> cursor.previous - 1]
          /\ result' = items[cursor.previous]
          /\ UNCHANGED <<open, items>>

Next ==
  \/ Open \/ Shift \/ Pop \/ Free
  \/ \E element \in Element : AppendLast(element) \/ PrependFirst(element) \/ Remove(element)
  \/ \E error \in {"EINVAL", "ENOMEM"} : open /\ Fail(error)
  \/ IteratorReset \/ IteratorFree \/ IteratorNext \/ IteratorPrevious

Spec == Init /\ [][Next]_vars
=============================================================================
