-------------------------------- MODULE List --------------------------------
(***************************************************************************)
(* The doubly linked list of list.c on a heap of malloc'ed nodes, with one *)
(* iterator. Calls that only relink are one action; the loops of           *)
(* list_remove and list_free are one action per round.                     *)
(*                                                                         *)
(* The client may change the list while iterating, but moves the iterator  *)
(* over a removed node only after a reset, and frees it before the list.   *)
(***************************************************************************)
EXTENDS Integers, Sequences, FiniteSets

CONSTANTS
  Node,     \* addresses malloc can return: bounds the allocations
  Element,  \* the clients' elements, which may be added more than once
  NULL      \* the null pointer

ASSUME NodeAssumption == IsFiniteSet(Node)

Ref == Node \cup {NULL}

VARIABLES
  exists,   \* between list_init and list_free
  head, tail, nelement,   \* the fields of struct list
  heap,     \* the fields of every struct list_node
  live,     \* nodes malloc returned and free has not taken back
  li,       \* the iterator, NULL if there is none
  pc,       \* "idle", or the loop that is running
  np,       \* node pointer of list_remove
  sought,   \* the element given to list_remove
  result    \* what the last call returned

list == <<exists, head, tail, nelement, heap, live>>
call == <<pc, np, sought>>
vars == <<list, li, call, result>>

NodeFields == [next : Ref, previous : Ref, element : Element \cup {NULL}]
Blank == [next |-> NULL, previous |-> NULL, element |-> NULL]

\* The two pointers, whether the node behind one was freed, and whether it
\* was moved since the last reset.
Iterator == [next : Ref, previous : Ref, nextFreed : BOOLEAN,
             previousFreed : BOOLEAN, moved : BOOLEAN]

\* The null pointer is none of the things a pointer leads to, nor a status.
ASSUME NullAssumption ==
  /\ NULL \notin Node \cup Element \cup {"ok", "EINVAL", "ENOMEM", "EADDRNOTAVAIL"}
  /\ NULL \notin Iterator /\ NULL \notin [next : Int, previous : Int]

Init ==
  /\ exists = FALSE /\ head = NULL /\ tail = NULL /\ nelement = 0
  /\ heap = [n \in Node |-> Blank] /\ live = {}
  /\ li = NULL
  /\ pc = "idle" /\ np = NULL /\ sought = NULL
  /\ result = "ok"

Ready == pc = "idle" /\ exists

list_init ==
  /\ pc = "idle" /\ ~exists /\ li = NULL
  /\ exists' = TRUE /\ head' = NULL /\ tail' = NULL /\ nelement' = 0
  /\ result' = "ok"
  /\ UNCHANGED <<heap, live, li, call>>

\* The early return on element == NULL.
Refuse ==
  /\ Ready
  /\ result' = "EINVAL"
  /\ UNCHANGED <<list, li, call>>

list_addnode(n, element, linked) ==
  /\ live' = live \cup {n}
  /\ heap' = [linked EXCEPT ![n].element = element]
  /\ nelement' = nelement + 1
  /\ result' = "ok"

NoMemory ==
  /\ Ready
  /\ result' = "ENOMEM"
  /\ UNCHANGED <<list, li, call>>

list_prepend(element) ==
  /\ Ready /\ element # NULL
  /\ \E n \in Node \ live :
       LET fresh == [heap EXCEPT ![n] = [Blank EXCEPT !.next = head]] IN
         /\ IF head = NULL
              THEN tail' = n /\ list_addnode(n, element, fresh)
              ELSE /\ UNCHANGED tail
                   /\ list_addnode(n, element, [fresh EXCEPT ![head].previous = n])
         /\ head' = n
  /\ UNCHANGED <<exists, li, call>>

list_append(element) ==
  /\ Ready /\ element # NULL
  /\ \E n \in Node \ live :
       LET fresh == [heap EXCEPT ![n] = [Blank EXCEPT !.previous = tail]] IN
         /\ IF tail = NULL
              THEN head' = n /\ list_addnode(n, element, fresh)
              ELSE /\ UNCHANGED head
                   /\ list_addnode(n, element, [fresh EXCEPT ![tail].next = n])
         /\ tail' = n
  /\ UNCHANGED <<exists, li, call>>

\* free(node) also leaves an iterator's pointer to it dangling.
list_delnode(n, relinked) ==
  /\ live' = live \ {n}
  /\ heap' = [relinked EXCEPT ![n] = Blank]
  /\ nelement' = nelement - 1
  /\ li' = IF li = NULL THEN NULL
           ELSE [li EXCEPT !.nextFreed = @ \/ li.next = n,
                           !.previousFreed = @ \/ li.previous = n]

\* Mutant: the new head still points back.
UnlinkHead_pointer_kept ==
  LET next == heap[head].next IN
    /\ head' = next
    /\ IF next = NULL
         THEN tail' = NULL /\ list_delnode(head, heap)
         ELSE UNCHANGED tail /\ list_delnode(head, heap)

\* Unlinking the first and the last node.
UnlinkHead ==
  LET next == heap[head].next IN
    /\ head' = next
    /\ IF next = NULL
         THEN tail' = NULL /\ list_delnode(head, heap)
         ELSE UNCHANGED tail /\ list_delnode(head, [heap EXCEPT ![next].previous = NULL])

UnlinkTail ==
  LET previous == heap[tail].previous IN
    /\ tail' = previous
    /\ IF previous = NULL
         THEN head' = NULL /\ list_delnode(tail, heap)
         ELSE UNCHANGED head /\ list_delnode(tail, [heap EXCEPT ![previous].next = NULL])

list_shift ==
  /\ Ready
  /\ IF head = NULL THEN result' = NULL /\ UNCHANGED <<list, li>>
     ELSE result' = heap[head].element /\ UnlinkHead /\ UNCHANGED exists
  /\ UNCHANGED call

\* Mutant: the element is read from the freed node.
list_pop_read_after_free ==
  /\ Ready
  /\ IF tail = NULL THEN result' = NULL /\ UNCHANGED <<list, li>>
     ELSE UnlinkTail /\ result' = heap'[tail].element /\ UNCHANGED exists
  /\ UNCHANGED call

list_pop ==
  /\ Ready
  /\ IF tail = NULL THEN result' = NULL /\ UNCHANGED <<list, li>>
     ELSE result' = heap[tail].element /\ UnlinkTail /\ UNCHANGED exists
  /\ UNCHANGED call

\* list_remove: the empty list, the head, or the start of the scan.
list_remove(element) ==
  /\ Ready /\ element # NULL
  /\ \/ /\ head = NULL
        /\ result' = "EADDRNOTAVAIL"
        /\ UNCHANGED <<list, li, call>>
     \/ /\ head # NULL /\ heap[head].element = element
        /\ UnlinkHead
        /\ result' = "ok"
        /\ UNCHANGED <<exists, call>>
     \/ /\ head # NULL /\ heap[head].element # element
        /\ pc' = "scan" /\ np' = head /\ sought' = element
        /\ UNCHANGED <<list, li, result>>

ScanNext ==
  /\ pc = "scan" /\ np # NULL /\ heap[np].element # sought
  /\ np' = heap[np].next
  /\ UNCHANGED <<list, li, pc, sought, result>>

ScanDone(status) ==
  pc' = "idle" /\ np' = NULL /\ sought' = NULL /\ result' = status

ScanFails ==
  /\ pc = "scan" /\ np = NULL
  /\ ScanDone("EADDRNOTAVAIL")
  /\ UNCHANGED <<list, li>>

\* Mutant: the node before is linked to itself, not past the removed one.
ScanUnlinks_self_link ==
  /\ pc = "scan" /\ np # NULL /\ heap[np].element = sought
  /\ LET next == heap[np].next
         previous == heap[np].previous
         bypassed == [heap EXCEPT ![previous].next = previous]
     IN  IF next = NULL
           THEN tail' = previous /\ list_delnode(np, bypassed)
           ELSE /\ UNCHANGED tail
                /\ list_delnode(np, [bypassed EXCEPT ![next].previous = previous])
  /\ ScanDone("ok")
  /\ UNCHANGED <<exists, head>>

ScanUnlinks ==
  /\ pc = "scan" /\ np # NULL /\ heap[np].element = sought
  /\ LET next == heap[np].next
         previous == heap[np].previous
         bypassed == [heap EXCEPT ![previous].next = next]
     IN  IF next = NULL
           THEN tail' = previous /\ list_delnode(np, bypassed)
           ELSE /\ UNCHANGED tail
                /\ list_delnode(np, [bypassed EXCEPT ![next].previous = previous])
  /\ ScanDone("ok")
  /\ UNCHANGED <<exists, head>>

\* list_free: a loop of list_pop until one returns NULL, then free(list).
list_free ==
  /\ Ready /\ li = NULL
  /\ pc' = "free" /\ result' = "ok"
  /\ UNCHANGED <<list, li, np, sought>>

FreePops ==
  /\ pc = "free" /\ NULL \notin {tail, result}
  /\ result' = heap[tail].element
  /\ UnlinkTail
  /\ UNCHANGED <<exists, call>>

FreeEnds ==
  /\ pc = "free" /\ NULL \in {tail, result}
  /\ exists' = FALSE /\ head' = NULL /\ tail' = NULL /\ nelement' = 0
  /\ pc' = "idle" /\ result' = "ok"
  /\ UNCHANGED <<heap, live, li, np, sought>>
-----------------------------------------------------------------------------
\* list_iterator_init ends in the same reset.
list_iterator_reset ==
  /\ Ready
  /\ li' = [next |-> head, previous |-> tail, nextFreed |-> FALSE,
            previousFreed |-> FALSE, moved |-> FALSE]
  /\ result' = "ok"
  /\ UNCHANGED <<list, call>>

list_iterator_free ==
  /\ pc = "idle"
  /\ li' = NULL /\ result' = "ok"
  /\ UNCHANGED <<list, call>>

\* Mutant: previous stays behind.
list_iterator_next_previous_kept ==
  /\ Ready /\ li # NULL /\ ~li.nextFreed
  /\ IF li.next = NULL THEN result' = NULL /\ UNCHANGED li
     ELSE /\ result' = heap[li.next].element
          /\ li' = [li EXCEPT !.next = heap[li.next].next,
                              !.nextFreed = FALSE, !.moved = TRUE]
  /\ UNCHANGED <<list, call>>

list_iterator_next ==
  /\ Ready /\ li # NULL /\ ~li.nextFreed
  /\ IF li.next = NULL THEN result' = NULL /\ UNCHANGED li
     ELSE /\ result' = heap[li.next].element
          /\ li' = [next |-> heap[li.next].next, previous |-> li.next,
                    nextFreed |-> FALSE, previousFreed |-> FALSE, moved |-> TRUE]
  /\ UNCHANGED <<list, call>>

list_iterator_previous ==
  /\ Ready /\ li # NULL /\ ~li.previousFreed
  /\ IF li.previous = NULL THEN result' = NULL /\ UNCHANGED li
     ELSE /\ result' = heap[li.previous].element
          /\ li' = [next |-> li.previous, previous |-> heap[li.previous].previous,
                    nextFreed |-> FALSE, previousFreed |-> FALSE, moved |-> TRUE]
  /\ UNCHANGED <<list, call>>
-----------------------------------------------------------------------------
Call ==
  \/ list_init \/ Refuse \/ NoMemory \/ list_shift \/ list_pop \/ list_free
  \/ \E element \in Element \cup {NULL} :
       list_prepend(element) \/ list_append(element) \/ list_remove(element)
  \/ list_iterator_reset \/ list_iterator_free
  \/ list_iterator_next \/ list_iterator_previous

Step == ScanNext \/ ScanFails \/ ScanUnlinks \/ FreePops \/ FreeEnds

Next == Call \/ Step
Spec == Init /\ [][Next]_vars
\* The loop of a call that has started keeps running; nobody has to call.
FairSpec == Spec /\ WF_vars(Step)
-----------------------------------------------------------------------------
(***************************************************************************)
(* Properties.                                                             *)
(***************************************************************************)
\* The nodes of a heap from one end along one pointer; one more than there
\* are nodes when the links form a cycle.
Trail(h, from, link) ==
  LET at[k \in 0 .. Cardinality(Node)] ==
        IF k = 0 THEN from
        ELSE IF at[k - 1] = NULL THEN NULL ELSE h[at[k - 1]][link]
  IN  at

Follow(h, from, link) ==
  LET at == Trail(h, from, link)
      steps == {k \in 0 .. Cardinality(Node) : at[k] # NULL}
  IN  [i \in 1 .. Cardinality(steps) |-> at[i - 1]]

Forward == Follow(heap, head, "next")
Backward == Follow(heap, tail, "previous")

\* Read from either end the list is the same nodes, once each: exactly the
\* nodes allocated and not freed, as many as nelement says. So no unlinking
\* leaks a node, forms a cycle or keeps a freed node reachable.
TwoEnds ==
  /\ Len(Forward) = Len(Backward)
  /\ \A i \in DOMAIN Forward : Forward[i] = Backward[Len(Forward) + 1 - i]
  /\ {Forward[i] : i \in DOMAIN Forward} = live
  /\ Cardinality(live) = Len(Forward)
  /\ nelement = Len(Forward)

\* However the list was changed since, an iterator on its way never has
\* an element between its two pointers: turning round skips nothing.
IteratorGap ==
  li # NULL /\ pc = "idle" =>
    LET ahead == li.next # NULL /\ ~li.nextFreed
        behind == li.previous # NULL /\ ~li.previousFreed
    IN  /\ ahead => li.next \in live
        /\ behind => li.previous \in live
        /\ li.moved /\ ahead /\ behind => heap[li.previous].next = li.next

\* The scan of list_remove and the loop of list_free end.
CallsReturn == pc # "idle" ~> pc = "idle"

\* The list implements the sequence of list.h. A node pointer of the
\* iterator stands for the position of its node.
Position(p, freed) ==
  IF freed THEN -1
  ELSE IF p = NULL THEN 0 ELSE CHOOSE i \in DOMAIN Forward : Forward[i] = p

Open == exists /\ pc # "free"
Items == IF pc = "free" THEN <<>>
         ELSE [i \in DOMAIN Forward |-> heap[Forward[i]].element]
Places == IF li = NULL THEN NULL
          ELSE [next |-> Position(li.next, li.nextFreed),
                previous |-> Position(li.previous, li.previousFreed)]
Answer == IF pc = "free" THEN "ok" ELSE result

Promise == INSTANCE Deque WITH
  open <- Open, items <- Items, cursor <- Places, result <- Answer

ImplementsDeque == Promise!Spec
=============================================================================
