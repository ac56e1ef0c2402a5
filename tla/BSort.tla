-------------------------------- MODULE BSort --------------------------------
(***************************************************************************)
(* The sorts of sort.c, on one array: the bucket sort, its continuation    *)
(* bsort_partial when more elements are behind the sorted ones, and the    *)
(* sort of odd before even numbers.                                        *)
(*                                                                         *)
(* A pointer into the array is an index; the end of the array is N.        *)
(***************************************************************************)
EXTENDS Integers, Functions

CONSTANTS
  N,               \* the length of the client's array
  Element,
  Odd,             \* the elements that are odd
  nbucket,
  categorizer(_),
  NULL

Index == 0 .. N - 1
Bucket == 0 .. nbucket - 1

ASSUME SizeAssumption == N \in Nat /\ nbucket \in Nat \ {0}
ASSUME CategorizerAssumption == \A e \in Element : categorizer(e) \in Bucket
ASSUME OddAssumption == Odd \subseteq Element

VARIABLES
  a,            \* the client's array
  buckets,      \* the client's array of pointers to where each category starts
  ready,        \* buckets describes the first elements, as many, or NULL
  nmemb,        \* argument of the running call
  pc,           \* the loop the running call is in
  p,            \* the element it looks at (i in sort_odd_even)
  last_bucket,  \* the highest category seen by bsort_first_unsorted_element
  bucket, i,    \* the category of the element to place and of the inner loop
  slot,         \* where that element is (first_even in sort_odd_even)
  original      \* history: the array before any call

arrays == <<a, buckets, ready>>
locals == <<p, last_bucket, bucket, i, slot>>
vars == <<arrays, nmemb, pc, locals, original>>

category(k) == categorizer(a[k])

\* Mutant: the second element is not written.
swap_copies(k, l) == [a EXCEPT ![k] = a[l]]

swap(k, l) == [a EXCEPT ![k] = a[l], ![l] = a[k]]

Init ==
  /\ a \in [Index -> Element] /\ original = a
  /\ buckets = [j \in Bucket |-> 0] /\ ready = NULL
  /\ nmemb = 0 /\ pc = "idle"
  /\ p = 0 /\ last_bucket = 0 /\ bucket = 0 /\ i = 0 /\ slot = 0

\* bsort calls bsort_first_unsorted_element on the whole.
bsort(m) ==
  /\ pc = "idle"
  /\ pc' = "scan" /\ nmemb' = m /\ p' = 0 /\ last_bucket' = 0
  /\ buckets' = [buckets EXCEPT ![0] = 0]
  /\ ready' = NULL
  /\ UNCHANGED <<a, bucket, i, slot, original>>

\* The categories passed over since the last element start here.
Scan ==
  /\ pc = "scan" /\ p < nmemb /\ category(p) >= last_bucket
  /\ buckets' = [j \in Bucket |-> IF last_bucket < j /\ j <= category(p) THEN p ELSE buckets[j]]
  /\ last_bucket' = category(p)
  /\ p' = p + 1
  /\ UNCHANGED <<a, ready, nmemb, pc, bucket, i, slot, original>>

\* The first unsorted element, or the end: the other categories are empty.
ScanEnds ==
  /\ pc = "scan" /\ (p = nmemb \/ (p < nmemb /\ category(p) < last_bucket))
  /\ buckets' = [j \in Bucket |-> IF last_bucket < j THEN p ELSE buckets[j]]
  /\ pc' = "place"
  /\ UNCHANGED <<a, ready, nmemb, p, last_bucket, bucket, i, slot, original>>

\* The client may only continue where buckets describes what comes before.
bsort_partial(m) ==
  /\ pc = "idle" /\ ready # NULL /\ m >= ready
  /\ pc' = "place" /\ nmemb' = m /\ p' = ready /\ ready' = NULL
  /\ UNCHANGED <<a, buckets, last_bucket, bucket, i, slot, original>>

\* Mutant: p <= nmemb.
Place_beyond_end ==
  /\ pc = "place" /\ p <= nmemb /\ p < N
  /\ bucket' = category(p) /\ slot' = p /\ i' = nbucket - 1
  /\ pc' = "move"
  /\ UNCHANGED <<arrays, nmemb, p, last_bucket, original>>

Place ==
  /\ pc = "place" /\ p < nmemb
  /\ bucket' = category(p) /\ slot' = p /\ i' = nbucket - 1
  /\ pc' = "move"
  /\ UNCHANGED <<arrays, nmemb, p, last_bucket, original>>

\* Mutant: the element stays where it was looked up.
Move_slot_kept ==
  /\ pc = "move" /\ i > bucket
  /\ a' = swap(buckets[i], slot)
  /\ buckets' = [buckets EXCEPT ![i] = @ + 1]
  /\ i' = i - 1
  /\ UNCHANGED <<ready, nmemb, pc, p, last_bucket, bucket, slot, original>>

\* The element changes places with the first of category i, which has to
\* move up by one to make room below it.
Move ==
  /\ pc = "move" /\ i > bucket
  /\ a' = IF slot # buckets[i] THEN swap(buckets[i], slot) ELSE a
  /\ slot' = buckets[i]
  /\ buckets' = [buckets EXCEPT ![i] = @ + 1]
  /\ i' = i - 1
  /\ UNCHANGED <<ready, nmemb, pc, p, last_bucket, bucket, original>>

Placed ==
  /\ pc = "move" /\ ~(i > bucket)
  /\ pc' = "place" /\ p' = p + 1
  /\ UNCHANGED <<arrays, nmemb, last_bucket, bucket, i, slot, original>>

Return ==
  /\ pc = "place" /\ ~(p < nmemb)
  /\ pc' = "idle" /\ ready' = nmemb
  /\ UNCHANGED <<a, buckets, nmemb, locals, original>>

sort_odd_even(m) ==
  /\ pc = "idle"
  /\ pc' = "find" /\ nmemb' = m /\ p' = 0 /\ ready' = NULL
  /\ UNCHANGED <<a, buckets, last_bucket, bucket, i, slot, original>>

\* If there is no even number, first_even stays unset and unused.
FindEven ==
  /\ pc = "find"
  /\ \/ /\ p < nmemb /\ a[p] \in Odd
        /\ p' = p + 1
        /\ UNCHANGED <<pc, slot>>
     \/ /\ p < nmemb /\ a[p] \notin Odd
        /\ slot' = p /\ pc' = "odds"
        /\ UNCHANGED p
     \/ /\ p = nmemb
        /\ slot' = p /\ pc' = "odds"
        /\ UNCHANGED p
  /\ UNCHANGED <<arrays, nmemb, last_bucket, bucket, i, original>>

\* Mutant: first_even is not moved on.
SwapOdd_first_even_kept ==
  /\ pc = "odds" /\ p < nmemb
  /\ a' = IF a[p] \in Odd THEN swap(slot, p) ELSE a
  /\ p' = p + 1
  /\ UNCHANGED <<buckets, ready, nmemb, pc, slot, last_bucket, bucket, i, original>>

SwapOdd ==
  /\ pc = "odds" /\ p < nmemb
  /\ IF a[p] \in Odd THEN a' = swap(slot, p) /\ slot' = slot + 1 ELSE UNCHANGED <<a, slot>>
  /\ p' = p + 1
  /\ UNCHANGED <<buckets, ready, nmemb, pc, last_bucket, bucket, i, original>>

ReturnOdd ==
  /\ pc = "odds" /\ p = nmemb
  /\ pc' = "idle"
  /\ UNCHANGED <<arrays, nmemb, locals, original>>

Next ==
  \/ \E m \in 0 .. N : bsort(m) \/ bsort_partial(m) \/ sort_odd_even(m)
  \/ Scan \/ ScanEnds \/ Place \/ Move \/ Placed \/ Return
  \/ FindEven \/ SwapOdd \/ ReturnOdd

Spec == Init /\ [][Next]_vars
-----------------------------------------------------------------------------
(***************************************************************************)
(* Properties.                                                             *)
(***************************************************************************)
\* Types of all variables: every index stays within the array, or at its end.
TypeOK ==
  /\ a \in [Index -> Element] /\ original \in [Index -> Element]
  /\ buckets \in [Bucket -> 0 .. N] /\ ready \in {NULL} \cup 0 .. N
  /\ nmemb \in 0 .. N /\ pc \in {"idle", "scan", "place", "move", "find", "odds"}
  /\ p \in 0 .. N /\ last_bucket \in Bucket
  /\ bucket \in Bucket /\ i \in Bucket /\ slot \in 0 .. N

\* sort.h of bsort: afterwards buckets points to the first element of each
\* category, an empty one to that of the next or to the end. So the elements
\* before it are those of lower categories, and the array is sorted: after
\* bsort, and after any number of continuations by bsort_partial.
BucketsDescribe(n) ==
  \A j \in Bucket : /\ buckets[j] <= n
                    /\ \A k \in 0 .. n - 1 : k < buckets[j] <=> category(k) < j
Sorted == ready # NULL => BucketsDescribe(ready)

\* At every moment the array holds what the client put into it.
Permutation == Bijection(Index, Index)
Permuted == \E f \in Permutation : \A k \in Index : a[k] = original[f[k]]

\* No call touches an element behind the nmemb it was given.
StaysInside == [][\A k \in Index : k >= nmemb' => a'[k] = a[k]]_vars

\* sort_odd_even keeps the odd numbers before the even ones, as far as it has
\* come; when it returns that is the whole.
OddFirst ==
  pc = "odds" => \A k, l \in 0 .. p - 1 : k < l /\ a[l] \in Odd => a[k] \in Odd
=============================================================================
