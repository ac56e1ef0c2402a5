----------------------------- MODULE BSortProof ------------------------------
(***************************************************************************)
(* Proofs about BSort, for every length of the array, number of buckets    *)
(* and categorizer: both sorts leave a sorted permutation of the input.    *)
(***************************************************************************)
EXTENDS BSort, TLAPS

\* bsort_first_unsorted_element at p: the boundaries up to the last category
\* seen are right, and no later category was seen.
Scanning ==
  pc = "scan" =>
    /\ p <= nmemb
    /\ \A j \in 0 .. last_bucket :
         buckets[j] <= p /\ \A k \in 0 .. p - 1 : k < buckets[j] <=> category(k) < j
    /\ \A k \in 0 .. p - 1 : category(k) <= last_bucket

Placing == pc = "place" => p <= nmemb /\ BucketsDescribe(p)

\* The inner loop of bsort_partial: the categories above i have moved up and
\* so include the element in hand, those up to i describe the others.
Moving ==
  pc = "move" =>
    /\ p < nmemb /\ slot <= p /\ bucket <= i /\ category(slot) = bucket
    /\ \A j \in i + 1 .. nbucket - 1 :
         buckets[j] <= p + 1 /\ \A k \in 0 .. p : k < buckets[j] <=> category(k) < j
    /\ \A j \in 0 .. i :
         buckets[j] <= slot /\ \A k \in (0 .. p) \ {slot} : k < buckets[j] <=> category(k) < j

\* sort_odd_even: odd numbers up to the first even one, even ones up to p.
Finding == pc = "find" => p <= nmemb /\ \A k \in 0 .. p - 1 : a[k] \in Odd
Odds ==
  pc = "odds" =>
    /\ p <= nmemb /\ slot <= p
    /\ \A k \in 0 .. slot - 1 : a[k] \in Odd
    /\ \A k \in slot .. p - 1 : a[k] \notin Odd

\* Boundaries are only trusted between calls.
ReadyWhenIdle == ready # NULL => pc = "idle"

\* The inductive invariant, without Permuted, which follows from it.
IInv == TypeOK /\ ReadyWhenIdle /\ Sorted /\ Scanning /\ Placing /\ Moving /\ Finding /\ Odds

LEMMA InitIInv == Init => IInv
<1> SUFFICES ASSUME Init PROVE IInv
  OBVIOUS
<1>1. TypeOK
  BY SizeAssumption DEF Init, TypeOK, Index, Bucket
<1> QED
  BY <1>1 DEF Init, IInv, ReadyWhenIdle, Sorted, Scanning, Placing, Moving, Finding, Odds

\* The category of an element of the array is a bucket.
LEMMA Category ==
  ASSUME TypeOK
  PROVE  \A k \in Index : a[k] \in Element /\ category(k) \in 0 .. nbucket - 1
  BY CategorizerAssumption DEF TypeOK, category, Bucket

\* An exchange writes the array at two places, the same one or two.
LEMMA Swapped ==
  ASSUME TypeOK, NEW k \in Index, NEW l \in Index, NEW b, b = swap(k, l)
  PROVE  /\ b \in [Index -> Element]
         /\ \A m \in Index : b[m] = IF m = k THEN a[l] ELSE IF m = l THEN a[k] ELSE a[m]
  BY DEF TypeOK, swap

LEMMA bsortStep == ASSUME IInv, NEW m \in 0 .. N, bsort(m) PROVE IInv'
<1> USE SizeAssumption DEF IInv, bsort
<1>1. TypeOK'
  BY DEF TypeOK, Bucket
<1>2. Scanning'
  BY DEF TypeOK, Bucket, Scanning
<1> QED
  BY <1>1, <1>2 DEF ReadyWhenIdle, Sorted, Placing, Moving, Finding, Odds

LEMMA ScanStep == ASSUME IInv, Scan PROVE IInv'
<1> USE SizeAssumption DEF IInv, Scan
<1>1. p \in Index /\ category(p) \in 0 .. nbucket - 1
  BY Category DEF TypeOK, Index
<1>2. TypeOK'
  BY <1>1 DEF TypeOK, Bucket
<1>3. Scanning'
  <2>1. p' <= nmemb'
    BY DEF TypeOK
  <2>2. ASSUME NEW j \in 0 .. last_bucket'
        PROVE  buckets'[j] <= p' /\ \A k \in 0 .. p' - 1 : k < buckets'[j] <=> category(k)' < j
    <3>1. j \in Bucket /\ buckets'[j] = IF last_bucket < j THEN p ELSE buckets[j]
      BY <1>1 DEF Bucket, TypeOK
    <3>2. \A k \in 0 .. p - 1 : category(k) \in Nat /\ category(k) <= last_bucket
      BY Category DEF TypeOK, Index, Scanning
    <3>3. \A k \in 0 .. p : category(k)' = category(k)
      BY DEF category
    <3>4. buckets'[j] \in 0 .. p /\ (p < buckets'[j] <=> category(p) < j)
      BY <1>1, <3>1 DEF TypeOK, Bucket, Scanning
    <3>5. ASSUME NEW k \in 0 .. p - 1 PROVE k < buckets'[j] <=> category(k) < j
      <4>1. CASE last_bucket < j
        BY <1>1, <3>1, <3>2, <4>1 DEF TypeOK, Bucket
      <4>2. CASE ~(last_bucket < j)
        <5>1. j \in 0 .. last_bucket
          BY <4>2 DEF TypeOK, Bucket
        <5> QED BY <3>1, <4>2, <5>1 DEF Scanning
      <4> QED BY <4>1, <4>2
    <3>6. \A k \in 0 .. p : k < buckets'[j] <=> category(k) < j
      BY <3>4, <3>5 DEF TypeOK
    <3> QED BY <3>3, <3>4, <3>6 DEF TypeOK
  <2>3. \A k \in 0 .. p' - 1 : category(k)' <= last_bucket'
    <3>1. \A k \in 0 .. p - 1 : category(k) \in Nat /\ category(k) <= last_bucket
      BY Category DEF TypeOK, Index, Scanning
    <3>2. \A k \in 0 .. p : category(k)' = category(k)
      BY DEF category
    <3> QED BY <1>1, <3>1, <3>2 DEF TypeOK, Bucket
  <2> QED BY <2>1, <2>2, <2>3 DEF Scanning
<1> QED
  BY <1>2, <1>3 DEF ReadyWhenIdle, Sorted, Placing, Moving, Finding, Odds

LEMMA ScanEndsStep == ASSUME IInv, ScanEnds PROVE IInv'
<1> USE SizeAssumption DEF IInv, ScanEnds
<1>1. TypeOK'
  BY DEF TypeOK, Bucket
<1>2. Placing'
  <2>1. ASSUME NEW j \in Bucket
        PROVE  buckets'[j] <= p /\ \A k \in 0 .. p - 1 : k < buckets'[j] <=> category(k)' < j
    <3>1. \A k \in 0 .. p - 1 : category(k)' = category(k) /\ category(k) \in Nat /\ category(k) <= last_bucket
      BY Category DEF TypeOK, Index, category, Scanning
    <3>2. CASE last_bucket < j
      BY <3>1, <3>2 DEF TypeOK, Bucket
    <3>3. CASE ~(last_bucket < j)
      <4>1. j \in 0 .. last_bucket
        BY <3>3 DEF TypeOK, Bucket
      <4>2. buckets'[j] = buckets[j]
        BY <3>3
      <4> QED BY <3>1, <4>1, <4>2 DEF Scanning
    <3> QED BY <3>2, <3>3
  <2>2. p' = p /\ nmemb' = nmemb /\ p <= nmemb
    BY DEF Scanning
  <2> QED BY <2>1, <2>2 DEF Placing, BucketsDescribe, category
<1> QED
  BY <1>1, <1>2 DEF ReadyWhenIdle, Sorted, Scanning, Moving, Finding, Odds

LEMMA bsort_partialStep == ASSUME IInv, NEW m \in 0 .. N, bsort_partial(m) PROVE IInv'
<1> USE DEF IInv, bsort_partial
<1>1. TypeOK'
  BY DEF TypeOK
<1>2. Placing'
  BY DEF TypeOK, Sorted, Placing, BucketsDescribe, category
<1> QED
  BY <1>1, <1>2 DEF ReadyWhenIdle, Sorted, Scanning, Moving, Finding, Odds

LEMMA PlaceStep == ASSUME IInv, Place PROVE IInv'
<1> USE SizeAssumption DEF IInv, Place, arrays
<1>1. p \in Index /\ category(p) \in 0 .. nbucket - 1
  BY Category DEF TypeOK, Index
<1>2. TypeOK'
  BY <1>1 DEF TypeOK, Bucket
<1>3. Moving'
  <2>1. p' = p /\ slot' = p /\ p < nmemb /\ bucket' = category(p) /\ i' = nbucket - 1
    OBVIOUS
  <2>2. \A k \in 0 .. p : category(k)' = category(k)
    BY DEF category
  <2>3. \A j \in Bucket : buckets'[j] <= p /\ \A k \in 0 .. p - 1 : k < buckets'[j] <=> category(k) < j
    BY DEF Placing, BucketsDescribe
  <2>4. (0 .. p) \ {p} = 0 .. p - 1
    BY DEF TypeOK
  <2> QED BY <1>1, <2>1, <2>2, <2>3, <2>4 DEF Moving, TypeOK, Bucket
<1> QED
  BY <1>2, <1>3 DEF ReadyWhenIdle, Sorted, Scanning, Placing, Finding, Odds

LEMMA PlacedStep == ASSUME IInv, Placed PROVE IInv'
<1> USE SizeAssumption DEF IInv, Placed, arrays
<1>1. TypeOK'
  BY DEF TypeOK, Moving
<1>2. Placing'
  <2>1. p' = p + 1 /\ p + 1 <= nmemb /\ nmemb' = nmemb /\ i = bucket /\ p \in Nat /\ slot \in 0 .. p
    BY DEF TypeOK, Moving, Bucket
  <2>2. ASSUME NEW j \in Bucket
        PROVE  buckets[j] <= p + 1 /\ \A k \in 0 .. p : k < buckets[j] <=> category(k) < j
    <3>1. CASE j \in i + 1 .. nbucket - 1
      BY <3>1 DEF Moving
    <3>2. CASE j \in 0 .. i
      <4>1. buckets[j] \in Nat /\ buckets[j] <= slot /\ ~(category(slot) < j)
        BY <2>1, <3>2 DEF Moving, TypeOK, Bucket
      <4> QED BY <2>1, <3>2, <4>1 DEF Moving
    <3> QED BY <3>1, <3>2 DEF TypeOK, Bucket
  <2> QED BY <2>1, <2>2 DEF Placing, BucketsDescribe, category
<1> QED
  BY <1>1, <1>2 DEF ReadyWhenIdle, Sorted, Scanning, Moving, Finding, Odds

LEMMA ReturnStep == ASSUME IInv, Return PROVE IInv'
<1> USE DEF IInv, Return
<1>1. TypeOK' /\ nmemb = p
  BY DEF TypeOK, Placing, locals
<1>2. Sorted'
  BY <1>1 DEF Sorted, Placing, BucketsDescribe, category
<1> QED
  BY <1>1, <1>2 DEF ReadyWhenIdle, Scanning, Placing, Moving, Finding, Odds

\* One exchange of bsort_partial. It moves the first element of category i, at
\* x, behind the others of its category, and the element in hand, at q, there.
LEMMA MoveStep == ASSUME IInv, Move PROVE IInv'
<1> USE SizeAssumption DEF IInv, Move
<1>1. PICK x \in 0 .. N, q \in 0 .. N : x = buckets[i] /\ q = slot
  BY DEF TypeOK
<1>2. /\ i \in 1 .. nbucket - 1 /\ bucket \in Nat /\ bucket < i /\ i' = i - 1 /\ slot' = x /\ p' = p
      /\ buckets \in [Bucket -> 0 .. N] /\ buckets' = [buckets EXCEPT ![i] = x + 1]
      /\ p \in Nat /\ p < nmemb /\ nmemb \in 0 .. N /\ x <= q /\ q <= p
      /\ bucket' = bucket /\ nmemb' = nmemb
  BY <1>1 DEF TypeOK, Moving, Bucket
<1>3. 0 .. p \subseteq Index /\ x \in Index /\ q \in Index
  BY <1>2 DEF Index
<1>4. /\ a' \in [Index -> Element]
      /\ \A m \in Index : a'[m] = IF m = x THEN a[q] ELSE IF m = q THEN a[x] ELSE a[m]
  <2>1. CASE slot # buckets[i]
    BY <1>1, <1>3, <2>1, Swapped
  <2>2. CASE slot = buckets[i]
    BY <1>1, <1>3, <2>2 DEF TypeOK
  <2> QED BY <2>1, <2>2
<1>5. TypeOK'
  BY <1>2, <1>4 DEF TypeOK, Bucket
<1>6. /\ category(x)' = bucket
      /\ q # x => category(q)' = category(x)
      /\ \A m \in Index \ {x, q} : category(m)' = category(m)
      /\ category(q) = bucket
  BY <1>1, <1>3, <1>4 DEF category, Moving
<1>7. \A m \in Index : category(m) \in Nat
  BY Category
<1>8. \A k \in (0 .. p) \ {q} : k < x <=> category(k) < i
  BY <1>1, <1>2 DEF Moving
<1>9. ASSUME NEW j \in i .. nbucket - 1
      PROVE  buckets'[j] <= p + 1 /\ \A k \in 0 .. p : k < buckets'[j] <=> category(k)' < j
  <2>1. CASE j = i
    <3>1. buckets'[j] = x + 1
      BY <1>2, <2>1 DEF Bucket
    <3>2. ASSUME NEW k \in 0 .. p PROVE k < x + 1 <=> category(k)' < i
      <4>1. CASE k = x
        BY <1>2, <1>6, <4>1
      <4>2. CASE k = q /\ k # x
        <5>1. ~(category(x) < i)
          BY <1>2, <1>8, <4>2
        <5> QED BY <1>2, <1>6, <4>2, <5>1
      <4>3. CASE k # q /\ k # x
        BY <1>2, <1>3, <1>6, <1>8, <4>3
      <4> QED BY <4>1, <4>2, <4>3
    <3> QED BY <1>2, <2>1, <3>1, <3>2
  <2>2. CASE j \in i + 1 .. nbucket - 1
    <3>1. buckets'[j] = buckets[j] /\ buckets[j] \in Nat /\ buckets[j] <= p + 1
      BY <1>2, <2>2 DEF Bucket, Moving
    <3>2. \A k \in 0 .. p : k < buckets[j] <=> category(k) < j
      BY <2>2 DEF Moving
    <3>3. q < buckets[j] /\ x < buckets[j]
      BY <1>2, <1>6, <2>2, <3>1, <3>2
    <3>4. ASSUME NEW k \in 0 .. p PROVE k < buckets[j] <=> category(k)' < j
      <4>1. CASE k = x
        BY <1>2, <1>6, <2>2, <3>3, <4>1
      <4>2. CASE k = q /\ k # x
        BY <1>2, <1>6, <3>2, <3>3, <4>2
      <4>3. CASE k # q /\ k # x
        BY <1>3, <1>6, <3>2, <4>3
      <4> QED BY <4>1, <4>2, <4>3
    <3> QED BY <3>1, <3>4
  <2> QED BY <1>2, <2>1, <2>2
<1>10. ASSUME NEW j \in 0 .. i - 1
       PROVE  buckets'[j] <= x /\ \A k \in (0 .. p) \ {x} : k < buckets'[j] <=> category(k)' < j
  <2>1. buckets'[j] = buckets[j] /\ buckets[j] \in Nat
    BY <1>2 DEF Bucket
  <2>2. buckets[j] <= q /\ \A k \in (0 .. p) \ {q} : k < buckets[j] <=> category(k) < j
    BY <1>1, <1>2 DEF Moving
  <2>3. buckets[j] <= x
    \* Otherwise the element at x is of a category below j, so below i.
    <3>1. SUFFICES ASSUME x < buckets[j] PROVE FALSE
      BY <1>2, <2>1
    <3>2. x \in (0 .. p) \ {q}
      BY <1>2, <2>1, <2>2, <3>1
    <3> QED BY <1>2, <1>3, <1>7, <1>8, <2>2, <3>1, <3>2
  <2>4. ASSUME NEW k \in (0 .. p) \ {x} PROVE k < buckets[j] <=> category(k)' < j
    <3>1. CASE k = q
      <4>1. ~(category(x) < i) /\ category(q)' = category(x)
        BY <1>2, <1>6, <1>8, <3>1
      <4> QED BY <1>2, <1>3, <1>7, <2>1, <2>2, <3>1, <4>1
    <3>2. CASE k # q
      BY <1>3, <1>6, <2>2, <3>2
    <3> QED BY <3>1, <3>2
  <2> QED BY <2>1, <2>3, <2>4
<1>11. Moving'
  <2>1. p' < nmemb' /\ slot' <= p' /\ bucket' <= i'
    BY <1>2
  <2>2. category(slot)' = bucket'
    BY <1>2, <1>6 DEF category
  <2>3. i' + 1 = i /\ i' = i - 1
    BY <1>2
  <2> QED BY <1>2, <1>9, <1>10, <2>1, <2>2, <2>3 DEF Moving
<1> QED
  BY <1>5, <1>11 DEF ReadyWhenIdle, Sorted, Scanning, Placing, Finding, Odds

LEMMA sort_odd_evenStep == ASSUME IInv, NEW m \in 0 .. N, sort_odd_even(m) PROVE IInv'
<1> USE SizeAssumption DEF IInv, sort_odd_even
<1>1. TypeOK'
  BY DEF TypeOK
<1>2. Finding'
  BY DEF Finding
<1> QED
  BY <1>1, <1>2 DEF ReadyWhenIdle, Sorted, Scanning, Placing, Moving, Odds

LEMMA FindEvenStep == ASSUME IInv, FindEven PROVE IInv'
<1> USE SizeAssumption DEF IInv, FindEven, arrays
<1>1. TypeOK'
  BY DEF TypeOK
<1>2. Finding' /\ Odds'
  BY DEF TypeOK, Finding, Odds
<1> QED
  BY <1>1, <1>2 DEF ReadyWhenIdle, Sorted, Scanning, Placing, Moving

LEMMA SwapOddStep == ASSUME IInv, SwapOdd PROVE IInv'
<1> USE SizeAssumption DEF IInv, SwapOdd
<1>1. p \in Index /\ slot \in Index /\ slot <= p /\ p < nmemb /\ nmemb \in 0 .. N
  BY DEF TypeOK, Odds, Index
<1>2. CASE a[p] \in Odd
  <2>1. PICK q \in Index, r \in Index : q = slot /\ r = p
    BY <1>1
  <2>2. /\ a' \in [Index -> Element]
        /\ \A m \in Index : a'[m] = IF m = q THEN a[r] ELSE IF m = r THEN a[q] ELSE a[m]
    BY <1>2, <2>1, Swapped
  <2>3. TypeOK'
    BY <1>1, <1>2, <2>2 DEF TypeOK
  <2>4. Odds'
    <3>1. /\ p' = r + 1 /\ slot' = q + 1 /\ nmemb' = nmemb /\ q <= r /\ r < nmemb
          /\ \A k \in 0 .. q - 1 : a[k] \in Odd
          /\ \A k \in q .. r - 1 : a[k] \notin Odd
      BY <1>1, <1>2, <2>1 DEF Odds
    <3>2. \A k \in 0 .. q : a'[k] \in Odd
      BY <1>2, <2>1, <2>2, <3>1 DEF Index
    <3>3. \A k \in q + 1 .. r : a'[k] \notin Odd
      BY <1>2, <2>1, <2>2, <3>1 DEF Index
    <3> QED BY <2>1, <3>1, <3>2, <3>3, <1>1 DEF Odds, Index
  <2> QED BY <2>3, <2>4 DEF ReadyWhenIdle, Sorted, Scanning, Placing, Moving, Finding
<1>3. CASE a[p] \notin Odd
  <2>1. TypeOK'
    BY <1>1, <1>3 DEF TypeOK
  <2>2. Odds'
    BY <1>1, <1>3 DEF TypeOK, Odds
  <2> QED BY <2>1, <2>2 DEF ReadyWhenIdle, Sorted, Scanning, Placing, Moving, Finding
<1> QED BY <1>2, <1>3

LEMMA ReturnOddStep == ASSUME IInv, ReturnOdd PROVE IInv'
  BY DEF IInv, ReturnOdd, arrays, locals, TypeOK, ReadyWhenIdle, Sorted, BucketsDescribe,
         category, Scanning, Placing, Moving, Finding, Odds

LEMMA NextIInv == ASSUME IInv, [Next]_vars PROVE IInv'
<1>1. CASE UNCHANGED vars
  BY <1>1 DEF vars, arrays, locals, IInv, TypeOK, ReadyWhenIdle, Sorted, BucketsDescribe,
              category, Scanning, Placing, Moving, Finding, Odds
<1>2. CASE Next
  BY <1>2, bsortStep, ScanStep, ScanEndsStep, bsort_partialStep, PlaceStep, MoveStep,
     PlacedStep, ReturnStep, sort_odd_evenStep, FindEvenStep, SwapOddStep, ReturnOddStep
     DEF Next
<1> QED BY <1>1, <1>2

LEMMA SpecIInv == Spec => []IInv
  BY InitIInv, NextIInv, PTL DEF Spec

\* For every array: indices stay within it or at its end, whatever the client
\* calls, so no element in front of or behind the array is exchanged.
THEOREM SortTypes == Spec => []TypeOK
<1>1. IInv => TypeOK
  BY DEF IInv
<1> QED BY <1>1, SpecIInv, PTL

\* sort.h of bsort and bsort_partial, for every length, number of buckets and
\* categorizer: the result is sorted and the boundaries are where each
\* category starts.
THEOREM BucketsSorted == Spec => []Sorted
<1>1. IInv => Sorted
  BY DEF IInv
<1> QED BY <1>1, SpecIInv, PTL

\* sort.h of sort_odd_even: the odd numbers come first.
THEOREM OddNumbersFirst == Spec => []OddFirst
<1>1. ASSUME IInv PROVE OddFirst
  <2> SUFFICES ASSUME pc = "odds", NEW k \in 0 .. p - 1, NEW l \in 0 .. p - 1,
                      k < l, a[l] \in Odd
               PROVE  a[k] \in Odd
    BY DEF OddFirst
  <2>1. p \in Nat /\ slot \in Nat
    BY <1>1 DEF IInv, TypeOK
  <2>2. ~(slot <= l)
    BY <1>1, <2>1 DEF IInv, Odds
  <2> QED BY <1>1, <2>1, <2>2 DEF IInv, Odds
<1> QED BY <1>1, SpecIInv, PTL

\* No call reaches behind the elements it was given.
THEOREM CallsStayInside == Spec => StaysInside
<1> DEFINE Inside == \A k \in Index : k >= nmemb' => a'[k] = a[k]
<1>1. IInv /\ [Next]_vars => [Inside]_vars
  <2> SUFFICES ASSUME IInv, Next, NEW k \in Index, k >= nmemb' PROVE a'[k] = a[k]
    OBVIOUS
  <2> USE DEF IInv, arrays
  <2>1. CASE Move
    <3>1. /\ buckets[i] <= slot /\ slot <= p /\ p < nmemb /\ nmemb' = nmemb
          /\ buckets[i] \in 0 .. N /\ slot \in Index
      BY <2>1, SizeAssumption DEF Move, Moving, TypeOK, Bucket, Index
    <3>2. buckets[i] \in Index /\ k # buckets[i] /\ k # slot
      BY <3>1, SizeAssumption DEF TypeOK, Index
    <3> QED BY <2>1, <3>1, <3>2, Swapped DEF Move
  <2>2. CASE SwapOdd
    <3>1. slot \in Index /\ p \in Index /\ k # slot /\ k # p
      BY <2>2, SizeAssumption DEF SwapOdd, Odds, TypeOK, Index
    <3> QED BY <2>2, <3>1, Swapped DEF SwapOdd
  <2> QED
    BY <2>1, <2>2 DEF Next, bsort, Scan, ScanEnds, bsort_partial, Place, Placed, Return,
       sort_odd_even, FindEven, ReturnOdd
<1> QED BY <1>1, SpecIInv, PTL DEF Spec, StaysInside

\* An exchange of a permutation of the client's array is one, too.
LEMMA SwapPermutes ==
  ASSUME TypeOK, Permuted, NEW k \in Index, NEW l \in Index, a' = swap(k, l),
         original' = original
  PROVE  Permuted'
<1>1. PICK f \in Permutation : \A m \in Index : a[m] = original[f[m]]
  BY DEF Permuted
<1>2. /\ f \in [Index -> Index] /\ \A w \in Index : \E v \in Index : f[v] = w
      /\ \A v, w \in Index : f[v] = f[w] => v = w
  BY <1>1 DEF Permutation, Bijection, Injection, Surjection, IsInjective
<1> DEFINE g == [m \in Index |-> IF m = k THEN f[l] ELSE IF m = l THEN f[k] ELSE f[m]]
<1>3. g \in [Index -> Index]
  BY <1>2
<1>4. ASSUME NEW w \in Index PROVE \E v \in Index : g[v] = w
  <2>1. PICK v \in Index : f[v] = w
    BY <1>2
  <2>2. CASE v = k
    BY <2>1, <2>2
  <2>3. CASE v = l
    BY <2>1, <2>3
  <2>4. CASE v # k /\ v # l
    BY <2>1, <2>4
  <2> QED BY <2>2, <2>3, <2>4
<1>5. \A v, w \in Index : g[v] = g[w] => v = w
  BY <1>2
<1>6. g \in Permutation
  <2> HIDE DEF g
  <2> QED BY <1>3, <1>4, <1>5 DEF Permutation, Bijection, Injection, Surjection, IsInjective
<1>7. \A m \in Index : a'[m] = original'[g[m]]
  BY <1>1, Swapped
<1> QED BY <1>6, <1>7 DEF Permuted

\* No element is lost or doubled by the exchanges of any sort, at any moment.
THEOREM ArrayPermuted == Spec => []Permuted
<1>1. Init => Permuted
  <2> SUFFICES ASSUME Init PROVE Permuted
    OBVIOUS
  <2> DEFINE id == [k \in Index |-> k]
  <2>1. id \in Permutation
    BY DEF Permutation, Bijection, Injection, Surjection, IsInjective
  <2>2. \A k \in Index : a[k] = original[id[k]]
    BY DEF Init
  <2> QED BY <2>1, <2>2 DEF Permuted
<1>2. IInv /\ Permuted /\ [Next]_vars => Permuted'
  <2> SUFFICES ASSUME IInv, Permuted, [Next]_vars PROVE Permuted'
    OBVIOUS
  <2>1. CASE UNCHANGED <<a, original>>
    BY <2>1 DEF Permuted
  <2>2. CASE Move
    <3>1. buckets[i] \in Index /\ slot \in Index /\ original' = original
      BY <2>2, SizeAssumption DEF IInv, Move, Moving, TypeOK, Bucket, Index
    <3>2. a' = swap(buckets[i], slot) \/ a' = a
      BY <2>2 DEF Move
    <3> QED BY <2>1, <3>1, <3>2, SwapPermutes DEF IInv
  <2>3. CASE SwapOdd
    <3>1. slot \in Index /\ p \in Index /\ original' = original
      BY <2>3, SizeAssumption DEF IInv, SwapOdd, Odds, TypeOK, Index
    <3>2. a' = swap(slot, p) \/ a' = a
      BY <2>3 DEF SwapOdd
    <3> QED BY <2>1, <3>1, <3>2, SwapPermutes DEF IInv
  <2> QED
    BY <2>1, <2>2, <2>3 DEF vars, arrays, Next, bsort, Scan, ScanEnds, bsort_partial, Place,
       Placed, Return, sort_odd_even, FindEven, ReturnOdd
<1> QED BY <1>1, <1>2, SpecIInv, PTL DEF Spec
=============================================================================
