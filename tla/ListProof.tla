----------------------------- MODULE ListProof -----------------------------
(***************************************************************************)
(* Proofs about List, for any finite set of nodes and any elements.        *)
(***************************************************************************)
EXTENDS List, SequenceTheorems, FiniteSetTheorems, TLAPS

\* What is at place i of a sequence of nodes, NULL beyond its ends.
At(q, i) == IF i \in 1 .. Len(q) THEN q[i] ELSE NULL

Distinct(q) == \A i, j \in 1 .. Len(q) : q[i] = q[j] => i = j

\* The nodes of the list, head first: the links of a heap go from each to its
\* neighbours, and nothing else is allocated.
Links(h, q) ==
  \A i \in 1 .. Len(q) : /\ h[q[i]].next = At(q, i + 1)
                         /\ h[q[i]].previous = At(q, i - 1)
                         /\ h[q[i]].element \in Element

Chain(q) ==
  /\ q \in Seq(Node) /\ Distinct(q) /\ Links(heap, q)
  /\ head = At(q, 1) /\ tail = At(q, Len(q))
  /\ live = {q[i] : i \in 1 .. Len(q)}
  /\ nelement = Len(q)

-----------------------------------------------------------------------------
(***************************************************************************)
(* Reading a list from one end.                                            *)
(***************************************************************************)
\* A set of natural numbers has a least one, as their intervals from 1 have
\* under inclusion.
LEMMA LeastNatural ==
  ASSUME NEW T, T \subseteq Nat, T # {}
  PROVE  \E x \in T : \A y \in T : x <= y
<1> DEFINE below(n) == 1 .. n
           S == {below(n) : n \in T}
<1>1. IsWellFoundedOn(StrictSubsetOrdering(Nat), FiniteSubsetsOf(Nat))
  BY FS_StrictSubsetOrderingWellFounded
<1>2. S \subseteq FiniteSubsetsOf(Nat) /\ S # {}
  <2>1. \A n \in T : below(n) \subseteq Nat /\ IsFiniteSet(below(n))
    BY FS_Interval
  <2> QED BY <2>1 DEF FiniteSubsetsOf
<1>3. PICK s \in S : \A r \in S : <<r, s>> \notin StrictSubsetOrdering(Nat)
  <2> HIDE DEF S
  <2> QED BY <1>1, <1>2, WFMin
<1>4. PICK x \in T : s = below(x)
  OBVIOUS
<1>5. ASSUME NEW y \in T, y < x PROVE FALSE
  <2>1. <<below(y), below(x)>> \notin StrictSubsetOrdering(Nat)
    BY <1>3, <1>4
  <2>2. below(y) \subseteq below(x) /\ below(y) # below(x) /\ below(y) \subseteq Nat /\ below(x) \subseteq Nat
    <3>1. x \in below(x) /\ x \notin below(y) /\ x \in Nat /\ y \in Nat
      BY <1>5
    <3> QED BY <3>1, <1>5
  <2> QED BY <2>1, <2>2 DEF StrictSubsetOrdering
<1> QED BY <1>5

\* As many nodes as the list has are allocated, no more than there are.
LEMMA CountNodes ==
  ASSUME NEW q \in Seq(Node), Distinct(q)
  PROVE  /\ Cardinality(Node) \in Nat /\ Len(q) <= Cardinality(Node)
         /\ Cardinality({q[i] : i \in 1 .. Len(q)}) = Len(q)
<1> DEFINE S == {q[i] : i \in 1 .. Len(q)}
<1>1. S \subseteq Node /\ Len(q) \in Nat
  OBVIOUS
<1>2. q \in Bijection(1 .. Len(q), S)
  <2>1. q \in [1 .. Len(q) -> S]
    OBVIOUS
  <2>2. IsInjective(q)
    BY <2>1 DEF IsInjective, Distinct
  <2> QED BY <2>1, <2>2 DEF Bijection, Injection, Surjection
<1>3. IsFiniteSet(1 .. Len(q)) /\ Cardinality(1 .. Len(q)) = Len(q)
  BY <1>1, FS_Interval
<1>4. Cardinality(S) = Len(q)
  <2> HIDE DEF S
  <2> QED BY <1>2, <1>3, FS_Bijection DEF ExistsBijection
<1>5. Cardinality(S) <= Cardinality(Node) /\ Cardinality(Node) \in Nat
  BY <1>1, FS_Subset, FS_CardinalityType, NodeAssumption
<1> QED BY <1>4, <1>5

\* One round of Trail.
Round(h, from, link, at) ==
  [k \in 0 .. Cardinality(Node) |->
     IF k = 0 THEN from ELSE IF at[k - 1] = NULL THEN NULL ELSE h[at[k - 1]][link]]

LEMMA TrailRounds ==
  ASSUME NEW h, NEW from, NEW link, NEW g, g = Round(h, from, link, g)
  PROVE  Trail(h, from, link) = Round(h, from, link, Trail(h, from, link))
<1>1. Trail(h, from, link) = CHOOSE f : f = Round(h, from, link, f)
  BY DEF Trail, Round
<1> QED BY <1>1

\* Following the links from one end visits the sequence they link.
LEMMA Followed ==
  ASSUME NEW h, NEW q \in Seq(Node), Distinct(q), NEW from, NEW link, from = At(q, 1),
         \A i \in 1 .. Len(q) : h[q[i]][link] = At(q, i + 1)
  PROVE  Follow(h, from, link) = q
<1> DEFINE N == Cardinality(Node)
           at == Trail(h, from, link)
           g == [k \in 0 .. N |-> At(q, k + 1)]
<1>1. N \in Nat /\ Len(q) \in Nat /\ Len(q) <= N /\ NULL \notin Node
  <2>1. NULL \notin Node
    BY NullAssumption
  <2>2. Cardinality(Node) \in Nat /\ Len(q) <= Cardinality(Node)
    BY CountNodes
  <2> QED BY <2>1, <2>2
<1>2. \A i \in 1 .. Len(q) : q[i] \in Node /\ q[i] # NULL
  BY <1>1
<1> HIDE DEF N
<1>3. \A k \in 0 .. N : k > 0 =>
        g[k] = IF g[k - 1] = NULL THEN NULL ELSE h[g[k - 1]][link]
  <2> SUFFICES ASSUME NEW k \in 0 .. N, k > 0
               PROVE  g[k] = IF g[k - 1] = NULL THEN NULL ELSE h[g[k - 1]][link]
    OBVIOUS
  <2>1. k - 1 \in 0 .. N /\ g[k] = At(q, k + 1) /\ g[k - 1] = At(q, k)
    BY <1>1
  <2>2. CASE k \in 1 .. Len(q)
    BY <1>2, <2>1, <2>2 DEF At
  <2>3. CASE k \notin 1 .. Len(q)
    BY <1>1, <2>1, <2>3 DEF At
  <2> QED BY <2>2, <2>3
<1>4. g = Round(h, from, link, g)
  <2>1. g[0] = from
    BY <1>1
  <2> QED BY <1>1, <1>3, <2>1 DEF Round, N
<1>5. at = Round(h, from, link, at)
  BY <1>4, TrailRounds
<1> HIDE DEF at, g
<1>6. \A k \in 0 .. N : at[k] = g[k]
  <2> SUFFICES ASSUME NEW T, T = {k \in 0 .. N : at[k] # g[k]}, T # {} PROVE FALSE
    OBVIOUS
  <2>0. T \subseteq Nat
    BY <1>1
  <2>1. PICK x \in T : \A y \in T : x <= y
    BY <2>0, LeastNatural
  <2>2. x # 0
    BY <1>1, <1>4, <1>5 DEF Round, N
  <2>3. x - 1 \in 0 .. N /\ x - 1 \notin T
    BY <1>1, <2>1, <2>2
  <2>4. at[x - 1] = g[x - 1]
    BY <2>3
  <2>5. /\ at[x] = IF at[x - 1] = NULL THEN NULL ELSE h[at[x - 1]][link]
        /\ g[x] = IF g[x - 1] = NULL THEN NULL ELSE h[g[x - 1]][link]
    <3>1. x \in 0 .. N /\ x > 0
      BY <1>1, <2>1, <2>2
    <3>2. at[x] = IF at[x - 1] = NULL THEN NULL ELSE h[at[x - 1]][link]
      BY <1>1, <1>5, <3>1 DEF Round, N
    <3> QED BY <1>3, <3>1, <3>2
  <2> QED BY <2>1, <2>4, <2>5
<1>7. {k \in 0 .. N : at[k] # NULL} = 0 .. Len(q) - 1
  BY <1>1, <1>2, <1>6 DEF g, At
<1>8. Cardinality(0 .. Len(q) - 1) = Len(q)
  <2>1. Cardinality(0 .. Len(q) - 1) = IF 0 > Len(q) - 1 THEN 0 ELSE (Len(q) - 1) - 0 + 1
    <3>1. 0 \in Int /\ Len(q) - 1 \in Int
      BY <1>1
    <3> QED BY <3>1, FS_Interval
  <2> QED BY <1>1, <2>1
<1>9. Follow(h, from, link) = [i \in 1 .. Len(q) |-> at[i - 1]]
  BY <1>7, <1>8 DEF Follow, at, N
<1>10. \A i \in 1 .. Len(q) : at[i - 1] = q[i]
  BY <1>1, <1>6 DEF g, At
<1> QED BY <1>9, <1>10

LEMMA ForwardChain ==
  ASSUME NEW q, Chain(q)
  PROVE  Forward = q
BY Followed DEF Forward, Chain, Links

LEMMA ForwardChainNext ==
  ASSUME NEW q, Chain(q)'
  PROVE  Forward' = q
BY Followed DEF Forward, Chain, Links

LEMMA BackwardChain ==
  ASSUME NEW q, Chain(q)
  PROVE  Backward = [i \in 1 .. Len(q) |-> q[Len(q) + 1 - i]]
<1> DEFINE r == [i \in 1 .. Len(q) |-> q[Len(q) + 1 - i]]
<1>1. q \in Seq(Node) /\ Len(q) \in Nat
  BY DEF Chain
<1>2. r \in Seq(Node) /\ Len(r) = Len(q)
  BY <1>1
<1>3. Distinct(r)
  BY <1>1 DEF Distinct, Chain
<1>4. tail = At(r, 1)
  BY <1>1, <1>2 DEF Chain, At
<1>5. \A i \in 1 .. Len(r) : heap[r[i]].previous = At(r, i + 1)
  <2> SUFFICES ASSUME NEW i \in 1 .. Len(r) PROVE heap[r[i]].previous = At(r, i + 1)
    OBVIOUS
  <2>1. Len(q) + 1 - i \in 1 .. Len(q) /\ r[i] = q[Len(q) + 1 - i]
    BY <1>1, <1>2
  <2>2. heap[r[i]].previous = At(q, Len(q) - i)
    BY <1>1, <1>2, <2>1 DEF Chain, Links
  <2>3. At(q, Len(q) - i) = At(r, i + 1)
    BY <1>1, <1>2 DEF At
  <2> QED BY <2>2, <2>3
<1> HIDE DEF r
<1>6. Backward = r
  BY <1>2, <1>3, <1>4, <1>5, Followed DEF Backward
<1> QED BY <1>6 DEF r

LEMMA ChainTwoEnds ==
  ASSUME NEW q, Chain(q)
  PROVE  TwoEnds
<1>1. q \in Seq(Node) /\ Len(q) \in Nat /\ Distinct(q) /\ nelement = Len(q)
      /\ live = {q[i] : i \in 1 .. Len(q)}
  BY DEF Chain
<1>2. Forward = q /\ Backward = [i \in 1 .. Len(q) |-> q[Len(q) + 1 - i]]
  BY ForwardChain, BackwardChain
<1>3. Cardinality(live) = Len(q)
  BY <1>1, CountNodes
<1>4. /\ DOMAIN Forward = 1 .. Len(q) /\ Len(Forward) = Len(q) /\ Len(Backward) = Len(q)
      /\ {Forward[i] : i \in DOMAIN Forward} = {q[i] : i \in 1 .. Len(q)}
  BY <1>1, <1>2
<1>5. \A i \in 1 .. Len(q) : Forward[i] = Backward[Len(q) + 1 - i]
  BY <1>1, <1>2
<1> QED BY <1>1, <1>3, <1>4, <1>5 DEF TwoEnds
-----------------------------------------------------------------------------
(***************************************************************************)
(* Taking a node out of the sequence and putting one at an end.            *)
(***************************************************************************)
Without(q, i) == [j \in 1 .. Len(q) - 1 |-> IF j < i THEN q[j] ELSE q[j + 1]]

LEMMA AtNode ==
  ASSUME NEW q \in Seq(Node), Distinct(q), NEW i \in 1 .. Len(q), NEW j \in Int
  PROVE  /\ At(q, i) = q[i] /\ q[i] \in Node /\ q[i] # NULL /\ At(q, j) \in Ref
         /\ q[i] = At(q, j) <=> i = j
<1>1. NULL \notin Node
  BY NullAssumption
<1> QED BY <1>1 DEF At, Distinct, Ref

LEMMA WithoutAt ==
  ASSUME NEW q \in Seq(Node), Distinct(q), NEW i \in 1 .. Len(q)
  PROVE  /\ Without(q, i) \in Seq(Node) /\ Len(Without(q, i)) = Len(q) - 1
         /\ \A j \in Nat : At(Without(q, i), j) = IF j < i THEN At(q, j) ELSE At(q, j + 1)
         /\ Distinct(Without(q, i))
         /\ {Without(q, i)[j] : j \in 1 .. Len(Without(q, i))} = {q[j] : j \in 1 .. Len(q)} \ {q[i]}
<1> DEFINE w == Without(q, i)
<1>1. Len(q) \in Nat /\ w \in Seq(Node) /\ Len(w) = Len(q) - 1
  BY DEF Without
<1>2. \A j \in 1 .. Len(w) : w[j] = IF j < i THEN q[j] ELSE q[j + 1]
  BY <1>1 DEF Without
<1> HIDE DEF w
<1>3. \A j \in Nat : At(w, j) = IF j < i THEN At(q, j) ELSE At(q, j + 1)
  BY <1>1, <1>2 DEF At
<1>4. Distinct(w)
  <2> SUFFICES ASSUME NEW a \in 1 .. Len(w), NEW b \in 1 .. Len(w), w[a] = w[b] PROVE a = b
    BY DEF Distinct
  <2>1. PICK c \in 1 .. Len(q) : c = (IF a < i THEN a ELSE a + 1) /\ w[a] = q[c]
    BY <1>1, <1>2
  <2>2. PICK d \in 1 .. Len(q) : d = (IF b < i THEN b ELSE b + 1) /\ w[b] = q[d]
    BY <1>1, <1>2
  <2>3. c = d
    BY <2>1, <2>2 DEF Distinct
  <2> QED BY <1>1, <2>1, <2>2, <2>3
<1>5. ASSUME NEW x PROVE x \in {w[j] : j \in 1 .. Len(w)} <=> x \in {q[j] : j \in 1 .. Len(q)} \ {q[i]}
  <2>1. ASSUME NEW j \in 1 .. Len(w), x = w[j]
        PROVE  x \in {q[a] : a \in 1 .. Len(q)} /\ x # q[i]
    BY <1>1, <1>2, <2>1 DEF Distinct
  <2>2. ASSUME NEW j \in 1 .. Len(q), x = q[j], x # q[i]
        PROVE  x \in {w[a] : a \in 1 .. Len(w)}
    <3>1. CASE j < i
      BY <1>1, <1>2, <2>2, <3>1
    <3>2. CASE j > i
      <4>1. j - 1 \in 1 .. Len(w) /\ w[j - 1] = q[j]
        BY <1>1, <1>2, <3>2
      <4> QED BY <2>2, <4>1
    <3> QED BY <1>1, <2>2, <3>1, <3>2
  <2> QED BY <2>1, <2>2
<1> QED BY <1>1, <1>3, <1>4, <1>5 DEF w

\* The links of a heap k that bypass the node at place i of the links of h.
Bypassed(h, k, q, i) ==
  \A m \in Node \ {q[i]} :
    /\ k[m].next = IF m = At(q, i - 1) THEN At(q, i + 1) ELSE h[m].next
    /\ k[m].previous = IF m = At(q, i + 1) THEN At(q, i - 1) ELSE h[m].previous
    /\ k[m].element = h[m].element

LEMMA WithoutLinks ==
  ASSUME NEW h, NEW k, NEW q \in Seq(Node), Distinct(q), Links(h, q),
         NEW i \in 1 .. Len(q), Bypassed(h, k, q, i)
  PROVE  Links(k, Without(q, i))
<1> DEFINE w == Without(q, i)
<1>1. /\ Len(q) \in Nat /\ w \in Seq(Node) /\ Len(w) = Len(q) - 1
      /\ \A j \in Nat : At(w, j) = IF j < i THEN At(q, j) ELSE At(q, j + 1)
  BY WithoutAt
<1> HIDE DEF w
<1>2. ASSUME NEW j \in 1 .. Len(w)
      PROVE  k[w[j]].next = At(w, j + 1) /\ k[w[j]].previous = At(w, j - 1) /\ k[w[j]].element \in Element
  <2>1. PICK a \in 1 .. Len(q) : a = IF j < i THEN j ELSE j + 1
    BY <1>1
  <2>2. w[j] = q[a] /\ a # i
    BY <1>1, <2>1 DEF At
  <2>3. q[a] \in Node \ {q[i]}
    BY <2>2 DEF Distinct
  <2>4. q[a] = At(q, i - 1) <=> a = i - 1
    BY AtNode
  <2>5. q[a] = At(q, i + 1) <=> a = i + 1
    BY AtNode
  <2>6. k[q[a]].next = IF a = i - 1 THEN At(q, i + 1) ELSE At(q, a + 1)
    BY <2>3, <2>4 DEF Bypassed, Links
  <2>7. k[q[a]].previous = IF a = i + 1 THEN At(q, i - 1) ELSE At(q, a - 1)
    BY <2>3, <2>5 DEF Bypassed, Links
  <2>8. k[q[a]].element \in Element
    BY <2>3 DEF Bypassed, Links
  <2>9. PICK b \in Nat : b = j + 1
    BY <1>1
  <2>10. PICK c \in Nat : c = j - 1
    BY <1>1
  <2>11. k[q[a]].next = At(w, b)
    <3>1. At(w, b) = IF b < i THEN At(q, b) ELSE At(q, b + 1)
      BY <1>1
    <3>2. CASE j < i - 1
      BY <1>1, <2>1, <2>6, <2>9, <3>1, <3>2
    <3>3. CASE j = i - 1
      <4>1. a = i - 1 /\ b = i
        BY <1>1, <2>1, <2>9, <3>3
      <4> QED BY <1>1, <2>6, <3>1, <4>1
    <3>4. CASE j >= i
      <4>1. a = b /\ b > i
        BY <1>1, <2>1, <2>9, <3>4
      <4> QED BY <1>1, <2>6, <3>1, <4>1
    <3> QED BY <1>1, <3>2, <3>3, <3>4
  <2>12. k[q[a]].previous = At(w, c)
    <3>1. At(w, c) = IF c < i THEN At(q, c) ELSE At(q, c + 1)
      BY <1>1
    <3>2. CASE j < i
      <4>1. a = j /\ c = a - 1 /\ c < i
        BY <1>1, <2>1, <2>10, <3>2
      <4> QED BY <1>1, <2>7, <3>1, <4>1
    <3>3. CASE j = i
      <4>1. a = i + 1 /\ c = i - 1
        BY <1>1, <2>1, <2>10, <3>3
      <4> QED BY <1>1, <2>7, <3>1, <4>1
    <3>4. CASE j > i
      <4>1. a = j + 1 /\ c + 1 = a - 1 /\ ~(c < i) /\ a # i + 1
        BY <1>1, <2>1, <2>10, <3>4
      <4> QED BY <1>1, <2>7, <3>1, <4>1
    <3> QED BY <1>1, <3>2, <3>3, <3>4
  <2> QED BY <2>2, <2>8, <2>9, <2>10, <2>11, <2>12
<1> QED BY <1>2 DEF Links, w

LEMMA PrependAt ==
  ASSUME NEW q \in Seq(Node), Distinct(q), NEW n \in Node, \A i \in 1 .. Len(q) : q[i] # n
  PROVE  /\ <<n>> \o q \in Seq(Node) /\ Len(<<n>> \o q) = Len(q) + 1 /\ Distinct(<<n>> \o q)
         /\ \A j \in Nat : At(<<n>> \o q, j) = IF j = 1 THEN n ELSE At(q, j - 1)
         /\ {(<<n>> \o q)[j] : j \in 1 .. Len(<<n>> \o q)} = {q[j] : j \in 1 .. Len(q)} \cup {n}
<1> DEFINE w == <<n>> \o q
<1>1. Len(q) \in Nat /\ w \in Seq(Node) /\ Len(w) = Len(q) + 1
  OBVIOUS
<1>2. \A j \in 1 .. Len(w) : w[j] = IF j = 1 THEN n ELSE q[j - 1]
  BY <1>1
<1> HIDE DEF w
<1>3. \A j \in Nat : At(w, j) = IF j = 1 THEN n ELSE At(q, j - 1)
  BY <1>1, <1>2 DEF At
<1>4. Distinct(w)
  <2> SUFFICES ASSUME NEW a \in 1 .. Len(w), NEW b \in 1 .. Len(w), w[a] = w[b] PROVE a = b
    BY DEF Distinct
  <2>1. CASE a = 1 \/ b = 1
    BY <1>1, <1>2, <2>1
  <2>2. CASE a # 1 /\ b # 1
    <3>1. PICK c \in 1 .. Len(q) : c = a - 1 /\ w[a] = q[c]
      BY <1>1, <1>2, <2>2
    <3>2. PICK d \in 1 .. Len(q) : d = b - 1 /\ w[b] = q[d]
      BY <1>1, <1>2, <2>2
    <3>3. c = d
      BY <3>1, <3>2 DEF Distinct
    <3> QED BY <1>1, <3>1, <3>2, <3>3
  <2> QED BY <2>1, <2>2
<1>5. ASSUME NEW x PROVE x \in {w[j] : j \in 1 .. Len(w)} <=> x \in {q[j] : j \in 1 .. Len(q)} \cup {n}
  <2>1. ASSUME NEW j \in 1 .. Len(q) PROVE \E a \in 1 .. Len(w) : w[a] = q[j]
    <3>1. PICK a \in 1 .. Len(w) : a = j + 1
      BY <1>1
    <3>2. w[a] = q[a - 1] /\ a - 1 = j
      BY <1>1, <1>2, <3>1
    <3> QED BY <3>2
  <2>2. 1 \in 1 .. Len(w) /\ w[1] = n
    BY <1>1, <1>2
  <2>3. \A j \in 1 .. Len(w) : j # 1 => j - 1 \in 1 .. Len(q) /\ w[j] = q[j - 1]
    BY <1>1, <1>2
  <2>4. x \in {w[j] : j \in 1 .. Len(w)} => x \in {q[j] : j \in 1 .. Len(q)} \cup {n}
    BY <2>2, <2>3
  <2>5. x \in {q[j] : j \in 1 .. Len(q)} \cup {n} => x \in {w[j] : j \in 1 .. Len(w)}
    BY <2>1, <2>2
  <2> QED BY <2>4, <2>5
<1> QED BY <1>1, <1>3, <1>4, <1>5 DEF w

LEMMA AppendAt ==
  ASSUME NEW q \in Seq(Node), Distinct(q), NEW n \in Node, \A i \in 1 .. Len(q) : q[i] # n
  PROVE  /\ Append(q, n) \in Seq(Node) /\ Len(Append(q, n)) = Len(q) + 1 /\ Distinct(Append(q, n))
         /\ \A j \in Int : At(Append(q, n), j) = IF j = Len(q) + 1 THEN n ELSE At(q, j)
         /\ {Append(q, n)[j] : j \in 1 .. Len(Append(q, n))} = {q[j] : j \in 1 .. Len(q)} \cup {n}
<1> DEFINE w == Append(q, n)
<1>1. Len(q) \in Nat /\ w \in Seq(Node) /\ Len(w) = Len(q) + 1
  OBVIOUS
<1>2. \A j \in 1 .. Len(w) : w[j] = IF j = Len(q) + 1 THEN n ELSE q[j]
  BY <1>1
<1> HIDE DEF w
<1>3. \A j \in Int : At(w, j) = IF j = Len(q) + 1 THEN n ELSE At(q, j)
  BY <1>1, <1>2 DEF At
<1>4. Distinct(w)
  BY <1>1, <1>2 DEF Distinct
<1>5. ASSUME NEW x PROVE x \in {w[j] : j \in 1 .. Len(w)} <=> x \in {q[j] : j \in 1 .. Len(q)} \cup {n}
  <2>1. \A j \in 1 .. Len(q) : j \in 1 .. Len(w) /\ w[j] = q[j]
    BY <1>1, <1>2
  <2>2. Len(w) \in 1 .. Len(w) /\ w[Len(w)] = n
    BY <1>1, <1>2
  <2>3. \A j \in 1 .. Len(w) : j # Len(w) => j \in 1 .. Len(q) /\ w[j] = q[j]
    BY <1>1, <1>2
  <2> QED BY <2>1, <2>2, <2>3
<1> QED BY <1>1, <1>3, <1>4, <1>5 DEF w

\* A new node n in front of the nodes of h, or behind them.
LEMMA PrependLinks ==
  ASSUME NEW h, NEW k, NEW q \in Seq(Node), Distinct(q), Links(h, q),
         NEW n \in Node, \A i \in 1 .. Len(q) : q[i] # n,
         k[n].next = At(q, 1), k[n].previous = NULL, k[n].element \in Element,
         \A m \in Node \ {n} :
           /\ k[m].next = h[m].next /\ k[m].element = h[m].element
           /\ k[m].previous = IF m = At(q, 1) THEN n ELSE h[m].previous
  PROVE  Links(k, <<n>> \o q)
<1> DEFINE w == <<n>> \o q
<1>1. /\ Len(q) \in Nat /\ w \in Seq(Node) /\ Len(w) = Len(q) + 1
      /\ \A j \in Nat : At(w, j) = IF j = 1 THEN n ELSE At(q, j - 1)
  BY PrependAt
<1> HIDE DEF w
<1>2. ASSUME NEW j \in 1 .. Len(w)
      PROVE  k[w[j]].next = At(w, j + 1) /\ k[w[j]].previous = At(w, j - 1) /\ k[w[j]].element \in Element
  <2>1. PICK b \in Nat : b = j + 1
    BY <1>1
  <2>2. PICK c \in Nat : c = j - 1
    BY <1>1
  <2>3. At(w, b) = At(q, j)
    BY <1>1, <2>1
  <2>4. CASE j = 1
    <3>1. w[j] = n /\ At(w, c) = NULL
      <4>1. w[j] = At(w, j)
        BY DEF At
      <4>2. c = 0 /\ At(w, 0) = NULL
        BY <1>1, <2>2, <2>4 DEF At
      <4> QED BY <1>1, <2>4, <4>1, <4>2
    <3> QED BY <2>1, <2>2, <2>3, <2>4, <3>1
  <2>5. CASE j # 1
    <3>1. c \in 1 .. Len(q) /\ w[j] = q[c] /\ q[c] \in Node \ {n} /\ j = c + 1
      BY <1>1, <2>2, <2>5 DEF At
    <3>2. At(w, c) = IF c = 1 THEN n ELSE At(q, c - 1)
      BY <1>1
    <3>3. q[c] = At(q, 1) <=> c = 1
      BY <3>1, AtNode
    <3>4. k[q[c]].previous = At(w, c)
      BY <3>1, <3>2, <3>3 DEF Links
    <3>5. k[q[c]].next = At(w, b) /\ k[q[c]].element \in Element
      BY <2>3, <3>1 DEF Links
    <3> QED BY <2>1, <2>2, <3>1, <3>4, <3>5
  <2> QED BY <2>4, <2>5
<1> QED BY <1>2 DEF Links, w

LEMMA AppendLinks ==
  ASSUME NEW h, NEW k, NEW q \in Seq(Node), Distinct(q), Links(h, q),
         NEW n \in Node, \A i \in 1 .. Len(q) : q[i] # n,
         k[n].next = NULL, k[n].previous = At(q, Len(q)), k[n].element \in Element,
         \A m \in Node \ {n} :
           /\ k[m].previous = h[m].previous /\ k[m].element = h[m].element
           /\ k[m].next = IF m = At(q, Len(q)) THEN n ELSE h[m].next
  PROVE  Links(k, Append(q, n))
<1> DEFINE w == Append(q, n)
<1>1. /\ Len(q) \in Nat /\ w \in Seq(Node) /\ Len(w) = Len(q) + 1
      /\ \A j \in Int : At(w, j) = IF j = Len(q) + 1 THEN n ELSE At(q, j)
  BY AppendAt
<1> HIDE DEF w
<1>2. ASSUME NEW j \in 1 .. Len(w)
      PROVE  k[w[j]].next = At(w, j + 1) /\ k[w[j]].previous = At(w, j - 1) /\ k[w[j]].element \in Element
  <2>1. PICK b \in Nat : b = j + 1
    BY <1>1
  <2>2. PICK c \in Nat : c = j - 1
    BY <1>1
  <2>3. At(w, c) = At(q, c)
    BY <1>1, <2>2
  <2>4. CASE j = Len(q) + 1
    <3>1. w[j] = n /\ c = Len(q) /\ At(w, b) = NULL
      BY <1>1, <2>1, <2>2, <2>4 DEF At
    <3> QED BY <2>1, <2>2, <2>3, <3>1
  <2>5. CASE j # Len(q) + 1
    <3>1. j \in 1 .. Len(q) /\ w[j] = q[j] /\ q[j] \in Node \ {n}
      BY <1>1, <2>5 DEF At
    <3>2. At(w, b) = IF j = Len(q) THEN n ELSE At(q, b)
      BY <1>1, <2>1
    <3>3. q[j] = At(q, Len(q)) <=> j = Len(q)
      BY <1>1, <3>1, AtNode
    <3>4. k[q[j]].next = At(w, b)
      BY <2>1, <3>1, <3>2, <3>3 DEF Links
    <3>5. k[q[j]].previous = At(w, c) /\ k[q[j]].element \in Element
      BY <2>2, <2>3, <3>1 DEF Links
    <3> QED BY <2>1, <2>2, <3>1, <3>4, <3>5
  <2> QED BY <2>4, <2>5
<1> QED BY <1>2 DEF Links, w
-----------------------------------------------------------------------------
(***************************************************************************)
(* The inductive invariant.                                                *)
(***************************************************************************)
\* list_remove has passed only other elements, the first one among them.
Scanning(q) ==
  pc = "scan" =>
    /\ sought \in Element /\ Len(q) > 0
    /\ \E i \in 1 .. Len(q) + 1 :
         /\ np = At(q, i)
         /\ \A j \in 1 .. Len(q) : j < i \/ j = 1 => heap[q[j]].element # sought

Phases ==
  /\ pc \in {"idle", "scan", "free"}
  /\ pc = "scan" => exists
  /\ pc = "free" => exists /\ li = NULL /\ result # NULL
  /\ ~exists => nelement = 0 /\ li = NULL

\* Where the iterator may move to without a reset.
Ahead == li.next # NULL /\ ~li.nextFreed
Behind == li.previous # NULL /\ ~li.previousFreed

Cursor ==
  li # NULL =>
    /\ li \in Iterator
    /\ Ahead => li.next \in live
    /\ Behind => li.previous \in live
    /\ li.moved /\ Ahead /\ Behind => heap[li.previous].next = li.next

IInv ==
  /\ heap \in [Node -> NodeFields]
  /\ Phases /\ Cursor
  /\ \E q : Chain(q) /\ Scanning(q)

\* The node at place i is unlinked and freed.
Removed(q, i) ==
  /\ Bypassed(heap, heap', q, i) /\ heap' \in [Node -> NodeFields]
  /\ head' = (IF i = 1 THEN At(q, 2) ELSE head)
  /\ tail' = (IF i = Len(q) THEN At(q, Len(q) - 1) ELSE tail)
  /\ live' = live \ {q[i]} /\ nelement' = nelement - 1
  /\ li' = IF li = NULL THEN NULL
           ELSE [li EXCEPT !.nextFreed = @ \/ li.next = q[i],
                           !.previousFreed = @ \/ li.previous = q[i]]

LEMMA RemovedChain ==
  ASSUME NEW q, Chain(q), NEW i \in 1 .. Len(q), Removed(q, i)
  PROVE  Chain(Without(q, i))'
<1>1. q \in Seq(Node) /\ Len(q) \in Nat /\ Distinct(q) /\ Links(heap, q)
  BY DEF Chain
<1>2. PICK w : w = Without(q, i)
  OBVIOUS
<1>3. /\ w \in Seq(Node) /\ Len(w) = Len(q) - 1 /\ Distinct(w)
      /\ \A j \in Nat : At(w, j) = IF j < i THEN At(q, j) ELSE At(q, j + 1)
      /\ {w[j] : j \in 1 .. Len(w)} = {q[j] : j \in 1 .. Len(q)} \ {q[i]}
  BY <1>1, <1>2, WithoutAt
<1>4. Links(heap', w)
  BY <1>1, <1>2, WithoutLinks DEF Removed
<1>5. head' = At(w, 1)
  <2>1. At(w, 1) = IF 1 < i THEN At(q, 1) ELSE At(q, 2)
    BY <1>3
  <2> QED BY <2>1 DEF Removed, Chain
<1>6. tail' = At(w, Len(w))
  <2>1. PICK c \in Nat : c = Len(w)
    BY <1>3
  <2>2. At(w, c) = IF c < i THEN At(q, c) ELSE At(q, c + 1)
    BY <1>3
  <2>3. c = Len(q) - 1 /\ c + 1 = Len(q)
    BY <1>1, <1>3, <2>1
  <2> QED BY <1>1, <2>1, <2>2, <2>3 DEF Removed, Chain
<1>7. live' = {w[j] : j \in 1 .. Len(w)} /\ nelement' = Len(w)
  BY <1>3 DEF Removed, Chain
<1>8. Chain(w)'
  BY <1>3, <1>4, <1>5, <1>6, <1>7 DEF Chain
<1> QED BY <1>2, <1>8

LEMMA RemovedCursor ==
  ASSUME NEW q, Chain(q), Cursor, NEW i \in 1 .. Len(q), Removed(q, i)
  PROVE  Cursor'
<1> SUFFICES ASSUME li' # NULL PROVE Cursor'
  BY DEF Cursor
<1>1. q \in Seq(Node) /\ Len(q) \in Nat /\ Distinct(q) /\ Links(heap, q)
      /\ live = {q[j] : j \in 1 .. Len(q)}
  BY DEF Chain
<1>2. /\ li # NULL /\ li \in Iterator /\ live' = live \ {q[i]}
      /\ li' = [li EXCEPT !.nextFreed = @ \/ li.next = q[i],
                         !.previousFreed = @ \/ li.previous = q[i]]
  BY DEF Removed, Cursor
<1>3. /\ li' \in Iterator /\ li'.next = li.next /\ li'.previous = li.previous /\ li'.moved = li.moved
      /\ li'.nextFreed <=> li.nextFreed \/ li.next = q[i]
      /\ li'.previousFreed <=> li.previousFreed \/ li.previous = q[i]
  BY <1>2 DEF Iterator
<1>4. Ahead' => Ahead /\ li'.next \in live'
  BY <1>2, <1>3 DEF Ahead, Cursor
<1>5. Behind' => Behind /\ li'.previous \in live'
  BY <1>2, <1>3 DEF Behind, Cursor
<1>6. ASSUME li'.moved, Ahead', Behind' PROVE heap'[li'.previous].next = li'.next
  <2>1. heap[li.previous].next = li.next /\ li.previous \in live' /\ li.next # q[i] /\ li.previous \in Node
    BY <1>1, <1>2, <1>3, <1>4, <1>5, <1>6 DEF Cursor, Ahead
  <2>2. li.previous # At(q, i - 1)
    <3>1. ASSUME li.previous = At(q, i - 1) PROVE FALSE
      <4>1. i - 1 \in 1 .. Len(q)
        BY <1>1, <2>1, <3>1, NullAssumption DEF At
      <4>2. heap[q[i - 1]].next = At(q, i - 1 + 1)
        BY <4>1, <1>1 DEF Links
      <4>3. At(q, i - 1 + 1) = q[i]
        BY <1>1 DEF At
      <4> QED BY <2>1, <3>1, <4>1, <4>2, <4>3 DEF At
    <3> QED BY <3>1
  <2>3. heap'[li.previous].next = heap[li.previous].next
    BY <1>2, <2>1, <2>2 DEF Removed, Bypassed
  <2> QED BY <1>3, <2>1, <2>3
<1> QED BY <1>2, <1>3, <1>4, <1>5, <1>6 DEF Cursor

\* The three ways to unlink a node.
LEMMA HeadRemoved ==
  ASSUME NEW q, Chain(q), heap \in [Node -> NodeFields], head # NULL, UnlinkHead
  PROVE  Len(q) > 0 /\ Removed(q, 1)
<1>1. q \in Seq(Node) /\ Len(q) \in Nat /\ Distinct(q) /\ Links(heap, q) /\ NULL \notin Node
      /\ NULL \in Ref
  <2>1. NULL \notin Node
    BY NullAssumption
  <2> QED BY <2>1 DEF Chain, Ref
<1>2. Len(q) > 0 /\ head = q[1] /\ head \in Node
  BY <1>1 DEF Chain, At
<1>3. heap[head].next = At(q, 2)
  BY <1>1, <1>2 DEF Links
<1>4. At(q, 0) = NULL
  BY DEF At
<1>5. CASE At(q, 2) = NULL
  <2>1. Len(q) = 1
    <3>1. 2 \in 1 .. Len(q) => q[2] \in Node /\ At(q, 2) = q[2]
      BY <1>1 DEF At
    <3>2. 2 \notin 1 .. Len(q)
      BY <1>1, <1>5, <3>1
    <3>3. \A l \in Nat : l > 0 /\ 2 \notin 1 .. l => l = 1
      OBVIOUS
    <3> QED BY <1>1, <1>2, <3>2, <3>3
  <2>2. head' = NULL /\ tail' = NULL /\ list_delnode(head, heap)
    BY <1>3, <1>5 DEF UnlinkHead
  <2>3. heap' = [heap EXCEPT ![head] = Blank]
    BY <2>2 DEF list_delnode
  <2>4. heap' \in [Node -> NodeFields]
    BY <1>1, <2>3 DEF NodeFields, Blank
  <2>5. \A m \in Node \ {q[1]} : heap'[m] = heap[m]
    BY <1>2, <2>3
  <2>6. Bypassed(heap, heap', q, 1)
    <3>1. \A m \in Node : m # At(q, 0) /\ m # At(q, 2)
      BY <1>1, <1>4, <1>5
    <3> QED BY <2>5, <3>1 DEF Bypassed
  <2> QED BY <1>2, <1>4, <1>5, <2>1, <2>2, <2>4, <2>6 DEF Removed, list_delnode
<1>6. CASE At(q, 2) # NULL
  <2>1. At(q, 2) = q[2] /\ 2 \in 1 .. Len(q) /\ q[2] \in Node /\ q[2] # q[1]
    BY <1>1, <1>6 DEF At, Distinct
  <2>2. head' = q[2] /\ tail' = tail /\ list_delnode(head, [heap EXCEPT ![q[2]].previous = NULL])
    BY <1>3, <1>6, <2>1 DEF UnlinkHead
  <2>3. PICK h : h = [heap EXCEPT ![q[2]].previous = NULL]
    OBVIOUS
  <2>4. h \in [Node -> NodeFields]
    BY <1>1, <2>1, <2>3 DEF NodeFields
  <2>5. heap' = [h EXCEPT ![head] = Blank]
    BY <2>2, <2>3 DEF list_delnode
  <2>6. heap' \in [Node -> NodeFields]
    BY <1>1, <2>4, <2>5 DEF NodeFields, Blank
  <2>7. \A m \in Node \ {q[1]} : heap'[m] = h[m]
    BY <1>2, <2>4, <2>5
  <2>8. \A m \in Node : /\ h[m].next = heap[m].next /\ h[m].element = heap[m].element
                        /\ h[m].previous = IF m = q[2] THEN NULL ELSE heap[m].previous
    BY <1>1, <2>1, <2>3 DEF NodeFields
  <2>9. Bypassed(heap, heap', q, 1)
    <3>1. \A m \in Node : m # At(q, 0)
      BY <1>1, <1>4
    <3> QED BY <1>4, <2>1, <2>7, <2>8, <3>1 DEF Bypassed
  <2> QED BY <1>2, <2>1, <2>2, <2>6, <2>9 DEF Removed, list_delnode
<1> QED BY <1>5, <1>6

LEMMA TailRemoved ==
  ASSUME NEW q, Chain(q), heap \in [Node -> NodeFields], tail # NULL, UnlinkTail
  PROVE  Len(q) > 0 /\ Removed(q, Len(q))
<1> DEFINE n == Len(q)
<1>1. q \in Seq(Node) /\ n \in Nat /\ Distinct(q) /\ Links(heap, q) /\ NULL \notin Node
      /\ NULL \in Ref
  <2>1. NULL \notin Node
    BY NullAssumption
  <2> QED BY <2>1 DEF Chain, Ref
<1>2. n > 0 /\ tail = q[n] /\ tail \in Node
  BY <1>1 DEF Chain, At
<1>3. heap[tail].previous = At(q, n - 1)
  BY <1>1, <1>2 DEF Links
<1>4. At(q, n + 1) = NULL
  BY <1>1 DEF At
<1>5. CASE At(q, n - 1) = NULL
  <2>1. n = 1
    <3>1. n - 1 \in 1 .. n => q[n - 1] \in Node /\ At(q, n - 1) = q[n - 1]
      BY <1>1 DEF At
    <3>2. n - 1 \notin 1 .. n
      BY <1>1, <1>5, <3>1
    <3>3. \A l \in Nat : l > 0 /\ l - 1 \notin 1 .. l => l = 1
      OBVIOUS
    <3> QED BY <1>1, <1>2, <3>2, <3>3
  <2>2. head' = NULL /\ tail' = NULL /\ list_delnode(tail, heap)
    BY <1>3, <1>5 DEF UnlinkTail
  <2>3. heap' = [heap EXCEPT ![tail] = Blank]
    BY <2>2 DEF list_delnode
  <2>4. heap' \in [Node -> NodeFields]
    BY <1>1, <2>3 DEF NodeFields, Blank
  <2>5. \A m \in Node \ {q[n]} : heap'[m] = heap[m]
    BY <1>2, <2>3
  <2>6. Bypassed(heap, heap', q, n)
    <3>1. \A m \in Node : m # At(q, n - 1) /\ m # At(q, n + 1)
      BY <1>1, <1>4, <1>5
    <3> QED BY <2>5, <3>1 DEF Bypassed
  <2>7. At(q, 2) = NULL
    BY <1>4, <2>1
  <2> QED BY <1>2, <1>5, <2>1, <2>2, <2>4, <2>6, <2>7 DEF Removed, list_delnode
<1>6. CASE At(q, n - 1) # NULL
  <2>1. At(q, n - 1) = q[n - 1] /\ n - 1 \in 1 .. n /\ q[n - 1] \in Node /\ q[n - 1] # q[n] /\ n # 1
    <3>1. n - 1 \in 1 .. n /\ At(q, n - 1) = q[n - 1]
      BY <1>6 DEF At
    <3> QED BY <1>1, <1>2, <3>1 DEF Distinct
  <2>2. PICK m : m = q[n - 1]
    OBVIOUS
  <2>3. tail' = m /\ head' = head /\ list_delnode(tail, [heap EXCEPT ![m].next = NULL])
    BY <1>3, <1>6, <2>1, <2>2 DEF UnlinkTail
  <2>4. PICK h : h = [heap EXCEPT ![m].next = NULL]
    OBVIOUS
  <2>5. h \in [Node -> NodeFields]
    BY <1>1, <2>1, <2>2, <2>4 DEF NodeFields
  <2>6. heap' = [h EXCEPT ![tail] = Blank]
    BY <2>3, <2>4 DEF list_delnode
  <2>7. heap' \in [Node -> NodeFields]
    BY <1>1, <2>5, <2>6 DEF NodeFields, Blank
  <2>8. \A x \in Node \ {q[n]} : heap'[x] = h[x]
    BY <1>2, <2>5, <2>6
  <2>9. \A x \in Node : /\ h[x].previous = heap[x].previous /\ h[x].element = heap[x].element
                        /\ h[x].next = IF x = m THEN NULL ELSE heap[x].next
    BY <1>1, <2>1, <2>2, <2>4 DEF NodeFields
  <2>10. Bypassed(heap, heap', q, n)
    <3>1. \A x \in Node : x # At(q, n + 1)
      BY <1>1, <1>4
    <3> QED BY <1>4, <2>1, <2>2, <2>8, <2>9, <3>1 DEF Bypassed
  <2> QED BY <1>2, <2>1, <2>2, <2>3, <2>7, <2>10 DEF Removed, list_delnode
<1> QED BY <1>5, <1>6

\* The scan never unlinks the first node, whose predecessor would be NULL.
LEMMA ScanRemoved ==
  ASSUME NEW q, Chain(q), Scanning(q), heap \in [Node -> NodeFields], ScanUnlinks
  PROVE  \E i \in 1 .. Len(q) :
           /\ Removed(q, i) /\ heap[q[i]].element = sought
           /\ \A j \in 1 .. i - 1 : heap[q[j]].element # sought
<1>1. q \in Seq(Node) /\ Len(q) \in Nat /\ Distinct(q) /\ Links(heap, q) /\ NULL \notin Node
      /\ NULL \in Ref
  <2>1. NULL \notin Node
    BY NullAssumption
  <2> QED BY <2>1 DEF Chain, Ref
<1>2. PICK i \in 1 .. Len(q) + 1 :
        /\ np = At(q, i)
        /\ \A j \in 1 .. Len(q) : j < i \/ j = 1 => heap[q[j]].element # sought
  BY DEF ScanUnlinks, Scanning
<1>3. np # NULL /\ heap[np].element = sought
  BY DEF ScanUnlinks
<1>4. i \in 1 .. Len(q) /\ np = q[i] /\ i > 1 /\ np \in Node
  BY <1>1, <1>2, <1>3 DEF At
<1>5. PICK p : p = heap[np].previous
  OBVIOUS
<1>6. PICK x : x = heap[np].next
  OBVIOUS
<1>7. p = At(q, i - 1) /\ x = At(q, i + 1)
  BY <1>1, <1>4, <1>5, <1>6 DEF Links
<1>8. p = q[i - 1] /\ i - 1 \in 1 .. Len(q) /\ p \in Node /\ p # np
  <2>1. i - 1 \in 1 .. Len(q) /\ p = q[i - 1]
    BY <1>1, <1>4, <1>7 DEF At
  <2> QED BY <1>1, <1>4, <2>1 DEF Distinct
<1>9. PICK g : g = [heap EXCEPT ![p].next = x]
  OBVIOUS
<1>10. x \in Ref
  BY <1>1, <1>7, <1>4, AtNode
<1>11. g \in [Node -> NodeFields]
  BY <1>1, <1>8, <1>9, <1>10 DEF NodeFields
<1>12. \A m \in Node : /\ g[m].previous = heap[m].previous /\ g[m].element = heap[m].element
                       /\ g[m].next = IF m = p THEN x ELSE heap[m].next
  BY <1>1, <1>8, <1>9 DEF NodeFields
<1>13. CASE x = NULL
  <2>1. tail' = p /\ list_delnode(np, g)
    BY <1>5, <1>6, <1>9, <1>13 DEF ScanUnlinks
  <2>2. i = Len(q)
    <3>1. i + 1 \in 1 .. Len(q) => q[i + 1] \in Node /\ At(q, i + 1) = q[i + 1]
      BY <1>1 DEF At
    <3> QED BY <1>1, <1>4, <1>7, <1>13, <3>1
  <2>3. heap' = [g EXCEPT ![np] = Blank]
    BY <2>1 DEF list_delnode
  <2>4. heap' \in [Node -> NodeFields]
    BY <1>1, <1>11, <2>3 DEF NodeFields, Blank
  <2>5. \A m \in Node \ {q[i]} : heap'[m] = g[m]
    BY <1>4, <1>11, <2>3
  <2>6. Bypassed(heap, heap', q, i)
    <3>1. \A m \in Node : m # At(q, i + 1)
      BY <1>1, <1>7, <1>13
    <3> QED BY <1>7, <1>12, <2>5, <3>1 DEF Bypassed
  <2>7. i \in 1 .. Len(q) /\ head' = head /\ i # 1
    BY <1>4 DEF ScanUnlinks
  <2>8. Removed(q, i)
    BY <1>4, <1>7, <2>1, <2>2, <2>4, <2>6, <2>7 DEF Removed, list_delnode
  <2> QED BY <1>2, <1>3, <1>4, <2>8
<1>14. CASE x # NULL
  <2>1. x \in Node /\ i + 1 \in 1 .. Len(q) /\ x = q[i + 1] /\ x # np /\ i # Len(q)
    <3>1. i + 1 \in 1 .. Len(q) /\ x = q[i + 1]
      BY <1>7, <1>14 DEF At
    <3> QED BY <1>1, <1>4, <3>1 DEF Distinct
  <2>2. PICK h : h = [g EXCEPT ![x].previous = p]
    OBVIOUS
  <2>3. tail' = tail /\ list_delnode(np, h)
    BY <1>5, <1>6, <1>9, <1>14, <2>2 DEF ScanUnlinks
  <2>4. p \in Ref
    BY <1>8 DEF Ref
  <2>5. h \in [Node -> NodeFields]
    BY <1>11, <2>1, <2>2, <2>4 DEF NodeFields
  <2>6. \A m \in Node : /\ h[m].next = g[m].next /\ h[m].element = g[m].element
                        /\ h[m].previous = IF m = x THEN p ELSE g[m].previous
    BY <1>11, <2>1, <2>2 DEF NodeFields
  <2>7. heap' = [h EXCEPT ![np] = Blank]
    BY <2>3 DEF list_delnode
  <2>8. heap' \in [Node -> NodeFields]
    BY <1>1, <2>5, <2>7 DEF NodeFields, Blank
  <2>9. \A m \in Node \ {q[i]} : heap'[m] = h[m]
    BY <1>4, <2>5, <2>7
  <2>10. Bypassed(heap, heap', q, i)
    BY <1>7, <1>12, <2>6, <2>9 DEF Bypassed
  <2>11. Removed(q, i)
    BY <1>4, <2>1, <2>3, <2>8, <2>10 DEF Removed, list_delnode, ScanUnlinks
  <2> QED BY <1>2, <1>3, <1>4, <2>11
<1> QED BY <1>13, <1>14

\* A node in front of the others, and one behind them.
LEMMA Prepended ==
  ASSUME NEW q, Chain(q), heap \in [Node -> NodeFields], NEW element \in Element \cup {NULL},
         list_prepend(element)
  PROVE  \E n \in Node \ live :
           /\ Chain(<<n>> \o q)' /\ heap' \in [Node -> NodeFields]
           /\ heap'[n].element = element /\ result' = "ok"
           /\ \A m \in live : heap'[m].element = heap[m].element /\ heap'[m].next = heap[m].next
<1>1. /\ q \in Seq(Node) /\ Len(q) \in Nat /\ Distinct(q) /\ Links(heap, q) /\ NULL \notin Node
      /\ NULL \in Ref /\ head = At(q, 1) /\ tail = At(q, Len(q)) /\ nelement = Len(q)
      /\ live = {q[i] : i \in 1 .. Len(q)} /\ element \in Element
  <2>1. NULL \notin Node
    BY NullAssumption
  <2>2. element \in Element
    BY DEF list_prepend
  <2> QED BY <2>1, <2>2 DEF Chain, Ref
<1>2. PICK n \in Node \ live :
        /\ LET fresh == [heap EXCEPT ![n] = [Blank EXCEPT !.next = head]]
           IN  IF head = NULL
                 THEN tail' = n /\ list_addnode(n, element, fresh)
                 ELSE /\ UNCHANGED tail
                      /\ list_addnode(n, element, [fresh EXCEPT ![head].previous = n])
        /\ head' = n
  BY DEF list_prepend
<1>3. PICK fresh : fresh = [heap EXCEPT ![n] = [Blank EXCEPT !.next = head]]
  OBVIOUS
<1>4. PICK linked : linked = IF head = NULL THEN fresh ELSE [fresh EXCEPT ![head].previous = n]
  OBVIOUS
<1>5. tail' = (IF head = NULL THEN n ELSE tail) /\ list_addnode(n, element, linked)
  BY <1>2, <1>3, <1>4
<1>6. head \in Ref /\ head # n /\ (head # NULL => head \in Node /\ head = q[1] /\ Len(q) > 0)
  <2>1. head # NULL => 1 \in 1 .. Len(q) /\ head = q[1]
    BY <1>1 DEF At
  <2> QED BY <1>1, <2>1 DEF Ref
<1>7. fresh \in [Node -> NodeFields]
  BY <1>1, <1>3, <1>6 DEF NodeFields, Blank
<1>8. fresh[n] = [next |-> head, previous |-> NULL, element |-> NULL]
  BY <1>3 DEF Blank
<1>9. \A m \in Node \ {n} : fresh[m] = heap[m]
  BY <1>3
<1>10. linked \in [Node -> NodeFields] /\ linked[n] = fresh[n]
  BY <1>1, <1>4, <1>6, <1>7 DEF NodeFields, Ref
<1>11. \A m \in Node \ {n} : /\ linked[m].next = heap[m].next /\ linked[m].element = heap[m].element
                             /\ linked[m].previous = IF m = head THEN n ELSE heap[m].previous
  BY <1>1, <1>4, <1>6, <1>7, <1>9 DEF NodeFields
<1>12. heap' = [linked EXCEPT ![n].element = element]
  BY <1>5 DEF list_addnode
<1>13. heap' \in [Node -> NodeFields]
  BY <1>1, <1>10, <1>12 DEF NodeFields
<1>14. heap'[n].next = head /\ heap'[n].previous = NULL /\ heap'[n].element = element
  BY <1>8, <1>10, <1>12 DEF NodeFields
<1>15. \A m \in Node \ {n} : heap'[m] = linked[m]
  BY <1>10, <1>12
<1>16. \A i \in 1 .. Len(q) : q[i] # n
  BY <1>1
<1>17. PICK w : w = <<n>> \o q
  OBVIOUS
<1>18. /\ w \in Seq(Node) /\ Len(w) = Len(q) + 1 /\ Distinct(w)
       /\ \A j \in Nat : At(w, j) = IF j = 1 THEN n ELSE At(q, j - 1)
       /\ {w[j] : j \in 1 .. Len(w)} = {q[j] : j \in 1 .. Len(q)} \cup {n}
  BY <1>1, <1>16, <1>17, PrependAt
<1>19. Links(heap', w)
  <2>1. heap'[n].next = At(q, 1) /\ heap'[n].previous = NULL /\ heap'[n].element \in Element
    BY <1>1, <1>14
  <2>2. \A m \in Node \ {n} :
          /\ heap'[m].next = heap[m].next /\ heap'[m].element = heap[m].element
          /\ heap'[m].previous = IF m = At(q, 1) THEN n ELSE heap[m].previous
    BY <1>1, <1>11, <1>15
  <2> QED BY <1>1, <1>16, <1>17, <2>1, <2>2, PrependLinks
<1>20. head' = At(w, 1) /\ tail' = At(w, Len(w))
  <2>1. head' = At(w, 1)
    BY <1>2, <1>18
  <2>2. At(w, Len(q) + 1) = IF Len(q) + 1 = 1 THEN n ELSE At(q, Len(q) + 1 - 1)
    BY <1>1, <1>18
  <2>3. head = NULL <=> Len(q) = 0
    BY <1>1, <1>6 DEF At
  <2> QED BY <1>1, <1>5, <1>18, <2>1, <2>2, <2>3
<1>21. live' = {w[j] : j \in 1 .. Len(w)} /\ nelement' = Len(w) /\ result' = "ok"
  BY <1>1, <1>5, <1>18 DEF list_addnode
<1>22. Chain(w)'
  BY <1>18, <1>19, <1>20, <1>21 DEF Chain
<1>23. \A m \in live : m \in Node \ {n}
  BY <1>1
<1> QED BY <1>11, <1>13, <1>14, <1>15, <1>17, <1>21, <1>22, <1>23

LEMMA Appended ==
  ASSUME NEW q, Chain(q), heap \in [Node -> NodeFields], NEW element \in Element \cup {NULL},
         list_append(element)
  PROVE  \E n \in Node \ live :
           /\ Chain(Append(q, n))' /\ heap' \in [Node -> NodeFields]
           /\ heap'[n].element = element /\ result' = "ok"
           /\ \A m \in live : /\ heap'[m].element = heap[m].element
                              /\ m # tail => heap'[m].next = heap[m].next
<1>1. /\ q \in Seq(Node) /\ Len(q) \in Nat /\ Distinct(q) /\ Links(heap, q) /\ NULL \notin Node
      /\ NULL \in Ref /\ head = At(q, 1) /\ tail = At(q, Len(q)) /\ nelement = Len(q)
      /\ live = {q[i] : i \in 1 .. Len(q)} /\ element \in Element
  <2>1. NULL \notin Node
    BY NullAssumption
  <2>2. element \in Element
    BY DEF list_append
  <2> QED BY <2>1, <2>2 DEF Chain, Ref
<1>2. PICK n \in Node \ live :
        /\ LET fresh == [heap EXCEPT ![n] = [Blank EXCEPT !.previous = tail]]
           IN  IF tail = NULL
                 THEN head' = n /\ list_addnode(n, element, fresh)
                 ELSE /\ UNCHANGED head
                      /\ list_addnode(n, element, [fresh EXCEPT ![tail].next = n])
        /\ tail' = n
  BY DEF list_append
<1>3. PICK fresh : fresh = [heap EXCEPT ![n] = [Blank EXCEPT !.previous = tail]]
  OBVIOUS
<1>4. PICK linked : linked = IF tail = NULL THEN fresh ELSE [fresh EXCEPT ![tail].next = n]
  OBVIOUS
<1>5. head' = (IF tail = NULL THEN n ELSE head) /\ list_addnode(n, element, linked)
  BY <1>2, <1>3, <1>4
<1>6. tail \in Ref /\ tail # n /\ (tail # NULL => tail \in Node /\ tail = q[Len(q)] /\ Len(q) > 0)
  <2>1. tail # NULL => Len(q) \in 1 .. Len(q) /\ tail = q[Len(q)]
    BY <1>1 DEF At
  <2> QED BY <1>1, <2>1 DEF Ref
<1>7. fresh \in [Node -> NodeFields]
  BY <1>1, <1>3, <1>6 DEF NodeFields, Blank
<1>8. fresh[n] = [next |-> NULL, previous |-> tail, element |-> NULL]
  BY <1>3 DEF Blank
<1>9. \A m \in Node \ {n} : fresh[m] = heap[m]
  BY <1>3
<1>10. linked \in [Node -> NodeFields] /\ linked[n] = fresh[n]
  BY <1>1, <1>4, <1>6, <1>7 DEF NodeFields, Ref
<1>11. \A m \in Node \ {n} : /\ linked[m].previous = heap[m].previous /\ linked[m].element = heap[m].element
                             /\ linked[m].next = IF m = tail THEN n ELSE heap[m].next
  BY <1>1, <1>4, <1>6, <1>7, <1>9 DEF NodeFields
<1>12. heap' = [linked EXCEPT ![n].element = element]
  BY <1>5 DEF list_addnode
<1>13. heap' \in [Node -> NodeFields]
  BY <1>1, <1>10, <1>12 DEF NodeFields
<1>14. heap'[n].next = NULL /\ heap'[n].previous = tail /\ heap'[n].element = element
  BY <1>8, <1>10, <1>12 DEF NodeFields
<1>15. \A m \in Node \ {n} : heap'[m] = linked[m]
  BY <1>10, <1>12
<1>16. \A i \in 1 .. Len(q) : q[i] # n
  BY <1>1
<1>17. PICK w : w = Append(q, n)
  OBVIOUS
<1>18. /\ w \in Seq(Node) /\ Len(w) = Len(q) + 1 /\ Distinct(w)
       /\ \A j \in Int : At(w, j) = IF j = Len(q) + 1 THEN n ELSE At(q, j)
       /\ {w[j] : j \in 1 .. Len(w)} = {q[j] : j \in 1 .. Len(q)} \cup {n}
  BY <1>1, <1>16, <1>17, AppendAt
<1>19. Links(heap', w)
  <2>1. \A m \in Node \ {n} :
          /\ heap'[m].previous = heap[m].previous /\ heap'[m].element = heap[m].element
          /\ heap'[m].next = IF m = At(q, Len(q)) THEN n ELSE heap[m].next
    BY <1>1, <1>11, <1>15
  <2>2. heap'[n].next = NULL /\ heap'[n].previous = At(q, Len(q)) /\ heap'[n].element \in Element
    BY <1>1, <1>14
  <2>3. PICK k : k = heap'
    OBVIOUS
  <2>4. Links(k, Append(q, n))
    BY <1>1, <1>16, <2>1, <2>2, <2>3, AppendLinks
  <2> QED BY <1>17, <2>3, <2>4
<1>20. head' = At(w, 1) /\ tail' = At(w, Len(w))
  <2>1. tail' = At(w, Len(w))
    BY <1>1, <1>2, <1>18
  <2>2. At(w, 1) = IF 1 = Len(q) + 1 THEN n ELSE At(q, 1)
    BY <1>1, <1>18
  <2>3. tail = NULL <=> Len(q) = 0
    BY <1>1, <1>6 DEF At
  <2> QED BY <1>1, <1>5, <2>1, <2>2, <2>3
<1>21. live' = {w[j] : j \in 1 .. Len(w)} /\ nelement' = Len(w) /\ result' = "ok"
  BY <1>1, <1>5, <1>18 DEF list_addnode
<1>22. Chain(w)'
  BY <1>18, <1>19, <1>20, <1>21 DEF Chain
<1>23. \A m \in live : m \in Node \ {n}
  BY <1>1
<1> QED BY <1>11, <1>13, <1>14, <1>15, <1>17, <1>21, <1>22, <1>23

LEMMA Nulls ==
  /\ NULL \notin Node /\ NULL \notin Element /\ NULL \notin Iterator
  /\ NULL \notin [next : Int, previous : Int]
  /\ NULL \notin {"ok", "EINVAL", "ENOMEM", "EADDRNOTAVAIL"}
BY NullAssumption

LEMMA ChainStays ==
  ASSUME NEW q, Chain(q), UNCHANGED list
  PROVE  Chain(q)'
BY DEF Chain, list

LEMMA CursorStays ==
  ASSUME Cursor, UNCHANGED <<list, li>>
  PROVE  Cursor'
BY DEF Cursor, Ahead, Behind, list

\* Whatever leaves the list and the iterator alone and does not scan.
LEMMA QuietKeeps ==
  ASSUME IInv, UNCHANGED list, Phases', Cursor', pc' # "scan"
  PROVE  IInv'
<1>1. PICK q : Chain(q)
  BY DEF IInv
<1>2. Chain(q)'
  BY <1>1, ChainStays
<1>3. Scanning(q)'
  BY DEF Scanning
<1> QED BY <1>2, <1>3 DEF IInv, list

LEMMA RemovedKeeps ==
  ASSUME IInv, NEW q, Chain(q), NEW i \in 1 .. Len(q), Removed(q, i), Phases', pc' # "scan"
  PROVE  IInv'
<1>1. Chain(Without(q, i))' /\ Cursor'
  BY RemovedChain, RemovedCursor DEF IInv
<1>2. PICK w : w = Without(q, i)
  OBVIOUS
<1>3. Scanning(w)'
  BY DEF Scanning
<1>4. heap' \in [Node -> NodeFields]
  BY DEF Removed
<1> QED BY <1>1, <1>2, <1>3, <1>4 DEF IInv

\* An iterator does not see a new node, unless it was reset to the other end.
LEMMA AddedCursor ==
  ASSUME NEW n \in Node \ live, Cursor, UNCHANGED li, live' = live \cup {n},
         \A m \in live : heap[m].next # NULL => heap'[m].next = heap[m].next
  PROVE  Cursor'
<1> SUFFICES ASSUME li # NULL PROVE Cursor'
  BY DEF Cursor
<1>1. li \in Iterator /\ (Ahead' <=> Ahead) /\ (Behind' <=> Behind)
  BY DEF Cursor, Ahead, Behind
<1>2. li.moved /\ Ahead /\ Behind => heap'[li.previous].next = li.next
  BY DEF Cursor, Ahead
<1> QED BY <1>1, <1>2 DEF Cursor

LEMMA PrependKeeps ==
  ASSUME IInv, NEW element \in Element \cup {NULL}, list_prepend(element)
  PROVE  IInv'
<1>1. PICK q : Chain(q)
  BY DEF IInv
<1>2. PICK n \in Node \ live :
        /\ Chain(<<n>> \o q)' /\ heap' \in [Node -> NodeFields]
        /\ \A m \in live : heap'[m].element = heap[m].element /\ heap'[m].next = heap[m].next
  BY <1>1, Prepended DEF IInv
<1>3. /\ UNCHANGED <<exists, li, call>> /\ Ready /\ live' = live \cup {n}
  <2>1. UNCHANGED <<exists, li, call>> /\ Ready
    BY DEF list_prepend
  <2>2. PICK w : w = <<n>> \o q
    OBVIOUS
  <2>3. live' = {w[i] : i \in 1 .. Len(w)} /\ live = {q[i] : i \in 1 .. Len(q)} /\ q \in Seq(Node) /\ Distinct(q)
    BY <1>1, <1>2, <2>2 DEF Chain
  <2>4. live' = live \cup {n}
    BY <2>2, <2>3, PrependAt
  <2> QED BY <2>1, <2>4
<1>4. pc' = "idle" /\ exists'
  BY <1>3 DEF call, Ready
<1>5. Cursor'
  BY <1>2, <1>3, AddedCursor DEF IInv
<1>6. Phases'
  BY <1>4 DEF Phases
<1>7. PICK w : w = <<n>> \o q
  OBVIOUS
<1>8. Chain(w)' /\ Scanning(w)'
  BY <1>2, <1>4, <1>7 DEF Scanning
<1> QED BY <1>2, <1>5, <1>6, <1>8 DEF IInv

LEMMA AppendKeeps ==
  ASSUME IInv, NEW element \in Element \cup {NULL}, list_append(element)
  PROVE  IInv'
<1>1. PICK q : Chain(q)
  BY DEF IInv
<1>2. PICK n \in Node \ live :
        /\ Chain(Append(q, n))' /\ heap' \in [Node -> NodeFields]
        /\ \A m \in live : m # tail => heap'[m].next = heap[m].next
  BY <1>1, Appended DEF IInv
<1>3. UNCHANGED <<exists, li, call>> /\ Ready /\ live' = live \cup {n}
  <2>1. UNCHANGED <<exists, li, call>> /\ Ready
    BY DEF list_append
  <2>2. PICK w : w = Append(q, n)
    OBVIOUS
  <2>3. live' = {w[i] : i \in 1 .. Len(w)} /\ live = {q[i] : i \in 1 .. Len(q)} /\ q \in Seq(Node) /\ Distinct(q)
    BY <1>1, <1>2, <2>2 DEF Chain
  <2>4. live' = live \cup {n}
    BY <2>2, <2>3, AppendAt
  <2> QED BY <2>1, <2>4
<1>4. pc' = "idle" /\ exists'
  BY <1>3 DEF call, Ready
<1>5. Cursor'
  <2>1. ASSUME NEW m \in live, heap[m].next # NULL PROVE m # tail
    <3>1. q \in Seq(Node) /\ Len(q) \in Nat /\ Links(heap, q) /\ tail = At(q, Len(q))
      BY <1>1 DEF Chain
    <3>2. PICK i \in 1 .. Len(q) : m = q[i]
      BY <1>1 DEF Chain
    <3>3. Len(q) \in 1 .. Len(q) /\ tail = q[Len(q)]
      BY <3>1, <3>2 DEF At
    <3>4. heap[tail].next = At(q, Len(q) + 1)
      BY <3>1, <3>3 DEF Links
    <3>5. At(q, Len(q) + 1) = NULL
      BY <3>1 DEF At
    <3> QED BY <2>1, <3>4, <3>5
  <2> QED BY <1>2, <1>3, <2>1, AddedCursor DEF IInv
<1>6. Phases'
  BY <1>4 DEF Phases
<1>7. PICK w : w = Append(q, n)
  OBVIOUS
<1>8. Chain(w)' /\ Scanning(w)'
  BY <1>2, <1>4, <1>7 DEF Scanning
<1> QED BY <1>2, <1>5, <1>6, <1>8 DEF IInv

\* Removing the first or the last node while no loop runs, or in list_free.
LEMMA EndsKeep ==
  ASSUME IInv, \/ head # NULL /\ UnlinkHead
               \/ tail # NULL /\ UnlinkTail,
         UNCHANGED exists, exists, pc' \in {"idle", "free"}, pc' = "free" => li = NULL /\ result' # NULL
  PROVE  IInv'
<1>1. PICK q : Chain(q)
  BY DEF IInv
<1>2. PICK i \in 1 .. Len(q) : Removed(q, i)
  <2>1. q \in Seq(Node) /\ Len(q) \in Nat
    BY <1>1 DEF Chain
  <2>2. CASE head # NULL /\ UnlinkHead
    <3>1. Len(q) > 0 /\ Removed(q, 1)
      BY <1>1, <2>2, HeadRemoved DEF IInv
    <3>2. 1 \in 1 .. Len(q)
      BY <2>1, <3>1
    <3> QED BY <3>1, <3>2
  <2>3. CASE tail # NULL /\ UnlinkTail
    <3>1. Len(q) > 0 /\ Removed(q, Len(q))
      BY <1>1, <2>3, TailRemoved DEF IInv
    <3>2. Len(q) \in 1 .. Len(q)
      BY <2>1, <3>1
    <3> QED BY <3>1, <3>2
  <2> QED BY <2>2, <2>3
<1>3. li = NULL => li' = NULL
  BY <1>2 DEF Removed
<1>4. Phases' /\ pc' # "scan"
  BY <1>3 DEF Phases
<1> QED BY <1>1, <1>2, <1>4, RemovedKeeps

\* What a node of the list holds.
LEMMA LiveNode ==
  ASSUME IInv, NEW n \in live
  PROVE  n \in Node /\ heap[n] \in NodeFields /\ heap[n].element \in Element /\ heap[n].element # NULL
<1>1. PICK q : Chain(q)
  BY DEF IInv
<1>2. PICK i \in 1 .. Len(q) : n = q[i]
  BY <1>1 DEF Chain
<1>3. n \in Node /\ heap[n].element \in Element
  BY <1>1, <1>2 DEF Chain, Links
<1> QED BY <1>3, Nulls DEF IInv

\* The node an end points to is one of the list, and so are its neighbours.
LEMMA LiveEnds ==
  ASSUME IInv
  PROVE  /\ head \in live \cup {NULL} /\ tail \in live \cup {NULL}
         /\ head = NULL <=> tail = NULL
         /\ \A n \in live : heap[n].next \in live \cup {NULL} /\ heap[n].previous \in live \cup {NULL}
         /\ \A n \in live : heap[n].next # NULL => heap[heap[n].next].previous = n
         /\ \A n \in live : heap[n].previous # NULL => heap[heap[n].previous].next = n
<1>1. PICK q : Chain(q)
  BY DEF IInv
<1>2. /\ q \in Seq(Node) /\ Len(q) \in Nat /\ Distinct(q) /\ Links(heap, q)
      /\ head = At(q, 1) /\ tail = At(q, Len(q)) /\ live = {q[i] : i \in 1 .. Len(q)}
      /\ NULL \notin Node
  BY <1>1, Nulls DEF Chain
<1>3. \A j \in Int : At(q, j) \in live \cup {NULL} /\ (j \in 1 .. Len(q) => At(q, j) = q[j])
  BY <1>2 DEF At
<1>4. head = NULL <=> Len(q) = 0
  BY <1>2 DEF At
<1>5. tail = NULL <=> Len(q) = 0
  BY <1>2 DEF At
<1>6. ASSUME NEW n \in live
      PROVE  /\ heap[n].next \in live \cup {NULL} /\ heap[n].previous \in live \cup {NULL}
             /\ heap[n].next # NULL => heap[heap[n].next].previous = n
             /\ heap[n].previous # NULL => heap[heap[n].previous].next = n
  <2>1. PICK i \in 1 .. Len(q) : n = q[i]
    BY <1>2
  <2>2. heap[n].next = At(q, i + 1) /\ heap[n].previous = At(q, i - 1)
    BY <1>2, <2>1 DEF Links
  <2>3. ASSUME heap[n].next # NULL PROVE heap[heap[n].next].previous = n
    <3>1. PICK j \in 1 .. Len(q) : j = i + 1 /\ heap[n].next = q[j]
      BY <2>2, <2>3 DEF At
    <3>2. heap[q[j]].previous = At(q, j - 1)
      BY <1>2 DEF Links
    <3>3. At(q, j - 1) = q[i]
      BY <3>1 DEF At
    <3> QED BY <2>1, <3>1, <3>2, <3>3
  <2>4. ASSUME heap[n].previous # NULL PROVE heap[heap[n].previous].next = n
    <3>1. PICK j \in 1 .. Len(q) : j = i - 1 /\ heap[n].previous = q[j]
      BY <2>2, <2>4 DEF At
    <3>2. heap[q[j]].next = At(q, j + 1)
      BY <1>2 DEF Links
    <3>3. At(q, j + 1) = q[i]
      BY <3>1 DEF At
    <3> QED BY <2>1, <3>1, <3>2, <3>3
  <2> QED BY <1>3, <2>2, <2>3, <2>4
<1>7. head \in live \cup {NULL} /\ tail \in live \cup {NULL}
  BY <1>2, <1>3
<1> QED BY <1>4, <1>5, <1>6, <1>7

LEMMA InitIInv == Init => IInv
<1> SUFFICES ASSUME Init PROVE IInv
  OBVIOUS
<1>1. heap \in [Node -> NodeFields]
  BY DEF Init, NodeFields, Blank, Ref
<1>2. Phases /\ Cursor
  BY DEF Init, Phases, Cursor
<1>3. Chain(<<>>) /\ Scanning(<<>>)
  BY DEF Init, Chain, Scanning, Links, Distinct, At
<1> QED BY <1>1, <1>2, <1>3 DEF IInv

\* The calls on the list that are one action.
LEMMA ShiftKeeps == ASSUME IInv, list_shift PROVE IInv'
<1>1. CASE head = NULL
  <2>1. UNCHANGED <<list, li, call>> /\ Ready
    BY <1>1 DEF list_shift
  <2>2. Phases' /\ Cursor' /\ pc' # "scan"
    BY <2>1, CursorStays DEF IInv, Phases, Ready, call, list
  <2> QED BY <2>1, <2>2, QuietKeeps
<1>2. CASE head # NULL
  <2>1. UnlinkHead /\ UNCHANGED exists /\ exists /\ pc' = "idle"
    BY <1>2 DEF list_shift, Ready, call
  <2> QED BY <1>2, <2>1, EndsKeep
<1> QED BY <1>1, <1>2

LEMMA PopKeeps == ASSUME IInv, list_pop PROVE IInv'
<1>1. CASE tail = NULL
  <2>1. UNCHANGED <<list, li, call>> /\ Ready
    BY <1>1 DEF list_pop
  <2>2. Phases' /\ Cursor' /\ pc' # "scan"
    BY <2>1, CursorStays DEF IInv, Phases, Ready, call, list
  <2> QED BY <2>1, <2>2, QuietKeeps
<1>2. CASE tail # NULL
  <2>1. UnlinkTail /\ UNCHANGED exists /\ exists /\ pc' = "idle"
    BY <1>2 DEF list_pop, Ready, call
  <2> QED BY <1>2, <2>1, EndsKeep
<1> QED BY <1>1, <1>2

LEMMA RemoveKeeps ==
  ASSUME IInv, NEW element \in Element \cup {NULL}, list_remove(element)
  PROVE  IInv'
<1>1. Ready /\ element \in Element
  BY DEF list_remove
<1>2. CASE head = NULL /\ UNCHANGED <<list, li, call>>
  <2>1. Phases' /\ Cursor' /\ pc' # "scan"
    BY <1>1, <1>2, CursorStays DEF IInv, Phases, Ready, call, list
  <2> QED BY <1>2, <2>1, QuietKeeps
<1>3. CASE head # NULL /\ UnlinkHead /\ UNCHANGED <<exists, call>>
  BY <1>1, <1>3, EndsKeep DEF Ready, call
<1>4. CASE /\ head # NULL /\ heap[head].element # element
           /\ pc' = "scan" /\ np' = head /\ sought' = element /\ UNCHANGED <<list, li, result>>
  <2>1. PICK q : Chain(q)
    BY DEF IInv
  <2>2. Chain(q)' /\ heap' = heap /\ exists' = exists
    BY <1>4, <2>1, ChainStays DEF list
  <2>3. q \in Seq(Node) /\ Len(q) \in Nat /\ head = At(q, 1)
    BY <2>1 DEF Chain
  <2>4. Len(q) > 0 /\ head = q[1] /\ 1 \in 1 .. Len(q) + 1
    BY <1>4, <2>3 DEF At
  <2>5. Scanning(q)'
    <3>1. \A j \in 1 .. Len(q) : j < 1 \/ j = 1 => heap'[q[j]].element # sought'
      BY <1>4, <2>2, <2>4
    <3> QED BY <1>1, <1>4, <2>3, <2>4, <3>1 DEF Scanning
  <2>6. Phases' /\ Cursor'
    BY <1>1, <1>4, <2>2, CursorStays DEF IInv, Phases, Ready
  <2> QED BY <2>2, <2>5, <2>6 DEF IInv
<1> QED BY <1>2, <1>3, <1>4 DEF list_remove

LEMMA ScanNextKeeps == ASSUME IInv, ScanNext PROVE IInv'
<1>1. PICK q : Chain(q) /\ Scanning(q)
  BY DEF IInv
<1>2. /\ pc = "scan" /\ np # NULL /\ heap[np].element # sought /\ np' = heap[np].next
      /\ UNCHANGED <<list, li, pc, sought, result>>
  BY DEF ScanNext
<1>3. Chain(q)' /\ heap' = heap /\ exists' = exists
  BY <1>1, <1>2, ChainStays DEF list
<1>4. q \in Seq(Node) /\ Len(q) \in Nat /\ Links(heap, q)
  BY <1>1 DEF Chain
<1>5. PICK i \in 1 .. Len(q) + 1 :
        /\ np = At(q, i)
        /\ \A j \in 1 .. Len(q) : j < i \/ j = 1 => heap[q[j]].element # sought
  BY <1>1, <1>2 DEF Scanning
<1>6. i \in 1 .. Len(q) /\ np = q[i]
  BY <1>2, <1>5 DEF At
<1>7. np' = At(q, i + 1)
  BY <1>2, <1>4, <1>6 DEF Links
<1>8. \A j \in 1 .. Len(q) : j < i + 1 \/ j = 1 => heap[q[j]].element # sought
  <2> SUFFICES ASSUME NEW j \in 1 .. Len(q), j < i + 1 \/ j = 1 PROVE heap[q[j]].element # sought
    OBVIOUS
  <2>1. j < i \/ j = i \/ j = 1
    BY <1>4, <1>6
  <2> QED BY <1>2, <1>5, <1>6, <2>1
<1>9. i + 1 \in 1 .. Len(q) + 1
  BY <1>4, <1>6
<1>10. Scanning(q)'
  <2>1. sought \in Element /\ Len(q) > 0
    BY <1>1, <1>2 DEF Scanning
  <2> QED BY <1>2, <1>3, <1>7, <1>8, <1>9, <2>1 DEF Scanning
<1>11. Phases' /\ Cursor'
  BY <1>2, <1>3, CursorStays DEF IInv, Phases
<1> QED BY <1>3, <1>10, <1>11 DEF IInv

LEMMA ScanUnlinksKeeps == ASSUME IInv, ScanUnlinks PROVE IInv'
<1>1. PICK q : Chain(q) /\ Scanning(q)
  BY DEF IInv
<1>2. PICK i \in 1 .. Len(q) : Removed(q, i)
  BY <1>1, ScanRemoved DEF IInv
<1>3. pc' = "idle" /\ exists' = exists /\ pc = "scan"
  BY DEF ScanUnlinks, ScanDone
<1>4. Phases' /\ pc' # "scan"
  BY <1>3 DEF IInv, Phases
<1> QED BY <1>1, <1>2, <1>4, RemovedKeeps

LEMMA FreeKeeps ==
  ASSUME IInv, list_free \/ FreePops \/ FreeEnds \/ list_init
  PROVE  IInv'
<1>1. CASE list_free
  <2>1. UNCHANGED <<list, li>> /\ pc' = "free" /\ li = NULL /\ result' = "ok" /\ exists
    BY <1>1 DEF list_free, Ready
  <2>2. Phases' /\ Cursor' /\ pc' # "scan"
    BY <2>1, CursorStays, Nulls DEF IInv, Phases, list
  <2> QED BY <2>1, <2>2, QuietKeeps
<1>2. CASE FreePops
  <2>1. tail # NULL /\ UnlinkTail /\ UNCHANGED <<exists, call>> /\ pc = "free" /\ result' = heap[tail].element
    BY <1>2 DEF FreePops
  <2>2. exists /\ li = NULL /\ pc' = "free"
    BY <2>1 DEF IInv, Phases, call
  <2>3. result' # NULL
    BY <2>1, LiveEnds, LiveNode
  <2> QED BY <2>1, <2>2, <2>3, EndsKeep
<1>3. CASE FreeEnds
  <2>1. /\ pc = "free" /\ NULL \in {tail, result} /\ exists' = FALSE /\ head' = NULL /\ tail' = NULL
        /\ nelement' = 0 /\ pc' = "idle" /\ UNCHANGED <<heap, live, li>>
    BY <1>3 DEF FreeEnds
  <2>2. tail = NULL /\ li = NULL
    BY <2>1 DEF IInv, Phases
  <2>3. PICK q : Chain(q)
    BY DEF IInv
  <2>4. q = <<>>
    <3>1. q \in Seq(Node) /\ Len(q) \in Nat /\ tail = At(q, Len(q))
      BY <2>3 DEF Chain
    <3>2. Len(q) = 0
      BY <2>2, <3>1, Nulls DEF At
    <3> QED BY <3>1, <3>2
  <2>5. live = {}
    BY <2>3, <2>4 DEF Chain
  <2>6. Chain(<<>>)'
    BY <2>1, <2>5 DEF Chain, Links, Distinct, At
  <2>7. Scanning(<<>>)' /\ Phases' /\ Cursor'
    BY <2>1, <2>2 DEF Scanning, Phases, Cursor
  <2> QED BY <2>1, <2>6, <2>7 DEF IInv
<1>4. CASE list_init
  <2>1. /\ pc = "idle" /\ ~exists /\ li = NULL /\ exists' = TRUE /\ head' = NULL /\ tail' = NULL
        /\ nelement' = 0 /\ UNCHANGED <<heap, live, li, call>>
    BY <1>4 DEF list_init
  <2>2. live = {}
    <3>1. PICK q : Chain(q)
      BY DEF IInv
    <3>2. Len(q) = 0
      BY <2>1, <3>1 DEF IInv, Phases, Chain
    <3> QED BY <3>1, <3>2 DEF Chain
  <2>3. Chain(<<>>)'
    BY <2>1, <2>2 DEF Chain, Links, Distinct, At
  <2>4. Scanning(<<>>)' /\ Phases' /\ Cursor'
    BY <2>1 DEF Scanning, Phases, Cursor, call
  <2> QED BY <2>1, <2>3, <2>4 DEF IInv
<1> QED BY <1>1, <1>2, <1>3, <1>4

\* A move of the iterator leaves its two pointers on neighbours.
LEMMA MoveKeeps ==
  ASSUME IInv, list_iterator_next \/ list_iterator_previous
  PROVE  IInv'
<1>1. UNCHANGED <<list, call>> /\ Ready /\ li # NULL
  BY DEF list_iterator_next, list_iterator_previous
<1>2. CASE UNCHANGED li
  BY <1>1, <1>2, CursorStays, QuietKeeps DEF IInv, Phases, Ready, call, list
<1>3. CASE ~UNCHANGED li
  <2>1. \E n \in live : \/ /\ li' = [next |-> heap[n].next, previous |-> n, nextFreed |-> FALSE,
                                     previousFreed |-> FALSE, moved |-> TRUE]
                        \/ /\ li' = [next |-> n, previous |-> heap[n].previous, nextFreed |-> FALSE,
                                     previousFreed |-> FALSE, moved |-> TRUE]
    <3>1. CASE list_iterator_next
      <4>1. /\ li.next # NULL /\ ~li.nextFreed
            /\ li' = [next |-> heap[li.next].next, previous |-> li.next,
                      nextFreed |-> FALSE, previousFreed |-> FALSE, moved |-> TRUE]
        BY <1>3, <3>1 DEF list_iterator_next
      <4>2. li.next \in live
        BY <1>1, <4>1 DEF IInv, Cursor, Ahead
      <4> QED BY <4>1, <4>2
    <3>2. CASE list_iterator_previous
      <4>1. /\ li.previous # NULL /\ ~li.previousFreed
            /\ li' = [next |-> li.previous, previous |-> heap[li.previous].previous,
                      nextFreed |-> FALSE, previousFreed |-> FALSE, moved |-> TRUE]
        BY <1>3, <3>2 DEF list_iterator_previous
      <4>2. li.previous \in live
        BY <1>1, <4>1 DEF IInv, Cursor, Behind
      <4> QED BY <4>1, <4>2
    <3> QED BY <3>1, <3>2
  <2>2. PICK n \in live :
          \/ /\ li' = [next |-> heap[n].next, previous |-> n, nextFreed |-> FALSE,
                       previousFreed |-> FALSE, moved |-> TRUE]
          \/ /\ li' = [next |-> n, previous |-> heap[n].previous, nextFreed |-> FALSE,
                       previousFreed |-> FALSE, moved |-> TRUE]
    BY <2>1
  <2>3. n \in Node /\ heap[n].next \in live \cup {NULL} /\ heap[n].previous \in live \cup {NULL}
        /\ heap[n].next \in Ref /\ heap[n].previous \in Ref /\ n \in Ref
    BY LiveNode, LiveEnds DEF NodeFields, Ref
  <2>4. li' \in Iterator
    <3>1. \A a, b \in Ref : [next |-> a, previous |-> b, nextFreed |-> FALSE,
                            previousFreed |-> FALSE, moved |-> TRUE] \in Iterator
      BY DEF Iterator
    <3> QED BY <2>2, <2>3, <3>1
  <2>5. heap' = heap /\ live' = live
    BY <1>1 DEF list
  <2>6. li'.previous # NULL => heap[li'.previous].next = li'.next
    BY <2>2, LiveEnds
  <2>7. li'.next \in live \cup {NULL} /\ li'.previous \in live \cup {NULL}
    BY <2>2, <2>3
  <2>8. Cursor'
    BY <2>4, <2>5, <2>6, <2>7 DEF Cursor, Ahead, Behind
  <2>9. Phases' /\ pc' # "scan"
    BY <1>1 DEF IInv, Phases, Ready, call, list
  <2> QED BY <1>1, <2>8, <2>9, QuietKeeps
<1> QED BY <1>2, <1>3

LEMMA IteratorKeeps ==
  ASSUME IInv, list_iterator_reset \/ list_iterator_free
  PROVE  IInv'
<1>1. UNCHANGED <<list, call>> /\ pc = "idle"
  BY DEF list_iterator_reset, list_iterator_free, Ready
<1>2. CASE list_iterator_reset
  <2>1. /\ exists
        /\ li' = [next |-> head, previous |-> tail, nextFreed |-> FALSE,
                  previousFreed |-> FALSE, moved |-> FALSE]
    BY <1>2 DEF list_iterator_reset, Ready
  <2>2. head \in live \cup {NULL} /\ tail \in live \cup {NULL} /\ head \in Ref /\ tail \in Ref
    BY LiveEnds, LiveNode DEF Ref
  <2>3. li' \in Iterator
    BY <2>1, <2>2 DEF Iterator
  <2>4. li'.next \in live \cup {NULL} /\ li'.previous \in live \cup {NULL} /\ ~li'.moved
    BY <2>1, <2>2
  <2>5. Cursor'
    BY <1>1, <2>3, <2>4 DEF Cursor, Ahead, Behind, list
  <2>6. Phases' /\ pc' # "scan"
    BY <1>1, <2>1 DEF IInv, Phases, call, list
  <2> QED BY <1>1, <2>5, <2>6, QuietKeeps
<1>3. CASE list_iterator_free
  <2>1. li' = NULL
    BY <1>3 DEF list_iterator_free
  <2>2. Phases' /\ Cursor' /\ pc' # "scan"
    BY <1>1, <2>1 DEF IInv, Phases, Cursor, call, list
  <2> QED BY <1>1, <2>2, QuietKeeps
<1> QED BY <1>2, <1>3

LEMMA NextKeeps == IInv /\ [Next]_vars => IInv'
<1> SUFFICES ASSUME IInv, [Next]_vars PROVE IInv'
  OBVIOUS
<1>1. CASE Refuse \/ NoMemory \/ ScanFails \/ UNCHANGED vars
  <2>1. UNCHANGED <<list, li>> /\ exists' = exists
    BY <1>1 DEF Refuse, NoMemory, ScanFails, vars, list
  <2>2. Cursor'
    BY <2>1, CursorStays DEF IInv
  <2>3. CASE Refuse \/ NoMemory \/ ScanFails
    <3>1. pc' = "idle"
      BY <2>3 DEF Refuse, NoMemory, ScanFails, ScanDone, Ready, call
    <3>2. Phases'
      BY <2>1, <3>1 DEF IInv, Phases, list
    <3> QED BY <2>1, <2>2, <3>1, <3>2, QuietKeeps
  <2>4. CASE UNCHANGED vars
    <3>1. PICK q : Chain(q) /\ Scanning(q)
      BY DEF IInv
    <3>2. Chain(q)'
      BY <2>1, <3>1, ChainStays
    <3>3. Scanning(q)' /\ Phases'
      BY <2>4, <3>1 DEF Scanning, Phases, IInv, vars, list, call
    <3> QED BY <2>1, <2>2, <3>2, <3>3 DEF IInv, list
  <2> QED BY <1>1, <2>3, <2>4
<1>2. ASSUME NEW element \in Element \cup {NULL},
             list_prepend(element) \/ list_append(element) \/ list_remove(element)
      PROVE  IInv'
  BY <1>2, PrependKeeps, AppendKeeps, RemoveKeeps
<1> QED BY <1>1, <1>2, ShiftKeeps, PopKeeps, ScanNextKeeps, ScanUnlinksKeeps, FreeKeeps,
           MoveKeeps, IteratorKeeps DEF Next, Call, Step

LEMMA SpecIInv == Spec => []IInv
BY InitIInv, NextKeeps, PTL DEF Spec

\* Whatever was added and removed, the list reads the same from both ends,
\* and is every node allocated: nothing list.c unlinks is leaked, linked
\* twice or still reachable after free.
THEOREM ReadFromBothEnds == Spec => []TwoEnds
<1>1. IInv => TwoEnds
  BY ChainTwoEnds DEF IInv
<1> QED BY <1>1, SpecIInv, PTL

\* The iterator's pointers that were not freed are of nodes of the list, and
\* once it has moved it has no element between them.
THEOREM IteratorSkipsNothing == Spec => []IteratorGap
<1>1. IInv => IteratorGap
  BY DEF IInv, Cursor, IteratorGap, Ahead, Behind
<1> QED BY <1>1, SpecIInv, PTL
-----------------------------------------------------------------------------
(***************************************************************************)
(* The list is the sequence that list.h promises.                          *)
(***************************************************************************)
Values(h, q) == [i \in 1 .. Len(q) |-> h[q[i]].element]

Place(q, p, freed) ==
  IF freed THEN -1
  ELSE IF p = NULL THEN 0 ELSE CHOOSE i \in DOMAIN q : q[i] = p

LEMMA PlaceAt ==
  ASSUME NEW q \in Seq(Node), Distinct(q), NEW p
  PROVE  /\ Place(q, p, TRUE) = -1 /\ Place(q, NULL, FALSE) = 0
         /\ \A i \in 1 .. Len(q) : Place(q, q[i], FALSE) = i
<1>1. \A i \in 1 .. Len(q) : Place(q, q[i], FALSE) = i
  <2> SUFFICES ASSUME NEW i \in 1 .. Len(q) PROVE Place(q, q[i], FALSE) = i
    OBVIOUS
  <2>1. DOMAIN q = 1 .. Len(q) /\ q[i] # NULL
    BY Nulls
  <2>2. \A j \in 1 .. Len(q) : q[j] = q[i] => j = i
    BY DEF Distinct
  <2> QED BY <2>1, <2>2 DEF Place
<1> QED BY <1>1 DEF Place

LEMMA Mapped ==
  ASSUME NEW q, Chain(q)
  PROVE  /\ Items = (IF pc = "free" THEN <<>> ELSE Values(heap, q))
         /\ \A p, freed : Position(p, freed) = Place(q, p, freed)
<1>1. Forward = q /\ DOMAIN q = 1 .. Len(q)
  BY ForwardChain DEF Chain
<1> QED BY <1>1 DEF Items, Values, Position, Place

LEMMA MappedNext ==
  ASSUME NEW q, Chain(q)'
  PROVE  /\ Items' = (IF pc' = "free" THEN <<>> ELSE Values(heap', q))
         /\ \A p, freed : Position(p, freed)' = Place(q, p, freed)
<1>1. Forward' = q /\ DOMAIN q = 1 .. Len(q)
  BY ForwardChainNext DEF Chain
<1> QED BY <1>1 DEF Items, Values, Position, Place

\* What the iterator may hold: a pointer that was freed, none, or a node.
Pointer(q, p, freed) ==
  freed = TRUE \/ (freed = FALSE /\ p = NULL) \/ (freed = FALSE /\ \E i \in 1 .. Len(q) : p = q[i])

LEMMA PlacesOf ==
  ASSUME NEW q, Chain(q), Cursor, li # NULL
  PROVE  /\ Places = [next |-> Place(q, li.next, li.nextFreed),
                      previous |-> Place(q, li.previous, li.previousFreed)]
         /\ Pointer(q, li.next, li.nextFreed) /\ Pointer(q, li.previous, li.previousFreed)
         /\ Places.next \in Int /\ Places.previous \in Int /\ Places # NULL
<1>1. q \in Seq(Node) /\ Distinct(q) /\ live = {q[i] : i \in 1 .. Len(q)} /\ li \in Iterator
  BY DEF Chain, Cursor
<1>2. li.nextFreed \in BOOLEAN /\ li.previousFreed \in BOOLEAN
  BY <1>1 DEF Iterator
<1>3. Pointer(q, li.next, li.nextFreed) /\ Pointer(q, li.previous, li.previousFreed)
  <2>1. li.nextFreed = FALSE /\ li.next # NULL => li.next \in live
    BY DEF Cursor, Ahead
  <2>2. li.previousFreed = FALSE /\ li.previous # NULL => li.previous \in live
    BY DEF Cursor, Behind
  <2> QED BY <1>1, <1>2, <2>1, <2>2 DEF Pointer
<1>4. \A p, freed : Pointer(q, p, freed) => Place(q, p, freed) \in Int
  <2> SUFFICES ASSUME NEW p, NEW freed, Pointer(q, p, freed) PROVE Place(q, p, freed) \in Int
    OBVIOUS
  <2>1. CASE freed = TRUE
    <3>1. Place(q, p, freed) = -1
      BY <1>1, <2>1, PlaceAt
    <3> QED BY <3>1
  <2>2. CASE freed = FALSE /\ p = NULL
    <3>1. Place(q, p, freed) = 0
      BY <1>1, <2>2, PlaceAt
    <3> QED BY <3>1
  <2>3. CASE freed = FALSE /\ \E i \in 1 .. Len(q) : p = q[i]
    <3>1. PICK i \in 1 .. Len(q) : p = q[i]
      BY <2>3
    <3>2. Place(q, p, freed) = i
      BY <1>1, <2>3, <3>1, PlaceAt
    <3> QED BY <3>2
  <2> QED BY <2>1, <2>2, <2>3 DEF Pointer
<1>5. Places = [next |-> Place(q, li.next, li.nextFreed),
               previous |-> Place(q, li.previous, li.previousFreed)]
  BY Mapped DEF Places
<1>6. Places \in [next : Int, previous : Int]
  BY <1>3, <1>4, <1>5
<1> QED BY <1>3, <1>5, <1>6, Nulls

LEMMA PlacesNext ==
  ASSUME NEW q, Chain(q)', li' # NULL
  PROVE  Places' = [next |-> Place(q, li'.next, li'.nextFreed),
                    previous |-> Place(q, li'.previous, li'.previousFreed)]
BY MappedNext DEF Places

\* The places of what the iterator holds, when a node was put in front, put
\* behind or taken out.
LEMMA PlacePrepended ==
  ASSUME NEW q \in Seq(Node), Distinct(q), NEW n \in Node, \A i \in 1 .. Len(q) : q[i] # n,
         NEW p, NEW freed, Pointer(q, p, freed)
  PROVE  Place(<<n>> \o q, p, freed) =
           IF Place(q, p, freed) > 0 THEN Place(q, p, freed) + 1 ELSE Place(q, p, freed)
<1>1. PICK w : w = <<n>> \o q
  OBVIOUS
<1>2. w \in Seq(Node) /\ Distinct(w) /\ Len(w) = Len(q) + 1 /\ \A j \in 1 .. Len(q) : w[j + 1] = q[j]
  <2>1. w \in Seq(Node) /\ Distinct(w) /\ Len(w) = Len(q) + 1
    BY <1>1, PrependAt
  <2>2. \A j \in 1 .. Len(q) : w[j + 1] = q[j]
    BY <1>1
  <2> QED BY <2>1, <2>2
<1>3. /\ Place(q, p, TRUE) = -1 /\ Place(w, p, TRUE) = -1
      /\ Place(q, NULL, FALSE) = 0 /\ Place(w, NULL, FALSE) = 0
      /\ \A i \in 1 .. Len(q) : Place(q, q[i], FALSE) = i
      /\ \A i \in 1 .. Len(w) : Place(w, w[i], FALSE) = i
  BY <1>2, PlaceAt
<1>4. CASE freed = TRUE
  <2>1. Place(q, p, freed) = -1 /\ Place(w, p, freed) = -1
    BY <1>3, <1>4
  <2> QED BY <1>1, <2>1
<1>5. CASE freed = FALSE /\ p = NULL
  <2>1. Place(q, p, freed) = 0 /\ Place(w, p, freed) = 0
    BY <1>3, <1>5
  <2> QED BY <1>1, <2>1
<1>6. ASSUME freed = FALSE, NEW i \in 1 .. Len(q), p = q[i]
      PROVE  Place(w, p, freed) = Place(q, p, freed) + 1 /\ Place(q, p, freed) > 0
  <2>1. i + 1 \in 1 .. Len(w) /\ w[i + 1] = p
    BY <1>2, <1>6
  <2>2. Place(w, w[i + 1], FALSE) = i + 1
    BY <1>3, <2>1
  <2>3. Place(w, p, freed) = i + 1 /\ Place(q, p, freed) = i
    BY <1>3, <1>6, <2>1, <2>2
  <2> QED BY <2>3
<1> QED BY <1>1, <1>4, <1>5, <1>6 DEF Pointer

LEMMA PlaceAppended ==
  ASSUME NEW q \in Seq(Node), Distinct(q), NEW n \in Node, \A i \in 1 .. Len(q) : q[i] # n,
         NEW p, NEW freed, Pointer(q, p, freed)
  PROVE  Place(Append(q, n), p, freed) = Place(q, p, freed)
<1>1. PICK w : w = Append(q, n)
  OBVIOUS
<1>2. w \in Seq(Node) /\ Distinct(w) /\ \A j \in 1 .. Len(q) : j \in 1 .. Len(w) /\ w[j] = q[j]
  <2>1. w \in Seq(Node) /\ Distinct(w) /\ Len(w) = Len(q) + 1
    BY <1>1, AppendAt
  <2>2. \A j \in 1 .. Len(q) : w[j] = q[j]
    BY <1>1
  <2> QED BY <2>1, <2>2
<1>3. /\ Place(q, p, TRUE) = -1 /\ Place(w, p, TRUE) = -1
      /\ Place(q, NULL, FALSE) = 0 /\ Place(w, NULL, FALSE) = 0
      /\ \A i \in 1 .. Len(q) : Place(q, q[i], FALSE) = i
      /\ \A i \in 1 .. Len(w) : Place(w, w[i], FALSE) = i
  BY <1>2, PlaceAt
<1>4. ASSUME freed = FALSE, NEW i \in 1 .. Len(q), p = q[i] PROVE Place(w, p, freed) = Place(q, p, freed)
  <2>1. Place(w, w[i], FALSE) = i /\ w[i] = p
    BY <1>2, <1>3, <1>4
  <2> QED BY <1>3, <1>4, <2>1
<1> QED BY <1>1, <1>3, <1>4 DEF Pointer

LEMMA ValuesSeq ==
  ASSUME NEW h, NEW q \in Seq(Node), Links(h, q)
  PROVE  /\ Values(h, q) \in Seq(Element) /\ Len(Values(h, q)) = Len(q)
         /\ \A i \in 1 .. Len(q) : Values(h, q)[i] = h[q[i]].element
BY DEF Values, Links

LEMMA PrependImplements ==
  ASSUME IInv, IInv', NEW element \in Element \cup {NULL}, list_prepend(element)
  PROVE  element \in Element /\ Promise!PrependFirst(element)
<1>1. PICK q : Chain(q)
  BY DEF IInv
<1>2. PICK n \in Node \ live :
        /\ Chain(<<n>> \o q)' /\ heap'[n].element = element /\ result' = "ok"
        /\ \A m \in live : heap'[m].element = heap[m].element
  BY <1>1, Prepended DEF IInv
<1>3. PICK w : w = <<n>> \o q
  OBVIOUS
<1>4. /\ q \in Seq(Node) /\ Distinct(q) /\ Links(heap, q) /\ live = {q[i] : i \in 1 .. Len(q)}
      /\ Len(q) \in Nat /\ \A i \in 1 .. Len(q) : q[i] # n /\ q[i] \in live
  BY <1>1 DEF Chain
<1>5. Chain(w)' /\ w \in Seq(Node) /\ Links(heap', w) /\ Len(w) = Len(q) + 1
  BY <1>2, <1>3, <1>4, PrependAt DEF Chain
<1>6. UNCHANGED <<li, exists, pc>> /\ exists /\ pc = "idle" /\ element \in Element
  BY DEF list_prepend, Ready, call
<1>7. Items' = <<element>> \o Items
  <2>1. Items = Values(heap, q) /\ Items' = Values(heap', w)
    BY <1>1, <1>5, <1>6, Mapped, MappedNext
  <2>2. PICK a : a = Values(heap, q)
    OBVIOUS
  <2>3. PICK b : b = Values(heap', w)
    OBVIOUS
  <2>4. a \in Seq(Element) /\ Len(a) = Len(q) /\ \A i \in 1 .. Len(q) : a[i] = heap[q[i]].element
    BY <1>4, <2>2, ValuesSeq
  <2>5. b \in Seq(Element) /\ Len(b) = Len(w) /\ \A i \in 1 .. Len(w) : b[i] = heap'[w[i]].element
    BY <1>5, <2>3, ValuesSeq
  <2>6. ASSUME NEW i \in 1 .. Len(w) PROVE b[i] = IF i = 1 THEN element ELSE a[i - 1]
    <3>1. w[i] = IF i = 1 THEN n ELSE q[i - 1]
      BY <1>3, <1>4, <1>5
    <3>2. i # 1 => i - 1 \in 1 .. Len(q)
      BY <1>4, <1>5
    <3>3. CASE i = 1
      BY <1>2, <2>5, <3>1, <3>3
    <3>4. CASE i # 1
      <4>1. a[i - 1] = heap[q[i - 1]].element /\ q[i - 1] \in live
        BY <1>4, <2>4, <3>2, <3>4
      <4> QED BY <1>2, <2>5, <3>1, <3>4, <4>1
    <3> QED BY <3>3, <3>4
  <2>7. \A i \in 1 .. Len(w) : (<<element>> \o a)[i] = IF i = 1 THEN element ELSE a[i - 1]
    BY <1>4, <1>5, <1>6, <2>4
  <2>8. <<element>> \o a \in Seq(Element) /\ Len(<<element>> \o a) = Len(w)
    BY <1>4, <1>5, <1>6, <2>4
  <2>9. b = <<element>> \o a
    <3>1. PICK c : c = <<element>> \o a
      OBVIOUS
    <3>2. c \in Seq(Element) /\ Len(c) = Len(w) /\ \A i \in 1 .. Len(w) : c[i] = b[i]
      BY <2>6, <2>7, <2>8, <3>1
    <3>3. b = c
      BY <2>5, <3>2, SeqEqual
    <3> QED BY <3>1, <3>3
  <2> QED BY <2>1, <2>2, <2>3, <2>9
<1>8. Places' = IF Places = NULL THEN NULL
            ELSE [next |-> IF Places.next > 0 THEN Places.next + 1 ELSE Places.next,
                  previous |-> IF Places.previous > 0 THEN Places.previous + 1 ELSE Places.previous]
  <2>1. CASE li = NULL
    BY <1>6, <2>1 DEF Places
  <2>2. CASE li # NULL
    <3>1. /\ Places = [next |-> Place(q, li.next, li.nextFreed),
                       previous |-> Place(q, li.previous, li.previousFreed)]
          /\ Pointer(q, li.next, li.nextFreed) /\ Pointer(q, li.previous, li.previousFreed)
          /\ Places # NULL
      BY <1>1, <2>2, PlacesOf DEF IInv
    <3>2. Places' = [next |-> Place(w, li.next, li.nextFreed),
                     previous |-> Place(w, li.previous, li.previousFreed)]
      BY <1>5, <1>6, <2>2, PlacesNext
    <3>3. \A p, freed : Pointer(q, p, freed) =>
            Place(w, p, freed) =
              IF Place(q, p, freed) > 0 THEN Place(q, p, freed) + 1 ELSE Place(q, p, freed)
      BY <1>3, <1>4, PlacePrepended
    <3>4. Place(w, li.next, li.nextFreed) = IF Places.next > 0 THEN Places.next + 1 ELSE Places.next
      BY <3>1, <3>3
    <3>5. Place(w, li.previous, li.previousFreed) =
            IF Places.previous > 0 THEN Places.previous + 1 ELSE Places.previous
      BY <3>1, <3>3
    <3> QED BY <3>1, <3>2, <3>4, <3>5
  <2> QED BY <2>1, <2>2
<1>9. Open /\ Open' /\ Answer' = "ok"
  BY <1>2, <1>6 DEF Open, Answer
<1> QED BY <1>6, <1>7, <1>8, <1>9 DEF Promise!PrependFirst, Promise!MoveCursor

LEMMA AppendImplements ==
  ASSUME IInv, IInv', NEW element \in Element \cup {NULL}, list_append(element)
  PROVE  element \in Element /\ Promise!AppendLast(element)
<1>1. PICK q : Chain(q)
  BY DEF IInv
<1>2. PICK n \in Node \ live :
        /\ Chain(Append(q, n))' /\ heap'[n].element = element /\ result' = "ok"
        /\ \A m \in live : heap'[m].element = heap[m].element
  BY <1>1, Appended DEF IInv
<1>3. PICK w : w = Append(q, n)
  OBVIOUS
<1>4. /\ q \in Seq(Node) /\ Distinct(q) /\ Links(heap, q) /\ live = {q[i] : i \in 1 .. Len(q)}
      /\ Len(q) \in Nat /\ \A i \in 1 .. Len(q) : q[i] # n /\ q[i] \in live
  BY <1>1 DEF Chain
<1>5. Chain(w)' /\ w \in Seq(Node) /\ Links(heap', w) /\ Len(w) = Len(q) + 1
  BY <1>2, <1>3, <1>4, AppendAt DEF Chain
<1>6. UNCHANGED <<li, exists, pc>> /\ exists /\ pc = "idle" /\ element \in Element
  BY DEF list_append, Ready, call
<1>7. Items' = Append(Items, element)
  <2>1. Items = Values(heap, q) /\ Items' = Values(heap', w)
    BY <1>1, <1>5, <1>6, Mapped, MappedNext
  <2>2. PICK a : a = Values(heap, q)
    OBVIOUS
  <2>3. PICK b : b = Values(heap', w)
    OBVIOUS
  <2>4. a \in Seq(Element) /\ Len(a) = Len(q) /\ \A i \in 1 .. Len(q) : a[i] = heap[q[i]].element
    BY <1>4, <2>2, ValuesSeq
  <2>5. b \in Seq(Element) /\ Len(b) = Len(w) /\ \A i \in 1 .. Len(w) : b[i] = heap'[w[i]].element
    BY <1>5, <2>3, ValuesSeq
  <2>6. ASSUME NEW i \in 1 .. Len(w) PROVE b[i] = IF i = Len(w) THEN element ELSE a[i]
    <3>1. w[i] = IF i = Len(w) THEN n ELSE q[i]
      BY <1>3, <1>4, <1>5
    <3>2. i # Len(w) => i \in 1 .. Len(q)
      BY <1>4, <1>5
    <3> QED BY <1>2, <1>4, <2>4, <2>5, <3>1, <3>2
  <2>7. \A i \in 1 .. Len(w) : Append(a, element)[i] = IF i = Len(w) THEN element ELSE a[i]
    BY <1>4, <1>5, <1>6, <2>4
  <2>8. Append(a, element) \in Seq(Element) /\ Len(Append(a, element)) = Len(w)
    BY <1>4, <1>5, <1>6, <2>4
  <2>9. b = Append(a, element)
    BY <2>5, <2>6, <2>7, <2>8
  <2> QED BY <2>1, <2>2, <2>3, <2>9
<1>8. Places' = Places
  <2>1. CASE li = NULL
    BY <1>6, <2>1 DEF Places
  <2>2. CASE li # NULL
    <3>1. /\ Places = [next |-> Place(q, li.next, li.nextFreed),
                       previous |-> Place(q, li.previous, li.previousFreed)]
          /\ Pointer(q, li.next, li.nextFreed) /\ Pointer(q, li.previous, li.previousFreed)
      BY <1>1, <2>2, PlacesOf DEF IInv
    <3>2. Places' = [next |-> Place(w, li.next, li.nextFreed),
                     previous |-> Place(w, li.previous, li.previousFreed)]
      BY <1>5, <1>6, <2>2, PlacesNext
    <3>3. Place(w, li.next, li.nextFreed) = Place(q, li.next, li.nextFreed)
      BY <1>3, <1>4, <3>1, PlaceAppended
    <3>4. Place(w, li.previous, li.previousFreed) = Place(q, li.previous, li.previousFreed)
      BY <1>3, <1>4, <3>1, PlaceAppended
    <3> QED BY <3>1, <3>2, <3>3, <3>4
  <2> QED BY <2>1, <2>2
<1>9. Open /\ Open' /\ Answer' = "ok"
  BY <1>2, <1>6 DEF Open, Answer
<1> QED BY <1>6, <1>7, <1>8, <1>9 DEF Promise!AppendLast

\* Unlinking the node at place i takes its element out and moves the cursor.
LEMMA RemovedItems ==
  ASSUME IInv, NEW q, Chain(q), NEW i \in 1 .. Len(q), Removed(q, i), pc' = "idle", pc # "free"
  PROVE  /\ Len(Items) = Len(q) /\ \A j \in 1 .. Len(q) : Items[j] = heap[q[j]].element
         /\ Items' = SubSeq(Items, 1, i - 1) \o SubSeq(Items, i + 1, Len(Items))
<1>1. PICK w : w = Without(q, i)
  OBVIOUS
<1>2. q \in Seq(Node) /\ Distinct(q) /\ Links(heap, q) /\ Len(q) \in Nat
  BY DEF Chain
<1>3. Chain(w)' /\ w \in Seq(Node) /\ Len(w) = Len(q) - 1 /\ Links(heap', w)
  <2>1. Chain(w)'
    BY <1>1, RemovedChain
  <2>2. Len(w) = Len(q) - 1
    BY <1>1, <1>2, WithoutAt
  <2> QED BY <2>1, <2>2 DEF Chain
<1>4. Items = Values(heap, q) /\ Items' = Values(heap', w)
  BY <1>3, Mapped, MappedNext
<1>5. PICK a : a = Values(heap, q)
  OBVIOUS
<1>6. PICK b : b = Values(heap', w)
  OBVIOUS
<1>7. a \in Seq(Element) /\ Len(a) = Len(q) /\ \A j \in 1 .. Len(q) : a[j] = heap[q[j]].element
  BY <1>2, <1>5, ValuesSeq
<1>8. b \in Seq(Element) /\ Len(b) = Len(w) /\ \A j \in 1 .. Len(w) : b[j] = heap'[w[j]].element
  BY <1>3, <1>6, ValuesSeq
<1>9. ASSUME NEW j \in 1 .. Len(w) PROVE b[j] = IF j < i THEN a[j] ELSE a[j + 1]
  <2>1. PICK c \in 1 .. Len(q) : c = IF j < i THEN j ELSE j + 1
    BY <1>2, <1>3
  <2>2. w[j] = q[c] /\ c # i
    BY <1>1, <1>2, <1>3, <2>1 DEF Without
  <2>3. q[c] \in Node \ {q[i]}
    BY <1>2, <2>2 DEF Distinct
  <2>4. heap'[q[c]].element = heap[q[c]].element
    BY <2>3 DEF Removed, Bypassed
  <2> QED BY <1>7, <1>8, <2>1, <2>2, <2>4
<1>10. PICK x : x = SubSeq(a, 1, i - 1)
  OBVIOUS
<1>11. PICK y : y = SubSeq(a, i + 1, Len(a))
  OBVIOUS
<1>12. x \in Seq(Element) /\ Len(x) = i - 1 /\ \A j \in 1 .. i - 1 : x[j] = a[j]
  BY <1>2, <1>7, <1>10
<1>13. y \in Seq(Element) /\ Len(y) = Len(q) - i /\ \A j \in 1 .. Len(q) - i : y[j] = a[i + j]
  BY <1>2, <1>7, <1>11
<1>14. x \o y \in Seq(Element) /\ Len(x \o y) = Len(w)
  BY <1>2, <1>3, <1>12, <1>13
<1>15. ASSUME NEW j \in 1 .. Len(w) PROVE (x \o y)[j] = b[j]
  <2>1. CASE j < i
    <3>1. (x \o y)[j] = x[j]
      BY <1>2, <1>3, <1>12, <1>13, <2>1
    <3> QED BY <1>2, <1>9, <1>12, <2>1, <3>1
  <2>2. CASE j >= i
    <3>1. (x \o y)[j] = y[j - (i - 1)]
      BY <1>2, <1>3, <1>12, <1>13, <2>2
    <3>2. j - (i - 1) \in 1 .. Len(q) - i /\ i + (j - (i - 1)) = j + 1
      BY <1>2, <1>3, <2>2
    <3>3. y[j - (i - 1)] = a[j + 1]
      BY <1>13, <3>2
    <3> QED BY <1>9, <2>2, <3>1, <3>3
  <2>3. j < i \/ j >= i
    BY <1>2, <1>3
  <2> QED BY <2>1, <2>2, <2>3
<1>16. b = x \o y
  <2>1. PICK z : z = x \o y
    OBVIOUS
  <2>2. b = z
    BY <1>8, <1>14, <1>15, <2>1, SeqEqual
  <2> QED BY <2>1, <2>2
<1> QED BY <1>4, <1>5, <1>6, <1>7, <1>10, <1>11, <1>16

LEMMA RemovedPlaces ==
  ASSUME IInv, NEW q, Chain(q), NEW i \in 1 .. Len(q), Removed(q, i), Cursor'
  PROVE  Places' = IF Places = NULL THEN NULL
           ELSE [next |-> IF Places.next = i THEN -1
                          ELSE IF Places.next > i THEN Places.next - 1 ELSE Places.next,
                 previous |-> IF Places.previous = i THEN -1
                              ELSE IF Places.previous > i THEN Places.previous - 1 ELSE Places.previous]
<1>1. PICK w : w = Without(q, i)
  OBVIOUS
<1>2. q \in Seq(Node) /\ Distinct(q) /\ Chain(w)'
  BY <1>1, RemovedChain DEF Chain
<1>3. Len(w) = Len(q) - 1 /\ Len(q) \in Nat /\ w \in Seq(Node) /\ Distinct(w)
      /\ \A j \in 1 .. Len(w) : w[j] = IF j < i THEN q[j] ELSE q[j + 1]
  <2>1. Len(w) = Len(q) - 1 /\ Len(q) \in Nat /\ w \in Seq(Node) /\ Distinct(w)
    BY <1>1, <1>2, WithoutAt
  <2> QED BY <1>1, <2>1 DEF Without
<1>4. ASSUME NEW p, NEW freed, NEW gone, Pointer(q, p, freed),
             freed = TRUE \/ p = q[i] => gone = TRUE,
             freed # TRUE /\ p # q[i] => gone = FALSE
      PROVE  Place(w, p, gone) =
               IF Place(q, p, freed) = i THEN -1
               ELSE IF Place(q, p, freed) > i THEN Place(q, p, freed) - 1 ELSE Place(q, p, freed)
  <2>4. /\ Place(q, p, TRUE) = -1 /\ Place(w, p, TRUE) = -1
        /\ Place(q, NULL, FALSE) = 0 /\ Place(w, NULL, FALSE) = 0
        /\ \A j \in 1 .. Len(q) : Place(q, q[j], FALSE) = j
        /\ \A j \in 1 .. Len(w) : Place(w, w[j], FALSE) = j
    BY <1>2, <1>3, PlaceAt
  <2>5. q[i] # NULL
    BY <1>2, Nulls
  <2>6. CASE freed = TRUE
    <3>1. gone = TRUE
      BY <1>4, <2>6
    <3>2. Place(q, p, freed) = -1 /\ Place(w, p, gone) = -1
      BY <2>4, <2>6, <3>1
    <3> QED BY <3>2
  <2>7. CASE freed = FALSE /\ p = NULL
    <3>1. gone = FALSE
      BY <1>4, <2>5, <2>7
    <3>2. Place(q, p, freed) = 0 /\ Place(w, p, gone) = 0
      BY <2>4, <2>7, <3>1
    <3> QED BY <3>2
  <2>8. ASSUME freed = FALSE, NEW j \in 1 .. Len(q), p = q[j]
        PROVE  Place(w, p, gone) = IF j = i THEN -1 ELSE IF j > i THEN j - 1 ELSE j
    <3>1. (j = i => gone = TRUE) /\ (j # i => gone = FALSE)
      BY <1>2, <1>4, <2>8 DEF Distinct
    <3>2. CASE j = i
      <4>1. gone = TRUE
        BY <3>1, <3>2
      <4> QED BY <2>4, <3>2, <4>1
    <3>3. CASE j > i
      <4>1. gone = FALSE /\ j - 1 \in 1 .. Len(w)
        BY <1>3, <3>1, <3>3
      <4>2. w[j - 1] = q[j]
        BY <1>3, <3>3, <4>1
      <4>3. Place(w, w[j - 1], FALSE) = j - 1
        BY <2>4, <4>1
      <4>4. Place(w, p, gone) = j - 1
        BY <2>8, <4>1, <4>2, <4>3
      <4> QED BY <3>3, <4>4
    <3>4. CASE j < i
      <4>1. gone = FALSE /\ j \in 1 .. Len(w)
        BY <1>3, <3>1, <3>4
      <4>2. w[j] = q[j] /\ Place(w, w[j], FALSE) = j
        BY <1>3, <2>4, <3>4, <4>1
      <4>3. Place(w, p, gone) = j
        BY <2>8, <4>1, <4>2
      <4> QED BY <3>4, <4>3
    <3> QED BY <3>2, <3>3, <3>4
  <2>9. \A j \in 1 .. Len(q) : freed = FALSE /\ p = q[j] => Place(q, p, freed) = j
    BY <2>4
  <2> QED BY <1>4, <2>6, <2>7, <2>8, <2>9 DEF Pointer
<1>5. CASE li = NULL
  BY <1>5 DEF Places, Removed
<1>6. CASE li # NULL
  <2>1. /\ Places = [next |-> Place(q, li.next, li.nextFreed),
                     previous |-> Place(q, li.previous, li.previousFreed)]
        /\ Pointer(q, li.next, li.nextFreed) /\ Pointer(q, li.previous, li.previousFreed)
        /\ Places # NULL
    BY <1>6, PlacesOf DEF IInv
  <2>2. li' = [li EXCEPT !.nextFreed = @ \/ li.next = q[i], !.previousFreed = @ \/ li.previous = q[i]]
        /\ li \in Iterator
    BY <1>6 DEF Removed, IInv, Cursor
  <2>3. /\ li' \in Iterator /\ li'.next = li.next /\ li'.previous = li.previous
        /\ li'.nextFreed <=> li.nextFreed \/ li.next = q[i]
        /\ li'.previousFreed <=> li.previousFreed \/ li.previous = q[i]
    BY <2>2 DEF Iterator
  <2>4. li'.nextFreed \in BOOLEAN /\ li'.previousFreed \in BOOLEAN /\ li' # NULL
        /\ li.nextFreed \in BOOLEAN /\ li.previousFreed \in BOOLEAN
    BY <2>2, <2>3, Nulls DEF Iterator
  <2>5. Places' = [next |-> Place(w, li.next, li'.nextFreed),
                   previous |-> Place(w, li.previous, li'.previousFreed)]
    BY <1>2, <2>3, <2>4, PlacesNext
  <2>6. Place(w, li.next, li'.nextFreed) =
          IF Place(q, li.next, li.nextFreed) = i THEN -1
          ELSE IF Place(q, li.next, li.nextFreed) > i THEN Place(q, li.next, li.nextFreed) - 1
          ELSE Place(q, li.next, li.nextFreed)
    <3>1. /\ li.nextFreed = TRUE \/ li.next = q[i] => li'.nextFreed = TRUE
          /\ li.nextFreed # TRUE /\ li.next # q[i] => li'.nextFreed = FALSE
      BY <2>3, <2>4
    <3>2. Pointer(q, li.next, li.nextFreed)
      BY <2>1
    <3> QED BY <1>4, <3>1, <3>2
  <2>7. Place(w, li.previous, li'.previousFreed) =
          IF Place(q, li.previous, li.previousFreed) = i THEN -1
          ELSE IF Place(q, li.previous, li.previousFreed) > i
                 THEN Place(q, li.previous, li.previousFreed) - 1
          ELSE Place(q, li.previous, li.previousFreed)
    <3>1. /\ li.previousFreed = TRUE \/ li.previous = q[i] => li'.previousFreed = TRUE
          /\ li.previousFreed # TRUE /\ li.previous # q[i] => li'.previousFreed = FALSE
      BY <2>3, <2>4
    <3>2. Pointer(q, li.previous, li.previousFreed)
      BY <2>1
    <3> QED BY <1>4, <3>1, <3>2
  <2>8. Places.next = Place(q, li.next, li.nextFreed)
        /\ Places.previous = Place(q, li.previous, li.previousFreed)
    BY <2>1
  <2> QED BY <2>1, <2>5, <2>6, <2>7, <2>8
<1> QED BY <1>5, <1>6

LEMMA RemovedImplements ==
  ASSUME IInv, IInv', NEW q, Chain(q), NEW i \in 1 .. Len(q), Removed(q, i),
         pc' = "idle", pc # "free", exists, exists' = exists
  PROVE  Promise!RemoveAt(i, result')
<1>1. Items' = SubSeq(Items, 1, i - 1) \o SubSeq(Items, i + 1, Len(Items))
  BY RemovedItems
<1>2. Places' = IF Places = NULL THEN NULL
        ELSE [next |-> IF Places.next = i THEN -1
                       ELSE IF Places.next > i THEN Places.next - 1 ELSE Places.next,
              previous |-> IF Places.previous = i THEN -1
                           ELSE IF Places.previous > i THEN Places.previous - 1 ELSE Places.previous]
  BY RemovedPlaces DEF IInv
<1>3. Open' = Open /\ Answer' = result'
  BY DEF Open, Answer
<1> QED BY <1>1, <1>2, <1>3 DEF Promise!RemoveAt, Promise!MoveCursor, Promise!Gone

\* What leaves the list alone leaves the sequence alone.
LEMMA QuietMaps ==
  ASSUME IInv, UNCHANGED list, pc # "free", pc' # "free"
  PROVE  Items' = Items /\ Open' = Open /\ (li' = li => Places' = Places)
<1>1. PICK q : Chain(q)
  BY DEF IInv
<1>2. Chain(q)'
  BY <1>1, ChainStays
<1>3. Items = Values(heap, q) /\ Items' = Values(heap, q)
  BY <1>1, <1>2, Mapped, MappedNext DEF list
<1>4. ASSUME li' = li PROVE Places' = Places
  <2>1. CASE li = NULL
    BY <1>4, <2>1 DEF Places
  <2>2. CASE li # NULL
    BY <1>1, <1>2, <1>4, <2>2, PlacesOf, PlacesNext DEF IInv
  <2> QED BY <2>1, <2>2
<1>5. Open' = Open
  BY DEF Open, list
<1> QED BY <1>3, <1>4, <1>5

\* A call that fails, a round of a loop, a step that is none.
LEMMA QuietImplements ==
  ASSUME IInv, UNCHANGED <<list, li>>, pc # "free", pc' # "free"
  PROVE  Promise!Fail(result')
BY QuietMaps DEF Promise!Fail, Answer, list

LEMMA EmptyItems ==
  ASSUME IInv, NEW q, Chain(q), pc # "free"
  PROVE  /\ Len(Items) = Len(q) /\ Items \in Seq(Element) /\ (Items = <<>> <=> Len(q) = 0)
         /\ \A i \in 1 .. Len(q) : Items[i] = heap[q[i]].element
         /\ (head = NULL <=> Len(q) = 0) /\ (tail = NULL <=> Len(q) = 0)
         /\ (Len(q) > 0 => head = q[1] /\ tail = q[Len(q)])
<1>1. q \in Seq(Node) /\ Links(heap, q) /\ Len(q) \in Nat /\ head = At(q, 1) /\ tail = At(q, Len(q))
  BY DEF Chain
<1>2. Items = Values(heap, q)
  BY Mapped
<1>3. PICK a : a = Values(heap, q)
  OBVIOUS
<1>4. a \in Seq(Element) /\ Len(a) = Len(q) /\ \A i \in 1 .. Len(q) : a[i] = heap[q[i]].element
  BY <1>1, <1>3, ValuesSeq
<1>5. a = <<>> <=> Len(q) = 0
  BY <1>1, <1>4
<1>6. (head = NULL <=> Len(q) = 0) /\ (tail = NULL <=> Len(q) = 0)
  BY <1>1, Nulls DEF At
<1>7. Len(q) > 0 => head = q[1] /\ tail = q[Len(q)]
  BY <1>1 DEF At
<1> QED BY <1>2, <1>3, <1>4, <1>5, <1>6, <1>7

LEMMA ShiftImplements == ASSUME IInv, IInv', list_shift PROVE Promise!Shift
<1>1. PICK q : Chain(q)
  BY DEF IInv
<1>2. pc = "idle" /\ exists /\ UNCHANGED call /\ pc' = "idle" /\ Open
  BY DEF list_shift, Ready, call, Open
<1>3. CASE head = NULL
  <2>1. UNCHANGED <<list, li>> /\ result' = NULL
    BY <1>3 DEF list_shift
  <2>2. Items = <<>>
    BY <1>1, <1>2, <1>3, EmptyItems
  <2>3. Promise!Fail(NULL)
    BY <1>2, <2>1, QuietImplements
  <2> QED BY <1>2, <2>2, <2>3 DEF Promise!Shift
<1>4. CASE head # NULL
  <2>1. result' = heap[head].element /\ UnlinkHead /\ exists' = exists
    BY <1>4 DEF list_shift
  <2>2. Len(q) > 0 /\ Removed(q, 1)
    BY <1>1, <1>4, <2>1, HeadRemoved DEF IInv
  <2>3. Len(q) \in Nat /\ 1 \in 1 .. Len(q)
    BY <1>1, <2>2 DEF Chain
  <2>4. Promise!RemoveAt(1, result')
    BY <1>1, <1>2, <2>1, <2>2, <2>3, RemovedImplements
  <2>5. Items # <<>> /\ result' = Items[1]
    BY <1>1, <1>2, <2>1, <2>2, <2>3, EmptyItems
  <2> QED BY <1>2, <2>4, <2>5 DEF Promise!Shift
<1> QED BY <1>3, <1>4

LEMMA PopImplements == ASSUME IInv, IInv', list_pop PROVE Promise!Pop
<1>1. PICK q : Chain(q)
  BY DEF IInv
<1>2. pc = "idle" /\ exists /\ UNCHANGED call /\ pc' = "idle" /\ Open
  BY DEF list_pop, Ready, call, Open
<1>3. CASE tail = NULL
  <2>1. UNCHANGED <<list, li>> /\ result' = NULL
    BY <1>3 DEF list_pop
  <2>2. Items = <<>>
    BY <1>1, <1>2, <1>3, EmptyItems
  <2>3. Promise!Fail(NULL)
    BY <1>2, <2>1, QuietImplements
  <2> QED BY <1>2, <2>2, <2>3 DEF Promise!Pop
<1>4. CASE tail # NULL
  <2>1. result' = heap[tail].element /\ UnlinkTail /\ exists' = exists
    BY <1>4 DEF list_pop
  <2>2. Len(q) > 0 /\ Removed(q, Len(q))
    BY <1>1, <1>4, <2>1, TailRemoved DEF IInv
  <2>3. Len(q) \in Nat /\ Len(q) \in 1 .. Len(q)
    BY <1>1, <2>2 DEF Chain
  <2>4. Promise!RemoveAt(Len(q), result')
    BY <1>1, <1>2, <2>1, <2>2, <2>3, RemovedImplements
  <2>5. Items # <<>> /\ result' = Items[Len(q)] /\ Len(Items) = Len(q)
    BY <1>1, <1>2, <2>1, <2>2, <2>3, EmptyItems
  <2> QED BY <1>2, <2>4, <2>5 DEF Promise!Pop
<1> QED BY <1>3, <1>4

\* list_remove answers at once, or starts a scan that nobody sees.
LEMMA RemoveImplements ==
  ASSUME IInv, IInv', NEW element \in Element \cup {NULL}, list_remove(element)
  PROVE  element \in Element /\ (Promise!Remove(element) \/ UNCHANGED Promise!vars)
<1>1. PICK q : Chain(q)
  BY DEF IInv
<1>2. pc = "idle" /\ exists /\ element \in Element /\ element # NULL
  BY DEF list_remove, Ready
<1>3. q \in Seq(Node) /\ Len(q) \in Nat /\ DOMAIN Items = 1 .. Len(q)
  <2>1. Items \in Seq(Element) /\ Len(Items) = Len(q)
    BY <1>1, <1>2, EmptyItems
  <2> QED BY <1>1, <2>1 DEF Chain
<1>4. CASE head = NULL /\ result' = "EADDRNOTAVAIL" /\ UNCHANGED <<list, li, call>>
  <2>1. Promise!Fail("EADDRNOTAVAIL")
    BY <1>2, <1>4, QuietImplements DEF call
  <2>2. DOMAIN Items = {}
    BY <1>1, <1>2, <1>3, <1>4, EmptyItems
  <2> QED BY <1>2, <2>1, <2>2 DEF Promise!Remove
<1>5. CASE /\ head # NULL /\ heap[head].element = element
           /\ UnlinkHead /\ result' = "ok" /\ UNCHANGED <<exists, call>>
  <2>1. Len(q) > 0 /\ Removed(q, 1)
    BY <1>1, <1>5, HeadRemoved DEF IInv
  <2>2. 1 \in 1 .. Len(q)
    BY <1>3, <2>1
  <2>3. Promise!RemoveAt(1, "ok")
    BY <1>1, <1>2, <1>5, <2>1, <2>2, RemovedImplements DEF call
  <2>4. Items[1] = element
    BY <1>1, <1>2, <1>5, <2>1, <2>2, EmptyItems
  <2>5. \A j \in 1 .. 1 - 1 : Items[j] # element
    OBVIOUS
  <2> QED BY <1>2, <1>3, <2>2, <2>3, <2>4, <2>5 DEF Promise!Remove
<1>6. CASE pc' = "scan" /\ UNCHANGED <<list, li, result>>
  <2>1. Items' = Items /\ Open' = Open /\ Places' = Places /\ Answer' = Answer
    BY <1>2, <1>6, QuietMaps DEF Answer
  <2> QED BY <1>2, <2>1 DEF Promise!vars
<1> QED BY <1>4, <1>5, <1>6 DEF list_remove

\* The scan ends without the element, or unlinks the first that equals it.
LEMMA ScanFailsImplements ==
  ASSUME IInv, ScanFails
  PROVE  sought \in Element /\ Promise!Remove(sought)
<1>1. PICK q : Chain(q) /\ Scanning(q)
  BY DEF IInv
<1>2. pc = "scan" /\ pc' = "idle" /\ np = NULL /\ result' = "EADDRNOTAVAIL" /\ UNCHANGED <<list, li>>
  BY DEF ScanFails, ScanDone
<1>3. Promise!Fail("EADDRNOTAVAIL")
  BY <1>2, QuietImplements
<1>4. PICK i \in 1 .. Len(q) + 1 :
        /\ np = At(q, i)
        /\ \A j \in 1 .. Len(q) : j < i \/ j = 1 => heap[q[j]].element # sought
  BY <1>1, <1>2 DEF Scanning
<1>5. q \in Seq(Node) /\ Len(q) \in Nat
  BY <1>1 DEF Chain
<1>6. i = Len(q) + 1
  BY <1>2, <1>4, <1>5, Nulls DEF At
<1>7. \A j \in 1 .. Len(q) : heap[q[j]].element # sought
  BY <1>4, <1>5, <1>6
<1>8. \A j \in DOMAIN Items : Items[j] # sought
  <2>1. Items \in Seq(Element) /\ Len(Items) = Len(q)
        /\ \A j \in 1 .. Len(q) : Items[j] = heap[q[j]].element
    BY <1>1, <1>2, EmptyItems
  <2> QED BY <1>7, <2>1
<1>9. sought \in Element
  BY <1>1, <1>2 DEF Scanning
<1> QED BY <1>3, <1>8, <1>9 DEF Promise!Remove

LEMMA ScanUnlinksImplements ==
  ASSUME IInv, IInv', ScanUnlinks
  PROVE  sought \in Element /\ Promise!Remove(sought)
<1>1. PICK q : Chain(q) /\ Scanning(q)
  BY DEF IInv
<1>2. pc = "scan" /\ pc' = "idle" /\ result' = "ok" /\ exists' = exists
  BY DEF ScanUnlinks, ScanDone
<1>3. PICK i \in 1 .. Len(q) : /\ Removed(q, i) /\ heap[q[i]].element = sought
                               /\ \A j \in 1 .. i - 1 : heap[q[j]].element # sought
  BY <1>1, ScanRemoved DEF IInv
<1>4. exists /\ sought \in Element
  BY <1>1, <1>2 DEF IInv, Phases, Scanning
<1>5. Promise!RemoveAt(i, "ok")
  BY <1>1, <1>2, <1>3, <1>4, RemovedImplements
<1>6. /\ Items \in Seq(Element) /\ Len(Items) = Len(q)
      /\ \A j \in 1 .. Len(q) : Items[j] = heap[q[j]].element
  BY <1>1, <1>2, EmptyItems
<1>7. i \in DOMAIN Items /\ Items[i] = sought /\ \A j \in 1 .. i - 1 : Items[j] # sought
  <2>1. \A j \in 1 .. i - 1 : j \in 1 .. Len(q)
    BY <1>6
  <2> QED BY <1>3, <1>6, <2>1
<1> QED BY <1>4, <1>5, <1>7 DEF Promise!Remove

\* A list being freed is gone already for whoever called list_free.
LEMMA FreeImplements ==
  ASSUME IInv, list_free \/ FreePops \/ FreeEnds \/ list_init, IInv'
  PROVE  Promise!Open \/ Promise!Free \/ UNCHANGED Promise!vars
<1>1. CASE list_free
  <2>1. Open /\ Places = NULL /\ pc' = "free" /\ li' = NULL /\ Open' = FALSE
    BY <1>1 DEF list_free, Ready, Open, Places
  <2>2. Items' = <<>> /\ Answer' = "ok" /\ Places' = NULL
    BY <2>1 DEF Items, Answer, Places
  <2> QED BY <2>1, <2>2 DEF Promise!Free
<1>2. CASE FreePops
  <2>1. pc = "free" /\ pc' = "free" /\ li = NULL /\ li' = NULL
    BY <1>2 DEF FreePops, call, IInv, Phases
  <2> QED BY <2>1 DEF Promise!vars, Open, Items, Places, Answer
<1>3. CASE FreeEnds
  <2>1. /\ pc = "free" /\ pc' = "idle" /\ li = NULL /\ li' = NULL /\ exists' = FALSE
        /\ nelement' = 0 /\ result' = "ok"
    BY <1>3 DEF FreeEnds, IInv, Phases
  <2>2. PICK q : Chain(q)'
    BY DEF IInv
  <2>3. q \in Seq(Node) /\ Len(q) = 0
    BY <2>1, <2>2 DEF Chain
  <2>4. Items' = <<>>
    BY <2>1, <2>2, <2>3, MappedNext DEF Values
  <2> QED BY <2>1, <2>4 DEF Promise!vars, Open, Items, Places, Answer
<1>4. CASE list_init
  <2>1. /\ pc = "idle" /\ pc' = "idle" /\ li = NULL /\ li' = NULL /\ ~exists /\ exists' = TRUE
        /\ nelement' = 0 /\ result' = "ok"
    BY <1>4 DEF list_init, call
  <2>2. PICK q : Chain(q)'
    BY DEF IInv
  <2>3. q \in Seq(Node) /\ Len(q) = 0
    BY <2>1, <2>2 DEF Chain
  <2>4. Items' = <<>>
    BY <2>1, <2>2, <2>3, MappedNext DEF Values
  <2> QED BY <2>1, <2>4 DEF Promise!Open, Open, Places, Answer
<1> QED BY <1>1, <1>2, <1>3, <1>4

LEMMA PlaceOfAt ==
  ASSUME NEW q \in Seq(Node), Distinct(q), NEW i \in 0 .. Len(q) + 1
  PROVE  Place(q, At(q, i), FALSE) = IF i \in 1 .. Len(q) THEN i ELSE 0
<1>1. CASE i \in 1 .. Len(q)
  BY <1>1, PlaceAt DEF At
<1>2. CASE i \notin 1 .. Len(q)
  BY <1>2, PlaceAt DEF At
<1> QED BY <1>1, <1>2

\* The iterator moves by one place, from where its pointers are.
LEMMA ResetImplements ==
  ASSUME IInv, IInv', list_iterator_reset \/ list_iterator_free
  PROVE  Promise!IteratorReset \/ Promise!IteratorFree
<1>1. pc = "idle" /\ pc' = "idle" /\ result' = "ok" /\ UNCHANGED list
  BY DEF list_iterator_reset, list_iterator_free, Ready, call
<1>2. Items' = Items /\ Open' = Open /\ Answer' = "ok"
  BY <1>1, QuietMaps DEF Answer
<1>3. CASE list_iterator_free
  BY <1>2, <1>3 DEF Promise!IteratorFree, list_iterator_free, Places
<1>4. CASE list_iterator_reset
  <2>1. /\ exists /\ li' = [next |-> head, previous |-> tail, nextFreed |-> FALSE,
                            previousFreed |-> FALSE, moved |-> FALSE]
    BY <1>4 DEF list_iterator_reset, Ready
  <2>2. PICK q : Chain(q)
    BY DEF IInv
  <2>3. q \in Seq(Node) /\ Distinct(q) /\ Len(q) \in Nat /\ head = At(q, 1) /\ tail = At(q, Len(q))
    BY <2>2 DEF Chain
  <2>4. Chain(q)'
    BY <1>1, <2>2, ChainStays
  <2>5. li' # NULL /\ li'.next = head /\ li'.previous = tail
        /\ li'.nextFreed = FALSE /\ li'.previousFreed = FALSE
    <3>1. head \in Ref /\ tail \in Ref
      BY LiveEnds, LiveNode DEF Ref
    <3>2. li' \in Iterator
      BY <2>1, <3>1 DEF Iterator
    <3> QED BY <2>1, <3>2, Nulls
  <2>6. Places' = [next |-> Place(q, At(q, 1), FALSE), previous |-> Place(q, At(q, Len(q)), FALSE)]
    BY <2>3, <2>4, <2>5, PlacesNext
  <2>7. Place(q, At(q, 1), FALSE) = IF Len(q) = 0 THEN 0 ELSE 1
    <3>1. 1 \in 0 .. Len(q) + 1 /\ (1 \in 1 .. Len(q) <=> Len(q) # 0)
      BY <2>3
    <3> QED BY <2>3, <3>1, PlaceOfAt
  <2>8. Place(q, At(q, Len(q)), FALSE) = Len(q)
    <3>1. Len(q) \in 0 .. Len(q) + 1 /\ (Len(q) \notin 1 .. Len(q) => Len(q) = 0)
      BY <2>3
    <3> QED BY <2>3, <3>1, PlaceOfAt
  <2>9. Len(Items) = Len(q) /\ (Items = <<>> <=> Len(q) = 0)
    BY <1>1, <2>2, EmptyItems
  <2>10. Places' = Promise!Start
    BY <2>6, <2>7, <2>8, <2>9 DEF Promise!Start, Promise!None
  <2> QED BY <1>1, <1>2, <2>1, <2>10 DEF Promise!IteratorReset, Open
<1> QED BY <1>3, <1>4

Between(next, previous) ==
  [next |-> next, previous |-> previous, nextFreed |-> FALSE, previousFreed |-> FALSE, moved |-> TRUE]

LEMMA MovedPlaces ==
  ASSUME IInv, NEW q, Chain(q), UNCHANGED <<list, call>>, pc = "idle", NEW i \in 1 .. Len(q)
  PROVE  /\ li' = Between(At(q, i + 1), q[i]) =>
              Places' = [next |-> IF i = Len(q) THEN 0 ELSE i + 1, previous |-> i]
         /\ li' = Between(q[i], At(q, i - 1)) => Places' = [next |-> i, previous |-> i - 1]
<1>1. q \in Seq(Node) /\ Distinct(q) /\ Len(q) \in Nat
  BY DEF Chain
<1>2. Chain(q)'
  BY ChainStays
<1>3. q[i] = At(q, i) /\ \A j \in Int : At(q, j) \in Ref /\ (q[i] = At(q, j) <=> i = j)
  BY <1>1, AtNode
<1>4. /\ Place(q, At(q, i), FALSE) = i
      /\ Place(q, At(q, i + 1), FALSE) = IF i = Len(q) THEN 0 ELSE i + 1
      /\ Place(q, At(q, i - 1), FALSE) = i - 1
  <2>1. /\ i \in 0 .. Len(q) + 1 /\ i + 1 \in 0 .. Len(q) + 1 /\ i - 1 \in 0 .. Len(q) + 1
        /\ (i + 1 \in 1 .. Len(q) <=> i # Len(q)) /\ (i - 1 \notin 1 .. Len(q) => i - 1 = 0)
    BY <1>1
  <2>2. Place(q, At(q, i), FALSE) = i
    BY <1>1, <2>1, PlaceOfAt
  <2>3. Place(q, At(q, i + 1), FALSE) = IF i = Len(q) THEN 0 ELSE i + 1
    BY <1>1, <2>1, PlaceOfAt
  <2>4. Place(q, At(q, i - 1), FALSE) = IF i - 1 \in 1 .. Len(q) THEN i - 1 ELSE 0
    BY <1>1, <2>1, PlaceOfAt
  <2> QED BY <2>1, <2>2, <2>3, <2>4
<1>5. \A a, b \in Ref : Between(a, b) \in Iterator
  BY DEF Iterator, Between
<1>6. At(q, i + 1) \in Ref /\ At(q, i - 1) \in Ref /\ q[i] \in Ref
  BY <1>1, <1>3
<1>7. ASSUME NEW a \in Ref, NEW b \in Ref, li' = Between(a, b)
      PROVE  Places' = [next |-> Place(q, a, FALSE), previous |-> Place(q, b, FALSE)]
  <2>1. li' # NULL
    BY <1>5, <1>7, Nulls
  <2>2. li'.next = a /\ li'.previous = b /\ li'.nextFreed = FALSE /\ li'.previousFreed = FALSE
    BY <1>7 DEF Between
  <2> QED BY <1>2, <2>1, <2>2, PlacesNext
<1> QED BY <1>3, <1>4, <1>6, <1>7

LEMMA NextImplements == ASSUME IInv, list_iterator_next PROVE Promise!IteratorNext
<1>1. /\ pc = "idle" /\ pc' = "idle" /\ exists /\ li # NULL /\ li.nextFreed = FALSE
      /\ UNCHANGED <<list, call>>
  BY DEF list_iterator_next, Ready, call, IInv, Cursor, Iterator
<1>2. Items' = Items /\ Open' = Open /\ Answer' = result' /\ Open
  BY <1>1, QuietMaps DEF Answer, Open
<1>3. PICK q : Chain(q)
  BY DEF IInv
<1>4. q \in Seq(Node) /\ Distinct(q) /\ Len(q) \in Nat /\ Links(heap, q)
  BY <1>3 DEF Chain
<1>5. Places # NULL /\ Places.next = Place(q, li.next, FALSE) /\ Pointer(q, li.next, FALSE)
  <2>1. /\ Places = [next |-> Place(q, li.next, li.nextFreed),
                     previous |-> Place(q, li.previous, li.previousFreed)]
        /\ Pointer(q, li.next, li.nextFreed) /\ Places # NULL
    BY <1>1, <1>3, PlacesOf DEF IInv
  <2> QED BY <1>1, <2>1
<1>6. CASE li.next = NULL
  <2>1. li' = li /\ result' = NULL
    BY <1>6 DEF list_iterator_next
  <2>2. Promise!Fail(NULL)
    BY <1>1, <2>1, QuietImplements DEF call
  <2>3. Places.next = 0
    BY <1>4, <1>5, <1>6, PlaceAt
  <2>4. 0 # -1
    OBVIOUS
  <2> QED BY <1>2, <1>5, <2>2, <2>3, <2>4 DEF Promise!IteratorNext, Promise!Gone, Promise!None
<1>7. CASE li.next # NULL
  <2>1. PICK i \in 1 .. Len(q) : li.next = q[i]
    BY <1>5, <1>7 DEF Pointer
  <2>2. Places.next = i
    BY <1>4, <1>5, <2>1, PlaceAt
  <2>3. li' = Between(At(q, i + 1), q[i]) /\ result' = heap[q[i]].element
    BY <1>4, <1>7, <2>1 DEF list_iterator_next, Between, Links
  <2>4. Places' = [next |-> IF i = Len(q) THEN 0 ELSE i + 1, previous |-> i]
    BY <1>1, <1>3, <2>3, MovedPlaces
  <2>5. Len(Items) = Len(q) /\ Items[i] = heap[q[i]].element
    BY <1>1, <1>3, EmptyItems
  <2>6. i # 0 /\ i # -1
    OBVIOUS
  <2> QED BY <1>2, <1>5, <2>2, <2>3, <2>4, <2>5, <2>6
          DEF Promise!IteratorNext, Promise!Gone, Promise!None
<1> QED BY <1>6, <1>7

LEMMA PreviousImplements == ASSUME IInv, list_iterator_previous PROVE Promise!IteratorPrevious
<1>1. /\ pc = "idle" /\ pc' = "idle" /\ exists /\ li # NULL /\ li.previousFreed = FALSE
      /\ UNCHANGED <<list, call>>
  BY DEF list_iterator_previous, Ready, call, IInv, Cursor, Iterator
<1>2. Items' = Items /\ Open' = Open /\ Answer' = result' /\ Open
  BY <1>1, QuietMaps DEF Answer, Open
<1>3. PICK q : Chain(q)
  BY DEF IInv
<1>4. q \in Seq(Node) /\ Distinct(q) /\ Len(q) \in Nat /\ Links(heap, q)
  BY <1>3 DEF Chain
<1>5. /\ Places # NULL /\ Places.previous = Place(q, li.previous, FALSE)
      /\ Pointer(q, li.previous, FALSE)
  <2>1. /\ Places = [next |-> Place(q, li.next, li.nextFreed),
                     previous |-> Place(q, li.previous, li.previousFreed)]
        /\ Pointer(q, li.previous, li.previousFreed) /\ Places # NULL
    BY <1>1, <1>3, PlacesOf DEF IInv
  <2> QED BY <1>1, <2>1
<1>6. CASE li.previous = NULL
  <2>1. li' = li /\ result' = NULL
    BY <1>6 DEF list_iterator_previous
  <2>2. Promise!Fail(NULL)
    BY <1>1, <2>1, QuietImplements DEF call
  <2>3. Places.previous = 0
    BY <1>4, <1>5, <1>6, PlaceAt
  <2>4. 0 # -1
    OBVIOUS
  <2> QED BY <1>2, <1>5, <2>2, <2>3, <2>4 DEF Promise!IteratorPrevious, Promise!Gone, Promise!None
<1>7. CASE li.previous # NULL
  <2>1. PICK i \in 1 .. Len(q) : li.previous = q[i]
    BY <1>5, <1>7 DEF Pointer
  <2>2. Places.previous = i
    BY <1>4, <1>5, <2>1, PlaceAt
  <2>3. li' = Between(q[i], At(q, i - 1)) /\ result' = heap[q[i]].element
    BY <1>4, <1>7, <2>1 DEF list_iterator_previous, Between, Links
  <2>4. Places' = [next |-> i, previous |-> i - 1]
    BY <1>1, <1>3, <2>3, MovedPlaces
  <2>5. Items[i] = heap[q[i]].element
    BY <1>1, <1>3, EmptyItems
  <2>6. i # 0 /\ i # -1
    OBVIOUS
  <2> QED BY <1>2, <1>5, <2>2, <2>3, <2>4, <2>5, <2>6
          DEF Promise!IteratorPrevious, Promise!Gone, Promise!None
<1> QED BY <1>6, <1>7

LEMMA StepImplements == IInv /\ IInv' /\ [Next]_vars => [Promise!Next]_(Promise!vars)
<1> SUFFICES ASSUME IInv, IInv', [Next]_vars PROVE Promise!Next \/ UNCHANGED Promise!vars
  OBVIOUS
<1>1. CASE Refuse \/ NoMemory
  <2>1. /\ UNCHANGED <<list, li>> /\ pc = "idle" /\ pc' = "idle" /\ exists
        /\ result' \in {"EINVAL", "ENOMEM"}
    BY <1>1 DEF Refuse, NoMemory, Ready, call
  <2>2. Promise!Fail(result') /\ Open
    BY <2>1, QuietImplements DEF Open
  <2> QED BY <2>1, <2>2 DEF Promise!Next
<1>2. CASE ScanNext \/ UNCHANGED vars
  <2>1. UNCHANGED <<list, li, pc, result>>
    BY <1>2 DEF ScanNext, vars, call
  <2>2. CASE pc # "free"
    <3>1. Items' = Items /\ Open' = Open /\ Places' = Places /\ Answer' = Answer
      BY <2>1, <2>2, QuietMaps DEF Answer
    <3> QED BY <3>1 DEF Promise!vars
  <2>3. CASE pc = "free"
    <3>1. li = NULL /\ li' = NULL /\ pc' = "free"
      BY <2>1, <2>3 DEF IInv, Phases
    <3> QED BY <2>3, <3>1 DEF Promise!vars, Open, Items, Places, Answer
  <2> QED BY <2>2, <2>3
<1>3. ASSUME NEW element \in Element \cup {NULL},
             list_prepend(element) \/ list_append(element) \/ list_remove(element)
      PROVE  Promise!Next \/ UNCHANGED Promise!vars
  BY <1>3, PrependImplements, AppendImplements, RemoveImplements DEF Promise!Next
<1>4. CASE ScanFails \/ ScanUnlinks
  BY <1>4, ScanFailsImplements, ScanUnlinksImplements DEF Promise!Next
<1>5. CASE list_init \/ list_free \/ FreePops \/ FreeEnds
  BY <1>5, FreeImplements DEF Promise!Next
<1>6. CASE list_shift \/ list_pop
  BY <1>6, ShiftImplements, PopImplements DEF Promise!Next
<1>7. CASE list_iterator_reset \/ list_iterator_free \/ list_iterator_next \/ list_iterator_previous
  BY <1>7, ResetImplements, NextImplements, PreviousImplements DEF Promise!Next
<1> QED BY <1>1, <1>2, <1>3, <1>4, <1>5, <1>6, <1>7 DEF Next, Call, Step

LEMMA StartImplements == Init => Promise!Init
<1> SUFFICES ASSUME Init PROVE Promise!Init
  OBVIOUS
<1>1. Chain(<<>>)
  BY DEF Init, Chain, Links, Distinct, At
<1>2. Items = <<>>
  BY <1>1, Mapped DEF Init, Values
<1> QED BY <1>2 DEF Init, Promise!Init, Open, Places, Answer

\* Whatever is added, removed and walked over, list.c with its nodes and
\* pointers answers as the sequence of list.h would, and the iterator's
\* pointers are where the two positions of its promise are.
THEOREM ListIsDeque == Spec => ImplementsDeque
BY SpecIInv, StepImplements, StartImplements, PTL DEF Spec, ImplementsDeque, Promise!Spec
=============================================================================
