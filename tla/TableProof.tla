----------------------------- MODULE TableProof -----------------------------
(***************************************************************************)
(* Proofs about Table, for any keys, values and sizes.                     *)
(***************************************************************************)
EXTENDS Table, FiniteSetTheorems, TLAPS

\* A set of natural numbers has a least one, as their intervals from 1 have
\* under inclusion.
LEMMA LeastNatural ==
  ASSUME NEW T, T \subseteq Nat, T # {}
  PROVE  \E x \in T : \A y \in T : x <= y
<1> DEFINE below(n) == 1 .. n
           S == {below(n) : n \in T}
<1>1. IsWellFoundedOn(StrictSubsetOrdering(Nat), FiniteSubsetsOf(Nat))
  BY FS_StrictSubsetOrderingWellFounded
<1>2. S \subseteq FiniteSubsetsOf(Nat) /\ S # {}
  <2>1. \A n \in T : below(n) \subseteq Nat /\ IsFiniteSet(below(n))
    BY FS_Interval
  <2> QED BY <2>1 DEF FiniteSubsetsOf
<1>3. PICK s \in S : \A r \in S : <<r, s>> \notin StrictSubsetOrdering(Nat)
  <2> HIDE DEF S
  <2> QED BY <1>1, <1>2, WFMin
<1>4. PICK x \in T : s = below(x)
  OBVIOUS
<1>5. ASSUME NEW y \in T, y < x PROVE FALSE
  <2>1. <<below(y), below(x)>> \notin StrictSubsetOrdering(Nat)
    BY <1>3, <1>4
  <2>2. below(y) \subseteq below(x) /\ below(y) # below(x) /\ below(y) \subseteq Nat /\ below(x) \subseteq Nat
    <3>1. x \in below(x) /\ x \notin below(y) /\ x \in Nat /\ y \in Nat
      BY <1>5
    <3> QED BY <3>1, <1>5
  <2> QED BY <2>1, <2>2 DEF StrictSubsetOrdering
<1> QED BY <1>5

\* Induction over a set of numbers, which needs no operator.
LEMMA Inductive ==
  ASSUME NEW S, 0 \in S, \A n \in Nat : n \in S => n + 1 \in S
  PROVE  Nat \subseteq S
<1> SUFFICES ASSUME NEW T, T = {n \in Nat : n \notin S}, T # {} PROVE FALSE
  OBVIOUS
<1>1. PICK x \in T : \A y \in T : x <= y
  BY LeastNatural
<1>2. x \in Nat \ {0} /\ x - 1 \in Nat /\ x - 1 \notin T
  BY <1>1
<1>3. x - 1 \in S
  BY <1>2
<1>4. x - 1 + 1 = x
  BY <1>2
<1> QED BY <1>2, <1>3, <1>4
-----------------------------------------------------------------------------
(***************************************************************************)
(* The chain of a key is one of the table's.                               *)
(***************************************************************************)
Mixed(key) ==
  LET h[i \in 0 .. Len(key)] == IF i = 0 THEN 0 ELSE (37 * h[i - 1] + key[i]) % UINT
  IN  h[Len(key)]

MixedTo(key, n, f) ==
  f = [i \in 0 .. n |-> IF i = 0 THEN 0 ELSE (37 * f[i - 1] + key[i]) % UINT]

\* Every round of the loop has a value below UINT_MAX.
LEMMA MixedExists ==
  ASSUME NEW key \in Key
  PROVE  \E f \in [0 .. Len(key) -> 0 .. UINT - 1] : MixedTo(key, Len(key), f)
<1> DEFINE N == Len(key)
           Reached == {n \in Nat : n <= N => \E f \in [0 .. n -> 0 .. UINT - 1] : MixedTo(key, n, f)}
<1>1. key \in Seq(Nat) /\ N \in Nat /\ UINT \in Nat \ {0}
  BY KeyAssumption, BoundsAssumption
<1> HIDE DEF N
<1>2. 0 \in Reached
  <2>1. [i \in 0 .. 0 |-> 0] \in [0 .. 0 -> 0 .. UINT - 1]
    BY <1>1
  <2>2. MixedTo(key, 0, [i \in 0 .. 0 |-> 0])
    BY DEF MixedTo
  <2> QED BY <2>1, <2>2
<1>3. ASSUME NEW n \in Nat, n \in Reached PROVE n + 1 \in Reached
  <2> SUFFICES ASSUME n + 1 <= N
               PROVE  \E f \in [0 .. n + 1 -> 0 .. UINT - 1] : MixedTo(key, n + 1, f)
    OBVIOUS
  <2>1. PICK f \in [0 .. n -> 0 .. UINT - 1] : MixedTo(key, n, f)
    BY <1>1, <1>3
  <2>2. PICK v : v = (37 * f[n] + key[n + 1]) % UINT
    OBVIOUS
  <2>3. v \in 0 .. UINT - 1
    <3>1. f[n] \in Nat /\ key[n + 1] \in Nat
      BY <1>1 DEF N
    <3>2. PICK w : w = 37 * f[n] + key[n + 1]
      OBVIOUS
    <3>3. w \in Int
      BY <3>1, <3>2
    <3>4. w % UINT \in 0 .. UINT - 1
      BY <1>1, <3>3
    <3> QED BY <2>2, <3>2, <3>4
  <2>4. PICK g : g = [i \in 0 .. n + 1 |-> IF i = n + 1 THEN v ELSE f[i]]
    OBVIOUS
  <2>5. g \in [0 .. n + 1 -> 0 .. UINT - 1]
    <3>1. \A i \in 0 .. n + 1 : i # n + 1 => i \in 0 .. n
      OBVIOUS
    <3> QED BY <2>3, <2>4, <3>1
  <2>6. ASSUME NEW i \in 0 .. n + 1
        PROVE  g[i] = IF i = 0 THEN 0 ELSE (37 * g[i - 1] + key[i]) % UINT
    <3>1. \A j \in 0 .. n : f[j] = IF j = 0 THEN 0 ELSE (37 * f[j - 1] + key[j]) % UINT
      BY <2>1 DEF MixedTo
    <3>2. CASE i = n + 1
      <4>1. g[i] = v /\ g[i - 1] = f[n] /\ i # 0
        BY <2>4, <3>2
      <4> QED BY <2>2, <3>2, <4>1
    <3>3. CASE i \in 0 .. n
      <4>1. g[i] = f[i] /\ (i # 0 => g[i - 1] = f[i - 1])
        BY <2>4, <3>3
      <4> QED BY <3>1, <3>3, <4>1
    <3> QED BY <3>2, <3>3
  <2>7. MixedTo(key, n + 1, g)
    BY <2>4, <2>6 DEF MixedTo
  <2> QED BY <2>5, <2>7
<1>4. Nat \subseteq Reached
  <2> HIDE DEF Reached
  <2> QED BY <1>2, <1>3, Inductive
<1>5. N \in Reached
  BY <1>1, <1>4
<1> QED BY <1>1, <1>5 DEF N

LEMMA MixedNat ==
  ASSUME NEW key \in Key
  PROVE  Mixed(key) \in Nat
<1> DEFINE N == Len(key)
           h == CHOOSE f : MixedTo(key, N, f)
           Numbers == {n \in Nat : n <= N => h[n] \in Nat}
<1>1. key \in Seq(Nat) /\ N \in Nat /\ UINT \in Nat \ {0}
  BY KeyAssumption, BoundsAssumption
<1>2. MixedTo(key, N, h)
  BY MixedExists
<1>3. Mixed(key) = h[N]
  BY DEF Mixed, MixedTo
<1> HIDE DEF h, N
<1>4. \A i \in 0 .. N : h[i] = IF i = 0 THEN 0 ELSE (37 * h[i - 1] + key[i]) % UINT
  BY <1>2 DEF MixedTo
<1>5. 0 \in Numbers
  BY <1>1, <1>4
<1>6. ASSUME NEW n \in Nat, n \in Numbers PROVE n + 1 \in Numbers
  <2> SUFFICES ASSUME n + 1 <= N PROVE h[n + 1] \in Nat
    OBVIOUS
  <2>1. h[n] \in Nat /\ key[n + 1] \in Nat
    BY <1>1, <1>6 DEF N
  <2>2. 37 * h[n] + key[n + 1] \in Int
    BY <2>1
  <2>3. h[n + 1] = (37 * h[n] + key[n + 1]) % UINT
    BY <1>1, <1>4
  <2> QED BY <1>1, <2>2, <2>3
<1>7. Nat \subseteq Numbers
  <2> HIDE DEF Numbers
  <2> QED BY <1>5, <1>6, Inductive
<1> QED BY <1>1, <1>3, <1>7

LEMMA HashInTable ==
  ASSUME NEW key \in Key, NEW n \in Nat \ {0}
  PROVE  Mixed(key) % n \in 0 .. n - 1
BY MixedNat
-----------------------------------------------------------------------------
(***************************************************************************)
(* The nodes a table links to, with a node put into a chain or taken out.  *)
(***************************************************************************)
Places(e) == UNION {{<<h, i>> : i \in DOMAIN e[h]} : h \in DOMAIN e}
KeyedIn(e) == {p \in Places(e) : e[p[1]][p[2]].key # NULL}

Entries(n) == [0 .. n - 1 -> Seq(Node)]

\* The table b is a with a node more, at place i of chain h.
Inserted(n, a, b, h, i) ==
  /\ a \in Entries(n) /\ b \in Entries(n) /\ h \in 0 .. n - 1
  /\ Len(b[h]) = Len(a[h]) + 1 /\ i \in 1 .. Len(b[h])
  /\ \A j \in 1 .. Len(a[h]) : a[h][j] = b[h][IF j < i THEN j ELSE j + 1]
  /\ \A g \in 0 .. n - 1 : g # h => b[g] = a[g]

LEMMA PlacesOf ==
  ASSUME NEW n \in Nat, NEW e \in Entries(n)
  PROVE  \A p : p \in Places(e) <=>
           \E g \in 0 .. n - 1 : \E j \in 1 .. Len(e[g]) : p = <<g, j>>
<1>1. DOMAIN e = 0 .. n - 1 /\ \A g \in 0 .. n - 1 : DOMAIN e[g] = 1 .. Len(e[g])
  BY DEF Entries
<1> QED BY <1>1 DEF Places

LEMMA InsertedPlaces ==
  ASSUME NEW n \in Nat, NEW a, NEW b, NEW h, NEW i, Inserted(n, a, b, h, i)
  PROVE  /\ Places(b) = Places(a) \cup {<<h, Len(b[h])>>}
         /\ <<h, Len(b[h])>> \notin Places(a)
<1>1. a \in Entries(n) /\ b \in Entries(n) /\ h \in 0 .. n - 1 /\ Len(b[h]) = Len(a[h]) + 1
      /\ \A g \in 0 .. n - 1 : g # h => b[g] = a[g]
  BY DEF Inserted
<1>2. Len(a[h]) \in Nat
  BY <1>1 DEF Entries
<1>3. \A p : p \in Places(a) <=> \E g \in 0 .. n - 1 : \E j \in 1 .. Len(a[g]) : p = <<g, j>>
  BY <1>1, PlacesOf
<1>4. \A p : p \in Places(b) <=> \E g \in 0 .. n - 1 : \E j \in 1 .. Len(b[g]) : p = <<g, j>>
  BY <1>1, PlacesOf
<1>5. \A p \in Places(a) : p \in Places(b)
  <2> SUFFICES ASSUME NEW g \in 0 .. n - 1, NEW j \in 1 .. Len(a[g])
               PROVE  \E f \in 0 .. n - 1 : \E k \in 1 .. Len(b[f]) : <<g, j>> = <<f, k>>
    BY <1>3, <1>4
  <2>1. j \in 1 .. Len(b[g])
    BY <1>1, <1>2
  <2> QED BY <2>1
<1>6. <<h, Len(b[h])>> \in Places(b)
  <2>1. Len(b[h]) \in 1 .. Len(b[h])
    BY <1>1, <1>2
  <2> QED BY <1>1, <1>4, <2>1
<1>7. \A p \in Places(b) : p \in Places(a) \/ p = <<h, Len(b[h])>>
  <2> SUFFICES ASSUME NEW g \in 0 .. n - 1, NEW j \in 1 .. Len(b[g]), <<g, j>> # <<h, Len(b[h])>>
               PROVE  \E f \in 0 .. n - 1 : \E k \in 1 .. Len(a[f]) : <<g, j>> = <<f, k>>
    BY <1>3, <1>4
  <2>1. j \in 1 .. Len(a[g])
    BY <1>1, <1>2
  <2> QED BY <2>1
<1>8. <<h, Len(b[h])>> \notin Places(a)
  <2> SUFFICES ASSUME NEW g \in 0 .. n - 1, NEW j \in 1 .. Len(a[g]), <<h, Len(b[h])>> = <<g, j>>
               PROVE  FALSE
    BY <1>3
  <2>1. g = h /\ j = Len(a[h]) + 1
    BY <1>1
  <2> QED BY <1>2, <2>1
<1> QED BY <1>5, <1>6, <1>7, <1>8

LEMMA InsertedKeyed ==
  ASSUME NEW n \in Nat, NEW a, NEW b, NEW h, NEW i, Inserted(n, a, b, h, i)
  PROVE  ExistsBijection(KeyedIn(a), KeyedIn(b) \ {<<h, i>>})
<1> DEFINE to(p) == IF p[1] = h /\ p[2] >= i THEN <<h, p[2] + 1>> ELSE p
           S == KeyedIn(a)
           T == KeyedIn(b) \ {<<h, i>>}
           f == [p \in S |-> to(p)]
<1>1. a \in Entries(n) /\ b \in Entries(n) /\ h \in 0 .. n - 1 /\ Len(b[h]) = Len(a[h]) + 1
      /\ i \in 1 .. Len(b[h]) /\ \A g \in 0 .. n - 1 : g # h => b[g] = a[g]
  BY DEF Inserted
<1>2. \A j \in 1 .. Len(a[h]) : a[h][j] = b[h][IF j < i THEN j ELSE j + 1]
  BY DEF Inserted
<1>3. i \in Nat /\ \A g \in 0 .. n - 1 : Len(a[g]) \in Nat /\ Len(b[g]) \in Nat
  BY <1>1 DEF Entries
<1>4. \A p : p \in S <=> \E g \in 0 .. n - 1 : \E j \in 1 .. Len(a[g]) :
                            p = <<g, j>> /\ a[g][j].key # NULL
  BY <1>1, PlacesOf DEF KeyedIn
<1>5. \A p : p \in T <=> \E g \in 0 .. n - 1 : \E j \in 1 .. Len(b[g]) :
                            p = <<g, j>> /\ b[g][j].key # NULL /\ p # <<h, i>>
  BY <1>1, PlacesOf DEF KeyedIn
<1> HIDE DEF S, T
<1>6. ASSUME NEW p \in S PROVE to(p) \in T
  <2>1. PICK g, j : g \in 0 .. n - 1 /\ j \in 1 .. Len(a[g]) /\ p = <<g, j>> /\ a[g][j].key # NULL
    BY <1>4
  <2>2. CASE g # h
    <3>1. to(p) = <<g, j>> /\ b[g] = a[g] /\ <<g, j>> # <<h, i>>
      BY <1>1, <2>1, <2>2
    <3> QED BY <1>5, <2>1, <3>1
  <2>3. CASE g = h /\ j >= i
    <3>1. to(p) = <<h, j + 1>> /\ j + 1 \in 1 .. Len(b[h]) /\ j + 1 # i /\ b[h][j + 1] = a[h][j]
      BY <1>1, <1>2, <1>3, <2>1, <2>3
    <3>2. <<h, j + 1>> # <<h, i>>
      BY <3>1
    <3> QED BY <1>1, <1>5, <2>1, <2>3, <3>1, <3>2
  <2>4. CASE g = h /\ ~(j >= i)
    <3>1. to(p) = <<h, j>> /\ j \in 1 .. Len(b[h]) /\ j # i /\ b[h][j] = a[h][j]
      BY <1>1, <1>2, <1>3, <2>1, <2>4
    <3>2. <<h, j>> # <<h, i>>
      BY <3>1
    <3> QED BY <1>1, <1>5, <2>1, <2>4, <3>1, <3>2
  <2> QED BY <2>2, <2>3, <2>4
<1>7. ASSUME NEW p \in S, NEW r \in S, to(p) = to(r) PROVE p = r
  <2>1. PICK g, j : g \in 0 .. n - 1 /\ j \in 1 .. Len(a[g]) /\ p = <<g, j>>
    BY <1>4
  <2>2. PICK c, k : c \in 0 .. n - 1 /\ k \in 1 .. Len(a[c]) /\ r = <<c, k>>
    BY <1>4
  <2>3. j \in Int /\ k \in Int /\ i \in Int
    BY <1>3, <2>1, <2>2
  <2>4. p[1] = g /\ p[2] = j /\ r[1] = c /\ r[2] = k
    BY <2>1, <2>2
  <2>5. CASE g = h /\ j >= i
    BY <1>7, <2>1, <2>2, <2>3, <2>4, <2>5
  <2>6. CASE ~(g = h /\ j >= i)
    BY <1>7, <2>1, <2>2, <2>3, <2>4, <2>6
  <2> QED BY <2>5, <2>6
<1>8. ASSUME NEW r \in T PROVE \E p \in S : to(p) = r
  <2>1. PICK g, j : g \in 0 .. n - 1 /\ j \in 1 .. Len(b[g])
                   /\ r = <<g, j>> /\ b[g][j].key # NULL /\ r # <<h, i>>
    BY <1>5
  <2>2. CASE g # h
    <3>1. <<g, j>> \in S /\ to(<<g, j>>) = r
      BY <1>1, <1>4, <2>1, <2>2
    <3> QED BY <3>1
  <2>3. CASE g = h /\ j > i
    <3>1. PICK k : k = j - 1
      OBVIOUS
    <3>2. k \in 1 .. Len(a[h]) /\ k >= i /\ k + 1 = j /\ ~(k < i)
      BY <1>1, <1>3, <2>1, <2>3, <3>1
    <3>3. a[h][k] = b[h][j]
      BY <1>2, <3>2
    <3>4. <<h, k>> \in S
      BY <1>1, <1>4, <2>1, <2>3, <3>2, <3>3
    <3>5. to(<<h, k>>) = <<h, k + 1>>
      BY <3>2
    <3> QED BY <2>1, <2>3, <3>2, <3>4, <3>5
  <2>4. CASE g = h /\ j < i
    <3>1. j \in 1 .. Len(a[h]) /\ ~(j >= i) /\ a[h][j] = b[h][j]
      BY <1>1, <1>2, <1>3, <2>1, <2>4
    <3>2. <<h, j>> \in S /\ to(<<h, j>>) = <<h, j>>
      BY <1>1, <1>4, <2>1, <2>4, <3>1
    <3> QED BY <2>1, <2>4, <3>2
  <2>5. g = h => j > i \/ j < i
    BY <1>1, <1>3, <2>1
  <2> QED BY <2>2, <2>3, <2>4, <2>5
<1> HIDE DEF to
<1>9. f \in [S -> T]
  BY <1>6
<1>10. f \in Bijection(S, T)
  BY <1>7, <1>8, <1>9 DEF Bijection, Injection, Surjection, IsInjective
<1>11. ExistsBijection(S, T)
  BY <1>10 DEF ExistsBijection
<1> QED BY <1>11 DEF S, T

LEMMA InsertedCounts ==
  ASSUME NEW n \in Nat, NEW a, NEW b, NEW h, NEW i, Inserted(n, a, b, h, i),
         IsFiniteSet(Places(a)) \/ IsFiniteSet(Places(b))
  PROVE  /\ IsFiniteSet(Places(a)) /\ IsFiniteSet(Places(b))
         /\ Cardinality(Places(a)) \in Nat /\ Cardinality(KeyedIn(a)) \in Nat
         /\ Cardinality(Places(b)) = Cardinality(Places(a)) + 1
         /\ Cardinality(KeyedIn(b)) =
              IF b[h][i].key = NULL THEN Cardinality(KeyedIn(a)) ELSE Cardinality(KeyedIn(a)) + 1
<1>1. Places(b) = Places(a) \cup {<<h, Len(b[h])>>} /\ <<h, Len(b[h])>> \notin Places(a)
  BY InsertedPlaces
<1>2. IsFiniteSet(Places(a)) /\ IsFiniteSet(Places(b))
  <2>1. CASE IsFiniteSet(Places(a))
    BY <1>1, <2>1, FS_AddElement
  <2>2. CASE IsFiniteSet(Places(b))
    <3>1. Places(a) \in SUBSET Places(b)
      BY <1>1
    <3> QED BY <2>2, <3>1, FS_Subset
  <2> QED BY <2>1, <2>2
<1>3. Cardinality(Places(b)) = Cardinality(Places(a)) + 1
  BY <1>1, <1>2, FS_AddElement
<1>4. IsFiniteSet(KeyedIn(a)) /\ IsFiniteSet(KeyedIn(b))
  <2>1. KeyedIn(a) \in SUBSET Places(a) /\ KeyedIn(b) \in SUBSET Places(b)
    BY DEF KeyedIn
  <2> QED BY <1>2, <2>1, FS_Subset
<1>5. Cardinality(KeyedIn(b) \ {<<h, i>>}) = Cardinality(KeyedIn(a))
  BY <1>4, InsertedKeyed, FS_Bijection
<1>6. <<h, i>> \in KeyedIn(b) <=> b[h][i].key # NULL
  <2>1. <<h, i>> \in Places(b)
    <3>1. b \in Entries(n) /\ h \in 0 .. n - 1 /\ i \in 1 .. Len(b[h])
      BY DEF Inserted
    <3> QED BY <3>1, PlacesOf
  <2> QED BY <2>1 DEF KeyedIn
<1>7. Cardinality(Places(a)) \in Nat /\ Cardinality(KeyedIn(a)) \in Nat
      /\ Cardinality(KeyedIn(b)) \in Nat
  BY <1>2, <1>4, FS_CardinalityType
<1>8. Cardinality(KeyedIn(b) \ {<<h, i>>}) =
        IF b[h][i].key # NULL THEN Cardinality(KeyedIn(b)) - 1 ELSE Cardinality(KeyedIn(b))
  BY <1>4, <1>6, FS_RemoveElement
<1> QED BY <1>2, <1>3, <1>5, <1>7, <1>8
-----------------------------------------------------------------------------
(***************************************************************************)
(* What always holds.                                                      *)
(***************************************************************************)
Shape ==
  /\ open \in BOOLEAN
  /\ IF open THEN size \in Nat \ {0} /\ entries \in Entries(size) ELSE entries = <<>>

Memory == [tables : Int, arrays : Int, nodes : Int, keys : Int]

Counted ==
  /\ memory \in Memory
  /\ IsFiniteSet(Places(entries)) /\ NodesAccounted

IInv == Shape /\ Counted

LEMMA CountedPlaces ==
  NodesAccounted <=>
    /\ memory.tables = (IF open THEN 1 ELSE 0)
    /\ memory.nodes = Cardinality(Places(entries))
    /\ memory.keys = Cardinality(KeyedIn(entries))
BY DEF NodesAccounted, Linked, Keyed, Places, KeyedIn

LEMMA HashOf ==
  ASSUME NEW key \in Key, IInv, open
  PROVE  /\ hash(key) \in 0 .. size - 1 /\ hash(key) = Mixed(key) % size
         /\ size \in Nat \ {0} /\ entries \in Entries(size) /\ entries[hash(key)] \in Seq(Node)
<1>1. size \in Nat \ {0} /\ entries \in Entries(size)
  BY DEF IInv, Shape
<1>2. hash(key) = Mixed(key) % size
  BY DEF hash, Mixed
<1>3. hash(key) \in 0 .. size - 1
  BY <1>1, <1>2, HashInTable
<1> QED BY <1>1, <1>2, <1>3 DEF Entries

\* table_add puts a node in front of a chain, table_remove takes one out.
LEMMA AddInserts ==
  ASSUME IInv, open, NEW key \in Key, NEW value \in Value, NEW copy \in {key, NULL},
         entries' = [entries EXCEPT ![hash(key)] = <<[key |-> copy, value |-> value]>> \o @]
  PROVE  /\ Inserted(size, entries, entries', hash(key), 1)
         /\ entries'[hash(key)] = <<[key |-> copy, value |-> value]>> \o entries[hash(key)]
         /\ entries'[hash(key)][1] = [key |-> copy, value |-> value]
<1>1. PICK h : h = hash(key)
  OBVIOUS
<1>2. h \in 0 .. size - 1 /\ entries \in Entries(size) /\ entries[h] \in Seq(Node)
  BY <1>1, HashOf
<1>3. PICK node : node = [key |-> copy, value |-> value]
  OBVIOUS
<1>4. node \in Node
  BY <1>3 DEF Node
<1>5. PICK w : w = <<node>> \o entries[h]
  OBVIOUS
<1>6. w \in Seq(Node) /\ Len(w) = Len(entries[h]) + 1 /\ w[1] = node
      /\ \A j \in 1 .. Len(entries[h]) : entries[h][j] = w[j + 1]
  BY <1>2, <1>4, <1>5
<1>7. entries' = [entries EXCEPT ![h] = w]
  BY <1>1, <1>3, <1>5
<1>8. entries' \in Entries(size) /\ entries'[h] = w /\ \A g \in 0 .. size - 1 : g # h => entries'[g] = entries[g]
  BY <1>2, <1>6, <1>7 DEF Entries
<1>9. 1 \in 1 .. Len(w) /\ \A j \in 1 .. Len(entries[h]) : ~(j < 1)
  BY <1>2, <1>6
<1>10. Inserted(size, entries, entries', h, 1)
  BY <1>2, <1>6, <1>8, <1>9 DEF Inserted
<1> QED BY <1>1, <1>3, <1>5, <1>6, <1>8, <1>10

LEMMA RemoveInserts ==
  ASSUME IInv, open, NEW h \in 0 .. size - 1, NEW i \in 1 .. Len(entries[h]),
         entries' = [entries EXCEPT ![h] = RemoveAt(entries[h], i)]
  PROVE  Inserted(size, entries', entries, h, i)
<1>1. entries \in Entries(size) /\ entries[h] \in Seq(Node) /\ Len(entries[h]) \in Nat
  BY DEF IInv, Shape, Entries
<1>2. PICK chain : chain = entries[h]
  OBVIOUS
<1>3. PICK x : x = SubSeq(chain, 1, i - 1)
  OBVIOUS
<1>4. PICK y : y = SubSeq(chain, i + 1, Len(chain))
  OBVIOUS
<1>5. x \in Seq(Node) /\ Len(x) = i - 1 /\ \A j \in 1 .. i - 1 : x[j] = chain[j]
  BY <1>1, <1>2, <1>3
<1>6. y \in Seq(Node) /\ Len(y) = Len(chain) - i /\ \A j \in 1 .. Len(chain) - i : y[j] = chain[i + j]
  BY <1>1, <1>2, <1>4
<1>7. PICK w : w = x \o y
  OBVIOUS
<1>8. w \in Seq(Node) /\ Len(w) = Len(chain) - 1
  <2>1. w \in Seq(Node) /\ Len(w) = Len(x) + Len(y)
    <3>1. x \in Seq(Node) /\ y \in Seq(Node)
      BY <1>5, <1>6
    <3> QED BY <1>7, <3>1
  <2>2. Len(w) = (i - 1) + (Len(chain) - i) /\ Len(chain) \in Nat
    BY <1>1, <1>2, <1>5, <1>6, <2>1
  <2> QED BY <2>1, <2>2
<1>9. ASSUME NEW j \in 1 .. Len(w) PROVE w[j] = chain[IF j < i THEN j ELSE j + 1]
  <2>1. CASE j < i
    <3>1. w[j] = x[j] /\ j \in 1 .. i - 1
      BY <1>1, <1>2, <1>5, <1>6, <1>7, <1>8, <2>1
    <3> QED BY <1>5, <2>1, <3>1
  <2>2. CASE ~(j < i)
    <3>1. w[j] = y[j - (i - 1)]
      BY <1>1, <1>2, <1>5, <1>6, <1>7, <1>8, <2>2
    <3>2. j - (i - 1) \in 1 .. Len(chain) - i /\ i + (j - (i - 1)) = j + 1
      BY <1>1, <1>2, <1>8, <2>2
    <3> QED BY <1>6, <2>2, <3>1, <3>2
  <2> QED BY <2>1, <2>2
<1>10. entries' = [entries EXCEPT ![h] = w]
  BY <1>2, <1>3, <1>4, <1>7 DEF RemoveAt
<1>11. entries' \in Entries(size) /\ entries'[h] = w
       /\ \A g \in 0 .. size - 1 : g # h => entries[g] = entries'[g]
  BY <1>1, <1>8, <1>10 DEF Entries
<1>12. Len(entries[h]) = Len(w) + 1
  BY <1>1, <1>2, <1>8
<1> QED BY <1>1, <1>2, <1>9, <1>11, <1>12 DEF Inserted

LEMMA PositionInChain ==
  ASSUME NEW chain \in Seq(Node), NEW key
  PROVE  LET i == Position(chain, key)
         IN  /\ i = 0 => \A j \in 1 .. Len(chain) : chain[j].key \notin {key, NULL}
             /\ i # 0 => /\ i \in 1 .. Len(chain) /\ chain[i].key \in {key, NULL}
                         /\ \A j \in 1 .. i - 1 : chain[j].key \notin {key, NULL}
<1> DEFINE stops == {i \in DOMAIN chain : chain[i].key \in {key, NULL}}
<1>1. stops \subseteq 1 .. Len(chain) /\ stops \subseteq Nat /\ Len(chain) \in Nat
  OBVIOUS
<1>2. CASE stops = {}
  <2>1. Position(chain, key) = 0
    BY <1>2 DEF Position
  <2> QED BY <1>2, <2>1
<1>3. CASE stops # {}
  <2>1. \E i \in stops : \A j \in stops : i <= j
    <3> HIDE DEF stops
    <3> QED BY <1>1, <1>3, LeastNatural
  <2>2. PICK i : i = Position(chain, key)
    OBVIOUS
  <2>3. i = CHOOSE k \in stops : \A j \in stops : k <= j
    BY <1>3, <2>2 DEF Position
  <2>4. i \in stops /\ \A j \in stops : i <= j
    <3> HIDE DEF stops
    <3> QED BY <2>1, <2>3
  <2>5. \A j \in 1 .. i - 1 : j \notin stops /\ j \in 1 .. Len(chain)
    BY <1>1, <2>4
  <2>6. i # 0
    BY <1>1, <2>4
  <2> QED BY <1>1, <2>2, <2>4, <2>5, <2>6
<1> QED BY <1>2, <1>3
-----------------------------------------------------------------------------
\* A table without entries, and one without nodes, links to nothing.
LEMMA NoPlaces ==
  ASSUME NEW e, e = <<>> \/ \E n \in Nat : e = Chains(n)
  PROVE  Places(e) = {} /\ KeyedIn(e) = {}
<1>1. CASE e = <<>>
  BY <1>1 DEF Places, KeyedIn
<1>2. ASSUME NEW n \in Nat, e = Chains(n) PROVE Places(e) = {} /\ KeyedIn(e) = {}
  <2>1. \A g \in DOMAIN e : e[g] = <<>>
    BY <1>2 DEF Chains
  <2> QED BY <2>1 DEF Places, KeyedIn
<1> QED BY <1>1, <1>2

LEMMA InitIInv == Init => IInv
<1> SUFFICES ASSUME Init PROVE IInv
  OBVIOUS
<1>1. Shape
  BY DEF Init, Shape, NoChains
<1>2. Places(entries) = {} /\ KeyedIn(entries) = {}
  BY NoPlaces DEF Init, NoChains
<1>3. Counted
  BY <1>2, CountedPlaces, FS_EmptySet DEF Counted, Init, Memory
<1> QED BY <1>1, <1>3 DEF IInv

LEMMA CountedPlacesNext ==
  NodesAccounted' <=>
    /\ memory'.tables = (IF open' THEN 1 ELSE 0)
    /\ memory'.nodes = Cardinality(Places(entries'))
    /\ memory'.keys = Cardinality(KeyedIn(entries'))
BY DEF NodesAccounted, Linked, Keyed, Places, KeyedIn

LEMMA QuietKeeps ==
  ASSUME IInv, UNCHANGED <<open, size, entries, memory>>
  PROVE  IInv'
<1>1. Shape'
  BY DEF IInv, Shape
<1>2. Counted'
  BY CountedPlaces, CountedPlacesNext DEF IInv, Counted
<1> QED BY <1>1, <1>2 DEF IInv

LEMMA OpensKeeps ==
  ASSUME IInv, NEW n, (n \in Sizes /\ table_init(n)) \/ table_free
  PROVE  IInv'
<1>1. CASE UNCHANGED <<open, size, entries, memory>>
  BY <1>1, QuietKeeps
<1>2. memory \in Memory
      /\ memory.tables = (IF open THEN 1 ELSE 0)
      /\ memory.nodes = Cardinality(Places(entries)) /\ memory.keys = Cardinality(KeyedIn(entries))
  BY CountedPlaces DEF IInv, Counted
<1>3. CASE /\ ~open /\ n \in Sizes /\ n # 0 /\ open' = TRUE /\ size' = n /\ entries' = Chains(n)
           /\ memory' = [memory EXCEPT !.tables = @ + 1, !.arrays = @ + 1]
  <2>1. n \in Nat \ {0}
    BY <1>3, BoundsAssumption
  <2>2. Chains(n) \in Entries(n)
    BY DEF Chains, Entries
  <2>3. Shape'
    BY <1>3, <2>1, <2>2 DEF Shape
  <2>4. Places(entries') = {} /\ KeyedIn(entries') = {} /\ Places(entries) = {} /\ KeyedIn(entries) = {}
    BY <1>3, <2>1, NoPlaces DEF IInv, Shape
  <2>5. /\ memory' \in Memory
        /\ memory'.tables = 1 /\ memory'.nodes = memory.nodes /\ memory'.keys = memory.keys
    <3>1. PICK m : m = [memory EXCEPT !.tables = @ + 1]
      OBVIOUS
    <3>2. memory' = [m EXCEPT !.arrays = @ + 1]
      BY <1>3, <3>1
    <3>3. m \in Memory /\ m.tables = 1 /\ m.nodes = memory.nodes /\ m.keys = memory.keys
      BY <1>2, <1>3, <3>1 DEF Memory
    <3> QED BY <3>2, <3>3 DEF Memory
  <2>6. Counted'
    BY <1>2, <1>3, <2>4, <2>5, CountedPlacesNext, FS_EmptySet DEF Counted
  <2> QED BY <2>3, <2>6 DEF IInv
<1>4. CASE table_free
  <2>1. /\ open /\ open' = FALSE /\ entries' = <<>>
        /\ memory' = [memory EXCEPT !.tables = @ - 1,
                                    !.nodes = @ - Cardinality(Places(entries)),
                                    !.keys = @ - Cardinality(KeyedIn(entries))]
    BY <1>4 DEF table_free, Usable, NoChains, Linked, Keyed, Places, KeyedIn
  <2>2. Shape'
    BY <2>1 DEF Shape
  <2>3. Places(entries') = {} /\ KeyedIn(entries') = {}
    BY <2>1, NoPlaces
  <2>4. memory.nodes \in Int /\ memory.keys \in Int
    BY <1>2 DEF Memory
  <2>5. /\ memory' \in Memory
        /\ memory'.tables = 0 /\ memory'.nodes = 0 /\ memory'.keys = 0
    <3>1. PICK m : m = [memory EXCEPT !.tables = @ - 1]
      OBVIOUS
    <3>2. PICK k : k = [m EXCEPT !.nodes = @ - Cardinality(Places(entries))]
      OBVIOUS
    <3>3. memory' = [k EXCEPT !.keys = @ - Cardinality(KeyedIn(entries))]
      BY <2>1, <3>1, <3>2
    <3>4. m \in Memory /\ m.tables = 0 /\ m.nodes = memory.nodes /\ m.keys = memory.keys
      BY <1>2, <2>1, <3>1 DEF Memory
    <3>5. k \in Memory /\ k.tables = 0 /\ k.nodes = 0 /\ k.keys = memory.keys
      BY <1>2, <2>4, <3>2, <3>4 DEF Memory
    <3> QED BY <1>2, <2>4, <3>3, <3>5 DEF Memory
  <2>6. Counted'
    BY <2>1, <2>3, <2>5, CountedPlacesNext, FS_EmptySet DEF Counted
  <2> QED BY <2>2, <2>6 DEF IInv
<1> QED BY <1>1, <1>3, <1>4 DEF table_init

LEMMA AddKeeps ==
  ASSUME IInv, NEW key \in Key, NEW value \in Value, table_add(key, value)
  PROVE  IInv'
<1>1. CASE UNCHANGED <<entries, memory>>
  BY <1>1, QuietKeeps DEF table_add
<1>2. ASSUME NEW copy \in {key, NULL},
             entries' = [entries EXCEPT ![hash(key)] = <<[key |-> copy, value |-> value]>> \o @],
             memory' = [memory EXCEPT !.nodes = @ + 1, !.keys = IF copy = NULL THEN @ ELSE @ + 1]
      PROVE  IInv'
  <2>1. open /\ UNCHANGED <<open, size>>
    BY DEF table_add, Usable
  <2>2. PICK h : h = hash(key)
    OBVIOUS
  <2>3. PICK b : b = entries'
    OBVIOUS
  <2>4. Inserted(size, entries, b, h, 1) /\ b[h][1] = [key |-> copy, value |-> value]
    <3>1. Inserted(size, entries, entries', hash(key), 1)
          /\ entries'[hash(key)][1] = [key |-> copy, value |-> value]
      BY <1>2, <2>1, AddInserts
    <3> QED BY <2>2, <2>3, <3>1
  <2>5. IsFiniteSet(Places(entries)) /\ size \in Nat
    BY <2>1 DEF IInv, Counted, Shape
  <2>6. /\ IsFiniteSet(Places(b)) /\ Cardinality(Places(entries)) \in Nat
        /\ Cardinality(KeyedIn(entries)) \in Nat
        /\ Cardinality(Places(b)) = Cardinality(Places(entries)) + 1
        /\ Cardinality(KeyedIn(b)) = IF copy = NULL THEN Cardinality(KeyedIn(entries))
                                     ELSE Cardinality(KeyedIn(entries)) + 1
    BY <2>4, <2>5, InsertedCounts
  <2>7. /\ memory \in Memory
        /\ memory.tables = (IF open THEN 1 ELSE 0)
        /\ memory.nodes = Cardinality(Places(entries)) /\ memory.keys = Cardinality(KeyedIn(entries))
    BY CountedPlaces DEF IInv, Counted
  <2>8. /\ memory' \in Memory
        /\ memory'.tables = memory.tables /\ memory'.nodes = memory.nodes + 1
        /\ memory'.keys = IF copy = NULL THEN memory.keys ELSE memory.keys + 1
    <3>1. PICK m : m = [memory EXCEPT !.nodes = @ + 1]
      OBVIOUS
    <3>2. memory' = [m EXCEPT !.keys = IF copy = NULL THEN @ ELSE @ + 1]
      BY <1>2, <3>1
    <3>3. m \in Memory /\ m.tables = memory.tables /\ m.nodes = memory.nodes + 1 /\ m.keys = memory.keys
      BY <2>7, <3>1 DEF Memory
    <3>4. m.keys \in Int /\ (IF copy = NULL THEN m.keys ELSE m.keys + 1) \in Int
      BY <3>3 DEF Memory
    <3> QED BY <3>2, <3>3, <3>4 DEF Memory
  <2>9. Counted'
    BY <2>1, <2>3, <2>6, <2>7, <2>8, CountedPlacesNext DEF Counted
  <2>10. Shape'
    BY <2>1, <2>3, <2>4 DEF Shape, IInv, Inserted
  <2> QED BY <2>9, <2>10 DEF IInv
<1> QED BY <1>1, <1>2 DEF table_add

LEMMA RemoveKeeps ==
  ASSUME IInv, NEW key \in Key, table_remove(key)
  PROVE  IInv'
<1>1. open
  BY DEF table_remove, Usable
<1>2. PICK h : h = hash(key)
  OBVIOUS
<1>3. PICK i : i = Position(entries[h], key)
  OBVIOUS
<1>4. CASE UNCHANGED <<open, size, entries, memory>>
  BY <1>4, QuietKeeps
<1>5. CASE /\ i # 0 /\ entries[h][i].key # NULL
           /\ entries' = [entries EXCEPT ![h] = RemoveAt(entries[h], i)]
           /\ memory' = [memory EXCEPT !.nodes = @ - 1, !.keys = @ - 1]
           /\ UNCHANGED <<open, size>>
  <2>1. h \in 0 .. size - 1 /\ size \in Nat /\ entries[h] \in Seq(Node)
    BY <1>1, <1>2, HashOf
  <2>2. i \in 1 .. Len(entries[h])
    BY <1>3, <1>5, <2>1, PositionInChain
  <2>3. PICK a : a = entries'
    OBVIOUS
  <2>4. Inserted(size, a, entries, h, i)
    BY <1>1, <1>5, <2>1, <2>2, <2>3, RemoveInserts
  <2>5. IsFiniteSet(Places(entries))
    BY DEF IInv, Counted
  <2>6. /\ IsFiniteSet(Places(a)) /\ Cardinality(Places(a)) \in Nat /\ Cardinality(KeyedIn(a)) \in Nat
        /\ Cardinality(Places(entries)) = Cardinality(Places(a)) + 1
        /\ Cardinality(KeyedIn(entries)) = Cardinality(KeyedIn(a)) + 1
    BY <1>5, <2>1, <2>4, <2>5, InsertedCounts
  <2>7. /\ memory \in Memory
        /\ memory.tables = (IF open THEN 1 ELSE 0)
        /\ memory.nodes = Cardinality(Places(entries)) /\ memory.keys = Cardinality(KeyedIn(entries))
    BY CountedPlaces DEF IInv, Counted
  <2>8. /\ memory' \in Memory
        /\ memory'.tables = memory.tables /\ memory'.nodes = memory.nodes - 1
        /\ memory'.keys = memory.keys - 1
    <3>1. PICK m : m = [memory EXCEPT !.nodes = @ - 1]
      OBVIOUS
    <3>2. memory' = [m EXCEPT !.keys = @ - 1]
      BY <1>5, <3>1
    <3>3. m \in Memory /\ m.tables = memory.tables /\ m.nodes = memory.nodes - 1 /\ m.keys = memory.keys
      BY <2>7, <3>1 DEF Memory
    <3> QED BY <3>2, <3>3 DEF Memory
  <2>9. Counted'
    BY <1>5, <2>3, <2>6, <2>7, <2>8, CountedPlacesNext DEF Counted
  <2>10. Shape'
    BY <1>1, <1>5, <2>3, <2>4 DEF Shape, IInv, Inserted
  <2> QED BY <2>9, <2>10 DEF IInv
<1> QED BY <1>2, <1>3, <1>4, <1>5 DEF table_remove, Crash

LEMMA NextKeeps == IInv /\ [Next]_vars => IInv'
<1> SUFFICES ASSUME IInv, [Next]_vars PROVE IInv'
  OBVIOUS
<1>1. CASE table_free
  BY <1>1, OpensKeeps
<1>2. ASSUME NEW key \in Key, table_lookup(key) PROVE IInv'
  BY <1>2, QuietKeeps DEF table_lookup, Crash
<1>3. CASE UNCHANGED vars
  BY <1>3, QuietKeeps DEF vars
<1> QED BY <1>1, <1>2, <1>3, OpensKeeps, AddKeeps, RemoveKeeps DEF Next

LEMMA SpecIInv == Spec => []IInv
BY InitIInv, NextKeeps, PTL DEF Spec

\* The blocks table.c has allocated are those the table links to, for any
\* keys and sizes and whatever the allocator refused: nothing it unlinks is
\* leaked or freed twice.
THEOREM TableFreesWhatItLinks == Spec => []NodesAccounted
<1>1. IInv => NodesAccounted
  BY DEF IInv, Counted
<1> QED BY <1>1, SpecIInv, PTL
-----------------------------------------------------------------------------
(***************************************************************************)
(* The values of a key in a chain, by where they start.                    *)
(***************************************************************************)
From(chain, k, first, f) ==
  f = [i \in first .. Len(chain) + 1 |->
         IF i = Len(chain) + 1 THEN <<>>
         ELSE IF chain[i].key = k THEN <<chain[i].value>> \o f[i + 1] ELSE f[i + 1]]

Starts(chain, k) == CHOOSE f : From(chain, k, 1, f)

LEMMA StartsExist ==
  ASSUME NEW chain \in Seq(Node), NEW k
  PROVE  \E f \in [1 .. Len(chain) + 1 -> Seq(Value)] : From(chain, k, 1, f)
<1> DEFINE N == Len(chain)
           Reached == {n \in Nat : n <= N =>
             \E f \in [N + 1 - n .. N + 1 -> Seq(Value)] : From(chain, k, N + 1 - n, f)}
<1>1. N \in Nat /\ \A i \in 1 .. N : chain[i].value \in Value
  <2>1. N \in Nat /\ \A i \in 1 .. N : chain[i] \in Node
    OBVIOUS
  <2>2. \A node \in Node : node.value \in Value
    BY DEF Node
  <2> QED BY <2>1, <2>2
<1>2. 0 \in Reached
  <2>1. PICK f : f = [i \in N + 1 - 0 .. N + 1 |-> <<>>]
    OBVIOUS
  <2>2. \A i \in N + 1 - 0 .. N + 1 : i = N + 1
    BY <1>1
  <2>3. f \in [N + 1 - 0 .. N + 1 -> Seq(Value)] /\ From(chain, k, N + 1 - 0, f)
    BY <2>1, <2>2 DEF From
  <2> QED BY <2>3
<1> HIDE DEF N
<1>3. ASSUME NEW n \in Nat, n \in Reached PROVE n + 1 \in Reached
  <2> SUFFICES ASSUME n + 1 <= N
               PROVE  \E f \in [N + 1 - (n + 1) .. N + 1 -> Seq(Value)] :
                        From(chain, k, N + 1 - (n + 1), f)
    OBVIOUS
  <2>1. PICK p : p = N - n
    OBVIOUS
  <2>2. p \in 1 .. N /\ p = N + 1 - (n + 1) /\ p + 1 = N + 1 - n
    BY <1>1, <2>1
  <2>3. PICK f \in [p + 1 .. N + 1 -> Seq(Value)] : From(chain, k, p + 1, f)
    BY <1>1, <1>3, <2>2
  <2>4. PICK v : v = IF chain[p].key = k THEN <<chain[p].value>> \o f[p + 1] ELSE f[p + 1]
    OBVIOUS
  <2>5. f[p + 1] \in Seq(Value) /\ v \in Seq(Value)
    <3>1. p + 1 \in p + 1 .. N + 1
      BY <1>1, <2>2
    <3>2. f[p + 1] \in Seq(Value) /\ chain[p].value \in Value
      BY <1>1, <2>2, <2>3, <3>1
    <3> QED BY <2>4, <3>2
  <2>6. PICK g : g = [i \in p .. N + 1 |-> IF i = p THEN v ELSE f[i]]
    OBVIOUS
  <2>7. \A i \in p .. N + 1 : i # p => i \in p + 1 .. N + 1
    BY <1>1, <2>2
  <2>8. g \in [p .. N + 1 -> Seq(Value)]
    BY <2>3, <2>5, <2>6, <2>7
  <2>9. ASSUME NEW i \in p .. N + 1
        PROVE  g[i] = IF i = N + 1 THEN <<>>
                      ELSE IF chain[i].key = k THEN <<chain[i].value>> \o g[i + 1] ELSE g[i + 1]
    <3>1. CASE i = p
      <4>1. i # N + 1 /\ i + 1 \in p .. N + 1 /\ i + 1 # p
        BY <1>1, <2>2, <3>1
      <4>2. g[i] = v /\ g[i + 1] = f[p + 1]
        BY <2>6, <3>1, <4>1
      <4> QED BY <2>4, <3>1, <4>1, <4>2
    <3>2. CASE i # p
      <4>1. i \in p + 1 .. N + 1 /\ g[i] = f[i]
        BY <2>6, <2>7, <3>2
      <4>2. f[i] = IF i = N + 1 THEN <<>>
                   ELSE IF chain[i].key = k THEN <<chain[i].value>> \o f[i + 1] ELSE f[i + 1]
        BY <2>3, <4>1 DEF From, N
      <4>3. i # N + 1 => g[i + 1] = f[i + 1]
        <5>1. i # N + 1 => i + 1 \in p .. N + 1 /\ i + 1 # p
          BY <1>1, <2>2, <4>1
        <5> QED BY <2>6, <5>1
      <4> QED BY <4>1, <4>2, <4>3
    <3> QED BY <3>1, <3>2
  <2>10. From(chain, k, p, g)
    BY <2>6, <2>9 DEF From, N
  <2> QED BY <2>2, <2>8, <2>10
<1>4. Nat \subseteq Reached
  <2> HIDE DEF Reached
  <2> QED BY <1>2, <1>3, Inductive DEF N
<1>5. N \in Reached /\ N + 1 - N = 1
  BY <1>1, <1>4
<1> QED BY <1>1, <1>5 DEF N

LEMMA StartsAt ==
  ASSUME NEW chain \in Seq(Node), NEW k
  PROVE  /\ Matching(chain, k) = Starts(chain, k)[1]
         /\ Starts(chain, k)[Len(chain) + 1] = <<>>
         /\ \A i \in 1 .. Len(chain) :
              Starts(chain, k)[i] =
                IF chain[i].key = k THEN <<chain[i].value>> \o Starts(chain, k)[i + 1]
                ELSE Starts(chain, k)[i + 1]
<1>1. From(chain, k, 1, Starts(chain, k))
  BY StartsExist DEF Starts
<1>2. Matching(chain, k) = Starts(chain, k)[1]
  BY DEF Matching, Starts, From
<1>3. PICK f : f = Starts(chain, k)
  OBVIOUS
<1>4. Len(chain) \in Nat /\ \A i \in 1 .. Len(chain) : i \in 1 .. Len(chain) + 1 /\ i # Len(chain) + 1
  OBVIOUS
<1>5. Len(chain) + 1 \in 1 .. Len(chain) + 1
  BY <1>4
<1> QED BY <1>1, <1>2, <1>3, <1>4, <1>5 DEF From

LEMMA StartsSeq ==
  ASSUME NEW chain \in Seq(Node), NEW k
  PROVE  \A i \in 1 .. Len(chain) + 1 : Starts(chain, k)[i] \in Seq(Value)
<1> DEFINE N == Len(chain)
           Good == {n \in Nat : n <= N => Starts(chain, k)[N + 1 - n] \in Seq(Value)}
<1>1. N \in Nat /\ \A i \in 1 .. N : chain[i].value \in Value
  <2>1. N \in Nat /\ \A i \in 1 .. N : chain[i] \in Node
    OBVIOUS
  <2>2. \A node \in Node : node.value \in Value
    BY DEF Node
  <2> QED BY <2>1, <2>2
<1>2. /\ Starts(chain, k)[N + 1] = <<>>
      /\ \A i \in 1 .. N :
           Starts(chain, k)[i] =
             IF chain[i].key = k THEN <<chain[i].value>> \o Starts(chain, k)[i + 1]
             ELSE Starts(chain, k)[i + 1]
  BY StartsAt
<1> HIDE DEF N
<1>3. 0 \in Good
  <2>1. N + 1 - 0 = N + 1 /\ <<>> \in Seq(Value)
    BY <1>1
  <2>2. Starts(chain, k)[N + 1 - 0] \in Seq(Value)
    BY <1>2, <2>1
  <2> QED BY <2>2
<1>4. ASSUME NEW n \in Nat, n \in Good PROVE n + 1 \in Good
  <2> SUFFICES ASSUME n + 1 <= N PROVE Starts(chain, k)[N + 1 - (n + 1)] \in Seq(Value)
    OBVIOUS
  <2>1. PICK p : p = N - n
    OBVIOUS
  <2>2. p \in 1 .. N /\ p = N + 1 - (n + 1) /\ p + 1 = N + 1 - n
    BY <1>1, <2>1
  <2>3. PICK t : t = Starts(chain, k)[p + 1]
    OBVIOUS
  <2>4. t \in Seq(Value) /\ chain[p].value \in Value
    BY <1>1, <1>4, <2>2, <2>3
  <2>5. Starts(chain, k)[p] = IF chain[p].key = k THEN <<chain[p].value>> \o t ELSE t
    BY <1>2, <2>2, <2>3
  <2>6. <<chain[p].value>> \o t \in Seq(Value)
    BY <2>4
  <2> QED BY <2>2, <2>4, <2>5, <2>6
<1>5. Nat \subseteq Good
  <2> HIDE DEF Good
  <2> QED BY <1>3, <1>4, Inductive
<1>6. ASSUME NEW i \in 1 .. N + 1 PROVE Starts(chain, k)[i] \in Seq(Value)
  <2>1. N + 1 - i \in Nat /\ N + 1 - i <= N /\ N + 1 - (N + 1 - i) = i
    BY <1>1
  <2>2. N + 1 - i \in Good
    BY <1>5, <2>1
  <2> QED BY <2>1, <2>2
<1> QED BY <1>6 DEF N

\* Behind places with the same values and before nodes that are the same,
\* the values are the same.
Agree(a, b, k, i, j, m) ==
  Starts(a, k)[i] = Starts(b, k)[j] /\ (\A d \in 1 .. m : a[i - d] = b[j - d])
    => Starts(a, k)[i - m] = Starts(b, k)[j - m]

LEMMA StartsAgree ==
  ASSUME NEW a \in Seq(Node), NEW b \in Seq(Node), NEW k,
         NEW i \in 1 .. Len(a) + 1, NEW j \in 1 .. Len(b) + 1, NEW m \in Nat, m < i, m < j
  PROVE  Agree(a, b, k, i, j, m)
<1> SUFFICES ASSUME Starts(a, k)[i] = Starts(b, k)[j], \A d \in 1 .. m : a[i - d] = b[j - d]
             PROVE  Starts(a, k)[i - m] = Starts(b, k)[j - m]
  BY DEF Agree
<1> DEFINE Same == {n \in Nat : n <= m => Starts(a, k)[i - n] = Starts(b, k)[j - n]}
<1>1. i \in Nat /\ j \in Nat /\ Len(a) \in Nat /\ Len(b) \in Nat
  OBVIOUS
<1>2. 0 \in Same
  <2>1. i - 0 = i /\ j - 0 = j
    BY <1>1
  <2> QED BY <2>1
<1>3. ASSUME NEW n \in Nat, n \in Same PROVE n + 1 \in Same
  <2> SUFFICES ASSUME n + 1 <= m
               PROVE  Starts(a, k)[i - (n + 1)] = Starts(b, k)[j - (n + 1)]
    OBVIOUS
  <2>1. PICK x : x = i - (n + 1)
    OBVIOUS
  <2>2. PICK y : y = j - (n + 1)
    OBVIOUS
  <2>3. x \in 1 .. Len(a) /\ y \in 1 .. Len(b) /\ x + 1 = i - n /\ y + 1 = j - n
    BY <1>1, <2>1, <2>2
  <2>4. a[x] = b[y] /\ n <= m
    <3>1. n + 1 \in 1 .. m /\ n <= m
      OBVIOUS
    <3> QED BY <2>1, <2>2, <3>1
  <2>5. Starts(a, k)[x + 1] = Starts(b, k)[y + 1]
    BY <1>3, <2>3, <2>4
  <2>6. Starts(a, k)[x] = IF a[x].key = k THEN <<a[x].value>> \o Starts(a, k)[x + 1]
                          ELSE Starts(a, k)[x + 1]
    BY <2>3, StartsAt
  <2>7. Starts(b, k)[y] = IF b[y].key = k THEN <<b[y].value>> \o Starts(b, k)[y + 1]
                          ELSE Starts(b, k)[y + 1]
    BY <2>3, StartsAt
  <2> QED BY <2>1, <2>2, <2>4, <2>5, <2>6, <2>7
<1>4. Nat \subseteq Same
  <2> HIDE DEF Same
  <2> QED BY <1>2, <1>3, Inductive
<1> QED BY <1>4

\* Nodes with other keys add nothing.
Skip(a, k, i, m) ==
  (\A d \in 1 .. m : a[i - d].key # k) => Starts(a, k)[i - m] = Starts(a, k)[i]

LEMMA StartsSkip ==
  ASSUME NEW a \in Seq(Node), NEW k, NEW i \in 1 .. Len(a) + 1, NEW m \in Nat, m < i
  PROVE  Skip(a, k, i, m)
<1> SUFFICES ASSUME \A d \in 1 .. m : a[i - d].key # k PROVE Starts(a, k)[i - m] = Starts(a, k)[i]
  BY DEF Skip
<1> DEFINE Same == {n \in Nat : n <= m => Starts(a, k)[i - n] = Starts(a, k)[i]}
<1>1. i \in Nat /\ Len(a) \in Nat
  OBVIOUS
<1>2. 0 \in Same
  <2>1. i - 0 = i
    BY <1>1
  <2> QED BY <2>1
<1>3. ASSUME NEW n \in Nat, n \in Same PROVE n + 1 \in Same
  <2> SUFFICES ASSUME n + 1 <= m PROVE Starts(a, k)[i - (n + 1)] = Starts(a, k)[i]
    OBVIOUS
  <2>1. PICK x : x = i - (n + 1)
    OBVIOUS
  <2>2. x \in 1 .. Len(a) /\ x + 1 = i - n
    BY <1>1, <2>1
  <2>3. a[x].key # k /\ n <= m
    <3>1. n + 1 \in 1 .. m /\ n <= m
      OBVIOUS
    <3> QED BY <2>1, <3>1
  <2>4. Starts(a, k)[x + 1] = Starts(a, k)[i]
    BY <1>3, <2>2, <2>3
  <2>5. Starts(a, k)[x] = Starts(a, k)[x + 1]
    BY <2>2, <2>3, StartsAt
  <2> QED BY <2>1, <2>4, <2>5
<1>4. Nat \subseteq Same
  <2> HIDE DEF Same
  <2> QED BY <1>2, <1>3, Inductive
<1> QED BY <1>4

\* What is in a chain of a key: nothing if it is not found, the value of the
\* node where it is found first otherwise.
LEMMA MatchingSeq ==
  ASSUME NEW chain \in Seq(Node), NEW k
  PROVE  Matching(chain, k) \in Seq(Value)
<1>1. 1 \in 1 .. Len(chain) + 1
  OBVIOUS
<1> QED BY <1>1, StartsAt, StartsSeq

LEMMA MatchingEmpty == \A k : Matching(<<>>, k) = <<>>
<1> SUFFICES ASSUME NEW k PROVE Matching(<<>>, k) = <<>>
  OBVIOUS
<1>1. PICK c : c = <<>>
  OBVIOUS
<1>2. c \in Seq(Node) /\ Len(c) + 1 = 1
  BY <1>1
<1>3. Matching(c, k) = Starts(c, k)[1] /\ Starts(c, k)[Len(c) + 1] = <<>>
  BY <1>2, StartsAt
<1> QED BY <1>1, <1>2, <1>3

LEMMA MatchingNone ==
  ASSUME NEW chain \in Seq(Node), NEW k, \A j \in 1 .. Len(chain) : chain[j].key # k
  PROVE  Matching(chain, k) = <<>>
<1>1. PICK n : n = Len(chain) + 1
  OBVIOUS
<1>2. Len(chain) \in Nat /\ n \in 1 .. Len(chain) + 1 /\ Len(chain) < n /\ n - Len(chain) = 1
  BY <1>1
<1>3. \A d \in 1 .. Len(chain) : chain[n - d].key # k
  BY <1>1, <1>2
<1>4. Starts(chain, k)[n - Len(chain)] = Starts(chain, k)[n]
  <2>1. Skip(chain, k, n, Len(chain))
    BY <1>2, StartsSkip
  <2> QED BY <1>3, <2>1 DEF Skip
<1> QED BY <1>1, <1>2, <1>4, StartsAt

LEMMA MatchingFirst ==
  ASSUME NEW chain \in Seq(Node), NEW k, NEW i \in 1 .. Len(chain), chain[i].key = k,
         \A j \in 1 .. i - 1 : chain[j].key # k
  PROVE  /\ Matching(chain, k) = <<chain[i].value>> \o Starts(chain, k)[i + 1]
         /\ Starts(chain, k)[i + 1] \in Seq(Value) /\ chain[i].value \in Value
<1>1. i \in 1 .. Len(chain) + 1 /\ i - 1 \in Nat /\ i - 1 < i /\ i - (i - 1) = 1
      /\ i + 1 \in 1 .. Len(chain) + 1
  OBVIOUS
<1>2. \A d \in 1 .. i - 1 : chain[i - d].key # k
  <2>1. \A d \in 1 .. i - 1 : i - d \in 1 .. i - 1
    OBVIOUS
  <2> QED BY <2>1
<1>3. Starts(chain, k)[i - (i - 1)] = Starts(chain, k)[i]
  <2>1. Skip(chain, k, i, i - 1)
    BY <1>1, StartsSkip
  <2> QED BY <1>2, <2>1 DEF Skip
<1>4. Starts(chain, k)[i] = <<chain[i].value>> \o Starts(chain, k)[i + 1]
  BY StartsAt
<1>5. chain[i].value \in Value
  <2>1. chain[i] \in Node
    OBVIOUS
  <2> QED BY <2>1 DEF Node
<1> QED BY <1>1, <1>3, <1>4, <1>5, StartsAt, StartsSeq

LEMMA MatchingAdded ==
  ASSUME NEW chain \in Seq(Node), NEW node \in Node, NEW k
  PROVE  Matching(<<node>> \o chain, k) =
           IF node.key = k THEN <<node.value>> \o Matching(chain, k) ELSE Matching(chain, k)
<1>1. PICK w : w = <<node>> \o chain
  OBVIOUS
<1>2. w \in Seq(Node) /\ Len(w) = Len(chain) + 1 /\ Len(chain) \in Nat /\ w[1] = node
      /\ \A j \in 1 .. Len(chain) : w[j + 1] = chain[j]
  BY <1>1
<1>3. PICK n : n = Len(chain) + 1
  OBVIOUS
<1>4. n \in 1 .. Len(chain) + 1 /\ n + 1 \in 1 .. Len(w) + 1 /\ Len(chain) < n /\ Len(chain) < n + 1
      /\ n - Len(chain) = 1 /\ n + 1 - Len(chain) = 1 + 1 /\ 1 \in 1 .. Len(w) /\ n + 1 = Len(w) + 1
  BY <1>2, <1>3
<1>5. Starts(chain, k)[n] = Starts(w, k)[n + 1]
  BY <1>2, <1>3, <1>4, StartsAt
<1>6. \A d \in 1 .. Len(chain) : chain[n - d] = w[n + 1 - d]
  <2>1. \A d \in 1 .. Len(chain) : n - d \in 1 .. Len(chain) /\ (n - d) + 1 = n + 1 - d
    BY <1>2, <1>3
  <2> QED BY <1>2, <2>1
<1>7. Starts(chain, k)[n - Len(chain)] = Starts(w, k)[n + 1 - Len(chain)]
  <2>1. Agree(chain, w, k, n, n + 1, Len(chain))
    BY <1>2, <1>4, StartsAgree
  <2> QED BY <1>4, <1>5, <1>6, <2>1 DEF Agree
<1>8. Starts(chain, k)[1] = Starts(w, k)[1 + 1]
  BY <1>4, <1>7
<1>9. Starts(w, k)[1] = IF w[1].key = k THEN <<w[1].value>> \o Starts(w, k)[1 + 1]
                        ELSE Starts(w, k)[1 + 1]
  BY <1>2, <1>4, StartsAt
<1>10. Matching(w, k) = Starts(w, k)[1] /\ Matching(chain, k) = Starts(chain, k)[1]
  BY <1>2, StartsAt
<1> QED BY <1>1, <1>2, <1>8, <1>9, <1>10

\* Without its first node with a key, a chain lacks that one value.
LEMMA MatchingRemoved ==
  ASSUME NEW a \in Seq(Node), NEW b \in Seq(Node), NEW i \in 1 .. Len(b), Len(b) = Len(a) + 1,
         \A j \in 1 .. Len(a) : a[j] = b[IF j < i THEN j ELSE j + 1],
         NEW key, b[i].key = key, \A j \in 1 .. i - 1 : b[j].key # key, NEW k
  PROVE  /\ k # key => Matching(a, k) = Matching(b, k)
         /\ k = key => Matching(b, k) = <<b[i].value>> \o Matching(a, k)
<1>1. PICK n : n = Len(a) + 1
  OBVIOUS
<1>2. PICK m : m = n - i
  OBVIOUS
<1>3. Len(a) \in Nat /\ n = Len(b) /\ m \in Nat /\ m < n /\ m < n + 1 /\ n - m = i /\ n + 1 - m = i + 1
      /\ n \in 1 .. Len(a) + 1 /\ n + 1 \in 1 .. Len(b) + 1 /\ i \in 1 .. Len(a) + 1 /\ i \in 1 .. Len(b) + 1
  BY <1>1, <1>2
<1>4. Starts(a, k)[n] = Starts(b, k)[n + 1]
  BY <1>1, <1>3, StartsAt
<1>5. \A d \in 1 .. m : a[n - d] = b[n + 1 - d]
  <2> SUFFICES ASSUME NEW d \in 1 .. m PROVE a[n - d] = b[n + 1 - d]
    OBVIOUS
  <2>1. n - d \in 1 .. Len(a) /\ ~(n - d < i) /\ (n - d) + 1 = n + 1 - d
    BY <1>1, <1>2, <1>3
  <2>2. a[n - d] = b[(n - d) + 1]
    BY <2>1
  <2> QED BY <2>1, <2>2
<1>6. Starts(a, k)[n - m] = Starts(b, k)[n + 1 - m]
  <2>1. Agree(a, b, k, n, n + 1, m)
    BY <1>3, StartsAgree
  <2> QED BY <1>3, <1>4, <1>5, <2>1 DEF Agree
<1>7. Starts(a, k)[i] = Starts(b, k)[i + 1]
  BY <1>3, <1>6
<1>8. Starts(b, k)[i] = IF b[i].key = k THEN <<b[i].value>> \o Starts(b, k)[i + 1]
                        ELSE Starts(b, k)[i + 1]
  BY StartsAt
<1>9. i - 1 \in Nat /\ i - 1 < i /\ i - (i - 1) = 1
  BY <1>3
<1>10. \A d \in 1 .. i - 1 : a[i - d] = b[i - d] /\ b[i - d].key # key
  <2> SUFFICES ASSUME NEW d \in 1 .. i - 1 PROVE a[i - d] = b[i - d] /\ b[i - d].key # key
    OBVIOUS
  <2>1. i - d \in 1 .. i - 1 /\ i - d \in 1 .. Len(a) /\ i - d < i
    BY <1>1, <1>3
  <2> QED BY <2>1
<1>11. CASE k # key
  <2>1. Starts(a, k)[i] = Starts(b, k)[i]
    BY <1>7, <1>8, <1>11
  <2>2. Starts(a, k)[i - (i - 1)] = Starts(b, k)[i - (i - 1)]
    <3>1. Agree(a, b, k, i, i, i - 1)
      BY <1>3, <1>9, StartsAgree
    <3> QED BY <1>10, <2>1, <3>1 DEF Agree
  <2> QED BY <1>9, <1>11, <2>2, StartsAt
<1>12. CASE k = key
  <2>1. Starts(a, k)[i - (i - 1)] = Starts(a, k)[i]
    <3>1. Skip(a, k, i, i - 1)
      BY <1>3, <1>9, StartsSkip
    <3> QED BY <1>10, <1>12, <3>1 DEF Skip
  <2>2. Matching(b, k) = <<b[i].value>> \o Starts(b, k)[i + 1]
    BY <1>12, MatchingFirst
  <2> QED BY <1>7, <1>9, <1>12, <2>1, <2>2, StartsAt
<1> QED BY <1>11, <1>12
-----------------------------------------------------------------------------
(***************************************************************************)
(* The table is the map that table.h promises, until a key is not copied.  *)
(***************************************************************************)
Whole(e) == KeyedIn(e) = Places(e)

LEMMA WholeNodes ==
  ASSUME NEW n \in Nat, NEW e \in Entries(n)
  PROVE  Whole(e) <=> \A h \in 0 .. n - 1 : \A j \in 1 .. Len(e[h]) : e[h][j].key # NULL
<1>1. \A p : p \in Places(e) <=> \E h \in 0 .. n - 1 : \E j \in 1 .. Len(e[h]) : p = <<h, j>>
  BY PlacesOf
<1>2. \A h \in 0 .. n - 1 : \A j \in 1 .. Len(e[h]) : <<h, j>> \in KeyedIn(e) <=> e[h][j].key # NULL
  BY <1>1 DEF KeyedIn
<1>3. KeyedIn(e) \subseteq Places(e)
  BY DEF KeyedIn
<1>4. ASSUME Whole(e), NEW h \in 0 .. n - 1, NEW j \in 1 .. Len(e[h]) PROVE e[h][j].key # NULL
  <2>1. <<h, j>> \in KeyedIn(e)
    BY <1>1, <1>4 DEF Whole
  <2> QED BY <1>2, <2>1
<1>5. ASSUME \A h \in 0 .. n - 1 : \A j \in 1 .. Len(e[h]) : e[h][j].key # NULL PROVE Whole(e)
  <2>1. ASSUME NEW p \in Places(e) PROVE p \in KeyedIn(e)
    <3>1. PICK h \in 0 .. n - 1 : \E j \in 1 .. Len(e[h]) : p = <<h, j>>
      BY <1>1
    <3>2. PICK j \in 1 .. Len(e[h]) : p = <<h, j>>
      BY <3>1
    <3> QED BY <1>2, <1>5, <3>2
  <2> QED BY <1>3, <2>1 DEF Whole
<1> QED BY <1>4, <1>5

LEMMA InsertedWhole ==
  ASSUME NEW n \in Nat, NEW a, NEW b, NEW h, NEW i, Inserted(n, a, b, h, i)
  PROVE  Whole(b) <=> Whole(a) /\ b[h][i].key # NULL
<1>1. a \in Entries(n) /\ b \in Entries(n) /\ h \in 0 .. n - 1 /\ Len(b[h]) = Len(a[h]) + 1
      /\ i \in 1 .. Len(b[h]) /\ \A g \in 0 .. n - 1 : g # h => b[g] = a[g]
  BY DEF Inserted
<1>2. \A j \in 1 .. Len(a[h]) : a[h][j] = b[h][IF j < i THEN j ELSE j + 1]
  BY DEF Inserted
<1>3. i \in Nat /\ Len(a[h]) \in Nat
  BY <1>1 DEF Entries
<1>4. Whole(a) <=> \A g \in 0 .. n - 1 : \A j \in 1 .. Len(a[g]) : a[g][j].key # NULL
  BY <1>1, WholeNodes
<1>5. Whole(b) <=> \A g \in 0 .. n - 1 : \A j \in 1 .. Len(b[g]) : b[g][j].key # NULL
  BY <1>1, WholeNodes
<1>6. ASSUME Whole(b) PROVE Whole(a) /\ b[h][i].key # NULL
  <2>1. b[h][i].key # NULL
    BY <1>1, <1>5, <1>6
  <2>2. ASSUME NEW g \in 0 .. n - 1, NEW j \in 1 .. Len(a[g]) PROVE a[g][j].key # NULL
    <3>1. CASE g # h
      BY <1>1, <1>5, <1>6, <3>1
    <3>2. CASE g = h
      <4>1. PICK c : c = IF j < i THEN j ELSE j + 1
        OBVIOUS
      <4>2. c \in 1 .. Len(b[h]) /\ a[h][j] = b[h][c]
        BY <1>1, <1>2, <1>3, <3>2, <4>1
      <4> QED BY <1>1, <1>5, <1>6, <3>2, <4>2
    <3> QED BY <3>1, <3>2
  <2> QED BY <1>4, <2>1, <2>2
<1>7. ASSUME Whole(a), b[h][i].key # NULL PROVE Whole(b)
  <2>1. ASSUME NEW g \in 0 .. n - 1, NEW j \in 1 .. Len(b[g]) PROVE b[g][j].key # NULL
    <3>1. CASE g # h
      BY <1>1, <1>4, <1>7, <2>1, <3>1
    <3>2. CASE g = h /\ j < i
      <4>1. j \in 1 .. Len(a[h]) /\ a[h][j] = b[h][j]
        BY <1>1, <1>2, <1>3, <2>1, <3>2
      <4> QED BY <1>1, <1>4, <1>7, <3>2, <4>1
    <3>3. CASE g = h /\ j > i
      <4>1. PICK c : c = j - 1
        OBVIOUS
      <4>2. c \in 1 .. Len(a[h]) /\ ~(c < i) /\ c + 1 = j
        BY <1>1, <1>3, <2>1, <3>3, <4>1
      <4>3. a[h][c] = b[h][j]
        BY <1>2, <4>2
      <4> QED BY <1>1, <1>4, <1>7, <3>3, <4>2, <4>3
    <3>4. g = h => j < i \/ j > i \/ j = i
      BY <1>1, <1>3, <2>1
    <3> QED BY <1>7, <3>1, <3>2, <3>3, <3>4
  <2> QED BY <1>5, <2>1
<1> QED BY <1>6, <1>7

\* What stands for the table in its promise.
LEMMA Mapped ==
  /\ (Broken <=> ~Whole(entries)) /\ (Broken' <=> ~Whole(entries'))
  /\ Stored = [k \in Key |-> IF Sound THEN Matching(entries[Mixed(k) % size], k) ELSE <<>>]
  /\ Stored' = [k \in Key |-> IF Sound' THEN Matching(entries'[Mixed(k) % size'], k) ELSE <<>>]
<1>1. (Broken <=> ~Whole(entries)) /\ (Broken' <=> ~Whole(entries'))
  BY DEF Broken, Whole, Keyed, Linked, KeyedIn, Places
<1>2. Stored = [k \in Key |-> IF Sound THEN Matching(entries[Mixed(k) % size], k) ELSE <<>>]
  BY DEF Stored, hash, Mixed
<1>3. Stored' = [k \in Key |-> IF Sound' THEN Matching(entries'[Mixed(k) % size'], k) ELSE <<>>]
  BY DEF Stored, hash, Mixed
<1> QED BY <1>1, <1>2, <1>3

LEMMA BrokenMaps ==
  /\ ~Sound => Stored = Abstract!Empty
  /\ ~Sound' => Stored' = Abstract!Empty
  /\ Broken => Sound = FALSE /\ Answer = "0"
  /\ Broken' => Sound' = FALSE /\ Answer' = "0"
  /\ ~Broken => Answer = retval
  /\ ~Broken' => Answer' = retval'
BY Mapped DEF Abstract!Empty, Sound, Answer

LEMMA StaysBroken ==
  ASSUME Broken, Broken'
  PROVE  UNCHANGED Abstract!vars
BY BrokenMaps DEF Abstract!vars

LEMMA QuietImplements ==
  ASSUME UNCHANGED <<open, size, entries>>
  PROVE  /\ Broken' <=> Broken
         /\ Broken => UNCHANGED Abstract!vars
         /\ ~Broken => Abstract!Fail(retval')
<1>1. Broken' <=> Broken
  BY Mapped
<1>2. Sound' = Sound
  BY <1>1 DEF Sound
<1>3. Stored' = Stored
  BY <1>2, Mapped
<1>4. Broken => UNCHANGED Abstract!vars
  BY <1>1, StaysBroken
<1>5. ~Broken => Abstract!Fail(retval')
  BY <1>1, <1>2, <1>3, BrokenMaps DEF Abstract!Fail
<1> QED BY <1>1, <1>4, <1>5

LEMMA InitImplements == ASSUME NEW n, (n \in Sizes /\ table_init(n)) \/ table_free, IInv
                        PROVE  Abstract!Open \/ Abstract!Close \/ UNCHANGED Abstract!vars
<1>1. ~open => ~Broken
  <2>1. ~open => Whole(entries)
    BY NoPlaces DEF IInv, Shape, Whole
  <2> QED BY <2>1, Mapped
<1>2. CASE ~open /\ retval' = NULL /\ UNCHANGED <<open, size, entries, memory>>
  <2>1. Abstract!Fail(NULL) /\ ~Sound
    BY <1>1, <1>2, QuietImplements DEF Sound
  <2> QED BY <2>1 DEF Abstract!Open
<1>3. CASE /\ n \in Sizes /\ ~open /\ n # 0
           /\ open' = TRUE /\ size' = n /\ entries' = Chains(n) /\ retval' = "0"
  <2>1. n \in Nat \ {0}
    BY <1>3, BoundsAssumption
  <2>2. ~Broken'
    <3>1. Whole(entries')
      BY <1>3, <2>1, NoPlaces DEF Whole
    <3> QED BY <3>1, Mapped
  <2>3. Sound' = TRUE /\ ~Sound
    BY <1>3, <2>2 DEF Sound
  <2>4. Stored' = Abstract!Empty
    <3>1. \A k \in Key : Chains(n)[Mixed(k) % n] = <<>>
      BY <2>1, HashInTable DEF Chains
    <3>2. Stored' = [k \in Key |-> Matching(entries'[Mixed(k) % size'], k)]
      BY <2>3, Mapped
    <3>3. \A k \in Key : Matching(entries'[Mixed(k) % size'], k) = <<>>
      BY <1>3, <3>1, MatchingEmpty
    <3> QED BY <3>2, <3>3 DEF Abstract!Empty
  <2>5. Stored = Abstract!Empty /\ Answer' = "0"
    BY <1>3, <2>2, <2>3, BrokenMaps
  <2> QED BY <2>3, <2>4, <2>5 DEF Abstract!Open
<1>4. CASE table_free
  <2>1. open /\ open' = FALSE /\ entries' = <<>> /\ retval' = "0"
    BY <1>4 DEF table_free, Usable, NoChains
  <2>2. ~Broken'
    <3>1. Whole(entries')
      BY <2>1, NoPlaces DEF Whole
    <3> QED BY <3>1, Mapped
  <2>3. Sound' = FALSE /\ Answer' = "0" /\ Stored' = Abstract!Empty
    BY <2>1, <2>2, BrokenMaps DEF Sound
  <2>4. CASE Broken
    BY <2>3, <2>4, BrokenMaps DEF Abstract!vars
  <2>5. CASE ~Broken
    <3>1. Sound
      BY <2>1, <2>5 DEF Sound
    <3> QED BY <2>3, <3>1 DEF Abstract!Close
  <2> QED BY <2>4, <2>5
<1> QED BY <1>2, <1>3, <1>4 DEF table_init

LEMMA AddImplements ==
  ASSUME IInv, NEW key \in Key, NEW value \in Value, table_add(key, value)
  PROVE  Abstract!Add(key, value) \/ Abstract!Close \/ UNCHANGED Abstract!vars
<1>1. open /\ UNCHANGED <<open, size>>
  BY DEF table_add, Usable
<1>2. CASE retval' = "ENOMEM" /\ UNCHANGED <<entries, memory>>
  <2>1. CASE Broken
    BY <1>1, <1>2, <2>1, QuietImplements
  <2>2. CASE ~Broken
    <3>1. Abstract!Fail("ENOMEM") /\ Sound
      BY <1>1, <1>2, <2>2, QuietImplements DEF Sound
    <3> QED BY <3>1 DEF Abstract!Add
  <2> QED BY <2>1, <2>2
<1>3. ASSUME NEW copy \in {key, NULL}, retval' = "0",
             entries' = [entries EXCEPT ![hash(key)] = <<[key |-> copy, value |-> value]>> \o @]
      PROVE  Abstract!Add(key, value) \/ Abstract!Close \/ UNCHANGED Abstract!vars
  <2>1. PICK h : h = hash(key)
    OBVIOUS
  <2>2. PICK node : node = [key |-> copy, value |-> value]
    OBVIOUS
  <2>3. PICK b : b = entries'
    OBVIOUS
  <2>4. /\ h \in 0 .. size - 1 /\ h = Mixed(key) % size /\ size \in Nat \ {0}
        /\ entries \in Entries(size) /\ node \in Node
    <3>1. node \in Node
      BY <2>2 DEF Node
    <3> QED BY <1>1, <2>1, <3>1, HashOf
  <2>5. Inserted(size, entries, b, h, 1) /\ b[h] = <<node>> \o entries[h] /\ b[h][1] = node
    <3>1. /\ Inserted(size, entries, entries', hash(key), 1)
          /\ entries'[hash(key)] = <<[key |-> copy, value |-> value]>> \o entries[hash(key)]
          /\ entries'[hash(key)][1] = [key |-> copy, value |-> value]
      BY <1>1, <1>3, AddInserts
    <3> QED BY <2>1, <2>2, <2>3, <3>1
  <2>6. Broken' <=> Broken \/ copy = NULL
    <3>1. b[h][1].key = copy
      BY <2>2, <2>5
    <3>2. Whole(b) <=> Whole(entries) /\ b[h][1].key # NULL
      BY <2>4, <2>5, InsertedWhole
    <3> QED BY <2>3, <3>1, <3>2, Mapped
  <2>7. CASE Broken
    BY <2>6, <2>7, StaysBroken
  <2>8. CASE ~Broken /\ copy = NULL
    <3>1. Sound /\ Broken'
      BY <1>1, <2>6, <2>8 DEF Sound
    <3>2. Sound' = FALSE /\ Answer' = "0" /\ Stored' = Abstract!Empty
      BY <3>1, BrokenMaps
    <3> QED BY <3>1, <3>2 DEF Abstract!Close
  <2>9. CASE ~Broken /\ copy # NULL
    <3>1. Sound = TRUE /\ Sound' = TRUE /\ Answer' = "0"
      BY <1>1, <1>3, <2>6, <2>9, BrokenMaps DEF Sound
    <3>2. node.key = key /\ node.value = value
      BY <1>3, <2>2, <2>9
    <3>3. Stored = [k \in Key |-> Matching(entries[Mixed(k) % size], k)]
      BY <3>1, Mapped
    <3>4. Stored' = [k \in Key |-> Matching(b[Mixed(k) % size], k)]
      BY <1>1, <2>3, <3>1, Mapped
    <3>5. ASSUME NEW k \in Key
          PROVE  Matching(b[Mixed(k) % size], k) =
                   IF k = key THEN <<value>> \o Matching(entries[Mixed(key) % size], key)
                   ELSE Matching(entries[Mixed(k) % size], k)
      <4>1. Mixed(k) % size \in 0 .. size - 1
        BY <2>4, HashInTable
      <4>2. CASE Mixed(k) % size # h
        <5>1. b[Mixed(k) % size] = entries[Mixed(k) % size] /\ k # key
          BY <2>4, <2>5, <4>1, <4>2 DEF Inserted
        <5> QED BY <5>1
      <4>3. CASE Mixed(k) % size = h
        <5>1. entries[h] \in Seq(Node)
          BY <2>4 DEF Entries
        <5>2. Matching(<<node>> \o entries[h], k) =
                IF node.key = k THEN <<node.value>> \o Matching(entries[h], k)
                ELSE Matching(entries[h], k)
          BY <2>4, <5>1, MatchingAdded
        <5> QED BY <2>4, <2>5, <3>2, <4>3, <5>2
      <4> QED BY <4>2, <4>3
    <3>6. Stored[key] = Matching(entries[Mixed(key) % size], key)
      BY <3>3
    <3>7. Stored' = [Stored EXCEPT ![key] = <<value>> \o @]
      BY <3>3, <3>4, <3>5, <3>6
    <3> QED BY <3>1, <3>7 DEF Abstract!Add
  <2> QED BY <2>7, <2>8, <2>9
<1> QED BY <1>2, <1>3 DEF table_add

LEMMA SoundChain ==
  ASSUME IInv, ~Broken, open, NEW h \in 0 .. size - 1, NEW j \in 1 .. Len(entries[h])
  PROVE  entries[h][j].key # NULL
<1>1. size \in Nat /\ entries \in Entries(size)
  BY DEF IInv, Shape
<1>2. Whole(entries)
  BY Mapped
<1> QED BY <1>1, <1>2, WholeNodes

LEMMA LookupImplements ==
  ASSUME IInv, NEW key \in Key, table_lookup(key)
  PROVE  Abstract!Lookup(key) \/ UNCHANGED Abstract!vars
<1>1. open /\ UNCHANGED <<open, size, entries>>
  BY DEF table_lookup, Usable, Crash
<1>2. CASE Broken
  BY <1>1, <1>2, QuietImplements
<1>3. CASE ~Broken
  <2>1. PICK h : h = hash(key)
    OBVIOUS
  <2>2. PICK chain : chain = entries[h]
    OBVIOUS
  <2>3. PICK i : i = Position(chain, key)
    OBVIOUS
  <2>4. chain \in Seq(Node) /\ h \in 0 .. size - 1 /\ h = Mixed(key) % size
    BY <1>1, <2>1, <2>2, HashOf
  <2>5. Sound /\ Stored[key] = Matching(chain, key)
    <3>1. Sound = TRUE
      BY <1>1, <1>3 DEF Sound
    <3> QED BY <2>2, <2>4, <3>1, Mapped
  <2>6. \A j \in 1 .. Len(chain) : chain[j].key # NULL
    BY <1>1, <1>3, <2>2, <2>4, SoundChain
  <2>7. CASE i = 0
    <3>1. Matching(chain, key) = <<>>
      <4>1. \A j \in 1 .. Len(chain) : chain[j].key # key
        BY <2>3, <2>4, <2>7, PositionInChain
      <4> QED BY <2>4, <4>1, MatchingNone
    <3>2. retval' = NULL
      BY <2>1, <2>2, <2>3, <2>7 DEF table_lookup
    <3>3. Abstract!Fail(NULL)
      BY <1>1, <1>3, <3>2, QuietImplements
    <3> QED BY <2>5, <3>1, <3>3 DEF Abstract!Lookup
  <2>8. CASE i # 0
    <3>1. i \in 1 .. Len(chain) /\ chain[i].key = key /\ \A j \in 1 .. i - 1 : chain[j].key # key
      BY <2>3, <2>4, <2>6, <2>8, PositionInChain
    <3>2. retval' = chain[i].value
      BY <2>1, <2>2, <2>3, <2>6, <2>8, <3>1 DEF table_lookup
    <3>3. /\ Matching(chain, key) = <<chain[i].value>> \o Starts(chain, key)[i + 1]
          /\ Starts(chain, key)[i + 1] \in Seq(Value) /\ chain[i].value \in Value
      BY <2>4, <3>1, MatchingFirst
    <3>4. Stored[key] # <<>> /\ Head(Stored[key]) = chain[i].value
      BY <2>5, <3>3
    <3>5. Abstract!Fail(chain[i].value)
      BY <1>1, <1>3, <3>2, QuietImplements
    <3> QED BY <2>5, <3>4, <3>5 DEF Abstract!Lookup
  <2> QED BY <2>7, <2>8
<1> QED BY <1>2, <1>3

LEMMA RemoveImplements ==
  ASSUME IInv, NEW key \in Key, table_remove(key)
  PROVE  Abstract!Remove(key) \/ UNCHANGED Abstract!vars
<1>1. open
  BY DEF table_remove, Usable
<1>2. PICK h : h = hash(key)
  OBVIOUS
<1>3. PICK chain : chain = entries[h]
  OBVIOUS
<1>4. PICK i : i = Position(chain, key)
  OBVIOUS
<1>5. chain \in Seq(Node) /\ h \in 0 .. size - 1 /\ h = Mixed(key) % size
      /\ size \in Nat \ {0} /\ entries \in Entries(size)
  BY <1>1, <1>2, <1>3, HashOf
<1>6. ~Broken => Sound = TRUE /\ Stored = [k \in Key |-> Matching(entries[Mixed(k) % size], k)]
  BY <1>1, Mapped DEF Sound
<1>7. ~Broken => \A j \in 1 .. Len(chain) : chain[j].key # NULL
  BY <1>1, <1>3, <1>5, SoundChain
<1>8. CASE i = 0 /\ retval' = "EINVAL" /\ UNCHANGED <<open, size, entries, memory>>
  <2>1. CASE Broken
    BY <1>8, <2>1, QuietImplements
  <2>2. CASE ~Broken
    <3>1. Abstract!Fail("EINVAL")
      BY <1>8, <2>2, QuietImplements
    <3>2. \A j \in 1 .. Len(chain) : chain[j].key # key
      BY <1>4, <1>5, <1>8, PositionInChain
    <3>3. Stored[key] = <<>>
      BY <1>3, <1>5, <1>6, <2>2, <3>2, MatchingNone
    <3> QED BY <1>6, <2>2, <3>1, <3>3 DEF Abstract!Remove
  <2> QED BY <2>1, <2>2
<1>9. CASE i # 0 /\ chain[i].key = NULL /\ Crash
  <2>1. i \in 1 .. Len(chain)
    BY <1>4, <1>5, <1>9, PositionInChain
  <2>2. Broken
    BY <1>7, <1>9, <2>1
  <2> QED BY <1>9, <2>2, QuietImplements DEF Crash
<1>10. CASE /\ i # 0 /\ chain[i].key # NULL
            /\ entries' = [entries EXCEPT ![h] = RemoveAt(chain, i)]
            /\ retval' = "0" /\ UNCHANGED <<open, size>>
  <2>1. i \in 1 .. Len(chain) /\ chain[i].key = key /\ \A j \in 1 .. i - 1 : chain[j].key # key
    BY <1>4, <1>5, <1>10, PositionInChain
  <2>2. PICK a : a = entries'
    OBVIOUS
  <2>3. Inserted(size, a, entries, h, i)
    BY <1>1, <1>3, <1>5, <1>10, <2>1, <2>2, RemoveInserts
  <2>4. Broken' <=> Broken
    <3>1. Whole(entries) <=> Whole(a)
      BY <1>3, <1>5, <1>10, <2>3, InsertedWhole
    <3> QED BY <2>2, <3>1, Mapped
  <2>5. CASE Broken
    BY <2>4, <2>5, StaysBroken
  <2>6. CASE ~Broken
    <3>1. Sound = TRUE /\ Sound' = TRUE /\ Answer' = "0"
      BY <1>1, <1>10, <2>4, <2>6, BrokenMaps DEF Sound
    <3>2. Stored' = [k \in Key |-> Matching(a[Mixed(k) % size], k)]
      BY <1>10, <2>2, <3>1, Mapped
    <3>3. /\ a[h] \in Seq(Node) /\ Len(chain) = Len(a[h]) + 1
          /\ \A j \in 1 .. Len(a[h]) : a[h][j] = chain[IF j < i THEN j ELSE j + 1]
          /\ \A g \in 0 .. size - 1 : g # h => a[g] = entries[g]
      BY <1>3, <1>5, <2>3 DEF Inserted, Entries
    <3>4. \A k : /\ k # key => Matching(a[h], k) = Matching(chain, k)
                 /\ k = key => Matching(chain, k) = <<chain[i].value>> \o Matching(a[h], k)
      <4>1. PICK r : r = a[h]
        OBVIOUS
      <4>2. /\ r \in Seq(Node) /\ chain \in Seq(Node) /\ i \in 1 .. Len(chain) /\ Len(chain) = Len(r) + 1
            /\ \A j \in 1 .. Len(r) : r[j] = chain[IF j < i THEN j ELSE j + 1]
        BY <1>5, <2>1, <3>3, <4>1
      <4>3. \A k : /\ k # key => Matching(r, k) = Matching(chain, k)
                   /\ k = key => Matching(chain, k) = <<chain[i].value>> \o Matching(r, k)
        BY <2>1, <4>2, MatchingRemoved
      <4> QED BY <4>1, <4>3
    <3>5. PICK m : m = Matching(a[h], key)
      OBVIOUS
    <3>6. m \in Seq(Value) /\ chain[i].value \in Value /\ Matching(chain, key) = <<chain[i].value>> \o m
      <4>1. chain[i] \in Node
        BY <1>5, <2>1
      <4>2. chain[i].value \in Value
        BY <4>1 DEF Node
      <4> QED BY <3>3, <3>4, <3>5, <4>2, MatchingSeq
    <3>7. Stored[key] = <<chain[i].value>> \o m
      BY <1>3, <1>5, <1>6, <2>6, <3>6
    <3>8. Stored[key] # <<>> /\ Tail(Stored[key]) = m
      BY <3>6, <3>7
    <3>9. ASSUME NEW k \in Key
          PROVE  Matching(a[Mixed(k) % size], k) =
                   IF k = key THEN m ELSE Matching(entries[Mixed(k) % size], k)
      <4>1. Mixed(k) % size \in 0 .. size - 1
        BY <1>5, HashInTable
      <4>2. CASE Mixed(k) % size # h
        <5>1. a[Mixed(k) % size] = entries[Mixed(k) % size] /\ k # key
          BY <1>5, <3>3, <4>1, <4>2
        <5> QED BY <5>1
      <4>3. CASE Mixed(k) % size = h
        BY <1>3, <3>4, <3>5, <4>3
      <4> QED BY <4>2, <4>3
    <3>10. Stored' = [Stored EXCEPT ![key] = Tail(@)]
      BY <1>6, <2>6, <3>2, <3>8, <3>9
    <3> QED BY <3>1, <3>8, <3>10 DEF Abstract!Remove
  <2> QED BY <2>5, <2>6
<1> QED BY <1>2, <1>3, <1>4, <1>8, <1>9, <1>10 DEF table_remove

LEMMA StepImplements == IInv /\ [Next]_vars => [Abstract!Next]_(Abstract!vars)
<1> SUFFICES ASSUME IInv, [Next]_vars PROVE Abstract!Next \/ UNCHANGED Abstract!vars
  OBVIOUS
<1>1. CASE UNCHANGED vars
  <2>1. UNCHANGED <<open, size, entries, retval>>
    BY <1>1 DEF vars
  <2>2. CASE Broken
    BY <2>1, <2>2, QuietImplements
  <2>3. CASE ~Broken
    <3>1. Abstract!Fail(retval') /\ Answer = retval
      BY <2>1, <2>3, QuietImplements, BrokenMaps
    <3> QED BY <2>1, <3>1 DEF Abstract!Fail, Abstract!vars
  <2> QED BY <2>2, <2>3
<1>2. ASSUME NEW n \in Sizes, table_init(n) PROVE Abstract!Next \/ UNCHANGED Abstract!vars
  BY <1>2, InitImplements DEF Abstract!Next
<1>3. CASE table_free
  BY <1>3, InitImplements DEF Abstract!Next
<1>4. ASSUME NEW key \in Key, NEW value \in Value, table_add(key, value)
      PROVE  Abstract!Next \/ UNCHANGED Abstract!vars
  BY <1>4, AddImplements DEF Abstract!Next
<1>5. ASSUME NEW key \in Key, table_remove(key) \/ table_lookup(key)
      PROVE  Abstract!Next \/ UNCHANGED Abstract!vars
  BY <1>5, RemoveImplements, LookupImplements DEF Abstract!Next
<1> QED BY <1>1, <1>2, <1>3, <1>4, <1>5 DEF Next

LEMMA StartImplements == Init => Abstract!Init
<1> SUFFICES ASSUME Init PROVE Abstract!Init
  OBVIOUS
<1>1. ~Sound /\ Answer = "0"
  BY DEF Init, Sound, Answer
<1>2. Sound = FALSE /\ Stored = Abstract!Empty
  BY <1>1, BrokenMaps DEF Sound
<1> QED BY <1>1, <1>2 DEF Abstract!Init

\* For any keys, however they collide, any sizes and any failures of the
\* allocator: until a key could not be copied the calls of table.c are those
\* of a map in which the value added last shadows the others.
THEOREM TableIsShadowMap == Spec => ImplementsShadowMap
BY SpecIInv, StepImplements, StartImplements, PTL DEF Spec, ImplementsShadowMap, Abstract!Spec
=============================================================================
