----------------------------- MODULE DictProof -----------------------------
(***************************************************************************)
(* Proofs about Dict, for any set of nodes, keys and values and for any    *)
(* comparator.                                                             *)
(***************************************************************************)
EXTENDS Dict, FiniteSetTheorems, SequenceTheorems, TLAPS

\* What every rebalancing step preserves about the heap. The level of a
\* node is what tells it from the sentinel, so the levels are part of it.
HeapOK(h) ==
  /\ h \in [NodeOrEOT -> SubtreeOf]
  /\ \A n \in Node : h[n].level >= 1
  /\ h[EOT] = Sentinel

LEMMA NodeNotEOT == \A n \in Node : n # EOT /\ n \in NodeOrEOT
BY ConstantsAssumption DEF NodeOrEOT

\* Changing the children of a node to nodes, or its counters to naturals
\* with a level of at least 1, leaves the heap well formed.
LEMMA SetLeft ==
  ASSUME NEW h, HeapOK(h), NEW n \in Node, NEW m \in NodeOrEOT
  PROVE  HeapOK([h EXCEPT ![n].left = m])
BY NodeNotEOT DEF HeapOK, SubtreeOf

LEMMA SetRight ==
  ASSUME NEW h, HeapOK(h), NEW n \in Node, NEW m \in NodeOrEOT
  PROVE  HeapOK([h EXCEPT ![n].right = m])
BY NodeNotEOT DEF HeapOK, SubtreeOf

LEMMA Reconstruct ==
  ASSUME NEW h, HeapOK(h), NEW n \in Node
  PROVE  HeapOK(node_reconstruct_nnode(h, n))
<1>1. h[n].left \in NodeOrEOT /\ h[n].right \in NodeOrEOT
  BY NodeNotEOT DEF HeapOK, SubtreeOf
<1>2. \A m \in NodeOrEOT : h[m].nnode \in Nat
  BY DEF HeapOK, SubtreeOf
<1> DEFINE count == h[h[n].left].nnode + 1 + h[h[n].right].nnode
<1>3. count \in Nat
  BY <1>1, <1>2
<1> HIDE DEF count
<1>4. HeapOK([h EXCEPT ![n].nnode = count])
  BY <1>3, NodeNotEOT DEF HeapOK, SubtreeOf
<1> QED
  BY <1>4 DEF count, node_reconstruct_nnode

LEMMA SetLevel ==
  ASSUME NEW h, HeapOK(h), NEW n \in Node
  PROVE  HeapOK([h EXCEPT ![n].level = @ + 1])
BY NodeNotEOT DEF HeapOK, SubtreeOf

LEMMA SetPair ==
  ASSUME NEW h, HeapOK(h), NEW n \in Node, NEW p \in Pair
  PROVE  HeapOK([h EXCEPT ![n].key = p.key, ![n].value = p.value])
<1> DEFINE f == [h[n] EXCEPT !.key = p.key, !.value = p.value]
<1>1. f \in SubtreeOf /\ f.level >= 1
  <2>1. p.key \in Key \cup {NULL} /\ p.value \in Value \cup {NULL}
    BY DEF Pair
  <2>2. h[n] \in SubtreeOf /\ h[n].level >= 1
    BY NodeNotEOT DEF HeapOK
  <2> QED
    BY <2>1, <2>2 DEF SubtreeOf
<1>2. [h EXCEPT ![n].key = p.key, ![n].value = p.value] = [h EXCEPT ![n] = f]
  BY NodeNotEOT DEF HeapOK
<1> HIDE DEF f
<1>3. HeapOK([h EXCEPT ![n] = f])
  BY <1>1, NodeNotEOT DEF HeapOK
<1> QED
  BY <1>2, <1>3

\* The asserts of the rotations: given that the node that comes up is not
\* the sentinel, the sentinel is not written.
LEMMA RotateRight ==
  ASSUME NEW h, HeapOK(h), NEW n \in Node, h[n].left \in Node
  PROVE  HeapOK(subtree_rotate_right(h, n))
<1> DEFINE l == h[n].left
           unhooked == [h EXCEPT ![n].left = h[l].right]
           turned == [h EXCEPT ![n].left = h[l].right, ![l].right = n]
<1>1. h[l].right \in NodeOrEOT
  BY NodeNotEOT DEF HeapOK, SubtreeOf
<1>2. HeapOK(unhooked)
  BY <1>1, SetLeft
<1>3. turned = [unhooked EXCEPT ![l].right = n]
  OBVIOUS
<1>4. HeapOK(turned)
  BY <1>2, <1>3, SetRight, NodeNotEOT
<1>5. HeapOK(node_reconstruct_nnode(turned, n))
  BY <1>4, Reconstruct
<1> QED
  BY <1>5, Reconstruct DEF subtree_rotate_right

LEMMA RotateLeft ==
  ASSUME NEW h, HeapOK(h), NEW n \in Node, h[n].right \in Node
  PROVE  HeapOK(subtree_rotate_left(h, n))
<1> DEFINE r == h[n].right
           unhooked == [h EXCEPT ![n].right = h[r].left]
           turned == [h EXCEPT ![n].right = h[r].left, ![r].left = n]
<1>1. h[r].left \in NodeOrEOT
  BY NodeNotEOT DEF HeapOK, SubtreeOf
<1>2. HeapOK(unhooked)
  BY <1>1, SetRight
<1>3. turned = [unhooked EXCEPT ![r].left = n]
  OBVIOUS
<1>4. HeapOK(turned)
  BY <1>2, <1>3, SetLeft, NodeNotEOT
<1>5. HeapOK(node_reconstruct_nnode(turned, n))
  BY <1>4, Reconstruct
<1> QED
  BY <1>5, Reconstruct DEF subtree_rotate_left

\* Equal levels mean that the left child is a node, since the sentinel's
\* level is 0: skew meets the assertion of subtree_rotate_right.
LEMMA SkewHeap ==
  ASSUME NEW h, HeapOK(h), NEW n \in Node
  PROVE  HeapOK(skew(h, n).heap) /\ skew(h, n).root = n
<1>1. h[n].left \in NodeOrEOT /\ h[n].level >= 1 /\ h[EOT].level = 0
  BY NodeNotEOT DEF HeapOK, SubtreeOf, Sentinel
<1>2. CASE h[n].level = h[h[n].left].level
  <2>1. h[n].left \in Node
    BY <1>1, <1>2 DEF NodeOrEOT
  <2> QED
    BY <1>2, <2>1, RotateRight DEF skew
<1>3. CASE h[n].level # h[h[n].left].level
  BY <1>3 DEF skew
<1> QED
  BY <1>2, <1>3

\* Likewise for split, whose comparison looks one node further: the right
\* child of the sentinel is the sentinel.
LEMMA SplitHeap ==
  ASSUME NEW h, HeapOK(h), NEW n \in Node
  PROVE  HeapOK(split(h, n).heap) /\ split(h, n).root \in Node
<1> DEFINE r == h[n].right
<1>1. r \in NodeOrEOT /\ h[n].level >= 1 /\ h[EOT].level = 0 /\ h[EOT].right = EOT
  BY NodeNotEOT DEF HeapOK, SubtreeOf, Sentinel
<1>2. CASE h[n].level = h[h[r].right].level
  <2>1. r \in Node
    BY <1>1, <1>2 DEF NodeOrEOT
  <2>2. HeapOK(subtree_rotate_left(h, n))
    BY <2>1, RotateLeft
  <2> QED
    BY <1>2, <2>1, <2>2, SetLevel DEF split
<1>3. CASE h[n].level # h[h[r].right].level
  BY <1>3 DEF split
<1> QED
  BY <1>2, <1>3
-----------------------------------------------------------------------------
\* Pushing and popping frames.
LEMMA PushFrame ==
  ASSUME NEW s \in Seq(Frame), NEW f \in Frame
  PROVE  <<f>> \o s \in Seq(Frame)
<1>1. <<f>> \in Seq(Frame)
  OBVIOUS
<1> QED
  BY <1>1, ConcatProperties

LEMMA PopFrame ==
  ASSUME NEW s \in Seq(Frame), s # <<>>
  PROVE  Head(s) \in Frame /\ Tail(s) \in Seq(Frame)
BY HeadTailProperties
-----------------------------------------------------------------------------
\* TypeOK is not inductive without SentinelIntact: a rotation writes to the
\* node it brings up, which is a node because the sentinel's level is 0.
IInv == TypeOK /\ SentinelIntact

LEMMA HeapIsOK == IInv => HeapOK(heap)
BY DEF IInv, TypeOK, SentinelIntact, HeapOK

LEMMA FrameField ==
  ASSUME TypeOK, stack # <<>>
  PROVE  /\ Top \in Frame
         /\ Top.node \in Node
         /\ Top.at \in {"left", "right"}
         /\ Tail(stack) \in Seq(Frame)
BY PopFrame DEF TypeOK, Top, Frame

LEMMA ChildOfNode ==
  ASSUME TypeOK, NEW n \in NodeOrEOT, NEW at \in {"left", "right"}
  PROVE  heap[n][at] \in NodeOrEOT
BY DEF TypeOK, SubtreeOf

LEMMA PairTypes ==
  /\ NoPair \in Pair
  /\ \A key \in Key, value \in Value : [key |-> key, value |-> value] \in Pair
BY DEF NoPair, Pair

LEMMA InitIInv == Init => IInv
<1> SUFFICES ASSUME Init PROVE IInv
  OBVIOUS
<1>1. Sentinel \in SubtreeOf /\ Unallocated \in SubtreeOf /\ Unallocated.level = 1
  BY DEF Sentinel, Unallocated, SubtreeOf, NodeOrEOT
<1>2. heap \in [NodeOrEOT -> SubtreeOf] /\ heap[EOT] = Sentinel
  BY <1>1 DEF Init, NodeOrEOT
<1>3. \A n \in Node : heap[n].level >= 1
  <2> TAKE n \in Node
  <2>1. n \in NodeOrEOT /\ n # EOT
    BY NodeNotEOT
  <2>2. heap[n] = Unallocated
    BY <2>1 DEF Init
  <2> QED
    BY <1>1, <2>2
<1>4. /\ head \in NodeOrEOT \cup {NULL} /\ cur \in NodeOrEOT
      /\ live \subseteq Node /\ bindings \subseteq Pair
      /\ arg \in Pair /\ old \in Pair
  BY PairTypes DEF Init, NodeOrEOT
<1>5. stack \in Seq(Frame) /\ visited \in Seq(Node)
  BY DEF Init
<1>6. pc = "idle" /\ status = "ok"
  BY DEF Init
<1> QED
  BY <1>2, <1>3, <1>4, <1>5, <1>6 DEF IInv, TypeOK, SentinelIntact

\* The calls a client makes touch neither the heap nor the stack.
LEMMA CallStep ==
  ASSUME IInv, Call
  PROVE  IInv'
<1> USE DEF IInv, TypeOK, SentinelIntact
<1>1. CASE dict_init
  BY <1>1 DEF dict_init, NodeOrEOT
<1>2. ASSUME NEW key \in Key, NEW value \in Value, dict_put(key, value)
      PROVE  IInv'
  BY <1>2, PairTypes, ConstantsAssumption DEF dict_put, StartPut
<1>3. CASE dict_for_each
  BY <1>3 DEF dict_for_each
<1>4. CASE dict_destroy
  BY <1>4 DEF dict_destroy
<1> QED
  BY <1>1, <1>2, <1>3, <1>4 DEF Call

LEMMA PutStepStep ==
  ASSUME IInv, PutStep
  PROVE  IInv'
<1> USE DEF IInv, TypeOK, SentinelIntact
<1>1. CASE PutDescend
  <2>1. cur \in Node
    BY <1>1 DEF PutDescend, NodeOrEOT
  <2>2. PICK at \in {"left", "right"} :
           Push("put", cur, at) /\ cur' = heap[cur][at]
    BY <1>1 DEF PutDescend
  <2>3. [fn |-> "put", node |-> cur, at |-> at] \in Frame
    BY <2>1 DEF Frame
  <2>4. stack' \in Seq(Frame)
    BY <2>2, <2>3, PushFrame DEF Push
  <2>5. cur' \in NodeOrEOT
    BY <2>2, ChildOfNode
  <2> QED
    BY <1>1, <2>4, <2>5 DEF PutDescend
<1>2. CASE PutReplace
  <2>1. cur \in Node
    BY <1>2 DEF PutReplace, NodeOrEOT
  <2>2. HeapOK(heap')
    BY <1>2, <2>1, HeapIsOK, SetPair DEF PutReplace
  <2>3. old' \in Pair
    BY <1>2 DEF PutReplace, SubtreeOf, Pair
  <2> QED
    BY <1>2, <2>2, <2>3 DEF PutReplace, HeapOK
<1>3. CASE PutAttach
  <2>1. PICK n \in Node \ live :
           /\ live' = live \cup {n}
           /\ heap' = [heap EXCEPT ![n] = node_init(arg.key, arg.value)]
           /\ cur' = n
    <3>1. allocate(Node \ live) \subseteq Node \ live
      BY AllocateAssumption
    <3> QED BY <1>3, <3>1 DEF PutAttach
  <2>2. node_init(arg.key, arg.value) \in SubtreeOf
    BY DEF node_init, SubtreeOf, NodeOrEOT, Pair
  <2>3. node_init(arg.key, arg.value).level = 1
    BY DEF node_init
  <2>4. HeapOK(heap')
    BY <2>1, <2>2, <2>3, NodeNotEOT DEF HeapOK
  <2> QED
    BY <1>3, <2>1, <2>4, NodeNotEOT DEF PutAttach, HeapOK
<1>4. CASE PutNoMemory
  BY <1>4 DEF PutNoMemory
<1>5. CASE PutUnwind
  <2> DEFINE n == Top.node
             linked == [heap EXCEPT ![n][Top.at] = cur]
             skewed == skew(node_reconstruct_nnode(linked, n), n)
             splitted == split(skewed.heap, skewed.root)
  <2>1. n \in Node /\ Top.at \in {"left", "right"} /\ Tail(stack) \in Seq(Frame)
    BY <1>5, FrameField DEF PutUnwind, Running
  <2>2. HeapOK(linked)
    <3>1. CASE Top.at = "left"
      <4>1. linked = [heap EXCEPT ![n].left = cur]
        BY <3>1, <2>1, NodeNotEOT DEF SubtreeOf
      <4> QED
        BY <4>1, <2>1, HeapIsOK, SetLeft
    <3>2. CASE Top.at = "right"
      <4>1. linked = [heap EXCEPT ![n].right = cur]
        BY <3>2, <2>1, NodeNotEOT DEF SubtreeOf
      <4> QED
        BY <4>1, <2>1, HeapIsOK, SetRight
    <3> QED
      BY <2>1, <3>1, <3>2
  <2> HIDE DEF linked
  <2>3. HeapOK(node_reconstruct_nnode(linked, n))
    BY <2>1, <2>2, Reconstruct
  <2>4. HeapOK(skewed.heap) /\ skewed.root = n
    BY <2>1, <2>3, SkewHeap
  <2> HIDE DEF skewed
  <2>5. HeapOK(splitted.heap) /\ splitted.root \in Node
    BY <2>1, <2>4, SplitHeap
  <2>6. heap' = splitted.heap /\ cur' = splitted.root /\ stack' = Tail(stack)
    BY <1>5 DEF PutUnwind, Pop, linked, skewed
  <2> QED
    BY <1>5, <2>1, <2>5, <2>6, NodeNotEOT DEF PutUnwind, HeapOK
<1>6. CASE PutReturn
  <2>1. bindings' \subseteq Pair
    BY <1>6 DEF PutReturn
  <2>2. head' \in NodeOrEOT \cup {NULL} /\ head' # NULL
    BY <1>6, ConstantsAssumption DEF PutReturn, NodeOrEOT
  <2>3. /\ pc' \in {"idle", "acted"}
        /\ pc' = "acted" => stack' # <<>>
        /\ UNCHANGED <<heap, live, stack, visited>>
    BY <1>6 DEF PutReturn
  <2>4. /\ cur' \in NodeOrEOT
        /\ arg' \in Pair /\ old' \in Pair
        /\ status' \in {"ok", "enomem", "abort"}
    BY <1>6, PairTypes DEF PutReturn, Forget, NodeOrEOT
  <2> QED
    BY <2>1, <2>2, <2>3, <2>4
<1> QED
  BY <1>1, <1>2, <1>3, <1>4, <1>5, <1>6 DEF PutStep

LEMMA CallbackStep ==
  ASSUME IInv, Callback
  PROVE  IInv'
<1> USE DEF IInv, TypeOK, SentinelIntact
<1>1. ASSUME NEW key \in Key, NEW value \in Value, CallbackPut(key, value)
      PROVE  IInv'
  <2>1. pc = "action" /\ StartPut(key, value)
    BY <1>1 DEF CallbackPut
  <2> QED
    BY <2>1, PairTypes DEF StartPut
<1>2. CASE CallbackContinue
  <2>1. Top \in Frame /\ Tail(stack) \in Seq(Frame)
    BY <1>2, FrameField DEF CallbackContinue
  <2>2. heap[Top.node].right \in NodeOrEOT
    BY <1>2, FrameField, NodeNotEOT DEF CallbackContinue, SubtreeOf
  <2> QED
    BY <1>2, <2>1, <2>2 DEF CallbackContinue, Pop
<1>3. CASE CallbackAbort
  BY <1>3, FrameField DEF CallbackAbort, Pop
<1> QED
  BY <1>1, <1>2, <1>3 DEF Callback

LEMMA EachStepStep ==
  ASSUME IInv, EachStep
  PROVE  IInv'
<1> USE DEF IInv, TypeOK, SentinelIntact
<1>1. CASE EachDescend
  <2>1. cur \in Node
    BY <1>1 DEF EachDescend, NodeOrEOT
  <2>2. [fn |-> "each", node |-> cur, at |-> "left"] \in Frame
    BY <2>1 DEF Frame
  <2>3. stack' \in Seq(Frame)
    BY <1>1, <2>2, PushFrame DEF EachDescend, Push
  <2>4. cur' \in NodeOrEOT
    BY <1>1 DEF EachDescend, SubtreeOf
  <2> QED
    BY <1>1, <2>3, <2>4 DEF EachDescend
<1>2. CASE EachEnd
  BY <1>2 DEF EachEnd
<1>3. CASE EachAction
  <2>1. stack # <<>> /\ Top.node \in Node
    BY <1>3, FrameField DEF EachAction, Running
  <2>2. visited' \in Seq(Node)
    BY <1>3, <2>1 DEF EachAction
  <2> QED
    BY <1>3, <2>1, <2>2 DEF EachAction
<1>4. CASE EachAbort
  BY <1>4, FrameField DEF EachAbort, Running, Pop
<1>5. CASE EachReturn
  BY <1>5, PairTypes DEF EachReturn, Forget, NodeOrEOT
<1> QED
  BY <1>1, <1>2, <1>3, <1>4, <1>5 DEF EachStep

LEMMA DestroyStepStep ==
  ASSUME IInv, DestroyStep
  PROVE  IInv'
<1> USE DEF IInv, TypeOK, SentinelIntact
<1>1. CASE DestroyDescend
  <2>1. cur \in Node
    BY <1>1 DEF DestroyDescend, NodeOrEOT
  <2>2. [fn |-> "destroy", node |-> cur, at |-> "left"] \in Frame
    BY <2>1 DEF Frame
  <2>3. stack' \in Seq(Frame)
    BY <1>1, <2>2, PushFrame DEF DestroyDescend, Push
  <2>4. cur' \in NodeOrEOT
    BY <1>1 DEF DestroyDescend, SubtreeOf
  <2> QED
    BY <1>1, <2>3, <2>4 DEF DestroyDescend
<1>2. CASE DestroyEnd
  BY <1>2 DEF DestroyEnd
<1>3. CASE DestroyRight
  <2>1. Top \in Frame /\ Top.node \in Node /\ Tail(stack) \in Seq(Frame)
    BY <1>3, FrameField DEF DestroyRight, Running
  <2>2. [Top EXCEPT !.at = "right"] \in Frame
    BY <2>1 DEF Frame
  <2>3. stack' \in Seq(Frame)
    BY <1>3, <2>1, <2>2, PushFrame DEF DestroyRight
  <2>4. cur' \in NodeOrEOT
    BY <1>3, <2>1, NodeNotEOT DEF DestroyRight, SubtreeOf
  <2> QED
    BY <1>3, <2>3, <2>4 DEF DestroyRight
<1>4. CASE node_destroy
  <2>1. Top.node \in Node /\ Tail(stack) \in Seq(Frame)
    BY <1>4, FrameField DEF node_destroy, Running
  <2>2. Unallocated \in SubtreeOf /\ Unallocated.level = 1
    BY DEF Unallocated, Sentinel, SubtreeOf, NodeOrEOT
  <2>3. HeapOK(heap')
    BY <1>4, <2>1, <2>2, NodeNotEOT DEF node_destroy, HeapOK
  <2> QED
    BY <1>4, <2>1, <2>3 DEF node_destroy, HeapOK, Pop
<1>5. CASE DestroyReturn
  BY <1>5, PairTypes DEF DestroyReturn, Forget, NodeOrEOT
<1> QED
  BY <1>1, <1>2, <1>3, <1>4, <1>5 DEF DestroyStep

\* The invariant is inductive.
LEMMA NextIInv ==
  ASSUME IInv, [Next]_vars
  PROVE  IInv'
<1>1. CASE Call
  BY <1>1, CallStep
<1>2. CASE PutStep
  BY <1>2, PutStepStep
<1>3. CASE Callback
  BY <1>3, CallbackStep
<1>4. CASE EachStep
  BY <1>4, EachStepStep
<1>5. CASE DestroyStep
  BY <1>5, DestroyStepStep
<1>6. CASE UNCHANGED vars
  BY <1>6 DEF vars, IInv, TypeOK, SentinelIntact
<1> QED
  BY <1>1, <1>2, <1>3, <1>4, <1>5, <1>6 DEF Next, Step
-----------------------------------------------------------------------------
\* Every reachable state of the dict is well typed: the recursion only ever
\* suspends on real nodes and every pointer is a node or the sentinel.
THEOREM DictTypes == Spec => []TypeOK
<1>1. IInv => TypeOK
  BY DEF IInv
<1> QED
  BY <1>1, InitIInv, NextIInv, PTL DEF Spec

\* No sequence of calls, callbacks and failed allocations ever writes to
\* the sentinel that all dicts of the process share, for any comparator:
\* the asserts of subtree_rotate_right and subtree_rotate_left hold.
THEOREM SentinelNeverWritten == Spec => []SentinelIntact
<1>1. IInv => SentinelIntact
  BY DEF IInv
<1> QED
  BY <1>1, InitIInv, NextIInv, PTL DEF Spec
-----------------------------------------------------------------------------
(***************************************************************************)
(* Keys. The comparator is a total preorder.                               *)
(***************************************************************************)
LEMMA KeyOrder ==
  ASSUME NEW a \in Key, NEW b \in Key, NEW c \in Key
  PROVE  /\ compar(a, a) = 0
         /\ compar(a, b) \in Int
         /\ compar(a, b) < 0 <=> compar(b, a) > 0
         /\ compar(a, b) = 0 <=> compar(b, a) = 0
         /\ compar(a, b) < 0 /\ compar(b, c) < 0 => compar(a, c) < 0
         /\ compar(a, b) > 0 /\ compar(b, c) > 0 => compar(a, c) > 0
<1>1. \A x, y \in Key : /\ compar(x, y) \in Int
                        /\ compar(x, y) < 0 <=> compar(y, x) > 0
  BY ComparatorAssumption
<1>2. \A x, y, z \in Key : compar(x, y) <= 0 /\ compar(y, z) <= 0 => compar(x, z) <= 0
  BY ComparatorAssumption
<1>3. \A x, y, z \in Key : compar(x, y) < 0 /\ compar(y, z) < 0 => compar(x, z) < 0
  <2> SUFFICES ASSUME NEW x \in Key, NEW y \in Key, NEW z \in Key,
                      compar(x, y) < 0, compar(y, z) < 0, compar(x, z) >= 0
               PROVE  FALSE
    BY <1>1
  <2>1. compar(z, x) <= 0
    BY <1>1
  <2>2. compar(z, y) <= 0
    BY <1>1, <1>2, <2>1
  <2> QED BY <1>1, <2>2
<1>4. compar(a, a) = 0
  BY <1>1
<1>5. compar(a, b) = 0 <=> compar(b, a) = 0
  BY <1>1
<1> QED BY <1>1, <1>3, <1>4, <1>5

\* Equal keys compare alike with every other.
LEMMA EqualKeys ==
  ASSUME NEW a \in Key, NEW b \in Key, compar(a, b) = 0, NEW c \in Key
  PROVE  /\ compar(a, c) < 0 <=> compar(b, c) < 0
         /\ compar(a, c) > 0 <=> compar(b, c) > 0
         /\ compar(c, a) < 0 <=> compar(c, b) < 0
         /\ compar(c, a) > 0 <=> compar(c, b) > 0
<1>1. \A x, y \in Key : /\ compar(x, y) \in Int
                        /\ compar(x, y) < 0 <=> compar(y, x) > 0
  BY ComparatorAssumption
<1>2. \A x, y, z \in Key : compar(x, y) <= 0 /\ compar(y, z) <= 0 => compar(x, z) <= 0
  BY ComparatorAssumption
<1>3. \A x, y, z \in Key : compar(x, y) = 0 /\ compar(x, z) < 0 => compar(y, z) < 0
  <2> SUFFICES ASSUME NEW x \in Key, NEW y \in Key, NEW z \in Key,
                      compar(x, y) = 0, compar(x, z) < 0, compar(y, z) >= 0
               PROVE  FALSE
    BY <1>1
  <2>1. compar(z, y) <= 0 /\ compar(y, x) <= 0
    BY <1>1
  <2>2. compar(z, x) <= 0
    BY <1>2, <2>1
  <2> QED BY <1>1, <2>2
<1>4. \A x, y, z \in Key : compar(x, y) = 0 /\ compar(x, z) > 0 => compar(y, z) > 0
  <2> SUFFICES ASSUME NEW x \in Key, NEW y \in Key, NEW z \in Key,
                      compar(x, y) = 0, compar(x, z) > 0, compar(y, z) <= 0
               PROVE  FALSE
    BY <1>1
  <2>1. compar(x, y) <= 0
    OBVIOUS
  <2>2. compar(x, z) <= 0
    BY <1>2, <2>1
  <2> QED BY <1>1, <2>2
<1>5. compar(b, a) = 0
  BY <1>1
<1> QED BY <1>1, <1>3, <1>4, <1>5
-----------------------------------------------------------------------------
(***************************************************************************)
(* What is below a node.                                                   *)
(***************************************************************************)
LEMMA BelowLeast ==
  ASSUME NEW h, NEW root, NEW nodes \in SUBSET Node, Closed(h, nodes), root \in nodes \cup {EOT}
  PROVE  Below(h, root) \subseteq nodes
BY DEF Below

LEMMA BelowNone == \A h : Below(h, EOT) = {}
BY DEF Below

LEMMA BelowClosed ==
  ASSUME NEW h, NEW root \in NodeOrEOT, HeapOK(h)
  PROVE  /\ Below(h, root) \in SUBSET Node
         /\ Closed(h, Below(h, root))
         /\ root \in Below(h, root) \cup {EOT}
<1>1. CASE root = EOT
  BY <1>1, BelowNone DEF Closed
<1>2. CASE root # EOT
  <2> DEFINE holding == {nodes \in SUBSET Node : root \in nodes /\ Closed(h, nodes)}
  <2>1. Below(h, root) = {n \in Node : \A nodes \in holding : n \in nodes}
    BY <1>2 DEF Below
  <2>2. ASSUME NEW n \in Below(h, root), NEW child, child = h[n].left \/ child = h[n].right
        PROVE  child = EOT \/ child \in Below(h, root)
    <3>1. n \in Node /\ \A nodes \in holding : n \in nodes
      BY <2>1
    <3>2. \A nodes \in holding : child = EOT \/ child \in nodes
      BY <2>2, <3>1 DEF Closed
    <3>3. child \in NodeOrEOT
      BY <2>2, <3>1, NodeNotEOT DEF HeapOK, SubtreeOf
    <3> QED BY <2>1, <3>2, <3>3 DEF NodeOrEOT
  <2>3. root \in Below(h, root)
    BY <1>2, <2>1 DEF NodeOrEOT
  <2> QED BY <2>1, <2>2, <2>3 DEF Closed
<1> QED BY <1>1, <1>2

\* The children of a node in a subtree are in it or the sentinel.
LEMMA ChildBelow ==
  ASSUME NEW h, HeapOK(h), NEW root \in NodeOrEOT, NEW n \in Below(h, root)
  PROVE  /\ n \in Node
         /\ h[n].left \in NodeOrEOT /\ h[n].right \in NodeOrEOT
         /\ h[n].left = EOT \/ h[n].left \in Below(h, root)
         /\ h[n].right = EOT \/ h[n].right \in Below(h, root)
         /\ Below(h, h[n].left) \subseteq Below(h, root)
         /\ Below(h, h[n].right) \subseteq Below(h, root)
         /\ Below(h, n) \subseteq Below(h, root)
<1>1. Below(h, root) \in SUBSET Node /\ Closed(h, Below(h, root))
  BY BelowClosed
<1>2. n \in Node
  BY <1>1
<1>3. h[n].left \in NodeOrEOT /\ h[n].right \in NodeOrEOT
  BY <1>2, NodeNotEOT DEF HeapOK, SubtreeOf
<1>4. /\ h[n].left = EOT \/ h[n].left \in Below(h, root)
      /\ h[n].right = EOT \/ h[n].right \in Below(h, root)
  BY <1>1 DEF Closed
<1> QED BY <1>1, <1>2, <1>3, <1>4, BelowLeast

LEMMA BelowNode ==
  ASSUME NEW h, HeapOK(h), NEW n \in Node
  PROVE  /\ n \in Below(h, n)
         /\ h[n].left \in NodeOrEOT /\ h[n].right \in NodeOrEOT
         /\ Below(h, h[n].left) \subseteq Below(h, n)
         /\ Below(h, h[n].right) \subseteq Below(h, n)
         /\ Below(h, n) = {n} \cup Below(h, h[n].left) \cup Below(h, h[n].right)
<1>1. n \in NodeOrEOT /\ n # EOT
  BY NodeNotEOT
<1>2. n \in Below(h, n)
  BY <1>1, BelowClosed
<1>3. /\ h[n].left \in NodeOrEOT /\ h[n].right \in NodeOrEOT
      /\ Below(h, h[n].left) \subseteq Below(h, n)
      /\ Below(h, h[n].right) \subseteq Below(h, n)
  BY <1>1, <1>2, ChildBelow
<1> DEFINE l == Below(h, h[n].left)
           r == Below(h, h[n].right)
           all == {n} \cup l \cup r
<1>4. /\ l \in SUBSET Node /\ Closed(h, l) /\ h[n].left \in l \cup {EOT}
      /\ r \in SUBSET Node /\ Closed(h, r) /\ h[n].right \in r \cup {EOT}
  BY <1>3, BelowClosed
<1>5. all \in SUBSET Node /\ Closed(h, all)
  <2> HIDE DEF l, r
  <2> QED BY <1>4 DEF Closed
<1>6. Below(h, n) \subseteq all
  BY <1>5, BelowLeast
<1> QED BY <1>2, <1>3, <1>6

\* What is below a node depends on the links there only.
LEMMA BelowSame ==
  ASSUME NEW h, HeapOK(h), NEW k, HeapOK(k), NEW root \in NodeOrEOT,
         \A n \in Below(h, root) : k[n].left = h[n].left /\ k[n].right = h[n].right
  PROVE  Below(k, root) = Below(h, root)
<1>1. /\ Below(h, root) \in SUBSET Node /\ Closed(h, Below(h, root))
      /\ root \in Below(h, root) \cup {EOT}
      /\ Below(k, root) \in SUBSET Node /\ Closed(k, Below(k, root))
      /\ root \in Below(k, root) \cup {EOT}
  BY BelowClosed
<1>2. Closed(k, Below(h, root))
  BY <1>1 DEF Closed
<1>3. Below(k, root) \subseteq Below(h, root)
  BY <1>1, <1>2, BelowLeast
<1>4. Closed(h, Below(k, root))
  BY <1>1, <1>3 DEF Closed
<1> QED BY <1>1, <1>3, <1>4, BelowLeast
-----------------------------------------------------------------------------
(***************************************************************************)
(* What a settled tree satisfies at each of its nodes.                     *)
(***************************************************************************)
Sides == {"left", "right"}
Other(at) == IF at = "left" THEN "right" ELSE "left"

\* m is ordered on one side of n.
On(h, m, at, n) ==
  IF at = "left" THEN compar(h[m].key, h[n].key) < 0 ELSE compar(h[m].key, h[n].key) > 0

Ranked(h, n) ==
  /\ h[n].key \in Key
  /\ \A at \in Sides : \A m \in Below(h, h[n][at]) : On(h, m, at, n)

LevelsFit(h, n) ==
  /\ h[h[n].left].level = h[n].level - 1
  /\ h[h[n].right].level \in {h[n].level - 1, h[n].level}
NoDoubleRight(h, n) == h[h[h[n].right].right].level < h[n].level
Balanced(h, n) == LevelsFit(h, n) /\ NoDoubleRight(h, n)

Counted(h, n) == h[n].nnode = h[h[n].left].nnode + 1 + h[h[n].right].nnode

Fine(h, n) == Ranked(h, n) /\ Balanced(h, n) /\ Counted(h, n)
Good(h, root) == \A n \in Below(h, root) : Fine(h, n)

LEMMA OnTrans ==
  ASSUME NEW h, NEW m, NEW k, NEW n, NEW at \in Sides,
         h[m].key \in Key, h[k].key \in Key, h[n].key \in Key,
         On(h, m, at, k), On(h, k, at, n)
  PROVE  On(h, m, at, n)
BY KeyOrder DEF On, Sides

LEMMA OnTurn ==
  ASSUME NEW h, NEW m, NEW n, NEW at \in Sides, h[m].key \in Key, h[n].key \in Key
  PROVE  /\ On(h, m, at, n) <=> On(h, n, Other(at), m)
         /\ ~ (On(h, m, at, n) /\ On(h, m, Other(at), n))
         /\ On(h, m, at, n) => m # n
         /\ Other(at) \in Sides /\ Other(Other(at)) = at
BY KeyOrder DEF On, Sides, Other

LEMMA GoodNone == \A h : Good(h, EOT)
BY BelowNone DEF Good

\* A node whose children have good subtrees.
LEMMA GoodNode ==
  ASSUME NEW h, HeapOK(h), NEW n \in Node
  PROVE  Good(h, n) <=> Fine(h, n) /\ Good(h, h[n].left) /\ Good(h, h[n].right)
BY BelowNode DEF Good

LEMMA GoodBelow ==
  ASSUME NEW h, HeapOK(h), NEW root \in NodeOrEOT, Good(h, root), NEW n \in Below(h, root)
  PROVE  n \in Node /\ Good(h, n) /\ Fine(h, n) /\ h[n].key \in Key
BY ChildBelow DEF Good, Fine, Ranked

\* The heap may change elsewhere.
LEMMA GoodSame ==
  ASSUME NEW h, HeapOK(h), NEW k, HeapOK(k), NEW root \in NodeOrEOT, Good(h, root),
         \A n \in Below(h, root) : k[n] = h[n]
  PROVE  Below(k, root) = Below(h, root) /\ Good(k, root) /\ k[root] = h[root]
<1>1. Below(k, root) = Below(h, root)
  BY BelowSame
<1>2. \A n \in Below(h, root) \cup {EOT} : k[n] = h[n]
  BY DEF HeapOK
<1>3. root \in Below(h, root) \cup {EOT}
  BY BelowClosed
<1>4. ASSUME NEW n \in Below(h, root) PROVE Fine(k, n)
  <2>1. /\ n \in Node /\ h[n].left \in NodeOrEOT /\ h[n].right \in NodeOrEOT
        /\ h[n].left \in Below(h, root) \cup {EOT} /\ h[n].right \in Below(h, root) \cup {EOT}
        /\ Below(h, h[n].left) \subseteq Below(h, root) /\ Below(h, h[n].right) \subseteq Below(h, root)
    BY ChildBelow
  <2>2. h[h[n].right].right \in Below(h, root) \cup {EOT}
    <3>1. CASE h[n].right = EOT
      BY <3>1 DEF HeapOK, Sentinel
    <3>2. CASE h[n].right # EOT
      BY <2>1, <3>2, ChildBelow
    <3> QED BY <3>1, <3>2
  <2>3. Below(k, h[n].left) = Below(h, h[n].left) /\ Below(k, h[n].right) = Below(h, h[n].right)
    BY <2>1, BelowSame
  <2>4. k[n] = h[n] /\ k[h[n].left] = h[h[n].left] /\ k[h[n].right] = h[h[n].right]
        /\ k[h[h[n].right].right] = h[h[h[n].right].right]
    BY <1>2, <2>1, <2>2
  <2>5. Fine(h, n)
    BY DEF Good
  <2>6. Ranked(k, n)
    <3>1. h[n].key \in Key /\ \A at \in Sides : \A m \in Below(h, h[n][at]) : On(h, m, at, n)
      BY <2>5 DEF Fine, Ranked
    <3>2. \A at \in Sides : Below(k, k[n][at]) = Below(h, h[n][at]) /\ Below(h, h[n][at]) \subseteq Below(h, root)
      BY <2>1, <2>3, <2>4 DEF Sides
    <3>3. \A at \in Sides : \A m \in Below(h, h[n][at]) : k[m] = h[m]
      BY <3>2
    <3> QED BY <2>4, <3>1, <3>2, <3>3 DEF Ranked, On
  <2> QED BY <2>4, <2>5, <2>6 DEF Fine, Balanced, LevelsFit, NoDoubleRight, Counted
<1> QED BY <1>1, <1>2, <1>3, <1>4 DEF Good
-----------------------------------------------------------------------------
(***************************************************************************)
(* Rebalancing one node of a tree.                                         *)
(***************************************************************************)
\* A node with new links to good subtrees on its two sides, counted, and
\* otherwise as it was.
LEMMA LinkedGood ==
  ASSUME NEW h, HeapOK(h), NEW n \in Node, h[n].key \in Key,
         NEW l \in NodeOrEOT, Good(h, l), \A m \in Below(h, l) : On(h, m, "left", n),
         NEW r \in NodeOrEOT, Good(h, r), \A m \in Below(h, r) : On(h, m, "right", n),
         NEW k, HeapOK(k), \A m \in Below(h, l) \cup Below(h, r) : k[m] = h[m],
         k[n].left = l, k[n].right = r, k[n].key = h[n].key,
         k[n].nnode = h[l].nnode + 1 + h[r].nnode
  PROVE  /\ Below(k, l) = Below(h, l) /\ Good(k, l) /\ k[l] = h[l]
         /\ Below(k, r) = Below(h, r) /\ Good(k, r) /\ k[r] = h[r]
         /\ Ranked(k, n) /\ Counted(k, n)
         /\ Below(k, n) = {n} \cup Below(h, l) \cup Below(h, r)
<1>1. \A m \in Below(h, l) : k[m] = h[m]
  OBVIOUS
<1>2. \A m \in Below(h, r) : k[m] = h[m]
  OBVIOUS
<1>3. Below(k, l) = Below(h, l) /\ Good(k, l) /\ k[l] = h[l]
  BY <1>1, GoodSame
<1>4. Below(k, r) = Below(h, r) /\ Good(k, r) /\ k[r] = h[r]
  BY <1>2, GoodSame
<1>5. Counted(k, n)
  BY <1>3, <1>4 DEF Counted
<1>6. Ranked(k, n)
  <2>1. \A m \in Below(k, l) : On(k, m, "left", n)
    BY <1>1, <1>3 DEF On
  <2>2. \A m \in Below(k, r) : On(k, m, "right", n)
    BY <1>2, <1>4 DEF On
  <2> QED BY <2>1, <2>2 DEF Ranked, Sides
<1>7. Below(k, n) = {n} \cup Below(h, l) \cup Below(h, r)
  BY <1>3, <1>4, BelowNode
<1> QED BY <1>3, <1>4, <1>5, <1>6, <1>7

\* A node is not among those on its sides.
LEMMA NotBelow ==
  ASSUME NEW h, HeapOK(h), NEW n \in Node, h[n].key \in Key, NEW c \in NodeOrEOT,
         NEW at \in Sides, \A m \in Below(h, c) : On(h, m, at, n)
  PROVE  n \notin Below(h, c) /\ n # c
<1>1. ~On(h, n, at, n)
  BY KeyOrder DEF On
<1>2. n \notin Below(h, c)
  BY <1>1
<1> QED BY <1>2, BelowClosed, NodeNotEOT

\* A node with a new child, counted.
Hung(h, n, at, c) == node_reconstruct_nnode([h EXCEPT ![n][at] = c], n)

\* Its fields.
LEMMA LinkFields ==
  ASSUME NEW h, HeapOK(h), NEW n \in Node, NEW at \in Sides, NEW c \in NodeOrEOT, c # n,
         h[n][Other(at)] # n
  PROVE  \A k : k = Hung(h, n, at, c) =>
           /\ HeapOK(k)
           /\ \A m \in NodeOrEOT : m # n => k[m] = h[m]
           /\ k[n].key = h[n].key /\ k[n].value = h[n].value /\ k[n].level = h[n].level
           /\ k[n].left = IF at = "left" THEN c ELSE h[n].left
           /\ k[n].right = IF at = "right" THEN c ELSE h[n].right
           /\ k[n].nnode = h[k[n].left].nnode + 1 + h[k[n].right].nnode
<1> SUFFICES ASSUME NEW k, k = Hung(h, n, at, c)
      PROVE
        /\ HeapOK(k)
        /\ \A m \in NodeOrEOT : m # n => k[m] = h[m]
        /\ k[n].key = h[n].key /\ k[n].value = h[n].value /\ k[n].level = h[n].level
        /\ k[n].left = IF at = "left" THEN c ELSE h[n].left
        /\ k[n].right = IF at = "right" THEN c ELSE h[n].right
        /\ k[n].nnode = h[k[n].left].nnode + 1 + h[k[n].right].nnode
  OBVIOUS
<1> DEFINE linked == [h EXCEPT ![n][at] = c]
           count == linked[linked[n].left].nnode + 1 + linked[linked[n].right].nnode
<1>1. h[n].left \in NodeOrEOT /\ h[n].right \in NodeOrEOT /\ n \in NodeOrEOT
  BY NodeNotEOT DEF HeapOK, SubtreeOf
<1>2. HeapOK(linked)
  <2>1. CASE at = "left"
    <3>1. linked = [h EXCEPT ![n].left = c]
      BY <2>1, <1>1 DEF HeapOK, SubtreeOf
    <3> QED BY <3>1, SetLeft
  <2>2. CASE at = "right"
    <3>1. linked = [h EXCEPT ![n].right = c]
      BY <2>2, <1>1 DEF HeapOK, SubtreeOf
    <3> QED BY <3>1, SetRight
  <2> QED BY <2>1, <2>2 DEF Sides
<1>3. /\ linked[n].left = IF at = "left" THEN c ELSE h[n].left
      /\ linked[n].right = IF at = "right" THEN c ELSE h[n].right
      /\ linked[n].key = h[n].key /\ linked[n].value = h[n].value /\ linked[n].level = h[n].level
      /\ \A m \in NodeOrEOT : m # n => linked[m] = h[m]
  BY <1>1 DEF HeapOK, SubtreeOf, Sides
<1> HIDE DEF linked
<1>4. k = [linked EXCEPT ![n].nnode = count]
  BY DEF Hung, node_reconstruct_nnode, linked
<1>5. HeapOK(k)
  BY <1>2, Reconstruct DEF Hung, linked
<1>6. /\ linked[n].left # n /\ linked[n].right # n
      /\ linked[n].left \in NodeOrEOT /\ linked[n].right \in NodeOrEOT
  BY <1>1, <1>3 DEF Sides, Other
<1>7. count = h[linked[n].left].nnode + 1 + h[linked[n].right].nnode
  BY <1>3, <1>6
<1> HIDE DEF count
<1>8. linked[n] \in SubtreeOf /\ DOMAIN linked = NodeOrEOT
  BY <1>1, <1>2 DEF HeapOK
<1>9. k[n] = [linked[n] EXCEPT !.nnode = count] /\ \A m \in NodeOrEOT : m # n => k[m] = linked[m]
  BY <1>1, <1>4, <1>8
<1>10. /\ k[n].left = linked[n].left /\ k[n].right = linked[n].right /\ k[n].nnode = count
       /\ k[n].key = linked[n].key /\ k[n].value = linked[n].value /\ k[n].level = linked[n].level
  BY <1>8, <1>9 DEF SubtreeOf
<1> QED BY <1>3, <1>5, <1>7, <1>9, <1>10

\* The fields after a rotation.
LEMMA RotatedRight ==
  ASSUME NEW h, HeapOK(h), NEW n \in Node, NEW l \in Node, l = h[n].left, l # n,
         h[n].right # n, h[l].right # n, h[l].right # l, h[n].right # l,
         NEW k, k = subtree_rotate_right(h, n)
  PROVE  /\ \A m \in NodeOrEOT : m # n /\ m # l => k[m] = h[m]
         /\ \A m \in NodeOrEOT : k[m].key = h[m].key /\ k[m].value = h[m].value /\ k[m].level = h[m].level
         /\ k[n].left = h[l].right /\ k[n].right = h[n].right
         /\ k[n].nnode = h[h[l].right].nnode + 1 + h[h[n].right].nnode
         /\ k[l].left = h[l].left /\ k[l].right = n
<1> DEFINE t == [h EXCEPT ![n].left = h[l].right, ![l].right = n]
           c == t[t[n].left].nnode + 1 + t[t[n].right].nnode
           t1 == [t EXCEPT ![n].nnode = c]
           c1 == t1[t1[l].left].nnode + 1 + t1[t1[l].right].nnode
<1>1. /\ n \in NodeOrEOT /\ l \in NodeOrEOT /\ h[l].right \in NodeOrEOT /\ h[n].right \in NodeOrEOT
      /\ h \in [NodeOrEOT -> SubtreeOf]
  BY NodeNotEOT DEF HeapOK, SubtreeOf
<1>2. /\ DOMAIN t = NodeOrEOT
      /\ \A m \in NodeOrEOT : m # n /\ m # l => t[m] = h[m]
      /\ t[n] = [h[n] EXCEPT !.left = h[l].right] /\ t[l] = [h[l] EXCEPT !.right = n]
  BY <1>1
<1>3. /\ t[n].left = h[l].right /\ t[n].right = h[n].right /\ t[n].nnode = h[n].nnode
      /\ t[n].key = h[n].key /\ t[n].value = h[n].value /\ t[n].level = h[n].level
      /\ t[l].left = h[l].left /\ t[l].right = n
      /\ t[l].key = h[l].key /\ t[l].value = h[l].value /\ t[l].level = h[l].level
      /\ t[n] \in SubtreeOf /\ t[l] \in SubtreeOf
  BY <1>1, <1>2 DEF SubtreeOf
<1> HIDE DEF t
<1>4. c = h[h[l].right].nnode + 1 + h[h[n].right].nnode
  BY <1>1, <1>2, <1>3
<1>5. /\ DOMAIN t1 = NodeOrEOT
      /\ \A m \in NodeOrEOT : m # n => t1[m] = t[m]
      /\ t1[n] = [t[n] EXCEPT !.nnode = c]
  BY <1>1, <1>2
<1> HIDE DEF c
<1>6. /\ t1[n].left = h[l].right /\ t1[n].right = h[n].right /\ t1[n].nnode = c
      /\ t1[n].key = h[n].key /\ t1[n].value = h[n].value /\ t1[n].level = h[n].level
  BY <1>3, <1>5 DEF SubtreeOf
<1> HIDE DEF t1
<1>7. k = [t1 EXCEPT ![l].nnode = c1]
  BY DEF subtree_rotate_right, node_reconstruct_nnode, t, t1, c
<1> HIDE DEF c1
<1>8. /\ \A m \in NodeOrEOT : m # l => k[m] = t1[m]
      /\ k[l] = [t[l] EXCEPT !.nnode = c1]
  BY <1>1, <1>5, <1>7
<1>9. /\ k[l].left = t[l].left /\ k[l].right = t[l].right
      /\ k[l].key = t[l].key /\ k[l].value = t[l].value /\ k[l].level = t[l].level
  BY <1>3, <1>8 DEF SubtreeOf
<1>10. \A m \in NodeOrEOT : m # n /\ m # l => k[m] = h[m]
  BY <1>2, <1>5, <1>8
<1>11. k[n] = t1[n]
  BY <1>1, <1>8
<1>12. \A m \in NodeOrEOT : k[m].key = h[m].key /\ k[m].value = h[m].value /\ k[m].level = h[m].level
  BY <1>3, <1>6, <1>9, <1>10, <1>11
<1> QED BY <1>3, <1>4, <1>6, <1>9, <1>10, <1>11, <1>12

\* split's rotation, which takes the node that comes up a level up.
Raised(h, n, r) == [subtree_rotate_left(h, n) EXCEPT ![r].level = @ + 1]

LEMMA RotatedLeft ==
  ASSUME NEW h, HeapOK(h), NEW n \in Node, NEW r \in Node, r = h[n].right, r # n,
         h[n].left # n, h[n].left # r, h[r].left # n, h[r].left # r, h[r].right # n, h[r].right # r,
         NEW k, k = Raised(h, n, r)
  PROVE  /\ \A m \in NodeOrEOT : m # n /\ m # r => k[m] = h[m]
         /\ \A m \in NodeOrEOT : k[m].key = h[m].key /\ k[m].value = h[m].value
         /\ k[n].left = h[n].left /\ k[n].right = h[r].left /\ k[n].level = h[n].level
         /\ k[r].left = n /\ k[r].right = h[r].right /\ k[r].level = h[r].level + 1
         /\ k[n].nnode = h[h[n].left].nnode + 1 + h[h[r].left].nnode
         /\ k[r].nnode = k[n].nnode + 1 + h[h[r].right].nnode
<1> DEFINE t == [h EXCEPT ![n].right = h[r].left, ![r].left = n]
           c == t[t[n].left].nnode + 1 + t[t[n].right].nnode
           t1 == [t EXCEPT ![n].nnode = c]
           c1 == t1[t1[r].left].nnode + 1 + t1[t1[r].right].nnode
           t2 == [t1 EXCEPT ![r].nnode = c1]
<1>1. /\ n \in NodeOrEOT /\ r \in NodeOrEOT /\ h[r].right \in NodeOrEOT /\ h[r].left \in NodeOrEOT
      /\ h[n].left \in NodeOrEOT /\ h \in [NodeOrEOT -> SubtreeOf]
  BY NodeNotEOT DEF HeapOK, SubtreeOf
<1>2. /\ DOMAIN t = NodeOrEOT
      /\ \A m \in NodeOrEOT : m # n /\ m # r => t[m] = h[m]
      /\ t[n] = [h[n] EXCEPT !.right = h[r].left] /\ t[r] = [h[r] EXCEPT !.left = n]
  BY <1>1
<1>3. /\ t[n].right = h[r].left /\ t[n].left = h[n].left /\ t[n].nnode = h[n].nnode
      /\ t[n].key = h[n].key /\ t[n].value = h[n].value /\ t[n].level = h[n].level
      /\ t[r].left = n /\ t[r].right = h[r].right
      /\ t[r].key = h[r].key /\ t[r].value = h[r].value /\ t[r].level = h[r].level
      /\ t[n] \in SubtreeOf /\ t[r] \in SubtreeOf
  BY <1>1, <1>2 DEF SubtreeOf
<1> HIDE DEF t
<1>4. c = h[h[n].left].nnode + 1 + h[h[r].left].nnode
  BY <1>1, <1>2, <1>3
<1>5. /\ DOMAIN t1 = NodeOrEOT
      /\ \A m \in NodeOrEOT : m # n => t1[m] = t[m]
      /\ t1[n] = [t[n] EXCEPT !.nnode = c]
  BY <1>1, <1>2
<1> HIDE DEF c
<1>6. /\ t1[n].left = h[n].left /\ t1[n].right = h[r].left /\ t1[n].nnode = c
      /\ t1[n].key = h[n].key /\ t1[n].value = h[n].value /\ t1[n].level = h[n].level
  BY <1>3, <1>5 DEF SubtreeOf
<1>7. c1 = c + 1 + h[h[r].right].nnode
  <2>1. t1[r].left = n /\ t1[r].right = h[r].right
    BY <1>1, <1>3, <1>5
  <2>2. h[r].right # n /\ h[r].right # r
    OBVIOUS
  <2>3. t1[h[r].right] = h[h[r].right]
    BY <1>1, <1>2, <1>5, <2>2
  <2> QED BY <1>6, <2>1, <2>3
<1> HIDE DEF t1, c1
<1>8. /\ DOMAIN t2 = NodeOrEOT
      /\ \A m \in NodeOrEOT : m # r => t2[m] = t1[m]
      /\ t2[r] = [t[r] EXCEPT !.nnode = c1]
  BY <1>1, <1>5
<1>9. /\ t2[r].left = n /\ t2[r].right = h[r].right /\ t2[r].nnode = c1
      /\ t2[r].key = h[r].key /\ t2[r].value = h[r].value /\ t2[r].level = h[r].level
  BY <1>3, <1>8 DEF SubtreeOf
<1> HIDE DEF t2
<1>10. k = [t2 EXCEPT ![r].level = @ + 1]
  BY DEF Raised, subtree_rotate_left, node_reconstruct_nnode, t, t1, t2, c, c1
<1>11. /\ \A m \in NodeOrEOT : m # r => k[m] = t2[m]
       /\ k[r] = [t2[r] EXCEPT !.level = @ + 1]
  BY <1>1, <1>8, <1>10
<1>12. t2[r] = [left |-> n, right |-> h[r].right, key |-> h[r].key, value |-> h[r].value,
                nnode |-> c1, level |-> h[r].level]
  BY <1>3, <1>8 DEF SubtreeOf
<1>13. /\ k[r].left = n /\ k[r].right = h[r].right /\ k[r].nnode = c1
       /\ k[r].key = h[r].key /\ k[r].value = h[r].value /\ k[r].level = h[r].level + 1
  BY <1>11, <1>12
<1>14. \A m \in NodeOrEOT : m # n /\ m # r => k[m] = h[m]
  BY <1>2, <1>5, <1>8, <1>11
<1>15. k[n] = t1[n]
  BY <1>1, <1>8, <1>11
<1> QED BY <1>1, <1>4, <1>6, <1>7, <1>13, <1>14, <1>15

\* skew at a node whose left child came up to its level: the child that is
\* dropped takes its left subtree along, the rest is in order.
LEMMA SkewGood ==
  ASSUME NEW h, HeapOK(h), NEW n \in Node, Ranked(h, n),
         Good(h, h[n].left), Good(h, h[n].right),
         h[h[n].left].level = h[n].level,
         h[h[h[n].left].right].level = h[n].level - 1,
         h[h[n].right].level \in {h[n].level - 1, h[n].level}, NoDoubleRight(h, n),
         NEW k, k = skew(h, n).heap
  PROVE  /\ HeapOK(k) /\ Good(k, n) /\ Below(k, n) \subseteq Below(h, n)
         /\ \A m \in NodeOrEOT : k[m].key = h[m].key /\ k[m].value = h[m].value /\ k[m].level = h[m].level
         /\ \A m \in NodeOrEOT \ Below(h, n) : k[m] = h[m]
<1> DEFINE l == h[n].left
           r == h[n].right
           x == h[l].right
<1>1. l \in Node /\ r \in NodeOrEOT /\ x \in NodeOrEOT
  BY NodeNotEOT DEF HeapOK, SubtreeOf, NodeOrEOT, Sentinel
<1>2. k = subtree_rotate_right(h, n) /\ HeapOK(k)
  BY <1>1, RotateRight DEF skew
<1>3. /\ h[n].key \in Key
      /\ \A m \in Below(h, l) : On(h, m, "left", n)
      /\ \A m \in Below(h, r) : On(h, m, "right", n)
  BY DEF Ranked, Sides
<1>4. /\ l \in Below(h, l) /\ Below(h, x) \subseteq Below(h, l)
      /\ Below(h, n) = {n} \cup Below(h, l) \cup Below(h, r)
      /\ r \in Below(h, r) \cup {EOT} /\ x \in Below(h, x) \cup {EOT}
  BY <1>1, BelowNode, BelowClosed
<1>5. Fine(h, l) /\ h[l].key \in Key /\ Good(h, x) /\ \A m \in Below(h, x) : On(h, m, "right", l)
  BY <1>1, <1>4, GoodNode DEF Fine, Ranked, Sides
<1>6. n \notin Below(h, l) /\ n \notin Below(h, r) /\ l \notin Below(h, x)
  <2>1. \A c \in NodeOrEOT : \A at \in Sides : (\A m \in Below(h, c) : On(h, m, at, n)) => n \notin Below(h, c)
    BY <1>3, NotBelow
  <2>2. \A c \in NodeOrEOT : \A at \in Sides : (\A m \in Below(h, c) : On(h, m, at, l)) => l \notin Below(h, c)
    BY <1>1, <1>5, NotBelow
  <2> QED BY <1>1, <1>3, <1>5, <2>1, <2>2, NodeNotEOT DEF Sides
<1>7. l \notin Below(h, r)
  <2>1. On(h, l, "left", n)
    BY <1>3, <1>4
  <2>2. ~On(h, l, "right", n)
    BY <1>3, <1>5, <2>1, OnTurn DEF Sides, Other
  <2> QED BY <1>3, <2>2
<1>8. n # EOT /\ l # EOT
  BY <1>1, NodeNotEOT
<1> HIDE DEF l, r, x
<1>9. /\ l # n /\ r # n /\ x # n /\ x # l /\ r # l
  BY <1>4, <1>6, <1>7, <1>8
<1>10. /\ \A m \in NodeOrEOT : m # n /\ m # l => k[m] = h[m]
       /\ \A m \in NodeOrEOT : k[m].key = h[m].key /\ k[m].value = h[m].value /\ k[m].level = h[m].level
       /\ k[n].left = x /\ k[n].right = r
       /\ k[n].nnode = h[x].nnode + 1 + h[r].nnode
  BY <1>1, <1>2, <1>9, RotatedRight DEF l, r, x
<1>11. Below(h, x) \subseteq NodeOrEOT /\ Below(h, r) \subseteq NodeOrEOT
  BY <1>1, BelowClosed DEF NodeOrEOT
<1>12. /\ Below(k, x) = Below(h, x) /\ Good(k, x) /\ k[x] = h[x]
       /\ Below(k, r) = Below(h, r) /\ Good(k, r) /\ k[r] = h[r]
       /\ Ranked(k, n) /\ Counted(k, n)
       /\ Below(k, n) = {n} \cup Below(h, x) \cup Below(h, r)
  <2>1. \A m \in Below(h, x) \cup Below(h, r) : k[m] = h[m]
    BY <1>4, <1>6, <1>7, <1>10, <1>11
  <2>2. \A m \in Below(h, x) : On(h, m, "left", n)
    BY <1>3, <1>4
  <2>3. k[n].key = h[n].key
    BY <1>10, NodeNotEOT
  <2>4. Good(h, r)
    BY DEF r
  <2> QED BY <1>1, <1>2, <1>3, <1>5, <1>10, <2>1, <2>2, <2>3, <2>4, LinkedGood
<1>13. Balanced(k, n)
  <2>1. k[x].level = k[n].level - 1 /\ k[r].level \in {k[n].level - 1, k[n].level}
    BY <1>10, <1>12, NodeNotEOT DEF l, r, x
  <2>2. h[r].right \in NodeOrEOT
    BY <1>1 DEF HeapOK, SubtreeOf
  <2>3. k[k[r].right].level = h[h[r].right].level /\ k[n].level = h[n].level
    BY <1>10, <1>12, <2>2, NodeNotEOT
  <2> QED BY <1>10, <2>1, <2>3 DEF Balanced, LevelsFit, NoDoubleRight, r
<1>14. Good(k, n)
  BY <1>2, <1>10, <1>12, <1>13, GoodNode DEF Fine
<1>15. \A m \in NodeOrEOT \ Below(h, n) : k[m] = h[m]
  BY <1>4, <1>10
<1> QED BY <1>2, <1>4, <1>10, <1>12, <1>14, <1>15

\* split at a node with two right edges on its level: the middle node comes up.
LEMMA SplitGood ==
  ASSUME NEW h, HeapOK(h), NEW n \in Node, Ranked(h, n),
         Good(h, h[n].left), Good(h, h[n].right),
         h[h[n].left].level = h[n].level - 1,
         h[h[n].right].level = h[n].level,
         h[h[h[n].right].right].level = h[n].level
  PROVE  \A k, r : k = split(h, n).heap /\ r = split(h, n).root =>
         /\ HeapOK(k) /\ r \in Node /\ Good(k, r) /\ Below(k, r) = Below(h, n)
         /\ \A m \in NodeOrEOT : k[m].key = h[m].key /\ k[m].value = h[m].value
         /\ \A m \in NodeOrEOT \ Below(h, n) : k[m] = h[m]
         /\ k[n].level = h[n].level
         /\ k[r].level = h[n].level + 1 /\ k[k[r].right].level = h[n].level
<1>a. SUFFICES ASSUME NEW k, NEW r, k = split(h, n).heap /\ r = split(h, n).root
      PROVE
         /\ HeapOK(k) /\ r \in Node /\ Good(k, r) /\ Below(k, r) = Below(h, n)
         /\ \A m \in NodeOrEOT : k[m].key = h[m].key /\ k[m].value = h[m].value
         /\ \A m \in NodeOrEOT \ Below(h, n) : k[m] = h[m]
         /\ k[n].level = h[n].level
         /\ k[r].level = h[n].level + 1 /\ k[k[r].right].level = h[n].level
  OBVIOUS
<1> DEFINE l == h[n].left
           x == h[r].left
           y == h[r].right
           lv == h[n].level
<1>0. lv \in Nat /\ lv >= 1 /\ n \in NodeOrEOT /\ n # EOT
  BY NodeNotEOT DEF HeapOK, SubtreeOf
<1>1. r = h[n].right /\ r \in Node /\ h[l].level = lv - 1 /\ h[r].level = lv /\ h[y].level = lv
  <2>1. r = h[n].right
    BY <1>a DEF split
  <2>2. r \in NodeOrEOT
    BY <2>1, <1>0 DEF HeapOK, SubtreeOf
  <2>3. r # EOT
    BY <1>0, <2>1 DEF HeapOK, Sentinel
  <2> QED BY <2>1, <2>2, <2>3 DEF NodeOrEOT
<1>2. HeapOK(k)
  BY <1>a, SplitHeap
<1>b. k = Raised(h, n, r)
  BY <1>a, <1>1 DEF split, Raised
<1>3. /\ r \in NodeOrEOT /\ r # EOT /\ l \in NodeOrEOT /\ x \in NodeOrEOT /\ y \in NodeOrEOT
  BY <1>0, <1>1, NodeNotEOT DEF HeapOK, SubtreeOf
<1>4. y # EOT /\ y \in Node
  BY <1>0, <1>1, <1>3 DEF HeapOK, Sentinel, NodeOrEOT
<1>5. /\ h[n].key \in Key
      /\ \A m \in Below(h, l) : On(h, m, "left", n)
      /\ \A m \in Below(h, r) : On(h, m, "right", n)
  BY <1>1 DEF Ranked, Sides
<1>6. /\ r \in Below(h, r) /\ Below(h, x) \subseteq Below(h, r) /\ Below(h, y) \subseteq Below(h, r)
      /\ Below(h, n) = {n} \cup Below(h, l) \cup Below(h, r)
      /\ l \in Below(h, l) \cup {EOT} /\ x \in Below(h, x) \cup {EOT} /\ y \in Below(h, y) \cup {EOT}
  BY <1>1, <1>3, BelowNode, BelowClosed
<1>7. /\ Fine(h, r) /\ h[r].key \in Key /\ Good(h, x) /\ Good(h, y) /\ Good(h, l)
      /\ \A m \in Below(h, x) : On(h, m, "left", r)
      /\ \A m \in Below(h, y) : On(h, m, "right", r)
  BY <1>1, <1>6, GoodNode DEF Fine, Ranked, Sides
<1>8. /\ n \notin Below(h, l) /\ n \notin Below(h, r) /\ r \notin Below(h, x) /\ r \notin Below(h, y)
      /\ r \notin Below(h, l)
  <2>1. \A c \in NodeOrEOT : \A at \in Sides : (\A m \in Below(h, c) : On(h, m, at, n)) => n \notin Below(h, c)
    BY <1>5, NotBelow
  <2>2. \A c \in NodeOrEOT : \A at \in Sides : (\A m \in Below(h, c) : On(h, m, at, r)) => r \notin Below(h, c)
    BY <1>1, <1>7, NotBelow
  <2>3. ~On(h, r, "left", n)
    <3>1. On(h, r, "right", n)
      BY <1>5, <1>6
    <3> QED BY <1>5, <1>7, <3>1, OnTurn DEF Sides, Other
  <2> QED BY <1>3, <1>5, <1>7, <2>1, <2>2, <2>3 DEF Sides
<1>9. h[x].level = lv - 1 /\ (x = EOT \/ h[h[x].right].level <= lv - 1) /\ h[h[y].right].level <= lv
      /\ (x = EOT \/ h[x].right \in Below(h, x) \cup {EOT}) /\ h[y].right \in Below(h, y) \cup {EOT}
  <2>1. h[x].level = lv - 1
    BY <1>1, <1>7 DEF Fine, Balanced, LevelsFit
  <2>2. LevelsFit(h, y) /\ y \in Below(h, y)
    BY <1>4, <1>7, BelowNode DEF Good, Fine, Balanced
  <2>3. x = EOT \/ (LevelsFit(h, x) /\ x \in Below(h, x))
    <3>1. x = EOT \/ x \in Below(h, x)
      BY <1>6
    <3>2. x \in Below(h, x) => Fine(h, x)
      BY <1>7 DEF Good
    <3>3. x \in Below(h, x) => LevelsFit(h, x)
      BY <3>2 DEF Fine, Balanced
    <3> QED BY <3>1, <3>3
  <2>4. h[y].right \in Below(h, y) \cup {EOT}
    BY <1>3, <2>2, ChildBelow
  <2>5. x = EOT \/ h[x].right \in Below(h, x) \cup {EOT}
    BY <1>3, <2>3, ChildBelow
  <2>6. h[h[y].right].level <= lv
    <3>1. h[h[y].right].level \in {h[y].level - 1, h[y].level}
      BY <2>2 DEF LevelsFit
    <3> QED BY <1>0, <1>1, <3>1
  <2>7. x = EOT \/ h[h[x].right].level <= lv - 1
    <3>1. x = EOT \/ h[h[x].right].level \in {h[x].level - 1, h[x].level}
      BY <2>3 DEF LevelsFit
    <3> QED BY <1>0, <2>1, <3>1
  <2> QED BY <2>1, <2>4, <2>5, <2>6, <2>7
<1> HIDE DEF l, x, y
<1>10. /\ l # n /\ r # n /\ x # n /\ y # n /\ x # r /\ y # r /\ l # r
  BY <1>0, <1>3, <1>6, <1>8
<1>11. /\ \A m \in NodeOrEOT : m # n /\ m # r => k[m] = h[m]
       /\ \A m \in NodeOrEOT : k[m].key = h[m].key /\ k[m].value = h[m].value
       /\ k[n].left = l /\ k[n].right = x /\ k[n].level = lv
       /\ k[r].left = n /\ k[r].right = y /\ k[r].level = lv + 1
       /\ k[n].nnode = h[l].nnode + 1 + h[x].nnode
       /\ k[r].nnode = k[n].nnode + 1 + h[y].nnode
  <2>1. h[n].left # n /\ h[n].left # r /\ h[r].left # n /\ h[r].left # r /\ h[r].right # n /\ h[r].right # r
    BY <1>10 DEF l, x, y
  <2>2. /\ \A m \in NodeOrEOT : m # n /\ m # r => k[m] = h[m]
        /\ \A m \in NodeOrEOT : k[m].key = h[m].key /\ k[m].value = h[m].value
        /\ k[n].left = h[n].left /\ k[n].right = h[r].left /\ k[n].level = h[n].level
        /\ k[r].left = n /\ k[r].right = h[r].right /\ k[r].level = h[r].level + 1
        /\ k[n].nnode = h[h[n].left].nnode + 1 + h[h[r].left].nnode
        /\ k[r].nnode = k[n].nnode + 1 + h[h[r].right].nnode
    BY <1>1, <1>b, <1>10, <2>1, RotatedLeft
  <2> QED BY <1>1, <2>2 DEF l, x, y
<1>12. \A m \in Below(h, l) \cup Below(h, x) \cup Below(h, y) \cup {EOT} : k[m] = h[m]
  <2>1. Below(h, l) \cup Below(h, x) \cup Below(h, y) \cup {EOT} \subseteq NodeOrEOT
    BY <1>3, BelowClosed DEF NodeOrEOT
  <2> QED BY <1>0, <1>3, <1>6, <1>8, <1>11, <2>1
<1>13. /\ Below(k, l) = Below(h, l) /\ Good(k, l) /\ k[l] = h[l]
       /\ Below(k, x) = Below(h, x) /\ Good(k, x) /\ k[x] = h[x]
       /\ Ranked(k, n) /\ Counted(k, n)
       /\ Below(k, n) = {n} \cup Below(h, l) \cup Below(h, x)
  <2>1. \A m \in Below(h, l) \cup Below(h, x) : k[m] = h[m]
    BY <1>12
  <2>2. \A m \in Below(h, x) : On(h, m, "right", n)
    BY <1>5, <1>6
  <2>3. k[n].key = h[n].key
    BY <1>0, <1>11
  <2> QED BY <1>2, <1>3, <1>5, <1>7, <1>11, <2>1, <2>2, <2>3, LinkedGood
<1>14. Balanced(k, n)
  <2>1. k[l].level = lv - 1 /\ k[x].level = lv - 1
    BY <1>1, <1>9, <1>13
  <2>2. k[k[x].right].level < lv
    <3>1. CASE x = EOT
      BY <1>0, <1>2, <3>1 DEF HeapOK, Sentinel
    <3>2. CASE x # EOT
      <4>1. h[x].right \in NodeOrEOT /\ h[h[x].right].level \in Nat
        BY <1>3 DEF HeapOK, SubtreeOf
      <4>2. k[k[x].right].level = h[h[x].right].level
        BY <1>9, <1>12, <1>13, <3>2
      <4> QED BY <1>0, <1>9, <3>2, <4>1, <4>2
    <3> QED BY <3>1, <3>2
  <2> QED BY <1>11, <2>1, <2>2 DEF Balanced, LevelsFit, NoDoubleRight
<1>15. Good(k, n)
  BY <1>2, <1>11, <1>13, <1>14, GoodNode DEF Fine
<1>16. Below(k, y) = Below(h, y) /\ Good(k, y) /\ k[y] = h[y]
  <2>1. \A m \in Below(h, y) : k[m] = h[m]
    BY <1>12
  <2> QED BY <1>2, <1>3, <1>7, <2>1, GoodSame
<1>17. Ranked(k, r)
  <2>1. \A m \in Below(h, l) \cup Below(h, x) \cup {n} : On(h, m, "left", r)
    <3>1. On(h, n, "left", r)
      <4>1. On(h, r, "right", n)
        BY <1>5, <1>6
      <4> QED BY <1>5, <1>7, <4>1, OnTurn DEF Sides, Other
    <3>2. ASSUME NEW m \in Below(h, l) PROVE On(h, m, "left", r)
      <4>1. h[m].key \in Key
        BY <1>3, <1>7, GoodBelow
      <4> QED BY <1>5, <1>7, <3>1, <4>1, OnTrans DEF Sides
    <3> QED BY <1>7, <3>1, <3>2
  <2>2. \A m \in NodeOrEOT : k[m].key = h[m].key
    BY <1>11
  <2>3. Below(k, n) \cup Below(k, y) \subseteq NodeOrEOT
    BY <1>0, <1>2, <1>3, BelowClosed DEF NodeOrEOT
  <2>4. \A m \in Below(k, n) : On(k, m, "left", r)
    BY <1>3, <1>13, <2>1, <2>2, <2>3 DEF On
  <2>5. \A m \in Below(k, y) : On(k, m, "right", r)
    BY <1>3, <1>7, <1>16, <2>2, <2>3 DEF On
  <2> QED BY <1>3, <1>7, <1>11, <2>4, <2>5 DEF Ranked, Sides
<1>18. Balanced(k, r) /\ Counted(k, r)
  <2>1. k[k[y].right].level <= lv
    BY <1>9, <1>12, <1>16
  <2>2. h[y].right \in NodeOrEOT /\ h[h[y].right].level \in Nat
    BY <1>3 DEF HeapOK, SubtreeOf
  <2>3. k[k[y].right].level = h[h[y].right].level
    BY <1>9, <1>12, <1>16
  <2>4. k[y].level = lv
    BY <1>1, <1>16 DEF y
  <2>5. k[k[r].right].level = lv /\ k[k[r].left].level = lv /\ k[k[k[r].right].right].level < lv + 1
    BY <1>0, <1>9, <1>11, <2>2, <2>3, <2>4
  <2>6. Counted(k, r)
    BY <1>11, <1>16 DEF Counted
  <2> QED BY <1>0, <1>11, <2>5, <2>6 DEF Balanced, LevelsFit, NoDoubleRight
<1>19. Good(k, r)
  BY <1>1, <1>2, <1>11, <1>15, <1>16, <1>17, <1>18, GoodNode DEF Fine
<1>20. Below(k, r) = Below(h, n)
  <2>1. Below(k, r) = {r} \cup Below(k, n) \cup Below(k, y)
    BY <1>1, <1>2, <1>11, BelowNode
  <2>2. Below(h, r) = {r} \cup Below(h, x) \cup Below(h, y)
    BY <1>1, BelowNode DEF x, y
  <2> QED BY <1>6, <1>13, <1>16, <2>1, <2>2
<1>21. \A m \in NodeOrEOT \ Below(h, n) : k[m] = h[m]
  BY <1>6, <1>11
<1>22. k[k[r].right].level = lv
  BY <1>1, <1>11, <1>16 DEF y
<1> QED BY <1>1, <1>2, <1>11, <1>19, <1>20, <1>21, <1>22

LEMMA SkewIdle ==
  ASSUME NEW h, NEW n, h[h[n].left].level # h[n].level
  PROVE  skew(h, n).heap = h /\ skew(h, n).root = n
BY DEF skew

LEMMA SplitIdle ==
  ASSUME NEW h, HeapOK(h), NEW n \in Node, NoDoubleRight(h, n)
  PROVE  split(h, n).heap = h /\ split(h, n).root = n
<1>1. h[n].level \in Nat /\ h[h[h[n].right].right].level \in Nat
  BY NodeNotEOT DEF HeapOK, SubtreeOf
<1>2. h[h[h[n].right].right].level # h[n].level
  BY <1>1 DEF NoDoubleRight
<1> QED BY <1>2 DEF split

\* How the level of the subtree c that comes back to a node compares with
\* that of the one it replaces: it may have come up by one, and then has no
\* right edge on its level. It never comes up above the node on the right.
Returned(h, n, at, c) ==
  LET was == h[n][at] IN
    /\ \/ h[c].level = h[was].level
       \/ h[c].level = h[was].level + 1 /\ h[h[c].right].level = h[was].level
    /\ at = "right" => h[c].level <= h[n].level

\* What a suspended put does to its subtree when a good one comes back.
Unwound(h, n, at, c) ==
  LET skewed == skew(Hung(h, n, at, c), n)
  IN  split(skewed.heap, skewed.root)

LEMMA UnwoundGood ==
  ASSUME NEW h, HeapOK(h), NEW n \in Node, h[n].key \in Key, NEW at \in Sides,
         NEW c \in NodeOrEOT, Good(h, c), \A m \in Below(h, c) : On(h, m, at, n),
         NEW o \in NodeOrEOT, o = h[n][Other(at)],
         Good(h, o), \A m \in Below(h, o) : On(h, m, Other(at), n),
         LevelsFit(h, n), at = "left" => NoDoubleRight(h, n), Returned(h, n, at, c)
  PROVE  \A k, root : k = Unwound(h, n, at, c).heap /\ root = Unwound(h, n, at, c).root =>
         /\ HeapOK(k) /\ root \in Node /\ Good(k, root)
         /\ Below(k, root) \subseteq {n} \cup Below(h, c) \cup Below(h, o)
         /\ at = "right" => Below(k, root) = {n} \cup Below(h, c) \cup Below(h, o)
         /\ \A m \in NodeOrEOT : k[m].key = h[m].key /\ k[m].value = h[m].value
         /\ \A m \in NodeOrEOT \ ({n} \cup Below(h, c) \cup Below(h, o)) : k[m] = h[m]
         /\ k[n].level = h[n].level
         /\ \/ k[root].level = h[n].level
            \/ /\ at = "right" /\ h[h[n].right].level = h[n].level
               /\ k[root].level = h[n].level + 1 /\ k[k[root].right].level = h[n].level
<1>a. SUFFICES ASSUME NEW k, NEW root,
                      k = Unwound(h, n, at, c).heap /\ root = Unwound(h, n, at, c).root
               PROVE
         /\ HeapOK(k) /\ root \in Node /\ Good(k, root)
         /\ Below(k, root) \subseteq {n} \cup Below(h, c) \cup Below(h, o)
         /\ at = "right" => Below(k, root) = {n} \cup Below(h, c) \cup Below(h, o)
         /\ \A m \in NodeOrEOT : k[m].key = h[m].key /\ k[m].value = h[m].value
         /\ \A m \in NodeOrEOT \ ({n} \cup Below(h, c) \cup Below(h, o)) : k[m] = h[m]
         /\ k[n].level = h[n].level
         /\ \/ k[root].level = h[n].level
            \/ /\ at = "right" /\ h[h[n].right].level = h[n].level
               /\ k[root].level = h[n].level + 1 /\ k[k[root].right].level = h[n].level
  OBVIOUS
<1> DEFINE lv == h[n].level
           l == IF at = "left" THEN c ELSE h[n].left
           r == IF at = "right" THEN c ELSE h[n].right
<1>b. PICK k1 : k1 = Hung(h, n, at, c)
  OBVIOUS
<1>c. PICK k2, root2 : k2 = skew(k1, n).heap /\ root2 = skew(k1, n).root
  OBVIOUS
<1>d. k = split(k2, root2).heap /\ root = split(k2, root2).root
  BY <1>a, <1>b, <1>c DEF Unwound
<1>1. /\ lv \in Nat /\ lv >= 1 /\ n \in NodeOrEOT /\ n # EOT /\ Other(at) \in Sides
      /\ l \in NodeOrEOT /\ r \in NodeOrEOT
      /\ h[n].left \in NodeOrEOT /\ h[n].right \in NodeOrEOT
      /\ h[EOT].level = 0 /\ h[EOT].right = EOT
  BY NodeNotEOT DEF HeapOK, SubtreeOf, Sides, Other, Sentinel
<1>2. (at = "left" /\ l = c /\ r = o /\ r = h[n].right) \/ (at = "right" /\ r = c /\ l = o /\ l = h[n].left)
  BY DEF Sides, Other
<1>3. /\ Good(h, l) /\ \A m \in Below(h, l) : On(h, m, "left", n)
      /\ Good(h, r) /\ \A m \in Below(h, r) : On(h, m, "right", n)
      /\ {n} \cup Below(h, l) \cup Below(h, r) = {n} \cup Below(h, c) \cup Below(h, o)
  BY <1>2 DEF Other
<1>4. \A e \in NodeOrEOT : \A side \in Sides :
        (\A m \in Below(h, e) : On(h, m, side, n)) => n \notin Below(h, e) /\ n # e
  BY NotBelow
<1>5. n \notin Below(h, l) /\ n \notin Below(h, r) /\ n # l /\ n # r /\ n # c /\ n # o
  BY <1>1, <1>2, <1>3, <1>4 DEF Sides
<1> HIDE DEF l, r
<1>6. /\ HeapOK(k1)
      /\ \A m \in NodeOrEOT : m # n => k1[m] = h[m]
      /\ k1[n].key = h[n].key /\ k1[n].value = h[n].value /\ k1[n].level = h[n].level
      /\ k1[n].left = l /\ k1[n].right = r
      /\ k1[n].nnode = h[l].nnode + 1 + h[r].nnode
  <2>1. h[n][Other(at)] # n
    BY <1>5
  <2> DEFINE Linked(e) ==
        /\ HeapOK(e)
        /\ \A m \in NodeOrEOT : m # n => e[m] = h[m]
        /\ e[n].key = h[n].key /\ e[n].value = h[n].value /\ e[n].level = h[n].level
        /\ e[n].left = IF at = "left" THEN c ELSE h[n].left
        /\ e[n].right = IF at = "right" THEN c ELSE h[n].right
        /\ e[n].nnode = h[e[n].left].nnode + 1 + h[e[n].right].nnode
  <2>2. \A e : e = Hung(h, n, at, c) => Linked(e)
    BY <1>5, <2>1, LinkFields
  <2>4. Linked(k1)
    <3> HIDE DEF Linked
    <3> QED BY <1>b, <2>2
  <2>3. k1[n].left = l /\ k1[n].right = r
    BY <2>4 DEF l, r
  <2> QED BY <2>3, <2>4
<1>7. /\ Below(k1, l) = Below(h, l) /\ Good(k1, l) /\ k1[l] = h[l]
      /\ Below(k1, r) = Below(h, r) /\ Good(k1, r) /\ k1[r] = h[r]
      /\ Ranked(k1, n) /\ Counted(k1, n)
      /\ Below(k1, n) = {n} \cup Below(h, c) \cup Below(h, o)
  <2>1. Below(h, l) \cup Below(h, r) \subseteq NodeOrEOT
    BY <1>1, BelowClosed DEF NodeOrEOT
  <2>2. \A m \in Below(h, l) \cup Below(h, r) : k1[m] = h[m]
    BY <1>5, <1>6, <2>1
  <2>3. k1[n].key = h[n].key
    BY <1>6
  <2>4. /\ Below(k1, l) = Below(h, l) /\ Good(k1, l) /\ k1[l] = h[l]
        /\ Below(k1, r) = Below(h, r) /\ Good(k1, r) /\ k1[r] = h[r]
        /\ Ranked(k1, n) /\ Counted(k1, n)
        /\ Below(k1, n) = {n} \cup Below(h, l) \cup Below(h, r)
    BY <1>1, <1>3, <1>6, <2>2, <2>3, LinkedGood
  <2> QED BY <1>3, <2>4
<1>8. \A m \in NodeOrEOT : k1[m].level = h[m].level /\ h[m].level \in Nat /\ h[m].right \in NodeOrEOT
  BY <1>1, <1>6 DEF HeapOK, SubtreeOf
<1>9. k1[k1[k1[n].right].right].level = h[h[r].right].level
  BY <1>1, <1>6, <1>7, <1>8
<1>10. \A e \in {l, r} : h[h[e].right].level <= h[e].level
  <2> TAKE e \in {l, r}
  <2>1. CASE e = EOT
    BY <1>1, <2>1
  <2>2. CASE e # EOT
    <3>1. e \in NodeOrEOT /\ Good(h, e)
      BY <1>1, <1>3
    <3>2. e \in Below(h, e)
      BY <2>2, <3>1, BelowClosed
    <3>3. LevelsFit(h, e)
      BY <3>1, <3>2, GoodBelow DEF Fine, Balanced
    <3> QED BY <1>8, <3>1, <3>3 DEF LevelsFit
  <2> QED BY <2>1, <2>2
<1>11. h[h[n].left].level = lv - 1 /\ h[h[n].right].level \in {lv - 1, lv}
  BY DEF LevelsFit
\* The node stays the root.
<1>12. CASE h[l].level = lv - 1 /\ h[r].level \in {lv - 1, lv} /\ h[h[r].right].level < lv
  <2>1. NoDoubleRight(k1, n) /\ k1[k1[n].left].level # k1[n].level
    BY <1>1, <1>6, <1>7, <1>9, <1>12 DEF NoDoubleRight
  <2>2. k2 = k1 /\ root2 = n
    BY <1>c, <2>1, SkewIdle
  <2>3. k = k1 /\ root = n
    BY <1>d, <1>6, <2>1, <2>2, SplitIdle
  <2>4. Balanced(k1, n)
    BY <1>6, <1>7, <1>12, <2>1 DEF Balanced, LevelsFit
  <2>5. Good(k1, n)
    BY <1>6, <1>7, <2>4, GoodNode DEF Fine
  <2>6. \A m \in NodeOrEOT : k1[m].key = h[m].key /\ k1[m].value = h[m].value
    BY <1>6
  <2> QED BY <1>6, <1>7, <2>3, <2>5, <2>6
\* The left child came up.
<1>13. CASE at = "left" /\ h[l].level = lv /\ h[h[l].right].level = lv - 1
  <2>1. h[r].level \in {lv - 1, lv} /\ h[h[r].right].level < lv
    BY <1>2, <1>11, <1>13 DEF NoDoubleRight
  <2>2. /\ k1[k1[n].left].level = k1[n].level /\ k1[k1[k1[n].left].right].level = k1[n].level - 1
        /\ k1[k1[n].right].level \in {k1[n].level - 1, k1[n].level} /\ NoDoubleRight(k1, n)
    BY <1>1, <1>6, <1>7, <1>8, <1>9, <1>13, <2>1 DEF NoDoubleRight
  <2>3. /\ HeapOK(k2) /\ Good(k2, n) /\ Below(k2, n) \subseteq Below(k1, n)
        /\ \A m \in NodeOrEOT : k2[m].key = k1[m].key /\ k2[m].value = k1[m].value /\ k2[m].level = k1[m].level
        /\ \A m \in NodeOrEOT \ Below(k1, n) : k2[m] = k1[m]
    BY <1>c, <1>6, <1>7, <2>2, SkewGood
  <2>4. NoDoubleRight(k2, n)
    <3>1. n \in Below(k2, n)
      BY <2>3, BelowNode
    <3> QED BY <2>3, <3>1 DEF Good, Fine, Balanced
  <2>5. root2 = n
    BY <1>c DEF skew
  <2>6. k = k2 /\ root = n
    BY <1>d, <2>3, <2>4, <2>5, SplitIdle
  <2>7. \A m \in NodeOrEOT : k2[m].key = h[m].key /\ k2[m].value = h[m].value /\ k2[m].level = h[m].level
    BY <1>6, <1>8, <2>3
  <2>8. \A m \in NodeOrEOT \ Below(k1, n) : k2[m] = h[m]
    <3>1. n \in Below(k1, n)
      BY <1>7
    <3> QED BY <1>6, <2>3, <3>1
  <2> QED BY <1>1, <1>7, <1>13, <2>3, <2>6, <2>7, <2>8
\* Two right edges on the level of the node.
<1>14. CASE at = "right" /\ h[r].level = lv /\ h[h[r].right].level = lv
  <2>1. /\ k1[k1[n].left].level = k1[n].level - 1 /\ k1[k1[n].right].level = k1[n].level
        /\ k1[k1[k1[n].right].right].level = k1[n].level
    BY <1>2, <1>6, <1>7, <1>9, <1>11, <1>14
  <2>2. k2 = k1 /\ root2 = n
    <3>1. k1[k1[n].left].level # k1[n].level
      BY <1>1, <1>6, <2>1
    <3> QED BY <1>c, <3>1, SkewIdle
  <2>3. Good(k1, k1[n].left) /\ Good(k1, k1[n].right)
    BY <1>6, <1>7
  <2>4. k = split(k1, n).heap /\ root = split(k1, n).root
    BY <1>d, <2>2
  <2>5. /\ HeapOK(k) /\ root \in Node /\ Good(k, root) /\ Below(k, root) = Below(k1, n)
        /\ \A m \in NodeOrEOT : k[m].key = k1[m].key /\ k[m].value = k1[m].value
        /\ \A m \in NodeOrEOT \ Below(k1, n) : k[m] = k1[m]
        /\ k[n].level = k1[n].level
        /\ k[root].level = k1[n].level + 1 /\ k[k[root].right].level = k1[n].level
    BY <1>6, <1>7, <2>1, <2>3, <2>4, SplitGood
  <2>6. h[h[n].right].level = lv
    <3>1. h[c].level = lv /\ h[h[c].right].level = lv
      BY <1>2, <1>14
    <3> QED BY <1>1, <1>8, <1>11, <1>14, <3>1 DEF Returned
  <2>7. \A m \in NodeOrEOT : k[m].key = h[m].key /\ k[m].value = h[m].value
    BY <1>6, <2>5
  <2>8. \A m \in NodeOrEOT \ Below(k1, n) : k[m] = h[m]
    <3>1. n \in Below(k1, n)
      BY <1>7
    <3> QED BY <1>6, <2>5, <3>1
  <2> QED BY <1>6, <1>7, <1>14, <2>5, <2>6, <2>7, <2>8
<1>15. \/ h[l].level = lv - 1 /\ h[r].level \in {lv - 1, lv} /\ h[h[r].right].level < lv
       \/ at = "left" /\ h[l].level = lv /\ h[h[l].right].level = lv - 1
       \/ at = "right" /\ h[r].level = lv /\ h[h[r].right].level = lv
  <2>1. CASE at = "left"
    <3>1. h[r].level \in {lv - 1, lv} /\ h[h[r].right].level < lv /\ l = c
      BY <1>2, <1>11, <2>1 DEF NoDoubleRight
    <3>2. h[c].level = lv - 1 \/ (h[c].level = lv /\ h[h[c].right].level = lv - 1)
      BY <1>1, <1>8, <1>11, <2>1 DEF Returned
    <3> QED BY <2>1, <3>1, <3>2
  <2>2. CASE at = "right"
    <3>1. h[l].level = lv - 1 /\ r = c
      BY <1>2, <1>11, <2>2
    <3>2. h[r].level \in Nat /\ h[h[r].right].level \in Nat /\ h[h[r].right].level <= h[r].level
      BY <1>1, <1>8, <1>10
    <3>3. h[c].level \in {lv - 1, lv}
      BY <1>1, <1>8, <1>11, <2>2, <3>1, <3>2 DEF Returned
    <3> QED BY <1>1, <2>2, <3>1, <3>2, <3>3
  <2> QED BY <2>1, <2>2 DEF Sides
<1> QED BY <1>12, <1>13, <1>14, <1>15
-----------------------------------------------------------------------------
(***************************************************************************)
(* The tree in order. What the recursive walk, get and select return is    *)
(* proved by induction over the tree: its levels fall on the way down.     *)
(***************************************************************************)
LEMMA LeastNatural ==
  ASSUME NEW T, T \subseteq Nat, T # {}
  PROVE  \E x \in T : \A y \in T : x <= y
<1> DEFINE below(n) == 1 .. n
           S == {below(n) : n \in T}
<1>1. IsWellFoundedOn(StrictSubsetOrdering(Nat), FiniteSubsetsOf(Nat))
  BY FS_StrictSubsetOrderingWellFounded
<1>2. S \subseteq FiniteSubsetsOf(Nat) /\ S # {}
  <2>1. \A n \in T : below(n) \subseteq Nat /\ IsFiniteSet(below(n))
    BY FS_Interval
  <2> QED BY <2>1 DEF FiniteSubsetsOf
<1>3. PICK s \in S : \A r \in S : <<r, s>> \notin StrictSubsetOrdering(Nat)
  <2> HIDE DEF S
  <2> QED BY <1>1, <1>2, WFMin
<1>4. PICK x \in T : s = below(x)
  OBVIOUS
<1>5. ASSUME NEW y \in T, y < x PROVE FALSE
  <2>1. <<below(y), below(x)>> \notin StrictSubsetOrdering(Nat)
    BY <1>3, <1>4
  <2>2. below(y) \subseteq below(x) /\ below(y) # below(x) /\ below(y) \subseteq Nat /\ below(x) \subseteq Nat
    <3>1. x \in below(x) /\ x \notin below(y) /\ x \in Nat /\ y \in Nat
      BY <1>5
    <3> QED BY <3>1, <1>5
  <2> QED BY <2>1, <2>2 DEF StrictSubsetOrdering
<1> QED BY <1>5

\* A right child on the level of its parent has none on its own.
LEMMA GoodInduction ==
  ASSUME NEW h, HeapOK(h), NEW root \in NodeOrEOT, Good(h, root), NEW S, EOT \in S,
         \A n \in Below(h, root) : h[n].left \in S /\ h[n].right \in S => n \in S
  PROVE  Below(h, root) \subseteq S /\ root \in S
<1> DEFINE rank(n) == 2 * h[n].level + (IF h[h[n].right].level = h[n].level THEN 1 ELSE 0)
           T == {rank(n) : n \in Below(h, root) \ S}
<1>1. \A n \in Below(h, root) : /\ n \in Node /\ h[n].level \in Nat /\ Balanced(h, n)
                                /\ h[n].left \in Below(h, root) \cup {EOT}
                                /\ h[n].right \in Below(h, root) \cup {EOT}
  BY GoodBelow, ChildBelow DEF Fine, HeapOK, SubtreeOf, NodeOrEOT
<1>2. \A n \in Below(h, root) : rank(n) \in Nat
  BY <1>1
<1>3. Below(h, root) \subseteq S
  <2> SUFFICES ASSUME T # {} PROVE FALSE
    OBVIOUS
  <2>1. T \subseteq Nat
    BY <1>2
  <2>2. PICK x \in T : \A y \in T : x <= y
    <3> HIDE DEF T
    <3> QED BY <2>1, LeastNatural
  <2>3. PICK n \in Below(h, root) \ S : x = rank(n)
    BY <2>2
  <2>4. ASSUME NEW m \in Below(h, root) \ S, rank(m) < rank(n) PROVE FALSE
    <3>1. rank(m) \in T
      OBVIOUS
    <3>2. rank(n) <= rank(m)
      BY <2>2, <2>3, <3>1
    <3> QED BY <1>2, <2>4, <3>2
  <2>5. h[n].left \in S
    <3> SUFFICES ASSUME NEW m \in Below(h, root) \ S, m = h[n].left PROVE FALSE
      BY <1>1, <2>3
    <3>1. h[m].level = h[n].level - 1 /\ h[m].level \in Nat /\ h[n].level \in Nat
      BY <1>1, <2>3 DEF Balanced, LevelsFit
    <3>2. rank(m) < rank(n)
      BY <3>1
    <3> QED BY <2>4, <3>2
  <2>6. h[n].right \in S
    <3> SUFFICES ASSUME NEW m \in Below(h, root) \ S, m = h[n].right PROVE FALSE
      BY <1>1, <2>3
    <3>1. /\ h[m].level \in {h[n].level - 1, h[n].level} /\ h[m].level \in Nat /\ h[n].level \in Nat
          /\ h[h[m].right].level < h[n].level
      BY <1>1, <2>3 DEF Balanced, LevelsFit, NoDoubleRight
    <3>2. CASE h[m].level = h[n].level - 1
      <4>1. rank(m) < rank(n)
        BY <3>1, <3>2
      <4> QED BY <2>4, <4>1
    <3>3. CASE h[m].level = h[n].level
      <4>1. h[h[m].right].level # h[m].level
        <5>1. h[m].right \in NodeOrEOT
          BY <1>1 DEF HeapOK, SubtreeOf, NodeOrEOT
        <5>2. h[h[m].right].level \in Nat
          BY <5>1 DEF HeapOK, SubtreeOf
        <5> QED BY <3>1, <3>3, <5>2
      <4>2. rank(m) < rank(n)
        BY <3>1, <3>3, <4>1
      <4> QED BY <2>4, <4>2
    <3> QED BY <3>1, <3>2, <3>3
  <2> QED BY <2>3, <2>5, <2>6
<1>4. root \in Below(h, root) \cup {EOT}
  BY BelowClosed
<1> QED BY <1>3, <1>4

\* g is what F makes of a node and of the values of its children, and e of none.
Fold(h, root, V, e, F, g) ==
  /\ g \in [Below(h, root) \cup {EOT} -> V]
  /\ g[EOT] = e
  /\ \A n \in Below(h, root) : g[n] = F[<<n, g[h[n].left], g[h[n].right]>>]
Foldable(V, e, F) == e \in V /\ \A n \in Node, a, b \in V : F[<<n, a, b>>] \in V

\* A function that is defined from the children up exists.
LEMMA Recursion ==
  ASSUME NEW h, HeapOK(h), NEW root \in NodeOrEOT, Good(h, root),
         NEW V, NEW e, NEW F, Foldable(V, e, F)
  PROVE  \E g : Fold(h, root, V, e, F, g)
<1> USE DEF Foldable
<1> DEFINE Solves(r, g) == Fold(h, r, V, e, F, g)
           S == {r \in Below(h, root) \cup {EOT} : \E g : Solves(r, g)}
<1>1. EOT \in S
  <2>1. Solves(EOT, [x \in {EOT} |-> e])
    BY BelowNone DEF Fold
  <2> QED BY <2>1
<1>2. ASSUME NEW n \in Below(h, root), h[n].left \in S, h[n].right \in S PROVE n \in S
  <2> USE DEF Fold
  <2>1. PICK gl : Solves(h[n].left, gl)
    BY <1>2
  <2>2. PICK gr : Solves(h[n].right, gr)
    BY <1>2
  <2>3. /\ n \in Node /\ Fine(h, n) /\ h[n].key \in Key
        /\ h[n].left \in NodeOrEOT /\ h[n].right \in NodeOrEOT
    BY GoodBelow, ChildBelow
  <2>4. Below(h, n) = {n} \cup Below(h, h[n].left) \cup Below(h, h[n].right)
    BY <2>3, BelowNode
  <2>5. /\ n \notin Below(h, h[n].left) /\ n \notin Below(h, h[n].right)
        /\ Below(h, h[n].left) \cap Below(h, h[n].right) = {}
    <3>1. /\ \A m \in Below(h, h[n].left) : compar(h[m].key, h[n].key) < 0
          /\ \A m \in Below(h, h[n].right) : compar(h[m].key, h[n].key) > 0
      BY <2>3 DEF Fine, Ranked, Sides, On
    <3>2. compar(h[n].key, h[n].key) = 0
      BY <2>3, KeyOrder
    <3>3. \A m \in Below(h, h[n].left) \cap Below(h, h[n].right) : compar(h[m].key, h[n].key) \in Int
      <4>1. Below(h, h[n].left) \subseteq Below(h, root)
        BY ChildBelow
      <4>2. \A m \in Below(h, root) : h[m].key \in Key
        BY GoodBelow
      <4> QED BY <2>3, <4>1, <4>2, KeyOrder
    <3> QED BY <3>1, <3>2, <3>3
  <2> DEFINE L == Below(h, h[n].left)
             R == Below(h, h[n].right)
             g == [m \in Below(h, n) \cup {EOT} |->
                     IF m = EOT THEN e
                     ELSE IF m = n THEN F[<<n, gl[h[n].left], gr[h[n].right]>>]
                     ELSE IF m \in L THEN gl[m] ELSE gr[m]]
  <2>6. /\ h[n].left \in L \cup {EOT} /\ h[n].right \in R \cup {EOT}
        /\ L \subseteq Node /\ R \subseteq Node
        /\ \A m \in L : h[m].left \in L \cup {EOT} /\ h[m].right \in L \cup {EOT}
        /\ \A m \in R : h[m].left \in R \cup {EOT} /\ h[m].right \in R \cup {EOT}
    BY <2>3, BelowClosed DEF Closed
  <2>7. /\ \A m \in L \cup {EOT} : g[m] = gl[m]
        /\ \A m \in R \cup {EOT} : g[m] = gr[m]
        /\ g[n] = F[<<n, gl[h[n].left], gr[h[n].right]>>]
    BY <2>1, <2>2, <2>3, <2>4, <2>5, <2>6, NodeNotEOT
  <2>8. gl[h[n].left] \in V /\ gr[h[n].right] \in V
    BY <2>1, <2>2, <2>6
  <2>9. g \in [Below(h, n) \cup {EOT} -> V]
    <3>1. F[<<n, gl[h[n].left], gr[h[n].right]>>] \in V
      BY <2>3, <2>8
    <3>2. \A m \in L : gl[m] \in V
      BY <2>1
    <3>3. \A m \in R : gr[m] \in V
      BY <2>2
    <3> QED BY <2>4, <3>1, <3>2, <3>3
  <2>10. \A m \in L : gl[m] = F[<<m, gl[h[m].left], gl[h[m].right]>>]
    BY <2>1
  <2>11. \A m \in R : gr[m] = F[<<m, gr[h[m].left], gr[h[m].right]>>]
    BY <2>2
  <2>12. g[EOT] = e
    OBVIOUS
  <2> HIDE DEF g, L, R
  <2>13. \A m \in L : g[m] = F[<<m, g[h[m].left], g[h[m].right]>>]
    BY <2>6, <2>7, <2>10
  <2>14. \A m \in R : g[m] = F[<<m, g[h[m].left], g[h[m].right]>>]
    BY <2>6, <2>7, <2>11
  <2>15. g[n] = F[<<n, g[h[n].left], g[h[n].right]>>]
    BY <2>6, <2>7
  <2>16. \A m \in Below(h, n) : g[m] = F[<<m, g[h[m].left], g[h[m].right]>>]
    BY <2>4, <2>13, <2>14, <2>15 DEF L, R
  <2> QED BY <2>9, <2>12, <2>16
<1>3. root \in S
  <2> HIDE DEF S
  <2> QED BY <1>1, <1>2, GoodInduction
<1> QED BY <1>3

\* q is what is below n in order.
Enumerates(h, n, q) ==
  /\ q \in Seq(Node) /\ Len(q) = h[n].nnode
  /\ {q[i] : i \in 1 .. Len(q)} = Below(h, n)
  /\ \A i, j \in 1 .. Len(q) : i < j => compar(h[q[i]].key, h[q[j]].key) < 0

LEMMA Joined ==
  ASSUME NEW S, NEW ql \in Seq(S), NEW n \in S, NEW qr \in Seq(S)
  PROVE  \A q : q = ql \o <<n>> \o qr =>
           /\ q \in Seq(S) /\ Len(q) = Len(ql) + 1 + Len(qr)
           /\ Len(ql) \in Nat /\ Len(qr) \in Nat
           /\ \A i \in 1 .. Len(ql) : q[i] = ql[i]
           /\ q[Len(ql) + 1] = n
           /\ \A i \in 1 .. Len(qr) : q[Len(ql) + 1 + i] = qr[i]
           /\ \A i \in 1 .. Len(q) : \/ i \in 1 .. Len(ql)
                                     \/ i = Len(ql) + 1
                                     \/ /\ i - (Len(ql) + 1) \in 1 .. Len(qr)
                                        /\ q[i] = qr[i - (Len(ql) + 1)]
<1> SUFFICES ASSUME NEW q, q = ql \o <<n>> \o qr
             PROVE  /\ q \in Seq(S) /\ Len(q) = Len(ql) + 1 + Len(qr)
                    /\ Len(ql) \in Nat /\ Len(qr) \in Nat
                    /\ \A i \in 1 .. Len(ql) : q[i] = ql[i]
                    /\ q[Len(ql) + 1] = n
                    /\ \A i \in 1 .. Len(qr) : q[Len(ql) + 1 + i] = qr[i]
                    /\ \A i \in 1 .. Len(q) : \/ i \in 1 .. Len(ql)
                                              \/ i = Len(ql) + 1
                                              \/ /\ i - (Len(ql) + 1) \in 1 .. Len(qr)
                                                 /\ q[i] = qr[i - (Len(ql) + 1)]
  OBVIOUS
<1>1. PICK a : a = ql \o <<n>>
  OBVIOUS
<1>2. /\ a \in Seq(S) /\ Len(a) = Len(ql) + 1 /\ Len(ql) \in Nat
      /\ \A i \in 1 .. Len(ql) : a[i] = ql[i]
      /\ a[Len(ql) + 1] = n
  BY <1>1
<1>3. q = a \o qr
  BY <1>1
<1>4. /\ q \in Seq(S) /\ Len(q) = Len(a) + Len(qr) /\ Len(qr) \in Nat
      /\ \A i \in 1 .. Len(a) : q[i] = a[i]
      /\ \A i \in 1 .. Len(qr) : q[Len(a) + i] = qr[i]
  <2>1. q \in Seq(S) /\ Len(q) = Len(a) + Len(qr) /\ Len(qr) \in Nat
    BY <1>2, <1>3
  <2>2. \A i \in 1 .. Len(a) + Len(qr) : q[i] = IF i <= Len(a) THEN a[i] ELSE qr[i - Len(a)]
    BY <1>2, <1>3
  <2>3. \A i \in 1 .. Len(qr) : Len(a) + i \in 1 .. Len(a) + Len(qr) /\ ~(Len(a) + i <= Len(a)) /\ Len(a) + i - Len(a) = i
    BY <1>2, <2>1
  <2> QED BY <1>2, <2>1, <2>2, <2>3
<1> HIDE DEF Joined
<1>5. /\ \A i \in 1 .. Len(ql) : q[i] = ql[i]
      /\ q[Len(ql) + 1] = n
      /\ \A i \in 1 .. Len(qr) : q[Len(ql) + 1 + i] = qr[i]
  BY <1>2, <1>4
<1>6. ASSUME NEW i \in 1 .. Len(q), i \notin 1 .. Len(ql), i # Len(ql) + 1
      PROVE  i - (Len(ql) + 1) \in 1 .. Len(qr) /\ q[i] = qr[i - (Len(ql) + 1)]
  <2>1. i - (Len(ql) + 1) \in 1 .. Len(qr) /\ i = Len(ql) + 1 + (i - (Len(ql) + 1))
    BY <1>2, <1>4, <1>6
  <2> QED BY <1>5, <2>1
<1> QED BY <1>2, <1>4, <1>5, <1>6

LEMMA EnumeratesNone == ASSUME NEW h, HeapOK(h) PROVE Enumerates(h, EOT, <<>>)
BY BelowNone DEF Enumerates, HeapOK, Sentinel

LEMMA EnumeratesNode ==
  ASSUME NEW h, HeapOK(h), NEW n \in Node, Good(h, n),
         NEW ql, Enumerates(h, h[n].left, ql), NEW qr, Enumerates(h, h[n].right, qr),
         NEW q, q = ql \o <<n>> \o qr
  PROVE  Enumerates(h, n, q)
<1>1. /\ ql \in Seq(Node) /\ Len(ql) = h[h[n].left].nnode
      /\ qr \in Seq(Node) /\ Len(qr) = h[h[n].right].nnode
      /\ {ql[i] : i \in 1 .. Len(ql)} = Below(h, h[n].left)
      /\ {qr[i] : i \in 1 .. Len(qr)} = Below(h, h[n].right)
      /\ \A i, j \in 1 .. Len(ql) : i < j => compar(h[ql[i]].key, h[ql[j]].key) < 0
      /\ \A i, j \in 1 .. Len(qr) : i < j => compar(h[qr[i]].key, h[qr[j]].key) < 0
  BY DEF Enumerates
<1>2. /\ q \in Seq(Node) /\ Len(q) = Len(ql) + 1 + Len(qr)
      /\ Len(ql) \in Nat /\ Len(qr) \in Nat
      /\ \A i \in 1 .. Len(ql) : q[i] = ql[i]
      /\ q[Len(ql) + 1] = n
      /\ \A i \in 1 .. Len(qr) : q[Len(ql) + 1 + i] = qr[i]
      /\ \A i \in 1 .. Len(q) : \/ i \in 1 .. Len(ql)
                                \/ i = Len(ql) + 1
                                \/ /\ i - (Len(ql) + 1) \in 1 .. Len(qr)
                                   /\ q[i] = qr[i - (Len(ql) + 1)]
  <2>1. ql \in Seq(Node) /\ qr \in Seq(Node)
    BY <1>1
  <2>2. q = ql \o <<n>> \o qr
    OBVIOUS
  <2> HIDE <2>2
  <2> QED BY <2>1, <2>2, Joined
<1>3. /\ n \in Below(h, n) /\ Fine(h, n) /\ h[n].key \in Key
      /\ Below(h, n) = {n} \cup Below(h, h[n].left) \cup Below(h, h[n].right)
      /\ \A m \in Below(h, n) : h[m].key \in Key
  BY BelowNode, GoodBelow, NodeNotEOT
<1>4. Len(q) = h[n].nnode
  BY <1>1, <1>2, <1>3 DEF Fine, Counted
<1>5. {q[i] : i \in 1 .. Len(q)} = Below(h, n)
  <2>1. ASSUME NEW i \in 1 .. Len(q) PROVE q[i] \in Below(h, n)
    <3>1. CASE i \in 1 .. Len(ql)
      BY <1>1, <1>2, <1>3, <3>1
    <3>2. CASE i = Len(ql) + 1
      BY <1>2, <1>3, <3>2
    <3>3. CASE i - (Len(ql) + 1) \in 1 .. Len(qr) /\ q[i] = qr[i - (Len(ql) + 1)]
      BY <1>1, <1>3, <3>3
    <3> QED BY <1>2, <3>1, <3>2, <3>3
  <2>2. ASSUME NEW m \in Below(h, n) PROVE \E i \in 1 .. Len(q) : q[i] = m
    <3>1. CASE m = n
      <4>1. Len(ql) + 1 \in 1 .. Len(q)
        BY <1>2
      <4> QED BY <1>2, <3>1, <4>1
    <3>2. CASE m \in Below(h, h[n].left)
      <4>1. PICK i \in 1 .. Len(ql) : m = ql[i]
        BY <1>1, <3>2
      <4>2. i \in 1 .. Len(q)
        BY <1>2
      <4> QED BY <1>2, <4>1, <4>2
    <3>3. CASE m \in Below(h, h[n].right)
      <4>1. PICK i \in 1 .. Len(qr) : m = qr[i]
        BY <1>1, <3>3
      <4>2. Len(ql) + 1 + i \in 1 .. Len(q)
        BY <1>2
      <4> QED BY <1>2, <4>1, <4>2
    <3> QED BY <1>3, <3>1, <3>2, <3>3
  <2> QED BY <2>1, <2>2
<1>6. ASSUME NEW i \in 1 .. Len(q), NEW j \in 1 .. Len(q), i < j
      PROVE  compar(h[q[i]].key, h[q[j]].key) < 0
  <2> DEFINE a == h[q[i]].key
             b == h[q[j]].key
             c == h[n].key
  <2>1. /\ \A m \in Below(h, h[n].left) : compar(h[m].key, c) < 0
        /\ \A m \in Below(h, h[n].right) : compar(h[m].key, c) > 0
    BY <1>3 DEF Fine, Ranked, Sides, On
  <2>2. a \in Key /\ b \in Key /\ c \in Key
    BY <1>3, <1>5
  <2>3. i \in 1 .. Len(ql) => compar(a, c) < 0 /\ q[i] = ql[i]
    BY <1>1, <1>2, <2>1
  <2>4. j \in 1 .. Len(ql) => q[j] = ql[j]
    BY <1>2
  <2>5. j - (Len(ql) + 1) \in 1 .. Len(qr) => compar(b, c) > 0 /\ compar(c, b) < 0 /\ q[j] = qr[j - (Len(ql) + 1)]
    <3> SUFFICES ASSUME j - (Len(ql) + 1) \in 1 .. Len(qr)
                 PROVE  compar(b, c) > 0 /\ compar(c, b) < 0 /\ q[j] = qr[j - (Len(ql) + 1)]
      OBVIOUS
    <3>1. q[j] = qr[j - (Len(ql) + 1)]
      BY <1>2
    <3>2. compar(b, c) > 0
      BY <1>1, <2>1, <3>1
    <3> QED BY <2>2, <3>1, <3>2, KeyOrder
  <2>6. i - (Len(ql) + 1) \in 1 .. Len(qr) => q[i] = qr[i - (Len(ql) + 1)]
    BY <1>2
  <2>7. CASE i \in 1 .. Len(ql) /\ j \in 1 .. Len(ql)
    BY <1>1, <2>3, <2>4, <2>7, <1>6
  <2>8. CASE i \in 1 .. Len(ql) /\ j = Len(ql) + 1
    BY <1>2, <2>3, <2>8
  <2>9. CASE i \in 1 .. Len(ql) /\ j - (Len(ql) + 1) \in 1 .. Len(qr)
    BY <2>2, <2>3, <2>5, <2>9, KeyOrder
  <2>10. CASE i = Len(ql) + 1 /\ j - (Len(ql) + 1) \in 1 .. Len(qr)
    BY <1>2, <2>5, <2>10
  <2>11. CASE i - (Len(ql) + 1) \in 1 .. Len(qr) /\ j - (Len(ql) + 1) \in 1 .. Len(qr)
    <3>1. i - (Len(ql) + 1) < j - (Len(ql) + 1)
      BY <1>2, <1>6
    <3> QED BY <1>1, <2>5, <2>6, <2>11, <3>1
  <2> HIDE DEF a, b, c
  <2>12. i \in Nat /\ j \in Nat /\ Len(ql) \in Nat
    BY <1>2
  <2>13. \/ i \in 1 .. Len(ql)
         \/ i = Len(ql) + 1
         \/ i - (Len(ql) + 1) \in 1 .. Len(qr)
    BY <1>2
  <2>14. \/ j \in 1 .. Len(ql)
         \/ j = Len(ql) + 1
         \/ j - (Len(ql) + 1) \in 1 .. Len(qr)
    BY <1>2
  <2> QED BY <1>2, <1>6, <2>7, <2>8, <2>9, <2>10, <2>11, <2>12, <2>13, <2>14 DEF a, b
<1> QED BY <1>2, <1>4, <1>5, <1>6 DEF Enumerates

\* The function that InOrderFrom calls walk.
Walks(h, root, w) ==
  w = [n \in Below(h, root) \cup {EOT} |->
         IF n = EOT THEN <<>> ELSE w[h[n].left] \o <<n>> \o w[h[n].right]]

LEMMA WalkExists ==
  ASSUME NEW h, HeapOK(h), NEW root \in NodeOrEOT, Good(h, root)
  PROVE  \E w : Walks(h, root, w) /\ InOrderFrom(h, root) = w[root]
<1> DEFINE F == [t \in Node \X Seq(Node) \X Seq(Node) |-> t[2] \o <<t[1]>> \o t[3]]
<1>1. \A n \in Node, a, b \in Seq(Node) : F[<<n, a, b>>] \in Seq(Node)
  OBVIOUS
<1>2. \A n \in Node, a, b \in Seq(Node) : F[<<n, a, b>>] = a \o <<n>> \o b
  OBVIOUS
<1> HIDE DEF F
<1>3. PICK g : Fold(h, root, Seq(Node), <<>>, F, g)
  <2>1. Foldable(Seq(Node), <<>>, F)
    BY <1>1 DEF Foldable
  <2> QED BY <2>1, Recursion
<1>4. Walks(h, root, g)
  <2>1. ASSUME NEW n \in Below(h, root)
        PROVE  n # EOT /\ g[n] = g[h[n].left] \o <<n>> \o g[h[n].right]
    <3>1. n \in Node /\ h[n].left \in Below(h, root) \cup {EOT} /\ h[n].right \in Below(h, root) \cup {EOT}
      BY ChildBelow
    <3>2. g[h[n].left] \in Seq(Node) /\ g[h[n].right] \in Seq(Node)
      BY <1>3, <3>1 DEF Fold
    <3> QED BY <1>2, <1>3, <3>1, <3>2, NodeNotEOT DEF Fold
  <2> QED BY <1>3, <2>1 DEF Walks, Fold
<1>5. PICK w : w = CHOOSE x : Walks(h, root, x)
  OBVIOUS
<1>6. Walks(h, root, w)
  BY <1>4, <1>5
<1>7. InOrderFrom(h, root) = w[root]
  BY <1>5 DEF InOrderFrom, Walks
<1> QED BY <1>6, <1>7

LEMMA WalkStep ==
  ASSUME NEW h, HeapOK(h), NEW root \in NodeOrEOT, NEW w, Walks(h, root, w)
  PROVE  w[EOT] = <<>> /\ \A n \in Below(h, root) : w[n] = w[h[n].left] \o <<n>> \o w[h[n].right]
<1>1. Below(h, root) \subseteq Node
  BY BelowClosed
<1> QED BY <1>1, NodeNotEOT DEF Walks

LEMMA WalkEnumerates ==
  ASSUME NEW h, HeapOK(h), NEW root \in NodeOrEOT, Good(h, root), NEW w, Walks(h, root, w)
  PROVE  \A n \in Below(h, root) \cup {EOT} : Enumerates(h, n, w[n])
<1> DEFINE S == {n \in Below(h, root) \cup {EOT} : Enumerates(h, n, w[n])}
<1>1. EOT \in S
  BY WalkStep, EnumeratesNone
<1>2. ASSUME NEW n \in Below(h, root), h[n].left \in S, h[n].right \in S PROVE n \in S
  <2>1. w[n] = w[h[n].left] \o <<n>> \o w[h[n].right]
    BY WalkStep
  <2>2. n \in Node /\ Good(h, n)
    BY GoodBelow
  <2> QED BY <1>2, <2>1, <2>2, EnumeratesNode
<1>3. Below(h, root) \subseteq S
  <2> HIDE DEF S
  <2> QED BY <1>1, <1>2, GoodInduction
<1> QED BY <1>1, <1>3

LEMMA InOrderEnumerates ==
  ASSUME NEW h, HeapOK(h), NEW root \in NodeOrEOT, Good(h, root)
  PROVE  Enumerates(h, root, InOrderFrom(h, root))
<1>1. root \in Below(h, root) \cup {EOT}
  BY BelowClosed
<1> QED BY <1>1, WalkExists, WalkEnumerates

\* An answer of get, for the pairs of q.
Finds(h, q, key, found) ==
  /\ \A i \in 1 .. Len(q) : compar(key, h[q[i]].key) = 0 =>
       found = [value |-> h[q[i]].value, index |-> i - 1]
  /\ (\A i \in 1 .. Len(q) : compar(key, h[q[i]].key) # 0) => found = NotFound

AnswerOf == [value : Value \cup {NULL}, index : Int]

\* One round of get.
Get(h, key, n, below, above) ==
  IF compar(key, h[n].key) < 0 THEN below
  ELSE LET skipped == h[h[n].left].nnode IN
    IF compar(key, h[n].key) = 0
      THEN [value |-> h[n].value, index |-> skipped]
      ELSE IF above = NotFound THEN NotFound
           ELSE [above EXCEPT !.index = @ + skipped + 1]

LEMMA GetNode ==
  ASSUME NEW h, HeapOK(h), NEW n \in Node, Good(h, n), NEW key \in Key,
         NEW ql, Enumerates(h, h[n].left, ql), NEW qr, Enumerates(h, h[n].right, qr),
         NEW q, q = ql \o <<n>> \o qr,
         NEW below, Finds(h, ql, key, below), NEW above, above \in AnswerOf, Finds(h, qr, key, above)
  PROVE  Finds(h, q, key, Get(h, key, n, below, above))
<1>1. /\ ql \in Seq(Node) /\ Len(ql) = h[h[n].left].nnode
      /\ qr \in Seq(Node)
      /\ {ql[i] : i \in 1 .. Len(ql)} = Below(h, h[n].left)
      /\ {qr[i] : i \in 1 .. Len(qr)} = Below(h, h[n].right)
  BY DEF Enumerates
<1>2. /\ q \in Seq(Node) /\ Len(q) = Len(ql) + 1 + Len(qr)
      /\ Len(ql) \in Nat /\ Len(qr) \in Nat
      /\ \A i \in 1 .. Len(ql) : q[i] = ql[i]
      /\ q[Len(ql) + 1] = n
      /\ \A i \in 1 .. Len(qr) : q[Len(ql) + 1 + i] = qr[i]
      /\ \A i \in 1 .. Len(q) : \/ i \in 1 .. Len(ql)
                                \/ i = Len(ql) + 1
                                \/ /\ i - (Len(ql) + 1) \in 1 .. Len(qr)
                                   /\ q[i] = qr[i - (Len(ql) + 1)]
  <2>1. ql \in Seq(Node) /\ qr \in Seq(Node)
    BY <1>1
  <2>2. q = ql \o <<n>> \o qr
    OBVIOUS
  <2> HIDE <2>2
  <2> QED BY <2>1, <2>2, Joined
<1>3. /\ Fine(h, n) /\ h[n].key \in Key
      /\ \A m \in Below(h, n) : h[m].key \in Key
      /\ Below(h, n) = {n} \cup Below(h, h[n].left) \cup Below(h, h[n].right)
  BY BelowNode, GoodBelow, NodeNotEOT
<1>4. /\ \A m \in Below(h, h[n].left) : h[m].key \in Key /\ compar(h[m].key, h[n].key) < 0
      /\ \A m \in Below(h, h[n].right) : h[m].key \in Key /\ compar(h[m].key, h[n].key) > 0
  BY <1>3 DEF Fine, Ranked, Sides, On
<1>5. /\ \A i \in 1 .. Len(ql) : h[ql[i]].key \in Key /\ compar(h[ql[i]].key, h[n].key) < 0
      /\ \A i \in 1 .. Len(qr) : h[qr[i]].key \in Key /\ compar(h[qr[i]].key, h[n].key) > 0
  BY <1>1, <1>4
<1>6. /\ compar(key, h[n].key) \in Int
      /\ \A k \in Key : compar(k, h[n].key) \in Int
      /\ \A k \in Key : compar(key, k) = 0 =>
           /\ compar(key, h[n].key) < 0 <=> compar(k, h[n].key) < 0
           /\ compar(key, h[n].key) > 0 <=> compar(k, h[n].key) > 0
  BY <1>3, KeyOrder, EqualKeys
<1>7. /\ (\E i \in 1 .. Len(ql) : compar(key, h[ql[i]].key) = 0) => compar(key, h[n].key) < 0
      /\ (\E i \in 1 .. Len(qr) : compar(key, h[qr[i]].key) = 0) => compar(key, h[n].key) > 0
  BY <1>5, <1>6
<1> DEFINE found == Get(h, key, n, below, above)
<1>8. CASE compar(key, h[n].key) < 0
  <2>1. found = below
    BY <1>8 DEF Get
  <2>2. ASSUME NEW i \in 1 .. Len(q), compar(key, h[q[i]].key) = 0
        PROVE  i \in 1 .. Len(ql)
    <3>1. i # Len(ql) + 1
      BY <1>2, <1>8, <2>2
    <3>2. ~ (i - (Len(ql) + 1) \in 1 .. Len(qr) /\ q[i] = qr[i - (Len(ql) + 1)])
      BY <1>6, <1>7, <1>8, <2>2
    <3> QED BY <1>2, <3>1, <3>2
  <2>3. \A i \in 1 .. Len(ql) : i \in 1 .. Len(q)
    BY <1>2
  <2> HIDE DEF found
  <2> QED BY <1>2, <2>1, <2>2, <2>3 DEF Finds, found
<1>9. CASE compar(key, h[n].key) = 0
  <2>1. found = [value |-> h[n].value, index |-> Len(ql)]
    BY <1>1, <1>9 DEF Get
  <2>2. ASSUME NEW i \in 1 .. Len(q), compar(key, h[q[i]].key) = 0
        PROVE  i = Len(ql) + 1
    <3>1. ~ (i - (Len(ql) + 1) \in 1 .. Len(qr) /\ q[i] = qr[i - (Len(ql) + 1)])
      BY <1>7, <1>9, <2>2
    <3>2. i \notin 1 .. Len(ql)
      BY <1>2, <1>7, <1>9, <2>2
    <3> QED BY <1>2, <3>1, <3>2
  <2>3. PICK at \in 1 .. Len(q) : at = Len(ql) + 1
    BY <1>2
  <2>4. q[at] = n /\ at - 1 = Len(ql)
    BY <1>2, <2>3
  <2>5. \A i \in 1 .. Len(q) : compar(key, h[q[i]].key) = 0 => i = at
    BY <2>2, <2>3
  <2>6. compar(key, h[q[at]].key) = 0 /\ found = [value |-> h[q[at]].value, index |-> at - 1]
    BY <1>9, <2>1, <2>4
  <2> HIDE DEF found
  <2> QED BY <2>5, <2>6 DEF Finds, found
<1>10. CASE compar(key, h[n].key) > 0
  <2>0. compar(key, h[n].key) # 0 /\ ~(compar(key, h[n].key) < 0)
    BY <1>6, <1>10
  <2>1. found = IF above = NotFound THEN NotFound ELSE [above EXCEPT !.index = @ + Len(ql) + 1]
    BY <1>1, <2>0 DEF Get
  <2>2. ASSUME NEW i \in 1 .. Len(q), compar(key, h[q[i]].key) = 0
        PROVE  i - (Len(ql) + 1) \in 1 .. Len(qr) /\ q[i] = qr[i - (Len(ql) + 1)]
    <3>1. i # Len(ql) + 1
      BY <1>2, <2>0, <2>2
    <3>2. i \notin 1 .. Len(ql)
      BY <1>2, <1>6, <1>7, <1>10, <2>2
    <3> QED BY <1>2, <3>1, <3>2
  <2>3. ASSUME NEW i \in 1 .. Len(q), compar(key, h[q[i]].key) = 0
        PROVE  found = [value |-> h[q[i]].value, index |-> i - 1]
    <3>1. PICK j \in 1 .. Len(qr) : j = i - (Len(ql) + 1) /\ q[i] = qr[j]
      BY <2>2, <2>3
    <3>2. above = [value |-> h[q[i]].value, index |-> j - 1]
      BY <2>3, <3>1 DEF Finds
    <3>3. above # NotFound
      <4>1. above.index = j - 1 /\ NotFound.index = -1 /\ j - 1 # -1
        BY <1>2, <3>1, <3>2 DEF NotFound
      <4> QED BY <4>1
    <3>4. j - 1 + Len(ql) + 1 = i - 1
      BY <1>2, <3>1
    <3>5. found = [above EXCEPT !.index = @ + Len(ql) + 1]
      BY <2>1, <3>3
    <3>6. found = [value |-> h[q[i]].value, index |-> j - 1 + Len(ql) + 1]
      BY <3>2, <3>5
    <3> HIDE DEF found
    <3> QED BY <3>4, <3>6
  <2>4. ASSUME \A i \in 1 .. Len(q) : compar(key, h[q[i]].key) # 0
        PROVE  found = NotFound
    <3>1. \A i \in 1 .. Len(qr) : Len(ql) + 1 + i \in 1 .. Len(q)
      BY <1>2
    <3>2. ASSUME NEW i \in 1 .. Len(qr) PROVE compar(key, h[qr[i]].key) # 0
      <4>1. PICK j \in 1 .. Len(q) : j = Len(ql) + 1 + i
        BY <3>1
      <4>2. q[j] = qr[i]
        BY <1>2, <4>1
      <4> QED BY <2>4, <4>2
    <3>3. above = NotFound
      BY <3>2 DEF Finds
    <3> QED BY <2>1, <3>3
  <2> HIDE DEF found
  <2> QED BY <2>3, <2>4 DEF Finds, found
<1> QED BY <1>6, <1>8, <1>9, <1>10

LEMMA GetFinds ==
  ASSUME HeapOK(heap), head \in NodeOrEOT, Good(heap, head), NEW key \in Key
  PROVE  Finds(heap, InOrderFrom(heap, head), key, dict_get(key))
<1> DEFINE D == Below(heap, head) \cup {EOT}
           Gets(g) == g = [n \in D |-> IF n = EOT THEN NotFound
                                       ELSE Get(heap, key, n, g[heap[n].left], g[heap[n].right])]
           F == [t \in Node \X AnswerOf \X AnswerOf |-> Get(heap, key, t[1], t[2], t[3])]
<1>1. /\ head \in D /\ D \subseteq NodeOrEOT
      /\ \A n \in Below(heap, head) : /\ n \in Node /\ n # EOT /\ Good(heap, n)
                                      /\ heap[n].left \in D /\ heap[n].right \in D
  BY BelowClosed, ChildBelow, GoodBelow, NodeNotEOT DEF NodeOrEOT
<1>2. NotFound \in AnswerOf
  BY DEF AnswerOf, NotFound
<1>3. \A n \in Node, a, b \in AnswerOf : Get(heap, key, n, a, b) \in AnswerOf
  <2> SUFFICES ASSUME NEW n \in Node, NEW a \in AnswerOf, NEW b \in AnswerOf
               PROVE  Get(heap, key, n, a, b) \in AnswerOf
    OBVIOUS
  <2>1. heap[n].value \in Value \cup {NULL} /\ heap[heap[n].left].nnode \in Nat
    BY NodeNotEOT DEF HeapOK, SubtreeOf
  <2>2. [value |-> heap[n].value, index |-> heap[heap[n].left].nnode] \in AnswerOf
    BY <2>1 DEF AnswerOf
  <2>3. [b EXCEPT !.index = @ + heap[heap[n].left].nnode + 1] \in AnswerOf
    BY <2>1 DEF AnswerOf
  <2> QED BY <1>2, <2>2, <2>3 DEF Get
<1>4. \A n \in Node, a, b \in AnswerOf : F[<<n, a, b>>] = Get(heap, key, n, a, b)
  OBVIOUS
<1> HIDE DEF F
<1>5. PICK g : Fold(heap, head, AnswerOf, NotFound, F, g)
  <2>1. Foldable(AnswerOf, NotFound, F)
    BY <1>2, <1>3, <1>4 DEF Foldable
  <2> QED BY <2>1, Recursion
<1>6. Gets(g)
  <2>1. ASSUME NEW n \in Below(heap, head)
        PROVE  g[n] = Get(heap, key, n, g[heap[n].left], g[heap[n].right])
    <3>1. g[heap[n].left] \in AnswerOf /\ g[heap[n].right] \in AnswerOf
      BY <1>1, <1>5 DEF Fold
    <3> QED BY <1>1, <1>4, <1>5, <3>1 DEF Fold
  <2> QED BY <1>1, <1>5, <2>1 DEF Fold
<1>7. PICK f : f = CHOOSE x : Gets(x)
  OBVIOUS
<1>8. Gets(f)
  BY <1>6, <1>7
<1>9. dict_get(key) = f[head]
  BY <1>7 DEF dict_get, Get
<1>10. f[EOT] = NotFound /\ \A n \in Below(heap, head) :
         f[n] = Get(heap, key, n, f[heap[n].left], f[heap[n].right])
  BY <1>1, <1>8
<1>11. PICK w : Walks(heap, head, w) /\ InOrderFrom(heap, head) = w[head]
  BY WalkExists
<1>12. /\ \A n \in D : Enumerates(heap, n, w[n])
       /\ w[EOT] = <<>> /\ \A n \in Below(heap, head) : w[n] = w[heap[n].left] \o <<n>> \o w[heap[n].right]
  BY <1>11, WalkEnumerates, WalkStep
<1> HIDE DEF D
<1> DEFINE S == {n \in D : f[n] \in AnswerOf /\ Finds(heap, w[n], key, f[n])}
<1>13. EOT \in S
  <2>1. Finds(heap, <<>>, key, NotFound)
    BY DEF Finds
  <2> QED BY <1>2, <1>10, <1>12, <2>1 DEF D
<1>14. ASSUME NEW n \in Below(heap, head), heap[n].left \in S, heap[n].right \in S PROVE n \in S
  <2>1. f[n] \in AnswerOf
    BY <1>1, <1>3, <1>10, <1>14
  <2>2. Finds(heap, w[n], key, Get(heap, key, n, f[heap[n].left], f[heap[n].right]))
    BY <1>1, <1>12, <1>14, GetNode
  <2> QED BY <1>10, <2>1, <2>2 DEF D
<1>15. head \in S
  <2> HIDE DEF S
  <2> QED BY <1>13, <1>14, GoodInduction
<1> QED BY <1>9, <1>11, <1>15

LEMMA GetIsThere ==
  ASSUME HeapOK(heap), head \in NodeOrEOT, Good(heap, head), NEW key \in Key, dict_get(key) # NotFound
  PROVE  \E m \in Below(heap, head) : compar(key, heap[m].key) = 0
<1>1. PICK q : q = InOrderFrom(heap, head)
  OBVIOUS
<1>2. PICK i \in 1 .. Len(q) : compar(key, heap[q[i]].key) = 0
  BY <1>1, GetFinds DEF Finds
<1>3. q[i] \in Below(heap, head)
  BY <1>1, InOrderEnumerates DEF Enumerates
<1> QED BY <1>2, <1>3

\* An answer of select for every index, when the nodes are those of q.
Selects(q, s) == \A j \in Int : s[j] = IF j + 1 \in 1 .. Len(q) THEN q[j + 1] ELSE ESRCH

\* One round of select.
Select(h, n, below, above) ==
  [j \in Int |->
     LET i_head == h[h[n].left].nnode
     IN IF j < i_head THEN below[j] ELSE IF j > i_head THEN above[j - (i_head + 1)] ELSE n]

LEMMA SelectNode ==
  ASSUME NEW h, HeapOK(h), NEW n \in Node,
         NEW ql, Enumerates(h, h[n].left, ql), NEW qr, Enumerates(h, h[n].right, qr),
         NEW q, q = ql \o <<n>> \o qr,
         NEW below, Selects(ql, below), NEW above, Selects(qr, above)
  PROVE  Selects(q, Select(h, n, below, above))
<1>1. /\ ql \in Seq(Node) /\ Len(ql) = h[h[n].left].nnode
      /\ qr \in Seq(Node)
  BY DEF Enumerates
<1>2. /\ q \in Seq(Node) /\ Len(q) = Len(ql) + 1 + Len(qr)
      /\ Len(ql) \in Nat /\ Len(qr) \in Nat
      /\ \A i \in 1 .. Len(ql) : q[i] = ql[i]
      /\ q[Len(ql) + 1] = n
      /\ \A i \in 1 .. Len(qr) : q[Len(ql) + 1 + i] = qr[i]
  <2>1. ql \in Seq(Node) /\ qr \in Seq(Node)
    BY <1>1
  <2>2. q = ql \o <<n>> \o qr
    OBVIOUS
  <2> HIDE <2>2
  <2> QED BY <2>1, <2>2, Joined
<1>3. ASSUME NEW j \in Int
      PROVE  Select(h, n, below, above)[j] = IF j + 1 \in 1 .. Len(q) THEN q[j + 1] ELSE ESRCH
  <2>1. CASE j < Len(ql)
    <3>1. Select(h, n, below, above)[j] = below[j]
      BY <1>1, <2>1 DEF Select
    <3>2. below[j] = IF j + 1 \in 1 .. Len(ql) THEN ql[j + 1] ELSE ESRCH
      BY DEF Selects
    <3>3. j + 1 \in 1 .. Len(ql) <=> j + 1 \in 1 .. Len(q)
      BY <1>2, <2>1
    <3> QED BY <1>2, <3>1, <3>2, <3>3
  <2>2. CASE j > Len(ql)
    <3>1. Select(h, n, below, above)[j] = above[j - (Len(ql) + 1)]
      BY <1>1, <1>2, <2>2 DEF Select
    <3>2. PICK i \in Int : i = j - (Len(ql) + 1)
      <4>1. Len(ql) \in Int
        BY <1>2
      <4>2. j - (Len(ql) + 1) \in Int
        BY <4>1
      <4> QED BY <4>2
    <3>3. above[i] = IF i + 1 \in 1 .. Len(qr) THEN qr[i + 1] ELSE ESRCH
      BY DEF Selects
    <3>4. /\ i + 1 \in 1 .. Len(qr) <=> j + 1 \in 1 .. Len(q)
          /\ Len(ql) + 1 + (i + 1) = j + 1
      BY <1>2, <2>2, <3>2
    <3> QED BY <1>2, <3>1, <3>2, <3>3, <3>4
  <2>3. CASE j = Len(ql)
    <3>1. Select(h, n, below, above)[j] = n
      BY <1>1, <1>2, <2>3 DEF Select
    <3>2. j + 1 \in 1 .. Len(q)
      BY <1>2, <2>3
    <3> QED BY <1>2, <2>3, <3>1, <3>2
  <2> QED BY <1>2, <2>1, <2>2, <2>3
<1> QED BY <1>3 DEF Selects

LEMMA SelectsInOrder ==
  ASSUME HeapOK(heap), head \in NodeOrEOT, Good(heap, head), NEW i \in Int
  PROVE  LET q == InOrderFrom(heap, head)
             j == IF i < 0 THEN i + Len(q) ELSE i
         IN dict_select(i) = IF j + 1 \in 1 .. Len(q) THEN q[j + 1] ELSE ESRCH
<1> DEFINE D == Below(heap, head) \cup {EOT}
           V == [Int -> NodeOrEOT]
           none == [j \in Int |-> EOT]
           F == [t \in Node \X V \X V |-> Select(heap, t[1], t[2], t[3])]
           Selecting(f) == f = [n \in D |-> select_round(n, f)]
<1>1. /\ head \in D /\ D \subseteq NodeOrEOT
      /\ \A n \in Below(heap, head) : /\ n \in Node /\ n # EOT /\ n \in NodeOrEOT /\ n \in D
                                      /\ heap[n].left \in D /\ heap[n].right \in D
                                      /\ heap[heap[n].left].nnode \in Nat
  <2>1. /\ head \in D /\ D \subseteq NodeOrEOT
        /\ \A n \in Below(heap, head) : /\ n \in Node /\ n # EOT /\ n \in NodeOrEOT /\ n \in D
                                        /\ heap[n].left \in D /\ heap[n].right \in D
    BY BelowClosed, ChildBelow, GoodBelow, NodeNotEOT DEF NodeOrEOT
  <2>2. \A n \in NodeOrEOT : heap[n].nnode \in Nat
    BY DEF HeapOK, SubtreeOf
  <2> HIDE DEF D
  <2> QED BY <2>1, <2>2
<1>2. none \in V
  BY DEF NodeOrEOT
<1>3. \A n \in Node, a, b \in V : Select(heap, n, a, b) \in V
  <2>1. \A n \in Node : heap[heap[n].left].nnode \in Int /\ n \in NodeOrEOT
    BY NodeNotEOT DEF HeapOK, SubtreeOf
  <2> QED BY <2>1 DEF Select
<1>4. \A n \in Node, a, b \in V : F[<<n, a, b>>] = Select(heap, n, a, b)
  OBVIOUS
<1>5. \A f : select_round(EOT, f) = none
  BY DEF select_round, ESRCH
<1>6. \A n, f : n # EOT /\ heap[heap[n].left].nnode \in Nat =>
         select_round(n, f) = Select(heap, n, f[heap[n].left], f[heap[n].right])
  <2> SUFFICES ASSUME NEW n, NEW f, n # EOT, NEW i_head \in Nat, i_head = heap[heap[n].left].nnode, NEW j \in Int
               PROVE  select_round(n, f)[j] = IF j < i_head THEN f[heap[n].left][j]
                                       ELSE IF j > i_head THEN f[heap[n].right][j - (i_head + 1)] ELSE n
    BY DEF Select, select_round
  <2> USE DEF select_round
  <2>1. CASE j < i_head
    BY <2>1
  <2>2. CASE j > i_head
    BY <2>2
  <2>3. CASE j = i_head
    BY <2>3
  <2> QED BY <2>1, <2>2, <2>3
<1> HIDE DEF F, none, V
<1>7. PICK g : Fold(heap, head, V, none, F, g)
  <2>1. Foldable(V, none, F)
    BY <1>2, <1>3, <1>4 DEF Foldable
  <2> QED BY <2>1, Recursion
<1>8. Selecting(g)
  <2>1. ASSUME NEW n \in Below(heap, head) PROVE g[n] = select_round(n, g)
    <3>1. g[heap[n].left] \in V /\ g[heap[n].right] \in V
      BY <1>1, <1>7 DEF Fold
    <3>2. g[n] = F[<<n, g[heap[n].left], g[heap[n].right]>>]
      BY <1>7 DEF Fold
    <3>3. g[n] = Select(heap, n, g[heap[n].left], g[heap[n].right])
      BY <1>1, <1>4, <3>1, <3>2
    <3> QED BY <1>1, <1>6, <3>3
  <2> QED BY <1>1, <1>5, <1>7, <2>1 DEF Fold
<1>9. PICK f : f = CHOOSE x : Selecting(x)
  OBVIOUS
<1>10. Selecting(f)
  <2> HIDE DEF Selecting
  <2> QED BY <1>8, <1>9
<1>11. dict_select(i) = f[head][IF i < 0 THEN i + heap[head].nnode ELSE i]
  BY <1>9 DEF dict_select
<1> HIDE <1>9
<1>12. f[EOT] = none /\ \A n \in Below(heap, head) : f[n] = Select(heap, n, f[heap[n].left], f[heap[n].right])
  BY <1>1, <1>5, <1>6, <1>10
<1> HIDE DEF Selecting, D
<1>13. PICK w : Walks(heap, head, w) /\ InOrderFrom(heap, head) = w[head]
  BY WalkExists
<1>14. /\ \A n \in D : Enumerates(heap, n, w[n])
       /\ w[EOT] = <<>> /\ \A n \in Below(heap, head) : w[n] = w[heap[n].left] \o <<n>> \o w[heap[n].right]
  BY <1>13, WalkEnumerates, WalkStep DEF D
<1> DEFINE S == {n \in D : Selects(w[n], f[n])}
<1>15. EOT \in S
  BY <1>12, <1>14 DEF Selects, D, none, ESRCH
<1>16. ASSUME NEW n \in Below(heap, head), heap[n].left \in S, heap[n].right \in S PROVE n \in S
  <2>1. Selects(w[n], Select(heap, n, f[heap[n].left], f[heap[n].right]))
    BY <1>1, <1>14, <1>16, SelectNode
  <2> QED BY <1>1, <1>12, <2>1
<1>17. head \in S
  <2> HIDE DEF S
  <2> QED BY <1>15, <1>16, GoodInduction DEF D
<1>18. Len(w[head]) = heap[head].nnode /\ heap[head].nnode \in Nat
  BY <1>1, <1>14 DEF Enumerates, HeapOK, SubtreeOf
<1>19. PICK j \in Int : j = IF i < 0 THEN i + heap[head].nnode ELSE i
  BY <1>18
<1>20. f[head][j] = IF j + 1 \in 1 .. Len(w[head]) THEN w[head][j + 1] ELSE ESRCH
  BY <1>17 DEF Selects
<1> QED BY <1>11, <1>13, <1>18, <1>19, <1>20
-----------------------------------------------------------------------------
(***************************************************************************)
(* The tree that suspended calls have taken apart.                         *)
(***************************************************************************)
\* The frames of a dict_put or a dict_destroy. A traversal changes nothing, so
\* its frames hold nothing.
Suspended(st) == {i \in DOMAIN st : st[i].fn # "each"}

\* The subtree that a suspended call has on the side it did not go down. The
\* left side of a node is gone when its destruction comes to the right one.
Aside(h, f) == IF f.fn = "put" \/ f.at = "left" THEN h[f.node][Other(f.at)] ELSE EOT
Kept(h, f) == Below(h, Aside(h, f))

\* A frame around the subtree c: it has c on one side, what it keeps on the
\* other. f is inside g when g's recursion led to it.
FrameOK(h, c, f) ==
  /\ h[f.node].key \in Key
  /\ Good(h, Aside(h, f))
  /\ \A m \in Below(h, c) : On(h, m, f.at, f.node)
  /\ \A m \in Kept(h, f) : On(h, m, Other(f.at), f.node)
Inside(h, f, g) == \A m \in {f.node} \cup Kept(h, f) : On(h, m, g.at, g.node)

\* The subtree the recursion is at and the frames around it: what settled
\* trees have, in pieces.
Zip(h, c, st) ==
  /\ Good(h, c)
  /\ \A i \in Suspended(st) : FrameOK(h, c, st[i])
  /\ \A i, j \in Suspended(st) : i < j => Inside(h, st[i], st[j])

Held(h, st) == UNION {{st[i].node} \cup Kept(h, st[i]) : i \in Suspended(st)}
Tree(h, c, st) == Below(h, c) \cup Held(h, st)

LEMMA FrameFields ==
  ASSUME NEW h, HeapOK(h), NEW f \in Frame
  PROVE  /\ f.node \in Node /\ f.node \in NodeOrEOT /\ f.at \in Sides
         /\ f.fn \in {"put", "each", "destroy"}
         /\ Other(f.at) \in Sides
         /\ h[f.node].left \in NodeOrEOT /\ h[f.node].right \in NodeOrEOT
         /\ h[f.node][f.at] \in NodeOrEOT /\ h[f.node][Other(f.at)] \in NodeOrEOT
         /\ Aside(h, f) \in NodeOrEOT
<1>1. f.node \in Node /\ f.at \in {"left", "right"} /\ f.fn \in {"put", "each", "destroy"}
  BY DEF Frame
<1>2. f.node \in NodeOrEOT /\ h[f.node].left \in NodeOrEOT /\ h[f.node].right \in NodeOrEOT
  BY <1>1, NodeNotEOT DEF HeapOK, SubtreeOf
<1>3. h[f.node][f.at] \in NodeOrEOT /\ h[f.node][Other(f.at)] \in NodeOrEOT
  BY <1>1, <1>2 DEF Other
<1> QED BY <1>1, <1>2, <1>3 DEF Sides, Other, Aside, NodeOrEOT

LEMMA FrameAt ==
  ASSUME NEW st \in Seq(Frame), NEW i \in DOMAIN st
  PROVE  st[i] \in Frame /\ i \in Nat /\ i >= 1
OBVIOUS

\* t is s with f on top.
Pushed(f, s, t) ==
  /\ t \in Seq(Frame) /\ s \in Seq(Frame) /\ f \in Frame
  /\ 1 \in DOMAIN t /\ t[1] = f
  /\ \A i \in DOMAIN s : i + 1 \in DOMAIN t /\ t[i + 1] = s[i]
  /\ \A i \in DOMAIN t : i # 1 => i - 1 \in DOMAIN s /\ t[i] = s[i - 1]

LEMMA PushedPush ==
  ASSUME NEW s \in Seq(Frame), NEW f \in Frame
  PROVE  \A t : t = <<f>> \o s => Pushed(f, s, t)
<1> SUFFICES ASSUME NEW t, t = <<f>> \o s PROVE Pushed(f, s, t)
  OBVIOUS
<1>1. t \in Seq(Frame)
  BY PushFrame
<1>2. Len(t) = Len(s) + 1 /\ DOMAIN t = 1 .. Len(s) + 1 /\ DOMAIN s = 1 .. Len(s) /\ Len(s) \in Nat
  OBVIOUS
<1>3. \A i \in 1 .. Len(s) + 1 : t[i] = IF i = 1 THEN f ELSE s[i - 1]
  OBVIOUS
<1> QED BY <1>1, <1>2, <1>3 DEF Pushed

LEMMA PushedPop ==
  ASSUME NEW t \in Seq(Frame), t # <<>>
  PROVE  Pushed(Head(t), Tail(t), t)
<1>1. Head(t) \in Frame /\ Tail(t) \in Seq(Frame)
  BY PopFrame
<1>2. Len(t) \in Nat /\ Len(t) >= 1 /\ DOMAIN t = 1 .. Len(t)
      /\ DOMAIN Tail(t) = 1 .. Len(t) - 1 /\ Head(t) = t[1]
  OBVIOUS
<1>3. \A i \in 1 .. Len(t) - 1 : Tail(t)[i] = t[i + 1]
  OBVIOUS
<1> QED BY <1>1, <1>2, <1>3 DEF Pushed

LEMMA SuspendedTop ==
  ASSUME NEW f, NEW s, NEW t, Pushed(f, s, t)
  PROVE  /\ \A i \in Suspended(s) : i \in Nat /\ i >= 1 /\ s[i] \in Frame
         /\ \A i \in Suspended(t) : i \in Nat /\ i >= 1 /\ t[i] \in Frame
         /\ 1 \in Suspended(t) <=> f.fn # "each"
         /\ t[1] = f
         /\ \A i \in Suspended(s) : i + 1 \in Suspended(t) /\ t[i + 1] = s[i]
         /\ \A i \in Suspended(t) : i # 1 => i - 1 \in Suspended(s) /\ t[i] = s[i - 1]
<1>1. \A i \in DOMAIN s : i \in Nat /\ i >= 1 /\ s[i] \in Frame
  BY FrameAt DEF Pushed
<1>2. \A i \in DOMAIN t : i \in Nat /\ i >= 1 /\ t[i] \in Frame
  BY FrameAt DEF Pushed
<1> QED BY <1>1, <1>2 DEF Pushed, Suspended

\* The facts about a stack, those of its top frame set apart.
LEMMA ZipTop ==
  ASSUME NEW f, NEW s, NEW t, Pushed(f, s, t), f.fn # "each", NEW h, NEW c
  PROVE  /\ Zip(h, c, t) <=>
              /\ Good(h, c) /\ FrameOK(h, c, f)
              /\ \A j \in Suspended(s) : FrameOK(h, c, s[j]) /\ Inside(h, f, s[j])
              /\ \A i, j \in Suspended(s) : i < j => Inside(h, s[i], s[j])
         /\ Held(h, t) = {f.node} \cup Kept(h, f) \cup Held(h, s)
<1>1. /\ \A i \in Suspended(s) : i \in Nat /\ i >= 1
      /\ \A i \in Suspended(t) : i \in Nat /\ i >= 1
      /\ 1 \in Suspended(t) /\ t[1] = f
      /\ \A i \in Suspended(s) : i + 1 \in Suspended(t) /\ t[i + 1] = s[i]
      /\ \A i \in Suspended(t) : i # 1 => i - 1 \in Suspended(s) /\ t[i] = s[i - 1]
  BY SuspendedTop
<1>2. Held(h, t) = {f.node} \cup Kept(h, f) \cup Held(h, s)
  BY <1>1 DEF Held
<1>3. ASSUME Zip(h, c, t)
      PROVE  /\ Good(h, c) /\ FrameOK(h, c, f)
             /\ \A j \in Suspended(s) : FrameOK(h, c, s[j]) /\ Inside(h, f, s[j])
             /\ \A i, j \in Suspended(s) : i < j => Inside(h, s[i], s[j])
  <2>1. Good(h, c) /\ FrameOK(h, c, f)
    BY <1>1, <1>3 DEF Zip
  <2>2. \A j \in Suspended(s) : FrameOK(h, c, s[j]) /\ Inside(h, f, s[j])
    <3> TAKE j \in Suspended(s)
    <3>1. j + 1 \in Suspended(t) /\ t[j + 1] = s[j] /\ 1 < j + 1
      BY <1>1
    <3> QED BY <1>1, <1>3, <3>1 DEF Zip
  <2>3. \A i, j \in Suspended(s) : i < j => Inside(h, s[i], s[j])
    <3> SUFFICES ASSUME NEW i \in Suspended(s), NEW j \in Suspended(s), i < j
                 PROVE  Inside(h, s[i], s[j])
      OBVIOUS
    <3>1. /\ i + 1 \in Suspended(t) /\ j + 1 \in Suspended(t) /\ i + 1 < j + 1
          /\ t[i + 1] = s[i] /\ t[j + 1] = s[j]
      BY <1>1
    <3>2. Inside(h, t[i + 1], t[j + 1])
      BY <1>3, <3>1 DEF Zip
    <3> QED BY <3>1, <3>2
  <2> QED BY <2>1, <2>2, <2>3
<1>4. ASSUME /\ Good(h, c) /\ FrameOK(h, c, f)
             /\ \A j \in Suspended(s) : FrameOK(h, c, s[j]) /\ Inside(h, f, s[j])
             /\ \A i, j \in Suspended(s) : i < j => Inside(h, s[i], s[j])
      PROVE  Zip(h, c, t)
  <2>1. \A i \in Suspended(t) : FrameOK(h, c, t[i])
    BY <1>1, <1>4
  <2>2. ASSUME NEW i \in Suspended(t), NEW j \in Suspended(t), i < j
        PROVE  Inside(h, t[i], t[j])
    <3>1. j # 1 /\ j - 1 \in Suspended(s) /\ t[j] = s[j - 1]
      BY <1>1, <2>2
    <3>2. CASE i = 1
      BY <1>1, <1>4, <3>1, <3>2
    <3>3. CASE i # 1
      <4>1. i - 1 \in Suspended(s) /\ t[i] = s[i - 1] /\ i - 1 < j - 1
        BY <1>1, <2>2, <3>3
      <4>2. Inside(h, s[i - 1], s[j - 1])
        BY <1>4, <3>1, <4>1
      <4> QED BY <3>1, <4>1, <4>2
    <3> QED BY <3>2, <3>3
  <2> QED BY <1>4, <2>1, <2>2 DEF Zip
<1> QED BY <1>2, <1>3, <1>4

\* Going down from a node leaves it and its other side with the frame.
LEMMA ZipPush ==
  ASSUME NEW h, HeapOK(h), NEW f, NEW s, NEW t, Pushed(f, s, t), f.fn # "each",
         f.fn = "put" \/ f.at = "left", Zip(h, f.node, s)
  PROVE  /\ Zip(h, h[f.node][f.at], t)
         /\ Tree(h, h[f.node][f.at], t) = Tree(h, f.node, s)
         /\ Fine(h, f.node)
<1>1. f \in Frame
  BY DEF Pushed
<1>2. PICK c : c = h[f.node][f.at]
  OBVIOUS
<1>3. PICK o : o = h[f.node][Other(f.at)]
  OBVIOUS
<1>4. Aside(h, f) = o
  BY <1>3 DEF Aside
<1>5. /\ f.node \in Node /\ f.at \in Sides /\ c \in NodeOrEOT /\ o \in NodeOrEOT
      /\ (f.at = "left" /\ c = h[f.node].left /\ o = h[f.node].right)
         \/ (f.at = "right" /\ c = h[f.node].right /\ o = h[f.node].left)
  BY <1>1, <1>2, <1>3, FrameFields DEF Sides, Other
<1>6. Good(h, f.node)
  BY DEF Zip
<1>7. Fine(h, f.node) /\ Good(h, c) /\ Good(h, o)
  BY <1>5, <1>6, GoodNode
<1>8. /\ h[f.node].key \in Key
      /\ \A m \in Below(h, c) : On(h, m, f.at, f.node)
      /\ \A m \in Below(h, o) : On(h, m, Other(f.at), f.node)
  BY <1>5, <1>7 DEF Fine, Ranked, Sides, Other
<1>9. Below(h, f.node) = {f.node} \cup Below(h, c) \cup Below(h, o)
  BY <1>5, BelowNode
<1>10. FrameOK(h, c, f)
  BY <1>4, <1>7, <1>8 DEF FrameOK, Kept
<1>11. \A j \in Suspended(s) : FrameOK(h, c, s[j]) /\ Inside(h, f, s[j])
  <2> TAKE j \in Suspended(s)
  <2>1. FrameOK(h, f.node, s[j])
    BY DEF Zip
  <2> QED BY <1>4, <1>9, <2>1 DEF FrameOK, Inside, Kept
<1>12. \A i, j \in Suspended(s) : i < j => Inside(h, s[i], s[j])
  BY DEF Zip
<1>13. Zip(h, c, t)
  BY <1>7, <1>10, <1>11, <1>12, ZipTop
<1>14. Held(h, t) = {f.node} \cup Kept(h, f) \cup Held(h, s)
  BY ZipTop
<1>15. Tree(h, c, t) = Tree(h, f.node, s)
  BY <1>4, <1>9, <1>14 DEF Tree, Kept
<1> QED BY <1>2, <1>7, <1>13, <1>15

\* What the frames hold is as it was in a heap that changed elsewhere.
LEMMA ZipSame ==
  ASSUME NEW h, HeapOK(h), NEW k, HeapOK(k), NEW st \in Seq(Frame), NEW c, Zip(h, c, st),
         NEW d \in NodeOrEOT, Good(k, d),
         \A i \in Suspended(st) : k[st[i].node] = h[st[i].node],
         \A i \in Suspended(st) : \A m \in Kept(h, st[i]) : k[m] = h[m],
         \A i \in Suspended(st) : \A m \in Below(k, d) : On(k, m, st[i].at, st[i].node)
  PROVE  /\ Zip(k, d, st)
         /\ \A i \in Suspended(st) : Aside(k, st[i]) = Aside(h, st[i]) /\ Kept(k, st[i]) = Kept(h, st[i])
         /\ Held(k, st) = Held(h, st)
<1>1. ASSUME NEW i \in Suspended(st)
      PROVE  /\ Aside(k, st[i]) = Aside(h, st[i]) /\ Kept(k, st[i]) = Kept(h, st[i])
             /\ FrameOK(k, d, st[i])
  <2>1. st[i] \in Frame
    BY FrameAt DEF Suspended
  <2>2. FrameOK(h, c, st[i])
    BY DEF Zip
  <2>3. Aside(k, st[i]) = Aside(h, st[i]) /\ Aside(h, st[i]) \in NodeOrEOT
    BY <2>1, FrameFields DEF Aside
  <2>4. \A m \in Below(h, Aside(h, st[i])) : k[m] = h[m]
    BY DEF Kept
  <2>5. Good(h, Aside(h, st[i]))
    BY <2>2 DEF FrameOK
  <2>6. Below(k, Aside(h, st[i])) = Below(h, Aside(h, st[i])) /\ Good(k, Aside(h, st[i]))
    BY <2>3, <2>4, <2>5, GoodSame
  <2>7. Kept(k, st[i]) = Kept(h, st[i])
    BY <2>3, <2>6 DEF Kept
  <2>8. \A m \in Kept(k, st[i]) : On(k, m, Other(st[i].at), st[i].node)
    BY <2>2, <2>7 DEF FrameOK, On
  <2>9. k[st[i].node].key \in Key
    BY <2>2 DEF FrameOK
  <2> QED BY <2>3, <2>6, <2>7, <2>8, <2>9 DEF FrameOK
<1>2. ASSUME NEW i \in Suspended(st), NEW j \in Suspended(st), i < j
      PROVE  Inside(k, st[i], st[j])
  <2>1. Inside(h, st[i], st[j])
    BY <1>2 DEF Zip
  <2>2. \A m \in {st[i].node} \cup Kept(h, st[i]) : k[m] = h[m]
    OBVIOUS
  <2> QED BY <1>1, <2>1, <2>2 DEF Inside, On
<1>3. Held(k, st) = Held(h, st)
  BY <1>1 DEF Held
<1> QED BY <1>1, <1>2, <1>3 DEF Zip

\* The frames further out have all of the innermost one, and what the
\* recursion is at, on one side, and what they keep on the other.
LEMMA ZipZone ==
  ASSUME NEW h, HeapOK(h), NEW f, NEW s, NEW t, Pushed(f, s, t), f.fn # "each",
         NEW c \in NodeOrEOT, Zip(h, c, t), NEW j \in Suspended(s)
  PROVE  /\ s[j] \in Frame /\ h[s[j].node].key \in Key
         /\ \A m \in {f.node} \cup Below(h, c) \cup Kept(h, f) :
              h[m].key \in Key /\ On(h, m, s[j].at, s[j].node)
         /\ \A m \in Kept(h, s[j]) : h[m].key \in Key /\ On(h, m, Other(s[j].at), s[j].node)
         /\ s[j].node \notin {f.node} \cup Below(h, c) \cup Kept(h, f)
         /\ Kept(h, s[j]) \cap ({f.node} \cup Below(h, c) \cup Kept(h, f)) = {}
<1>1. /\ Good(h, c) /\ FrameOK(h, c, f)
      /\ FrameOK(h, c, s[j]) /\ Inside(h, f, s[j])
  BY ZipTop
<1>2. f \in Frame /\ s[j] \in Frame
  <2>1. f \in Frame
    BY DEF Pushed
  <2>2. \A i \in Suspended(s) : s[i] \in Frame
    BY SuspendedTop
  <2> QED BY <2>1, <2>2
<1>3. /\ f.node \in Node /\ Aside(h, f) \in NodeOrEOT
      /\ s[j].node \in Node /\ s[j].at \in Sides /\ Aside(h, s[j]) \in NodeOrEOT
  BY <1>2, FrameFields
<1>4. \A m \in Below(h, c) : h[m].key \in Key
  BY <1>1, GoodBelow
<1>5. \A m \in Kept(h, f) : h[m].key \in Key
  BY <1>1, <1>3, GoodBelow DEF Kept, FrameOK
<1>6. \A m \in Kept(h, s[j]) : h[m].key \in Key /\ On(h, m, Other(s[j].at), s[j].node)
  BY <1>1, <1>3, GoodBelow DEF Kept, FrameOK
<1>7. h[f.node].key \in Key /\ h[s[j].node].key \in Key
  BY <1>1 DEF FrameOK
<1>8. \A m \in {f.node} \cup Below(h, c) \cup Kept(h, f) :
              h[m].key \in Key /\ On(h, m, s[j].at, s[j].node)
  BY <1>1, <1>4, <1>5, <1>7 DEF FrameOK, Inside
<1>9. \A m : h[m].key \in Key =>
        /\ ~ (On(h, m, s[j].at, s[j].node) /\ On(h, m, Other(s[j].at), s[j].node))
        /\ On(h, m, s[j].at, s[j].node) => m # s[j].node
  BY <1>3, <1>7, OnTurn
<1> QED BY <1>2, <1>6, <1>7, <1>8, <1>9

\* A step of the innermost frame on its own pieces.
LEMMA ZipPop ==
  ASSUME NEW h, HeapOK(h), NEW f, NEW s, NEW t, Pushed(f, s, t), f.fn # "each",
         NEW c \in NodeOrEOT, Zip(h, c, t), NEW k, HeapOK(k), NEW d \in NodeOrEOT, Good(k, d),
         Below(k, d) \subseteq {f.node} \cup Below(h, c) \cup Kept(h, f),
         \A m \in Below(k, d) : k[m].key = h[m].key,
         \A m \in NodeOrEOT \ ({f.node} \cup Below(h, c) \cup Kept(h, f)) : k[m] = h[m]
  PROVE  /\ Zip(k, d, s)
         /\ \A j \in Suspended(s) : /\ k[s[j].node] = h[s[j].node]
                                    /\ Aside(k, s[j]) = Aside(h, s[j]) /\ Kept(k, s[j]) = Kept(h, s[j])
                                    /\ \A m \in Kept(h, s[j]) : k[m] = h[m]
         /\ Held(k, s) = Held(h, s)
         /\ Tree(k, d, s) \subseteq Tree(h, c, t)
<1> DEFINE zone == {f.node} \cup Below(h, c) \cup Kept(h, f)
<1>1. s \in Seq(Frame)
  BY DEF Pushed
<1>2. /\ Good(h, c) /\ FrameOK(h, c, f)
      /\ \A j \in Suspended(s) : FrameOK(h, c, s[j]) /\ Inside(h, f, s[j])
      /\ \A i, j \in Suspended(s) : i < j => Inside(h, s[i], s[j])
  BY ZipTop
<1>3. Zip(h, c, s)
  BY <1>2 DEF Zip
<1>4. ASSUME NEW j \in Suspended(s)
      PROVE  /\ k[s[j].node] = h[s[j].node]
             /\ \A m \in Kept(h, s[j]) : k[m] = h[m]
             /\ \A m \in Below(k, d) : On(k, m, s[j].at, s[j].node)
  <2>1. /\ s[j] \in Frame
        /\ \A m \in zone : h[m].key \in Key /\ On(h, m, s[j].at, s[j].node)
        /\ s[j].node \notin zone
        /\ Kept(h, s[j]) \cap zone = {}
    BY ZipZone
  <2>2. s[j].node \in NodeOrEOT /\ Aside(h, s[j]) \in NodeOrEOT
    BY <2>1, FrameFields
  <2>3. Kept(h, s[j]) \subseteq NodeOrEOT
    BY <2>2, BelowClosed DEF Kept, NodeOrEOT
  <2>4. k[s[j].node] = h[s[j].node]
    BY <2>1, <2>2
  <2>5. \A m \in Kept(h, s[j]) : k[m] = h[m]
    BY <2>1, <2>3
  <2>6. \A m \in Below(k, d) : On(k, m, s[j].at, s[j].node)
    BY <2>1, <2>4 DEF On
  <2> QED BY <2>4, <2>5, <2>6
<1>5. /\ Zip(k, d, s)
      /\ \A i \in Suspended(s) : Aside(k, s[i]) = Aside(h, s[i]) /\ Kept(k, s[i]) = Kept(h, s[i])
      /\ Held(k, s) = Held(h, s)
  BY <1>1, <1>3, <1>4, ZipSame
<1>6. Tree(k, d, s) \subseteq Tree(h, c, t)
  <2>1. Held(h, t) = {f.node} \cup Kept(h, f) \cup Held(h, s)
    BY ZipTop
  <2> QED BY <1>5, <2>1 DEF Tree
<1> QED BY <1>4, <1>5, <1>6
-----------------------------------------------------------------------------
(***************************************************************************)
(* The nodes on the way to where a put is.                                 *)
(***************************************************************************)
\* A put runs on top of a traversal or alone.
Puts(st) ==
  \A i \in DOMAIN st :
    /\ st[i].fn # "destroy"
    /\ \A j \in DOMAIN st : i < j /\ st[j].fn = "put" => st[i].fn = "put"

\* Each suspended node is a child of the next, on the side that one went down.
Linked(h, st) ==
  \A i \in Suspended(st) :
    i + 1 \in Suspended(st) => h[st[i + 1].node][st[i + 1].at] = st[i].node

\* They are on the levels they were on when the put passed them. Of the
\* innermost it cannot be said that its right child has no right edge on its
\* level, when that is what comes back.
Levels(h, st) ==
  \A i \in Suspended(st) :
    /\ LevelsFit(h, st[i].node)
    /\ i > 1 \/ st[i].at = "left" => NoDoubleRight(h, st[i].node)

\* On the way down, and back up when nothing was inserted, the tree is still
\* linked as it was.
Unchanged(h, c, st, root) ==
  /\ \A i \in Suspended(st) : Balanced(h, st[i].node) /\ Counted(h, st[i].node)
  /\ 1 \in Suspended(st) => h[st[1].node][st[1].at] = c
  /\ 1 \notin Suspended(st) => root = c
  /\ \A i \in Suspended(st) : i + 1 \notin Suspended(st) => root = st[i].node

LEMMA PutFrames ==
  ASSUME NEW f, NEW s, NEW t, Pushed(f, s, t), Puts(t), f.fn # "each"
  PROVE  /\ Puts(s) /\ f.fn = "put"
         /\ \A i \in Suspended(t) : t[i].fn = "put" /\ (i > 1 => i - 1 \in Suspended(t))
         /\ \A i \in Suspended(s) : s[i].fn = "put" /\ i \in Suspended(t)
<1>1. \A i \in DOMAIN t : i \in Nat /\ i >= 1 /\ t[i] \in Frame
  BY FrameAt DEF Pushed
<1>2. \A i \in DOMAIN s : i \in Nat /\ i >= 1 /\ s[i] \in Frame
  BY FrameAt DEF Pushed
<1>3. /\ 1 \in DOMAIN t /\ t[1] = f
      /\ \A i \in DOMAIN s : i + 1 \in DOMAIN t /\ t[i + 1] = s[i]
      /\ \A i \in DOMAIN t : i # 1 => i - 1 \in DOMAIN s /\ t[i] = s[i - 1]
  BY DEF Pushed
<1>4. \A i \in DOMAIN t : t[i].fn = "put" \/ t[i].fn = "each"
  BY <1>1 DEF Puts, Frame
<1>5. f.fn = "put"
  BY <1>3, <1>4
<1>6. Puts(s)
  <2>1. ASSUME NEW i \in DOMAIN s, NEW j \in DOMAIN s, i < j, s[j].fn = "put"
        PROVE  s[i].fn = "put"
    <3>1. i + 1 \in DOMAIN t /\ j + 1 \in DOMAIN t /\ i + 1 < j + 1
      BY <1>2, <1>3, <2>1
    <3>2. t[j + 1].fn = "put" /\ t[i + 1] = s[i]
      BY <1>3, <2>1
    <3>3. t[i + 1].fn = "put"
      BY <3>1, <3>2 DEF Puts
    <3> QED BY <3>2, <3>3
  <2>2. \A i \in DOMAIN s : s[i].fn # "destroy"
    BY <1>3, <1>4
  <2> QED BY <2>1, <2>2 DEF Puts
<1>7. ASSUME NEW i \in Suspended(t)
      PROVE  t[i].fn = "put" /\ (i > 1 => i - 1 \in Suspended(t))
  <2>1. i \in DOMAIN t /\ t[i].fn = "put"
    BY <1>4 DEF Suspended
  <2>2. ASSUME i > 1 PROVE i - 1 \in Suspended(t)
    <3>1. i - 1 \in DOMAIN t
      <4>1. i \in 1 .. Len(t) /\ Len(t) \in Nat
        BY <2>1 DEF Pushed
      <4> QED BY <2>2, <4>1 DEF Pushed
    <3>2. i - 1 < i
      BY <1>1, <2>1
    <3>3. t[i - 1].fn = "put"
      BY <2>1, <3>1, <3>2 DEF Puts
    <3> QED BY <3>1, <3>3 DEF Suspended
  <2> QED BY <2>1, <2>2
<1>8. ASSUME NEW i \in Suspended(s)
      PROVE  s[i].fn = "put" /\ i \in Suspended(t)
  <2>1. i + 1 \in Suspended(t) /\ t[i + 1] = s[i] /\ i \in Nat /\ i >= 1
    BY SuspendedTop
  <2>2. i + 1 > 1 /\ (i + 1) - 1 = i
    BY <2>1
  <2> QED BY <1>7, <2>1, <2>2
<1> QED BY <1>5, <1>6, <1>7, <1>8

\* A child of a node on the way is the next node on the way, or kept by it.
LEMMA PathChild ==
  ASSUME NEW h, HeapOK(h), NEW f, NEW s, NEW t, Pushed(f, s, t), Puts(t), f.fn # "each",
         Linked(h, t), NEW j \in Suspended(s)
  PROVE  /\ s[j].node \in Node /\ s[j].at \in Sides /\ Aside(h, s[j]) = h[s[j].node][Other(s[j].at)]
         /\ h[s[j].node][s[j].at] = t[j].node /\ j \in Suspended(t)
         /\ j # 1 => j - 1 \in Suspended(s) /\ t[j] = s[j - 1]
         /\ Aside(h, s[j]) \in Kept(h, s[j]) \cup {EOT}
         /\ Kept(h, s[j]) \subseteq Node
         /\ \A m \in Kept(h, s[j]) : h[m].right \in Kept(h, s[j]) \cup {EOT}
<1>1. /\ s[j] \in Frame /\ j + 1 \in Suspended(t) /\ t[j + 1] = s[j] /\ j \in Nat /\ j >= 1
      /\ \A i \in Suspended(t) : i # 1 => i - 1 \in Suspended(s) /\ t[i] = s[i - 1]
  BY SuspendedTop
<1>2. s[j].fn = "put" /\ j \in Suspended(t)
  BY PutFrames
<1>3. /\ s[j].node \in Node /\ s[j].at \in Sides /\ Aside(h, s[j]) \in NodeOrEOT
  BY <1>1, FrameFields
<1>4. Aside(h, s[j]) = h[s[j].node][Other(s[j].at)]
  BY <1>2 DEF Aside
<1>5. h[s[j].node][s[j].at] = t[j].node
  <2>1. h[t[j + 1].node][t[j + 1].at] = t[j].node
    BY <1>1, <1>2 DEF Linked
  <2> QED BY <1>1, <2>1
<1>6. j # 1 => j - 1 \in Suspended(s) /\ t[j] = s[j - 1]
  BY <1>1, <1>2
<1>7. /\ Aside(h, s[j]) \in Kept(h, s[j]) \cup {EOT} /\ Kept(h, s[j]) \subseteq Node
      /\ Closed(h, Kept(h, s[j]))
  BY <1>3, BelowClosed DEF Kept
<1> QED BY <1>2, <1>3, <1>4, <1>5, <1>6, <1>7 DEF Closed

\* What the suspended put of the innermost frame makes of a subtree that has
\* come up fits under the next frame again.
LEMMA UnwoundPath ==
  ASSUME NEW h, HeapOK(h), NEW f, NEW s, NEW t, Pushed(f, s, t), Puts(t), f.fn # "each",
         NEW c \in NodeOrEOT, Zip(h, c, t), Linked(h, t), Levels(h, t), Returned(h, f.node, f.at, c)
  PROVE  \A k, root :
           k = Unwound(h, f.node, f.at, c).heap /\ root = Unwound(h, f.node, f.at, c).root =>
           /\ Zip(k, root, s) /\ Tree(k, root, s) \subseteq Tree(h, c, t)
           /\ f.at = "right" => Tree(k, root, s) = Tree(h, c, t)
           /\ \A m \in NodeOrEOT : k[m].key = h[m].key /\ k[m].value = h[m].value
           /\ Linked(k, s) /\ Levels(k, s)
           /\ 1 \in Suspended(s) => Returned(k, s[1].node, s[1].at, root)
<1>a. SUFFICES ASSUME NEW k, NEW root,
                      /\ k = Unwound(h, f.node, f.at, c).heap
                      /\ root = Unwound(h, f.node, f.at, c).root
      PROVE
           /\ Zip(k, root, s) /\ Tree(k, root, s) \subseteq Tree(h, c, t)
           /\ f.at = "right" => Tree(k, root, s) = Tree(h, c, t)
           /\ \A m \in NodeOrEOT : k[m].key = h[m].key /\ k[m].value = h[m].value
           /\ Linked(k, s) /\ Levels(k, s)
           /\ 1 \in Suspended(s) => Returned(k, s[1].node, s[1].at, root)
  OBVIOUS
<1>1. /\ f \in Frame /\ s \in Seq(Frame) /\ t \in Seq(Frame)
  BY DEF Pushed
<1>2. /\ f.node \in Node /\ f.node \in NodeOrEOT /\ f.at \in Sides
      /\ h[f.node][f.at] \in NodeOrEOT /\ h[f.node].right \in NodeOrEOT
      /\ Aside(h, f) \in NodeOrEOT
  BY <1>1, FrameFields
<1>3. f.fn = "put"
  BY PutFrames
<1>4. Aside(h, f) = h[f.node][Other(f.at)]
  BY <1>3 DEF Aside
<1>5. Good(h, c) /\ FrameOK(h, c, f)
  BY ZipTop
<1>6. 1 \in Suspended(t) /\ t[1] = f
  BY SuspendedTop
<1>7. LevelsFit(h, f.node) /\ (f.at = "left" => NoDoubleRight(h, f.node))
  BY <1>6 DEF Levels
<1>8. /\ HeapOK(k) /\ root \in Node /\ Good(k, root)
      /\ Below(k, root) \subseteq {f.node} \cup Below(h, c) \cup Kept(h, f)
      /\ f.at = "right" => Below(k, root) = {f.node} \cup Below(h, c) \cup Kept(h, f)
      /\ \A m \in NodeOrEOT : k[m].key = h[m].key /\ k[m].value = h[m].value
      /\ \A m \in NodeOrEOT \ ({f.node} \cup Below(h, c) \cup Kept(h, f)) : k[m] = h[m]
      /\ k[f.node].level = h[f.node].level
      /\ \/ k[root].level = h[f.node].level
         \/ /\ f.at = "right" /\ h[h[f.node].right].level = h[f.node].level
            /\ k[root].level = h[f.node].level + 1 /\ k[k[root].right].level = h[f.node].level
  <2>1. /\ h[f.node].key \in Key
        /\ \A m \in Below(h, c) : On(h, m, f.at, f.node)
        /\ Good(h, Aside(h, f))
        /\ \A m \in Below(h, Aside(h, f)) : On(h, m, Other(f.at), f.node)
    BY <1>5 DEF FrameOK, Kept
  <2> QED BY <1>a, <1>2, <1>4, <1>5, <1>7, <2>1, UnwoundGood DEF Kept
<1>9. root \in NodeOrEOT /\ \A m \in Below(k, root) : k[m].key = h[m].key
  <2>1. root \in NodeOrEOT
    BY <1>8, NodeNotEOT
  <2>2. Below(k, root) \subseteq NodeOrEOT
    BY <1>8, <2>1, BelowClosed DEF NodeOrEOT
  <2> QED BY <1>8, <2>1, <2>2
<1>10. /\ Zip(k, root, s) /\ Tree(k, root, s) \subseteq Tree(h, c, t) /\ Held(k, s) = Held(h, s)
       /\ \A j \in Suspended(s) : k[s[j].node] = h[s[j].node] /\ \A m \in Kept(h, s[j]) : k[m] = h[m]
  BY <1>8, <1>9, ZipPop
<1>11. \A j \in Suspended(s) :
         /\ s[j].node \in Node /\ s[j].at \in Sides /\ Aside(h, s[j]) = h[s[j].node][Other(s[j].at)]
         /\ h[s[j].node][s[j].at] = t[j].node /\ j \in Suspended(t)
         /\ j # 1 => j - 1 \in Suspended(s) /\ t[j] = s[j - 1]
         /\ Aside(h, s[j]) \in Kept(h, s[j]) \cup {EOT}
         /\ Kept(h, s[j]) \subseteq Node
         /\ \A m \in Kept(h, s[j]) : h[m].right \in Kept(h, s[j]) \cup {EOT}
  BY PathChild
<1>12. /\ \A i \in Suspended(s) : i \in Nat /\ i >= 1 /\ s[i] \in Frame
       /\ \A i \in Suspended(s) : i + 1 \in Suspended(t) /\ t[i + 1] = s[i]
  BY SuspendedTop
<1>13. k[EOT] = h[EOT] /\ h[EOT].right = EOT /\ h[EOT].level = 0
  BY <1>8 DEF HeapOK, Sentinel
<1>14. Linked(k, s)
  <2>1. ASSUME NEW i \in Suspended(s), i + 1 \in Suspended(s)
        PROVE  k[s[i + 1].node][s[i + 1].at] = s[i].node
    <3>1. /\ h[s[i + 1].node][s[i + 1].at] = t[i + 1].node /\ t[i + 1] = s[i]
      BY <1>11, <1>12, <2>1
    <3> QED BY <1>10, <2>1, <3>1
  <2> QED BY <2>1 DEF Linked
\* The levels of the children of a node further out are those of before.
<1>15. ASSUME NEW j \in Suspended(s)
       PROVE  /\ k[t[j].node].level = h[t[j].node].level
              /\ k[Aside(h, s[j])] = h[Aside(h, s[j])]
  <2>1. k[Aside(h, s[j])] = h[Aside(h, s[j])]
    BY <1>10, <1>11, <1>13
  <2>2. CASE j = 1
    BY <1>6, <1>8, <2>1, <2>2
  <2>3. CASE j # 1
    BY <1>10, <1>11, <2>1, <2>3
  <2> QED BY <2>2, <2>3
<1>16. ASSUME NEW j \in Suspended(s)
       PROVE  /\ k[s[j].node] = h[s[j].node]
              /\ k[h[s[j].node].left].level = h[h[s[j].node].left].level
              /\ k[h[s[j].node].right].level = h[h[s[j].node].right].level
              /\ LevelsFit(h, s[j].node) /\ LevelsFit(k, s[j].node) /\ NoDoubleRight(h, s[j].node)
  <2>1. /\ h[s[j].node][s[j].at] = t[j].node /\ Aside(h, s[j]) = h[s[j].node][Other(s[j].at)]
        /\ s[j].at = "left" \/ s[j].at = "right"
    BY <1>11 DEF Sides
  <2>2. k[h[s[j].node].left].level = h[h[s[j].node].left].level
    BY <1>15, <2>1 DEF Other
  <2>3. k[h[s[j].node].right].level = h[h[s[j].node].right].level
    BY <1>15, <2>1 DEF Other
  <2>4. LevelsFit(h, s[j].node) /\ NoDoubleRight(h, s[j].node)
    <3>1. j + 1 \in Suspended(t) /\ t[j + 1] = s[j] /\ j + 1 > 1
      BY <1>12
    <3> QED BY <3>1 DEF Levels
  <2> QED BY <1>10, <2>2, <2>3, <2>4 DEF LevelsFit
<1>17. Levels(k, s)
  <2>1. ASSUME NEW j \in Suspended(s), j > 1 \/ s[j].at = "left"
        PROVE  NoDoubleRight(k, s[j].node)
    <3>1. PICK x : x = h[s[j].node].right
      OBVIOUS
    <3>2. CASE s[j].at = "left"
      <4>1. x = Aside(h, s[j])
        BY <1>11, <3>1, <3>2 DEF Other
      <4>2. k[x] = h[x] /\ h[x].right \in Kept(h, s[j]) \cup {EOT}
        BY <1>11, <1>13, <1>15, <4>1
      <4>3. k[h[x].right] = h[h[x].right]
        BY <1>10, <1>13, <4>2
      <4>4. k[s[j].node] = h[s[j].node] /\ NoDoubleRight(h, s[j].node)
        BY <1>16, <2>1
      <4> QED BY <3>1, <4>2, <4>3, <4>4 DEF NoDoubleRight
    <3>3. CASE s[j].at = "right" /\ j > 1
      <4>1. x = t[j].node /\ j - 1 \in Suspended(s) /\ t[j] = s[j - 1]
        BY <1>11, <1>12, <3>1, <3>3
      <4>2. k[x] = h[x] /\ k[h[x].right].level = h[h[x].right].level
        BY <1>16, <4>1
      <4>3. k[s[j].node] = h[s[j].node] /\ NoDoubleRight(h, s[j].node)
        BY <1>16, <2>1
      <4> QED BY <3>1, <4>2, <4>3 DEF NoDoubleRight
    <3> QED BY <1>11, <2>1, <3>2, <3>3 DEF Sides
  <2> QED BY <1>16, <2>1 DEF Levels
<1>18. ASSUME 1 \in Suspended(s) PROVE Returned(k, s[1].node, s[1].at, root)
  <2>1. h[s[1].node][s[1].at] = f.node /\ s[1].at \in Sides /\ s[1].node \in NodeOrEOT
    BY <1>6, <1>11, <1>18, NodeNotEOT
  <2>2. k[s[1].node][s[1].at] = f.node
    BY <1>16, <1>18, <2>1
  <2>3. /\ h[f.node].level \in Nat /\ h[s[1].node].level \in Nat /\ k[root].level \in Nat
        /\ k[s[1].node].level = h[s[1].node].level
    BY <1>2, <1>8, <1>9, <1>16, <1>18, <2>1 DEF HeapOK, SubtreeOf
  <2>4. ASSUME s[1].at = "right" PROVE k[root].level <= k[s[1].node].level
    <3>1. h[s[1].node].right = f.node
      BY <2>1, <2>4
    <3>2. h[f.node].level \in {h[s[1].node].level - 1, h[s[1].node].level}
      BY <1>16, <1>18, <3>1 DEF LevelsFit
    <3>3. h[h[f.node].right].level < h[s[1].node].level
      BY <1>16, <1>18, <3>1 DEF NoDoubleRight
    <3> QED BY <1>8, <2>3, <3>2, <3>3
  <2> QED BY <1>8, <2>2, <2>4 DEF Returned
<1>19. f.at = "right" => Tree(k, root, s) = Tree(h, c, t)
  <2>1. Held(h, t) = {f.node} \cup Kept(h, f) \cup Held(h, s)
    BY ZipTop
  <2> QED BY <1>8, <1>10, <2>1 DEF Tree
<1> QED BY <1>8, <1>10, <1>14, <1>17, <1>18, <1>19
-----------------------------------------------------------------------------
\* A node that is as its links and their counts and levels say is left alone.
LEMMA UnwoundIdle ==
  ASSUME NEW h, HeapOK(h), NEW n \in Node, NEW at \in Sides, NEW c, h[n][at] = c,
         Balanced(h, n), Counted(h, n)
  PROVE  Unwound(h, n, at, c).heap = h /\ Unwound(h, n, at, c).root = n
<1>1. /\ n \in NodeOrEOT /\ h[n].level \in Nat /\ h[h[n].left].level \in Nat
      /\ h \in [NodeOrEOT -> SubtreeOf] /\ h[n] \in SubtreeOf
  BY NodeNotEOT DEF HeapOK, SubtreeOf
<1>2. [h EXCEPT ![n][at] = c] = h
  <2>1. CASE at = "left"
    BY <1>1, <2>1 DEF SubtreeOf
  <2>2. CASE at = "right"
    BY <1>1, <2>2 DEF SubtreeOf
  <2> QED BY <2>1, <2>2 DEF Sides
<1>3. node_reconstruct_nnode(h, n) = h
  BY <1>1 DEF node_reconstruct_nnode, Counted, SubtreeOf
<1>4. Hung(h, n, at, c) = h
  BY <1>2, <1>3 DEF Hung
<1>5. h[h[n].left].level # h[n].level
  BY <1>1 DEF Balanced, LevelsFit
<1>6. skew(h, n).heap = h /\ skew(h, n).root = n
  BY <1>5, SkewIdle
<1>7. split(h, n).heap = h /\ split(h, n).root = n
  BY SplitIdle DEF Balanced
<1> QED BY <1>4, <1>6, <1>7 DEF Unwound

\* Rotations move links within any set of nodes that is closed under them.
LEMMA UnwoundClosed ==
  ASSUME NEW h, HeapOK(h), NEW n \in Node, NEW at \in Sides,
         NEW nodes \in SUBSET Node, Closed(h, nodes), n \in nodes, NEW c \in nodes \cup {EOT}
  PROVE  Closed(Unwound(h, n, at, c).heap, nodes) /\ Unwound(h, n, at, c).root \in nodes
<1>1. nodes \subseteq NodeOrEOT /\ n \in NodeOrEOT /\ EOT \notin Node /\ c \in NodeOrEOT
  BY NodeNotEOT DEF NodeOrEOT
<1>2. ASSUME NEW k, HeapOK(k), Closed(k, nodes), NEW m \in nodes
      PROVE  Closed(node_reconstruct_nnode(k, m), nodes)
  <2>1. k \in [NodeOrEOT -> SubtreeOf]
    BY <1>2 DEF HeapOK
  <2>2. PICK count : count = k[k[m].left].nnode + 1 + k[k[m].right].nnode
    OBVIOUS
  <2>3. \A i \in nodes : /\ [k EXCEPT ![m].nnode = count][i].left = k[i].left
                         /\ [k EXCEPT ![m].nnode = count][i].right = k[i].right
    BY <1>1, <2>1 DEF SubtreeOf
  <2>4. node_reconstruct_nnode(k, m) = [k EXCEPT ![m].nnode = count]
    BY <2>2 DEF node_reconstruct_nnode
  <2> QED BY <1>2, <2>3, <2>4 DEF Closed
<1>3. PICK k1 : k1 = Hung(h, n, at, c)
  OBVIOUS
<1>4. HeapOK(k1) /\ Closed(k1, nodes)
  <2>1. PICK linked : linked = [h EXCEPT ![n][at] = c]
    OBVIOUS
  <2>2. HeapOK(linked) /\ Closed(linked, nodes)
    <3>1. CASE at = "left"
      <4>1. linked = [h EXCEPT ![n].left = c]
        BY <1>1, <2>1, <3>1 DEF HeapOK, SubtreeOf
      <4>2. HeapOK(linked)
        BY <4>1, <1>1, SetLeft
      <4>3. \A i \in nodes : /\ linked[i].left = IF i = n THEN c ELSE h[i].left
                             /\ linked[i].right = h[i].right
        BY <4>1, <1>1 DEF HeapOK, SubtreeOf
      <4> QED BY <4>2, <4>3 DEF Closed
    <3>2. CASE at = "right"
      <4>1. linked = [h EXCEPT ![n].right = c]
        BY <1>1, <2>1, <3>2 DEF HeapOK, SubtreeOf
      <4>2. HeapOK(linked)
        BY <4>1, <1>1, SetRight
      <4>3. \A i \in nodes : /\ linked[i].right = IF i = n THEN c ELSE h[i].right
                             /\ linked[i].left = h[i].left
        BY <4>1, <1>1 DEF HeapOK, SubtreeOf
      <4> QED BY <4>2, <4>3 DEF Closed
    <3> QED BY <3>1, <3>2 DEF Sides
  <2>3. k1 = node_reconstruct_nnode(linked, n)
    BY <1>3, <2>1 DEF Hung
  <2> QED BY <1>2, <2>2, <2>3, Reconstruct
<1>5. PICK k2 : k2 = skew(k1, n).heap
  OBVIOUS
<1>6. HeapOK(k2) /\ Closed(k2, nodes) /\ skew(k1, n).root = n
  <2>1. HeapOK(k2) /\ skew(k1, n).root = n
    BY <1>4, <1>5, SkewHeap
  <2>2. CASE k1[n].level = k1[k1[n].left].level
    <3>1. PICK l : l = k1[n].left
      OBVIOUS
    <3>2. l \in Node /\ l \in nodes
      <4>1. l \in NodeOrEOT
        BY <1>1, <1>4, <3>1 DEF HeapOK, SubtreeOf
      <4>2. l # EOT
        BY <1>1, <1>4, <2>2, <3>1 DEF HeapOK, Sentinel
      <4> QED BY <1>4, <3>1, <4>1, <4>2 DEF Closed, NodeOrEOT
    <3>3. PICK turned : turned = [[k1 EXCEPT ![n].left = k1[l].right] EXCEPT ![l].right = n]
      OBVIOUS
    <3>4. HeapOK(turned) /\ Closed(turned, nodes)
      <4>1. k1[l].right \in nodes \cup {EOT} /\ k1[l].right \in NodeOrEOT /\ l \in NodeOrEOT
        BY <1>1, <1>4, <3>2 DEF Closed, NodeOrEOT
      <4>2. PICK unhooked : unhooked = [k1 EXCEPT ![n].left = k1[l].right]
        OBVIOUS
      <4>3. HeapOK(unhooked)
        BY <1>4, <4>1, <4>2, SetLeft
      <4>4. HeapOK(turned)
        BY <3>2, <3>3, <4>2, <4>3, <1>1, SetRight
      <4>5. \A i \in nodes : /\ unhooked[i].left = IF i = n THEN k1[l].right ELSE k1[i].left
                             /\ unhooked[i].right = k1[i].right
        BY <1>1, <1>4, <4>2 DEF HeapOK, SubtreeOf
      <4>6. \A i \in nodes : /\ turned[i].left = unhooked[i].left
                             /\ turned[i].right = IF i = l THEN n ELSE unhooked[i].right
        BY <1>1, <3>3, <4>2, <4>3 DEF HeapOK, SubtreeOf
      <4> QED BY <1>4, <4>1, <4>4, <4>5, <4>6 DEF Closed
    <3>5. k2 = node_reconstruct_nnode(node_reconstruct_nnode(turned, n), l)
      BY <1>5, <2>2, <3>1, <3>3 DEF skew, subtree_rotate_right
    <3>6. HeapOK(node_reconstruct_nnode(turned, n)) /\ Closed(node_reconstruct_nnode(turned, n), nodes)
      BY <1>2, <3>4, Reconstruct
    <3> QED BY <1>2, <2>1, <3>2, <3>5, <3>6
  <2>3. CASE k1[n].level # k1[k1[n].left].level
    BY <1>4, <1>5, <2>1, <2>3 DEF skew
  <2> QED BY <2>1, <2>2, <2>3
<1>7. Closed(split(k2, n).heap, nodes) /\ split(k2, n).root \in nodes
  <2>1. CASE k2[n].level = k2[k2[k2[n].right].right].level
    <3>1. PICK r : r = k2[n].right
      OBVIOUS
    <3>2. r \in Node /\ r \in nodes
      <4>1. r \in NodeOrEOT
        BY <1>1, <1>6, <3>1 DEF HeapOK, SubtreeOf
      <4>2. r # EOT
        BY <1>1, <1>6, <2>1, <3>1 DEF HeapOK, Sentinel
      <4> QED BY <1>6, <3>1, <4>1, <4>2 DEF Closed, NodeOrEOT
    <3>3. PICK turned : turned = [[k2 EXCEPT ![n].right = k2[r].left] EXCEPT ![r].left = n]
      OBVIOUS
    <3>4. HeapOK(turned) /\ Closed(turned, nodes)
      <4>1. k2[r].left \in nodes \cup {EOT} /\ k2[r].left \in NodeOrEOT /\ r \in NodeOrEOT
        BY <1>1, <1>6, <3>2 DEF Closed, NodeOrEOT
      <4>2. PICK unhooked : unhooked = [k2 EXCEPT ![n].right = k2[r].left]
        OBVIOUS
      <4>3. HeapOK(unhooked)
        BY <1>6, <4>1, <4>2, SetRight
      <4>4. HeapOK(turned)
        BY <3>2, <3>3, <4>2, <4>3, <1>1, SetLeft
      <4>5. \A i \in nodes : /\ unhooked[i].right = IF i = n THEN k2[r].left ELSE k2[i].right
                             /\ unhooked[i].left = k2[i].left
        BY <1>1, <1>6, <4>2 DEF HeapOK, SubtreeOf
      <4>6. \A i \in nodes : /\ turned[i].right = unhooked[i].right
                             /\ turned[i].left = IF i = r THEN n ELSE unhooked[i].left
        BY <1>1, <3>3, <4>2, <4>3 DEF HeapOK, SubtreeOf
      <4> QED BY <1>6, <4>1, <4>4, <4>5, <4>6 DEF Closed
    <3>5. PICK counted : counted = node_reconstruct_nnode(node_reconstruct_nnode(turned, n), r)
      OBVIOUS
    <3>6. HeapOK(node_reconstruct_nnode(turned, n)) /\ Closed(node_reconstruct_nnode(turned, n), nodes)
      BY <1>2, <3>4, Reconstruct
    <3>7. HeapOK(counted) /\ Closed(counted, nodes)
      BY <1>2, <3>2, <3>5, <3>6, Reconstruct
    <3>8. split(k2, n).heap = [counted EXCEPT ![r].level = @ + 1] /\ split(k2, n).root = r
      BY <2>1, <3>1, <3>3, <3>5 DEF split, subtree_rotate_left
    <3>9. \A i \in nodes : /\ [counted EXCEPT ![r].level = @ + 1][i].left = counted[i].left
                           /\ [counted EXCEPT ![r].level = @ + 1][i].right = counted[i].right
      BY <1>1, <3>7 DEF HeapOK, SubtreeOf
    <3> QED BY <3>2, <3>7, <3>8, <3>9 DEF Closed
  <2>2. CASE k2[n].level # k2[k2[k2[n].right].right].level
    BY <1>6, <2>2 DEF split
  <2> QED BY <2>1, <2>2
<1> QED BY <1>3, <1>5, <1>6, <1>7 DEF Unwound
-----------------------------------------------------------------------------
(***************************************************************************)
(* The invariant of the tree.                                              *)
(***************************************************************************)
Kinds ==
  /\ pc = "idle" => stack = <<>>
  /\ pc \in {"each", "each_ret", "action", "acted"} =>
       \A i \in DOMAIN stack : stack[i].fn = "each"
  /\ pc \in {"put", "put_ret"} => arg \in [key : Key, value : Value] /\ Puts(stack)
  /\ pc \in {"destroy", "destroy_ret"} => \A i \in DOMAIN stack : stack[i].fn = "destroy"
  /\ pc = "put" => status = "ok" /\ old = NoPair
  /\ pc = "put_ret" => status \in {"ok", "enomem"}

\* The subtree that a put or a dict_destroy is at, the whole tree otherwise.
Root ==
  IF head = NULL \/ pc = "destroy_ret" THEN EOT
  ELSE IF pc \in {"put", "put_ret", "destroy"} THEN cur ELSE head

Zipped == Zip(heap, Root, stack)

\* A new node is on its way up.
Inserted == pc = "put_ret" /\ status = "ok" /\ old = NoPair

\* A key belongs on the side of the frame's node that the recursion went down.
Toward(h, key, f) ==
  IF f.at = "left" THEN compar(key, h[f.node].key) < 0 ELSE compar(key, h[f.node].key) > 0

Path == pc \in {"put", "put_ret"} =>
  /\ Linked(heap, stack)
  /\ Inserted =>
       /\ Levels(heap, stack)
       /\ 1 \in Suspended(stack) => Returned(heap, stack[1].node, stack[1].at, cur)
  /\ ~Inserted => Unchanged(heap, cur, stack, head)
  /\ pc = "put" => \A i \in Suspended(stack) : Toward(heap, arg.key, stack[i])

PairOf(h, n) == [key |-> h[n].key, value |-> h[n].value]

\* The bindings, those that the put at work is about to bring in included.
Entitled ==
  IF pc = "put_ret" /\ status = "ok"
    THEN {b \in bindings : compar(arg.key, b.key) # 0} \cup {arg}
    ELSE bindings

Paired == pc \notin {"destroy", "destroy_ret"} =>
  \A n \in Tree(heap, Root, stack) : PairOf(heap, n) \in Entitled

\* Nothing that the tree or a suspended call points to has been freed. A
\* dict_destroy has only what it has not freed yet.
Nodes(st) == {st[i].node : i \in DOMAIN st}
OwnedBy(nodes) ==
  /\ nodes \subseteq live
  /\ Closed(heap, nodes)
  /\ {head, cur} \subseteq nodes \cup {EOT, NULL}
  /\ Nodes(stack) \subseteq nodes
Owned ==
  IF pc \in {"destroy", "destroy_ret"} THEN Tree(heap, Root, stack) \subseteq live
  ELSE \E nodes \in SUBSET Node : OwnedBy(nodes)

\* With clients that only put keys above all others, or replace, every
\* suspended put went right, where skew has nothing to rotate: every node and
\* every binding is still in the tree.
Covers(h, tree, pairs) == \A b \in pairs : \E n \in tree : PairOf(h, n) = b
Whole == AscendingPuts =>
  /\ live \subseteq Tree(heap, Root, stack)
  /\ pc \notin {"destroy", "destroy_ret"} => Covers(heap, Tree(heap, Root, stack), Entitled)
  /\ pc = "put" => Stored(arg.key) \/ AboveAll(arg.key)
  /\ Inserted => \A i \in Suspended(stack) : stack[i].at = "right"

TreeInv == Kinds /\ Zipped /\ Path /\ Paired /\ Owned /\ Whole

\* Without suspended puts the tree is in one piece.
LEMMA OnePiece ==
  ASSUME NEW st, Suspended(st) = {}, NEW h, NEW c
  PROVE  /\ Zip(h, c, st) <=> Good(h, c)
         /\ Tree(h, c, st) = Below(h, c)
BY DEF Zip, Tree, Held

LEMMA NodesTop ==
  ASSUME NEW f, NEW s, NEW t, Pushed(f, s, t)
  PROVE  /\ Nodes(t) = {f.node} \cup Nodes(s)
         /\ \A fn : (\A i \in DOMAIN t : t[i].fn = fn) <=> f.fn = fn /\ \A i \in DOMAIN s : s[i].fn = fn
         /\ f.fn = "put" /\ Puts(s) => Puts(t)
<1>1. \A i \in DOMAIN t : i \in Nat /\ i >= 1
  BY FrameAt DEF Pushed
<1>2. \A i \in DOMAIN s : i \in Nat /\ i >= 1
  BY FrameAt DEF Pushed
<1>3. /\ 1 \in DOMAIN t /\ t[1] = f
      /\ \A i \in DOMAIN s : i + 1 \in DOMAIN t /\ t[i + 1] = s[i]
      /\ \A i \in DOMAIN t : i # 1 => i - 1 \in DOMAIN s /\ t[i] = s[i - 1]
  BY DEF Pushed
<1>4. Nodes(t) = {f.node} \cup Nodes(s)
  BY <1>3 DEF Nodes
<1>5. \A fn : (\A i \in DOMAIN t : t[i].fn = fn) <=> f.fn = fn /\ \A i \in DOMAIN s : s[i].fn = fn
  BY <1>3
<1>6. ASSUME f.fn = "put", Puts(s) PROVE Puts(t)
  <2>1. ASSUME NEW i \in DOMAIN t, NEW j \in DOMAIN t, i < j, t[j].fn = "put"
        PROVE  t[i].fn = "put"
    <3>1. CASE i = 1
      BY <1>3, <1>6, <3>1
    <3>2. CASE i # 1
      <4>1. i - 1 \in DOMAIN s /\ j - 1 \in DOMAIN s /\ i - 1 < j - 1 /\ t[i] = s[i - 1] /\ t[j] = s[j - 1]
        BY <1>1, <1>3, <2>1, <3>2
      <4>2. s[j - 1].fn = "put"
        BY <2>1, <4>1
      <4>3. s[i - 1].fn = "put"
        BY <1>6, <4>1, <4>2 DEF Puts
      <4> QED BY <4>1, <4>3
    <3> QED BY <3>1, <3>2
  <2>2. \A i \in DOMAIN t : t[i].fn # "destroy"
    BY <1>3, <1>6 DEF Puts
  <2> QED BY <2>1, <2>2 DEF Puts
<1> QED BY <1>4, <1>5, <1>6

\* A step that leaves the tree, and what is in it, alone.
LEMMA QuietStep ==
  ASSUME Zipped, Paired, Suspended(stack) = {}, Suspended(stack') = {},
         pc \notin {"put_ret", "destroy", "destroy_ret"}, pc' # "put_ret",
         UNCHANGED <<heap, bindings>>, Root' = Root
  PROVE  Zipped' /\ Paired' /\ Tree(heap', Root', stack') = Tree(heap, Root, stack)
<1>1. Good(heap, Root)
  BY OnePiece DEF Zipped
<1>2. \A n \in Below(heap, Root) : PairOf(heap, n) \in bindings
  BY OnePiece DEF Paired, Entitled
<1>3. Zipped'
  <2>1. Good(heap', Root')
    BY <1>1
  <2> QED BY <2>1, OnePiece DEF Zipped
<1>4. Paired'
  <2>1. Tree(heap', Root', stack') = Below(heap, Root)
    BY OnePiece
  <2> QED BY <1>2, <2>1 DEF Paired, Entitled, PairOf
<1>5. Tree(heap', Root', stack') = Tree(heap, Root, stack)
  BY OnePiece
<1> QED BY <1>3, <1>4, <1>5

LEMMA EachFrames ==
  ASSUME NEW st, \A i \in DOMAIN st : st[i].fn = "each"
  PROVE  Suspended(st) = {} /\ Puts(st)
BY DEF Suspended, Puts

\* The steps of everything but dict_put and dict_destroy, and their starts.
LEMMA SettledStep ==
  ASSUME IInv', TreeInv, Kinds',
         pc \in {"idle", "each", "each_ret", "action", "acted"},
         pc' \in {"idle", "each", "each_ret", "action", "acted", "put"},
         UNCHANGED <<heap, live, bindings>>, Root' = Root,
         pc' = "put" => stack' = stack /\ cur' = head',
         pc' = "put" /\ AscendingPuts => (Stored(arg.key) \/ AboveAll(arg.key))',
         \A nodes \in SUBSET Node : OwnedBy(nodes) =>
           {head', cur'} \subseteq nodes \cup {EOT, NULL} /\ Nodes(stack') \subseteq nodes
  PROVE  TreeInv'
<1>1. Suspended(stack) = {}
  <2>1. CASE pc = "idle"
    BY <2>1 DEF TreeInv, Kinds, Suspended
  <2>2. CASE pc # "idle"
    BY <2>2, EachFrames DEF TreeInv, Kinds
  <2> QED BY <2>1, <2>2
<1>2. Suspended(stack') = {}
  <2>1. CASE pc' = "put"
    BY <1>1, <2>1
  <2>2. CASE pc' = "idle"
    <3>1. stack' = <<>>
      BY <2>2 DEF Kinds
    <3> QED BY <3>1 DEF Suspended
  <2>3. CASE pc' \notin {"put", "idle"}
    <3>1. \A i \in DOMAIN stack' : stack'[i].fn = "each"
      BY <2>3 DEF Kinds
    <3> QED BY <3>1, EachFrames
  <2> QED BY <2>1, <2>2, <2>3
<1>3. Zipped' /\ Paired' /\ Tree(heap', Root', stack') = Tree(heap, Root, stack)
  BY <1>1, <1>2, QuietStep DEF TreeInv
<1>4. Path'
  <2>1. Linked(heap', stack') /\ Unchanged(heap', head', stack', head')
    BY <1>2 DEF Linked, Unchanged
  <2> QED BY <1>2, <2>1 DEF Path, Inserted
<1>5. Owned'
  <2>1. PICK nodes \in SUBSET Node : OwnedBy(nodes)
    BY DEF TreeInv, Owned
  <2>2. OwnedBy(nodes)'
    BY <2>1 DEF OwnedBy
  <2> QED BY <2>2 DEF Owned
<1>6. Whole'
  <2>1. Entitled' = bindings /\ Entitled = bindings /\ ~ Inserted'
    BY DEF Entitled, Inserted
  <2> QED BY <1>3, <2>1 DEF TreeInv, Whole, Covers, PairOf
<1> QED BY <1>3, <1>4, <1>5, <1>6 DEF TreeInv

LEMMA InitTree == Init => TreeInv
<1> SUFFICES ASSUME Init PROVE TreeInv
  OBVIOUS
<1>1. head = NULL /\ pc = "idle" /\ stack = <<>> /\ live = {} /\ cur = EOT
  BY DEF Init
<1>2. Suspended(stack) = {} /\ Nodes(stack) = {} /\ Root = EOT
  BY <1>1 DEF Suspended, Nodes, Root
<1>3. Zipped /\ Paired
  BY <1>1, <1>2, OnePiece, GoodNone, BelowNone DEF Zipped, Paired
<1>4. Kinds /\ Path
  BY <1>1 DEF Kinds, Path
<1>5. OwnedBy({})
  BY <1>1, <1>2 DEF OwnedBy, Closed
<1>6. Whole
  BY <1>1 DEF Init, Whole, Covers, Entitled, Inserted
<1> QED BY <1>1, <1>3, <1>4, <1>5, <1>6 DEF TreeInv, Owned

\* NULL is the pointer of no node.
LEMMA NotNull == NULL \notin NodeOrEOT
BY ConstantsAssumption DEF NodeOrEOT

LEMMA StartPutTree ==
  ASSUME IInv, IInv', TreeInv, NEW key \in Key, NEW value \in Value,
         pc \in {"idle", "action"}, head # NULL, StartPut(key, value),
         AscendingPuts => Stored(key) \/ AboveAll(key)
  PROVE  TreeInv'
<1> USE DEF StartPut
<1>1. Root' = Root
  BY NotNull DEF Root
<1>2. Kinds'
  <2>1. Puts(stack)
    <3>1. CASE pc = "idle"
      BY <3>1 DEF TreeInv, Kinds, Puts
    <3>2. CASE pc = "action"
      BY <3>2, EachFrames DEF TreeInv, Kinds
    <3> QED BY <3>1, <3>2
  <2> QED BY <2>1 DEF Kinds
<1>3. \A nodes \in SUBSET Node : OwnedBy(nodes) =>
        {head', cur'} \subseteq nodes \cup {EOT, NULL} /\ Nodes(stack') \subseteq nodes
  BY DEF OwnedBy
<1>4. AscendingPuts => (Stored(arg.key) \/ AboveAll(arg.key))'
  BY DEF Stored, AboveAll
<1> QED BY <1>1, <1>2, <1>3, <1>4, SettledStep

LEMMA CallTree ==
  ASSUME IInv, IInv', TreeInv, Call
  PROVE  TreeInv'
<1>1. CASE dict_init
  <2>1. Root' = Root
    BY <1>1, NotNull DEF dict_init, Root, NodeOrEOT
  <2>2. Kinds'
    BY <1>1 DEF dict_init, TreeInv, Kinds
  <2>3. \A nodes \in SUBSET Node : OwnedBy(nodes) =>
          {head', cur'} \subseteq nodes \cup {EOT, NULL} /\ Nodes(stack') \subseteq nodes
    BY <1>1 DEF dict_init, OwnedBy
  <2> QED BY <1>1, <2>1, <2>2, <2>3, SettledStep DEF dict_init
<1>2. ASSUME NEW key \in Key, NEW value \in Value, dict_put(key, value)
      PROVE  TreeInv'
  BY <1>2, StartPutTree DEF dict_put
<1>3. CASE dict_for_each
  <2>1. Root' = Root
    BY <1>3 DEF dict_for_each, Root
  <2>2. Kinds'
    BY <1>3 DEF dict_for_each, TreeInv, Kinds
  <2>3. \A nodes \in SUBSET Node : OwnedBy(nodes) =>
          {head', cur'} \subseteq nodes \cup {EOT, NULL} /\ Nodes(stack') \subseteq nodes
    BY <1>3 DEF dict_for_each, OwnedBy
  <2> QED BY <1>3, <2>1, <2>2, <2>3, SettledStep DEF dict_for_each
<1>4. CASE dict_destroy
  <2> USE <1>4 DEF dict_destroy
  <2>1. stack = <<>> /\ Suspended(stack) = {} /\ Root = head /\ Root' = head /\ head \in NodeOrEOT
    BY DEF TreeInv, Kinds, Suspended, Root, IInv, TypeOK
  <2>2. Zipped'
    <3>1. Zip(heap, head, stack)
      BY <2>1 DEF TreeInv, Zipped
    <3> QED BY <2>1, <3>1 DEF Zipped
  <2>3. Kinds' /\ Path' /\ Paired' /\ Whole'
    BY <2>1 DEF Kinds, Path, Paired, TreeInv, Whole, Inserted
  <2>4. Owned'
    <3>1. PICK nodes \in SUBSET Node : OwnedBy(nodes)
      BY DEF TreeInv, Owned
    <3>2. head \in nodes \cup {EOT}
      BY <2>1, <3>1, NotNull DEF OwnedBy
    <3>3. Below(heap, head) \subseteq live
      BY <3>1, <3>2, BelowLeast DEF OwnedBy
    <3>4. Tree(heap', Root', stack') = Below(heap, head)
      BY <2>1, OnePiece
    <3> QED BY <3>3, <3>4 DEF Owned
  <2> QED BY <2>2, <2>3, <2>4 DEF TreeInv
<1> QED BY <1>1, <1>2, <1>3, <1>4 DEF Call

LEMMA CallbackTree ==
  ASSUME IInv, IInv', TreeInv, Callback
  PROVE  TreeInv'
<1>1. ASSUME NEW key \in Key, NEW value \in Value, CallbackPut(key, value)
      PROVE  TreeInv'
  <2>1. pc = "action" /\ StartPut(key, value) /\ head # NULL
    BY <1>1 DEF CallbackPut, IInv, TypeOK
  <2>2. ASSUME AscendingPuts, CallbackPuts = "update" PROVE Stored(key)
    <3>1. HeapOK(heap) /\ Zip(heap, head, stack) /\ Suspended(stack) = {} /\ head \in NodeOrEOT
      BY <2>1, HeapIsOK, EachFrames DEF IInv, TypeOK, TreeInv, Kinds, Zipped, Root
    <3>2. Good(heap, head) /\ Tree(heap, head, stack) = Below(heap, head)
      BY <3>1, OnePiece
    <3>3. PICK m \in Below(heap, head) : compar(key, heap[m].key) = 0
      BY <1>1, <2>2, <3>1, <3>2, GetIsThere DEF CallbackPut
    <3>4. PairOf(heap, m) \in bindings
      BY <2>1, <3>2 DEF TreeInv, Paired, Entitled, Root
    <3> QED BY <3>3, <3>4 DEF Stored, PairOf
  <2>3. AscendingPuts => Stored(key) \/ AboveAll(key)
    BY <1>1, <2>2, ConstantsAssumption DEF CallbackPut
  <2> QED BY <2>1, <2>3, StartPutTree
<1>2. CASE CallbackContinue \/ CallbackAbort
  <2>1. /\ pc \in {"action", "acted"} /\ pc' \in {"each", "each_ret"} /\ stack' = Tail(stack)
        /\ UNCHANGED <<head, heap, live, bindings>> /\ cur' \in {heap[Top.node].right, cur}
    BY <1>2 DEF CallbackContinue, CallbackAbort, Pop
  <2>2. stack \in Seq(Frame) /\ stack # <<>>
    BY <2>1 DEF IInv, TypeOK
  <2>3. Pushed(Top, stack', stack)
    BY <2>1, <2>2, PushedPop DEF Top
  <2>4. \A i \in DOMAIN stack : stack[i].fn = "each"
    BY <2>1 DEF TreeInv, Kinds
  <2>5. \A i \in DOMAIN stack' : stack'[i].fn = "each"
    BY <2>3, <2>4, NodesTop
  <2>6. Kinds'
    BY <2>1, <2>5 DEF Kinds
  <2>7. Nodes(stack) = {Top.node} \cup Nodes(stack')
    BY <2>3, NodesTop
  <2>8. \A nodes \in SUBSET Node : OwnedBy(nodes) =>
          {head', cur'} \subseteq nodes \cup {EOT, NULL} /\ Nodes(stack') \subseteq nodes
    BY <2>1, <2>7 DEF OwnedBy, Closed
  <2>9. Root' = Root
    BY <2>1 DEF Root
  <2> QED BY <2>1, <2>6, <2>8, <2>9, SettledStep
<1> QED BY <1>1, <1>2 DEF Callback

LEMMA EachTree ==
  ASSUME IInv, IInv', TreeInv, EachStep
  PROVE  TreeInv'
<1>1. /\ pc \in {"each", "each_ret"} /\ pc' \in {"idle", "each", "each_ret", "action"}
      /\ UNCHANGED <<head, heap, live, bindings>>
  BY DEF EachStep, EachDescend, EachEnd, EachAction, EachAbort, EachReturn
<1>2. Root' = Root
  BY <1>1 DEF Root
<1>3. \A i \in DOMAIN stack : stack[i].fn = "each"
  BY <1>1 DEF TreeInv, Kinds
<1>4. stack \in Seq(Frame) /\ cur \in NodeOrEOT
  BY DEF IInv, TypeOK
<1>5. CASE EachDescend
  <2>1. PICK f : f = [fn |-> "each", node |-> cur, at |-> "left"]
    OBVIOUS
  <2>2. f \in Frame /\ f.fn = "each" /\ f.node = cur
    BY <1>4, <1>5, <2>1 DEF EachDescend, Frame, NodeOrEOT
  <2>3. Pushed(f, stack, stack')
    BY <1>4, <1>5, <2>1, <2>2, PushedPush DEF EachDescend, Push
  <2>4. \A i \in DOMAIN stack' : stack'[i].fn = "each"
    BY <1>3, <2>2, <2>3, NodesTop
  <2>5. Kinds'
    BY <1>5, <2>4 DEF EachDescend, Kinds
  <2>6. Nodes(stack') = {cur} \cup Nodes(stack)
    BY <2>2, <2>3, NodesTop
  <2>7. \A nodes \in SUBSET Node : OwnedBy(nodes) =>
          {head', cur'} \subseteq nodes \cup {EOT, NULL} /\ Nodes(stack') \subseteq nodes
    BY <1>4, <1>5, <2>6, NotNull DEF EachDescend, OwnedBy, Closed
  <2> QED BY <1>1, <1>2, <1>5, <2>5, <2>7, SettledStep DEF EachDescend
<1>6. CASE EachEnd \/ EachAction
  <2>1. Kinds'
    BY <1>3, <1>6 DEF EachEnd, EachAction, Kinds
  <2>2. \A nodes \in SUBSET Node : OwnedBy(nodes) =>
          {head', cur'} \subseteq nodes \cup {EOT, NULL} /\ Nodes(stack') \subseteq nodes
    BY <1>6 DEF EachEnd, EachAction, OwnedBy
  <2>3. pc' # "put"
    BY <1>1
  <2> QED BY <1>1, <1>2, <2>1, <2>2, <2>3, SettledStep
<1>7. CASE EachAbort
  <2>1. stack # <<>> /\ stack' = Tail(stack)
    BY <1>7 DEF EachAbort, Running, Pop
  <2>2. Pushed(Top, stack', stack)
    BY <1>4, <2>1, PushedPop DEF Top
  <2>3. \A i \in DOMAIN stack' : stack'[i].fn = "each"
    BY <1>3, <2>2, NodesTop
  <2>4. Kinds'
    BY <1>7, <2>3 DEF EachAbort, Kinds
  <2>5. Nodes(stack') \subseteq Nodes(stack)
    BY <2>2, NodesTop
  <2>6. \A nodes \in SUBSET Node : OwnedBy(nodes) =>
          {head', cur'} \subseteq nodes \cup {EOT, NULL} /\ Nodes(stack') \subseteq nodes
    BY <1>7, <2>5 DEF EachAbort, OwnedBy
  <2>7. pc' # "put"
    BY <1>1
  <2> QED BY <1>1, <1>2, <2>4, <2>6, <2>7, SettledStep
<1>8. CASE EachReturn
  <2>1. Kinds'
    BY <1>8 DEF EachReturn, Kinds
  <2>2. \A nodes \in SUBSET Node : OwnedBy(nodes) =>
          {head', cur'} \subseteq nodes \cup {EOT, NULL} /\ Nodes(stack') \subseteq nodes
    BY <1>8 DEF EachReturn, Forget, OwnedBy
  <2>3. pc' # "put"
    BY <1>1
  <2> QED BY <1>1, <1>2, <2>1, <2>2, <2>3, SettledStep
<1> QED BY <1>5, <1>6, <1>7, <1>8 DEF EachStep

\* dict_destroy frees the nodes of the tree, and no other.
LEMMA DestroyTree ==
  ASSUME IInv, IInv', TreeInv, DestroyStep
  PROVE  TreeInv'
<1>1. /\ pc \in {"destroy", "destroy_ret"} /\ pc' \in {"idle", "destroy", "destroy_ret"}
      /\ pc' = "idle" <=> DestroyReturn
      /\ head # NULL
  <2>1. /\ pc \in {"destroy", "destroy_ret"} /\ pc' \in {"idle", "destroy", "destroy_ret"}
        /\ pc' = "idle" <=> DestroyReturn
    BY DEF DestroyStep, DestroyDescend, DestroyEnd, DestroyRight, node_destroy, DestroyReturn
  <2> QED BY <2>1 DEF IInv, TypeOK
<1>2. \A i \in DOMAIN stack : stack[i].fn = "destroy"
  BY <1>1 DEF TreeInv, Kinds
<1>3. stack \in Seq(Frame) /\ cur \in NodeOrEOT /\ EOT \in NodeOrEOT
  BY DEF IInv, TypeOK, NodeOrEOT
<1>4. /\ pc = "destroy" => Root = cur
      /\ pc = "destroy_ret" => Root = EOT
  BY <1>1 DEF Root
<1>5. /\ Zip(heap, Root, stack) /\ Tree(heap, Root, stack) \subseteq live
      /\ AscendingPuts => live \subseteq Tree(heap, Root, stack)
  BY <1>1 DEF TreeInv, Zipped, Owned, Whole
<1>6. HeapOK(heap) /\ HeapOK(heap')
  BY HeapIsOK DEF IInv, TypeOK, SentinelIntact, HeapOK
\* What is left to show of the steps but the last one.
<1>7. ASSUME pc' \in {"destroy", "destroy_ret"}, head' = head,
             \A i \in DOMAIN stack' : stack'[i].fn = "destroy",
             NEW c, c = Root', Zip(heap', c, stack'), Tree(heap', c, stack') \subseteq live',
             AscendingPuts => live' \subseteq Tree(heap', c, stack')
      PROVE  TreeInv'
  BY <1>7 DEF TreeInv, Kinds, Zipped, Path, Paired, Owned, Whole, Inserted
<1>8. CASE DestroyDescend
  <2>1. PICK f : f = [fn |-> "destroy", node |-> cur, at |-> "left"]
    OBVIOUS
  <2>2. f \in Frame /\ f.fn = "destroy" /\ f.node = cur /\ f.at = "left"
    BY <1>3, <1>8, <2>1 DEF DestroyDescend, Frame, NodeOrEOT
  <2>3. Pushed(f, stack, stack')
    BY <1>3, <1>8, <2>1, <2>2, PushedPush DEF DestroyDescend, Push
  <2>4. \A i \in DOMAIN stack' : stack'[i].fn = "destroy"
    BY <1>2, <2>2, <2>3, NodesTop
  <2>5. PICK c : c = heap[cur].left
    OBVIOUS
  <2>6. Zip(heap, f.node, stack)
    BY <1>4, <1>5, <1>8, <2>2 DEF DestroyDescend
  <2>7. /\ Zip(heap, heap[f.node][f.at], stack')
        /\ Tree(heap, heap[f.node][f.at], stack') = Tree(heap, f.node, stack)
    BY <1>6, <2>2, <2>3, <2>6, ZipPush
  <2>8. heap[f.node][f.at] = c
    BY <2>2, <2>5
  <2>9. /\ Zip(heap, c, stack') /\ Tree(heap, c, stack') \subseteq live
        /\ AscendingPuts => live \subseteq Tree(heap, c, stack')
    BY <1>4, <1>5, <1>8, <2>2, <2>7, <2>8 DEF DestroyDescend
  <2>10. Root' = c /\ pc' = "destroy" /\ UNCHANGED <<head, heap, live>>
    BY <1>1, <1>8, <2>5 DEF DestroyDescend, Root
  <2> QED BY <1>7, <2>4, <2>9, <2>10
<1>9. CASE DestroyEnd
  <2>1. Root' = EOT /\ Root = EOT
    BY <1>4, <1>9 DEF DestroyEnd, Root
  <2> QED BY <1>2, <1>5, <1>7, <1>9, <2>1 DEF DestroyEnd
<1>10. CASE DestroyRight
  <2>1. PICK f, s, g : f = Top /\ s = Tail(stack) /\ g = [f EXCEPT !.at = "right"]
    OBVIOUS
  <2>2. stack # <<>> /\ stack' = <<g>> \o s /\ f.fn = "destroy" /\ f.at = "left"
    BY <1>10, <2>1 DEF DestroyRight, Running
  <2>3. Pushed(f, s, stack)
    BY <1>3, <2>1, <2>2, PushedPop DEF Top
  <2>4. g \in Frame /\ g.fn = "destroy" /\ g.at = "right" /\ g.node = f.node
    BY <2>1, <2>2, <2>3 DEF Pushed, Frame
  <2>5. Pushed(g, s, stack')
    BY <2>2, <2>3, <2>4, PushedPush DEF Pushed
  <2>6. \A i \in DOMAIN stack' : stack'[i].fn = "destroy"
    <3>1. \A i \in DOMAIN s : s[i].fn = "destroy"
      BY <1>2, <2>3, NodesTop
    <3> QED BY <2>4, <2>5, <3>1, NodesTop
  <2>7. PICK c : c = heap[f.node].right
    OBVIOUS
  <2>8. Aside(heap, f) = c /\ Kept(heap, f) = Below(heap, c) /\ Aside(heap, g) = EOT /\ Kept(heap, g) = {}
    BY <2>2, <2>4, <2>7, BelowNone DEF Aside, Kept, Other
  <2>9. /\ FrameOK(heap, EOT, f)
        /\ \A j \in Suspended(s) : FrameOK(heap, EOT, s[j]) /\ Inside(heap, f, s[j])
        /\ \A i, j \in Suspended(s) : i < j => Inside(heap, s[i], s[j])
        /\ Held(heap, stack) = {f.node} \cup Kept(heap, f) \cup Held(heap, s)
    BY <1>4, <1>5, <1>10, <2>2, <2>3, ZipTop DEF DestroyRight
  <2>10. Good(heap, c) /\ FrameOK(heap, c, g)
    BY <2>2, <2>4, <2>8, <2>9, GoodNone DEF FrameOK, Other
  <2>11. \A j \in Suspended(s) : FrameOK(heap, c, s[j]) /\ Inside(heap, g, s[j])
    BY <2>4, <2>8, <2>9 DEF FrameOK, Inside
  <2>12. /\ Zip(heap, c, stack')
         /\ Held(heap, stack') = {g.node} \cup Kept(heap, g) \cup Held(heap, s)
    BY <2>4, <2>5, <2>9, <2>10, <2>11, ZipTop
  <2>13. Tree(heap, c, stack') = Tree(heap, EOT, stack)
    BY <2>4, <2>8, <2>9, <2>12, BelowNone DEF Tree
  <2>14. Root' = c /\ pc' = "destroy" /\ UNCHANGED <<head, heap, live>>
    BY <1>1, <1>10, <2>1, <2>7 DEF DestroyRight, Root
  <2>15. /\ Tree(heap, c, stack') \subseteq live
         /\ AscendingPuts => live \subseteq Tree(heap, c, stack')
    BY <1>4, <1>5, <1>10, <2>13 DEF DestroyRight
  <2> QED BY <1>7, <2>6, <2>12, <2>14, <2>15
<1>11. CASE node_destroy
  <2>1. PICK f, s : f = Top /\ s = Tail(stack)
    OBVIOUS
  <2>2. stack # <<>> /\ stack' = s /\ f.fn = "destroy" /\ f.at = "right"
    BY <1>11, <2>1 DEF node_destroy, Running, Pop
  <2>3. Pushed(f, s, stack)
    BY <1>3, <2>1, <2>2, PushedPop DEF Top
  <2>4. \A i \in DOMAIN s : s[i].fn = "destroy"
    BY <1>2, <2>3, NodesTop
  <2>5. Kept(heap, f) = {} /\ Below(heap, EOT) = {} /\ Below(heap', EOT) = {}
    BY <2>2, BelowNone DEF Kept, Aside
  <2>6. \A m \in NodeOrEOT \ {f.node} : heap'[m] = heap[m]
    BY <1>6, <1>11, <2>1 DEF node_destroy, HeapOK
  <2>7. /\ Zip(heap, EOT, stack) /\ Tree(heap, EOT, stack) \subseteq live
        /\ AscendingPuts => live \subseteq Tree(heap, EOT, stack)
    BY <1>4, <1>5, <1>11 DEF node_destroy
  <2>8. PICK k : k = heap'
    OBVIOUS
  <2>9. Zip(k, EOT, s) /\ Held(k, s) = Held(heap, s) /\ Tree(k, EOT, s) \subseteq Tree(heap, EOT, stack)
    <3>1. /\ Below(k, EOT) \subseteq {f.node} \cup Below(heap, EOT) \cup Kept(heap, f)
          /\ \A m \in Below(k, EOT) : k[m].key = heap[m].key
          /\ \A m \in NodeOrEOT \ ({f.node} \cup Below(heap, EOT) \cup Kept(heap, f)) : k[m] = heap[m]
      BY <2>5, <2>6, <2>8
    <3>2. HeapOK(k) /\ Good(k, EOT)
      BY <1>6, <2>8, GoodNone
    <3> QED BY <1>3, <1>6, <2>2, <2>3, <2>7, <3>1, <3>2, ZipPop
  <2>10. f.node \notin Held(k, s)
    <3>1. \A j \in Suspended(s) : f.node # s[j].node /\ f.node \notin Kept(heap, s[j])
      BY <1>3, <1>6, <2>2, <2>3, <2>7, ZipZone
    <3>2. f.node \notin Held(heap, s)
      BY <3>1 DEF Held
    <3> QED BY <2>9, <3>2
  <2>11. /\ Tree(k, EOT, s) \subseteq live \ {f.node}
         /\ AscendingPuts => live \ {f.node} \subseteq Tree(k, EOT, s)
    <3>1. Held(heap, stack) = {f.node} \cup Kept(heap, f) \cup Held(heap, s)
      BY <2>2, <2>3, ZipTop
    <3> QED BY <2>5, <2>7, <2>8, <2>9, <2>10, <3>1 DEF Tree
  <2>12. Root' = EOT /\ pc' = "destroy_ret" /\ head' = head /\ live' = live \ {f.node}
    BY <1>1, <1>11, <2>1 DEF node_destroy, Root
  <2>13. /\ \A i \in DOMAIN stack' : stack'[i].fn = "destroy"
         /\ Zip(heap', EOT, stack') /\ Tree(heap', EOT, stack') \subseteq live'
         /\ AscendingPuts => live' \subseteq Tree(heap', EOT, stack')
    BY <2>2, <2>4, <2>8, <2>9, <2>11, <2>12
  <2> QED BY <1>7, <2>12, <2>13
<1>12. CASE DestroyReturn
  <2>1. /\ head' = NULL /\ pc' = "idle" /\ stack' = <<>> /\ cur' = EOT
    BY <1>12 DEF DestroyReturn, Forget
  <2>2. Suspended(stack') = {} /\ Root' = EOT /\ Nodes(stack') = {}
    BY <2>1 DEF Suspended, Root, Nodes
  <2>3. Zipped' /\ Paired'
    BY <2>2, OnePiece, GoodNone, BelowNone DEF Zipped, Paired
  <2>4. Kinds' /\ Path'
    BY <2>1 DEF Kinds, Path
  <2>5. OwnedBy({})'
    BY <2>1, <2>2 DEF OwnedBy, Closed
  <2>6. Whole'
    <3>1. stack = <<>> /\ live' = live /\ bindings' = {}
      BY <1>12 DEF DestroyReturn
    <3>2. Tree(heap, Root, stack) = {}
      BY <1>4, <1>12, <3>1, OnePiece, BelowNone DEF DestroyReturn, Suspended
    <3> QED BY <1>5, <2>1, <3>1, <3>2 DEF Whole, Covers, Entitled, Inserted
  <2> QED BY <2>1, <2>3, <2>4, <2>5, <2>6 DEF TreeInv, Owned
<1> QED BY <1>8, <1>9, <1>10, <1>11, <1>12 DEF DestroyStep
-----------------------------------------------------------------------------
(***************************************************************************)
(* The steps of a put.                                                     *)
(***************************************************************************)
LEMMA PathPush ==
  ASSUME NEW h, NEW f, NEW s, NEW t, Pushed(f, s, t), f.fn = "put", NEW root,
         Linked(h, s), Unchanged(h, f.node, s, root), Balanced(h, f.node), Counted(h, f.node)
  PROVE  Linked(h, t) /\ Unchanged(h, h[f.node][f.at], t, root)
<1>1. /\ \A i \in Suspended(s) : i \in Nat /\ i >= 1 /\ s[i] \in Frame
      /\ \A i \in Suspended(t) : i \in Nat /\ i >= 1 /\ t[i] \in Frame
      /\ 1 \in Suspended(t) <=> f.fn # "each"
      /\ t[1] = f
      /\ \A i \in Suspended(s) : i + 1 \in Suspended(t) /\ t[i + 1] = s[i]
      /\ \A i \in Suspended(t) : i # 1 => i - 1 \in Suspended(s) /\ t[i] = s[i - 1]
  BY SuspendedTop
<1>2. /\ \A i \in Suspended(s) : Balanced(h, s[i].node) /\ Counted(h, s[i].node)
      /\ 1 \in Suspended(s) => h[s[1].node][s[1].at] = f.node
      /\ 1 \notin Suspended(s) => root = f.node
      /\ \A i \in Suspended(s) : i + 1 \notin Suspended(s) => root = s[i].node
  BY DEF Unchanged
<1>3. ASSUME NEW i \in Suspended(t), i + 1 \in Suspended(t)
      PROVE  h[t[i + 1].node][t[i + 1].at] = t[i].node
  <2>1. i \in Nat /\ i >= 1
    BY <1>1
  <2>2. i \in Suspended(s) /\ t[i + 1] = s[i]
    <3>1. i + 1 # 1 /\ (i + 1) - 1 = i
      BY <2>1
    <3> QED BY <1>1, <1>3, <3>1
  <2>3. CASE i = 1
    BY <1>1, <1>2, <2>2, <2>3
  <2>4. CASE i # 1
    <3>1. i - 1 \in Suspended(s) /\ t[i] = s[i - 1]
      BY <1>1, <2>4
    <3>2. (i - 1) + 1 = i
      BY <2>1
    <3>3. h[s[i].node][s[i].at] = s[i - 1].node
      BY <2>2, <3>1, <3>2 DEF Linked
    <3> QED BY <2>2, <3>1, <3>3
  <2> QED BY <2>3, <2>4
<1>4. ASSUME NEW i \in Suspended(t)
      PROVE  /\ Balanced(h, t[i].node) /\ Counted(h, t[i].node)
             /\ i + 1 \notin Suspended(t) => root = t[i].node
  <2>1. i \in Nat /\ i >= 1
    BY <1>1
  <2>2. CASE i = 1
    <3>1. 1 \in Suspended(s) => 1 + 1 \in Suspended(t)
      BY <1>1
    <3> QED BY <1>1, <1>2, <2>2, <3>1
  <2>3. CASE i # 1
    <3>1. i - 1 \in Suspended(s) /\ t[i] = s[i - 1] /\ (i - 1) + 1 = i
      BY <1>1, <2>1, <2>3
    <3>2. i \in Suspended(s) => i + 1 \in Suspended(t)
      BY <1>1
    <3> QED BY <1>2, <3>1, <3>2
  <2> QED BY <2>2, <2>3
<1>5. 1 \in Suspended(t)
  BY <1>1
<1> QED BY <1>1, <1>3, <1>4, <1>5 DEF Linked, Unchanged

LEMMA PathPop ==
  ASSUME NEW h, NEW f, NEW s, NEW t, Pushed(f, s, t), f.fn = "put", NEW root, NEW c,
         Linked(h, t), Unchanged(h, c, t, root)
  PROVE  Linked(h, s) /\ Unchanged(h, f.node, s, root)
<1>1. /\ \A i \in Suspended(s) : i \in Nat /\ i >= 1 /\ s[i] \in Frame
      /\ 1 \in Suspended(t) <=> f.fn # "each"
      /\ t[1] = f
      /\ \A i \in Suspended(s) : i + 1 \in Suspended(t) /\ t[i + 1] = s[i]
      /\ \A i \in Suspended(t) : i # 1 => i - 1 \in Suspended(s) /\ t[i] = s[i - 1]
  BY SuspendedTop
<1>2. /\ \A i \in Suspended(t) : Balanced(h, t[i].node) /\ Counted(h, t[i].node)
      /\ \A i \in Suspended(t) : i + 1 \notin Suspended(t) => root = t[i].node
  BY DEF Unchanged
<1>3. ASSUME NEW i \in Suspended(s), i + 1 \in Suspended(s)
      PROVE  h[s[i + 1].node][s[i + 1].at] = s[i].node
  <2>1. /\ i + 1 \in Suspended(t) /\ t[i + 1] = s[i]
        /\ (i + 1) + 1 \in Suspended(t) /\ t[(i + 1) + 1] = s[i + 1]
    BY <1>1, <1>3
  <2>2. h[t[(i + 1) + 1].node][t[(i + 1) + 1].at] = t[i + 1].node
    BY <2>1 DEF Linked
  <2> QED BY <2>1, <2>2
<1>4. ASSUME NEW i \in Suspended(s)
      PROVE  /\ Balanced(h, s[i].node) /\ Counted(h, s[i].node)
             /\ i + 1 \notin Suspended(s) => root = s[i].node
  <2>1. i + 1 \in Suspended(t) /\ t[i + 1] = s[i] /\ i \in Nat
    BY <1>1
  <2>2. (i + 1) + 1 \in Suspended(t) => i + 1 \in Suspended(s)
    <3>1. (i + 1) + 1 # 1 /\ ((i + 1) + 1) - 1 = i + 1
      BY <2>1
    <3> QED BY <1>1, <3>1
  <2> QED BY <1>2, <2>1, <2>2
<1>5. ASSUME 1 \in Suspended(s) PROVE h[s[1].node][s[1].at] = f.node
  <2>1. 1 + 1 \in Suspended(t) /\ t[1 + 1] = s[1] /\ 1 \in Suspended(t)
    BY <1>1, <1>5
  <2>2. h[t[1 + 1].node][t[1 + 1].at] = t[1].node
    BY <2>1 DEF Linked
  <2> QED BY <1>1, <2>1, <2>2
<1>6. ASSUME 1 \notin Suspended(s) PROVE root = f.node
  <2>1. 1 + 1 \notin Suspended(t)
    BY <1>1, <1>6
  <2>2. 1 \in Suspended(t)
    BY <1>1
  <2>3. root = t[1].node
    BY <1>2, <2>1, <2>2
  <2> QED BY <1>1, <2>3
<1> QED BY <1>3, <1>4, <1>5, <1>6 DEF Linked, Unchanged

\* A key that belongs inside a frame is no key of the frame.
LEMMA TowardApart ==
  ASSUME NEW h, HeapOK(h), NEW st \in Seq(Frame), NEW c, Zip(h, c, st), NEW key \in Key,
         NEW i \in Suspended(st), Toward(h, key, st[i]),
         NEW m \in {st[i].node} \cup Kept(h, st[i])
  PROVE  h[m].key \in Key /\ compar(key, h[m].key) # 0
<1>1. st[i] \in Frame /\ FrameOK(h, c, st[i])
  BY FrameAt DEF Suspended, Zip
<1>2. st[i].at \in Sides /\ Aside(h, st[i]) \in NodeOrEOT
  BY <1>1, FrameFields
<1>3. PICK n : n = st[i].node
  OBVIOUS
<1>4. h[n].key \in Key
  BY <1>1, <1>3 DEF FrameOK
<1>5. CASE m = n
  BY <1>3, <1>4, <1>5, KeyOrder DEF Toward
<1>6. CASE m \in Kept(h, st[i])
  <2>1. h[m].key \in Key /\ On(h, m, Other(st[i].at), n)
    BY <1>1, <1>2, <1>3, <1>6, GoodBelow DEF FrameOK, Kept
  <2>2. compar(h[m].key, h[n].key) \in Int /\ compar(key, h[n].key) \in Int
    BY <1>4, <2>1, KeyOrder
  <2>3. ASSUME compar(key, h[m].key) = 0 PROVE FALSE
    <3>1. /\ compar(key, h[n].key) < 0 <=> compar(h[m].key, h[n].key) < 0
          /\ compar(key, h[n].key) > 0 <=> compar(h[m].key, h[n].key) > 0
      BY <1>4, <2>1, <2>3, EqualKeys
    <3> QED BY <1>2, <1>3, <2>1, <2>2, <3>1 DEF Toward, On, Other, Sides
  <2> QED BY <2>1, <2>3
<1> QED BY <1>3, <1>5, <1>6

\* A key that compares equal may take the place of another.
LEMMA ReplacedGood ==
  ASSUME NEW h, HeapOK(h), NEW k, HeapOK(k), NEW n \in Node, Good(h, n),
         \A m \in NodeOrEOT : m # n => k[m] = h[m],
         k[n].left = h[n].left, k[n].right = h[n].right,
         k[n].level = h[n].level, k[n].nnode = h[n].nnode,
         k[n].key \in Key, compar(k[n].key, h[n].key) = 0
  PROVE  /\ Good(k, n) /\ Below(k, n) = Below(h, n) /\ h[n].key \in Key
         /\ \A m \in Below(h, n) : m # n => h[m].key \in Key /\ compar(k[n].key, h[m].key) # 0
<1>1. PICK l, r : l = h[n].left /\ r = h[n].right
  OBVIOUS
<1>2. /\ Fine(h, n) /\ Good(h, l) /\ Good(h, r)
      /\ l \in NodeOrEOT /\ r \in NodeOrEOT /\ n \in NodeOrEOT
      /\ Below(h, n) = {n} \cup Below(h, l) \cup Below(h, r)
  BY <1>1, GoodNode, BelowNode, NodeNotEOT
<1>3. /\ h[n].key \in Key
      /\ \A m \in Below(h, l) : On(h, m, "left", n) /\ h[m].key \in Key
      /\ \A m \in Below(h, r) : On(h, m, "right", n) /\ h[m].key \in Key
  BY <1>1, <1>2, GoodBelow DEF Fine, Ranked, Sides
<1>4. n \notin Below(h, l) /\ n \notin Below(h, r)
  BY <1>2, <1>3, NotBelow DEF Sides
<1>5. /\ \A m \in Below(h, l) : k[m] = h[m]
      /\ \A m \in Below(h, r) : k[m] = h[m]
  <2>1. Below(h, l) \subseteq NodeOrEOT /\ Below(h, r) \subseteq NodeOrEOT
    BY <1>2, BelowClosed DEF NodeOrEOT
  <2> QED BY <1>4, <2>1
<1>6. Below(k, l) = Below(h, l) /\ Good(k, l) /\ Below(k, r) = Below(h, r) /\ Good(k, r)
  BY <1>2, <1>5, GoodSame
<1>7. \A m \in NodeOrEOT : /\ k[m].level = h[m].level /\ k[m].nnode = h[m].nnode
                           /\ k[m].left = h[m].left /\ k[m].right = h[m].right
                           /\ h[m].left \in NodeOrEOT /\ h[m].right \in NodeOrEOT
  BY DEF HeapOK, SubtreeOf
<1>8. /\ \A m \in Below(h, l) : compar(h[m].key, k[n].key) < 0
      /\ \A m \in Below(h, r) : compar(h[m].key, k[n].key) > 0
  BY <1>3, EqualKeys DEF On
<1>9. Fine(k, n)
  <2>1. Ranked(k, n)
    BY <1>1, <1>5, <1>6, <1>8 DEF Ranked, On, Sides
  <2>2. Balanced(k, n) /\ Counted(k, n)
    BY <1>2, <1>7 DEF Fine, Balanced, LevelsFit, NoDoubleRight, Counted
  <2> QED BY <2>1, <2>2 DEF Fine
<1>10. Good(k, n)
  BY <1>1, <1>6, <1>9, GoodNode
<1>11. Below(k, n) = Below(h, n)
  BY <1>1, <1>2, <1>6, BelowNode
<1>12. \A m \in Below(h, n) : m # n => h[m].key \in Key /\ compar(k[n].key, h[m].key) # 0
  BY <1>2, <1>3, <1>8, KeyOrder
<1> QED BY <1>3, <1>10, <1>11, <1>12

\* Where the links, levels and counts are the same, so is the path.
LEMMA PathSame ==
  ASSUME NEW h, HeapOK(h), NEW k, HeapOK(k), NEW st \in Seq(Frame), NEW c, NEW root,
         Linked(h, st), Unchanged(h, c, st, root),
         \A m \in NodeOrEOT : /\ k[m].level = h[m].level /\ k[m].nnode = h[m].nnode
                              /\ k[m].left = h[m].left /\ k[m].right = h[m].right
  PROVE  Linked(k, st) /\ Unchanged(k, c, st, root)
<1>1. \A i \in Suspended(st) : st[i].node \in NodeOrEOT /\ st[i].at \in {"left", "right"}
  BY FrameAt, NodeNotEOT DEF Suspended, Frame
<1>2. \A m \in NodeOrEOT : h[m].left \in NodeOrEOT /\ h[m].right \in NodeOrEOT
  BY DEF HeapOK, SubtreeOf
<1>3. \A m \in NodeOrEOT : Balanced(h, m) /\ Counted(h, m) => Balanced(k, m) /\ Counted(k, m)
  BY <1>2 DEF Balanced, LevelsFit, NoDoubleRight, Counted
<1>4. \A i \in Suspended(st) : k[st[i].node][st[i].at] = h[st[i].node][st[i].at]
  BY <1>1
<1> QED BY <1>1, <1>3, <1>4 DEF Linked, Unchanged

\* What holds whenever a put is at work.
LEMMA PutFacts ==
  ASSUME IInv, TreeInv, pc \in {"put", "put_ret"}
  PROVE  /\ head # NULL /\ Root = cur /\ HeapOK(heap)
         /\ stack \in Seq(Frame) /\ cur \in NodeOrEOT /\ head \in NodeOrEOT
         /\ Puts(stack) /\ arg \in [key : Key, value : Value] /\ arg.key \in Key
         /\ Zip(heap, cur, stack) /\ Linked(heap, stack)
         /\ \A n \in Tree(heap, cur, stack) : PairOf(heap, n) \in Entitled
         /\ AscendingPuts => /\ live \subseteq Tree(heap, cur, stack)
                         /\ Covers(heap, Tree(heap, cur, stack), Entitled)
         /\ \E nodes \in SUBSET Node : OwnedBy(nodes)
<1>1. /\ head # NULL /\ HeapOK(heap)
      /\ stack \in Seq(Frame) /\ cur \in NodeOrEOT /\ head \in NodeOrEOT
  BY HeapIsOK DEF IInv, TypeOK
<1>2. Root = cur
  BY <1>1 DEF Root
<1> QED BY <1>1, <1>2 DEF TreeInv, Kinds, Zipped, Path, Paired, Owned, Whole

\* What is left to show of a step that stays inside the put.
LEMMA PutStays ==
  ASSUME IInv', pc' \in {"put", "put_ret"}, Kinds',
         NEW k, k = heap', NEW d, d = cur', NEW t, t = stack',
         Zip(k, d, t), Linked(k, t),
         Inserted' => /\ Levels(k, t)
                      /\ 1 \in Suspended(t) => Returned(k, t[1].node, t[1].at, d),
         ~ Inserted' => Unchanged(k, d, t, head'),
         pc' = "put" => \A i \in Suspended(t) : Toward(k, arg.key', t[i]),
         \A n \in Tree(k, d, t) : PairOf(k, n) \in Entitled',
         NEW nodes \in SUBSET Node, OwnedBy(nodes)',
         AscendingPuts =>
           /\ live' \subseteq Tree(k, d, t) /\ Covers(k, Tree(k, d, t), Entitled')
           /\ pc' = "put" => (Stored(arg.key) \/ AboveAll(arg.key))'
           /\ Inserted' => \A i \in Suspended(t) : t[i].at = "right"
  PROVE  TreeInv'
<1>1. Root' = d
  BY DEF Root, IInv, TypeOK
<1>2. Zipped' /\ Paired'
  BY <1>1 DEF Zipped, Paired
<1>3. Path'
  BY DEF Path
<1>4. Owned'
  BY DEF Owned
<1>5. Whole'
  BY <1>1 DEF Whole
<1> QED BY <1>2, <1>3, <1>4, <1>5 DEF TreeInv

LEMMA PutDescendTree ==
  ASSUME IInv, IInv', TreeInv, PutDescend
  PROVE  TreeInv'
<1>1. /\ head # NULL /\ Root = cur /\ HeapOK(heap)
      /\ stack \in Seq(Frame) /\ cur \in NodeOrEOT /\ head \in NodeOrEOT
      /\ Puts(stack) /\ arg \in [key : Key, value : Value] /\ arg.key \in Key
      /\ Zip(heap, cur, stack) /\ Linked(heap, stack)
      /\ \A n \in Tree(heap, cur, stack) : PairOf(heap, n) \in Entitled
      /\ AscendingPuts => /\ live \subseteq Tree(heap, cur, stack)
                      /\ Covers(heap, Tree(heap, cur, stack), Entitled)
      /\ \E nodes \in SUBSET Node : OwnedBy(nodes)
  BY PutFacts DEF PutDescend
<1>2. PICK at \in {"left", "right"} :
         /\ IF at = "left" THEN compar(arg.key, heap[cur].key) < 0
                           ELSE compar(arg.key, heap[cur].key) > 0
         /\ Push("put", cur, at)
         /\ cur' = heap[cur][at]
  BY DEF PutDescend
<1>3. /\ pc = "put" /\ pc' = "put" /\ status = "ok" /\ old = NoPair /\ cur # EOT
      /\ UNCHANGED <<head, heap, live, arg, status, old, bindings>>
  BY DEF PutDescend, TreeInv, Kinds
<1>4. PICK f : f = [fn |-> "put", node |-> cur, at |-> at]
  OBVIOUS
<1>5. f \in Frame /\ f.fn = "put" /\ f.node = cur /\ f.at = at
  BY <1>1, <1>2, <1>3, <1>4 DEF Frame, NodeOrEOT
<1>6. PICK t : t = stack'
  OBVIOUS
<1>7. Pushed(f, stack, t)
  BY <1>1, <1>2, <1>4, <1>5, <1>6, PushedPush DEF Push
<1>8. PICK c : c = heap[cur][at]
  OBVIOUS
<1>9. /\ Zip(heap, c, t) /\ Tree(heap, c, t) = Tree(heap, cur, stack)
      /\ Balanced(heap, cur) /\ Counted(heap, cur)
  <2>1. heap[f.node][f.at] = c
    BY <1>5, <1>8
  <2>2. Zip(heap, f.node, stack)
    BY <1>1, <1>5
  <2>3. /\ Zip(heap, heap[f.node][f.at], t)
        /\ Tree(heap, heap[f.node][f.at], t) = Tree(heap, f.node, stack)
        /\ Fine(heap, f.node)
    BY <1>1, <1>5, <1>7, <2>2, ZipPush
  <2> QED BY <1>5, <2>1, <2>3 DEF Fine
<1>10. Linked(heap, t) /\ Unchanged(heap, c, t, head)
  <2>1. Unchanged(heap, f.node, stack, head)
    BY <1>3, <1>5 DEF TreeInv, Path, Inserted
  <2>2. Linked(heap, t) /\ Unchanged(heap, heap[f.node][f.at], t, head)
    BY <1>1, <1>5, <1>7, <1>9, <2>1, PathPush
  <2> QED BY <1>5, <1>8, <2>2
<1>11. \A i \in Suspended(t) : Toward(heap, arg.key, t[i])
  <2>1. Toward(heap, arg.key, f)
    BY <1>2, <1>5 DEF Toward
  <2>2. \A i \in Suspended(stack) : Toward(heap, arg.key, stack[i])
    BY <1>3 DEF TreeInv, Path
  <2>3. t[1] = f /\ \A i \in Suspended(t) : i # 1 => i - 1 \in Suspended(stack) /\ t[i] = stack[i - 1]
    BY <1>7, SuspendedTop
  <2> QED BY <2>1, <2>2, <2>3
<1>12. Kinds'
  <2>1. Puts(t)
    BY <1>1, <1>5, <1>7, NodesTop
  <2> QED BY <1>1, <1>3, <1>6, <2>1 DEF Kinds
<1>13. PICK nodes \in SUBSET Node : OwnedBy(nodes)
  BY <1>1
<1>14. OwnedBy(nodes)'
  <2>1. Nodes(t) = {cur} \cup Nodes(stack)
    BY <1>5, <1>7, NodesTop
  <2>2. cur \in nodes
    BY <1>1, <1>3, <1>13, NotNull DEF OwnedBy
  <2>3. c \in nodes \cup {EOT}
    BY <1>2, <1>8, <1>13, <2>2 DEF OwnedBy, Closed
  <2> QED BY <1>2, <1>3, <1>6, <1>8, <1>13, <2>1, <2>2, <2>3 DEF OwnedBy
<1>15. \A n \in Tree(heap, c, t) : PairOf(heap, n) \in Entitled'
  BY <1>1, <1>3, <1>9 DEF Entitled
<1>16. ~ Inserted' /\ heap = heap' /\ c = cur' /\ arg.key' = arg.key /\ head' = head
  BY <1>2, <1>3, <1>8 DEF Inserted
<1>17. Unchanged(heap, c, t, head') /\ \A i \in Suspended(t) : Toward(heap, arg.key', t[i])
  BY <1>10, <1>11, <1>16
<1>18. AscendingPuts =>
         /\ live' \subseteq Tree(heap, c, t) /\ Covers(heap, Tree(heap, c, t), Entitled')
         /\ (Stored(arg.key) \/ AboveAll(arg.key))'
  <2>1. Entitled' = Entitled
    BY <1>3 DEF Entitled
  <2>2. AscendingPuts => Stored(arg.key) \/ AboveAll(arg.key)
    BY <1>3 DEF TreeInv, Whole
  <2>3. (Stored(arg.key) \/ AboveAll(arg.key))' <=> Stored(arg.key) \/ AboveAll(arg.key)
    BY <1>3 DEF Stored, AboveAll
  <2> QED BY <1>1, <1>3, <1>9, <2>1, <2>2, <2>3
<1> QED BY <1>3, <1>6, <1>9, <1>10, <1>12, <1>14, <1>15, <1>16, <1>17, <1>18, PutStays

LEMMA PutNoMemoryTree ==
  ASSUME IInv, IInv', TreeInv, PutNoMemory
  PROVE  TreeInv'
<1>1. /\ head # NULL /\ Root = cur /\ HeapOK(heap)
      /\ stack \in Seq(Frame) /\ cur \in NodeOrEOT /\ head \in NodeOrEOT
      /\ Puts(stack) /\ arg \in [key : Key, value : Value] /\ arg.key \in Key
      /\ Zip(heap, cur, stack) /\ Linked(heap, stack)
      /\ \A n \in Tree(heap, cur, stack) : PairOf(heap, n) \in Entitled
      /\ AscendingPuts => /\ live \subseteq Tree(heap, cur, stack)
                      /\ Covers(heap, Tree(heap, cur, stack), Entitled)
      /\ \E nodes \in SUBSET Node : OwnedBy(nodes)
  BY PutFacts DEF PutNoMemory
<1>2. /\ pc = "put" /\ pc' = "put_ret" /\ status' = "enomem"
      /\ UNCHANGED <<head, heap, live, cur, stack, arg, bindings>>
  BY DEF PutNoMemory
<1>3. Kinds'
  BY <1>1, <1>2 DEF Kinds
<1>4. PICK nodes \in SUBSET Node : OwnedBy(nodes)
  BY <1>1
<1>5. OwnedBy(nodes)'
  BY <1>2, <1>4 DEF OwnedBy
<1>6. ~ Inserted' /\ Unchanged(heap, cur, stack, head')
  BY <1>2 DEF TreeInv, Path, Inserted
<1>7. \A n \in Tree(heap, cur, stack) : PairOf(heap, n) \in Entitled'
  BY <1>1, <1>2 DEF Entitled
<1>8. heap = heap' /\ cur = cur' /\ stack = stack' /\ pc' \in {"put", "put_ret"} /\ pc' # "put"
  BY <1>2
<1>9. AscendingPuts => /\ live' \subseteq Tree(heap, cur, stack)
                   /\ Covers(heap, Tree(heap, cur, stack), Entitled')
  <2>1. Entitled' = Entitled
    BY <1>2 DEF Entitled
  <2> QED BY <1>1, <1>2, <2>1
<1> QED BY <1>1, <1>3, <1>5, <1>6, <1>7, <1>8, <1>9, PutStays

\* The new pair is in order where the old one was, and nowhere else is its
\* key.
LEMMA PutReplaceTree ==
  ASSUME IInv, IInv', TreeInv, PutReplace
  PROVE  TreeInv'
<1>1. /\ head # NULL /\ Root = cur /\ HeapOK(heap)
      /\ stack \in Seq(Frame) /\ cur \in NodeOrEOT /\ head \in NodeOrEOT
      /\ Puts(stack) /\ arg \in [key : Key, value : Value] /\ arg.key \in Key
      /\ Zip(heap, cur, stack) /\ Linked(heap, stack)
      /\ \A n \in Tree(heap, cur, stack) : PairOf(heap, n) \in Entitled
      /\ AscendingPuts => /\ live \subseteq Tree(heap, cur, stack)
                      /\ Covers(heap, Tree(heap, cur, stack), Entitled)
      /\ \E nodes \in SUBSET Node : OwnedBy(nodes)
  BY PutFacts DEF PutReplace
<1>2. /\ pc = "put" /\ pc' = "put_ret" /\ status = "ok" /\ cur # EOT /\ cur \in Node
      /\ compar(arg.key, heap[cur].key) = 0
      /\ old' = [key |-> heap[cur].key, value |-> heap[cur].value]
      /\ UNCHANGED <<head, live, cur, stack, arg, status, bindings>>
  BY <1>1 DEF PutReplace, TreeInv, Kinds, NodeOrEOT
<1>3. PICK k : k = heap'
  OBVIOUS
<1>4. /\ HeapOK(k)
      /\ \A m \in NodeOrEOT : m # cur => k[m] = heap[m]
      /\ k[cur].left = heap[cur].left /\ k[cur].right = heap[cur].right
      /\ k[cur].level = heap[cur].level /\ k[cur].nnode = heap[cur].nnode
      /\ k[cur].key = arg.key /\ k[cur].value = arg.value
  <2>1. HeapOK(k)
    BY <1>3 DEF IInv, TypeOK, SentinelIntact, HeapOK
  <2>2. heap[cur] \in SubtreeOf
    BY <1>1 DEF HeapOK
  <2>3. /\ \A m \in NodeOrEOT : m # cur => k[m] = heap[m]
        /\ k[cur] = [heap[cur] EXCEPT !.key = arg.key, !.value = arg.value]
    BY <1>1, <1>3 DEF PutReplace, HeapOK
  <2> QED BY <2>1, <2>2, <2>3 DEF SubtreeOf
<1>5. /\ Good(k, cur) /\ Below(k, cur) = Below(heap, cur) /\ heap[cur].key \in Key
      /\ \A m \in Below(heap, cur) : m # cur => heap[m].key \in Key /\ compar(arg.key, heap[m].key) # 0
  <2>1. Good(heap, cur)
    BY <1>1 DEF Zip
  <2>2. k[cur].key \in Key /\ compar(k[cur].key, heap[cur].key) = 0
    BY <1>1, <1>2, <1>4
  <2>3. /\ Good(k, cur) /\ Below(k, cur) = Below(heap, cur) /\ heap[cur].key \in Key
        /\ \A m \in Below(heap, cur) : m # cur => heap[m].key \in Key /\ compar(k[cur].key, heap[m].key) # 0
    BY <1>1, <1>2, <1>4, <2>1, <2>2, ReplacedGood
  <2> QED BY <1>4, <2>3
<1>6. cur \in Below(heap, cur) /\ Below(heap, cur) \subseteq NodeOrEOT
  BY <1>1, <1>2, BelowNode, BelowClosed DEF NodeOrEOT
<1>7. ASSUME NEW i \in Suspended(stack)
      PROVE  /\ k[stack[i].node] = heap[stack[i].node]
             /\ \A m \in Kept(heap, stack[i]) : k[m] = heap[m]
             /\ \A m \in Below(k, cur) : On(k, m, stack[i].at, stack[i].node)
  <2>1. stack[i] \in Frame /\ FrameOK(heap, cur, stack[i])
    BY <1>1, FrameAt DEF Suspended, Zip
  <2>2. /\ stack[i].at \in Sides /\ Aside(heap, stack[i]) \in NodeOrEOT /\ stack[i].node \in NodeOrEOT
        /\ heap[stack[i].node].key \in Key
    BY <1>1, <2>1, FrameFields DEF FrameOK
  <2>3. On(heap, cur, stack[i].at, stack[i].node)
    BY <1>6, <2>1 DEF FrameOK
  <2>4. ~ On(heap, cur, Other(stack[i].at), stack[i].node) /\ cur # stack[i].node
    BY <1>5, <2>2, <2>3, OnTurn
  <2>5. cur \notin Kept(heap, stack[i]) /\ Kept(heap, stack[i]) \subseteq NodeOrEOT
    BY <1>1, <2>1, <2>2, <2>4, BelowClosed DEF FrameOK, Kept, NodeOrEOT
  <2>6. k[stack[i].node] = heap[stack[i].node]
    BY <1>4, <2>2, <2>4
  <2>7. \A m \in Below(heap, cur) : On(k, m, stack[i].at, stack[i].node)
    <3>1. \A m \in Below(heap, cur) : On(heap, m, stack[i].at, stack[i].node)
      BY <2>1 DEF FrameOK
    <3>2. On(k, cur, stack[i].at, stack[i].node)
      BY <1>1, <1>2, <1>4, <1>5, <2>2, <2>3, <2>6, EqualKeys DEF On
    <3>3. \A m \in Below(heap, cur) : m # cur => k[m] = heap[m]
      BY <1>4, <1>6
    <3> QED BY <2>6, <3>1, <3>2, <3>3 DEF On
  <2> QED BY <1>4, <1>5, <2>5, <2>6, <2>7
<1>8. /\ Zip(k, cur, stack) /\ Held(k, stack) = Held(heap, stack)
      /\ \A i \in Suspended(stack) : Kept(k, stack[i]) = Kept(heap, stack[i])
  BY <1>1, <1>4, <1>5, <1>7, ZipSame
<1>9. \A m \in NodeOrEOT : /\ k[m].level = heap[m].level /\ k[m].nnode = heap[m].nnode
                           /\ k[m].left = heap[m].left /\ k[m].right = heap[m].right
  BY <1>4
<1>10. Linked(k, stack) /\ Unchanged(k, cur, stack, head)
  <2>1. Unchanged(heap, cur, stack, head)
    BY <1>2 DEF TreeInv, Path, Inserted
  <2> QED BY <1>1, <1>4, <1>9, <2>1, PathSame
<1>11. \A n \in Tree(k, cur, stack) : PairOf(k, n) \in Entitled'
  <2>1. Entitled' = {b \in bindings : compar(arg.key, b.key) # 0} \cup {arg}
    BY <1>2 DEF Entitled
  <2>2. PairOf(k, cur) = arg
    BY <1>1, <1>4 DEF PairOf
  <2>3. ASSUME NEW n \in Tree(k, cur, stack), n # cur
        PROVE  PairOf(heap, n) \in bindings /\ k[n] = heap[n] /\ compar(arg.key, heap[n].key) # 0
    <3>1. n \in Tree(heap, cur, stack)
      BY <1>5, <1>8, <2>3 DEF Tree
    <3>2. PairOf(heap, n) \in bindings
      BY <1>1, <1>2, <3>1 DEF Entitled
    <3>3. CASE n \in Below(heap, cur)
      BY <1>4, <1>5, <1>6, <2>3, <3>2, <3>3
    <3>4. CASE n \in Held(heap, stack)
      <4>1. PICK i \in Suspended(stack) : n \in {stack[i].node} \cup Kept(heap, stack[i])
        BY <3>4 DEF Held
      <4>2. k[n] = heap[n]
        BY <1>7, <4>1
      <4>3. Toward(heap, arg.key, stack[i])
        BY <1>2 DEF TreeInv, Path
      <4> QED BY <1>1, <3>2, <4>1, <4>2, <4>3, TowardApart
    <3> QED BY <3>1, <3>3, <3>4 DEF Tree
  <2> QED BY <2>1, <2>2, <2>3 DEF PairOf
<1>12. Kinds'
  BY <1>1, <1>2 DEF Kinds
<1>13. PICK nodes \in SUBSET Node : OwnedBy(nodes)
  BY <1>1
<1>14. OwnedBy(nodes)'
  <2>1. nodes \subseteq NodeOrEOT
    BY DEF NodeOrEOT
  <2>2. Closed(k, nodes)
    BY <1>9, <1>13, <2>1 DEF OwnedBy, Closed
  <2> QED BY <1>2, <1>3, <1>13, <2>2 DEF OwnedBy
<1>15. ~ Inserted'
  BY <1>2, <1>5, ConstantsAssumption DEF Inserted, NoPair
<1>16. cur = cur' /\ stack = stack' /\ pc' \in {"put", "put_ret"} /\ pc' # "put" /\ head' = head
  BY <1>2
<1>17. Unchanged(k, cur, stack, head')
  BY <1>10, <1>16
<1>18. Tree(k, cur, stack) = Tree(heap, cur, stack) /\ cur \in Tree(heap, cur, stack)
  BY <1>5, <1>6, <1>8 DEF Tree
<1>19. ASSUME AscendingPuts
       PROVE  live' \subseteq Tree(k, cur, stack) /\ Covers(k, Tree(k, cur, stack), Entitled')
  <2>1. live' \subseteq Tree(k, cur, stack)
    BY <1>1, <1>2, <1>18, <1>19
  <2>2. Entitled' = {b \in bindings : compar(arg.key, b.key) # 0} \cup {arg} /\ Entitled = bindings
    BY <1>2 DEF Entitled
  <2>3. PairOf(k, cur) = arg
    BY <1>1, <1>4 DEF PairOf
  <2>4. ASSUME NEW b \in bindings, compar(arg.key, b.key) # 0
        PROVE  \E n \in Tree(k, cur, stack) : PairOf(k, n) = b
    <3>1. PICK n \in Tree(heap, cur, stack) : PairOf(heap, n) = b
      BY <1>1, <1>19, <2>2 DEF Covers
    <3>2. n # cur
      BY <1>2, <2>4, <3>1 DEF PairOf
    <3>3. k[n] = heap[n]
      <4>1. CASE n \in Below(heap, cur)
        BY <1>4, <1>6, <3>2, <4>1
      <4>2. CASE n \in Held(heap, stack)
        BY <1>7, <4>2 DEF Held
      <4> QED BY <3>1, <4>1, <4>2 DEF Tree
    <3> QED BY <1>18, <3>1, <3>3 DEF PairOf
  <2> QED BY <1>18, <2>1, <2>2, <2>3, <2>4 DEF Covers
<1> QED BY <1>3, <1>8, <1>10, <1>11, <1>12, <1>14, <1>15, <1>16, <1>17, <1>19, PutStays

\* A new leaf, at the end of a path that its key followed.
LEMMA PutAttachTree ==
  ASSUME IInv, IInv', TreeInv, PutAttach
  PROVE  TreeInv'
<1>1. /\ head # NULL /\ Root = cur /\ HeapOK(heap)
      /\ stack \in Seq(Frame) /\ cur \in NodeOrEOT /\ head \in NodeOrEOT
      /\ Puts(stack) /\ arg \in [key : Key, value : Value] /\ arg.key \in Key
      /\ Zip(heap, cur, stack) /\ Linked(heap, stack)
      /\ \A n \in Tree(heap, cur, stack) : PairOf(heap, n) \in Entitled
      /\ AscendingPuts => /\ live \subseteq Tree(heap, cur, stack)
                      /\ Covers(heap, Tree(heap, cur, stack), Entitled)
      /\ \E nodes \in SUBSET Node : OwnedBy(nodes)
  BY PutFacts DEF PutAttach
<1>2. /\ pc = "put" /\ pc' = "put_ret" /\ status = "ok" /\ old = NoPair /\ cur = EOT
      /\ UNCHANGED <<head, stack, arg, status, old, bindings>>
  BY DEF PutAttach, TreeInv, Kinds
<1>3. PICK n \in Node \ live :
         /\ live' = live \cup {n}
         /\ heap' = [heap EXCEPT ![n] = node_init(arg.key, arg.value)]
         /\ cur' = n
  <2>1. allocate(Node \ live) \subseteq Node \ live
    BY AllocateAssumption
  <2> QED BY <2>1 DEF PutAttach
<1>4. PICK k : k = heap'
  OBVIOUS
<1>5. /\ HeapOK(k) /\ n \in NodeOrEOT /\ n # EOT
      /\ \A m \in NodeOrEOT : m # n => k[m] = heap[m]
      /\ k[n].left = EOT /\ k[n].right = EOT /\ k[n].level = 1 /\ k[n].nnode = 1
      /\ k[n].key = arg.key /\ k[n].value = arg.value
  <2>1. HeapOK(k)
    BY <1>4 DEF IInv, TypeOK, SentinelIntact, HeapOK
  <2>2. n \in NodeOrEOT /\ n # EOT
    BY NodeNotEOT
  <2>3. /\ \A m \in NodeOrEOT : m # n => k[m] = heap[m]
        /\ k[n] = node_init(arg.key, arg.value)
    BY <1>1, <1>3, <1>4, <2>2 DEF HeapOK
  <2> QED BY <2>1, <2>2, <2>3 DEF node_init
<1>6. /\ heap[EOT] = k[EOT] /\ heap[EOT].level = 0 /\ heap[EOT].nnode = 0
      /\ heap[EOT].right = EOT /\ heap[EOT].left = EOT
  BY <1>1, <1>5 DEF HeapOK, Sentinel
<1>7. Good(k, n) /\ Below(k, n) = {n}
  <2>1. Below(k, n) = {n}
    BY <1>5, BelowNode, BelowNone
  <2>2. Ranked(k, n)
    BY <1>1, <1>5, BelowNone DEF Ranked, Sides
  <2>3. Balanced(k, n) /\ Counted(k, n)
    BY <1>5, <1>6 DEF Balanced, LevelsFit, NoDoubleRight, Counted
  <2> QED BY <2>1, <2>2, <2>3 DEF Good, Fine
<1>8. PICK nodes \in SUBSET Node : OwnedBy(nodes)
  BY <1>1
<1>9. nodes \subseteq NodeOrEOT /\ n \notin nodes /\ Closed(heap, nodes)
  BY <1>8 DEF OwnedBy, NodeOrEOT
<1>10. ASSUME NEW i \in Suspended(stack)
       PROVE  /\ stack[i] \in Frame /\ stack[i].node \in nodes
              /\ Kept(heap, stack[i]) \subseteq nodes
              /\ k[stack[i].node] = heap[stack[i].node]
              /\ \A m \in Kept(heap, stack[i]) : k[m] = heap[m]
              /\ Toward(heap, arg.key, stack[i])
  <2>1. stack[i] \in Frame /\ stack[i].node \in nodes
    BY <1>1, <1>8, FrameAt DEF OwnedBy, Nodes, Suspended
  <2>2. Aside(heap, stack[i]) \in nodes \cup {EOT}
    <3>1. stack[i].at \in {"left", "right"}
      BY <2>1 DEF Frame
    <3> QED BY <1>9, <2>1, <3>1 DEF Aside, Other, Closed
  <2>3. Kept(heap, stack[i]) \subseteq nodes
    BY <1>9, <2>2, BelowLeast DEF Kept
  <2>4. Toward(heap, arg.key, stack[i])
    BY <1>2 DEF TreeInv, Path
  <2> QED BY <1>5, <1>9, <2>1, <2>3, <2>4
<1>11. \A i \in Suspended(stack) : \A m \in Below(k, n) : On(k, m, stack[i].at, stack[i].node)
  BY <1>5, <1>7, <1>10 DEF On, Toward
<1>12. /\ Zip(k, n, stack) /\ Held(k, stack) = Held(heap, stack)
  BY <1>1, <1>5, <1>7, <1>10, <1>11, ZipSame
<1>13. ASSUME NEW m \in nodes
       PROVE  /\ k[m] = heap[m]
              /\ Balanced(heap, m) => Balanced(k, m)
  <2>1. heap[m].left \in nodes \cup {EOT} /\ heap[m].right \in nodes \cup {EOT}
    BY <1>9 DEF Closed
  <2>2. heap[heap[m].right].right \in nodes \cup {EOT}
    BY <1>6, <1>9, <2>1 DEF Closed
  <2>3. \A x \in nodes \cup {EOT} : k[x] = heap[x]
    BY <1>5, <1>6, <1>9
  <2> QED BY <2>1, <2>2, <2>3 DEF Balanced, LevelsFit, NoDoubleRight
<1>14. /\ \A i \in Suspended(stack) : Balanced(heap, stack[i].node)
       /\ 1 \in Suspended(stack) => heap[stack[1].node][stack[1].at] = EOT
  BY <1>2 DEF TreeInv, Path, Inserted, Unchanged
<1>15. Linked(k, stack) /\ Levels(k, stack)
  BY <1>1, <1>10, <1>13, <1>14 DEF Linked, Levels, Balanced
<1>16. ASSUME 1 \in Suspended(stack) PROVE Returned(k, stack[1].node, stack[1].at, n)
  <2>1. k[stack[1].node][stack[1].at] = EOT
    BY <1>10, <1>14, <1>16
  <2>2. k[stack[1].node].level \in Nat /\ k[stack[1].node].level >= 1
    BY <1>5, <1>9, <1>10, <1>16 DEF HeapOK, SubtreeOf
  <2> QED BY <1>5, <1>6, <2>1, <2>2 DEF Returned
<1>17. \A m \in Tree(k, n, stack) : PairOf(k, m) \in Entitled'
  <2>1. Entitled' = {b \in bindings : compar(arg.key, b.key) # 0} \cup {arg}
    BY <1>2 DEF Entitled
  <2>2. PairOf(k, n) = arg
    BY <1>1, <1>5 DEF PairOf
  <2>3. ASSUME NEW m \in Held(heap, stack)
        PROVE  PairOf(heap, m) \in bindings /\ k[m] = heap[m] /\ compar(arg.key, heap[m].key) # 0
    <3>1. PairOf(heap, m) \in bindings
      BY <1>1, <1>2 DEF Entitled, Tree
    <3>2. PICK i \in Suspended(stack) : m \in {stack[i].node} \cup Kept(heap, stack[i])
      BY DEF Held
    <3> QED BY <1>1, <1>10, <3>1, <3>2, TowardApart
  <2>4. Tree(k, n, stack) = {n} \cup Held(heap, stack)
    BY <1>7, <1>12 DEF Tree
  <2> QED BY <2>1, <2>2, <2>3, <2>4 DEF PairOf
<1>18. Kinds'
  BY <1>1, <1>2 DEF Kinds
<1>19. PICK more : more = nodes \cup {n}
  OBVIOUS
<1>20. more \in SUBSET Node /\ OwnedBy(more)'
  <2>1. Closed(k, more)
    BY <1>5, <1>9, <1>13, <1>19 DEF Closed
  <2> QED BY <1>2, <1>3, <1>4, <1>8, <1>19, <2>1 DEF OwnedBy
<1>21. Inserted' /\ n = cur' /\ stack = stack' /\ pc' \in {"put", "put_ret"} /\ pc' # "put"
  BY <1>2, <1>3 DEF Inserted
<1>22. Tree(k, n, stack) = {n} \cup Held(heap, stack) /\ Tree(heap, cur, stack) = Held(heap, stack)
  BY <1>2, <1>7, <1>12, BelowNone DEF Tree
<1>23. ASSUME NEW m \in Held(heap, stack)
       PROVE  k[m] = heap[m] /\ compar(arg.key, heap[m].key) # 0
  <2>1. PICK i \in Suspended(stack) : m \in {stack[i].node} \cup Kept(heap, stack[i])
    BY DEF Held
  <2> QED BY <1>1, <1>10, <2>1, TowardApart
<1>24. ASSUME AscendingPuts
       PROVE  /\ live' \subseteq Tree(k, n, stack) /\ Covers(k, Tree(k, n, stack), Entitled')
              /\ \A i \in Suspended(stack) : stack[i].at = "right"
  <2>1. live' \subseteq Tree(k, n, stack)
    BY <1>1, <1>3, <1>22, <1>24
  <2>2. Entitled' = {b \in bindings : compar(arg.key, b.key) # 0} \cup {arg} /\ Entitled = bindings
    BY <1>2 DEF Entitled
  <2>3. PairOf(k, n) = arg
    BY <1>1, <1>5 DEF PairOf
  <2>4. \A b \in bindings : \E m \in Held(heap, stack) : PairOf(heap, m) = b
    BY <1>1, <1>22, <1>24, <2>2 DEF Covers
  <2>5. Covers(k, Tree(k, n, stack), Entitled')
    <3>1. \A b \in bindings : \E m \in Held(heap, stack) : PairOf(k, m) = b
      BY <1>23, <2>4 DEF PairOf
    <3> QED BY <1>22, <2>2, <2>3, <3>1 DEF Covers
  <2>6. AboveAll(arg.key)
    <3>1. ~ Stored(arg.key)
      BY <1>23, <2>4 DEF Stored, PairOf
    <3> QED BY <1>2, <1>24, <3>1 DEF TreeInv, Whole
  <2>7. ASSUME NEW i \in Suspended(stack) PROVE stack[i].at = "right"
    <3>1. stack[i].node \in Held(heap, stack) /\ stack[i] \in Frame
      BY <1>10 DEF Held
    <3>2. PairOf(heap, stack[i].node) \in bindings
      BY <1>1, <1>22, <2>2, <3>1
    <3>3. compar(arg.key, heap[stack[i].node].key) > 0
      BY <2>6, <3>2 DEF AboveAll, PairOf
    <3>4. heap[stack[i].node].key \in Key
      BY <1>1 DEF Zip, FrameOK
    <3>5. ~ (compar(arg.key, heap[stack[i].node].key) < 0)
      BY <1>1, <3>3, <3>4, KeyOrder
    <3>6. Toward(heap, arg.key, stack[i])
      BY <1>10
    <3> QED BY <3>1, <3>5, <3>6 DEF Toward, Frame
  <2> QED BY <2>1, <2>5, <2>7
<1> QED BY <1>4, <1>12, <1>15, <1>16, <1>17, <1>18, <1>20, <1>21, <1>24, PutStays

\* A put that inserted nothing changes nothing on its way back.
LEMMA UnwindIdle ==
  ASSUME IInv, TreeInv, PutUnwind, ~ Inserted
  PROVE  heap' = heap /\ cur' = Top.node
<1>1. /\ head # NULL /\ Root = cur /\ HeapOK(heap)
      /\ stack \in Seq(Frame) /\ cur \in NodeOrEOT /\ head \in NodeOrEOT
      /\ Puts(stack) /\ arg \in [key : Key, value : Value] /\ arg.key \in Key
      /\ Zip(heap, cur, stack) /\ Linked(heap, stack)
      /\ \A n \in Tree(heap, cur, stack) : PairOf(heap, n) \in Entitled
      /\ AscendingPuts => /\ live \subseteq Tree(heap, cur, stack)
                      /\ Covers(heap, Tree(heap, cur, stack), Entitled)
      /\ \E nodes \in SUBSET Node : OwnedBy(nodes)
  BY PutFacts DEF PutUnwind
<1>2. PICK f : f = Top
  OBVIOUS
<1>3. pc = "put_ret" /\ stack # <<>> /\ f.fn = "put"
  BY <1>2 DEF PutUnwind, Running
<1>4. Pushed(f, Tail(stack), stack)
  BY <1>1, <1>2, <1>3, PushedPop DEF Top
<1>5. 1 \in Suspended(stack) /\ stack[1] = f /\ f \in Frame
  BY <1>3, <1>4, SuspendedTop
<1>6. f.node \in Node /\ f.at \in Sides
  BY <1>1, <1>5, FrameFields
<1>7. Unchanged(heap, cur, stack, head)
  BY <1>3 DEF TreeInv, Path
<1>8. heap[f.node][f.at] = cur /\ Balanced(heap, f.node) /\ Counted(heap, f.node)
  BY <1>5, <1>7 DEF Unchanged
<1>9. /\ Unwound(heap, f.node, f.at, cur).heap = heap
      /\ Unwound(heap, f.node, f.at, cur).root = f.node
  BY <1>1, <1>6, <1>8, UnwoundIdle
<1>10. /\ heap' = Unwound(heap, f.node, f.at, cur).heap
       /\ cur' = Unwound(heap, f.node, f.at, cur).root
  BY <1>2 DEF PutUnwind, Unwound, Hung
<1> QED BY <1>2, <1>9, <1>10

LEMMA PutUnwindTree ==
  ASSUME IInv, IInv', TreeInv, PutUnwind
  PROVE  TreeInv'
<1>1. /\ head # NULL /\ Root = cur /\ HeapOK(heap)
      /\ stack \in Seq(Frame) /\ cur \in NodeOrEOT /\ head \in NodeOrEOT
      /\ Puts(stack) /\ arg \in [key : Key, value : Value] /\ arg.key \in Key
      /\ Zip(heap, cur, stack) /\ Linked(heap, stack)
      /\ \A n \in Tree(heap, cur, stack) : PairOf(heap, n) \in Entitled
      /\ AscendingPuts => /\ live \subseteq Tree(heap, cur, stack)
                      /\ Covers(heap, Tree(heap, cur, stack), Entitled)
      /\ \E nodes \in SUBSET Node : OwnedBy(nodes)
  BY PutFacts DEF PutUnwind
<1>2. PICK f, s : f = Top /\ s = Tail(stack)
  OBVIOUS
<1>3. /\ pc = "put_ret" /\ pc' = "put_ret" /\ stack # <<>> /\ f.fn = "put" /\ stack' = s
      /\ UNCHANGED <<head, live, pc, arg, status, old, bindings>>
  BY <1>2 DEF PutUnwind, Running, Pop
<1>4. Pushed(f, s, stack)
  BY <1>1, <1>2, <1>3, PushedPop DEF Top
<1>5. f \in Frame /\ f.node \in Node /\ f.node \in NodeOrEOT /\ f.at \in Sides /\ f.fn # "each"
  <2>1. f \in Frame
    BY <1>4 DEF Pushed
  <2> QED BY <1>1, <1>3, <2>1, FrameFields
<1>6. PICK k, root : /\ k = Unwound(heap, f.node, f.at, cur).heap
                     /\ root = Unwound(heap, f.node, f.at, cur).root
  OBVIOUS
<1>7. k = heap' /\ root = cur' /\ HeapOK(k) /\ root \in NodeOrEOT
  <2>1. k = heap' /\ root = cur'
    BY <1>2, <1>6 DEF PutUnwind, Unwound, Hung
  <2> QED BY <2>1 DEF IInv, TypeOK, SentinelIntact, HeapOK
<1>8. 1 \in Suspended(stack) /\ stack[1] = f
  BY <1>4, <1>5, SuspendedTop
<1>9. Kinds'
  <2>1. Puts(s)
    BY <1>1, <1>4, <1>5, PutFrames
  <2> QED BY <1>1, <1>3, <2>1 DEF Kinds, TreeInv
<1>10. Entitled' = Entitled /\ (Inserted' <=> Inserted) /\ head' = head
  BY <1>3 DEF Entitled, Inserted
<1>11. PICK nodes \in SUBSET Node : OwnedBy(nodes)
  BY <1>1
<1>12. OwnedBy(nodes)'
  <2>1. Nodes(stack) = {f.node} \cup Nodes(s)
    BY <1>4, NodesTop
  <2>2. f.node \in nodes /\ cur \in nodes \cup {EOT} /\ Closed(heap, nodes)
    BY <1>1, <1>11, <2>1, NotNull DEF OwnedBy
  <2>3. Closed(Unwound(heap, f.node, f.at, cur).heap, nodes) /\ Unwound(heap, f.node, f.at, cur).root \in nodes
    BY <1>1, <1>5, <2>2, UnwoundClosed
  <2>4. Closed(k, nodes) /\ root \in nodes
    BY <1>6, <2>3
  <2> QED BY <1>3, <1>7, <1>11, <2>1, <2>4 DEF OwnedBy
<1>13. CASE Inserted
  <2>1. Levels(heap, stack) /\ Returned(heap, f.node, f.at, cur)
    BY <1>3, <1>8, <1>13 DEF TreeInv, Path
  <2>2. /\ Zip(k, root, s) /\ Tree(k, root, s) \subseteq Tree(heap, cur, stack)
        /\ \A m \in NodeOrEOT : k[m].key = heap[m].key /\ k[m].value = heap[m].value
        /\ Linked(k, s) /\ Levels(k, s)
        /\ 1 \in Suspended(s) => Returned(k, s[1].node, s[1].at, root)
        /\ f.at = "right" => Tree(k, root, s) = Tree(heap, cur, stack)
    BY <1>1, <1>4, <1>5, <1>6, <2>1, UnwoundPath
  <2>3. Tree(k, root, s) \subseteq NodeOrEOT
    <3>1. Below(k, root) \subseteq NodeOrEOT
      BY <1>7, BelowClosed DEF NodeOrEOT
    <3>2. Held(k, s) \subseteq NodeOrEOT
      <4>1. ASSUME NEW i \in Suspended(s) PROVE {s[i].node} \cup Kept(k, s[i]) \subseteq NodeOrEOT
        <5>1. s[i] \in Frame
          BY <1>4, SuspendedTop
        <5>2. s[i].node \in NodeOrEOT /\ Aside(k, s[i]) \in NodeOrEOT
          BY <1>7, <5>1, FrameFields
        <5> QED BY <1>7, <5>2, BelowClosed DEF Kept, NodeOrEOT
      <4> QED BY <4>1 DEF Held
    <3> QED BY <3>1, <3>2 DEF Tree
  <2>4. \A n \in Tree(k, root, s) : PairOf(k, n) \in Entitled'
    BY <1>1, <1>10, <2>2, <2>3 DEF PairOf
  <2>5. Inserted' /\ pc' # "put"
    BY <1>3, <1>10, <1>13
  <2>6. ASSUME AscendingPuts
        PROVE  /\ live' \subseteq Tree(k, root, s) /\ Covers(k, Tree(k, root, s), Entitled')
               /\ \A i \in Suspended(s) : s[i].at = "right"
    <3>1. \A i \in Suspended(stack) : stack[i].at = "right"
      BY <1>13, <2>6 DEF TreeInv, Whole
    <3>2. Tree(k, root, s) = Tree(heap, cur, stack)
      BY <1>8, <2>2, <3>1
    <3>3. \A i \in Suspended(s) : i + 1 \in Suspended(stack) /\ stack[i + 1] = s[i]
      BY <1>4, SuspendedTop
    <3>4. \A m \in Tree(k, root, s) : PairOf(k, m) = PairOf(heap, m)
      BY <2>2, <2>3 DEF PairOf
    <3> QED BY <1>1, <1>3, <1>10, <2>6, <3>1, <3>2, <3>3, <3>4 DEF Covers
  <2> QED BY <1>3, <1>7, <1>9, <1>12, <2>2, <2>4, <2>5, <2>6, PutStays
<1>14. CASE ~ Inserted
  <2>1. k = heap /\ root = f.node
    BY <1>2, <1>7, <1>14, UnwindIdle
  <2>2. Unchanged(heap, cur, stack, head)
    BY <1>3, <1>14 DEF TreeInv, Path
  <2>3. /\ Balanced(heap, f.node) /\ Counted(heap, f.node) /\ heap[f.node][f.at] = cur
    BY <1>8, <2>2 DEF Unchanged
  <2>4. Linked(heap, s) /\ Unchanged(heap, f.node, s, head)
    BY <1>1, <1>3, <1>4, <2>2, PathPop
  <2>5. Good(heap, cur) /\ FrameOK(heap, cur, f)
    BY <1>1, <1>4, <1>5, ZipTop
  <2>6. Aside(heap, f) = heap[f.node][Other(f.at)]
    BY <1>3 DEF Aside
  <2>7. /\ (f.at = "left" /\ heap[f.node].left = cur /\ heap[f.node].right = Aside(heap, f))
           \/ (f.at = "right" /\ heap[f.node].right = cur /\ heap[f.node].left = Aside(heap, f))
    BY <1>5, <2>3, <2>6 DEF Sides, Other
  <2>8. Fine(heap, f.node)
    BY <2>3, <2>5, <2>7 DEF Fine, Ranked, FrameOK, Kept, Sides, Other
  <2>9. Good(heap, f.node)
    BY <1>1, <1>5, <2>5, <2>7, <2>8, GoodNode DEF FrameOK
  <2>10. Below(heap, f.node) = {f.node} \cup Below(heap, cur) \cup Kept(heap, f)
    BY <1>1, <1>5, <2>7, BelowNode DEF Kept
  <2>11. Zip(heap, f.node, s) /\ Tree(heap, f.node, s) = Tree(heap, cur, stack)
    <3>1. Zip(heap, f.node, s)
      BY <1>1, <1>4, <1>5, <2>9, <2>10, ZipPop
    <3>2. Held(heap, stack) = {f.node} \cup Kept(heap, f) \cup Held(heap, s)
      BY <1>4, <1>5, ZipTop
    <3> QED BY <2>10, <3>1, <3>2 DEF Tree
  <2>12. \A n \in Tree(heap, f.node, s) : PairOf(heap, n) \in Entitled'
    BY <1>1, <1>10, <2>11
  <2>13. ~ Inserted' /\ pc' # "put" /\ heap = heap' /\ f.node = cur' /\ Unchanged(heap, f.node, s, head')
    BY <1>3, <1>7, <1>10, <1>14, <2>1, <2>4
  <2>14. AscendingPuts => /\ live' \subseteq Tree(heap, f.node, s)
                      /\ Covers(heap, Tree(heap, f.node, s), Entitled')
    BY <1>1, <1>3, <1>10, <2>11
  <2> QED BY <1>3, <1>9, <1>12, <2>4, <2>11, <2>12, <2>13, <2>14, PutStays
<1> QED BY <1>13, <1>14

LEMMA PutReturnTree ==
  ASSUME IInv, IInv', TreeInv, PutReturn
  PROVE  TreeInv'
<1>1. /\ head # NULL /\ Root = cur /\ HeapOK(heap)
      /\ stack \in Seq(Frame) /\ cur \in NodeOrEOT /\ head \in NodeOrEOT
      /\ Puts(stack) /\ arg \in [key : Key, value : Value] /\ arg.key \in Key
      /\ Zip(heap, cur, stack) /\ Linked(heap, stack)
      /\ \A n \in Tree(heap, cur, stack) : PairOf(heap, n) \in Entitled
      /\ AscendingPuts => /\ live \subseteq Tree(heap, cur, stack)
                      /\ Covers(heap, Tree(heap, cur, stack), Entitled)
      /\ \E nodes \in SUBSET Node : OwnedBy(nodes)
  BY PutFacts DEF PutReturn
<1>2. /\ pc = "put_ret" /\ status \in {"ok", "enomem"} /\ cur' = EOT
      /\ pc' = IF stack = <<>> THEN "idle" ELSE "acted"
      /\ UNCHANGED <<heap, live, stack>>
  BY DEF PutReturn, Forget, TreeInv, Kinds
<1>3. \A i \in DOMAIN stack : stack[i].fn = "each"
  <2> TAKE i \in DOMAIN stack
  <2>1. stack # <<>> /\ 1 \in DOMAIN stack /\ stack[1] = Top /\ i \in Nat /\ i >= 1 /\ stack[i] \in Frame
    BY <1>1 DEF Top
  <2>2. Top.fn # "put"
    BY <2>1 DEF PutReturn, Running
  <2>3. stack[i].fn # "put"
    <3>1. CASE i = 1
      BY <2>1, <2>2, <3>1
    <3>2. CASE i # 1
      BY <1>1, <2>1, <2>2, <3>2 DEF Puts
    <3> QED BY <3>1, <3>2
  <2>4. stack[i].fn # "destroy"
    BY <1>1 DEF Puts
  <2> QED BY <2>1, <2>3, <2>4 DEF Frame
<1>4. Suspended(stack) = {}
  BY <1>3, EachFrames
<1>5. head' = cur
  <2>1. CASE status = "ok"
    BY <2>1 DEF PutReturn
  <2>2. CASE status = "enomem"
    <3>1. Unchanged(heap, cur, stack, head)
      BY <1>2, <2>2 DEF TreeInv, Path, Inserted
    <3> QED BY <1>4, <2>2, <3>1 DEF PutReturn, Unchanged
  <2> QED BY <1>2, <2>1, <2>2
<1>6. Root' = cur
  BY <1>1, <1>2, <1>5, NotNull DEF Root
<1>7. Zipped'
  BY <1>1, <1>2, <1>6 DEF Zipped
<1>8. Paired'
  <2>1. bindings' = Entitled /\ Entitled' = bindings'
    BY <1>2 DEF PutReturn, Entitled
  <2> QED BY <1>1, <1>2, <1>6, <2>1 DEF Paired
<1>9. Kinds' /\ Path'
  BY <1>2, <1>3 DEF Kinds, Path
<1>10. Owned'
  <2>1. PICK nodes \in SUBSET Node : OwnedBy(nodes)
    BY <1>1
  <2>2. OwnedBy(nodes)'
    BY <1>2, <1>5, <2>1 DEF OwnedBy
  <2> QED BY <1>2, <2>2 DEF Owned
<1>11. Whole'
  <2>1. Entitled' = Entitled /\ pc' \notin {"put", "put_ret"}
    BY <1>2 DEF PutReturn, Entitled
  <2> QED BY <1>1, <1>2, <1>6, <2>1 DEF Whole, Inserted
<1> QED BY <1>7, <1>8, <1>9, <1>10, <1>11 DEF TreeInv
-----------------------------------------------------------------------------
LEMMA NextTree ==
  ASSUME IInv, TreeInv, [Next]_vars
  PROVE  IInv' /\ TreeInv'
<1>1. IInv'
  BY NextIInv
<1>2. CASE Call
  BY <1>1, <1>2, CallTree
<1>3. CASE PutStep
  BY <1>1, <1>3, PutDescendTree, PutReplaceTree, PutAttachTree, PutNoMemoryTree,
     PutUnwindTree, PutReturnTree DEF PutStep
<1>4. CASE Callback
  BY <1>1, <1>4, CallbackTree
<1>5. CASE EachStep
  BY <1>1, <1>5, EachTree
<1>6. CASE DestroyStep
  BY <1>1, <1>6, DestroyTree
<1>7. CASE UNCHANGED vars
  <2>1. Kinds'
    BY <1>7 DEF vars, TreeInv, Kinds
  <2>2. Root' = Root /\ Entitled' = Entitled /\ (Inserted' <=> Inserted)
    BY <1>7 DEF vars, Root, Entitled, Inserted
  <2>3. Zipped' /\ Paired'
    BY <1>7, <2>2 DEF vars, TreeInv, Zipped, Paired
  <2>4. Path'
    BY <1>7, <2>2 DEF vars, TreeInv, Path
  <2>5. \A nodes \in SUBSET Node : OwnedBy(nodes) => OwnedBy(nodes)'
    BY <1>7 DEF vars, OwnedBy
  <2>6. Owned'
    BY <1>7, <2>2, <2>5 DEF vars, TreeInv, Owned
  <2>7. Whole'
    <3>1. (Stored(arg.key) \/ AboveAll(arg.key))' <=> Stored(arg.key) \/ AboveAll(arg.key)
      BY <1>7 DEF vars, Stored, AboveAll
    <3> QED BY <1>7, <2>2, <3>1 DEF vars, TreeInv, Whole
  <2> QED BY <1>1, <2>1, <2>3, <2>4, <2>6, <2>7 DEF TreeInv
<1> QED
  BY <1>1, <1>2, <1>3, <1>4, <1>5, <1>6, <1>7 DEF Next, Step

LEMMA TreeInvariant == Spec => [](IInv /\ TreeInv)
<1>1. Init => IInv /\ TreeInv
  BY InitIInv, InitTree
<1>2. IInv /\ TreeInv /\ [Next]_vars => (IInv /\ TreeInv)'
  BY NextTree
<1> QED BY <1>1, <1>2, PTL DEF Spec

\* What the tree is between two puts: one piece, in order.
LEMMA SettledTree ==
  ASSUME IInv, TreeInv, Settled
  PROVE  /\ Suspended(stack) = {}
         /\ head = NULL => Reachable = {}
         /\ head # NULL => /\ head \in NodeOrEOT /\ Reachable = Below(heap, head) /\ Good(heap, head)
                           /\ \A n \in Reachable : PairOf(heap, n) \in bindings
<1>1. Suspended(stack) = {}
  <2>1. CASE pc = "idle"
    BY <2>1 DEF TreeInv, Kinds, Suspended
  <2>2. CASE pc # "idle"
    <3>1. \A i \in DOMAIN stack : stack[i].fn = "each"
      BY <2>2 DEF TreeInv, Kinds, Settled, IInv, TypeOK
    <3> QED BY <3>1, EachFrames
  <2> QED BY <2>1, <2>2
<1>2. ASSUME head # NULL
      PROVE  /\ head \in NodeOrEOT /\ Reachable = Below(heap, head) /\ Good(heap, head)
             /\ \A n \in Reachable : PairOf(heap, n) \in bindings
  <2>1. head \in NodeOrEOT /\ Root = head /\ Reachable = Below(heap, head)
    BY <1>2 DEF IInv, TypeOK, Settled, Root, Reachable
  <2>2. Good(heap, head)
    BY <1>1, <2>1, OnePiece DEF TreeInv, Zipped
  <2>3. \A n \in Below(heap, head) : PairOf(heap, n) \in bindings
    BY <1>1, <2>1, OnePiece DEF TreeInv, Paired, Entitled, Settled
  <2> QED BY <2>1, <2>2, <2>3
<1> QED BY <1>1, <1>2 DEF Reachable

\* Whatever puts, failed allocations and callbacks that put did to it, the
\* tree is in order between two puts. Nothing a rotation cuts off is reachable.
THEOREM InOrderBetweenPuts == Spec => []SearchTree
<1>1. ASSUME IInv, TreeInv PROVE SearchTree
  <2> SUFFICES ASSUME Settled, NEW n \in Reachable
               PROVE  /\ \A m \in Below(heap, heap[n].left) : compar(heap[m].key, heap[n].key) < 0
                      /\ \A m \in Below(heap, heap[n].right) : compar(heap[m].key, heap[n].key) > 0
    BY DEF SearchTree
  <2>1. Fine(heap, n)
    BY <1>1, SettledTree DEF Good
  <2> QED BY <2>1 DEF Fine, Ranked, On, Sides
<1> QED BY <1>1, TreeInvariant, PTL

\* The tree of levels is balanced between two puts: a put that inserts
\* restores every level on its way back, also when skew hands its caller the
\* node that it has just rotated down.
THEOREM BalancedBetweenPuts == Spec => []LevelsBalanced
<1>1. ASSUME IInv, TreeInv PROVE LevelsBalanced
  <2> SUFFICES ASSUME Settled, NEW n \in Reachable
               PROVE  /\ heap[heap[n].left].level = heap[n].level - 1
                      /\ heap[heap[n].right].level \in {heap[n].level - 1, heap[n].level}
                      /\ heap[heap[heap[n].right].right].level < heap[n].level
    BY DEF LevelsBalanced
  <2>1. Fine(heap, n)
    BY <1>1, SettledTree DEF Good
  <2> QED BY <2>1 DEF Fine, Balanced, LevelsFit, NoDoubleRight
<1> QED BY <1>1, TreeInvariant, PTL

\* No put brings an answer back that a later one replaced: what the tree has
\* is what the last successful dict_put of that key stored.
THEOREM AnswersNeverStale == Spec => []NeverStale
<1>1. ASSUME IInv, TreeInv PROVE NeverStale
  BY <1>1, SettledTree DEF NeverStale, Contents, PairOf, Reachable
<1> QED BY <1>1, TreeInvariant, PTL

\* Neither the tree nor the recursion has a pointer to a node that was freed,
\* dict_destroy's own recursion included.
THEOREM NoDanglingPointer == Spec => []PointersLive
<1>1. ASSUME IInv, TreeInv PROVE PointersLive
  <2>1. cur \in NodeOrEOT /\ stack \in Seq(Frame) /\ head \in NodeOrEOT \cup {NULL} /\ HeapOK(heap)
    BY <1>1, HeapIsOK DEF IInv, TypeOK
  <2>2. CASE pc \in {"destroy", "destroy_ret"}
    <3>1. \A i \in DOMAIN stack : i \in Suspended(stack)
      BY <1>1, <2>2 DEF TreeInv, Kinds, Suspended
    <3>2. Tree(heap, Root, stack) \subseteq live
      BY <1>1, <2>2 DEF TreeInv, Owned
    <3>3. \A i \in DOMAIN stack : stack[i].node \in live
      BY <3>1, <3>2 DEF Tree, Held
    <3>4. pc = "destroy" => cur \in live \cup {EOT}
      <4>1. pc = "destroy" => Root = cur
        BY <1>1 DEF Root, IInv, TypeOK
      <4>2. cur \in Below(heap, cur) \cup {EOT}
        BY <2>1, BelowClosed
      <4> QED BY <3>2, <4>1, <4>2 DEF Tree
    <3> QED BY <2>2, <3>3, <3>4 DEF PointersLive
  <2>3. CASE pc \notin {"destroy", "destroy_ret"}
    <3>1. PICK nodes \in SUBSET Node : OwnedBy(nodes)
      BY <1>1, <2>3 DEF TreeInv, Owned
    <3>2. cur \in live \cup {EOT} /\ \A i \in DOMAIN stack : stack[i].node \in live
      BY <2>1, <3>1, NotNull DEF OwnedBy, Nodes
    <3>3. Reachable \subseteq live
      BY <2>1, <3>1, BelowLeast DEF OwnedBy, Reachable
    <3> QED BY <3>2, <3>3 DEF PointersLive
  <2> QED BY <2>2, <2>3
<1> QED BY <1>1, TreeInvariant, PTL

\* A put that replaced a pair, or ran out of memory, goes back up through the
\* rebalancing code and writes to no node there.
THEOREM NothingRebalanced == Spec => NoInsertNoRebalance
<1>1. ASSUME IInv, TreeInv, [Next]_vars
      PROVE  [pc = "put_ret" /\ (status # "ok" \/ old # NoPair) => heap' = heap]_vars
  <2> SUFFICES ASSUME Next, pc = "put_ret", status # "ok" \/ old # NoPair
               PROVE  heap' = heap
    BY <1>1 DEF vars
  <2>1. PutUnwind \/ PutReturn
    BY DEF Next, Call, Step, PutStep, Callback, EachStep, DestroyStep, dict_init, dict_put,
       dict_for_each, dict_destroy, PutDescend, PutReplace, PutAttach, PutNoMemory, CallbackPut,
       CallbackContinue, CallbackAbort, EachDescend, EachEnd, EachAction, EachAbort, EachReturn,
       DestroyDescend, DestroyEnd, DestroyRight, node_destroy, DestroyReturn
  <2>2. CASE PutUnwind
    BY <1>1, <2>2, UnwindIdle DEF Inserted
  <2>3. CASE PutReturn
    BY <2>3 DEF PutReturn
  <2> QED BY <2>1, <2>2, <2>3
<1> QED BY <1>1, TreeInvariant, PTL DEF Spec, NoInsertNoRebalance

\* A client that only puts keys above all others, or replaces, gets all its
\* nodes freed by dict_destroy.
THEOREM AscendingFreesAll == AscendingPuts => (Spec => []NoLeak)
<1> SUFFICES ASSUME AscendingPuts PROVE Spec => []NoLeak
  OBVIOUS
<1>1. ASSUME IInv, TreeInv PROVE NoLeak
  <2> SUFFICES ASSUME head = NULL PROVE live = {}
    BY DEF NoLeak
  <2>1. pc = "idle" /\ stack = <<>> /\ Root = EOT
    BY <1>1 DEF IInv, TypeOK, TreeInv, Kinds, Root
  <2>2. Tree(heap, Root, stack) = {}
    BY <2>1, OnePiece, BelowNone DEF Suspended
  <2> QED BY <1>1, <2>2 DEF TreeInv, Whole
<1> QED BY <1>1, TreeInvariant, PTL

\* And it finds every key it put: what dict.h says of any client.
THEOREM AscendingLosesNone == AscendingPuts => (Spec => []NoKeyLost)
<1> SUFFICES ASSUME AscendingPuts PROVE Spec => []NoKeyLost
  OBVIOUS
<1>1. ASSUME IInv, TreeInv PROVE NoKeyLost
  <2> SUFFICES ASSUME Settled PROVE Contents = bindings
    BY DEF NoKeyLost
  <2>1. Tree(heap, Root, stack) = Reachable
    <3>1. Tree(heap, Root, stack) = Below(heap, Root)
      BY <1>1, SettledTree, OnePiece
    <3> QED BY <3>1, BelowNone DEF Root, Settled, Reachable
  <2>2. Covers(heap, Reachable, bindings)
    BY <1>1, <2>1 DEF TreeInv, Whole, Settled, Entitled
  <2>3. Contents \subseteq bindings
    BY <1>1, SettledTree DEF Contents, PairOf, Reachable
  <2> QED BY <2>2, <2>3 DEF Covers, Contents, PairOf
<1> QED BY <1>1, TreeInvariant, PTL

\* Every index is answered right from either end, and none that is not there:
\* the counts that the rotations keep are those of the tree, whatever a wrong
\* skew has cut off from it.
THEOREM IndicesAgree == Spec => []IndexRoundTrip
<1>1. ASSUME IInv, TreeInv PROVE IndexRoundTrip
  <2> SUFFICES ASSUME Settled, head # NULL, NEW q, q = InOrderFrom(heap, head), NEW size, size = Len(q)
               PROVE  /\ dict_size = size
                      /\ \A i \in 0 .. size - 1 :
                           /\ dict_select(i) = q[i + 1]
                           /\ dict_select(i - size) = q[i + 1]
                           /\ dict_get(heap[q[i + 1]].key) = [value |-> heap[q[i + 1]].value, index |-> i]
                      /\ dict_select(size) = ESRCH
                      /\ dict_select(-size - 1) = ESRCH
                      /\ \A key \in Key :
                           (\A i \in 1 .. size : compar(key, heap[q[i]].key) # 0) => dict_get(key) = NotFound
    BY DEF IndexRoundTrip, InOrder
  <2>1. HeapOK(heap) /\ head \in NodeOrEOT /\ Good(heap, head)
    BY <1>1, HeapIsOK, SettledTree
  <2>2. Enumerates(heap, head, q)
    BY <2>1, InOrderEnumerates
  <2>3. q \in Seq(Node) /\ size \in Nat /\ dict_size = size
    BY <2>2 DEF Enumerates, dict_size
  <2>4. \A i \in Int : LET j == IF i < 0 THEN i + size ELSE i
                       IN dict_select(i) = IF j + 1 \in 1 .. size THEN q[j + 1] ELSE ESRCH
    BY <2>1, SelectsInOrder
  <2>5. \A key \in Key : Finds(heap, q, key, dict_get(key))
    BY <2>1, GetFinds
  <2>6. ASSUME NEW i \in 0 .. size - 1
        PROVE  /\ dict_select(i) = q[i + 1]
               /\ dict_select(i - size) = q[i + 1]
               /\ dict_get(heap[q[i + 1]].key) = [value |-> heap[q[i + 1]].value, index |-> i]
    <3>1. i \in Int /\ ~(i < 0) /\ i + 1 \in 1 .. size /\ i + 1 - 1 = i
      BY <2>3
    <3>2. dict_select(i) = q[i + 1]
      BY <2>4, <3>1
    <3>3. i - size \in Int /\ i - size < 0 /\ i - size + size = i
      BY <2>3
    <3>4. dict_select(i - size) = q[i + 1]
      BY <2>4, <3>1, <3>3
    <3>5. heap[q[i + 1]].key \in Key
      BY <2>1, <2>2, <3>1, GoodBelow DEF Enumerates
    <3>6. compar(heap[q[i + 1]].key, heap[q[i + 1]].key) = 0
      BY <3>5, KeyOrder
    <3>7. dict_get(heap[q[i + 1]].key) = [value |-> heap[q[i + 1]].value, index |-> i + 1 - 1]
      BY <2>5, <3>1, <3>5, <3>6 DEF Finds
    <3> QED BY <3>1, <3>2, <3>4, <3>7
  <2>7. dict_select(size) = ESRCH
    <3>1. size \in Int /\ ~(size < 0) /\ size + 1 \notin 1 .. size
      BY <2>3
    <3> QED BY <2>4, <3>1
  <2>8. dict_select(-size - 1) = ESRCH
    <3>1. -size - 1 \in Int /\ -size - 1 < 0 /\ -size - 1 + size + 1 \notin 1 .. size
      BY <2>3
    <3> QED BY <2>4, <3>1
  <2>9. \A key \in Key :
          (\A i \in 1 .. size : compar(key, heap[q[i]].key) # 0) => dict_get(key) = NotFound
    BY <2>5 DEF Finds
  <2> QED BY <2>3, <2>6, <2>7, <2>8, <2>9
<1> QED BY <1>1, TreeInvariant, PTL

-----------------------------------------------------------------------------
(***************************************************************************)
(* A traversal. What it has left to visit is in its frames: they are those *)
(* of a put that went left each time, and all that such a put has taken    *)
(* apart is still to come, in order.                                       *)
(***************************************************************************)
Seen(f) == [fn |-> IF f.fn = "each" THEN "put" ELSE "each", node |-> f.node, at |-> f.at]
Mirror(st) == [i \in DOMAIN st |-> Seen(st[i])]

LEMMA SeenFrame ==
  ASSUME NEW f \in Frame
  PROVE  /\ Seen(f) \in Frame /\ Seen(f).node = f.node /\ Seen(f).at = f.at
         /\ Seen(f).fn = IF f.fn = "each" THEN "put" ELSE "each"
BY DEF Frame, Seen

LEMMA MirrorSeq ==
  ASSUME NEW st \in Seq(Frame)
  PROVE  /\ Mirror(st) \in Seq(Frame) /\ DOMAIN Mirror(st) = DOMAIN st
         /\ \A i \in DOMAIN st : st[i] \in Frame /\ Mirror(st)[i] = Seen(st[i])
<1>1. DOMAIN st = 1 .. Len(st) /\ Len(st) \in Nat /\ \A i \in DOMAIN st : st[i] \in Frame
  OBVIOUS
<1>2. \A i \in 1 .. Len(st) : Seen(st[i]) \in Frame
  BY <1>1, SeenFrame
<1>3. Mirror(st) \in [1 .. Len(st) -> Frame]
  BY <1>1, <1>2 DEF Mirror
<1>4. Mirror(st) \in Seq(Frame)
  BY <1>1, <1>3
<1> QED BY <1>1, <1>4 DEF Mirror

LEMMA MirrorPushed ==
  ASSUME NEW f, NEW s, NEW t, Pushed(f, s, t)
  PROVE  Pushed(Seen(f), Mirror(s), Mirror(t))
<1>1. /\ t \in Seq(Frame) /\ s \in Seq(Frame) /\ f \in Frame
      /\ 1 \in DOMAIN t /\ t[1] = f
      /\ \A i \in DOMAIN s : i + 1 \in DOMAIN t /\ t[i + 1] = s[i]
      /\ \A i \in DOMAIN t : i # 1 => i - 1 \in DOMAIN s /\ t[i] = s[i - 1]
  BY DEF Pushed
<1>2. /\ Mirror(t) \in Seq(Frame) /\ DOMAIN Mirror(t) = DOMAIN t
      /\ Mirror(s) \in Seq(Frame) /\ DOMAIN Mirror(s) = DOMAIN s
      /\ \A i \in DOMAIN t : Mirror(t)[i] = Seen(t[i])
      /\ \A i \in DOMAIN s : Mirror(s)[i] = Seen(s[i])
  BY <1>1, MirrorSeq
<1>3. Seen(f) \in Frame
  BY <1>1, SeenFrame
<1> QED BY <1>1, <1>2, <1>3 DEF Pushed

\* A frame that is not suspended changes nothing.
LEMMA EachTop ==
  ASSUME NEW f, NEW s, NEW t, Pushed(f, s, t), f.fn = "each", NEW h, NEW c
  PROVE  /\ Zip(h, c, t) <=> Zip(h, c, s)
         /\ Tree(h, c, t) = Tree(h, c, s)
         /\ Suspended(t) = {} <=> Suspended(s) = {}
<1>1. /\ \A i \in Suspended(s) : i \in Nat /\ i >= 1 /\ s[i] \in Frame
      /\ \A i \in Suspended(t) : i \in Nat /\ i >= 1 /\ t[i] \in Frame
      /\ 1 \notin Suspended(t)
      /\ \A i \in Suspended(s) : i + 1 \in Suspended(t) /\ t[i + 1] = s[i]
      /\ \A i \in Suspended(t) : i - 1 \in Suspended(s) /\ t[i] = s[i - 1]
  BY SuspendedTop
<1>2. ASSUME Zip(h, c, t) PROVE Zip(h, c, s)
  <2>1. \A i \in Suspended(s) : FrameOK(h, c, s[i])
    BY <1>1, <1>2 DEF Zip
  <2>2. ASSUME NEW i \in Suspended(s), NEW j \in Suspended(s), i < j PROVE Inside(h, s[i], s[j])
    <3>1. i + 1 < j + 1 /\ i + 1 \in Suspended(t) /\ j + 1 \in Suspended(t)
      BY <1>1, <2>2
    <3>2. Inside(h, t[i + 1], t[j + 1])
      BY <1>2, <3>1 DEF Zip
    <3> QED BY <1>1, <3>2
  <2> QED BY <1>2, <2>1, <2>2 DEF Zip
<1>3. ASSUME Zip(h, c, s) PROVE Zip(h, c, t)
  <2>1. \A i \in Suspended(t) : FrameOK(h, c, t[i])
    BY <1>1, <1>3 DEF Zip
  <2>2. ASSUME NEW i \in Suspended(t), NEW j \in Suspended(t), i < j PROVE Inside(h, t[i], t[j])
    <3>1. i - 1 < j - 1 /\ i - 1 \in Suspended(s) /\ j - 1 \in Suspended(s)
      BY <1>1, <2>2
    <3>2. Inside(h, s[i - 1], s[j - 1])
      BY <1>3, <3>1 DEF Zip
    <3> QED BY <1>1, <3>2
  <2> QED BY <1>3, <2>1, <2>2 DEF Zip
<1>4. Held(h, t) = Held(h, s)
  <2>1. Held(h, t) \subseteq Held(h, s)
    BY <1>1 DEF Held
  <2>2. Held(h, s) \subseteq Held(h, t)
    BY <1>1 DEF Held
  <2> QED BY <2>1, <2>2
<1> QED BY <1>1, <1>2, <1>3, <1>4 DEF Tree

LEMMA KeptGood ==
  ASSUME NEW h, HeapOK(h), NEW st \in Seq(Frame), NEW c \in NodeOrEOT, Zip(h, c, st),
         NEW m \in Tree(h, c, st)
  PROVE  m \in Node /\ h[m].key \in Key
<1>1. CASE m \in Below(h, c)
  BY <1>1, GoodBelow DEF Zip
<1>2. CASE m \in Held(h, st)
  <2>1. PICK i \in Suspended(st) : m \in {st[i].node} \cup Kept(h, st[i])
    BY <1>2 DEF Held
  <2>2. st[i] \in Frame /\ FrameOK(h, c, st[i])
    BY FrameAt DEF Suspended, Zip
  <2>3. st[i].node \in Node /\ Aside(h, st[i]) \in NodeOrEOT
    BY <2>2, FrameFields
  <2> QED BY <2>1, <2>2, <2>3, GoodBelow DEF FrameOK, Kept
<1> QED BY <1>1, <1>2 DEF Tree

\* The node on top comes next, and then the subtree on its right.
LEMMA NextUp ==
  ASSUME NEW h, HeapOK(h), NEW f, NEW s, NEW t, Pushed(f, s, t), f.fn = "put", f.at = "left",
         \A j \in Suspended(s) : s[j].at = "left", Zip(h, EOT, t)
  PROVE  /\ Zip(h, h[f.node].right, s)
         /\ Tree(h, EOT, t) = {f.node} \cup Tree(h, h[f.node].right, s)
         /\ f.node \in Node /\ f.node \notin Tree(h, h[f.node].right, s)
         /\ \A m \in Tree(h, EOT, t) : m = f.node \/ compar(h[f.node].key, h[m].key) < 0
<1>1. PICK n, r : n = f.node /\ r = h[n].right
  OBVIOUS
<1>2. f \in Frame /\ s \in Seq(Frame) /\ t \in Seq(Frame) /\ EOT \in NodeOrEOT
  BY DEF Pushed, NodeOrEOT
<1>3. n \in Node /\ r \in NodeOrEOT /\ Aside(h, f) = r /\ Kept(h, f) = Below(h, r)
  BY <1>1, <1>2, FrameFields DEF Aside, Kept, Other
<1>4. /\ FrameOK(h, EOT, f) /\ Held(h, t) = {n} \cup Below(h, r) \cup Held(h, s)
      /\ \A j \in Suspended(s) : Inside(h, f, s[j])
  BY <1>1, <1>3, ZipTop
<1>5. h[n].key \in Key /\ Good(h, r) /\ \A m \in Below(h, r) : compar(h[m].key, h[n].key) > 0
  BY <1>1, <1>3, <1>4 DEF FrameOK, On, Other
<1>6. Zip(h, r, s)
  <2>1. Below(h, r) \subseteq {f.node} \cup Below(h, EOT) \cup Kept(h, f)
    BY <1>3
  <2> QED BY <1>2, <1>3, <1>5, <2>1, ZipPop
<1>7. Tree(h, EOT, t) = {n} \cup Tree(h, r, s)
  BY <1>4, BelowNone DEF Tree
<1>8. ASSUME NEW m \in Tree(h, r, s) PROVE compar(h[n].key, h[m].key) < 0
  <2>1. h[m].key \in Key
    BY <1>2, <1>3, <1>6, <1>8, KeptGood
  <2>2. CASE m \in Below(h, r)
    BY <1>5, <2>1, <2>2, KeyOrder
  <2>3. CASE m \in Held(h, s)
    <3>1. PICK j \in Suspended(s) : m \in {s[j].node} \cup Kept(h, s[j])
      BY <2>3 DEF Held
    <3>2. /\ h[s[j].node].key \in Key
          /\ On(h, n, s[j].at, s[j].node) /\ s[j].at = "left"
          /\ \A x \in Kept(h, s[j]) : h[x].key \in Key /\ On(h, x, Other(s[j].at), s[j].node)
      <4>1. n \in {f.node} \cup Below(h, EOT) \cup Kept(h, f)
        BY <1>1
      <4> QED BY <1>2, <4>1, ZipZone
    <3>3. compar(h[n].key, h[s[j].node].key) < 0
      BY <3>2 DEF On
    <3>4. CASE m = s[j].node
      BY <3>3, <3>4
    <3>5. CASE m \in Kept(h, s[j])
      <4>1. compar(h[m].key, h[s[j].node].key) > 0
        BY <3>2, <3>5 DEF On, Other
      <4>2. compar(h[s[j].node].key, h[m].key) < 0
        BY <2>1, <3>2, <4>1, KeyOrder
      <4> QED BY <1>5, <2>1, <3>2, <3>3, <4>2, KeyOrder
    <3> QED BY <3>1, <3>4, <3>5
  <2> QED BY <1>8, <2>2, <2>3 DEF Tree
<1>9. n \notin Tree(h, r, s)
  <2>1. ~(compar(h[n].key, h[n].key) < 0)
    BY <1>5, KeyOrder
  <2> QED BY <1>8, <2>1
<1> QED BY <1>1, <1>3, <1>6, <1>7, <1>8, <1>9

Elements(q) == {q[i] : i \in 1 .. Len(q)}
Sorted(h, q) == \A i, j \in 1 .. Len(q) : i < j => compar(h[q[i]].key, h[q[j]].key) < 0

\* What is in order and holds the same nodes starts alike.
LEMMA SortedAlike ==
  ASSUME NEW h, NEW S, NEW p \in Seq(S), NEW q \in Seq(S), Elements(p) = Elements(q),
         \A n \in Elements(p) : h[n].key \in Key, Sorted(h, p), Sorted(h, q)
  PROVE  \A i \in 1 .. Len(p) : i \in 1 .. Len(q) /\ q[i] = p[i]
<1> DEFINE T == {i \in 1 .. Len(p) : ~(i \in 1 .. Len(q) /\ q[i] = p[i])}
<1> SUFFICES ASSUME T # {} PROVE FALSE
  OBVIOUS
<1>1. Len(p) \in Nat /\ Len(q) \in Nat /\ T \subseteq Nat
  OBVIOUS
<1>2. PICK x \in T : \A y \in T : x <= y
  <2> HIDE DEF T
  <2> QED BY <1>1, LeastNatural
<1>3. x \in Nat /\ x >= 1 /\ x <= Len(p) /\ x \in 1 .. Len(p)
  BY <1>1
<1>4. \A i \in 1 .. Len(p) : i < x => i \in 1 .. Len(q) /\ q[i] = p[i]
  <2>1. ASSUME NEW i \in 1 .. Len(p), i < x, i \in T PROVE FALSE
    <3>1. x <= i
      BY <1>2, <2>1
    <3> QED BY <1>3, <2>1, <3>1
  <2> QED BY <2>1
<1>5. \A i \in 1 .. Len(p) : p[i] \in Elements(p) /\ p[i] \in Elements(q) /\ h[p[i]].key \in Key
  BY DEF Elements
<1>6. \A i \in 1 .. Len(q) : q[i] \in Elements(p) /\ h[q[i]].key \in Key
  BY DEF Elements
<1>7. \A a, b \in Key : compar(a, b) < 0 => ~(compar(b, a) < 0) /\ a # b
  BY KeyOrder
<1>8. PICK j \in 1 .. Len(q) : q[j] = p[x]
  BY <1>3, <1>5 DEF Elements
<1>9. j >= x
  <2> SUFFICES ASSUME j < x PROVE FALSE
    BY <1>3
  <2>1. j \in 1 .. Len(p) /\ q[j] = p[j]
    <3>1. j \in 1 .. Len(p)
      BY <1>1, <1>3
    <3> QED BY <1>4, <3>1
  <2>2. compar(h[p[j]].key, h[p[x]].key) < 0
    BY <1>3, <2>1 DEF Sorted
  <2> QED BY <1>3, <1>5, <1>7, <1>8, <2>1, <2>2
<1>10. x \in 1 .. Len(q)
  BY <1>1, <1>3, <1>9
<1>11. PICK i \in 1 .. Len(p) : p[i] = q[x]
  BY <1>6, <1>10 DEF Elements
<1>12. i >= x
  <2> SUFFICES ASSUME i < x PROVE FALSE
    BY <1>3
  <2>1. i \in 1 .. Len(q) /\ q[i] = p[i]
    BY <1>4
  <2>2. compar(h[q[i]].key, h[q[x]].key) < 0
    BY <1>10, <2>1 DEF Sorted
  <2> QED BY <1>6, <1>7, <1>10, <1>11, <2>1, <2>2
<1>13. q[x] # p[x]
  BY <1>2, <1>10
<1>14. i > x /\ j > x
  <2>1. i # x /\ j # x
    BY <1>8, <1>11, <1>13
  <2> QED BY <1>1, <1>3, <1>9, <1>12, <2>1
<1>15. compar(h[p[x]].key, h[q[x]].key) < 0
  BY <1>3, <1>11, <1>14 DEF Sorted
<1>16. compar(h[q[x]].key, h[p[x]].key) < 0
  BY <1>8, <1>10, <1>14 DEF Sorted
<1> QED BY <1>3, <1>5, <1>6, <1>7, <1>10, <1>15, <1>16

LEMMA SortedUnique ==
  ASSUME NEW h, NEW S, NEW p \in Seq(S), NEW q \in Seq(S), Elements(p) = Elements(q),
         \A n \in Elements(p) : h[n].key \in Key, Sorted(h, p), Sorted(h, q)
  PROVE  p = q
<1>1. \A i \in 1 .. Len(p) : i \in 1 .. Len(q) /\ q[i] = p[i]
  BY SortedAlike
<1>2. \A i \in 1 .. Len(q) : i \in 1 .. Len(p) /\ p[i] = q[i]
  BY SortedAlike
<1>3. Len(p) = Len(q)
  <2>1. Len(p) \in Nat /\ Len(q) \in Nat
    OBVIOUS
  <2>2. Len(p) <= Len(q)
    <3>1. Len(p) = 0 \/ Len(p) \in 1 .. Len(p)
      BY <2>1
    <3> QED BY <1>1, <2>1, <3>1
  <2>3. Len(q) <= Len(p)
    <3>1. Len(q) = 0 \/ Len(q) \in 1 .. Len(q)
      BY <2>1
    <3> QED BY <1>2, <2>1, <3>1
  <2> QED BY <2>1, <2>2, <2>3
<1> QED BY <1>1, <1>3

\* The same tree with other keys that compare equal.
Alike(h, k) ==
  \A m \in NodeOrEOT :
    /\ k[m].left = h[m].left /\ k[m].right = h[m].right
    /\ k[m].level = h[m].level /\ k[m].nnode = h[m].nnode
    /\ \/ k[m].key = h[m].key
       \/ k[m].key \in Key /\ h[m].key \in Key /\ compar(k[m].key, h[m].key) = 0

LEMMA AlikeOn ==
  ASSUME NEW h, NEW k, Alike(h, k), NEW m \in NodeOrEOT, NEW n \in NodeOrEOT,
         h[m].key \in Key, h[n].key \in Key
  PROVE  /\ k[m].key \in Key /\ k[n].key \in Key
         /\ compar(k[m].key, k[n].key) < 0 <=> compar(h[m].key, h[n].key) < 0
         /\ compar(k[m].key, k[n].key) > 0 <=> compar(h[m].key, h[n].key) > 0
         /\ \A at \in Sides : On(k, m, at, n) <=> On(h, m, at, n)
<1>1. k[m].key \in Key /\ k[n].key \in Key
  BY DEF Alike
<1>2. compar(k[m].key, h[m].key) = 0 /\ compar(k[n].key, h[n].key) = 0
  BY <1>1, KeyOrder DEF Alike
<1>3. /\ compar(k[m].key, k[n].key) < 0 <=> compar(h[m].key, k[n].key) < 0
      /\ compar(k[m].key, k[n].key) > 0 <=> compar(h[m].key, k[n].key) > 0
  BY <1>1, <1>2, EqualKeys
<1>4. /\ compar(h[m].key, k[n].key) < 0 <=> compar(h[m].key, h[n].key) < 0
      /\ compar(h[m].key, k[n].key) > 0 <=> compar(h[m].key, h[n].key) > 0
  BY <1>1, <1>2, EqualKeys
<1> QED BY <1>1, <1>3, <1>4 DEF On, Sides

LEMMA AlikeGood ==
  ASSUME NEW h, HeapOK(h), NEW k, HeapOK(k), Alike(h, k), NEW root \in NodeOrEOT, Good(h, root)
  PROVE  Below(k, root) = Below(h, root) /\ Good(k, root)
<1>1. \A r \in NodeOrEOT : Below(k, r) = Below(h, r)
  <2>1. \A r \in NodeOrEOT : Below(h, r) \subseteq NodeOrEOT
    BY BelowClosed DEF NodeOrEOT
  <2> QED BY <2>1, BelowSame DEF Alike
<1>2. ASSUME NEW n \in Below(h, root) PROVE Fine(k, n)
  <2>1. /\ n \in Node /\ n \in NodeOrEOT /\ Fine(h, n) /\ h[n].key \in Key
        /\ h[n].left \in NodeOrEOT /\ h[n].right \in NodeOrEOT
    BY GoodBelow, ChildBelow DEF NodeOrEOT
  <2>2. Below(h, h[n].left) \subseteq Below(h, root) /\ Below(h, h[n].right) \subseteq Below(h, root)
    BY ChildBelow
  <2>3. \A m \in Below(h, root) : m \in NodeOrEOT /\ h[m].key \in Key
    BY GoodBelow DEF NodeOrEOT
  <2>4. k[n].left = h[n].left /\ k[n].right = h[n].right
    BY <2>1 DEF Alike
  <2>5. k[n].key \in Key
    BY <2>1, AlikeOn
  <2>6. Ranked(k, n)
    <3>1. \A at \in Sides : h[n][at] \in NodeOrEOT /\ k[n][at] = h[n][at] /\ Below(h, h[n][at]) \subseteq Below(h, root)
      BY <2>1, <2>2, <2>4 DEF Sides
    <3>2. \A at \in Sides : \A m \in Below(h, h[n][at]) : On(h, m, at, n)
      BY <2>1 DEF Fine, Ranked
    <3>3. \A at \in Sides : \A m \in Below(h, h[n][at]) : On(k, m, at, n)
      BY <2>1, <2>3, <3>1, <3>2, AlikeOn
    <3> QED BY <1>1, <2>5, <3>1, <3>3 DEF Ranked
  <2>7. Balanced(k, n) /\ Counted(k, n)
    <3>1. /\ h[h[n].right].right \in NodeOrEOT
      BY <2>1 DEF HeapOK, SubtreeOf
    <3> QED BY <2>1, <2>4, <3>1 DEF Alike, Fine, Balanced, LevelsFit, NoDoubleRight, Counted
  <2> QED BY <2>6, <2>7 DEF Fine
<1> QED BY <1>1, <1>2 DEF Good

LEMMA AlikeZip ==
  ASSUME NEW h, HeapOK(h), NEW k, HeapOK(k), Alike(h, k),
         NEW st \in Seq(Frame), NEW c \in NodeOrEOT, Zip(h, c, st)
  PROVE  Zip(k, c, st) /\ Tree(k, c, st) = Tree(h, c, st)
<1>1. \A i \in Suspended(st) : /\ st[i] \in Frame /\ FrameOK(h, c, st[i])
                               /\ st[i].node \in NodeOrEOT /\ st[i].node \in Node /\ st[i].at \in Sides /\ Other(st[i].at) \in Sides
                               /\ Aside(h, st[i]) \in NodeOrEOT
  BY FrameAt, FrameFields DEF Suspended, Zip
<1>2. \A i \in Suspended(st) : Aside(k, st[i]) = Aside(h, st[i])
  BY <1>1 DEF Aside, Alike, Sides
<1>3. Below(k, c) = Below(h, c) /\ Good(k, c)
  BY AlikeGood DEF Zip
<1>4. \A i \in Suspended(st) : Kept(k, st[i]) = Kept(h, st[i]) /\ Good(k, Aside(k, st[i]))
  BY <1>1, <1>2, AlikeGood DEF Kept, FrameOK
<1>5. \A i \in Suspended(st) : \A m \in {st[i].node} \cup Kept(h, st[i]) : m \in NodeOrEOT /\ h[m].key \in Key
  BY <1>1, GoodBelow DEF Kept, FrameOK, NodeOrEOT
<1>6. \A m \in Below(h, c) : m \in NodeOrEOT /\ h[m].key \in Key
  BY GoodBelow DEF Zip, NodeOrEOT
<1>7. ASSUME NEW i \in Suspended(st) PROVE FrameOK(k, c, st[i])
  <2>1. k[st[i].node].key \in Key
    BY <1>1, <1>5, AlikeOn
  <2>2. \A m \in Below(k, c) : On(k, m, st[i].at, st[i].node)
    BY <1>1, <1>3, <1>5, <1>6, AlikeOn DEF FrameOK
  <2>3. \A m \in Kept(k, st[i]) : On(k, m, Other(st[i].at), st[i].node)
    BY <1>1, <1>4, <1>5, AlikeOn DEF FrameOK
  <2> QED BY <1>4, <2>1, <2>2, <2>3 DEF FrameOK
<1>8. ASSUME NEW i \in Suspended(st), NEW j \in Suspended(st), i < j PROVE Inside(k, st[i], st[j])
  <2>1. Inside(h, st[i], st[j])
    BY <1>8 DEF Zip
  <2> QED BY <1>1, <1>4, <1>5, <2>1, AlikeOn DEF Inside
<1>9. Held(k, st) = Held(h, st)
  BY <1>4 DEF Held
<1> QED BY <1>3, <1>7, <1>8, <1>9 DEF Zip, Tree

\* A traversal from root that has come to the subtree c, with the frames of
\* st: what it visited and what is to come make up the tree, in order. The node
\* that is with the callback is in both.
Underway(h, root, c, st, vis, called) ==
  /\ Good(h, root)
  /\ \A i \in DOMAIN st : st[i].fn = "each" => st[i].at = "left"
  /\ Zip(h, c, Mirror(st))
  /\ Elements(vis) \cup Tree(h, c, Mirror(st)) = Below(h, root)
  /\ \A v \in Elements(vis), m \in Tree(h, c, Mirror(st)) : v = m \/ compar(h[v].key, h[m].key) < 0
  /\ Elements(vis) \cap Tree(h, c, Mirror(st)) = {} <=> ~called
  /\ Sorted(h, vis)

LEMMA UnderwayStart ==
  ASSUME NEW h, NEW root, Good(h, root)
  PROVE  Underway(h, root, root, <<>>, <<>>, FALSE)
<1>1. Suspended(Mirror(<<>>)) = {}
  BY DEF Suspended, Mirror
<1>2. Zip(h, root, Mirror(<<>>)) /\ Tree(h, root, Mirror(<<>>)) = Below(h, root)
  BY <1>1, OnePiece
<1>3. Elements(<<>>) = {}
  BY DEF Elements
<1> QED BY <1>2, <1>3 DEF Underway, Sorted

LEMMA UnderwayEnd ==
  ASSUME NEW h, HeapOK(h), NEW root \in NodeOrEOT, NEW vis \in Seq(Node),
         Underway(h, root, EOT, <<>>, vis, FALSE)
  PROVE  vis = InOrderFrom(h, root)
<1>1. Suspended(Mirror(<<>>)) = {}
  BY DEF Suspended, Mirror
<1>2. Tree(h, EOT, Mirror(<<>>)) = {}
  BY <1>1, OnePiece, BelowNone
<1>3. Good(h, root) /\ Elements(vis) = Below(h, root) /\ Sorted(h, vis)
  BY <1>2 DEF Underway
<1>4. PICK q : q = InOrderFrom(h, root)
  OBVIOUS
<1>5. q \in Seq(Node) /\ Elements(q) = Below(h, root) /\ Sorted(h, q)
  BY <1>3, <1>4, InOrderEnumerates DEF Enumerates, Elements, Sorted
<1>6. \A n \in Elements(vis) : h[n].key \in Key
  BY <1>3, GoodBelow
<1> QED BY <1>3, <1>4, <1>5, <1>6, SortedUnique

LEMMA UnderwayAlike ==
  ASSUME NEW h, HeapOK(h), NEW k, HeapOK(k), Alike(h, k), NEW root \in NodeOrEOT,
         NEW c \in NodeOrEOT, NEW st \in Seq(Frame), NEW vis \in Seq(Node),
         NEW called \in BOOLEAN, Underway(h, root, c, st, vis, called)
  PROVE  Underway(k, root, c, st, vis, called)
<1>1. Mirror(st) \in Seq(Frame)
  BY MirrorSeq
<1>2. PICK todo : todo = Tree(h, c, Mirror(st))
  OBVIOUS
<1>3. /\ Good(h, root) /\ Zip(h, c, Mirror(st))
      /\ Elements(vis) \cup todo = Below(h, root)
      /\ \A v \in Elements(vis), m \in todo : v = m \/ compar(h[v].key, h[m].key) < 0
      /\ Sorted(h, vis)
  BY <1>2 DEF Underway
<1>4. /\ Good(k, root) /\ Below(k, root) = Below(h, root)
      /\ Zip(k, c, Mirror(st)) /\ Tree(k, c, Mirror(st)) = todo
  BY <1>1, <1>2, <1>3, AlikeGood, AlikeZip
<1>5. \A m \in Below(h, root) : m \in NodeOrEOT /\ h[m].key \in Key
  BY <1>3, GoodBelow DEF NodeOrEOT
<1>6. \A m, n \in Below(h, root) : compar(k[m].key, k[n].key) < 0 <=> compar(h[m].key, h[n].key) < 0
  BY <1>5, AlikeOn
<1>7. Sorted(k, vis)
  <2>1. \A i \in 1 .. Len(vis) : vis[i] \in Below(h, root)
    BY <1>3 DEF Elements
  <2> QED BY <1>3, <1>6, <2>1 DEF Sorted
<1>8. \A v \in Elements(vis), m \in todo : v = m \/ compar(k[v].key, k[m].key) < 0
  <2>1. \A v \in Elements(vis), m \in todo : v \in Below(h, root) /\ m \in Below(h, root)
    BY <1>3
  <2> QED BY <1>3, <1>6, <2>1
<1> QED BY <1>2, <1>4, <1>3, <1>7, <1>8 DEF Underway

\* The frames of a put from the callback are not the traversal's.
LEMMA UnderwayPut ==
  ASSUME NEW f, NEW s, NEW t, Pushed(f, s, t), f.fn # "each",
         NEW h, NEW root, NEW c, NEW vis, NEW called
  PROVE  Underway(h, root, c, s, vis, called) <=> Underway(h, root, c, t, vis, called)
<1>1. f \in Frame
  BY DEF Pushed
<1>2. Pushed(Seen(f), Mirror(s), Mirror(t)) /\ Seen(f).fn = "each"
  BY <1>1, MirrorPushed, SeenFrame
<1>3. /\ Zip(h, c, Mirror(t)) <=> Zip(h, c, Mirror(s))
      /\ Tree(h, c, Mirror(t)) = Tree(h, c, Mirror(s))
  BY <1>2, EachTop
<1>4. (\A i \in DOMAIN t : t[i].fn = "each" => t[i].at = "left")
        <=> (\A i \in DOMAIN s : s[i].fn = "each" => s[i].at = "left")
  BY DEF Pushed
<1> QED BY <1>3, <1>4 DEF Underway

LEMMA UnderwayDescend ==
  ASSUME NEW h, HeapOK(h), NEW f, NEW s, NEW t, Pushed(f, s, t), f.fn = "each", f.at = "left",
         NEW root, NEW vis, Underway(h, root, f.node, s, vis, FALSE)
  PROVE  Underway(h, root, h[f.node].left, t, vis, FALSE)
<1>1. f \in Frame
  BY DEF Pushed
<1>2. PICK g : g = Seen(f)
  OBVIOUS
<1>3. Pushed(g, Mirror(s), Mirror(t)) /\ g.fn = "put" /\ g.at = "left" /\ g.node = f.node
  BY <1>1, <1>2, MirrorPushed, SeenFrame
<1>4. Zip(h, g.node, Mirror(s))
  BY <1>3 DEF Underway
<1>5. /\ Zip(h, h[g.node][g.at], Mirror(t))
      /\ Tree(h, h[g.node][g.at], Mirror(t)) = Tree(h, g.node, Mirror(s))
  BY <1>3, <1>4, ZipPush
<1>6. h[g.node][g.at] = h[f.node].left
  BY <1>3
<1>7. /\ Zip(h, h[f.node].left, Mirror(t))
      /\ Tree(h, h[f.node].left, Mirror(t)) = Tree(h, f.node, Mirror(s))
  BY <1>3, <1>5, <1>6
<1>8. \A i \in DOMAIN t : t[i].fn = "each" => t[i].at = "left"
  BY DEF Pushed, Underway
<1> QED BY <1>7, <1>8 DEF Underway

\* The frame on top has the node that comes next.
LEMMA UnderwayTop ==
  ASSUME NEW h, HeapOK(h), NEW f, NEW s, NEW t, Pushed(f, s, t), f.fn = "each",
         Zip(h, EOT, Mirror(t)), \A i \in DOMAIN t : t[i].fn = "each" => t[i].at = "left"
  PROVE  /\ Zip(h, h[f.node].right, Mirror(s))
         /\ Tree(h, EOT, Mirror(t)) = {f.node} \cup Tree(h, h[f.node].right, Mirror(s))
         /\ f.node \notin Tree(h, h[f.node].right, Mirror(s)) /\ f.node \in Node
         /\ \A m \in Tree(h, EOT, Mirror(t)) :
              h[m].key \in Key /\ (m = f.node \/ compar(h[f.node].key, h[m].key) < 0)
         /\ \A i \in DOMAIN s : s[i].fn = "each" => s[i].at = "left"
<1>1. f \in Frame /\ f.at = "left" /\ s \in Seq(Frame) /\ t \in Seq(Frame)
  BY DEF Pushed
<1>2. PICK g : g = Seen(f)
  OBVIOUS
<1>3. Pushed(g, Mirror(s), Mirror(t)) /\ g.fn = "put" /\ g.at = "left" /\ g.node = f.node
  BY <1>1, <1>2, MirrorPushed, SeenFrame
<1>4. \A i \in DOMAIN s : s[i].fn = "each" => s[i].at = "left"
  BY DEF Pushed
<1>5. \A j \in Suspended(Mirror(s)) : Mirror(s)[j].at = "left"
  <2> TAKE j \in Suspended(Mirror(s))
  <2>1. j \in DOMAIN s /\ Mirror(s)[j] = Seen(s[j]) /\ s[j] \in Frame /\ Mirror(s)[j].fn # "each"
    BY <1>1, MirrorSeq DEF Suspended
  <2>2. s[j].fn = "each"
    BY <2>1, SeenFrame
  <2> QED BY <1>4, <2>1, <2>2, SeenFrame
<1>6. Zip(h, EOT, Mirror(t))
  OBVIOUS
<1>7. /\ Zip(h, h[g.node].right, Mirror(s))
      /\ Tree(h, EOT, Mirror(t)) = {g.node} \cup Tree(h, h[g.node].right, Mirror(s))
      /\ g.node \in Node /\ g.node \notin Tree(h, h[g.node].right, Mirror(s))
      /\ \A m \in Tree(h, EOT, Mirror(t)) : m = g.node \/ compar(h[g.node].key, h[m].key) < 0
  BY <1>3, <1>5, <1>6, NextUp
<1>8. \A m \in Tree(h, EOT, Mirror(t)) : h[m].key \in Key
  <2>1. Mirror(t) \in Seq(Frame) /\ EOT \in NodeOrEOT
    BY <1>1, MirrorSeq DEF NodeOrEOT
  <2> QED BY <1>6, <2>1, KeptGood
<1> QED BY <1>3, <1>4, <1>7, <1>8

LEMMA UnderwayAction ==
  ASSUME NEW h, HeapOK(h), NEW f, NEW s, NEW t, Pushed(f, s, t), f.fn = "each",
         NEW root, NEW vis \in Seq(Node), Underway(h, root, EOT, t, vis, FALSE)
  PROVE  Underway(h, root, EOT, t, Append(vis, f.node), TRUE)
<1>1. PICK todo : todo = Tree(h, EOT, Mirror(t))
  OBVIOUS
<1>2. PICK rest : rest = Tree(h, h[f.node].right, Mirror(s))
  OBVIOUS
<1>3. PICK n : n = f.node
  OBVIOUS
<1>4. /\ todo = {n} \cup rest /\ n \in Node
      /\ \A m \in todo : m = n \/ compar(h[n].key, h[m].key) < 0
  <2>1. Zip(h, EOT, Mirror(t)) /\ \A i \in DOMAIN t : t[i].fn = "each" => t[i].at = "left"
    BY DEF Underway
  <2> QED BY <1>1, <1>2, <1>3, <2>1, UnderwayTop
<1>5. PICK q : q = Append(vis, n)
  OBVIOUS
<1>6. /\ Len(q) = Len(vis) + 1 /\ Len(vis) \in Nat /\ q[Len(vis) + 1] = n
      /\ \A i \in 1 .. Len(vis) : q[i] = vis[i]
  BY <1>4, <1>5
<1>7. Elements(q) = Elements(vis) \cup {n}
  <2>1. \A i \in 1 .. Len(q) : i \in 1 .. Len(vis) \/ i = Len(vis) + 1
    BY <1>6
  <2>2. Len(vis) + 1 \in 1 .. Len(q) /\ \A i \in 1 .. Len(vis) : i \in 1 .. Len(q)
    BY <1>6
  <2>3. Elements(q) \subseteq Elements(vis) \cup {n}
    BY <1>6, <2>1 DEF Elements
  <2>4. Elements(vis) \cup {n} \subseteq Elements(q)
    BY <1>6, <2>2 DEF Elements
  <2> QED BY <2>3, <2>4
<1>8. /\ \A v \in Elements(vis), m \in todo : v # m /\ compar(h[v].key, h[m].key) < 0
      /\ Elements(vis) \cup todo = Below(h, root)
      /\ Sorted(h, vis)
  BY <1>1 DEF Underway
<1>9. Sorted(h, q)
  <2> SUFFICES ASSUME NEW i \in 1 .. Len(q), NEW j \in 1 .. Len(q), i < j
               PROVE  compar(h[q[i]].key, h[q[j]].key) < 0
    BY DEF Sorted
  <2>1. i \in 1 .. Len(vis)
    BY <1>6
  <2>2. CASE j \in 1 .. Len(vis)
    BY <1>6, <1>8, <2>1, <2>2 DEF Sorted
  <2>3. CASE j = Len(vis) + 1
    <3>1. vis[i] \in Elements(vis)
      BY <2>1 DEF Elements
    <3> QED BY <1>4, <1>6, <1>8, <2>1, <2>3, <3>1
  <2> QED BY <1>6, <2>2, <2>3
<1>10. Underway(h, root, EOT, t, q, TRUE)
  BY <1>1, <1>4, <1>7, <1>8, <1>9 DEF Underway
<1> QED BY <1>3, <1>5, <1>10

LEMMA UnderwayContinue ==
  ASSUME NEW h, HeapOK(h), NEW f, NEW s, NEW t, Pushed(f, s, t), f.fn = "each",
         NEW root, NEW vis, Underway(h, root, EOT, t, vis, TRUE)
  PROVE  Underway(h, root, h[f.node].right, s, vis, FALSE)
<1>1. PICK todo : todo = Tree(h, EOT, Mirror(t))
  OBVIOUS
<1>2. PICK rest : rest = Tree(h, h[f.node].right, Mirror(s))
  OBVIOUS
<1>3. PICK n : n = f.node
  OBVIOUS
<1>4. /\ Zip(h, h[f.node].right, Mirror(s))
      /\ todo = {n} \cup rest /\ n \notin rest /\ n \in Node
      /\ \A m \in todo : m = n \/ compar(h[n].key, h[m].key) < 0
      /\ \A m \in todo : h[m].key \in Key
      /\ \A i \in DOMAIN s : s[i].fn = "each" => s[i].at = "left"
  <2>1. Zip(h, EOT, Mirror(t)) /\ \A i \in DOMAIN t : t[i].fn = "each" => t[i].at = "left"
    BY DEF Underway
  <2> QED BY <1>1, <1>2, <1>3, <2>1, UnderwayTop
<1>5. /\ \A v \in Elements(vis), m \in todo : v = m \/ compar(h[v].key, h[m].key) < 0
      /\ Elements(vis) \cup todo = Below(h, root)
      /\ Elements(vis) \cap todo # {}
      /\ Sorted(h, vis) /\ Good(h, root)
  BY <1>1 DEF Underway
<1>6. \A v \in Elements(vis) \cap todo : v = n
  <2> TAKE v \in Elements(vis) \cap todo
  <2>1. n \in todo /\ h[n].key \in Key /\ h[v].key \in Key
    BY <1>4
  <2>2. v = n \/ compar(h[v].key, h[n].key) < 0
    BY <1>5, <2>1
  <2>3. v = n \/ compar(h[n].key, h[v].key) < 0
    BY <1>4
  <2> QED BY <2>1, <2>2, <2>3, KeyOrder
<1>7. n \in Elements(vis) /\ Elements(vis) \cap rest = {}
  BY <1>4, <1>5, <1>6
<1>8. Elements(vis) \cup rest = Below(h, root)
  BY <1>4, <1>5, <1>7
<1> QED BY <1>2, <1>4, <1>5, <1>7, <1>8 DEF Underway

Traversing ==
  \/ pc \in {"each", "action", "acted"}
  \/ pc = "each_ret" /\ status = "ok"
  \/ pc \in {"put", "put_ret"} /\ \E i \in DOMAIN stack : stack[i].fn = "each"

Ahead == IF pc = "each" THEN cur ELSE EOT

\* A callback that puts can only be replacing a pair, so the tree below the
\* traversal stays as it was.
Trip == CallbackPuts # "any" =>
  /\ pc = "each_ret" => Sorted(heap, visited)
  /\ Traversing /\ pc \in {"each", "each_ret"} => Underway(heap, head, Ahead, stack, visited, FALSE)
  /\ Traversing /\ pc \notin {"each", "each_ret"} => Underway(heap, head, EOT, stack, visited, TRUE)
  /\ Traversing /\ pc = "put" => \E m \in Tree(heap, cur, stack) : compar(arg.key, heap[m].key) = 0
  /\ Traversing => ~Inserted

LEMMA CallTrip ==
  ASSUME IInv, TreeInv, Call, CallbackPuts # "any"
  PROVE  Trip'
<1>1. pc = "idle" /\ stack = <<>>
  BY DEF Call, dict_init, dict_put, StartPut, dict_for_each, dict_destroy, TreeInv, Kinds
<1>2. CASE dict_for_each
  <2>1. HeapOK(heap) /\ head \in NodeOrEOT /\ Good(heap, head)
    BY <1>1, <1>2, HeapIsOK, SettledTree DEF dict_for_each, Settled
  <2>2. Underway(heap, head, head, <<>>, <<>>, FALSE)
    BY <2>1, UnderwayStart
  <2>3. /\ pc' = "each" /\ Ahead' = head /\ stack' = <<>> /\ visited' = <<>>
        /\ heap' = heap /\ head' = head
    BY <1>1, <1>2 DEF dict_for_each, Ahead
  <2> QED BY <2>2, <2>3 DEF Trip, Inserted
<1>3. CASE ~dict_for_each
  <2>1. pc' \in {"idle", "put", "destroy"} /\ stack' = <<>>
    BY <1>1, <1>3 DEF Call, dict_init, dict_put, StartPut, dict_destroy
  <2>2. ~Traversing'
    BY <2>1 DEF Traversing
  <2> QED BY <2>1, <2>2 DEF Trip
<1> QED BY <1>2, <1>3

\* The put of a callback finds the key it replaces on its way down.
LEMMA PutFinds ==
  ASSUME IInv, TreeInv, Trip, CallbackPuts # "any", Traversing, pc = "put"
  PROVE  cur # EOT
<1>1. HeapOK(heap) /\ stack \in Seq(Frame) /\ Zip(heap, cur, stack)
  BY PutFacts
<1>2. PICK m \in Tree(heap, cur, stack) : compar(arg.key, heap[m].key) = 0
  BY DEF Trip
<1>3. \A i \in Suspended(stack) : Toward(heap, arg.key, stack[i])
  BY DEF TreeInv, Path
<1>4. arg.key \in Key
  BY PutFacts
<1>5. m \notin Held(heap, stack)
  <2> SUFFICES ASSUME m \in Held(heap, stack) PROVE FALSE
    OBVIOUS
  <2>1. PICK i \in Suspended(stack) : m \in {stack[i].node} \cup Kept(heap, stack[i])
    BY DEF Held
  <2> QED BY <1>1, <1>2, <1>3, <1>4, <2>1, TowardApart
<1> QED BY <1>2, <1>5, BelowNone DEF Tree

LEMMA PutTrip ==
  ASSUME IInv, IInv', TreeInv, Trip, PutStep, CallbackPuts # "any"
  PROVE  Trip'
<1>1. pc \in {"put", "put_ret"} /\ pc' \in {"put", "put_ret", "idle", "acted"}
  BY DEF PutStep, PutDescend, PutReplace, PutAttach, PutNoMemory, PutUnwind, PutReturn
<1>2. /\ HeapOK(heap) /\ stack \in Seq(Frame) /\ cur \in NodeOrEOT /\ head \in NodeOrEOT
      /\ Puts(stack) /\ Zip(heap, cur, stack) /\ arg.key \in Key
  BY <1>1, PutFacts
<1>3. visited \in Seq(Node) /\ HeapOK(heap')
  <2>1. HeapOK(heap)'
    BY DEF IInv, TypeOK, SentinelIntact, HeapOK
  <2> QED BY <2>1 DEF IInv, TypeOK
<1>4. ASSUME Traversing', pc' \in {"put", "put_ret"} PROVE Traversing
  <2>1. CASE stack' = stack
    BY <1>1, <1>4, <2>1 DEF Traversing
  <2>2. CASE PutDescend
    <3>1. PICK f : stack' = <<f>> \o stack /\ f \in Frame /\ f.fn = "put"
      <4>1. PICK at \in {"left", "right"} : Push("put", cur, at)
        BY <2>2 DEF PutDescend
      <4>2. cur \in Node
        BY <1>2, <2>2 DEF PutDescend, NodeOrEOT
      <4> QED BY <4>1, <4>2 DEF Push, Frame
    <3>2. Pushed(f, stack, stack')
      BY <1>2, <3>1, PushedPush
    <3> QED BY <1>1, <1>4, <3>1, <3>2 DEF Pushed, Traversing
  <2>3. CASE PutUnwind
    <3>1. Pushed(Top, stack', stack)
      BY <1>2, <2>3, PushedPop DEF PutUnwind, Pop, Top, Running
    <3> QED BY <1>1, <1>4, <3>1 DEF Pushed, Traversing
  <2> QED BY <1>1, <1>4, <2>1, <2>2, <2>3
       DEF PutStep, PutReplace, PutAttach, PutNoMemory, PutReturn
<1>5. ASSUME pc' = "acted" PROVE Traversing /\ PutReturn /\ stack' = stack
  <2>1. PutReturn /\ stack # <<>> /\ stack' = stack
    BY <1>1, <1>5 DEF PutStep, PutDescend, PutReplace, PutAttach, PutNoMemory, PutUnwind, PutReturn
  <2>2. 1 \in DOMAIN stack /\ stack[1] = Top /\ stack[1] \in Frame
    BY <1>2, <2>1 DEF Top
  <2>3. stack[1].fn # "put" /\ stack[1].fn # "destroy"
    BY <1>2, <2>1, <2>2 DEF PutReturn, Running, Puts
  <2>4. stack[1].fn = "each"
    BY <2>2, <2>3 DEF Frame
  <2> QED BY <1>1, <2>1, <2>2, <2>4 DEF Traversing
<1> SUFFICES ASSUME Traversing' PROVE Trip'
  BY <1>1 DEF Trip
<1>6. Traversing
  BY <1>1, <1>4, <1>5 DEF Traversing
<1>7. /\ Underway(heap, head, EOT, stack, visited, TRUE) /\ ~Inserted
      /\ pc = "put" => \E m \in Tree(heap, cur, stack) : compar(arg.key, heap[m].key) = 0
  BY <1>1, <1>6 DEF Trip
<1>8. pc = "put" => cur # EOT
  BY <1>6, PutFinds
<1>9. ASSUME pc' = "put" \/ pc' = "put_ret" \/ pc' = "acted",
             Underway(heap', head', EOT, stack', visited', TRUE),
             pc' = "put" => \E m \in Tree(heap', cur', stack') : compar(arg'.key, heap'[m].key) = 0,
             ~Inserted'
      PROVE  Trip'
  BY <1>9 DEF Trip
<1>10. CASE PutDescend
  <2>1. PICK at \in {"left", "right"} : Push("put", cur, at) /\ cur' = heap[cur][at]
    BY <1>10 DEF PutDescend
  <2>2. PICK f : f = [fn |-> "put", node |-> cur, at |-> at]
    OBVIOUS
  <2>3. f \in Frame /\ f.fn = "put" /\ f.node = cur /\ f.at = at
    BY <1>2, <1>10, <2>2 DEF PutDescend, Frame, NodeOrEOT
  <2>4. PICK t : t = stack'
    OBVIOUS
  <2>5. Pushed(f, stack, t)
    BY <1>2, <2>1, <2>2, <2>3, <2>4, PushedPush DEF Push
  <2>6. Zip(heap, f.node, stack)
    BY <1>2, <2>3
  <2>7. Tree(heap, heap[f.node][f.at], t) = Tree(heap, f.node, stack)
    BY <1>2, <2>3, <2>5, <2>6, ZipPush
  <2>8. Tree(heap, heap[cur][at], t) = Tree(heap, cur, stack)
    BY <2>3, <2>7
  <2>9. Underway(heap, head, EOT, t, visited, TRUE)
    BY <1>7, <2>3, <2>5, UnderwayPut
  <2>10. /\ pc = "put" /\ pc' = "put"
         /\ UNCHANGED <<heap, head, visited, arg>>
    BY <1>10 DEF PutDescend
  <2>11. \E m \in Tree(heap', cur', stack') : compar(arg'.key, heap'[m].key) = 0
    BY <1>7, <2>1, <2>4, <2>8, <2>10
  <2>12. ~Inserted'
    BY <2>10 DEF Inserted
  <2>13. Underway(heap', head', EOT, stack', visited', TRUE)
    BY <2>4, <2>9, <2>10
  <2> QED BY <1>9, <2>10, <2>11, <2>12, <2>13
<1>11. CASE PutReplace
  <2>1. /\ pc' = "put_ret" /\ cur \in Node /\ compar(arg.key, heap[cur].key) = 0
        /\ old' = [key |-> heap[cur].key, value |-> heap[cur].value]
        /\ heap' = [heap EXCEPT ![cur].key = arg.key, ![cur].value = arg.value]
        /\ UNCHANGED <<head, stack, visited>>
    BY <1>2, <1>11 DEF PutReplace, NodeOrEOT
  <2>2. heap[cur].key \in Key
    BY <1>2, <2>1, BelowNode, GoodBelow DEF Zip
  <2>3. Alike(heap, heap')
    <3>1. heap[cur] \in SubtreeOf /\ cur \in NodeOrEOT
      BY <1>2 DEF HeapOK
    <3>2. /\ heap'[cur].left = heap[cur].left /\ heap'[cur].right = heap[cur].right
          /\ heap'[cur].level = heap[cur].level /\ heap'[cur].nnode = heap[cur].nnode
          /\ heap'[cur].key = arg.key
      BY <1>2, <2>1, <3>1 DEF HeapOK, SubtreeOf
    <3>3. \A m \in NodeOrEOT : m # cur => heap'[m] = heap[m]
      BY <1>2, <2>1 DEF HeapOK
    <3> QED BY <1>2, <2>1, <2>2, <3>2, <3>3 DEF Alike
  <2>4. EOT \in NodeOrEOT /\ TRUE \in BOOLEAN
    BY DEF NodeOrEOT
  <2>5. PICK k : k = heap'
    OBVIOUS
  <2>6. Underway(k, head, EOT, stack, visited, TRUE)
    BY <1>2, <1>3, <1>7, <2>3, <2>4, <2>5, UnderwayAlike
  <2>7. ~Inserted'
    <3>1. old'.key # NULL
      BY <2>1, <2>2, ConstantsAssumption
    <3> QED BY <3>1 DEF Inserted, NoPair
  <2>8. Underway(heap', head', EOT, stack', visited', TRUE)
    BY <2>1, <2>5, <2>6
  <2> QED BY <1>9, <2>1, <2>7, <2>8
<1>12. CASE PutAttach \/ PutNoMemory
  BY <1>8, <1>12 DEF PutAttach, PutNoMemory
<1>13. CASE PutUnwind
  <2>1. heap' = heap
    BY <1>7, <1>13, UnwindIdle
  <2>2. Pushed(Top, stack', stack) /\ Top.fn # "each"
    BY <1>2, <1>13, PushedPop DEF PutUnwind, Pop, Top, Running
  <2>3. PICK t : t = stack'
    OBVIOUS
  <2>4. Underway(heap, head, EOT, t, visited, TRUE)
    BY <1>7, <2>2, <2>3, UnderwayPut
  <2>5. pc' = "put_ret" /\ UNCHANGED <<head, visited, pc, status, old>>
    BY <1>13 DEF PutUnwind
  <2>6. ~Inserted'
    BY <1>7, <2>5 DEF Inserted
  <2>7. Underway(heap', head', EOT, stack', visited', TRUE)
    BY <2>1, <2>3, <2>4, <2>5
  <2> QED BY <1>9, <2>5, <2>6, <2>7
<1>14. CASE PutReturn
  <2>1. /\ pc = "put_ret" /\ pc' \in {"idle", "acted"} /\ UNCHANGED <<heap, stack, visited>>
        /\ head' = IF status = "ok" THEN cur ELSE head
    BY <1>14 DEF PutReturn
  <2>2. pc' = "acted"
    BY <2>1 DEF Traversing
  <2>3. 1 \notin Suspended(stack)
    <3>1. 1 \in DOMAIN stack => stack[1] = Top /\ stack # <<>> /\ stack[1] \in Frame
      BY <1>2 DEF Top
    <3> QED BY <1>2, <1>14, <3>1 DEF PutReturn, Running, Suspended, Puts, Frame
  <2>4. Unchanged(heap, cur, stack, head)
    BY <1>7, <2>1 DEF TreeInv, Path
  <2>5. head' = head
    BY <2>1, <2>3, <2>4 DEF Unchanged
  <2>6. Underway(heap', head', EOT, stack', visited', TRUE)
    BY <1>7, <2>1, <2>5
  <2> QED BY <1>9, <2>2, <2>6 DEF Inserted
<1> QED BY <1>10, <1>11, <1>12, <1>13, <1>14 DEF PutStep

LEMMA CallbackTrip ==
  ASSUME IInv, TreeInv, Trip, Callback, CallbackPuts # "any"
  PROVE  Trip'
<1>1. /\ HeapOK(heap) /\ stack \in Seq(Frame) /\ stack # <<>> /\ pc \in {"action", "acted"}
      /\ \A i \in DOMAIN stack : stack[i].fn = "each"
      /\ head \in NodeOrEOT /\ Good(heap, head)
  <2>1. pc \in {"action", "acted"}
    BY DEF Callback, CallbackPut, CallbackContinue, CallbackAbort
  <2>2. stack \in Seq(Frame) /\ stack # <<>> /\ head # NULL
    BY <2>1 DEF IInv, TypeOK
  <2>3. Settled
    BY <2>1 DEF Settled
  <2> QED BY <2>1, <2>2, <2>3, HeapIsOK, SettledTree DEF TreeInv, Kinds
<1>2. Traversing /\ Underway(heap, head, EOT, stack, visited, TRUE)
  BY <1>1 DEF Traversing, Trip
<1>3. Pushed(Top, Tail(stack), stack) /\ Top.fn = "each"
  <2>1. Pushed(Top, Tail(stack), stack)
    BY <1>1, PushedPop DEF Top
  <2> QED BY <1>1, <2>1 DEF Pushed
<1>4. ASSUME NEW key \in Key, NEW value \in Value, CallbackPut(key, value) PROVE Trip'
  <2>1. /\ pc' = "put" /\ cur' = head /\ arg'.key = key /\ UNCHANGED <<heap, head, stack, visited>>
        /\ dict_get(key) # NotFound
    BY <1>4, ConstantsAssumption DEF CallbackPut, StartPut
  <2>2. Tree(heap, head, stack) = Below(heap, head)
    BY <1>1, OnePiece, EachFrames
  <2>3. \E m \in Below(heap, head) : compar(key, heap[m].key) = 0
    BY <1>1, <2>1, GetIsThere
  <2>4. \E m \in Tree(heap', cur', stack') : compar(arg'.key, heap'[m].key) = 0
    BY <2>1, <2>2, <2>3
  <2>5. Underway(heap', head', EOT, stack', visited', TRUE)
    BY <1>2, <2>1
  <2> QED BY <2>1, <2>4, <2>5 DEF Trip, Inserted
<1>5. CASE CallbackContinue
  <2>1. /\ pc' = "each" /\ cur' = heap[Top.node].right /\ stack' = Tail(stack)
        /\ UNCHANGED <<heap, head, visited>>
    BY <1>5 DEF CallbackContinue, Pop
  <2>2. Underway(heap, head, heap[Top.node].right, Tail(stack), visited, FALSE)
    BY <1>1, <1>2, <1>3, UnderwayContinue
  <2>3. Ahead' = heap[Top.node].right
    BY <2>1 DEF Ahead
  <2>4. Underway(heap', head', Ahead', stack', visited', FALSE)
    BY <2>1, <2>2, <2>3
  <2> QED BY <2>1, <2>4 DEF Trip, Inserted
<1>6. CASE CallbackAbort
  <2>1. pc' = "each_ret" /\ status' = "abort" /\ UNCHANGED <<heap, visited>>
    BY <1>6 DEF CallbackAbort
  <2>2. Sorted(heap', visited')
    BY <1>2, <2>1 DEF Underway, Sorted
  <2>3. ~Traversing'
    BY <2>1 DEF Traversing
  <2> QED BY <2>1, <2>2, <2>3 DEF Trip
<1> QED BY <1>4, <1>5, <1>6 DEF Callback

LEMMA EachTrip ==
  ASSUME IInv, TreeInv, Trip, EachStep, CallbackPuts # "any"
  PROVE  Trip'
<1>1. /\ HeapOK(heap) /\ stack \in Seq(Frame) /\ cur \in NodeOrEOT /\ visited \in Seq(Node)
      /\ pc \in {"each", "each_ret"} /\ \A i \in DOMAIN stack : stack[i].fn = "each"
  <2>1. pc \in {"each", "each_ret"}
    BY DEF EachStep, EachDescend, EachEnd, EachAction, EachAbort, EachReturn
  <2> QED BY <2>1, HeapIsOK DEF IInv, TypeOK, TreeInv, Kinds
<1>2. Traversing => Underway(heap, head, Ahead, stack, visited, FALSE)
  BY <1>1 DEF Trip
<1>3. CASE EachDescend
  <2>1. Underway(heap, head, cur, stack, visited, FALSE)
    BY <1>2, <1>3 DEF EachDescend, Traversing, Ahead
  <2>2. PICK f : f = [fn |-> "each", node |-> cur, at |-> "left"]
    OBVIOUS
  <2>3. f \in Frame /\ f.fn = "each" /\ f.node = cur /\ f.at = "left"
    BY <1>1, <1>3, <2>2 DEF EachDescend, Frame, NodeOrEOT
  <2>4. PICK t : t = stack'
    OBVIOUS
  <2>5. Pushed(f, stack, t)
    BY <1>1, <1>3, <2>2, <2>3, <2>4, PushedPush DEF EachDescend, Push
  <2>6. Underway(heap, head, f.node, stack, visited, FALSE)
    BY <2>1, <2>3
  <2>7. Underway(heap, head, heap[f.node].left, t, visited, FALSE)
    BY <1>1, <2>3, <2>5, <2>6, UnderwayDescend
  <2>8. /\ pc' = "each" /\ cur' = heap[cur].left /\ Ahead' = cur' /\ UNCHANGED <<heap, head, visited>>
    BY <1>3 DEF EachDescend, Ahead
  <2>9. Underway(heap', head', Ahead', stack', visited', FALSE)
    BY <2>3, <2>4, <2>7, <2>8
  <2> QED BY <2>8, <2>9 DEF Trip, Inserted
<1>4. CASE EachEnd
  <2>1. /\ pc' = "each_ret" /\ Ahead = EOT /\ Ahead' = EOT /\ Traversing
        /\ UNCHANGED <<heap, head, stack, visited>>
    BY <1>4 DEF EachEnd, Ahead, Traversing
  <2>2. Underway(heap', head', Ahead', stack', visited', FALSE)
    BY <1>2, <2>1
  <2>3. Sorted(heap', visited')
    BY <1>2, <2>1 DEF Underway, Sorted
  <2> QED BY <2>1, <2>2, <2>3 DEF Trip, Inserted
<1>5. CASE EachAction
  <2>1. /\ Running("each") /\ Traversing /\ Ahead = EOT
        /\ pc' = "action" /\ visited' = Append(visited, Top.node)
        /\ UNCHANGED <<heap, head, stack>>
    BY <1>5 DEF EachAction, Ahead, Traversing
  <2>2. Pushed(Top, Tail(stack), stack) /\ Top.fn = "each"
    BY <1>1, <2>1, PushedPop DEF Running, Top
  <2>3. Underway(heap, head, EOT, stack, Append(visited, Top.node), TRUE)
    <3>1. Underway(heap, head, EOT, stack, visited, FALSE)
      BY <1>2, <2>1
    <3> QED BY <1>1, <2>2, <3>1, UnderwayAction
  <2>4. Underway(heap', head', EOT, stack', visited', TRUE)
    BY <2>1, <2>3
  <2> QED BY <2>1, <2>4 DEF Trip, Inserted
<1>6. CASE EachAbort
  <2>1. pc = "each_ret" /\ pc' = "each_ret" /\ status' # "ok" /\ UNCHANGED <<heap, visited>>
    BY <1>6 DEF EachAbort
  <2>2. Sorted(heap', visited')
    BY <2>1 DEF Trip, Sorted
  <2>3. ~Traversing'
    BY <2>1 DEF Traversing
  <2> QED BY <2>1, <2>2, <2>3 DEF Trip
<1>7. CASE EachReturn
  BY <1>7 DEF EachReturn, Trip, Traversing
<1> QED BY <1>3, <1>4, <1>5, <1>6, <1>7 DEF EachStep

LEMMA NextTrip ==
  ASSUME IInv, IInv', TreeInv, Trip, [Next]_vars
  PROVE  Trip'
<1> SUFFICES ASSUME CallbackPuts # "any" PROVE Trip'
  BY DEF Trip
<1>1. CASE DestroyStep
  <2>1. pc' \in {"idle", "destroy", "destroy_ret"}
    BY <1>1 DEF DestroyStep, DestroyDescend, DestroyEnd, DestroyRight, node_destroy, DestroyReturn
  <2> QED BY <2>1 DEF Trip, Traversing
<1>2. CASE UNCHANGED vars
  <2>1. /\ UNCHANGED <<head, heap, pc, cur, stack, arg, status, old, visited>>
        /\ (Traversing' <=> Traversing) /\ Ahead' = Ahead /\ (Inserted' <=> Inserted)
    BY <1>2 DEF vars, Traversing, Ahead, Inserted
  <2> QED BY <2>1 DEF Trip
<1> QED BY <1>1, <1>2, CallTrip, PutTrip, CallbackTrip, EachTrip DEF Next, Step

\* A client whose callbacks put no new key is handed every pair once, in
\* order: the traversal keeps its place, whatever is replaced on the way.
THEOREM EachOnceInOrder == CallbackPuts # "any" => (Spec => []TraversalInOrder)
<1> SUFFICES ASSUME CallbackPuts # "any" PROVE Spec => []TraversalInOrder
  OBVIOUS
<1>1. Init => Trip
  BY DEF Init, Trip, Traversing
<1>2. IInv /\ IInv' /\ TreeInv /\ Trip /\ [Next]_vars => Trip'
  BY NextTrip
<1>3. ASSUME IInv, TreeInv, Trip PROVE TraversalInOrder
  <2>1. visited \in Seq(Node)
    BY <1>3 DEF IInv, TypeOK
  <2>2. ASSUME pc \in {"each", "each_ret", "action", "acted"} PROVE Sorted(heap, visited)
    <3>1. CASE pc = "each_ret"
      BY <1>3, <3>1 DEF Trip
    <3>2. CASE pc # "each_ret"
      <4>1. Traversing
        BY <2>2, <3>2 DEF Traversing
      <4> QED BY <1>3, <4>1 DEF Trip, Underway
    <3> QED BY <3>1, <3>2
  <2>3. ASSUME pc = "each_ret", stack = <<>>, status = "ok" PROVE visited = InOrder
    <3>1. HeapOK(heap) /\ head \in NodeOrEOT /\ head # NULL
      BY <1>3, <2>3, HeapIsOK DEF IInv, TypeOK
    <3>2. Underway(heap, head, EOT, <<>>, visited, FALSE)
      BY <1>3, <2>3 DEF Trip, Traversing, Ahead
    <3> QED BY <2>1, <3>1, <3>2, UnderwayEnd DEF InOrder
  <2>4. DOMAIN visited = 1 .. Len(visited)
    BY <2>1
  <2> QED BY <2>2, <2>3, <2>4 DEF TraversalInOrder, Sorted
<1> QED BY <1>1, <1>2, <1>3, TreeInvariant, PTL DEF Spec

-----------------------------------------------------------------------------
(***************************************************************************)
(* The sorted map that a dict is when clients only put keys above all      *)
(* others, or replace. No tree decides the order of a set of pairs.        *)
(***************************************************************************)
Row == [key : Key, value : Value \cup {NULL}]

\* p is the pairs of B in order.
Lists(p, B) ==
  /\ p \in Seq(Row) /\ Elements(p) = B
  /\ \A i, j \in 1 .. Len(p) : i < j => compar(p[i].key, p[j].key) < 0

LEMMA RowKeys ==
  ASSUME NEW p, NEW B, Lists(p, B)
  PROVE  /\ Len(p) \in Nat /\ \A i \in 1 .. Len(p) : p[i] \in Row /\ p[i].key \in Key /\ p[i] \in B
         /\ \A b \in B : b \in Row /\ b.key \in Key /\ \E i \in 1 .. Len(p) : b = p[i]
<1>1. \A r \in Row : r.key \in Key
  BY DEF Row
<1>2. p \in Seq(Row) /\ Len(p) \in Nat
  BY DEF Lists
<1>3. \A i \in 1 .. Len(p) : p[i] \in Row
  BY <1>2
<1>4. B = {p[i] : i \in 1 .. Len(p)}
  BY DEF Lists, Elements
<1> QED BY <1>1, <1>2, <1>3, <1>4

LEMMA CountPrefix ==
  ASSUME NEW p, NEW B, Lists(p, B), NEW i \in 0 .. Len(p)
  PROVE  IsFiniteSet({p[j] : j \in 1 .. i}) /\ Cardinality({p[j] : j \in 1 .. i}) = i
<1> DEFINE T == {p[j] : j \in 1 .. i}
           f == [j \in 1 .. i |-> p[j]]
<1>1. Len(p) \in Nat /\ \A j \in 1 .. Len(p) : p[j].key \in Key
  BY RowKeys
<1>2. i \in Nat /\ i <= Len(p) /\ \A j \in 1 .. i : j \in 1 .. Len(p)
  BY <1>1
<1>3. \A a, b \in 1 .. i : a < b => p[a] # p[b]
  <2> TAKE a, b \in 1 .. i
  <2> HAVE a < b
  <2>1. compar(p[a].key, p[b].key) < 0 /\ p[a].key \in Key /\ p[b].key \in Key
    BY <1>1, <1>2 DEF Lists
  <2> QED BY <2>1, KeyOrder
<1>4. \A a, b \in 1 .. i : f[a] = f[b] => a = b
  <2> TAKE a, b \in 1 .. i
  <2>1. a \in Nat /\ b \in Nat
    BY <1>2
  <2> QED BY <1>3, <2>1
<1>5. f \in Bijection(1 .. i, T)
  BY <1>4 DEF Bijection, Injection, Surjection, IsInjective
<1>6. ExistsBijection(1 .. i, T)
  BY <1>5 DEF ExistsBijection
<1>7. IsFiniteSet(1 .. i) /\ Cardinality(1 .. i) = i
  BY <1>2, FS_Interval
<1> QED BY <1>6, <1>7, FS_Bijection

LEMMA RankIsPlace ==
  ASSUME NEW p, NEW B, Lists(p, B), NEW i \in 1 .. Len(p)
  PROVE  Cardinality({b \in B : compar(b.key, p[i].key) <= 0}) = i
<1>1. /\ Len(p) \in Nat /\ \A j \in 1 .. Len(p) : p[j].key \in Key /\ p[j] \in B
      /\ \A b \in B : \E j \in 1 .. Len(p) : b = p[j]
  BY RowKeys
<1>2. i \in Nat /\ i \in 0 .. Len(p) /\ \A j \in 1 .. i : j \in 1 .. Len(p)
  BY <1>1
<1>3. \A j \in 1 .. Len(p) : compar(p[j].key, p[i].key) <= 0 <=> j <= i
  <2> TAKE j \in 1 .. Len(p)
  <2>1. /\ compar(p[j].key, p[i].key) \in Int /\ compar(p[i].key, p[i].key) = 0
        /\ compar(p[j].key, p[i].key) > 0 <=> compar(p[i].key, p[j].key) < 0
    BY <1>1, KeyOrder
  <2>2. j < i => compar(p[j].key, p[i].key) < 0
    BY DEF Lists
  <2>3. i < j => compar(p[i].key, p[j].key) < 0
    BY DEF Lists
  <2> QED BY <1>1, <1>2, <2>1, <2>2, <2>3
<1>4. {b \in B : compar(b.key, p[i].key) <= 0} = {p[j] : j \in 1 .. i}
  <2>1. ASSUME NEW b \in B, compar(b.key, p[i].key) <= 0 PROVE \E j \in 1 .. i : b = p[j]
    <3>1. PICK j \in 1 .. Len(p) : b = p[j]
      BY <1>1
    <3>2. j <= i
      BY <1>3, <2>1, <3>1
    <3>3. j \in 1 .. i
      BY <1>1, <1>2, <3>2
    <3> QED BY <3>1, <3>3
  <2>2. ASSUME NEW j \in 1 .. i PROVE p[j] \in B /\ compar(p[j].key, p[i].key) <= 0
    <3>1. j \in 1 .. Len(p) /\ j <= i
      BY <1>2
    <3> QED BY <1>1, <1>3, <3>1
  <2> QED BY <2>1, <2>2
<1> QED BY <1>2, <1>4, CountPrefix

LEMMA ListIsAscending ==
  ASSUME NEW p, NEW B, Lists(p, B)
  PROVE  InAscendingOrder(B) = p
<1> DEFINE rank(b) == Cardinality({q \in B : compar(q.key, b.key) <= 0})
<1>1. /\ Len(p) \in Nat /\ p \in Seq(Row) /\ Elements(p) = B
      /\ \A i \in 1 .. Len(p) : p[i] \in B
      /\ \A b \in B : \E i \in 1 .. Len(p) : b = p[i]
  BY RowKeys DEF Lists
<1>2. Cardinality(B) = Len(p)
  <2>1. Len(p) \in 0 .. Len(p)
    BY <1>1
  <2> QED BY <1>1, <2>1, CountPrefix DEF Elements
<1>3. \A i \in 1 .. Len(p) : rank(p[i]) = i
  BY RankIsPlace
<1>4. InAscendingOrder(B) = [i \in 1 .. Cardinality(B) |-> CHOOSE b \in B : rank(b) = i]
  BY DEF InAscendingOrder
<1> HIDE DEF rank
<1>5. \A i \in 1 .. Len(p) : (CHOOSE b \in B : rank(b) = i) = p[i]
  <2> TAKE i \in 1 .. Len(p)
  <2>1. \A b \in B : rank(b) = i => b = p[i]
    BY <1>1, <1>3
  <2>2. p[i] \in B /\ rank(p[i]) = i
    BY <1>1, <1>3
  <2> QED BY <2>1, <2>2
<1>6. p = [i \in 1 .. Len(p) |-> p[i]]
  BY <1>1
<1> QED BY <1>2, <1>4, <1>5, <1>6

LEMMA ListsNone == Lists(<<>>, {})
BY DEF Lists, Elements

\* What PairsFrom makes of any heap.
PairsOf(h, root) ==
  LET q == InOrderFrom(h, root)
  IN  [i \in DOMAIN q |-> [key |-> h[q[i]].key, value |-> h[q[i]].value]]

LEMMA TreeLists ==
  ASSUME NEW h, HeapOK(h), NEW root \in NodeOrEOT, Good(h, root),
         NEW B, B = {PairOf(h, n) : n \in Below(h, root)}
  PROVE  Lists(PairsOf(h, root), B)
<1>1. PICK q : q = InOrderFrom(h, root)
  OBVIOUS
<1>2. Enumerates(h, root, q)
  BY <1>1, InOrderEnumerates
<1>3. /\ q \in Seq(Node) /\ Len(q) \in Nat /\ DOMAIN q = 1 .. Len(q)
      /\ Elements(q) = Below(h, root)
      /\ \A i, j \in 1 .. Len(q) : i < j => compar(h[q[i]].key, h[q[j]].key) < 0
  BY <1>2 DEF Enumerates, Elements
<1>4. PICK p : p = [i \in 1 .. Len(q) |-> PairOf(h, q[i])]
  OBVIOUS
<1>5. PairsOf(h, root) = p
  BY <1>1, <1>3, <1>4 DEF PairsOf, PairOf
<1>6. \A n \in Below(h, root) : PairOf(h, n) \in Row
  <2> TAKE n \in Below(h, root)
  <2>1. n \in NodeOrEOT /\ h[n].key \in Key
    BY GoodBelow DEF NodeOrEOT
  <2> QED BY <2>1 DEF PairOf, Row, HeapOK, SubtreeOf
<1>7. \A i \in 1 .. Len(q) : q[i] \in Below(h, root) /\ p[i] = PairOf(h, q[i]) /\ p[i] \in Row
  BY <1>3, <1>4, <1>6 DEF Elements
<1>8. p \in Seq(Row) /\ Len(p) = Len(q)
  BY <1>3, <1>4, <1>7
<1>9. Elements(p) = B
  BY <1>3, <1>7, <1>8 DEF Elements
<1>10. \A i, j \in 1 .. Len(p) : i < j => compar(p[i].key, p[j].key) < 0
  <2>1. \A i \in 1 .. Len(p) : p[i].key = h[q[i]].key
    <3>1. \A n : PairOf(h, n).key = h[n].key
      BY DEF PairOf
    <3>2. \A i \in 1 .. Len(p) : p[i] = PairOf(h, q[i])
      BY <1>7, <1>8
    <3> QED BY <3>1, <3>2
  <2> QED BY <1>3, <1>8, <2>1
<1> QED BY <1>5, <1>8, <1>9, <1>10 DEF Lists

\* What a put makes of the pairs: those with other keys, and its own.
With(B, new) == {b \in B : compar(new.key, b.key) # 0} \cup {new}

LEMMA ListsReplace ==
  ASSUME NEW p, NEW B, Lists(p, B), NEW new \in Row,
         NEW i \in 1 .. Len(p), compar(new.key, p[i].key) = 0
  PROVE  Lists([p EXCEPT ![i] = new], With(B, new))
<1>1. PICK q : q = [p EXCEPT ![i] = new]
  OBVIOUS
<1>2. /\ Len(p) \in Nat /\ p \in Seq(Row) /\ new.key \in Key
      /\ \A j \in 1 .. Len(p) : p[j].key \in Key /\ p[j] \in B
      /\ \A b \in B : \E j \in 1 .. Len(p) : b = p[j]
      /\ \A j, k \in 1 .. Len(p) : j < k => compar(p[j].key, p[k].key) < 0
  <2>1. new.key \in Key
    BY DEF Row
  <2>2. p \in Seq(Row) /\ \A j, k \in 1 .. Len(p) : j < k => compar(p[j].key, p[k].key) < 0
    BY DEF Lists
  <2> QED BY <2>1, <2>2, RowKeys
<1>3. /\ q \in Seq(Row) /\ Len(q) = Len(p) /\ q[i] = new
      /\ \A j \in 1 .. Len(p) : j # i => q[j] = p[j]
  BY <1>1, <1>2
<1>4. \A j \in 1 .. Len(p) : /\ j < i => compar(p[j].key, new.key) < 0
                             /\ j > i => compar(new.key, p[j].key) < 0
  <2> TAKE j \in 1 .. Len(p)
  <2>1. /\ compar(p[j].key, new.key) < 0 <=> compar(p[j].key, p[i].key) < 0
        /\ compar(new.key, p[j].key) < 0 <=> compar(p[i].key, p[j].key) < 0
    BY <1>2, EqualKeys
  <2> QED BY <1>2, <2>1
<1>5. \A j \in 1 .. Len(p) : j # i <=> compar(new.key, p[j].key) # 0
  <2> TAKE j \in 1 .. Len(p)
  <2>1. compar(p[j].key, new.key) < 0 <=> compar(new.key, p[j].key) > 0
    BY <1>2, KeyOrder
  <2>2. i \in Nat /\ j \in Nat /\ (j < i \/ j = i \/ j > i)
    OBVIOUS
  <2> QED BY <1>4, <2>1, <2>2
<1>6. Elements(q) = With(B, new)
  <2>1. \A j \in 1 .. Len(p) : q[j] \in With(B, new)
    BY <1>2, <1>3, <1>5 DEF With
  <2>2. \A b \in With(B, new) : \E j \in 1 .. Len(p) : b = q[j]
    BY <1>2, <1>3, <1>5 DEF With
  <2> QED BY <1>3, <2>1, <2>2 DEF Elements
<1>7. ASSUME NEW j \in 1 .. Len(q), NEW k \in 1 .. Len(q), j < k
      PROVE  compar(q[j].key, q[k].key) < 0
  <2>1. j \in 1 .. Len(p) /\ k \in 1 .. Len(p) /\ j \in Nat /\ k \in Nat /\ i \in Nat
    BY <1>3
  <2>2. CASE j = i
    BY <1>3, <1>4, <1>7, <2>1, <2>2
  <2>3. CASE k = i
    BY <1>3, <1>4, <1>7, <2>1, <2>3
  <2>4. CASE j # i /\ k # i
    BY <1>2, <1>3, <1>7, <2>1, <2>4
  <2> QED BY <2>2, <2>3, <2>4
<1> QED BY <1>1, <1>3, <1>6, <1>7 DEF Lists

\* Where a key that is not there belongs.
LEMMA PlaceOf ==
  ASSUME NEW p, NEW B, Lists(p, B), NEW key \in Key, \A b \in B : compar(key, b.key) # 0
  PROVE  \E i \in 0 .. Len(p) : /\ \A j \in 1 .. i : compar(p[j].key, key) < 0
                                /\ \A j \in i + 1 .. Len(p) : compar(p[j].key, key) > 0
<1>1. /\ Len(p) \in Nat
      /\ \A j \in 1 .. Len(p) : p[j].key \in Key /\ p[j] \in B
      /\ \A j, k \in 1 .. Len(p) : j < k => compar(p[j].key, p[k].key) < 0
  BY RowKeys DEF Lists
<1>2. \A j \in 1 .. Len(p) : /\ compar(p[j].key, key) \in Int
                             /\ compar(p[j].key, key) < 0 \/ compar(p[j].key, key) > 0
  <2> TAKE j \in 1 .. Len(p)
  <2>1. compar(p[j].key, key) \in Int /\ (compar(p[j].key, key) = 0 <=> compar(key, p[j].key) = 0)
    BY <1>1, KeyOrder
  <2>2. compar(key, p[j].key) # 0
    BY <1>1
  <2> QED BY <2>1, <2>2
<1>3. CASE \A j \in 1 .. Len(p) : compar(p[j].key, key) < 0
  <2>1. Len(p) \in 0 .. Len(p) /\ \A j \in Len(p) + 1 .. Len(p) : FALSE
    BY <1>1
  <2> QED BY <1>3, <2>1
<1>4. CASE \E j \in 1 .. Len(p) : ~(compar(p[j].key, key) < 0)
  <2> DEFINE T == {j \in 1 .. Len(p) : compar(p[j].key, key) > 0}
  <2>1. T \subseteq Nat /\ T # {}
    BY <1>2, <1>4
  <2>2. PICK x \in T : \A y \in T : x <= y
    <3> HIDE DEF T
    <3> QED BY <2>1, LeastNatural
  <2>3. x \in Nat /\ x >= 1 /\ x <= Len(p) /\ x \in 1 .. Len(p) /\ compar(p[x].key, key) > 0
    BY <2>1
  <2>4. \A j \in 1 .. Len(p) : j < x => compar(p[j].key, key) < 0
    <3> SUFFICES ASSUME NEW j \in 1 .. Len(p), j < x, j \in T PROVE FALSE
      BY <1>2
    <3>1. x <= j
      BY <2>2
    <3> QED BY <2>3, <3>1
  <2>5. \A j \in 1 .. Len(p) : x < j => compar(p[j].key, key) > 0
    <3> TAKE j \in 1 .. Len(p)
    <3> HAVE x < j
    <3>1. compar(p[x].key, p[j].key) < 0 /\ p[j].key \in Key /\ p[x].key \in Key
      BY <1>1, <2>3
    <3>2. compar(p[j].key, p[x].key) > 0
      BY <3>1, KeyOrder
    <3> QED BY <2>3, <3>1, <3>2, KeyOrder
  <2>6. PICK i \in 0 .. Len(p) : i = x - 1
    BY <1>1, <2>3
  <2>7. \A j \in 1 .. i : j \in 1 .. Len(p) /\ j < x
    BY <1>1, <2>3, <2>6
  <2>8. \A j \in i + 1 .. Len(p) : j \in 1 .. Len(p) /\ (j = x \/ x < j)
    BY <1>1, <2>3, <2>6
  <2>9. \A j \in i + 1 .. Len(p) : compar(p[j].key, key) > 0
    BY <2>3, <2>5, <2>8
  <2>10. \A j \in 1 .. i : compar(p[j].key, key) < 0
    BY <2>4, <2>7
  <2> QED BY <2>9, <2>10
<1> QED BY <1>3, <1>4

LEMMA ListsInsert ==
  ASSUME NEW p, NEW B, Lists(p, B), NEW new \in Row, NEW i \in 0 .. Len(p),
         \A j \in 1 .. i : compar(p[j].key, new.key) < 0,
         \A j \in i + 1 .. Len(p) : compar(p[j].key, new.key) > 0
  PROVE  Lists(SubSeq(p, 1, i) \o <<new>> \o SubSeq(p, i + 1, Len(p)), With(B, new))
<1>1. PICK ql, qr : ql = SubSeq(p, 1, i) /\ qr = SubSeq(p, i + 1, Len(p))
  OBVIOUS
<1>2. PICK q : q = ql \o <<new>> \o qr
  OBVIOUS
<1>3. /\ Len(p) \in Nat /\ i \in Nat /\ i <= Len(p) /\ p \in Seq(Row) /\ new.key \in Key
      /\ \A j \in 1 .. Len(p) : p[j].key \in Key /\ p[j] \in B /\ p[j] \in Row
      /\ \A b \in B : \E j \in 1 .. Len(p) : b = p[j]
      /\ \A j, k \in 1 .. Len(p) : j < k => compar(p[j].key, p[k].key) < 0
  <2>1. new.key \in Key
    BY DEF Row
  <2>2. p \in Seq(Row) /\ \A j, k \in 1 .. Len(p) : j < k => compar(p[j].key, p[k].key) < 0
    BY DEF Lists
  <2>3. i \in Nat /\ i <= Len(p)
    BY RowKeys
  <2> QED BY <2>1, <2>2, <2>3, RowKeys
<1>4. /\ ql \in Seq(Row) /\ Len(ql) = i
      /\ \A j \in 1 .. i : ql[j] = p[j]
  <2>1. \A j \in 1 .. i : p[j] \in Row
    BY <1>3
  <2>2. /\ ql \in Seq(Row) /\ Len(ql) = IF 1 <= i THEN i - 1 + 1 ELSE 0
        /\ \A j \in 1 .. i - 1 + 1 : ql[j] = p[1 + j - 1]
    BY <1>1, <1>3, <2>1, SubSeqProperties
  <2>3. i - 1 + 1 = i /\ \A j \in 1 .. i : 1 + j - 1 = j
    BY <1>3
  <2>4. Len(ql) = i
    BY <1>3, <2>2
  <2> QED BY <2>2, <2>3, <2>4
<1>5. /\ qr \in Seq(Row) /\ Len(qr) = Len(p) - i
      /\ \A j \in 1 .. Len(p) - i : qr[j] = p[i + j]
  <2>1. \A j \in i + 1 .. Len(p) : p[j] \in Row
    BY <1>3
  <2>2. /\ qr \in Seq(Row) /\ Len(qr) = IF i + 1 <= Len(p) THEN Len(p) - (i + 1) + 1 ELSE 0
        /\ \A j \in 1 .. Len(p) - (i + 1) + 1 : qr[j] = p[i + 1 + j - 1]
    BY <1>1, <1>3, <2>1, SubSeqProperties
  <2>3. Len(p) - (i + 1) + 1 = Len(p) - i /\ \A j \in 1 .. Len(p) - i : i + 1 + j - 1 = i + j
    BY <1>3
  <2>4. Len(qr) = Len(p) - i
    BY <1>3, <2>2
  <2> QED BY <2>2, <2>3, <2>4
<1>6. /\ q \in Seq(Row) /\ Len(q) = Len(p) + 1
      /\ \A j \in 1 .. i : q[j] = p[j]
      /\ q[i + 1] = new
      /\ \A j \in i + 1 .. Len(p) : q[j + 1] = p[j]
  <2>1. /\ q \in Seq(Row) /\ Len(q) = Len(ql) + 1 + Len(qr)
        /\ \A j \in 1 .. Len(ql) : q[j] = ql[j]
        /\ q[Len(ql) + 1] = new
        /\ \A j \in 1 .. Len(qr) : q[Len(ql) + 1 + j] = qr[j]
    <3>1. ql \in Seq(Row) /\ qr \in Seq(Row) /\ new \in Row
      BY <1>4, <1>5
    <3> HIDE <1>4, <1>5
    <3> QED BY <1>2, <3>1, Joined
  <2>2. Len(q) = Len(p) + 1
    BY <1>3, <1>4, <1>5, <2>1
  <2>3. ASSUME NEW j \in i + 1 .. Len(p) PROVE q[j + 1] = p[j]
    <3>1. PICK k \in 1 .. Len(p) - i : k = j - i
      BY <1>3
    <3>2. i + 1 + k = j + 1 /\ i + k = j
      BY <1>3, <3>1
    <3>3. q[i + 1 + k] = qr[k] /\ qr[k] = p[i + k]
      BY <1>4, <1>5, <2>1
    <3> QED BY <3>2, <3>3
  <2> QED BY <1>4, <2>1, <2>2, <2>3
<1>7. \A j \in 1 .. Len(q) : \/ j \in 1 .. i /\ j \in 1 .. Len(p)
                             \/ j = i + 1
                             \/ j - 1 \in i + 1 .. Len(p) /\ j - 1 \in 1 .. Len(p) /\ q[j] = p[j - 1]
  <2> TAKE j \in 1 .. Len(q)
  <2>1. \/ j \in 1 .. i /\ j \in 1 .. Len(p)
        \/ j = i + 1
        \/ j - 1 \in i + 1 .. Len(p) /\ j - 1 \in 1 .. Len(p) /\ (j - 1) + 1 = j
    BY <1>3, <1>6
  <2> QED BY <1>6, <2>1
<1>8. \A j \in 1 .. Len(p) : /\ j <= i => j \in 1 .. i /\ compar(p[j].key, new.key) < 0 /\ j \in 1 .. Len(q)
                             /\ j > i => /\ j \in i + 1 .. Len(p) /\ j + 1 \in 1 .. Len(q)
                                         /\ compar(p[j].key, new.key) > 0 /\ compar(new.key, p[j].key) < 0
  <2> TAKE j \in 1 .. Len(p)
  <2>1. /\ j <= i => j \in 1 .. i /\ j \in 1 .. Len(q)
        /\ j > i => j \in i + 1 .. Len(p) /\ j + 1 \in 1 .. Len(q)
    BY <1>3, <1>6
  <2>2. compar(p[j].key, new.key) > 0 <=> compar(new.key, p[j].key) < 0
    BY <1>3, KeyOrder
  <2> QED BY <2>1, <2>2
<1>9. \A j \in 1 .. Len(p) : p[j] \in With(B, new)
  <2> TAKE j \in 1 .. Len(p)
  <2>1. /\ compar(new.key, p[j].key) = 0 <=> compar(p[j].key, new.key) = 0
        /\ j <= i \/ j > i
    BY <1>3, KeyOrder
  <2>2. compar(p[j].key, new.key) # 0
    BY <1>8, <2>1
  <2> QED BY <1>3, <2>1, <2>2 DEF With
<1>10. Elements(q) = With(B, new)
  <2>1. \A j \in 1 .. Len(q) : q[j] \in With(B, new)
    <3> TAKE j \in 1 .. Len(q)
    <3>1. CASE j \in 1 .. i /\ j \in 1 .. Len(p)
      BY <1>6, <1>9, <3>1
    <3>2. CASE j = i + 1
      BY <1>6, <3>2 DEF With
    <3>3. CASE j - 1 \in 1 .. Len(p) /\ q[j] = p[j - 1]
      BY <1>9, <3>3
    <3> QED BY <1>7, <3>1, <3>2, <3>3
  <2>2. ASSUME NEW b \in With(B, new) PROVE \E j \in 1 .. Len(q) : b = q[j]
    <3>1. CASE b = new
      <4>1. i + 1 \in 1 .. Len(q)
        BY <1>3, <1>6
      <4> QED BY <1>6, <3>1, <4>1
    <3>2. CASE b \in B
      <4>1. PICK j \in 1 .. Len(p) : b = p[j]
        BY <1>3, <3>2
      <4>2. j <= i \/ j > i
        BY <1>3
      <4> QED BY <1>6, <1>8, <4>1, <4>2
    <3> QED BY <3>1, <3>2 DEF With
  <2> QED BY <2>1, <2>2 DEF Elements
<1>11. ASSUME NEW j \in 1 .. Len(q), NEW k \in 1 .. Len(q), j < k
       PROVE  compar(q[j].key, q[k].key) < 0
  <2>1. i \in Nat /\ j \in Nat /\ k \in Nat
    BY <1>3
  <2>2. CASE j \in 1 .. i /\ k \in 1 .. i
    BY <1>3, <1>6, <1>7, <1>11, <2>1, <2>2
  <2>3. CASE j \in 1 .. i /\ k = i + 1
    BY <1>6, <2>3
  <2>4. CASE j \in 1 .. i /\ k - 1 \in i + 1 .. Len(p)
    <3>1. q[j] = p[j] /\ q[k] = p[k - 1] /\ j \in 1 .. Len(p) /\ k - 1 \in 1 .. Len(p) /\ j < k - 1
      BY <1>3, <1>6, <1>7, <2>1, <2>4
    <3> QED BY <1>3, <3>1
  <2>5. CASE j = i + 1 /\ k - 1 \in i + 1 .. Len(p)
    <3>1. q[j] = new /\ q[k] = p[k - 1] /\ k - 1 \in 1 .. Len(p) /\ k - 1 > i
      BY <1>3, <1>6, <1>7, <2>1, <2>5
    <3> QED BY <1>8, <3>1
  <2>6. CASE j - 1 \in i + 1 .. Len(p) /\ k - 1 \in i + 1 .. Len(p)
    <3>1. q[j] = p[j - 1] /\ q[k] = p[k - 1] /\ j - 1 \in 1 .. Len(p) /\ k - 1 \in 1 .. Len(p) /\ j - 1 < k - 1
      BY <1>3, <1>7, <1>11, <2>1, <2>6
    <3> QED BY <1>3, <3>1
  <2>7. /\ j \in 1 .. i \/ j = i + 1 \/ j - 1 \in i + 1 .. Len(p)
        /\ k \in 1 .. i \/ k = i + 1 \/ k - 1 \in i + 1 .. Len(p)
    BY <1>7
  <2>8. /\ j \in 1 .. i => j <= i
        /\ k \in 1 .. i => k <= i
        /\ j - 1 \in i + 1 .. Len(p) => j > i + 1
        /\ k - 1 \in i + 1 .. Len(p) => k > i + 1
    BY <1>3, <2>1
  <2> QED BY <1>11, <2>1, <2>2, <2>3, <2>4, <2>5, <2>6, <2>7, <2>8
<1> QED BY <1>1, <1>2, <1>6, <1>10, <1>11 DEF Lists

\* The pairs that the dict shows its caller.
Promised == IF Answering THEN Entitled ELSE bindings
Mapped == AscendingPuts => Lists(Pairs, Promised)

\* What a put is about to hand back is the pair it displaces, and nothing only
\* when there is none.
Owes == pc = "put_ret" =>
  /\ old # NoPair => status = "ok" /\ old \in bindings /\ compar(old.key, arg.key) = 0
  /\ old = NoPair => \A b \in bindings : compar(arg.key, b.key) # 0
Pledge == AscendingPuts => (\E p : Lists(p, bindings)) /\ Owes

LEMMA AnsweringRoot ==
  ASSUME IInv, TreeInv, Answering
  PROVE  /\ Suspended(stack) = {} /\ head # NULL /\ cur \in NodeOrEOT /\ HeapOK(heap)
         /\ Good(heap, cur) /\ Tree(heap, cur, stack) = Below(heap, cur)
         /\ status \in {"ok", "enomem"} /\ (status = "enomem" => cur = head)
         /\ \A n \in Below(heap, cur) : PairOf(heap, n) \in Entitled
         /\ AscendingPuts => Covers(heap, Below(heap, cur), Entitled)
<1>1. /\ head # NULL /\ Root = cur /\ HeapOK(heap)
      /\ stack \in Seq(Frame) /\ cur \in NodeOrEOT /\ head \in NodeOrEOT
      /\ Puts(stack) /\ arg \in [key : Key, value : Value] /\ arg.key \in Key
      /\ Zip(heap, cur, stack) /\ Linked(heap, stack)
      /\ \A n \in Tree(heap, cur, stack) : PairOf(heap, n) \in Entitled
      /\ AscendingPuts => /\ live \subseteq Tree(heap, cur, stack)
                      /\ Covers(heap, Tree(heap, cur, stack), Entitled)
      /\ \E nodes \in SUBSET Node : OwnedBy(nodes)
  BY PutFacts DEF Answering
<1>2. \A i \in DOMAIN stack : stack[i].fn = "each"
  <2> TAKE i \in DOMAIN stack
  <2>1. stack # <<>> /\ 1 \in DOMAIN stack /\ stack[1] = Top /\ i \in Nat /\ i >= 1 /\ stack[i] \in Frame
    BY <1>1 DEF Top
  <2>2. Top.fn # "put"
    BY <2>1 DEF Answering, Running
  <2>3. stack[i].fn # "put"
    <3>1. CASE i = 1
      BY <2>1, <2>2, <3>1
    <3>2. CASE i # 1
      BY <1>1, <2>1, <2>2, <3>2 DEF Puts
    <3> QED BY <3>1, <3>2
  <2>4. stack[i].fn # "destroy"
    BY <1>1 DEF Puts
  <2> QED BY <2>1, <2>3, <2>4 DEF Frame
<1>3. Suspended(stack) = {}
  BY <1>2, EachFrames
<1>4. Good(heap, cur) /\ Tree(heap, cur, stack) = Below(heap, cur)
  BY <1>1, <1>3, OnePiece
<1>5. status \in {"ok", "enomem"}
  BY DEF TreeInv, Kinds, Answering
<1>6. ASSUME status = "enomem" PROVE cur = head
  <2>1. Unchanged(heap, cur, stack, head)
    BY <1>6 DEF TreeInv, Path, Inserted, Answering
  <2> QED BY <1>3, <2>1 DEF Unchanged
<1> QED BY <1>1, <1>3, <1>4, <1>5, <1>6

LEMMA PairsAreMapped ==
  ASSUME IInv, TreeInv, Pledge
  PROVE  Mapped
<1> SUFFICES ASSUME AscendingPuts PROVE Lists(Pairs, Promised)
  BY DEF Mapped
<1>1. HeapOK(heap) /\ head \in NodeOrEOT \cup {NULL}
  BY HeapIsOK DEF IInv, TypeOK
<1>2. CASE head = NULL
  <2>1. pc = "idle" /\ stack = <<>> /\ Root = EOT
    BY <1>2 DEF IInv, TypeOK, TreeInv, Kinds, Root
  <2>2. Tree(heap, Root, stack) = {}
    BY <2>1, OnePiece, BelowNone DEF Suspended
  <2>3. bindings = {}
    BY <2>1, <2>2 DEF TreeInv, Whole, Covers, Entitled
  <2>4. Promised = {} /\ Pairs = <<>>
    BY <1>2, <2>1, <2>3 DEF Promised, Answering, Pairs
  <2> QED BY <2>4, ListsNone
<1>3. CASE head # NULL /\ Settled
  <2>1. head \in NodeOrEOT /\ Good(heap, head) /\ Suspended(stack) = {} /\ Root = head
        /\ \A n \in Below(heap, head) : PairOf(heap, n) \in bindings
    BY <1>3, SettledTree DEF Root, Settled
  <2>2. Tree(heap, Root, stack) = Below(heap, head)
    BY <2>1, OnePiece
  <2>3. Covers(heap, Below(heap, head), bindings)
    BY <1>3, <2>2 DEF TreeInv, Whole, Settled, Entitled
  <2>4. bindings = {PairOf(heap, n) : n \in Below(heap, head)}
    BY <2>1, <2>3 DEF Covers
  <2>5. Promised = bindings /\ Pairs = PairsOf(heap, head)
    BY <1>3 DEF Promised, Settled, Answering, Pairs, PairsFrom, PairsOf
  <2> QED BY <1>1, <2>1, <2>4, <2>5, TreeLists
<1>4. CASE Answering
  <2>1. /\ head # NULL /\ cur \in NodeOrEOT /\ Good(heap, cur)
        /\ (IF status = "ok" THEN cur ELSE head) = cur
        /\ \A n \in Below(heap, cur) : PairOf(heap, n) \in Entitled
        /\ Covers(heap, Below(heap, cur), Entitled)
    BY <1>4, AnsweringRoot
  <2>2. Entitled = {PairOf(heap, n) : n \in Below(heap, cur)}
    BY <2>1 DEF Covers
  <2>3. ~ Settled
    BY <1>4 DEF Settled, Answering
  <2>4. Promised = Entitled /\ Pairs = PairsOf(heap, cur)
    BY <1>4, <2>1, <2>3 DEF Promised, Pairs, PairsFrom, PairsOf
  <2> QED BY <1>1, <2>1, <2>2, <2>4, TreeLists
<1>5. CASE head # NULL /\ ~ Settled /\ ~ Answering
  <2>1. PICK p : Lists(p, bindings)
    BY DEF Pledge
  <2>2. Pairs = p /\ Promised = bindings
    BY <1>5, <2>1, ListIsAscending DEF Pairs, Promised
  <2> QED BY <2>1, <2>2
<1> QED BY <1>2, <1>3, <1>4, <1>5

LEMMA OwesKept ==
  ASSUME AscendingPuts, IInv, IInv', TreeInv, Pledge, Next
  PROVE  Owes'
<1>1. CASE PutReplace
  <2>1. /\ cur \in NodeOrEOT /\ cur # EOT /\ HeapOK(heap) /\ arg.key \in Key
        /\ Zip(heap, cur, stack) /\ \A n \in Tree(heap, cur, stack) : PairOf(heap, n) \in Entitled
    BY <1>1, PutFacts DEF PutReplace
  <2>2. /\ pc = "put" /\ status = "ok" /\ compar(arg.key, heap[cur].key) = 0
        /\ old' = PairOf(heap, cur) /\ UNCHANGED <<status, bindings, arg>>
    BY <1>1 DEF PutReplace, PairOf, TreeInv, Kinds
  <2>3. cur \in Node /\ cur \in Below(heap, cur) /\ Good(heap, cur)
    BY <2>1, BelowClosed DEF NodeOrEOT, Zip
  <2>4. heap[cur].key \in Key
    BY <2>1, <2>3, GoodBelow
  <2>5. PairOf(heap, cur) \in bindings
    BY <2>1, <2>2, <2>3 DEF Tree, Entitled
  <2>6. old'.key = heap[cur].key
    BY <2>2 DEF PairOf
  <2>7. old' # NoPair /\ compar(old'.key, arg.key) = 0
    BY <2>1, <2>2, <2>4, <2>6, KeyOrder, ConstantsAssumption DEF NoPair
  <2> QED BY <2>2, <2>5, <2>7 DEF Owes
<1>2. CASE PutAttach \/ PutNoMemory
  <2>1. pc = "put" /\ cur = EOT /\ old = NoPair /\ UNCHANGED <<old, bindings, arg>>
    BY <1>2 DEF PutAttach, PutNoMemory, TreeInv, Kinds
  <2>2. /\ HeapOK(heap) /\ arg.key \in Key /\ stack \in Seq(Frame) /\ Zip(heap, cur, stack)
        /\ Covers(heap, Tree(heap, cur, stack), Entitled)
    BY <2>1, PutFacts
  <2>3. Tree(heap, cur, stack) = Held(heap, stack) /\ Entitled = bindings
    BY <2>1, BelowNone DEF Tree, Entitled
  <2>4. ASSUME NEW b \in bindings PROVE compar(arg.key, b.key) # 0
    <3>1. PICK m \in Held(heap, stack) : PairOf(heap, m) = b
      BY <2>2, <2>3 DEF Covers
    <3>2. PICK i \in Suspended(stack) : m \in {stack[i].node} \cup Kept(heap, stack[i])
      BY DEF Held
    <3>3. Toward(heap, arg.key, stack[i])
      BY <2>1 DEF TreeInv, Path
    <3>4. compar(arg.key, heap[m].key) # 0
      BY <2>2, <3>2, <3>3, TowardApart
    <3>5. b.key = heap[m].key
      BY <3>1 DEF PairOf
    <3> QED BY <3>4, <3>5
  <2> QED BY <2>1, <2>4 DEF Owes
<1>3. CASE PutUnwind
  <2>1. pc = "put_ret" /\ UNCHANGED <<status, bindings, arg, old>>
    BY <1>3 DEF PutUnwind
  <2>2. Owes
    BY DEF Pledge
  <2> QED BY <2>1, <2>2 DEF Owes
<1>4. pc' # "put_ret" \/ PutReplace \/ PutAttach \/ PutNoMemory \/ PutUnwind
  BY DEF Next, Call, Step, PutStep, Callback, EachStep, DestroyStep, dict_init, dict_put,
     StartPut, dict_for_each, dict_destroy, PutDescend, PutReturn, CallbackPut,
     CallbackContinue, CallbackAbort, EachDescend, EachEnd, EachAction, EachAbort, EachReturn,
     DestroyDescend, DestroyEnd, DestroyRight, node_destroy, DestroyReturn
<1> QED BY <1>1, <1>2, <1>3, <1>4 DEF Owes

\* Only these steps change what the clients are entitled to.
LEMMA BindingSteps ==
  ASSUME Next
  PROVE  \/ PutReturn
         \/ DestroyReturn
         \/ dict_init
         \/ /\ UNCHANGED bindings /\ (head' = head)
            /\ \/ pc' # "put_ret" /\ pc # "put_ret"
               \/ pc' # "put_ret" /\ pc = "put_ret" /\ Running("put")
               \/ pc' = "put_ret" /\ UNCHANGED arg /\ pc = "put"
               \/ pc' = "put_ret" /\ UNCHANGED arg /\ pc = "put_ret" /\ Running("put")
BY DEF Next, Call, Step, PutStep, Callback, EachStep, DestroyStep, dict_put,
   StartPut, dict_for_each, dict_destroy, PutDescend, PutReplace, PutAttach, PutNoMemory, PutUnwind,
   CallbackPut, CallbackContinue, CallbackAbort, EachDescend, EachEnd, EachAction, EachAbort,
   EachReturn, DestroyDescend, DestroyEnd, DestroyRight, node_destroy

LEMMA NextPledge ==
  ASSUME IInv, IInv', TreeInv, Pledge, [Next]_vars
  PROVE  Pledge'
<1> SUFFICES ASSUME AscendingPuts PROVE (\E p : Lists(p, bindings')) /\ Owes'
  BY DEF Pledge
<1>1. CASE UNCHANGED vars
  BY <1>1 DEF vars, Pledge, Owes
<1>2. CASE Next
  <2>1. CASE UNCHANGED bindings
    BY <1>2, <2>1, OwesKept DEF Pledge
  <2>2. CASE PutReturn
    <3>1. Answering /\ bindings' = Promised
      BY <2>2 DEF PutReturn, Answering, Promised, Entitled
    <3>2. Lists(Pairs, Promised)
      BY PairsAreMapped DEF Mapped
    <3> QED BY <1>2, <3>1, <3>2, OwesKept
  <2>3. CASE DestroyReturn
    <3>1. bindings' = {}
      BY <2>3 DEF DestroyReturn
    <3> QED BY <1>2, <3>1, ListsNone, OwesKept
  <2> QED BY <1>2, <2>1, <2>2, <2>3, BindingSteps DEF dict_init
<1> QED BY <1>1, <1>2

\* The step that ends a put's recursion does what the sorted map does at once.
LEMMA PutAnswers ==
  ASSUME AscendingPuts, ~ Answering, Answering', pc' = "put_ret", head # NULL, Owes',
         status' \in {"ok", "enomem"}, arg' \in [key : Key, value : Value],
         UNCHANGED <<head, bindings, arg>>, Mapped, Mapped'
  PROVE  Promise!Next
<1>1. PICK p : p = Pairs
  OBVIOUS
<1>2. PICK w : w = Pairs'
  OBVIOUS
<1>3. /\ Lists(p, bindings)
      /\ Lists(w, IF status' = "ok" THEN With(bindings, arg) ELSE bindings)
  BY <1>1, <1>2 DEF Mapped, Promised, Entitled, With
<1>4. /\ Answered = [status |-> "none", old |-> NoPair]
      /\ Answered' = [status |-> status', old |-> old']
  BY DEF Answered
<1>5. arg.key \in Key /\ arg.value \in Value /\ arg \in Row /\ arg = [key |-> arg.key, value |-> arg.value]
  BY DEF Row
<1>6. /\ Len(p) \in Nat /\ p \in Seq(Row) /\ DOMAIN p = 1 .. Len(p)
      /\ \A i \in 1 .. Len(p) : p[i].key \in Key /\ p[i] \in bindings
      /\ \A b \in bindings : \E i \in 1 .. Len(p) : b = p[i]
  <2>1. p \in Seq(Row)
    BY <1>3 DEF Lists
  <2> QED BY <1>3, <2>1, RowKeys
<1>7. /\ (head # NULL) /\ (head' # NULL)
  OBVIOUS
<1>8. CASE old' # NoPair
  <2>1. status' = "ok" /\ old' \in bindings /\ compar(old'.key, arg.key) = 0
    BY <1>8 DEF Owes
  <2>2. PICK i \in 1 .. Len(p) : old' = p[i]
    BY <1>6, <2>1
  <2>3. compar(p[i].key, arg.key) = 0 /\ compar(arg.key, p[i].key) = 0
    BY <1>5, <1>6, <2>1, <2>2, KeyOrder
  <2>4. Lists([p EXCEPT ![i] = arg], With(bindings, arg))
    BY <1>3, <1>5, <2>3, ListsReplace
  <2>5. w = [p EXCEPT ![i] = arg]
    BY <1>3, <2>1, <2>4, ListIsAscending
  <2>6. Promise!Replace(arg.key, arg.value)
    BY <1>1, <1>2, <1>4, <1>5, <1>6, <1>7, <2>1, <2>2, <2>3, <2>5
    DEF Promise!Replace, Promise!NoAnswer, Promise!NoPair, Promise!Answer, NoPair
  <2> QED BY <1>5, <2>6 DEF Promise!Next
<1>9. CASE old' = NoPair /\ status' = "ok"
  <2>1. \A b \in bindings : compar(arg.key, b.key) # 0
    BY <1>9 DEF Owes
  <2>2. PICK i \in 0 .. Len(p) : /\ \A j \in 1 .. i : compar(p[j].key, arg.key) < 0
                                 /\ \A j \in i + 1 .. Len(p) : compar(p[j].key, arg.key) > 0
    BY <1>3, <1>5, <2>1, PlaceOf
  <2>3. Lists(SubSeq(p, 1, i) \o <<arg>> \o SubSeq(p, i + 1, Len(p)), With(bindings, arg))
    BY <1>3, <1>5, <2>2, ListsInsert
  <2>4. w = SubSeq(p, 1, i) \o <<arg>> \o SubSeq(p, i + 1, Len(p))
    BY <1>3, <1>9, <2>3, ListIsAscending
  <2>5. Promise!Insert(arg.key, arg.value)
    BY <1>1, <1>2, <1>4, <1>5, <1>7, <1>9, <2>2, <2>4
    DEF Promise!Insert, Promise!NoAnswer, Promise!NoPair, Promise!Answer, NoPair
  <2> QED BY <1>5, <2>5 DEF Promise!Next
<1>10. CASE old' = NoPair /\ status' = "enomem"
  <2>1. \A b \in bindings : compar(arg.key, b.key) # 0
    BY <1>10 DEF Owes
  <2>2. \A i \in DOMAIN p : compar(p[i].key, arg.key) # 0
    BY <1>5, <1>6, <2>1, KeyOrder
  <2>3. w = p
    BY <1>3, <1>10, ListIsAscending
  <2>4. Promise!NoMemory(arg.key)
    BY <1>1, <1>2, <1>4, <1>7, <1>10, <2>2, <2>3
    DEF Promise!NoMemory, Promise!Absent, Promise!NoAnswer, Promise!NoPair, Promise!Answer, NoPair
  <2> QED BY <1>5, <2>4 DEF Promise!Next
<1> QED BY <1>8, <1>9, <1>10

LEMMA NextKeepsPromise ==
  ASSUME AscendingPuts, IInv, IInv', TreeInv, TreeInv', Pledge', Mapped, Mapped', [Next]_vars
  PROVE  [Promise!Next]_Promise!vars
<1>1. ASSUME Promised' = Promised PROVE Pairs' = Pairs
  BY <1>1, ListIsAscending DEF Mapped
<1>2. CASE UNCHANGED vars
  <2>1. Promised' = Promised /\ Answered' = Answered /\ head' = head
    BY <1>2 DEF vars, Promised, Answering, Running, Top, Entitled, Answered
  <2> QED BY <1>1, <2>1 DEF Promise!vars
<1>3. CASE PutReturn
  <2>1. Answering /\ ~ Answering' /\ Promised' = Promised /\ head # NULL /\ head' # NULL
    <3>1. pc' # "put_ret" /\ head # NULL /\ cur # NULL
      BY <1>3, NotNull DEF PutReturn, IInv, TypeOK
    <3> QED BY <1>3, <3>1 DEF PutReturn, Answering, Promised, Entitled
  <2>2. Answered.status # "none" /\ Answered' = [status |-> "none", old |-> NoPair]
    BY <2>1, AnsweringRoot DEF Answered
  <2>3. Promise!Return
    BY <1>1, <2>1, <2>2 DEF Promise!Return, Promise!NoAnswer, Promise!NoPair, NoPair
  <2> QED BY <2>3 DEF Promise!Next
<1>4. CASE dict_init
  <2>1. head = NULL /\ head' # NULL /\ ~ Answering /\ ~ Answering' /\ Promised' = Promised
    BY <1>4, ConstantsAssumption DEF dict_init, Answering, Promised
  <2>2. Promise!Create
    BY <1>1, <2>1 DEF Promise!Create, Answered
  <2> QED BY <2>2 DEF Promise!Next
<1>5. CASE DestroyReturn
  <2>1. head # NULL /\ head' = NULL /\ ~ Answering /\ ~ Answering' /\ bindings' = {}
    BY <1>5 DEF DestroyReturn, Answering, IInv, TypeOK
  <2>2. Pairs' = <<>>
    BY <2>1 DEF Pairs
  <2>3. Promise!Destroy
    BY <2>1, <2>2 DEF Promise!Destroy, Answered, Promise!NoAnswer, Promise!NoPair, NoPair
  <2> QED BY <2>3 DEF Promise!Next
<1>6. ASSUME UNCHANGED bindings, head' = head, ~ Answering, ~ Answering'
      PROVE  UNCHANGED Promise!vars
  <2>1. Promised' = Promised /\ Answered' = Answered
    BY <1>6 DEF Promised, Answered
  <2> QED BY <1>1, <1>6, <2>1 DEF Promise!vars
<1>7. ASSUME UNCHANGED <<bindings, head, arg>>, pc' = "put_ret", pc \in {"put", "put_ret"},
             ~ Answering, Answering'
      PROVE  Promise!Next
  <2>1. head # NULL
    BY <1>7 DEF IInv, TypeOK
  <2>2. status' \in {"ok", "enomem"} /\ arg' \in [key : Key, value : Value]
    BY <1>7 DEF TreeInv, Kinds
  <2>3. Owes'
    BY DEF Pledge
  <2> QED BY <1>7, <2>1, <2>2, <2>3, PutAnswers
<1>8. /\ pc # "put_ret" => ~ Answering
      /\ pc' # "put_ret" => ~ Answering'
      /\ Running("put") => ~ Answering
  BY DEF Answering
<1> QED BY <1>2, <1>3, <1>4, <1>5, <1>6, <1>7, <1>8, BindingSteps

\* The dict of a client that only puts keys above all others, or replaces, is
\* the sorted map of dict.h: each put that inserts, replaces or runs out of
\* memory does so as a whole, between the steps of a traversal too, and hands
\* back the very pair it displaced.
THEOREM AscendingIsSortedMap == AscendingPuts => (Spec => ImplementsSortedMap)
<1> SUFFICES ASSUME AscendingPuts PROVE Spec => ImplementsSortedMap
  OBVIOUS
<1>1. Init => Pledge /\ Promise!Init
  <2> SUFFICES ASSUME Init PROVE Pledge /\ Promise!Init
    OBVIOUS
  <2>1. head = NULL /\ pc = "idle" /\ bindings = {}
    BY DEF Init
  <2>2. Pledge
    BY <2>1, ListsNone DEF Pledge, Owes
  <2>3. Pairs = <<>> /\ Answered = [status |-> "none", old |-> NoPair]
    BY <2>1 DEF Pairs, Answered, Answering
  <2> QED BY <2>1, <2>2, <2>3 DEF Promise!Init, Promise!NoAnswer, Promise!NoPair, NoPair
<1>2. IInv /\ IInv' /\ TreeInv /\ Pledge /\ [Next]_vars => Pledge'
  BY NextPledge
<1>3. IInv /\ TreeInv /\ Pledge => Mapped
  BY PairsAreMapped
<1>4. /\ IInv /\ IInv' /\ TreeInv /\ TreeInv' /\ Pledge' /\ Mapped /\ Mapped' /\ [Next]_vars
      => [Promise!Next]_Promise!vars
  BY NextKeepsPromise
<1> QED BY <1>1, <1>2, <1>3, <1>4, TreeInvariant, PTL DEF Spec, ImplementsSortedMap, Promise!Spec
=============================================================================
