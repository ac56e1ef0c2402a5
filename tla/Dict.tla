-------------------------------- MODULE Dict --------------------------------
(***************************************************************************)
(* The ordered dictionary of dict.c: an Arne Andersson tree of heap nodes  *)
(* hanging off one shared static sentinel, end_of_tree_sentinel.           *)
(*                                                                         *)
(* The recursion of subtree_put, subtree_for_each and subtree_destroy is   *)
(* an explicit call stack: `pc' says which function is being called or     *)
(* has just returned, `cur' is the node it was given or the one it         *)
(* returned, and a frame of `stack' is a caller suspended in its body.     *)
(* One stack serves all three functions, so a dict_put made from inside a  *)
(* dict_for_each callback runs on top of the frames of the traversal, as   *)
(* it does in the program.                                                 *)
(***************************************************************************)
EXTENDS Integers, Sequences, FiniteSets

CONSTANTS
  Node,          \* addresses malloc can return: bounds the allocations
  allocate(_),   \* those it may choose, of the free ones
  EOT,           \* &end_of_tree_sentinel
  Key, Value,    \* what clients store
  NULL,          \* the null pointer
  compar(_, _),  \* the dict_comparator handed to dict_init
  AscendingPuts, \* TRUE: clients only insert keys above all stored ones
  CallbackPuts   \* what a for_each callback may put: never, update or any

\* dict.h asks of a comparator that its sign is a total preorder.
ASSUME ComparatorAssumption ==
  /\ \A a, b \in Key : compar(a, b) \in Int
  /\ \A a, b \in Key : compar(a, b) < 0 <=> compar(b, a) > 0
  /\ \A a, b, c \in Key :
        compar(a, b) <= 0 /\ compar(b, c) <= 0 => compar(a, c) <= 0

ASSUME ConstantsAssumption ==
  /\ EOT \notin Node
  /\ NULL \notin Node \cup {EOT}
  /\ NULL \notin Key
  /\ AscendingPuts \in BOOLEAN
  /\ CallbackPuts \in {"never", "update", "any"}

ASSUME AllocateAssumption ==
  \A free \in SUBSET Node : allocate(free) \subseteq free

NodeOrEOT == Node \cup {EOT}

VARIABLES
  head,      \* dict->head, NULL when there is no dict
  heap,      \* the fields of every node, the sentinel's included
  live,      \* nodes malloc returned and free has not taken back
  pc,        \* where the running call is
  cur,       \* node passed down to, or returned by, the recursion
  stack,     \* suspended callers, innermost first
  arg,       \* key and value given to dict_put
  status,    \* the running call's status
  old,       \* *nkey and *nvalue: the pair a dict_put displaced
  visited,   \* history: nodes handed to the callback by this dict_for_each
  bindings   \* history: what the successful dict_puts so far entitle to

vars == <<head, heap, live, pc, cur, stack, arg, status, old, visited, bindings>>

SubtreeOf == [left : NodeOrEOT, right : NodeOrEOT, key : Key \cup {NULL},
              value : Value \cup {NULL}, nnode : Nat, level : Nat]

\* static struct subtree end_of_tree_sentinel: both children are itself.
Sentinel == [left |-> EOT, right |-> EOT, key |-> NULL, value |-> NULL,
             nnode |-> 0, level |-> 0]

\* node_init: a leaf.
node_init(key, value) ==
  [left |-> EOT, right |-> EOT, key |-> key, value |-> value,
   nnode |-> 1, level |-> 1]

Pair == [key : Key \cup {NULL}, value : Value \cup {NULL}]
NoPair == [key |-> NULL, value |-> NULL]

\* Stands for the contents of memory that is not allocated.
Unallocated == [Sentinel EXCEPT !.nnode = 1, !.level = 1]

Frame == [fn : {"put", "each", "destroy"}, node : Node, at : {"left", "right"}]

Push(fn, n, at) == stack' = <<[fn |-> fn, node |-> n, at |-> at]>> \o stack
Pop == stack' = Tail(stack)
Top == Head(stack)
Running(fn) == stack # <<>> /\ Top.fn = fn
\* A finished call takes its arguments and results with it.
Forget == cur' = EOT /\ arg' = NoPair /\ status' = "ok" /\ old' = NoPair
-----------------------------------------------------------------------------
(***************************************************************************)
(* Rebalancing: pure functions of the heap, as skew and split are.         *)
(***************************************************************************)
node_reconstruct_nnode(h, n) ==
  [h EXCEPT ![n].nnode = h[h[n].left].nnode + 1 + h[h[n].right].nnode]

subtree_rotate_right(h, n) ==
  LET l == h[n].left
      turned == [h EXCEPT ![n].left = h[l].right, ![l].right = n]
  IN  node_reconstruct_nnode(node_reconstruct_nnode(turned, n), l)

\* Mutant: the wrong grandchild changes parent.
subtree_rotate_left_wrong_child(h, n) ==
  LET r == h[n].right
      turned == [h EXCEPT ![n].right = h[r].right, ![r].left = n]
  IN  node_reconstruct_nnode(node_reconstruct_nnode(turned, n), r)

\* Mutant: the new root is counted before the node below it.
subtree_rotate_left_counts_swapped(h, n) ==
  LET r == h[n].right
      turned == [h EXCEPT ![n].right = h[r].left, ![r].left = n]
  IN  node_reconstruct_nnode(node_reconstruct_nnode(turned, r), n)

subtree_rotate_left(h, n) ==
  LET r == h[n].right
      turned == [h EXCEPT ![n].right = h[r].left, ![r].left = n]
  IN  node_reconstruct_nnode(node_reconstruct_nnode(turned, n), r)

\* skew rotates but returns the node it was given: the new root of the
\* rotated subtree, which subtree_rotate_right returns, is dropped.
skew(h, n) ==
  IF h[n].level = h[h[n].left].level
    THEN [heap |-> subtree_rotate_right(h, n), root |-> n]
    ELSE [heap |-> h, root |-> n]

\* Mutant: compares with >= and so rotates leaves.
split_at_least(h, n) ==
  LET r == h[n].right
  IN  IF h[n].level >= h[h[r].right].level
        THEN [heap |-> [subtree_rotate_left(h, n) EXCEPT ![r].level = @ + 1],
              root |-> r]
        ELSE [heap |-> h, root |-> n]

\* Mutant: the new root keeps its level.
split_level_kept(h, n) ==
  LET r == h[n].right
  IN  IF h[n].level = h[h[r].right].level
        THEN [heap |-> subtree_rotate_left(h, n), root |-> r]
        ELSE [heap |-> h, root |-> n]

split(h, n) ==
  LET r == h[n].right
  IN  IF h[n].level = h[h[r].right].level
        THEN [heap |-> [subtree_rotate_left(h, n) EXCEPT ![r].level = @ + 1],
              root |-> r]
        ELSE [heap |-> h, root |-> n]
-----------------------------------------------------------------------------
(***************************************************************************)
(* What a client can read off the tree.                                    *)
(***************************************************************************)
\* The nodes a walk from root can get to: no set of nodes without them has
\* root and the children of its own.
Closed(h, nodes) ==
  \A n \in nodes : /\ h[n].left = EOT \/ h[n].left \in nodes
                   /\ h[n].right = EOT \/ h[n].right \in nodes
Below(h, root) ==
  IF root = EOT THEN {}
  ELSE {n \in Node : \A nodes \in SUBSET (Node \ {n}) : root \in nodes => ~Closed(h, nodes)}

Reachable == IF head = NULL THEN {} ELSE Below(heap, head)
Contents == {[key |-> heap[n].key, value |-> heap[n].value] : n \in Reachable}

\* The order in which they are visited.
InOrderFrom(h, root) ==
  LET walk[n \in Below(h, root) \cup {EOT}] ==
        IF n = EOT THEN <<>>
        ELSE walk[h[n].left] \o <<n>> \o walk[h[n].right]
  IN  walk[root]

InOrder == IF head = NULL THEN <<>> ELSE InOrderFrom(heap, head)

dict_size == heap[head].nnode

NotFound == [value |-> NULL, index |-> -1]

\* subtree_get: the value and the index of the key, or NotFound. The C
\* loop adds up what it skips on the way down, this on the way back.
dict_get(key) ==
  LET get[n \in Below(heap, head) \cup {EOT}] ==
        IF n = EOT THEN NotFound
        ELSE IF compar(key, heap[n].key) < 0 THEN get[heap[n].left]
        ELSE LET skipped == heap[heap[n].left].nnode IN
          IF compar(key, heap[n].key) = 0
            THEN [value |-> heap[n].value, index |-> skipped]
            ELSE LET found == get[heap[n].right]
                 IN  IF found = NotFound THEN NotFound
                     ELSE [found EXCEPT !.index = @ + skipped + 1]
  IN  get[head]

ESRCH == EOT

\* A round of subtree_select, for every index j: the node itself or what
\* select finds below it.
select_round(n, select) ==
  [j \in Int |->
     LET i_head == heap[heap[n].left].nnode IN
       CASE n = EOT    -> ESRCH
         [] n # EOT /\ j < i_head -> select[heap[n].left][j]
         [] n # EOT /\ j > i_head -> select[heap[n].right][j - (i_head + 1)]
         [] OTHER      -> n]

\* subtree_select: the node at index i, counted from the end when negative.
dict_select(i) ==
  LET select[n \in Below(heap, head) \cup {EOT}] == select_round(n, select)
  IN  select[head][IF i < 0 THEN i + heap[head].nnode ELSE i]
-----------------------------------------------------------------------------
Init ==
  /\ head = NULL
  /\ heap = [n \in NodeOrEOT |-> IF n = EOT THEN Sentinel ELSE Unallocated]
  /\ live = {}
  /\ pc = "idle"
  /\ cur = EOT
  /\ stack = <<>>
  /\ arg = NoPair
  /\ status = "ok"
  /\ old = NoPair
  /\ visited = <<>>
  /\ bindings = {}

dict_init ==
  /\ pc = "idle" /\ head = NULL
  /\ head' = EOT
  /\ UNCHANGED <<heap, live, pc, cur, stack, arg, status, old, visited, bindings>>

\* dict_put calls subtree_put on the root.
StartPut(key, value) ==
  /\ pc' = "put"
  /\ cur' = head
  /\ arg' = [key |-> key, value |-> value]
  /\ status' = "ok"
  /\ old' = NoPair
  /\ UNCHANGED <<head, heap, live, stack, visited, bindings>>

Stored(key) == \E b \in bindings : compar(key, b.key) = 0
AboveAll(key) == \A b \in bindings : compar(key, b.key) > 0

dict_put(key, value) ==
  /\ pc = "idle" /\ head # NULL
  /\ AscendingPuts => Stored(key) \/ AboveAll(key)
  /\ StartPut(key, value)

PutDescend ==
  /\ pc = "put" /\ cur # EOT
  /\ \E at \in {"left", "right"} :
       /\ IF at = "left" THEN compar(arg.key, heap[cur].key) < 0
                         ELSE compar(arg.key, heap[cur].key) > 0
       /\ Push("put", cur, at)
       /\ cur' = heap[cur][at]
  /\ UNCHANGED <<head, heap, live, pc, arg, status, old, visited, bindings>>

\* Mutant: the value is replaced, the key pointer is not.
PutReplace_key_kept ==
  /\ pc = "put" /\ cur # EOT
  /\ compar(arg.key, heap[cur].key) = 0
  /\ old' = [key |-> heap[cur].key, value |-> heap[cur].value]
  /\ heap' = [heap EXCEPT ![cur].value = arg.value]
  /\ pc' = "put_ret"
  /\ UNCHANGED <<head, live, cur, stack, arg, status, visited, bindings>>

\* Mutant: nkey and nvalue are read after the node is overwritten.
PutReplace_old_after_new ==
  /\ pc = "put" /\ cur # EOT
  /\ compar(arg.key, heap[cur].key) = 0
  /\ old' = arg
  /\ heap' = [heap EXCEPT ![cur].key = arg.key, ![cur].value = arg.value]
  /\ pc' = "put_ret"
  /\ UNCHANGED <<head, live, cur, stack, arg, status, visited, bindings>>

\* Mutant: the node is initialised anew and drops its children.
PutReplace_reinitialises ==
  /\ pc = "put" /\ cur # EOT
  /\ compar(arg.key, heap[cur].key) = 0
  /\ old' = [key |-> heap[cur].key, value |-> heap[cur].value]
  /\ heap' = [heap EXCEPT ![cur] = node_init(arg.key, arg.value)]
  /\ pc' = "put_ret"
  /\ UNCHANGED <<head, live, cur, stack, arg, status, visited, bindings>>

\* An equal key: both pointers of the node are replaced, its place is not.
PutReplace ==
  /\ pc = "put" /\ cur # EOT
  /\ compar(arg.key, heap[cur].key) = 0
  /\ old' = [key |-> heap[cur].key, value |-> heap[cur].value]
  /\ heap' = [heap EXCEPT ![cur].key = arg.key, ![cur].value = arg.value]
  /\ pc' = "put_ret"
  /\ UNCHANGED <<head, live, cur, stack, arg, status, visited, bindings>>

PutAttach ==
  /\ pc = "put" /\ cur = EOT
  /\ \E n \in allocate(Node \ live) :
       /\ live' = live \cup {n}
       /\ heap' = [heap EXCEPT ![n] = node_init(arg.key, arg.value)]
       /\ cur' = n
  /\ pc' = "put_ret"
  /\ UNCHANGED <<head, stack, arg, status, old, visited, bindings>>

\* malloc may fail at any time, and does when Node is used up.
PutNoMemory ==
  /\ pc = "put" /\ cur = EOT
  /\ status' = "enomem"
  /\ pc' = "put_ret"
  /\ UNCHANGED <<head, heap, live, cur, stack, arg, old, visited, bindings>>

\* The rest of the caller's body: link what came back, count, skew, split.
PutUnwind ==
  /\ pc = "put_ret" /\ Running("put")
  /\ LET n == Top.node
         linked == [heap EXCEPT ![n][Top.at] = cur]
         skewed == skew(node_reconstruct_nnode(linked, n), n)
         splitted == split(skewed.heap, skewed.root)
     IN  /\ heap' = splitted.heap
         /\ cur' = splitted.root
  /\ Pop
  /\ UNCHANGED <<head, live, pc, arg, status, old, visited, bindings>>

\* Back in dict_put: the root moves only when the status is 0. The call's
\* locals go out of scope.
PutReturn ==
  /\ pc = "put_ret" /\ ~Running("put")
  /\ head' = IF status = "ok" THEN cur ELSE head
  /\ bindings' = IF status = "ok"
                   THEN {b \in bindings : compar(arg.key, b.key) # 0} \cup {arg}
                   ELSE bindings
  /\ pc' = IF stack = <<>> THEN "idle" ELSE "acted"
  /\ Forget
  /\ UNCHANGED <<heap, live, stack, visited>>

dict_for_each ==
  /\ pc = "idle" /\ head # NULL
  /\ pc' = "each"
  /\ cur' = head
  /\ visited' = <<>>
  /\ UNCHANGED <<head, heap, live, stack, arg, status, old, bindings>>

EachDescend ==
  /\ pc = "each" /\ cur # EOT
  /\ Push("each", cur, "left")
  /\ cur' = heap[cur].left
  /\ UNCHANGED <<head, heap, live, pc, arg, status, old, visited, bindings>>

EachEnd ==
  /\ pc = "each" /\ cur = EOT
  /\ status' = "ok"
  /\ pc' = "each_ret"
  /\ UNCHANGED <<head, heap, live, cur, stack, arg, old, visited, bindings>>

\* The left subtree is done: hand this node to the callback.
EachAction ==
  /\ pc = "each_ret" /\ Running("each") /\ status = "ok"
  /\ visited' = Append(visited, Top.node)
  /\ pc' = "action"
  /\ UNCHANGED <<head, heap, live, cur, stack, arg, status, old, bindings>>

\* The callback itself may put, which runs on top of the traversal.
CallbackPut(key, value) ==
  /\ pc = "action"
  /\ CASE CallbackPuts = "never"  -> FALSE
       [] CallbackPuts = "update" -> dict_get(key) # NotFound
       [] CallbackPuts = "any"    -> AscendingPuts => Stored(key) \/ AboveAll(key)
  /\ StartPut(key, value)

\* Mutant: goes left again.
CallbackContinue_left ==
  /\ pc \in {"action", "acted"}
  /\ pc' = "each"
  /\ cur' = heap[Top.node].left
  /\ Pop
  /\ UNCHANGED <<head, heap, live, arg, status, old, visited, bindings>>

\* The callback returns 0: the right subtree is read now, after it.
CallbackContinue ==
  /\ pc \in {"action", "acted"}
  /\ pc' = "each"
  /\ cur' = heap[Top.node].right
  /\ Pop
  /\ UNCHANGED <<head, heap, live, arg, status, old, visited, bindings>>

CallbackAbort ==
  /\ pc \in {"action", "acted"}
  /\ status' = "abort"
  /\ pc' = "each_ret"
  /\ Pop
  /\ UNCHANGED <<head, heap, live, cur, arg, old, visited, bindings>>

\* A status other than 0 passes through every caller.
EachAbort ==
  /\ pc = "each_ret" /\ Running("each") /\ status # "ok"
  /\ Pop
  /\ UNCHANGED <<head, heap, live, pc, cur, arg, status, old, visited, bindings>>

EachReturn ==
  /\ pc = "each_ret" /\ stack = <<>>
  /\ pc' = "idle"
  /\ visited' = <<>>
  /\ Forget
  /\ UNCHANGED <<head, heap, live, stack, bindings>>

dict_destroy ==
  /\ pc = "idle" /\ head # NULL
  /\ pc' = "destroy"
  /\ cur' = head
  /\ UNCHANGED <<head, heap, live, stack, arg, status, old, visited, bindings>>

DestroyDescend ==
  /\ pc = "destroy" /\ cur # EOT
  /\ Push("destroy", cur, "left")
  /\ cur' = heap[cur].left
  /\ UNCHANGED <<head, heap, live, pc, arg, status, old, visited, bindings>>

DestroyEnd ==
  /\ pc = "destroy" /\ cur = EOT
  /\ pc' = "destroy_ret"
  /\ UNCHANGED <<head, heap, live, cur, stack, arg, status, old, visited, bindings>>

\* Mutant: destroys the left subtree twice.
DestroyRight_left_twice ==
  /\ pc = "destroy_ret" /\ Running("destroy") /\ Top.at = "left"
  /\ stack' = <<[Top EXCEPT !.at = "right"]>> \o Tail(stack)
  /\ pc' = "destroy"
  /\ cur' = heap[Top.node].left
  /\ UNCHANGED <<head, heap, live, arg, status, old, visited, bindings>>

\* Mutant: never gets past the right subtree.
DestroyRight_forever ==
  /\ pc = "destroy_ret" /\ Running("destroy") /\ Top.at = "left"
  /\ pc' = "destroy"
  /\ cur' = heap[Top.node].right
  /\ UNCHANGED <<head, heap, live, stack, arg, status, old, visited, bindings>>

DestroyRight ==
  /\ pc = "destroy_ret" /\ Running("destroy") /\ Top.at = "left"
  /\ stack' = <<[Top EXCEPT !.at = "right"]>> \o Tail(stack)
  /\ pc' = "destroy"
  /\ cur' = heap[Top.node].right
  /\ UNCHANGED <<head, heap, live, arg, status, old, visited, bindings>>

\* Mutant: free is forgotten.
node_destroy_no_free ==
  /\ pc = "destroy_ret" /\ Running("destroy") /\ Top.at = "right"
  /\ Pop
  /\ UNCHANGED <<head, heap, live, pc, cur, arg, status, old, visited, bindings>>

node_destroy ==
  /\ pc = "destroy_ret" /\ Running("destroy") /\ Top.at = "right"
  /\ live' = live \ {Top.node}
  /\ heap' = [heap EXCEPT ![Top.node] = Unallocated]
  /\ Pop
  /\ UNCHANGED <<head, pc, cur, arg, status, old, visited, bindings>>

\* free(dict)
DestroyReturn ==
  /\ pc = "destroy_ret" /\ stack = <<>>
  /\ head' = NULL
  /\ bindings' = {}
  /\ pc' = "idle"
  /\ Forget
  /\ UNCHANGED <<heap, live, stack, visited>>
-----------------------------------------------------------------------------
\* What a client starts.
Call ==
  \/ dict_init
  \/ \E key \in Key, value \in Value : dict_put(key, value)
  \/ dict_for_each
  \/ dict_destroy

PutStep == PutDescend \/ PutReplace \/ PutAttach \/ PutNoMemory \/ PutUnwind \/ PutReturn
Callback ==
  \/ \E key \in Key, value \in Value : CallbackPut(key, value)
  \/ CallbackContinue
  \/ CallbackAbort
EachStep == EachDescend \/ EachEnd \/ EachAction \/ EachAbort \/ EachReturn
DestroyStep == DestroyDescend \/ DestroyEnd \/ DestroyRight \/ node_destroy \/ DestroyReturn

\* What the program does once called.
Step == PutStep \/ Callback \/ EachStep \/ DestroyStep

Next == Call \/ Step
Spec == Init /\ [][Next]_vars
\* A call that has started keeps running: the thread that made it is never
\* suspended for good. Nobody has to call.
FairSpec == Spec /\ WF_vars(Step)
-----------------------------------------------------------------------------
(***************************************************************************)
(* Properties.                                                             *)
(***************************************************************************)
\* Types of all variables; every node, allocated or not, has a level of at
\* least 1, the sentinel alone has 0. A running call has a dict, a running
\* callback has the frame that called it.
TypeOK ==
  /\ head \in NodeOrEOT \cup {NULL}
  /\ heap \in [NodeOrEOT -> SubtreeOf]
  /\ \A n \in Node : heap[n].level >= 1
  /\ live \subseteq Node
  /\ pc \in {"idle", "put", "put_ret", "each", "each_ret", "action", "acted",
             "destroy", "destroy_ret"}
  /\ cur \in NodeOrEOT
  /\ stack \in Seq(Frame)
  /\ arg \in Pair
  /\ status \in {"ok", "enomem", "abort"}
  /\ old \in Pair
  /\ visited \in Seq(Node)
  /\ bindings \subseteq Pair
  /\ pc # "idle" => head # NULL
  /\ pc \in {"action", "acted"} => stack # <<>>

\* The static sentinel is shared by every dict of the process and is
\* writable memory; only the level comparisons in skew and split keep the
\* rotations from writing to it (the asserts of subtree_rotate_*).
SentinelIntact == heap[EOT] = Sentinel

\* No put is half done, and the tree is not being torn down.
Settled == pc \notin {"put", "put_ret", "destroy", "destroy_ret"}

\* Whatever was rotated, dropped or replaced, all the keys on the left of a
\* node are smaller than its key and all those on its right are greater, so
\* no node is reachable twice.
SearchTree ==
  Settled => \A n \in Reachable :
    /\ \A m \in Below(heap, heap[n].left) : compar(heap[m].key, heap[n].key) < 0
    /\ \A m \in Below(heap, heap[n].right) : compar(heap[m].key, heap[n].key) > 0

\* The AA-tree balance between two puts: no left edge within a level, no
\* two right edges in a row within a level, no level skipped.
LevelsBalanced ==
  Settled => \A n \in Reachable :
    /\ heap[heap[n].left].level = heap[n].level - 1
    /\ heap[heap[n].right].level \in {heap[n].level - 1, heap[n].level}
    /\ heap[heap[heap[n].right].right].level < heap[n].level

\* nnode, on which size, get's index and select depend, counts exactly the
\* reachable nodes below each node: get, select from the front and select
\* from the back agree about every index, and fail outside them.
IndexRoundTrip ==
  Settled /\ head # NULL =>
    LET order == InOrder
        size == Len(order)
    IN
      /\ dict_size = size
      /\ \A i \in 0 .. size - 1 :
           LET n == order[i + 1] IN
             /\ dict_select(i) = n
             /\ dict_select(i - size) = n
             /\ dict_get(heap[n].key) = [value |-> heap[n].value, index |-> i]
      /\ dict_select(size) = ESRCH
      /\ dict_select(-size - 1) = ESRCH
      /\ \A key \in Key :
           (\A i \in 1 .. size : compar(key, heap[order[i]].key) # 0) => dict_get(key) = NotFound

\* dict_get never answers with a value that a later put replaced, nor with
\* one that was never put.
NeverStale == Settled => Contents \subseteq bindings

\* dict.h says dict_put maps the key to the value: each key put so far is
\* found with the value it was last put with.
NoKeyLost == Settled => Contents = bindings

\* No node outlives its dict.
NoLeak == head = NULL => live = {}

\* The recursion never follows a pointer to memory it has freed, and the
\* tree never holds one.
PointersLive ==
  /\ cur \in live \cup {EOT} \/ pc \notin {"put", "put_ret", "each", "destroy"}
  /\ \A i \in DOMAIN stack : stack[i].node \in live
  /\ pc \notin {"destroy", "destroy_ret"} => Reachable \subseteq live

\* dict_for_each visits in order, each node once, and all of them when no
\* callback aborts it.
TraversalInOrder ==
  /\ \A i, j \in DOMAIN visited : pc \in {"each", "each_ret", "action", "acted"} /\ i < j =>
       compar(heap[visited[i]].key, heap[visited[j]].key) < 0
  /\ pc = "each_ret" /\ stack = <<>> /\ status = "ok" => visited = InOrder

\* A put that inserts nothing, because it replaced or because malloc
\* failed, goes back up through the rebalancing code and must not touch a
\* node there: only then may dict_put skip the update of dict->head.
NoInsertNoRebalance ==
  [][pc = "put_ret" /\ (status # "ok" \/ old # NoPair) => heap' = heap]_vars

PairsFrom(root) ==
  LET q == InOrderFrom(heap, root)
  IN  [i \in DOMAIN q |-> [key |-> heap[q[i]].key, value |-> heap[q[i]].value]]

InAscendingOrder(pairs) ==
  LET rank(p) == Cardinality({q \in pairs : compar(q.key, p.key) <= 0})
  IN  [i \in 1 .. Cardinality(pairs) |-> CHOOSE p \in pairs : rank(p) = i]

Answering == pc = "put_ret" /\ ~Running("put")

\* While the tree is rearranged the pairs are those of before.
Pairs ==
  CASE head = NULL -> <<>>
    [] head # NULL /\ Settled -> PairsFrom(head)
    [] Answering -> PairsFrom(IF status = "ok" THEN cur ELSE head)
    [] OTHER -> InAscendingOrder(bindings)

Answered == [status |-> IF Answering THEN status ELSE "none",
             old |-> IF Answering THEN old ELSE NoPair]

Promise == INSTANCE SortedMap WITH open <- head # NULL, pairs <- Pairs, answer <- Answered

\* The dict implements the sorted map of dict.h: each put that inserts,
\* replaces or fails for lack of memory does so as a whole when its recursion
\* ends, between the steps of a traversal too, and hands back the very pair it
\* displaced.
ImplementsSortedMap == Promise!Spec

\* Every call returns: no cycle of pointers traps the recursion.
CallsReturn == pc # "idle" ~> pc = "idle"
=============================================================================
