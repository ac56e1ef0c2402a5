-------------------------------- MODULE Table --------------------------------
(***************************************************************************)
(* The hash table of table.c: an array of chains of nodes, each chain with *)
(* the node added last in front. A chain is the sequence of its nodes.     *)
(*                                                                         *)
(* The allocator may refuse any request. Copying the key is a request of   *)
(* its own: it may fail after the node was allocated, and table.c does not *)
(* look at its result.                                                     *)
(***************************************************************************)
EXTENDS Integers, SequencesExt

CONSTANTS
  Key,           \* the strings clients use as keys: sequences of characters
  Value,         \* the pointers they store, NULL possibly among them
  NULL,
  Sizes,         \* the sizes they hand to table_init
  UINT,          \* UINT_MAX + 1
  MaxNodes,      \* how many nodes the allocator can provide
  MaxArrays      \* and how many arrays of chains

ASSUME KeyAssumption == Key \subseteq Seq(Nat) /\ NULL \notin Key
ASSUME BoundsAssumption ==
  /\ Sizes \subseteq Nat /\ UINT \in Nat \ {0}
  /\ MaxNodes \in Nat /\ MaxArrays \in Nat

VARIABLES
  open,     \* table_init made a table that table_free did not get
  size,     \* table->size
  entries,  \* table->entries: index -> chain of [key, value]
  memory,   \* blocks allocated and not freed, by what they are for
  retval    \* what the last call returned; "crashed" ends the program

vars == <<open, size, entries, memory, retval>>

Node == [key : Key \cup {NULL}, value : Value]
NoChains == <<>>

Chains(n) == [i \in 0 .. n - 1 |-> <<>>]

\* The nodes a table links to, by chain and place in it.
Linked == UNION {{<<h, i>> : i \in DOMAIN entries[h]} : h \in DOMAIN entries}
Keyed == {p \in Linked : entries[p[1]][p[2]].key # NULL}

Init ==
  /\ open = FALSE /\ size = 0 /\ entries = NoChains
  /\ memory = [tables |-> 0, arrays |-> 0, nodes |-> 0, keys |-> 0]
  /\ retval = "0"

Usable == open /\ retval # "crashed"

hash(key) ==
  LET h[i \in 0 .. Len(key)] == IF i = 0 THEN 0 ELSE (37 * h[i - 1] + key[i]) % UINT
  IN  h[Len(key)] % size

\* Where strcmp finds the key, or meets a key that was never copied: 0 if it
\* gets to the end of the chain.
Position(chain, key) ==
  LET stops == {i \in DOMAIN chain : chain[i].key \in {key, NULL}}
  IN IF stops = {} THEN 0 ELSE CHOOSE i \in stops : \A j \in stops : i <= j

\* NULL for no entries, for no memory for the table, and for none for the
\* array, after the table is freed again.
table_init(n) ==
  /\ ~open /\ retval # "crashed"
  /\ \/ retval' = NULL /\ UNCHANGED <<open, size, entries, memory>>
     \/ /\ n # 0 /\ memory.arrays < MaxArrays
        /\ open' = TRUE /\ size' = n /\ entries' = Chains(n)
        /\ memory' = [memory EXCEPT !.tables = @ + 1, !.arrays = @ + 1]
        /\ retval' = "0"

\* The nodes of every chain and their keys are freed, and the table; nothing
\* frees the array. free(NULL) does nothing.
table_free ==
  /\ Usable
  /\ open' = FALSE /\ size' = 0 /\ entries' = NoChains
  /\ memory' = [memory EXCEPT !.tables = @ - 1,
                              !.nodes = @ - Cardinality(Linked),
                              !.keys = @ - Cardinality(Keyed)]
  /\ retval' = "0"

\* Mutant: the new node goes to the end of its chain.
table_add_last(key, value) ==
  /\ Usable
  /\ \/ retval' = "ENOMEM" /\ UNCHANGED <<entries, memory>>
     \/ \E copy \in {key, NULL} :
          /\ memory.nodes < MaxNodes
          /\ entries' = [entries EXCEPT ![hash(key)] =
                           Append(@, [key |-> copy, value |-> value])]
          /\ memory' = [memory EXCEPT !.nodes = @ + 1,
                                      !.keys = IF copy = NULL THEN @ ELSE @ + 1]
          /\ retval' = "0"
  /\ UNCHANGED <<open, size>>

\* The node goes in front of its chain, with or without a copy of the key.
table_add(key, value) ==
  /\ Usable
  /\ \/ retval' = "ENOMEM" /\ UNCHANGED <<entries, memory>>
     \/ \E copy \in {key, NULL} :
          /\ memory.nodes < MaxNodes
          /\ entries' = [entries EXCEPT ![hash(key)] =
                           <<[key |-> copy, value |-> value]>> \o @]
          /\ memory' = [memory EXCEPT !.nodes = @ + 1,
                                      !.keys = IF copy = NULL THEN @ ELSE @ + 1]
          /\ retval' = "0"
  /\ UNCHANGED <<open, size>>

\* strcmp was handed the NULL of a key that was not copied.
Crash == retval' = "crashed" /\ UNCHANGED <<open, size, entries, memory>>

\* Mutant: pnp->next = NULL, the rest of the chain is lost.
table_remove_cuts_chain(key) ==
  LET h == hash(key)
      chain == entries[h]
      i == Position(chain, key)
  IN /\ Usable
     /\ \/ i = 0 /\ retval' = "EINVAL" /\ UNCHANGED <<open, size, entries, memory>>
        \/ i # 0 /\ chain[i].key = NULL /\ Crash
        \/ /\ i # 0 /\ chain[i].key # NULL
           /\ entries' = [entries EXCEPT ![h] = SubSeq(chain, 1, i - 1)]
           /\ memory' = [memory EXCEPT !.nodes = @ - 1, !.keys = @ - 1]
           /\ retval' = "0"
           /\ UNCHANGED <<open, size>>

table_remove(key) ==
  LET h == hash(key)
      chain == entries[h]
      i == Position(chain, key)
  IN /\ Usable
     /\ \/ i = 0 /\ retval' = "EINVAL" /\ UNCHANGED <<open, size, entries, memory>>
        \/ i # 0 /\ chain[i].key = NULL /\ Crash
        \/ /\ i # 0 /\ chain[i].key # NULL
           /\ entries' = [entries EXCEPT ![h] = RemoveAt(chain, i)]
           /\ memory' = [memory EXCEPT !.nodes = @ - 1, !.keys = @ - 1]
           /\ retval' = "0"
           /\ UNCHANGED <<open, size>>

table_lookup(key) ==
  LET chain == entries[hash(key)]
      i == Position(chain, key)
  IN /\ Usable
     /\ \/ i # 0 /\ chain[i].key = NULL /\ Crash
        \/ /\ i # 0 => chain[i].key # NULL
           /\ retval' = IF i = 0 THEN NULL ELSE chain[i].value
           /\ UNCHANGED <<open, size, entries, memory>>

Next ==
  \/ \E n \in Sizes : table_init(n)
  \/ table_free
  \/ \E key \in Key, value \in Value : table_add(key, value)
  \/ \E key \in Key : table_remove(key) \/ table_lookup(key)

Spec == Init /\ [][Next]_vars
-----------------------------------------------------------------------------
(***************************************************************************)
(* Properties.                                                             *)
(***************************************************************************)
\* The blocks allocated are those the table still links to, so table_free
\* and table_remove free every node and key once, whatever failed before.
NodesAccounted ==
  /\ memory.tables = (IF open THEN 1 ELSE 0)
  /\ memory.nodes = Cardinality(Linked)
  /\ memory.keys = Cardinality(Keyed)

\* A key is missing from a node: table.h promises nothing any more.
Broken == Keyed # Linked

\* The values of the nodes with key k, in the order of their chain.
Matching(chain, k) ==
  LET from[i \in 1 .. Len(chain) + 1] ==
        IF i = Len(chain) + 1 THEN <<>>
        ELSE IF chain[i].key = k THEN <<chain[i].value>> \o from[i + 1]
        ELSE from[i + 1]
  IN  from[1]

Sound == open /\ ~Broken
Stored == [k \in Key |-> IF Sound THEN Matching(entries[hash(k)], k) ELSE <<>>]
Answer == IF Broken THEN "0" ELSE retval

Abstract == INSTANCE ShadowMap WITH open <- Sound, values <- Stored, result <- Answer

\* As long as every key could be copied, each call is one of ShadowMap:
\* neither collisions nor the order of calls show, and a failed call changes
\* nothing. The add that loses its key is the table's end.
ImplementsShadowMap == Abstract!Spec
=============================================================================
