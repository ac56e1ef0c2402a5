-------------------------------- MODULE DBuf --------------------------------
(***************************************************************************)
(* The dynamic buffer of dbuf.c: an allocation that grows by doubling and  *)
(* is used as a stack of bytes.                                            *)
(*                                                                         *)
(* No object is larger than Limit, and 2 * Limit fits size_t, so neither   *)
(* the doubling nor top + n wraps.                                         *)
(***************************************************************************)
EXTENDS Integers, Sequences

CONSTANTS
  Byte,          \* what clients push
  Junk,          \* contents of memory that was never written
  WordSize,      \* sizeof(void *), the size a buffer of 0 bytes grows to
  Limit,         \* the largest allocation realloc can make
  InitialSizes,  \* the sizes clients hand to dbuf_init
  GrowSizes,     \* and to dbuf_grow_to
  Counts         \* how many bytes they push or pop at once

GROW_FACTOR == 2

ASSUME SizesAssumption ==
  /\ WordSize \in Nat \ {0} /\ Limit \in Nat
  /\ InitialSizes \subseteq Nat /\ GrowSizes \subseteq Nat /\ Counts \subseteq Nat
ASSUME JunkAssumption == Junk \notin Byte

VARIABLES
  open,    \* between dbuf_init and dbuf_destroy
  b,       \* the memory behind buf->b, and whether buf->b is NULL
  freed,   \* buf->b points to memory that realloc has freed
  n, top,  \* the fields of struct dbuf
  retval,  \* what the last call returned
  s,       \* what the last dbuf_pop copied out
  pushed   \* history: the bytes pushed and not popped

vars == <<open, b, freed, n, top, retval, s, pushed>>

\* b.null: buf->b is NULL. b.mem: the contents of what realloc returned.
NoMemory == [null |-> TRUE, mem |-> <<>>]

Init ==
  /\ open = FALSE /\ b = NoMemory /\ freed = FALSE /\ n = 0 /\ top = 0
  /\ retval = "0" /\ s = <<>> /\ pushed = <<>>

Usable == open /\ retval \notin {"aborted", "crashed"}

\* free or realloc of a pointer that was freed: the process ends.
Crash ==
  /\ retval' = "crashed" /\ s' = <<>>
  /\ UNCHANGED <<open, b, freed, n, top, pushed>>

dbuf_init(initial_n) ==
  /\ ~open
  /\ open' = TRUE /\ b' = NoMemory /\ freed' = FALSE /\ n' = initial_n /\ top' = 0
  /\ retval' = "0" /\ s' = <<>> /\ pushed' = <<>>

dbuf_destroy ==
  /\ Usable
  /\ \/ freed /\ Crash
     \/ /\ ~freed
        /\ open' = FALSE /\ b' = NoMemory /\ n' = 0 /\ top' = 0
        /\ retval' = "0" /\ s' = <<>> /\ pushed' = <<>>
        /\ UNCHANGED freed

\* realloc keeps what fits; the rest of the new memory is junk.
realloc(size) ==
  [null |-> FALSE,
   mem |-> [i \in 1 .. size |-> IF i <= Len(b.mem) THEN b.mem[i] ELSE Junk]]

\* Mutant: malloc, without copying, where realloc is called.
grow_to_uncopied(new_n) ==
  IF new_n < n THEN {[status |-> "EINVAL", b |-> b, n |-> n]}
  ELSE {[status |-> "ENOMEM", b |-> b, n |-> n]} \cup
       (IF new_n <= Limit
          THEN {[status |-> "0", n |-> new_n,
                 b |-> [null |-> FALSE, mem |-> [i \in 1 .. new_n |-> Junk]]]}
          ELSE {})

\* What dbuf_grow_to(buf, new_n) can do: its status, and the b and n it
\* leaves. realloc may fail at any size, and does above Limit.
grow_to(new_n) ==
  IF new_n < n THEN {[status |-> "EINVAL", b |-> b, n |-> n]}
  ELSE {[status |-> "ENOMEM", b |-> b, n |-> n]} \cup
       (IF new_n <= Limit THEN {[status |-> "0", b |-> realloc(new_n), n |-> new_n]}
                          ELSE {})

\* The size dbuf_grow asks for.
grown == IF ~b.null THEN n * GROW_FACTOR ELSE IF n # 0 THEN n ELSE WordSize

\* realloc to 0 bytes may free what it is given and return NULL, which
\* dbuf_grow_to takes for a failure.
MayFree(new_n, g) == g.status = "ENOMEM" /\ new_n = 0 /\ ~b.null

dbuf_grow_to(new_n) ==
  /\ Usable
  /\ \/ freed /\ Crash
     \/ /\ ~freed
        /\ \E g \in grow_to(new_n) :
             /\ b' = g.b /\ n' = g.n /\ retval' = g.status
             /\ freed' \in IF MayFree(new_n, g) THEN BOOLEAN ELSE {FALSE}
        /\ s' = <<>>
        /\ UNCHANGED <<open, top, pushed>>

dbuf_grow == dbuf_grow_to(grown)

\* The ways to make room for a push: none needed, dbuf_grow succeeds, or it
\* fails and dbuf_grow_to is tried with just enough. The condition compares
\* new_top with the number of bytes pushed.
room(count) ==
  LET new_top == top + count IN
    IF ~b.null /\ ~(new_top > count) THEN {[status |-> "0", b |-> b, n |-> n]}
    ELSE {g \in grow_to(grown) : g.status = "0"} \cup
         UNION {grow_to(new_top) : g \in {h \in grow_to(grown) : h.status # "0"}}

Copies(count, byte) == [i \in 1 .. count |-> byte]

\* Mutant: without the assertion.
dbuf_push_unasserted(count, byte) ==
  /\ Usable
  /\ \E g \in room(count) :
       /\ n' = g.n
       /\ IF g.status # "0"
            THEN b' = g.b /\ retval' = g.status /\ UNCHANGED <<top, pushed>>
            ELSE /\ b' = [g.b EXCEPT !.mem = [i \in DOMAIN @ |->
                            IF top < i /\ i <= top + count THEN byte ELSE @[i]]]
                 /\ top' = top + count
                 /\ retval' = "0"
                 /\ pushed' = pushed \o Copies(count, byte)
  /\ s' = <<>>
  /\ UNCHANGED <<open, freed>>

dbuf_push(count, byte) ==
  /\ Usable
  /\ \E g \in room(count) :
       /\ n' = g.n
       /\ CASE g.status # "0" ->
                 b' = g.b /\ retval' = g.status /\ UNCHANGED <<top, pushed>>
            [] g.status = "0" /\ g.n < top + count ->  \* the assert fails
                 b' = g.b /\ retval' = "aborted" /\ UNCHANGED <<top, pushed>>
            [] OTHER ->
                 /\ b' = [g.b EXCEPT !.mem = [i \in DOMAIN @ |->
                            IF top < i /\ i <= top + count THEN byte ELSE @[i]]]
                 /\ top' = top + count
                 /\ retval' = "0"
                 /\ pushed' = pushed \o Copies(count, byte)
  /\ s' = <<>>
  /\ UNCHANGED <<open, freed>>

\* Mutant: copies from the start of the buffer.
dbuf_pop_from_start(count) ==
  /\ Usable
  /\ IF count > top
       THEN retval' = "ENODATA" /\ s' = <<>> /\ UNCHANGED <<top, pushed>>
       ELSE /\ top' = top - count
            /\ s' = SubSeq(b.mem, 1, count)
            /\ retval' = "0"
            /\ pushed' = SubSeq(pushed, 1, Len(pushed) - count)
  /\ UNCHANGED <<open, b, freed, n>>

dbuf_pop(count) ==
  /\ Usable
  /\ IF count > top
       THEN retval' = "ENODATA" /\ s' = <<>> /\ UNCHANGED <<top, pushed>>
       ELSE /\ top' = top - count
            /\ s' = SubSeq(b.mem, top - count + 1, top)
            /\ retval' = "0"
            /\ pushed' = SubSeq(pushed, 1, Len(pushed) - count)
  /\ UNCHANGED <<open, b, freed, n>>

Next ==
  \/ \E size \in InitialSizes : dbuf_init(size)
  \/ dbuf_destroy
  \/ \E size \in GrowSizes : dbuf_grow_to(size)
  \/ dbuf_grow
  \/ \E count \in Counts, byte \in Byte : dbuf_push(count, byte)
  \/ \E count \in Counts : dbuf_pop(count)

Spec == Init /\ [][Next]_vars
-----------------------------------------------------------------------------
(***************************************************************************)
(* Properties.                                                             *)
(***************************************************************************)
\* Types of all variables.
TypeOK ==
  /\ open \in BOOLEAN /\ freed \in BOOLEAN
  /\ b.null \in BOOLEAN /\ b.mem \in Seq(Byte \cup {Junk})
  /\ n \in Nat /\ top \in Nat
  /\ retval \in {"0", "EINVAL", "ENOMEM", "ENODATA", "aborted", "crashed"}
  /\ s \in Seq(Byte \cup {Junk}) /\ pushed \in Seq(Byte)

\* buf->n is the size of the memory behind buf->b once there is some, and
\* what was pushed lies within it: no memmove runs over the end. realloc only
\* ever frees a buffer that holds nothing and has room for nothing.
WithinMemory ==
  /\ b.null => top = 0
  /\ ~b.null => Len(b.mem) = n /\ top <= n
  /\ freed => n = 0 /\ ~b.null

\* However often the memory moved, it holds the bytes pushed and not yet
\* popped, in order, and none that was never written.
HoldsPushed == top = Len(pushed) /\ SubSeq(b.mem, 1, top) = pushed

\* A buffer is the stack that dbuf.h promises, whatever realloc does: a push
\* adds all its bytes or fails and changes nothing, in whichever of its two
\* attempts to grow, and a pop hands out the bytes pushed last.
Stack == INSTANCE ByteStack WITH stack <- SubSeq(b.mem, 1, top), popped <- s, status <- retval

ImplementsByteStack == Stack!Spec
=============================================================================
