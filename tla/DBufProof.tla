------------------------------ MODULE DBufProof ------------------------------
(***************************************************************************)
(* Proofs about DBuf, for every size of word, limit and set of bytes: the  *)
(* buffer never runs over its memory, always holds what was pushed, and    *)
(* implements ByteStack.                                                   *)
(***************************************************************************)
EXTENDS DBuf, SequenceTheorems, TLAPS

Memory == [null : BOOLEAN, mem : Seq(Byte \cup {Junk})]

\* HoldsPushed, byte by byte.
Holds == top = Len(pushed) /\ \A i \in 1 .. top : b.mem[i] = pushed[i]

\* The inductive invariant. b is a record, which TypeOK says only of its
\* fields, and HoldsPushed is inductive in its pointwise form.
IInv == TypeOK /\ b \in Memory /\ WithinMemory /\ Holds

\* A function on 1 .. m is a sequence of length m.
LEMMA SeqOf ==
  ASSUME NEW S, NEW m \in Nat, NEW f \in [1 .. m -> S]
  PROVE  f \in Seq(S) /\ Len(f) = m
<1>1. f \in Seq(S)
  BY SeqDef
<1>2. DOMAIN f = 1 .. m /\ Len(f) \in Nat /\ DOMAIN f = 1 .. Len(f)
  BY <1>1, LenProperties
<1> QED BY <1>1, <1>2

LEMMA Empty == ASSUME NEW S PROVE <<>> \in Seq(S) /\ Len(<<>>) = 0
  BY EmptySeq

\* What dbuf_grow_to guarantees: it fails and changes nothing, or the memory
\* is new_n bytes, no fewer than before, and starts with what it held.
LEMMA GrowTo ==
  ASSUME IInv, NEW new_n \in Nat, NEW g \in grow_to(new_n)
  PROVE  /\ g.status \in {"0", "EINVAL", "ENOMEM"} /\ g.b \in Memory /\ g.n \in Nat
         /\ g.status # "0" => g.b = b /\ g.n = n
         /\ g.status = "0" => /\ ~g.b.null /\ Len(g.b.mem) = g.n /\ n <= g.n /\ top <= g.n
                              /\ \A i \in 1 .. top : g.b.mem[i] = b.mem[i]
<1> USE DEF IInv, TypeOK, WithinMemory
<1>1. CASE g.status # "0"
  BY <1>1 DEF grow_to
<1>2. CASE g.status = "0"
  <2>1. new_n >= n /\ g.b = realloc(new_n) /\ g.n = new_n
    BY <1>2 DEF grow_to
  <2> DEFINE mem == [i \in 1 .. new_n |-> IF i <= Len(b.mem) THEN b.mem[i] ELSE Junk]
  <2>2. mem \in Seq(Byte \cup {Junk}) /\ Len(mem) = new_n
    <3>1. \A i \in 1 .. new_n : mem[i] \in Byte \cup {Junk}
      OBVIOUS
    <3>2. mem \in [1 .. new_n -> Byte \cup {Junk}]
      BY <3>1
    <3> HIDE DEF mem
    <3> QED BY <3>2, SeqOf
  <2>3. realloc(new_n) = [null |-> FALSE, mem |-> mem]
    BY DEF realloc
  <2>4. top <= new_n /\ \A i \in 1 .. top : mem[i] = b.mem[i]
    <3>1. top <= new_n /\ top <= Len(b.mem)
      BY <2>1
    <3> QED BY <3>1
  <2> HIDE DEF mem
  <2> QED BY <1>2, <2>1, <2>2, <2>3, <2>4 DEF Memory
<1> QED BY <1>1, <1>2

LEMMA Grown == ASSUME IInv PROVE grown \in Nat
  BY SizesAssumption DEF IInv, TypeOK, grown, GROW_FACTOR

\* Whatever way dbuf_push finds room, it loses nothing that was pushed.
LEMMA Room ==
  ASSUME IInv, NEW count \in Nat, NEW g \in room(count)
  PROVE  /\ g.status \in {"0", "EINVAL", "ENOMEM"} /\ g.b \in Memory /\ g.n \in Nat
         /\ g.status # "0" => g.b = b /\ g.n = n
         /\ g.status = "0" => /\ ~g.b.null /\ Len(g.b.mem) = g.n /\ n <= g.n /\ top <= g.n
                              /\ \A i \in 1 .. top : g.b.mem[i] = b.mem[i]
         /\ freed => g.b = b /\ g.n = n
<1>1. CASE g = [status |-> "0", b |-> b, n |-> n] /\ ~b.null
  BY <1>1 DEF IInv, TypeOK, WithinMemory
<1>2. CASE g \in grow_to(grown) /\ ~freed
  BY <1>2, Grown, GrowTo
<1>3. CASE g \in grow_to(top + count) /\ ~freed
  <2>1. top + count \in Nat
    BY DEF IInv, TypeOK
  <2> QED BY <1>3, <2>1, GrowTo
<1>4. ASSUME freed PROVE ~b.null /\ ~(top + count > count)
  BY <1>4 DEF IInv, TypeOK, WithinMemory
<1> QED BY <1>1, <1>2, <1>3, <1>4 DEF room

LEMMA InitIInv == Init => IInv
<1> SUFFICES ASSUME Init PROVE IInv
  OBVIOUS
<1>1. b \in Memory /\ b.null /\ b.mem = <<>>
  BY Empty DEF Init, NoMemory, Memory
<1>2. TypeOK
  BY <1>1, Empty DEF Init, TypeOK
<1>3. WithinMemory /\ Holds
  BY <1>1, Empty DEF Init, WithinMemory, Holds
<1> QED BY <1>1, <1>2, <1>3 DEF IInv

\* A process that crashes has changed nothing before.
LEMMA CrashStep == ASSUME IInv, Crash PROVE IInv'
  BY Empty DEF IInv, TypeOK, WithinMemory, Holds, Crash

\* The two growing calls: only b, n and freed change, as GrowTo says.
LEMMA GrowStep ==
  ASSUME IInv, NEW new_n \in Nat, NEW g \in grow_to(new_n),
         b' = g.b, n' = g.n, retval' = g.status, s' = <<>>, UNCHANGED <<open, top, pushed>>,
         freed' \in IF MayFree(new_n, g) THEN BOOLEAN ELSE {FALSE}
  PROVE  IInv'
<1>0. freed' \in BOOLEAN /\ (freed' => g.status = "ENOMEM" /\ new_n = 0 /\ ~b.null)
  BY DEF MayFree
<1>5. freed' => n = 0
  <2> SUFFICES ASSUME freed' PROVE n = 0
    OBVIOUS
  <2>1. ~(new_n < n) /\ new_n = 0
    BY <1>0 DEF grow_to
  <2> QED BY <2>1 DEF IInv, TypeOK
<1>1. g.status \in {"0", "EINVAL", "ENOMEM"} /\ b' \in Memory /\ n' \in Nat
  BY GrowTo
<1>2. TypeOK'
  BY <1>0, <1>1 DEF IInv, TypeOK, Memory
<1>3. CASE g.status # "0"
  <2>1. b' = b /\ n' = n
    BY <1>3, GrowTo
  <2> QED BY <1>0, <1>1, <1>2, <1>5, <2>1 DEF IInv, WithinMemory, Holds
<1>4. CASE g.status = "0"
  <2>1. ~b'.null /\ Len(b'.mem) = n' /\ top <= n' /\ \A i \in 1 .. top : b'.mem[i] = b.mem[i]
    BY <1>4, GrowTo
  <2>2. ~freed'
    BY <1>0, <1>4
  <2> QED BY <1>1, <1>2, <2>1, <2>2 DEF IInv, WithinMemory, Holds
<1> QED BY <1>3, <1>4

LEMMA PushStep ==
  ASSUME IInv, NEW count \in Counts, NEW byte \in Byte, dbuf_push(count, byte)
  PROVE  IInv'
<1>0. count \in Nat
  BY SizesAssumption
<1>1. PICK g \in room(count) :
        /\ n' = g.n
        /\ CASE g.status # "0" -> b' = g.b /\ retval' = g.status /\ UNCHANGED <<top, pushed>>
             [] g.status = "0" /\ g.n < top + count ->
                  b' = g.b /\ retval' = "aborted" /\ UNCHANGED <<top, pushed>>
             [] OTHER ->
                  /\ b' = [g.b EXCEPT !.mem = [i \in DOMAIN @ |->
                             IF top < i /\ i <= top + count THEN byte ELSE @[i]]]
                  /\ top' = top + count /\ retval' = "0"
                  /\ pushed' = pushed \o Copies(count, byte)
  BY DEF dbuf_push
<1>2. s' = <<>> /\ UNCHANGED <<open, freed>>
  BY DEF dbuf_push
<1>3. /\ g.status \in {"0", "EINVAL", "ENOMEM"} /\ g.b \in Memory /\ g.n \in Nat
      /\ g.status # "0" => g.b = b /\ g.n = n
      /\ g.status = "0" => /\ ~g.b.null /\ Len(g.b.mem) = g.n /\ top <= g.n
                           /\ \A i \in 1 .. top : g.b.mem[i] = b.mem[i]
      /\ freed => g.n = 0
  BY <1>0, Room DEF IInv, WithinMemory
<1>4. CASE g.status # "0"
  <2>1. b' = b /\ n' = n /\ retval' \in {"EINVAL", "ENOMEM"} /\ UNCHANGED <<top, pushed>>
    BY <1>1, <1>3, <1>4
  <2> QED BY <1>2, <2>1 DEF IInv, TypeOK, WithinMemory, Holds
<1>5. CASE g.status = "0" /\ g.n < top + count
  <2>1. b' = g.b /\ n' = g.n /\ retval' = "aborted" /\ UNCHANGED <<top, pushed>>
    BY <1>1, <1>5
  <2> QED BY <1>2, <1>3, <1>5, <2>1 DEF IInv, TypeOK, WithinMemory, Holds, Memory
<1>6. CASE g.status = "0" /\ ~(g.n < top + count)
  <2> DEFINE old == g.b.mem
             mem == [i \in DOMAIN old |-> IF top < i /\ i <= top + count THEN byte ELSE old[i]]
             copies == Copies(count, byte)
  <2>1. /\ b' = [g.b EXCEPT !.mem = mem] /\ n' = g.n /\ top' = top + count
        /\ retval' = "0" /\ pushed' = pushed \o copies
    BY <1>1, <1>6
  <2>2. old \in Seq(Byte \cup {Junk}) /\ Len(old) = g.n /\ ~g.b.null
    BY <1>3, <1>6 DEF Memory
  <2>3. mem \in Seq(Byte \cup {Junk}) /\ Len(mem) = g.n
    <3>1. DOMAIN old = 1 .. g.n /\ \A i \in 1 .. g.n : old[i] \in Byte \cup {Junk}
      BY <2>2
    <3>2. mem \in [1 .. g.n -> Byte \cup {Junk}]
      BY <3>1
    <3> HIDE DEF mem
    <3> QED BY <3>2, <1>3, SeqOf
  <2>4. copies \in Seq(Byte) /\ Len(copies) = count /\ \A i \in 1 .. count : copies[i] = byte
    <3>1. copies \in [1 .. count -> Byte] /\ \A i \in 1 .. count : copies[i] = byte
      BY DEF Copies
    <3> QED BY <1>0, <3>1, SeqOf
  <2>5. pushed \in Seq(Byte) /\ top \in Nat /\ top = Len(pushed)
        /\ \A i \in 1 .. top : b.mem[i] = pushed[i]
    BY DEF IInv, TypeOK, Holds
  <2> HIDE DEF copies
  <2>6. /\ pushed' \in Seq(Byte) /\ Len(pushed') = top + count
        /\ \A i \in 1 .. top : pushed'[i] = pushed[i]
        /\ \A i \in top + 1 .. top + count : pushed'[i] = copies[i - top]
    <3>1. pushed' \in Seq(Byte) /\ Len(pushed') = top + count
      BY <1>0, <2>1, <2>4, <2>5, ConcatProperties
    <3>2. \A i \in 1 .. top + count :
            pushed'[i] = IF i <= top THEN pushed[i] ELSE copies[i - top]
      BY <2>1, <2>4, <2>5, ConcatProperties
    <3>3. ASSUME NEW i \in 1 .. top PROVE pushed'[i] = pushed[i]
      BY <1>0, <2>5, <3>2
    <3>4. ASSUME NEW i \in top + 1 .. top + count PROVE pushed'[i] = copies[i - top]
      <4>1. i \in 1 .. top + count /\ ~(i <= top)
        BY <1>0, <2>5
      <4> QED BY <3>2, <4>1
    <3> QED BY <3>1, <3>3, <3>4
  <2>7. \A i \in 1 .. top + count : mem[i] = pushed'[i]
    <3> TAKE i \in 1 .. top + count
    <3>1. i \in DOMAIN old
      BY <1>0, <1>3, <1>6, <2>2, <2>5
    <3>2. CASE i <= top
      <4>1. i \in 1 .. top
        BY <2>5, <3>2
      <4>2. mem[i] = old[i]
        BY <2>5, <3>1, <4>1
      <4> QED BY <1>3, <1>6, <2>5, <2>6, <4>1, <4>2
    <3>3. CASE top < i
      <4>1. i \in top + 1 .. top + count /\ i - top \in 1 .. count
        BY <1>0, <2>5, <3>3
      <4>2. mem[i] = byte
        BY <1>0, <2>5, <3>1, <3>3
      <4> QED BY <2>4, <2>6, <4>1, <4>2
    <3> QED BY <2>5, <3>2, <3>3
  <2> HIDE DEF mem
  <2>8. b' \in Memory /\ b'.mem = mem /\ ~b'.null
    BY <1>3, <2>1, <2>2, <2>3 DEF Memory
  <2>9. TypeOK'
    BY <1>0, <1>2, <1>3, <2>1, <2>5, <2>6, <2>8 DEF IInv, TypeOK, Memory
  <2>10. WithinMemory'
    BY <1>0, <1>2, <1>3, <1>6, <2>1, <2>3, <2>5, <2>8 DEF WithinMemory
  <2>11. Holds'
    BY <2>1, <2>6, <2>7, <2>8 DEF Holds
  <2> QED BY <2>8, <2>9, <2>10, <2>11 DEF IInv
<1> QED BY <1>4, <1>5, <1>6

LEMMA PopStep ==
  ASSUME IInv, NEW count \in Counts, dbuf_pop(count)
  PROVE  IInv'
<1>0. count \in Nat /\ top \in Nat /\ n \in Nat /\ pushed \in Seq(Byte)
      /\ b.mem \in Seq(Byte \cup {Junk}) /\ top = Len(pushed)
      /\ \A i \in 1 .. top : b.mem[i] = pushed[i]
  BY SizesAssumption DEF IInv, TypeOK, Holds
<1>1. UNCHANGED <<open, b, freed, n>>
  BY DEF dbuf_pop
<1>2. CASE count > top
  <2>1. retval' = "ENODATA" /\ s' = <<>> /\ UNCHANGED <<top, pushed>>
    BY <1>2 DEF dbuf_pop
  <2> QED BY <1>1, <2>1 DEF IInv, TypeOK, WithinMemory, Holds
<1>3. CASE ~(count > top)
  <2>1. /\ top' = top - count /\ s' = SubSeq(b.mem, top - count + 1, top)
        /\ retval' = "0" /\ pushed' = SubSeq(pushed, 1, Len(pushed) - count)
    BY <1>3 DEF dbuf_pop
  <2>2. top <= Len(b.mem) /\ top - count \in Nat /\ top - count <= top
    BY <1>0, <1>3 DEF IInv, WithinMemory
  <2>3. s' \in Seq(Byte \cup {Junk})
    <3>1. \A i \in top - count + 1 .. top : b.mem[i] \in Byte \cup {Junk}
      BY <1>0, <2>2
    <3> QED BY <1>0, <2>1, <2>2, <3>1
  <2>4. pushed' \in Seq(Byte) /\ Len(pushed') = top - count
        /\ \A i \in 1 .. top - count : pushed'[i] = pushed[i]
    BY <1>0, <2>1, <2>2
  <2>5. TypeOK'
    BY <1>1, <2>1, <2>2, <2>3, <2>4 DEF IInv, TypeOK
  <2>6. WithinMemory'
    BY <1>0, <1>1, <2>1, <2>2 DEF IInv, WithinMemory
  <2>7. Holds'
    <3>1. \A i \in 1 .. top - count : i \in 1 .. top
      BY <1>0, <2>2
    <3>2. \A i \in 1 .. top - count : b'.mem[i] = pushed'[i]
      BY <1>0, <1>1, <2>4, <3>1
    <3> QED BY <2>1, <2>4, <3>2 DEF Holds
  <2> QED BY <1>1, <2>5, <2>6, <2>7 DEF IInv
<1> QED BY <1>2, <1>3

LEMMA NextIInv == IInv /\ [Next]_vars => IInv'
<1> SUFFICES ASSUME IInv, [Next]_vars PROVE IInv'
  OBVIOUS
<1>1. ASSUME NEW size \in InitialSizes, dbuf_init(size) PROVE IInv'
  BY <1>1, SizesAssumption, Empty
     DEF dbuf_init, IInv, TypeOK, Memory, WithinMemory, Holds, NoMemory
<1>2. ASSUME dbuf_destroy PROVE IInv'
  <2>1. CASE ~freed
    <3>1. /\ open' = FALSE /\ b' = NoMemory /\ n' = 0 /\ top' = 0 /\ freed' = FALSE
          /\ retval' = "0" /\ s' = <<>> /\ pushed' = <<>>
      BY <1>2, <2>1 DEF dbuf_destroy, IInv, TypeOK
    <3> QED BY <3>1, Empty DEF IInv, TypeOK, Memory, WithinMemory, Holds, NoMemory
  <2>2. CASE freed
    BY <1>2, <2>2, CrashStep DEF dbuf_destroy
  <2> QED BY <2>1, <2>2
<1>8. ASSUME NEW new_n \in Nat, dbuf_grow_to(new_n) PROVE IInv'
  BY <1>8, GrowStep, CrashStep DEF dbuf_grow_to
<1>3. ASSUME NEW size \in GrowSizes, dbuf_grow_to(size) PROVE IInv'
  BY <1>3, <1>8, SizesAssumption
<1>4. ASSUME dbuf_grow PROVE IInv'
  BY <1>4, <1>8, Grown DEF dbuf_grow
<1>5. ASSUME NEW count \in Counts, NEW byte \in Byte, dbuf_push(count, byte) PROVE IInv'
  BY <1>5, PushStep
<1>6. ASSUME NEW count \in Counts, dbuf_pop(count) PROVE IInv'
  BY <1>6, PopStep
<1>7. ASSUME UNCHANGED vars PROVE IInv'
  BY <1>7 DEF vars, IInv, TypeOK, WithinMemory, Holds
<1> QED BY <1>1, <1>2, <1>3, <1>4, <1>5, <1>6, <1>7 DEF Next

LEMMA SpecIInv == Spec => []IInv
  BY InitIInv, NextIInv, PTL DEF Spec

\* The memory behind buf->b is buf->n bytes long and what was pushed lies
\* within it, so the memmoves of dbuf_push and dbuf_pop stay inside.
THEOREM BufferWithinMemory == Spec => []WithinMemory
<1>1. IInv => WithinMemory
  BY DEF IInv
<1> QED BY <1>1, SpecIInv, PTL

\* The bytes in memory are the history variable, before and after a step.
LEMMA HeldPushed == IInv => SubSeq(b.mem, 1, top) = pushed
<1> SUFFICES ASSUME IInv PROVE SubSeq(b.mem, 1, top) = pushed
  OBVIOUS
<1>1. top \in Nat /\ top <= Len(b.mem) /\ top = Len(pushed)
      /\ b.mem \in Seq(Byte \cup {Junk}) /\ pushed \in Seq(Byte)
  <2>1. b.null \/ ~b.null
    OBVIOUS
  <2> QED BY <2>1 DEF IInv, TypeOK, Memory, WithinMemory, Holds
<1>2. \A i \in 1 .. top : SubSeq(b.mem, 1, top)[i] = pushed[i]
  BY <1>1 DEF IInv, Holds
<1> QED BY <1>1, <1>2

LEMMA HeldPushedNext == IInv' => (SubSeq(b.mem, 1, top) = pushed)'
  BY HeldPushed, PTL

\* However often realloc moved or failed, the buffer holds exactly the bytes
\* pushed and not yet popped.
THEOREM BufferHoldsPushed == Spec => []HoldsPushed
<1>1. IInv => HoldsPushed
  BY HeldPushed DEF IInv, Holds, HoldsPushed
<1> QED BY <1>1, SpecIInv, PTL

\* What dbuf_pop copies from memory are the bytes pushed last.
LEMMA PopCopies ==
  ASSUME IInv, NEW count \in Counts, count <= top
  PROVE  SubSeq(b.mem, top - count + 1, top) = SubSeq(pushed, top - count + 1, top)
<1>1. count \in Nat /\ top \in Nat /\ pushed \in Seq(Byte) /\ top = Len(pushed)
      /\ b.mem \in Seq(Byte \cup {Junk}) /\ \A i \in 1 .. top : b.mem[i] = pushed[i]
  BY SizesAssumption DEF IInv, TypeOK, Holds
<1>2. top <= Len(b.mem) /\ top - count \in Nat
  BY <1>1 DEF IInv, WithinMemory
<1> DEFINE from == top - count + 1
<1>3. Len(SubSeq(b.mem, from, top)) = count /\ Len(SubSeq(pushed, from, top)) = count
  BY <1>1, <1>2
<1>4. ASSUME NEW i \in 1 .. count
      PROVE  SubSeq(b.mem, from, top)[i] = SubSeq(pushed, from, top)[i]
  <2>1. from + i - 1 \in 1 .. top
    BY <1>1, <1>2
  <2> QED BY <1>1, <1>2, <2>1
<1> QED BY <1>1, <1>2, <1>3, <1>4

LEMMA PushImplements ==
  ASSUME IInv, IInv', NEW count \in Counts, NEW byte \in Byte, dbuf_push(count, byte)
  PROVE  Stack!Push(count, byte) \/ Stack!Keep
<1>1. SubSeq(b.mem, 1, top) = pushed /\ (SubSeq(b.mem, 1, top) = pushed)'
  BY HeldPushed, HeldPushedNext
<1>2. PICK g \in room(count) :
        \/ g.status # "0" /\ retval' = g.status /\ UNCHANGED pushed
        \/ g.status = "0" /\ retval' = "aborted" /\ UNCHANGED pushed
        \/ retval' = "0" /\ pushed' = pushed \o Copies(count, byte)
  BY DEF dbuf_push
<1>3. g.status \in {"0", "EINVAL", "ENOMEM"}
  BY Room, SizesAssumption
<1>4. s' = <<>> /\ open' = open /\ Usable
  BY DEF dbuf_push
<1> QED BY <1>1, <1>2, <1>3, <1>4
        DEF Copies, Usable, Stack!Push, Stack!Keep, Stack!Usable

LEMMA GrowImplements ==
  ASSUME IInv, IInv', NEW new_n \in Nat, dbuf_grow_to(new_n)
  PROVE  Stack!Keep
<1>1. SubSeq(b.mem, 1, top) = pushed /\ (SubSeq(b.mem, 1, top) = pushed)'
  BY HeldPushed, HeldPushedNext
<1>2. s' = <<>> /\ open' = open /\ pushed' = pushed /\ Usable
  BY DEF dbuf_grow_to, Crash
<1>3. retval' \in {"0", "EINVAL", "ENOMEM", "crashed"}
  BY GrowTo DEF dbuf_grow_to, Crash
<1> QED BY <1>1, <1>2, <1>3 DEF Usable, Stack!Keep, Stack!Usable

LEMMA PopImplements ==
  ASSUME IInv, IInv', NEW count \in Counts, dbuf_pop(count)
  PROVE  Stack!Pop(count) \/ Stack!PopTooMany(count)
<1>1. SubSeq(b.mem, 1, top) = pushed /\ (SubSeq(b.mem, 1, top) = pushed)' /\ top = Len(pushed)
  BY HeldPushed, HeldPushedNext DEF IInv, Holds
<1>2. open' = open /\ Usable
  BY DEF dbuf_pop
<1>3. CASE count > top
  BY <1>1, <1>2, <1>3 DEF dbuf_pop, Usable, Stack!PopTooMany, Stack!Usable
<1>4. CASE ~(count > top)
  <2>1. count <= top
    BY <1>4, SizesAssumption DEF IInv, TypeOK
  <2>2. s' = SubSeq(pushed, Len(pushed) - count + 1, Len(pushed))
    BY <1>1, <1>4, <2>1, PopCopies DEF dbuf_pop
  <2>3. retval' = "0" /\ pushed' = SubSeq(pushed, 1, Len(pushed) - count)
    BY <1>4 DEF dbuf_pop
  <2> QED BY <1>1, <1>2, <2>1, <2>2, <2>3 DEF Usable, Stack!Pop, Stack!Usable
<1> QED BY <1>3, <1>4

\* Every buffer is the stack of bytes dbuf.h promises: each call is one of
\* the stack's, failures and the crash after a realloc to 0 bytes included.
THEOREM BufferIsStack == Spec => ImplementsByteStack
<1>1. Init => Stack!Init
  <2> SUFFICES ASSUME Init PROVE Stack!Init
    OBVIOUS
  <2>1. SubSeq(b.mem, 1, top) = <<>>
    BY InitIInv, HeldPushed DEF Init
  <2> QED BY <2>1 DEF Init, Stack!Init
<1>2. IInv /\ IInv' /\ [Next]_vars => [Stack!Next]_(Stack!vars)
  <2> SUFFICES ASSUME IInv, IInv', [Next]_vars PROVE Stack!Next \/ UNCHANGED Stack!vars
    OBVIOUS
  <2>0. SubSeq(b.mem, 1, top) = pushed /\ (SubSeq(b.mem, 1, top) = pushed)'
    BY HeldPushed, HeldPushedNext
  <2>1. ASSUME NEW size \in InitialSizes, dbuf_init(size) PROVE Stack!Create
    BY <2>0, <2>1 DEF dbuf_init, Stack!Create
  <2>2. ASSUME dbuf_destroy PROVE Stack!Destroy \/ Stack!Keep
    BY <2>0, <2>2 DEF dbuf_destroy, Crash, Usable, Stack!Destroy, Stack!Keep, Stack!Usable
  <2>3. ASSUME NEW size \in GrowSizes, dbuf_grow_to(size) PROVE Stack!Keep
    BY <2>3, GrowImplements, SizesAssumption
  <2>4. ASSUME dbuf_grow PROVE Stack!Keep
    BY <2>4, GrowImplements, Grown DEF dbuf_grow
  <2>5. ASSUME NEW count \in Counts, NEW byte \in Byte, dbuf_push(count, byte)
        PROVE  Stack!Push(count, byte) \/ Stack!Keep
    BY <2>5, PushImplements
  <2>6. ASSUME NEW count \in Counts, dbuf_pop(count)
        PROVE  Stack!Pop(count) \/ Stack!PopTooMany(count)
    BY <2>6, PopImplements
  <2>7. ASSUME UNCHANGED vars PROVE UNCHANGED Stack!vars
    BY <2>7 DEF vars, Stack!vars
  <2> QED BY <2>1, <2>2, <2>3, <2>4, <2>5, <2>6, <2>7 DEF Next, Stack!Next
<1> QED BY <1>1, <1>2, SpecIInv, PTL DEF Spec, ImplementsByteStack, Stack!Spec
=============================================================================
