------------------------------ MODULE ByteStack ------------------------------
(***************************************************************************)
(* What dbuf.h promises of a buffer used as a stack: bytes are pushed and  *)
(* popped at its end, and a call that fails changes nothing. Memory does   *)
(* not appear, except that there may be too little of it.                  *)
(***************************************************************************)
EXTENDS Integers, Sequences

CONSTANTS Byte, Counts

VARIABLES
  open,    \* between init and destroy
  stack,   \* the bytes pushed and not popped, last one last
  popped,  \* what the last pop handed out
  status   \* what the last call returned, or how the process ended

vars == <<open, stack, popped, status>>

Init == open = FALSE /\ stack = <<>> /\ popped = <<>> /\ status = "0"

Usable == open /\ status \notin {"aborted", "crashed"}

Create == ~open /\ open' = TRUE /\ stack' = <<>> /\ popped' = <<>> /\ status' = "0"
Destroy == Usable /\ open' = FALSE /\ stack' = <<>> /\ popped' = <<>> /\ status' = "0"

Push(count, byte) ==
  /\ Usable
  /\ stack' = stack \o [i \in 1 .. count |-> byte]
  /\ popped' = <<>> /\ status' = "0" /\ UNCHANGED open

Pop(count) ==
  /\ Usable /\ count <= Len(stack)
  /\ stack' = SubSeq(stack, 1, Len(stack) - count)
  /\ popped' = SubSeq(stack, Len(stack) - count + 1, Len(stack))
  /\ status' = "0" /\ UNCHANGED open

PopTooMany(count) ==
  /\ Usable /\ count > Len(stack)
  /\ popped' = <<>> /\ status' = "ENODATA" /\ UNCHANGED <<open, stack>>

\* A growth, or a call that fails or ends the process.
Keep ==
  /\ Usable
  /\ popped' = <<>> /\ status' \in {"0", "EINVAL", "ENOMEM", "aborted", "crashed"}
  /\ UNCHANGED <<open, stack>>

Next ==
  \/ Create \/ Destroy \/ Keep
  \/ \E count \in Counts : Pop(count) \/ PopTooMany(count) \/ \E byte \in Byte : Push(count, byte)

Spec == Init /\ [][Next]_vars
=============================================================================
