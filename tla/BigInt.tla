-------------------------------- MODULE BigInt --------------------------------
(***************************************************************************)
(* The arbitrary precision integers of bigint.c: two's complement in       *)
(* chunks of a machine word, least significant first, with the chunk that  *)
(* continues the number beyond its last one.                               *)
(*                                                                         *)
(* Each function of the library that may allocate is the set of what it    *)
(* may return. A client holds two numbers, calls a function with them, and *)
(* keeps the result in place of one.                                       *)
(***************************************************************************)
EXTENDS Integers, Sequences

CONSTANTS
  LONG_BIT, NIBBLE_BIT,  \* the width of a chunk and of a hexadecimal digit
  MaxChunks,             \* clients keep numbers of at most so many chunks
  Strings,               \* what clients may parse
  NULL, Crashed

ASSUME WidthAssumption ==
  /\ LONG_BIT \in Nat \ {0, 1} /\ NIBBLE_BIT \in Nat \ {0} /\ LONG_BIT % NIBBLE_BIT = 0
  /\ MaxChunks \in Nat \ {0} /\ NULL # Crashed

NNIBBLE_IN_LONG == LONG_BIT \div NIBBLE_BIT
LONG_MSB == LONG_BIT - 1
ULONG_MAX == 2 ^ LONG_BIT - 1

Chunk == 0 .. ULONG_MAX
Bit(c, k) == (c \div 2 ^ k) % 2
FromBits(bit(_)) == CHOOSE c \in Chunk : \A k \in 0 .. LONG_MSB : Bit(c, k) = bit(k)

BitAnd(p, q) == IF p = 1 /\ q = 1 THEN 1 ELSE 0
BitOr(p, q) == IF p = 1 \/ q = 1 THEN 1 ELSE 0
BitXor(p, q) == IF p # q THEN 1 ELSE 0
OfBits(bitop(_, _), c, d) == LET at(k) == bitop(Bit(c, k), Bit(d, k)) IN FromBits(at)

ShiftLeft(c, k) == (c * 2 ^ k) % 2 ^ LONG_BIT
ShiftRight(c, k) == c \div 2 ^ k

\* A shift by the full width is undefined in C: the processor masks the
\* width, or the compiler takes the result for 0.
CarryLeft(c, k, masked) == IF k = LONG_BIT THEN (IF masked THEN c ELSE 0) ELSE ShiftLeft(c, k)
CarryRight(c, k, masked) == IF k = LONG_BIT THEN (IF masked THEN c ELSE 0) ELSE ShiftRight(c, k)

VARIABLES
  x, y,  \* the numbers the client holds, or NULL
  text,  \* the string it holds
  op,    \* the function called last, or none
  res    \* what it returned

vars == <<x, y, text, op, res>>
-----------------------------------------------------------------------------
\* bigint_index_with_padding
At(n, i) == IF i >= 0 /\ i < n.nchunk THEN n.chunks[i] ELSE n.pad_chunk
bigint_msb(n, i) == ShiftRight(At(n, i), LONG_MSB)
Negative(n) == bigint_msb(n, -1) = 1

pad_chunks(msb) == IF msb = 1 THEN ULONG_MAX ELSE 0
Larger(p, q) == IF p > q THEN p ELSE q

\* Mutant: does not look whether the sign is still there.
trim_drops_sign(m, c) ==
  LET pad == pad_chunks(ShiftRight(c[m - 1], LONG_MSB))
      i == CHOOSE i \in 0 .. m - 1 :
             (i = 0 \/ c[i] # pad) /\ \A j \in i + 1 .. m - 1 : c[j] = pad
  IN [nchunk |-> i + 1, pad_chunk |-> pad, chunks |-> [k \in 0 .. i |-> c[k]]]

\* bigint_identify_pad_chunk_and_trim, of m chunks c: the padding goes, except
\* a chunk of it when the sign would not show without.
trim(m, c) ==
  LET msb == ShiftRight(c[m - 1], LONG_MSB)
      pad == pad_chunks(msb)
      i == CHOOSE i \in 0 .. m - 1 :
             (i = 0 \/ c[i] # pad) /\ \A j \in i + 1 .. m - 1 : c[j] = pad
      new_nchunk == IF ShiftRight(c[i], LONG_MSB) # msb THEN i + 2 ELSE i + 1
  IN [nchunk |-> new_nchunk, pad_chunk |-> pad, chunks |-> [k \in 0 .. new_nchunk - 1 |-> c[k]]]

\* bigint_init may return NULL, and then so do its callers.
Allocated(n) == {n, NULL}

bigint_copy(n) == IF n = NULL THEN {NULL} ELSE Allocated(n)
bigint_from_long(l) == Allocated(trim(1, [i \in {0} |-> l]))
bigint_one == trim(1, [i \in {0} |-> 1])

\* Returns a status, and the number through a pointer.
bigint_to_long(n) ==
  IF n = NULL THEN [status |-> "EINVAL"]
  ELSE [status |-> IF n.nchunk > 1 THEN "ERANGE" ELSE "0", result |-> n.chunks[0]]

\* A digit that is NULL is no hexadecimal one. The empty string fails the
\* assertion of bigint_init.
bigint_from_msb_first_hexstring(s) ==
  LET ns == Len(s)
      left == ns % NNIBBLE_IN_LONG
      nchunk == ns \div NNIBBLE_IN_LONG + (IF left # 0 THEN 1 ELSE 0)
      nibbleBit(b) == IF b \div NIBBLE_BIT < ns THEN Bit(s[ns - b \div NIBBLE_BIT], b % NIBBLE_BIT) ELSE 0
      read(i) == LET at(k) == nibbleBit(i * LONG_BIT + k) IN FromBits(at)
      padded(i) == IF i = nchunk - 1 /\ left # 0 /\ Bit(s[1], NIBBLE_BIT - 1) = 1
                   THEN OfBits(BitOr, read(i), ShiftLeft(ULONG_MAX, left)) ELSE read(i)
  IN CASE ns = 0 -> {Crashed}
       [] ns > 0 /\ (\E k \in 1 .. ns : s[k] = NULL) -> {NULL}
       [] OTHER -> Allocated(trim(nchunk, [i \in 0 .. nchunk - 1 |-> padded(i)]))

bigint_nnibble(n) == n.nchunk * NNIBBLE_IN_LONG

\* Mutant: the chunks are written in the order they are stored.
to_hexstring_chunks_reversed(n) ==
  [p \in 1 .. bigint_nnibble(n) |->
     LET i == (p - 1) \div NNIBBLE_IN_LONG
         d == (NNIBBLE_IN_LONG - 1) - ((p - 1) % NNIBBLE_IN_LONG)
     IN ShiftRight(n.chunks[i], NIBBLE_BIT * d) % 2 ^ NIBBLE_BIT]

\* bigint_to_msb_first_hexstring: the digits of every chunk, the last first.
to_hexstring(n) ==
  [p \in 1 .. bigint_nnibble(n) |->
     LET d == bigint_nnibble(n) - p
     IN ShiftRight(n.chunks[d \div NNIBBLE_IN_LONG], NIBBLE_BIT * (d % NNIBBLE_IN_LONG)) % 2 ^ NIBBLE_BIT]
-----------------------------------------------------------------------------
\* Mutant: more chunks are more, below 0 too.
bigint_compare_unsigned_length(a, b) ==
  CASE a = NULL -> IF b = NULL THEN 0 ELSE -1
    [] a # NULL /\ b = NULL -> 1
    [] a # NULL /\ b # NULL ->
         IF Negative(a) # Negative(b) THEN (IF Negative(a) THEN -1 ELSE 1)
         ELSE IF a.nchunk # b.nchunk THEN (IF a.nchunk > b.nchunk THEN 1 ELSE -1)
         ELSE LET differ == {i \in 0 .. a.nchunk - 1 : a.chunks[i] # b.chunks[i]}
                  i == CHOOSE i \in differ : \A j \in differ : j <= i
              IN IF differ = {} THEN 0 ELSE IF a.chunks[i] > b.chunks[i] THEN 1 ELSE -1

bigint_compare(a, b) ==
  CASE a = NULL -> IF b = NULL THEN 0 ELSE -1
    [] a # NULL /\ b = NULL -> 1
    [] a # NULL /\ b # NULL ->
         IF Negative(a) # Negative(b) THEN (IF Negative(a) THEN -1 ELSE 1)
         ELSE IF a.nchunk # b.nchunk THEN (IF (a.nchunk > b.nchunk) = ~Negative(a) THEN 1 ELSE -1)
         ELSE LET differ == {i \in 0 .. a.nchunk - 1 : a.chunks[i] # b.chunks[i]}
                  i == CHOOSE i \in differ : \A j \in differ : j <= i
              IN IF differ = {} THEN 0 ELSE IF a.chunks[i] > b.chunks[i] THEN 1 ELSE -1

\* The result of bigint_init is written to without a test for NULL.
bigint_not(n) ==
  IF n = NULL THEN {NULL}
  ELSE {trim(n.nchunk, [i \in 0 .. n.nchunk - 1 |-> ULONG_MAX - n.chunks[i]]), Crashed}

BIGINT_BINOP(a, b, bitop(_, _)) ==
  IF NULL \in {a, b} THEN {NULL}
  ELSE LET maxchunks == Larger(a.nchunk, b.nchunk)
       IN Allocated(trim(maxchunks, [i \in 0 .. maxchunks - 1 |-> OfBits(bitop, At(a, i), At(b, i))]))

bigint_and(a, b) == BIGINT_BINOP(a, b, BitAnd)
bigint_or(a, b) == BIGINT_BINOP(a, b, BitOr)
bigint_xor(a, b) == BIGINT_BINOP(a, b, BitXor)

\* The most significant bits are added apart, so that no sum overflows. The
\* result has as many chunks as the longer operand: a carry out of it is lost.
bigint_add(a, b) ==
  IF NULL \in {a, b} THEN {NULL}
  ELSE LET maxchunk == Larger(a.nchunk, b.nchunk)
           low(i, in) == (At(a, i) % 2 ^ LONG_MSB) + (At(b, i) % 2 ^ LONG_MSB) + in
           msbs(i, in) == bigint_msb(a, i) + bigint_msb(b, i) + ShiftRight(low(i, in), LONG_MSB)
           carry[i \in 0 .. maxchunk] ==
             IF i = 0 THEN 0 ELSE ShiftRight(msbs(i - 1, carry[i - 1]), 1)
           sum(i) == (low(i, carry[i]) % 2 ^ LONG_MSB) + ShiftLeft(msbs(i, carry[i]), LONG_MSB)
       IN Allocated(trim(maxchunk, [i \in 0 .. maxchunk - 1 |-> sum(i)]))

bigint_negate(n) ==
  UNION {IF not_n = Crashed THEN {not_n} ELSE bigint_add(not_n, bigint_one) : not_n \in bigint_not(n)}

bigint_abs(n) ==
  IF n = NULL THEN {NULL} ELSE IF Negative(n) THEN bigint_negate(n) ELSE bigint_copy(n)

bigint_subtract(a, b) ==
  IF NULL \in {a, b} THEN {NULL}
  ELSE UNION {IF minus_b = Crashed THEN {minus_b} ELSE bigint_add(a, minus_b) :
                minus_b \in bigint_negate(b)}
-----------------------------------------------------------------------------
\* A shift by a negative number is the other shift by its negation. That of
\* the least number of its chunks is itself: the two functions then call each
\* other until the stack is used up or an allocation fails.
Reversed(shift(_, _), a, b) ==
  UNION {CASE minus_b = Crashed -> {Crashed}
           [] minus_b = NULL -> {NULL}
           [] minus_b \notin {Crashed, NULL} -> IF Negative(minus_b) THEN {Crashed, NULL} ELSE shift(a, minus_b) :
           minus_b \in bigint_negate(b)}

\* By b >= 0. When b is a multiple of LONG_BIT the chunk written last is
\* behind the block: nothing may come of it, or a crash.
ShiftedLeft(a, b) ==
  LET npre_chunks == b.chunks[0] \div LONG_BIT
      shift == b.chunks[0] % LONG_BIT
      m == a.nchunk + npre_chunks + (IF shift # 0 THEN 1 ELSE 0)
      carry(i, masked) ==
        IF i = 0 THEN 0 ELSE CarryRight(a.chunks[i - 1], LONG_BIT - shift, masked)
      chunk(i, masked) ==
        IF i < 0 THEN 0 ELSE OfBits(BitOr, ShiftLeft(At(a, i), shift), carry(i, masked))
  IN IF b.nchunk > 1 THEN {NULL}
     ELSE {trim(m, [i \in 0 .. m - 1 |-> chunk(i - npre_chunks, masked)]) : masked \in BOOLEAN}
            \cup {NULL} \cup (IF shift = 0 THEN {Crashed} ELSE {})

\* By b >= 0, of which only the first chunk is read.
ShiftedRight(a, b) ==
  LET removed_chunks == b.chunks[0] \div LONG_BIT
      shift == b.chunks[0] % LONG_BIT
      m == a.nchunk - removed_chunks
      carry(i, masked) == CarryLeft(At(a, i + 1), LONG_BIT - shift, masked)
      chunk(i, masked) == OfBits(BitOr, ShiftRight(a.chunks[i], shift), carry(i, masked))
  IN IF m <= 0 THEN Allocated(trim(1, [i \in {0} |-> a.pad_chunk]))
     ELSE {trim(m, [i \in 0 .. m - 1 |-> chunk(i + removed_chunks, masked)]) : masked \in BOOLEAN}
            \cup {NULL}

bigint_shift_left(a, b) ==
  IF NULL \in {a, b} THEN {NULL}
  ELSE IF Negative(b) THEN Reversed(ShiftedRight, a, b) ELSE ShiftedLeft(a, b)

bigint_shift_right(a, b) ==
  IF NULL \in {a, b} THEN {NULL}
  ELSE IF Negative(b) THEN Reversed(ShiftedLeft, a, b) ELSE ShiftedRight(a, b)
-----------------------------------------------------------------------------
Init == x = NULL /\ y = NULL /\ text \in Strings /\ op = "none" /\ res = NULL

Perform(name, results) ==
  /\ op = "none"
  /\ op' = name /\ res' \in results
  /\ UNCHANGED <<x, y, text>>

ToHexstring ==
  /\ op = "none" /\ x # NULL
  /\ text' = to_hexstring(x) /\ op' = "to_hexstring" /\ res' = bigint_nnibble(x)
  /\ UNCHANGED <<x, y>>

\* The client parses what it has, also what to_hexstring just wrote.
FromHexstring ==
  /\ op = "none" \/ op = "to_hexstring"
  /\ op' = "from_hexstring" /\ res' \in bigint_from_msb_first_hexstring(text)
  /\ UNCHANGED <<x, y, text>>

Numeric(name) == name \notin {"none", "to_hexstring", "to_long", "compare"}

\* The client keeps the result in place of x or of y.
Keep ==
  /\ Numeric(op) /\ res \notin {NULL, Crashed} /\ res.nchunk <= MaxChunks
  /\ x' = res /\ y' \in {x, y}
  /\ text' = <<>> /\ op' = "none" /\ res' = NULL

bigint_destroy ==
  /\ op # "none" /\ (Numeric(op) => res # Crashed)
  /\ text' = <<>> /\ op' = "none" /\ res' = NULL
  /\ UNCHANGED <<x, y>>

Next ==
  \/ \E l \in Chunk : Perform("from_long", bigint_from_long(l))
  \/ Perform("to_long", {bigint_to_long(x)}) \/ Perform("copy", bigint_copy(x))
  \/ Perform("compare", {bigint_compare(x, y)})
  \/ Perform("not", bigint_not(x)) \/ Perform("and", bigint_and(x, y))
  \/ Perform("or", bigint_or(x, y)) \/ Perform("xor", bigint_xor(x, y))
  \/ Perform("negate", bigint_negate(x)) \/ Perform("abs", bigint_abs(x))
  \/ Perform("add", bigint_add(x, y)) \/ Perform("subtract", bigint_subtract(x, y))
  \/ Perform("shift_left", bigint_shift_left(x, y)) \/ Perform("shift_right", bigint_shift_right(x, y))
  \/ ToHexstring \/ FromHexstring \/ Keep \/ bigint_destroy

Spec == Init /\ [][Next]_vars
-----------------------------------------------------------------------------
(***************************************************************************)
(* Properties.                                                             *)
(***************************************************************************)
\* Every number is padded by its sign and no longer than its sign needs: two
\* numbers are equal only if their structs are, which bigint_compare and the
\* test of to_long for nchunk > 1 rely on.
Shortest(n) ==
  /\ n.nchunk >= 1 /\ DOMAIN n.chunks = 0 .. n.nchunk - 1
  /\ n.pad_chunk = pad_chunks(ShiftRight(n.chunks[n.nchunk - 1], LONG_MSB))
  /\ n.nchunk > 1 => ~ /\ n.chunks[n.nchunk - 1] = n.pad_chunk
                       /\ ShiftRight(n.chunks[n.nchunk - 2], LONG_MSB) =
                            ShiftRight(n.pad_chunk, LONG_MSB)
Canonical ==
  /\ \A n \in {x, y} : n # NULL => Shortest(n)
  /\ Numeric(op) /\ res \notin {NULL, Crashed} => Shortest(res)

\* The integer a number stands for, and how many chunks an integer needs.
Value(n) ==
  LET below[i \in 0 .. n.nchunk] ==
        IF i = 0 THEN 0 ELSE below[i - 1] + n.chunks[i - 1] * 2 ^ (LONG_BIT * (i - 1))
  IN below[n.nchunk] - (IF n.pad_chunk = 0 THEN 0 ELSE 2 ^ (LONG_BIT * n.nchunk))
Half(m) == 2 ^ (LONG_BIT * m - 1)
Size(v) == CHOOSE m \in 1 .. MaxChunks + 1 :
             /\ -Half(m) <= v /\ v < Half(m)
             /\ \A k \in 1 .. m - 1 : ~(-Half(k) <= v /\ v < Half(k))
Wrapped(v, m) == ((v + Half(m)) % (2 * Half(m))) - Half(m)
Sign(v) == IF v > 0 THEN 1 ELSE IF v < 0 THEN -1 ELSE 0
ValueBit(v, k) == (v \div 2 ^ k) % 2
Bitwise(bitop(_, _), r, v, w) ==
  \A k \in 0 .. LONG_BIT * (MaxChunks + 1) : ValueBit(r, k) = bitop(ValueBit(v, k), ValueBit(w, k))
TimesPower(v, e) == IF e >= 0 THEN v * 2 ^ e ELSE v \div 2 ^ (-e)

\* bigint.h: the operators of C, on the integers of any size. What the code
\* does is that, except that sums and negations wrap at the longer operand;
\* shifts by multiples of a chunk and by more than a chunk can count are not
\* promised anything.
OperationsAgree ==
  /\ op = "compare" =>
       IF NULL \in {x, y} THEN res = Sign((IF x = NULL THEN 0 ELSE 1) - (IF y = NULL THEN 0 ELSE 1))
       ELSE res = Sign(Value(x) - Value(y))
  /\ op = "to_long" /\ x # NULL =>
       res.status = "0" <=> Size(Value(x)) = 1
  /\ Numeric(op) /\ res \notin {NULL, Crashed} /\ x # NULL =>
       LET r == Value(res)
           v == Value(x)
           w == IF y = NULL THEN 0 ELSE Value(y)
       IN /\ op = "copy" => res = x
          /\ op = "not" => r = -1 - v
          /\ op = "and" => Bitwise(BitAnd, r, v, w)
          /\ op = "or" => Bitwise(BitOr, r, v, w)
          /\ op = "xor" => Bitwise(BitXor, r, v, w)
          /\ op = "negate" => r = Wrapped(-v, Size(v))
          /\ op = "abs" => r = IF v < 0 THEN Wrapped(-v, Size(v)) ELSE v
          /\ op = "add" => r = Wrapped(v + w, Larger(Size(v), Size(w)))
          /\ op = "subtract" =>
               LET minus_w == Wrapped(-w, Size(w))
               IN r = Wrapped(v + minus_w, Larger(Size(v), Size(minus_w)))
          /\ op = "shift_left" /\ w % LONG_BIT # 0 /\ -ULONG_MAX <= w => r = TimesPower(v, w)
          /\ op = "shift_right" /\ w % LONG_BIT # 0 /\ w <= ULONG_MAX => r = TimesPower(v, -w)

\* What was written as hexadecimal digits is read back as the same number.
HexRoundTrip ==
  op = "from_hexstring" /\ x # NULL /\ text # <<>> /\ res # NULL => res = x
=============================================================================
