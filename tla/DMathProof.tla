------------------------------ MODULE DMathProof ------------------------------
(***************************************************************************)
(* Bezout's identity holds in every round of extended_gcd and of what it   *)
(* returns, whether a client or chinese_remainder called it. And the array *)
(* of isprime_cached climbs, and its answers are right as far as they are  *)
(* independent of the order of the calls. And fibonacci, gcd, lcm,         *)
(* arecoprime, arecoprime_pairwise, isprime, extended_gcd and              *)
(* chinese_remainder answer what dmath.h defines, with factors that never  *)
(* overflow.                                                               *)
(***************************************************************************)
EXTENDS PrimeCache, SequenceTheorems, FiniteSetTheorems, WellFoundedInduction, TLAPS

Numbers ==
  /\ a \in Int /\ b \in Int /\ s \in Int /\ t \in Int /\ sprev \in Int /\ tprev \in Int
  /\ a0 \in Int /\ b0 \in Int /\ sm \in Int /\ nm \in Nat /\ y \in Seq(Int)

\* A running call has no answer yet, and knows who made it.
Callers ==
  /\ pc \in {"idle", "extended_gcd", "product", "inverses"}
  /\ pc # "idle" => answer = NULL
  /\ pc \in {"product", "inverses"} => asked.fn = "chinese_remainder"
  /\ pc = "extended_gcd" => asked.fn \in {"extended_gcd", "chinese_remainder"}

\* chinese_remainder goes on with moduli that are not 0 only.
Nonzero == pc # "idle" /\ asked.fn = "chinese_remainder" => asked.args[2] \in Seq(Int \ {0})

\* Both pairs of factors give the remainders they belong to.
Factors ==
  pc = "extended_gcd" =>
    /\ b # 0
    /\ s * a0 + t * b0 = b
    /\ sprev * a0 + tprev * b0 = a
    /\ asked.fn = "extended_gcd" => asked.args = <<a0, b0>>

Returned ==
  Answered /\ asked.fn = "extended_gcd" /\ answer # -EDOM =>
    s * asked.args[1] + t * asked.args[2] = answer

IInv == Numbers /\ Callers /\ Nonzero /\ Factors /\ Returned
-----------------------------------------------------------------------------
\* Truncating division of C yields an integer.
LEMMA QuotInt ==
  ASSUME NEW m \in Int, NEW n \in Int, n # 0
  PROVE  Quot(m, n) \in Int
<1>1. Abs(m) \in Nat /\ Abs(n) \in Nat \ {0}
  BY DEF Abs
<1>2. Abs(m) \div Abs(n) \in Int
  BY <1>1, SMT
<1> QED
  BY <1>2 DEF Quot

\* What is left of the division is an integer.
LEMMA RemInt ==
  ASSUME NEW m \in Int, NEW n \in Int, n # 0
  PROVE  Rem(m, n) \in Int
BY QuotInt, SMT DEF Rem

\* A product cut down to a long is an integer.
LEMMA ToLongInt ==
  ASSUME NEW n \in Int
  PROVE  ToLong(n) \in Int
<1>1. ULONG_MAX + 1 \in Nat \ {0} /\ n + LONG_MAX + 1 \in Int /\ LONG_MAX \in Nat
  BY DMathAssumption DEF ULONG_MAX
<1>2. ToULong(n + LONG_MAX + 1) \in Int
  BY <1>1, SMT DEF ToULong
<1> QED
  BY <1>1, <1>2 DEF ToLong

\* One round: a quotient q times the factors of b, subtracted from those of a.
LEMMA RoundFactors ==
  ASSUME NEW A \in Int, NEW B \in Int, NEW f \in Int, NEW g \in Int,
         NEW fprev \in Int, NEW gprev \in Int, NEW q \in Int
  PROVE  (fprev - f * q) * A + (gprev - g * q) * B = (fprev * A + gprev * B) - (f * A + g * B) * q
<1>1. \A x, c, k \in Int : (c - x * k) * A = c * A - (x * A) * k
  BY SMT
<1>2. \A x, c, k \in Int : (c - x * k) * B = c * B - (x * B) * k
  BY SMT
<1>3. (f * A + g * B) * q = (f * A) * q + (g * B) * q
  BY SMT
<1>4. (fprev - f * q) * A = fprev * A - (f * A) * q
  BY <1>1
<1>5. (gprev - g * q) * B = gprev * B - (g * B) * q
  BY <1>2
<1>6. f * A \in Int /\ g * B \in Int /\ fprev * A \in Int /\ gprev * B \in Int
      /\ (f * A) * q \in Int /\ (g * B) * q \in Int
  BY SMT
<1> QED
  BY <1>3, <1>4, <1>5, <1>6
-----------------------------------------------------------------------------
\* A call that answers at once and keeps nothing.
Immediate ==
  /\ NoCall
  /\ \E fn, args : Ask(fn, args) /\ fn \notin {"extended_gcd", "chinese_remainder"}
  /\ UNCHANGED <<pc, locals, equations>>

LEMMA CallImmediate ==
  ASSUME NoCall, NEW fn, NEW args, NEW value, Call(fn, args, value), fn \notin {"extended_gcd", "chinese_remainder"}
  PROVE  Immediate
BY Zenon DEF Call, Immediate, locals, equations

LEMMA Steps ==
  ASSUME [Next]_vars
  PROVE  \/ Immediate
         \/ NoCall /\ \E m, n \in Int : extended_gcd(m, n)
         \/ NoCall /\ \E n \in Nat : \E xs \in [1 .. n -> Remainders], ms \in [1 .. n -> Moduli] : chinese_remainder(xs, ms)
         \/ Round \/ RoundsEnd \/ Multiply \/ FindInverse \/ Combine \/ Forget \/ UNCHANGED vars
<1>1. ASSUME NEW fn, NEW args, NEW value, NoCall, Call(fn, args, value), fn \notin {"extended_gcd", "chinese_remainder"}
      PROVE  Immediate
  BY <1>1, CallImmediate
<1>2. CASE CallOne
  BY <1>1, <1>2 DEF CallOne
<1>3. CASE CallTwo
  <2>1. NoCall
    BY <1>3 DEF CallTwo
  <2>2. PICK m \in Longs, n \in Longs :
          \/ Call("gcd", <<m, n>>, gcd(m, n))
          \/ Call("arecoprime", <<m, n>>, arecoprime(m, n))
          \/ Call("lcm", <<m, n>>, lcm(m, n))
          \/ extended_gcd(m, n)
    BY <1>3 DEF CallTwo
  <2>3. m \in Int /\ n \in Int
    BY DMathAssumption
  <2> QED BY <1>1, <2>1, <2>2, <2>3
<1>4. CASE CallBase
  <2>1. NoCall
    BY <1>4 DEF CallBase
  <2>2. PICK base \in Bases, n \in Longs :
          \/ Call("is_power_of", <<base, n>>, is_power_of(base, n))
          \/ Call("dmath_ilogb", <<base, n>>, dmath_ilogb(base, n))
          \/ basestring_from_long(base, n)
          \/ Call("is_happy", <<base, n>>, is_happy(base, n))
    BY <1>4 DEF CallBase
  <2>3. CASE basestring_from_long(base, n)
    <3>1. Ask("basestring_from_long", <<base, n>>) /\ UNCHANGED <<pc, locals, equations>>
      BY <2>3 DEF basestring_from_long
    <3>2. "basestring_from_long" \notin {"extended_gcd", "chinese_remainder"}
      OBVIOUS
    <3> QED BY ONLY <2>1, <3>1, <3>2, Zenon DEF Immediate
  <2> QED BY <1>1, <2>1, <2>2, <2>3
<1>5. CASE CallModular
  BY <1>1, <1>5 DEF CallModular
<1>6. CASE CallSystem
  <2>1. NoCall
    BY <1>6 DEF CallSystem
  <2>2. PICK n \in 0 .. MaxEquations : \E ms \in [1 .. n -> Moduli] :
          \/ Call("arecoprime_pairwise", <<ms>>, arecoprime_pairwise(ms))
          \/ \E xs \in [1 .. n -> Remainders] : chinese_remainder(xs, ms)
    BY <1>6 DEF CallSystem
  <2>3. PICK ms \in [1 .. n -> Moduli] :
          \/ Call("arecoprime_pairwise", <<ms>>, arecoprime_pairwise(ms))
          \/ \E xs \in [1 .. n -> Remainders] : chinese_remainder(xs, ms)
    BY <2>2
  <2>4. n \in Nat
    BY DMathAssumption
  <2>5. ASSUME NEW xs \in [1 .. n -> Remainders], chinese_remainder(xs, ms)
        PROVE  /\ NoCall
               /\ \E k \in Nat : \E zs \in [1 .. k -> Remainders], ns \in [1 .. k -> Moduli] : chinese_remainder(zs, ns)
    BY <2>1, <2>4, <2>5, Zenon
  <2> QED BY <1>1, <2>1, <2>3, <2>5
<1> QED BY <1>2, <1>3, <1>4, <1>5, <1>6 DEF Next, Running

\* The factors extended_gcd starts with are those of its own arguments.
LEMMA EnterFactors ==
  ASSUME NEW m \in Int, NEW n \in Int, n # 0, Enter(m, n)
  PROVE  /\ a' \in Int /\ b' \in Int /\ s' \in Int /\ t' \in Int
         /\ sprev' \in Int /\ tprev' \in Int /\ a0' \in Int /\ b0' \in Int
         /\ pc' = "extended_gcd" /\ b' # 0 /\ a0' = m /\ b0' = n
         /\ s' * a0' + t' * b0' = b' /\ sprev' * a0' + tprev' * b0' = a'
BY SMT DEF Enter

\* Calls that answer at once leave extended_gcd and chinese_remainder alone.
LEMMA ImmediateKeeps ==
  ASSUME IInv, Immediate
  PROVE  IInv'
<1>1. asked'.fn \notin {"extended_gcd", "chinese_remainder"} /\ pc' = "idle"
      /\ UNCHANGED <<a, b, s, t, sprev, tprev, a0, b0, sm, nm, y>>
  BY DEF Immediate, Ask, NoCall, locals, equations
<1> QED
  BY <1>1 DEF IInv, Numbers, Callers, Nonzero, Factors, Returned

LEMMA ExtendedGcdKeeps ==
  ASSUME IInv, NoCall, NEW m \in Int, NEW n \in Int, extended_gcd(m, n)
  PROVE  IInv'
<1>1. asked' = [fn |-> "extended_gcd", args |-> <<m, n>>]
  BY DEF extended_gcd, Ask
<1>2. CASE m = 0 \/ n = 0
  <2>1. answer' = -EDOM /\ s' = 0 /\ t' = 0 /\ pc' = "idle"
        /\ UNCHANGED <<a, b, sprev, tprev, a0, b0, sm, nm, y>>
    BY <1>2 DEF extended_gcd, NoCall, equations
  <2>2. Numbers'
    BY <2>1 DEF IInv, Numbers
  <2> QED
    BY <2>1, <2>2 DEF IInv, Callers, Nonzero, Factors, Returned
<1>3. CASE ~(m = 0 \/ n = 0)
  <2>1. Enter(m, n) /\ UNCHANGED <<answer, sm, nm, y>>
    BY <1>3 DEF extended_gcd, equations
  <2>2. /\ a' \in Int /\ b' \in Int /\ s' \in Int /\ t' \in Int
         /\ sprev' \in Int /\ tprev' \in Int /\ a0' \in Int /\ b0' \in Int
        /\ pc' = "extended_gcd" /\ b' # 0 /\ a0' = m /\ b0' = n
        /\ s' * a0' + t' * b0' = b' /\ sprev' * a0' + tprev' * b0' = a'
    BY <1>3, <2>1, EnterFactors
  <2>3. Numbers'
    BY <2>1, <2>2 DEF IInv, Numbers
  <2>4. answer' = NULL
    BY <2>1 DEF NoCall
  <2>5. Callers' /\ Nonzero' /\ Factors'
    BY <1>1, <2>2, <2>4 DEF Callers, Nonzero, Factors
  <2>6. Returned'
    BY <2>4 DEF Returned, Answered
  <2> QED
    BY <2>3, <2>5, <2>6 DEF IInv
<1> QED
  BY <1>2, <1>3

LEMMA ChineseRemainderKeeps ==
  ASSUME IInv, NoCall, NEW n \in Nat, NEW as, NEW ms \in [1 .. n -> Moduli], chinese_remainder(as, ms)
  PROVE  IInv'
<1>1. asked' = [fn |-> "chinese_remainder", args |-> <<as, ms>>]
  BY DEF chinese_remainder, Ask
<1>2. UNCHANGED <<a, b, s, t, sprev, tprev, a0, b0, sm, nm, y>>
  BY DEF chinese_remainder, locals, equations
<1>3. \/ pc' = "idle"
      \/ pc' = "product" /\ answer' = NULL /\ \A i \in DOMAIN ms : ms[i] # 0
  BY DEF chinese_remainder, NoCall
<1>4. Numbers'
  BY <1>2 DEF IInv, Numbers
<1>5. pc' = "product" => ms \in Seq(Int \ {0})
  <2>1. ms \in [1 .. n -> Int] /\ DOMAIN ms = 1 .. n
    BY DMathAssumption
  <2>2. (\A i \in DOMAIN ms : ms[i] # 0) => ms \in [1 .. n -> Int \ {0}]
    BY <2>1
  <2> QED
    BY <1>3, <2>2, SeqDef
<1>6. Callers' /\ Nonzero' /\ Factors' /\ Returned'
  BY <1>1, <1>3, <1>5 DEF Callers, Nonzero, Factors, Returned
<1> QED
  BY <1>4, <1>6 DEF IInv

LEMMA RoundKeeps ==
  ASSUME IInv, Round
  PROVE  IInv'
<1>1. pc = "extended_gcd" /\ b # 0 /\ Numbers
  BY DEF Round, IInv, Factors
<1>2. Quot(a, b) \in Int /\ Rem(a, b) \in Int
  BY <1>1, QuotInt, RemInt DEF Numbers
<1>3. Numbers'
  <2>1. a' \in Int /\ b' \in Int
        /\ sprev' \in Int /\ tprev' \in Int /\ a0' \in Int /\ b0' \in Int /\ sm' \in Int /\ nm' \in Nat /\ y' \in Seq(Int)
    BY <1>1, <1>2 DEF Round, Numbers, equations
  <2>2. s' \in Int /\ t' \in Int
    BY <1>1, <1>2, SMT DEF Round, Numbers
  <2> QED
    BY <2>1, <2>2 DEF Numbers
<1>4. Callers' /\ Nonzero' /\ Returned'
  BY <1>1 DEF IInv, Callers, Nonzero, Returned, Answered, Round, equations
<1>5. Factors'
  <2>1. s' * a0' + t' * b0' = (sprev * a0 + tprev * b0) - (s * a0 + t * b0) * Quot(a, b)
    <3>1. (sprev - s * Quot(a, b)) * a0 + (tprev - t * Quot(a, b)) * b0 =
            (sprev * a0 + tprev * b0) - (s * a0 + t * b0) * Quot(a, b)
      BY <1>1, <1>2, RoundFactors DEF Numbers
    <3>2. /\ s' = sprev - s * Quot(a, b) /\ t' = tprev - t * Quot(a, b)
          /\ a0' = a0 /\ b0' = b0
      BY DEF Round
    <3> QED
      BY <3>1, <3>2
  <2>2. s' * a0' + t' * b0' = b'
    BY <1>1, <2>1 DEF IInv, Factors, Round, Rem
  <2>3. sprev' * a0' + tprev' * b0' = a' /\ b' # 0
    BY <1>1 DEF IInv, Factors, Round
  <2> QED
    BY <1>1, <2>2, <2>3 DEF IInv, Factors, Round
<1> QED
  BY <1>3, <1>4, <1>5 DEF IInv

\* The last factors, with their signs turned when the divisor is negative.
LEMMA LastFactors ==
  ASSUME IInv, RoundsEnd
  PROVE  s' \in Int /\ t' \in Int /\ s' * a0 + t' * b0 = Abs(b)
<1>1. pc = "extended_gcd" /\ b # 0 /\ Numbers /\ s * a0 + t * b0 = b
  BY DEF RoundsEnd, IInv, Factors
<1>2. s' \in Int /\ t' \in Int
  BY <1>1, SMT DEF RoundsEnd, Numbers
<1>3. CASE b < 0
  <2>1. s' = -s /\ t' = -t /\ Abs(b) = -b
    BY <1>1, <1>3 DEF RoundsEnd, Abs
  <2>2. \A f, g, A, B \in Int : (-f) * A + (-g) * B = -(f * A + g * B)
    BY SMT
  <2> QED BY <1>1, <1>2, <2>1, <2>2 DEF Numbers
<1>4. CASE ~(b < 0)
  BY <1>1, <1>2, <1>4 DEF RoundsEnd, Abs
<1> QED BY <1>3, <1>4

LEMMA RoundsEndKeeps ==
  ASSUME IInv, RoundsEnd
  PROVE  IInv'
<1>1. pc = "extended_gcd" /\ b # 0 /\ Numbers /\ s * a0 + t * b0 = b
  BY DEF RoundsEnd, IInv, Factors
<1>2. s' \in Int /\ t' \in Int /\ b' \in Int /\ b' = Abs(b)
  BY <1>1, SMT DEF RoundsEnd, Numbers, Abs
<1>3. s' * a0 + t' * b0 = Abs(b)
  BY LastFactors
<1>4. UNCHANGED <<asked, a, sprev, tprev, a0, b0, sm, nm>>
  BY DEF RoundsEnd
<1>5. CASE asked.fn = "extended_gcd"
  <2>1. pc' = "idle" /\ answer' = Abs(b) /\ y' = y
    BY <1>5 DEF RoundsEnd
  <2>2. asked.args = <<a0, b0>>
    BY <1>1, <1>5 DEF IInv, Factors
  <2> QED
    BY <1>1, <1>2, <1>3, <1>4, <2>1, <2>2
    DEF IInv, Numbers, Callers, Nonzero, Factors, Returned
<1>6. CASE asked.fn # "extended_gcd"
  <2>1. asked.fn = "chinese_remainder" /\ answer = NULL
    BY <1>1, <1>6 DEF IInv, Callers
  <2>2. Found
    BY <1>6 DEF RoundsEnd
  <2>3. y' \in Seq(Int)
    BY <1>1, <1>2, <2>2, AppendProperties DEF Found, Numbers
  <2>4. \/ pc' = "inverses" /\ answer' = NULL
        \/ pc' = "idle"
    BY <2>1, <2>2 DEF Found
  <2>5. Numbers'
    BY <1>1, <1>2, <1>4, <2>3 DEF Numbers
  <2>6. Callers' /\ Nonzero' /\ Factors' /\ Returned'
    BY <1>1, <1>4, <2>1, <2>4 DEF IInv, Callers, Nonzero, Factors, Returned
  <2> QED
    BY <2>5, <2>6 DEF IInv
<1> QED
  BY <1>5, <1>6

LEMMA MultiplyKeeps ==
  ASSUME IInv, Multiply
  PROVE  IInv'
<1>1. pc = "product" /\ asked.args[2] \in Seq(Int \ {0}) /\ Numbers
  BY DEF Multiply, IInv, Callers, Nonzero
<1>2. sm' \in Int /\ nm' \in Nat
  <2>1. CASE nm < Len(asked.args[2])
    <3>1. nm + 1 \in 1 .. Len(asked.args[2])
      BY <1>1, <2>1, LenProperties DEF Numbers
    <3>2. asked.args[2][nm + 1] \in Int
      BY <1>1, <3>1, ElementOfSeq
    <3>3. sm * asked.args[2][nm + 1] \in Int
      BY <1>1, <3>2 DEF Numbers
    <3> QED
      <4>1. ToLong(sm * asked.args[2][nm + 1]) \in Int
        BY <3>3, ToLongInt
      <4>2. sm' = ToLong(sm * asked.args[2][nm + 1]) /\ nm' = nm + 1
        BY <2>1 DEF Multiply
      <4> QED
        BY <1>1, <4>1, <4>2 DEF Numbers
  <2>2. CASE ~(nm < Len(asked.args[2]))
    BY <1>1, <2>2 DEF Multiply, Numbers
  <2> QED
    BY <2>1, <2>2
<1>3. UNCHANGED <<asked, answer, a, b, s, t, sprev, tprev, a0, b0, y>> /\ pc' \in {"product", "inverses"}
  BY <1>1 DEF Multiply, locals
<1>4. Numbers'
  BY <1>1, <1>2, <1>3 DEF Numbers
<1>5. Callers' /\ Nonzero' /\ Factors' /\ Returned'
  BY <1>1, <1>3 DEF IInv, Callers, Nonzero, Factors, Returned, Answered
<1> QED
  BY <1>4, <1>5 DEF IInv

LEMMA FindInverseKeeps ==
  ASSUME IInv, FindInverse
  PROVE  IInv'
<1> DEFINE i == Len(y) + 1
<1>1. pc = "inverses" /\ asked.fn = "chinese_remainder" /\ answer = NULL
      /\ asked.args[2] \in Seq(Int \ {0}) /\ Numbers
  BY DEF FindInverse, IInv, Callers, Nonzero
<1>2. asked.args[2][i] \in Int \ {0}
  <2>1. i \in 1 .. Len(asked.args[2])
    BY <1>1, LenProperties DEF FindInverse, Numbers
  <2> QED
    BY <1>1, <2>1, ElementOfSeq
<1>3. M(i) \in Int
  BY <1>1, <1>2, QuotInt DEF M, Numbers
<1>4. UNCHANGED <<asked, sm, nm, y>>
  BY DEF FindInverse, equations
<1>5. CASE M(i) = 0
  BY <1>1, <1>4, <1>5 DEF FindInverse, IInv, Numbers, Callers, Nonzero, Factors, Returned, locals
<1>6. CASE M(i) # 0
  <2>1. Enter(M(i), asked.args[2][i]) /\ answer' = answer
    BY <1>6 DEF FindInverse
  <2>2. /\ a' \in Int /\ b' \in Int /\ s' \in Int /\ t' \in Int
         /\ sprev' \in Int /\ tprev' \in Int /\ a0' \in Int /\ b0' \in Int
        /\ pc' = "extended_gcd" /\ b' # 0
        /\ s' * a0' + t' * b0' = b' /\ sprev' * a0' + tprev' * b0' = a'
    BY <1>2, <1>3, <2>1, EnterFactors
  <2>3. Numbers'
    BY <1>1, <1>4, <2>2 DEF Numbers
  <2>4. Callers' /\ Nonzero' /\ Factors' /\ Returned'
    BY <1>1, <1>4, <2>1, <2>2 DEF IInv, Callers, Nonzero, Factors, Returned
  <2> QED
    BY <2>3, <2>4 DEF IInv
<1> QED
  BY <1>5, <1>6

LEMMA CombineKeeps ==
  ASSUME IInv, Combine
  PROVE  IInv'
<1>1. pc = "inverses" /\ asked.fn = "chinese_remainder"
  BY DEF Combine, IInv, Callers
<1>2. pc' = "idle" /\ UNCHANGED <<asked, a, b, s, t, sprev, tprev, a0, b0, sm, nm, y>>
  BY DEF Combine, locals, equations
<1> QED
  BY <1>1, <1>2 DEF IInv, Numbers, Callers, Nonzero, Factors, Returned

LEMMA ForgetKeeps ==
  ASSUME IInv, Forget
  PROVE  IInv'
<1>1. pc' = "idle" /\ ~Answered'
  BY DEF Forget, Answered, IInv, Callers
<1>2. Numbers'
  BY EmptySeq DEF Forget, Numbers
<1> QED
  BY <1>1, <1>2 DEF IInv, Callers, Nonzero, Factors, Returned

LEMMA InvariantKept ==
  ASSUME IInv, [Next]_vars
  PROVE  IInv'
<1>1. CASE Immediate
  BY <1>1, ImmediateKeeps
<1>2. CASE NoCall /\ \E m, n \in Int : extended_gcd(m, n)
  BY <1>2, ExtendedGcdKeeps
<1>3. CASE NoCall /\ \E n \in Nat : \E xs \in [1 .. n -> Remainders], ms \in [1 .. n -> Moduli] :
             chinese_remainder(xs, ms)
  BY <1>3, ChineseRemainderKeeps
<1>4. CASE UNCHANGED vars
  BY <1>4 DEF vars, locals, equations, IInv, Numbers, Callers, Nonzero, Factors, Returned, Answered
<1> QED
  BY <1>1, <1>2, <1>3, <1>4, Steps,
     RoundKeeps, RoundsEndKeeps, MultiplyKeeps, FindInverseKeeps, CombineKeeps, ForgetKeeps

\* extended_gcd, dmath.c:139: for all longs, s * a + t * b is the remainder at
\* hand in every round and the divisor that is returned.
THEOREM BezoutIdentity == Spec => []Bezout
<1>1. Init => IInv
  BY EmptySeq DEF Init, IInv, Numbers, Callers, Nonzero, Factors, Returned, Answered
<1>2. IInv /\ [Next]_vars => IInv'
  BY InvariantKept
<1>3. IInv => Bezout
  BY DEF IInv, Factors, Returned, Bezout
<1> QED
  BY <1>1, <1>2, <1>3, PTL DEF Spec
-----------------------------------------------------------------------------
(***************************************************************************)
(* Induction and recursion over the naturals.                              *)
(***************************************************************************)
\* A set of naturals has a least one.
LEMMA LeastNatural ==
  ASSUME NEW T, T \subseteq Nat, T # {}
  PROVE  \E x \in T : \A z \in T : x <= z
<1> DEFINE below(n) == 1 .. n
           S == {below(n) : n \in T}
<1>1. IsWellFoundedOn(StrictSubsetOrdering(Nat), FiniteSubsetsOf(Nat))
  BY FS_StrictSubsetOrderingWellFounded
<1>2. S \subseteq FiniteSubsetsOf(Nat) /\ S # {}
  <2>1. \A n \in T : below(n) \subseteq Nat /\ IsFiniteSet(below(n))
    BY FS_Interval
  <2> QED BY <2>1 DEF FiniteSubsetsOf
<1>3. PICK i \in S : \A r \in S : <<r, i>> \notin StrictSubsetOrdering(Nat)
  <2> HIDE DEF S
  <2> QED BY <1>1, <1>2, WFMin
<1>4. PICK x \in T : i = below(x)
  OBVIOUS
<1>5. ASSUME NEW z \in T, z < x PROVE FALSE
  <2>1. <<below(z), below(x)>> \notin StrictSubsetOrdering(Nat)
    BY <1>3, <1>4
  <2>2. below(z) \subseteq below(x) /\ below(z) # below(x) /\ below(z) \subseteq Nat /\ below(x) \subseteq Nat
    <3>1. x \in below(x) /\ x \notin below(z) /\ x \in Nat /\ z \in Nat
      BY <1>5
    <3> QED BY <3>1, <1>5
  <2> QED BY <2>1, <2>2 DEF StrictSubsetOrdering
<1> QED BY <1>5

\* Induction over the naturals, for the members of a set.
LEMMA SetInduction ==
  ASSUME NEW S, \A n \in Nat : (\A k \in 0 .. n - 1 : k \in S) => n \in S
  PROVE  Nat \subseteq S
<1> SUFFICES ASSUME Nat \ S # {} PROVE FALSE
  OBVIOUS
<1>1. PICK x \in Nat \ S : \A z \in Nat \ S : x <= z
  BY LeastNatural
<1>2. \A k \in 0 .. x - 1 : k \in S
  BY <1>1
<1> QED BY <1>1, <1>2

(***************************************************************************)
(* A function on the naturals whose value at n depends on its values below *)
(* n exists.                                                               *)
(***************************************************************************)
Descends(S, def) ==
  /\ def \in [Nat \X [Nat -> S] -> S]
  /\ \A n \in Nat, g, h \in [Nat -> S] :
       (\A k \in 0 .. n - 1 : g[k] = h[k]) => def[<<n, g>>] = def[<<n, h>>]

Descent(S, def, f) == f \in [Nat -> S] /\ \A n \in Nat : f[n] = def[<<n, f>>]

LEMMA RecursionUnique ==
  ASSUME NEW S, NEW def, Descends(S, def), NEW n \in Nat, NEW g \in [Nat -> S], NEW h \in [Nat -> S],
         \A k \in 0 .. n : g[k] = def[<<k, g>>], \A k \in 0 .. n : h[k] = def[<<k, h>>]
  PROVE  \A k \in 0 .. n : g[k] = h[k]
<1> DEFINE Q == {k \in Nat : k <= n => g[k] = h[k]}
<1>1. ASSUME NEW m \in Nat, \A k \in 0 .. m - 1 : k \in Q PROVE m \in Q
  <2> SUFFICES ASSUME m <= n PROVE g[m] = h[m]
    OBVIOUS
  <2>1. \A k \in 0 .. m - 1 : g[k] = h[k]
    BY <1>1
  <2>2. def[<<m, g>>] = def[<<m, h>>]
    BY <2>1 DEF Descends
  <2> QED BY <2>2
<1>2. Nat \subseteq Q
  <2> HIDE DEF Q
  <2> QED BY <1>1, SetInduction
<1> QED BY <1>2

LEMMA RecursionExists ==
  ASSUME NEW S, S # {}, NEW def, Descends(S, def)
  PROVE  \E f : Descent(S, def, f)
<1> DEFINE Ok(n) == {g \in [Nat -> S] : \A k \in 0 .. n : g[k] = def[<<k, g>>]}
           Q == {n \in Nat : Ok(n) # {}}
<1>1. ASSUME NEW n \in Nat, \A k \in 0 .. n - 1 : k \in Q PROVE n \in Q
  <2>1. PICK g \in [Nat -> S] : \A k \in 0 .. n - 1 : g[k] = def[<<k, g>>]
    <3>1. CASE n = 0
      <4>1. PICK c \in S : TRUE
        OBVIOUS
      <4>2. [k \in Nat |-> c] \in [Nat -> S]
        OBVIOUS
      <4>3. \A k \in 0 .. n - 1 : FALSE
        BY <3>1
      <4> QED BY <4>2, <4>3
    <3>2. CASE n # 0
      <4>1. n - 1 \in 0 .. n - 1
        BY <3>2
      <4> QED BY <1>1, <4>1
    <3> QED BY <3>1, <3>2
  <2>2. PICK h : h = [g EXCEPT ![n] = def[<<n, g>>]]
    OBVIOUS
  <2>3. def[<<n, g>>] \in S
    BY DEF Descends
  <2>4. h \in [Nat -> S] /\ h[n] = def[<<n, g>>] /\ \A k \in 0 .. n - 1 : h[k] = g[k]
    BY <2>2, <2>3
  <2>5. \A k \in 0 .. n : def[<<k, h>>] = def[<<k, g>>]
    <3> SUFFICES ASSUME NEW k \in 0 .. n PROVE def[<<k, h>>] = def[<<k, g>>]
      OBVIOUS
    <3>1. \A j \in 0 .. k - 1 : h[j] = g[j]
      BY <2>4
    <3>2. k \in Nat /\ h \in [Nat -> S] /\ g \in [Nat -> S]
      BY <2>4
    <3> QED BY <3>1, <3>2 DEF Descends
  <2>6. \A k \in 0 .. n : h[k] = def[<<k, g>>]
    <3>1. \A k \in 0 .. n : k = n \/ k \in 0 .. n - 1
      OBVIOUS
    <3> QED BY <2>1, <2>4, <3>1
  <2>7. h \in Ok(n)
    BY <2>4, <2>5, <2>6
  <2> QED BY <2>7
<1>2. Nat \subseteq Q
  <2> HIDE DEF Q
  <2> QED BY <1>1, SetInduction
<1> DEFINE pick == [n \in Nat |-> CHOOSE g \in Ok(n) : TRUE]
           f == [n \in Nat |-> pick[n][n]]
<1>3. \A n \in Nat : pick[n] \in Ok(n)
  BY <1>2
<1>4. \A n \in Nat : /\ pick[n] \in [Nat -> S]
                     /\ \A k \in 0 .. n : pick[n][k] = def[<<k, pick[n]>>]
  BY <1>3
<1> HIDE DEF pick, Ok, Q
<1>5. f \in [Nat -> S]
  BY <1>4
<1>6. ASSUME NEW n \in Nat PROVE f[n] = def[<<n, f>>]
  <2>1. ASSUME NEW k \in 0 .. n - 1 PROVE f[k] = pick[n][k]
    <3>1. k \in Nat /\ f[k] = pick[k][k]
      OBVIOUS
    <3>2. \A j \in 0 .. k : pick[n][j] = def[<<j, pick[n]>>]
      BY <1>4
    <3>3. pick[n] \in [Nat -> S] /\ pick[k] \in [Nat -> S] /\ \A j \in 0 .. k : pick[k][j] = def[<<j, pick[k]>>]
      BY <1>4, <3>1
    <3>4. \A j \in 0 .. k : pick[k][j] = pick[n][j]
      BY <3>1, <3>2, <3>3, RecursionUnique
    <3> QED BY <3>1, <3>4
  <2>2. def[<<n, f>>] = def[<<n, pick[n]>>]
    <3> HIDE DEF f
    <3> QED BY <1>4, <1>5, <2>1 DEF Descends
  <2>3. f[n] = pick[n][n] /\ pick[n][n] = def[<<n, pick[n]>>]
    BY <1>4
  <2> QED BY <2>2, <2>3
<1>7. Descent(S, def, f)
  <2> HIDE DEF f
  <2> QED BY <1>5, <1>6 DEF Descent
<1> QED BY <1>7
-----------------------------------------------------------------------------
(***************************************************************************)
(* Division, roots and primes.                                             *)
(***************************************************************************)
LEMMA Products ==
  ASSUME NEW m \in Nat, NEW n \in Nat, NEW k \in Nat, NEW l \in Nat, m <= k, n <= l
  PROVE  m * n <= k * l /\ m * n \in Nat /\ k * l \in Nat
<1>1. m * n \in Nat /\ k * l \in Nat /\ k * n \in Nat
  BY SMT
<1>2. m * n <= k * n
  BY SMT
<1>3. k * n <= k * l
  BY SMT
<1> QED BY <1>1, <1>2, <1>3

LEMMA Divisor ==
  ASSUME NEW m \in Nat, NEW d \in Nat \ {0}
  PROVE  m % d = 0 <=> \E q \in Nat : m = d * q
<1>1. m = d * (m \div d) + (m % d) /\ m \div d \in Nat /\ m % d \in 0 .. d - 1
  BY SMT
<1>2. ASSUME NEW q \in Nat, m = d * q PROVE m % d = 0
  <2>1. (m \div d) < q \/ (m \div d) = q \/ (m \div d) > q
    BY <1>1
  <2>2. d * (q - (m \div d)) = m % d
    BY <1>1, <1>2, SMT
  <2>3. CASE q - (m \div d) >= 1
    <3>1. \A x \in Nat : x >= 1 => d * x >= d
      BY SMT
    <3> QED BY <1>1, <2>2, <2>3, <3>1
  <2>4. CASE q - (m \div d) <= -1
    <3>1. \A x \in Int : x <= -1 => d * x < 0
      BY SMT
    <3> QED BY <1>1, <2>2, <2>4, <3>1
  <2>5. CASE q - (m \div d) = 0
    BY <2>2, <2>5, SMT
  <2> QED BY <1>1, <2>3, <2>4, <2>5
<1>3. ASSUME m % d = 0 PROVE m = d * (m \div d)
  <2>1. d * (m \div d) \in Int
    BY <1>1, SMT
  <2> QED BY <1>1, <1>3, <2>1
<1> QED
  <2>1. m % d = 0 => \E q \in Nat : m = d * q
    BY <1>1, <1>3, Zenon
  <2>2. (\E q \in Nat : m = d * q) => m % d = 0
    BY <1>2, Zenon
  <2> QED BY <2>1, <2>2

LEMMA RootRight ==
  ASSUME NEW n \in Nat
  PROVE  /\ Root(n) \in 0 .. n /\ Root(n) * Root(n) <= n /\ n < (Root(n) + 1) * (Root(n) + 1)
         /\ n >= 2 => Root(n) \in 1 .. n - 1
         /\ n >= 3 => Root(n) + 1 < n
<1> DEFINE T == {r \in Nat : n < (r + 1) * (r + 1)}
<1>1. n \in T
  <2>1. n < (n + 1) * (n + 1)
    BY SMT
  <2> QED BY <2>1
<1>2. PICK r \in T : \A z \in T : r <= z
  <2>1. T # {} /\ T \subseteq Nat
    BY <1>1
  <2> HIDE DEF T
  <2> QED BY <2>1, LeastNatural
<1>3. r \in Nat /\ n < (r + 1) * (r + 1)
  OBVIOUS
<1>4. r * r <= n
  <2>1. CASE r = 0
    BY <2>1
  <2>2. CASE r # 0
    <3>1. r - 1 \in Nat /\ r - 1 \notin T
      BY <1>2, <2>2
    <3>2. ~(n < ((r - 1) + 1) * ((r - 1) + 1))
      BY <3>1
    <3>3. (r - 1) + 1 = r /\ r * r \in Nat
      BY SMT
    <3> QED BY <3>2, <3>3
  <2> QED BY <2>1, <2>2
<1>5. r <= r * r
  BY SMT
<1>6. r \in 0 .. n
  BY <1>3, <1>4, <1>5, SMT
<1>7. Root(n) \in 0 .. n /\ Root(n) * Root(n) <= n /\ n < (Root(n) + 1) * (Root(n) + 1)
  <2> HIDE DEF T
  <2> QED BY <1>3, <1>4, <1>6 DEF Root
<1> DEFINE q == Root(n)
<1>8. q = 0 => (q + 1) * (q + 1) = 1
  BY SMT
<1>9. q >= 2 => q + q <= q * q
  BY <1>7, SMT
<1>10. q \in Nat /\ q * q \in Nat /\ q <= n /\ q * q <= n /\ n < (q + 1) * (q + 1)
  BY <1>7, SMT
<1> HIDE DEF q
<1>11. n >= 2 => q >= 1
  BY <1>8, <1>10
<1>12. n >= 3 => q + 1 < n
  BY <1>9, <1>10
<1>13. n >= 2 => q < n
  BY <1>9, <1>10
<1> QED BY <1>7, <1>10, <1>11, <1>12, <1>13 DEF q

\* A prime has no divisor but itself, however large.
LEMMA PrimeUndivided ==
  ASSUME NEW n \in Nat, isprime(n), NEW d \in 2 .. n - 1
  PROVE  n % d # 0
<1> SUFFICES ASSUME n % d = 0 PROVE FALSE
  OBVIOUS
<1>1. n >= 2 /\ \A i \in 2 .. Root(n) : n % i # 0
  BY DEF isprime
<1>2. PICK q \in Nat : n = d * q
  <2>1. d \in Nat \ {0}
    OBVIOUS
  <2> QED BY <2>1, Divisor
<1>3. q >= 2
  <2>1. q # 0 /\ q # 1
    BY <1>1, <1>2, SMT
  <2> QED BY <2>1
<1>4. n % q = 0
  <2>1. n = q * d
    BY <1>2, SMT
  <2> QED BY <1>3, <2>1, Divisor
<1>5. d > Root(n) /\ q > Root(n)
  <2>1. ~(d \in 2 .. Root(n)) /\ ~(q \in 2 .. Root(n))
    BY <1>1, <1>4
  <2>2. Root(n) \in Nat
    BY RootRight
  <2> QED BY <1>3, <2>1, <2>2
<1>6. Root(n) \in Nat /\ n < (Root(n) + 1) * (Root(n) + 1)
  BY RootRight
<1>7. (Root(n) + 1) * (Root(n) + 1) <= d * q
  <2>1. Root(n) + 1 \in Nat /\ Root(n) + 1 <= d /\ Root(n) + 1 <= q
    BY <1>5, <1>6
  <2> QED BY <2>1, Products
<1>8. (Root(n) + 1) * (Root(n) + 1) \in Nat /\ d * q \in Nat
  BY <1>6, SMT
<1> QED BY <1>2, <1>6, <1>7, <1>8

\* The least divisor of a number that is not prime is a prime up to its root.
LEMMA PrimeDivisor ==
  ASSUME NEW n \in Nat, n >= 2, ~isprime(n)
  PROVE  \E p \in 2 .. Root(n) : isprime(p) /\ n % p = 0
<1> DEFINE T == {i \in 2 .. Root(n) : n % i = 0}
<1>1. T # {} /\ T \subseteq Nat
  <2>1. \A i \in 2 .. Root(n) : i \in Nat
    BY RootRight
  <2> QED BY <2>1 DEF isprime
<1>2. PICK p \in T : \A i \in T : p <= i
  <2> HIDE DEF T
  <2> QED BY <1>1, LeastNatural
<1>3. p \in Nat /\ p >= 2 /\ p <= Root(n) /\ n % p = 0 /\ Root(n) \in Nat
  BY <1>1, RootRight
<1>4. ASSUME ~isprime(p) PROVE FALSE
  <2>1. PICK j \in 2 .. Root(p) : p % j = 0
    BY <1>3, <1>4 DEF isprime
  <2>2. Root(p) < p /\ Root(p) \in Nat
    BY <1>3, RootRight
  <2>3. j \in Nat \ {0} /\ j < p /\ j >= 2
    BY <1>3, <2>2
  <2>4. PICK k \in Nat : p = j * k
    BY <1>3, <2>1, <2>3, Divisor
  <2>5. PICK l \in Nat : n = p * l
    BY <1>3, Divisor
  <2>6. n = j * (k * l) /\ k * l \in Nat
    BY <2>3, <2>4, <2>5, SMT
  <2>7. n % j = 0
    BY <2>3, <2>6, Divisor
  <2>8. j \in T
    BY <1>3, <2>3, <2>7
  <2> QED BY <1>2, <1>3, <2>3, <2>8
<1> QED BY <1>3, <1>4

\* isprime, dmath.c:262: trying the numbers up to the root finds every divisor.
THEOREM IsprimeIsRight ==
  \A n \in Nat : isprime(n) <=> n >= 2 /\ \A d \in 2 .. n - 1 : n % d # 0
<1> SUFFICES ASSUME NEW n \in Nat PROVE isprime(n) <=> n >= 2 /\ \A d \in 2 .. n - 1 : n % d # 0
  OBVIOUS
<1>1. isprime(n) => n >= 2 /\ \A d \in 2 .. n - 1 : n % d # 0
  BY PrimeUndivided DEF isprime
<1>2. ASSUME n >= 2, \A d \in 2 .. n - 1 : n % d # 0 PROVE isprime(n)
  <2>1. Root(n) \in 1 .. n - 1
    BY <1>2, RootRight
  <2>2. \A d \in 2 .. Root(n) : d \in 2 .. n - 1
    BY <2>1
  <2> QED BY <1>2, <2>2 DEF isprime
<1> QED BY <1>1, <1>2

LEMMA TwoIsPrime == isprime(2)
<1>1. Root(2) \in 1 .. 1
  BY RootRight
<1> QED BY <1>1 DEF isprime
-----------------------------------------------------------------------------
(***************************************************************************)
(* The calls of isprime_cached to itself end: every one of them is for a   *)
(* number below its own, so the recursive functions that model the calls   *)
(* and the rounds of a call exist, and answer with a cache.                *)
(***************************************************************************)
Answering == [Cache -> Outcome]

Ended(n) == [cache \in Cache |-> [answer |-> 1, cache |-> Remember(cache, n)]]

\* A round that goes on with next.
RoundOf(n, call, i, next) == [cache \in Cache |->
  IF call[cache].answer = 1 /\ n % i = 0 THEN [answer |-> 0, cache |-> call[cache].cache]
  ELSE next[call[cache].cache]]

\* The function that Divides calls round.
Rounds(n, sqrtn, calls, f) ==
  f = [i \in Nat |-> [cache \in Cache |->
        IF i > sqrtn THEN [answer |-> 1, cache |-> Remember(cache, n)]
        ELSE LET call == calls[i][cache]
             IN IF call.answer = 1 /\ n % i = 0 THEN [answer |-> 0, cache |-> call.cache]
                ELSE f[i + 1][call.cache]]]

LEMMA CacheParts ==
  ASSUME NEW cache \in Cache
  PROVE  /\ cache \in Seq(Nat) /\ Len(cache) \in Nat /\ DOMAIN cache = 1 .. Len(cache)
         /\ \A i \in 1 .. Len(cache) : cache[i] \in Nat
         /\ cache # <<>> => Len(cache) >= 1 /\ cache[1] = 2 /\ Last(cache) \in Nat
<1>1. cache \in Seq(Nat) /\ (cache # <<>> => cache[1] = 2)
  BY DEF Cache
<1>2. Len(cache) \in Nat /\ DOMAIN cache = 1 .. Len(cache) /\ \A i \in 1 .. Len(cache) : cache[i] \in Nat
  BY <1>1, LenProperties, ElementOfSeq
<1>3. cache # <<>> => Len(cache) >= 1
  BY <1>1, <1>2, EmptySeq
<1> QED BY <1>1, <1>2, <1>3 DEF Last

LEMMA StartedParts ==
  ASSUME NEW cache \in Cache
  PROVE  Started(cache) \in Cache /\ Started(cache) # <<>> /\ Len(Started(cache)) >= 1
<1>1. <<2>> \in Seq(Nat) /\ <<2>> # <<>> /\ <<2>>[1] = 2
  OBVIOUS
<1>2. Started(cache) \in Cache /\ Started(cache) # <<>>
  BY <1>1 DEF Started, Cache
<1> QED BY <1>2, CacheParts

LEMMA RememberCache ==
  ASSUME NEW cache \in Cache, NEW n \in Nat
  PROVE  /\ Remember(cache, n) \in Cache
         /\ cache # <<>> => Remember(cache, n) # <<>>
<1>1. CASE Len(cache) \in 1 .. NPRIME - 1 /\ n > Last(cache)
  <2>1. /\ Append(cache, n) \in Seq(Nat) /\ Len(Append(cache, n)) = Len(cache) + 1
        /\ \A i \in 1 .. Len(cache) : Append(cache, n)[i] = cache[i]
    BY CacheParts, AppendProperties
  <2>2. 1 \in 1 .. Len(cache) /\ cache # <<>>
    BY <1>1, CacheParts, EmptySeq
  <2>3. Append(cache, n)[1] = 2
    BY <2>1, <2>2, CacheParts
  <2>4. Append(cache, n) # <<>>
    <3>1. Len(Append(cache, n)) >= 1
      BY <2>1, CacheParts
    <3>2. Len(<<>>) = 0
      BY EmptySeq
    <3> QED BY <3>1, <3>2
  <2> QED BY <1>1, <2>1, <2>3, <2>4 DEF Remember, Cache
<1>2. CASE ~(Len(cache) \in 1 .. NPRIME - 1 /\ n > Last(cache))
  BY <1>2 DEF Remember
<1> QED BY <1>1, <1>2

LEMMA RoundTypes ==
  ASSUME NEW n \in Nat
  PROVE  /\ Ended(n) \in Answering
         /\ \A call, next \in Answering, i \in Nat : RoundOf(n, call, i, next) \in Answering
<1>1. Ended(n) \in Answering
  BY RememberCache DEF Ended, Answering, Outcome
<1>2. ASSUME NEW call \in Answering, NEW next \in Answering, NEW i \in Nat
      PROVE  RoundOf(n, call, i, next) \in Answering
  <2>1. \A cache \in Cache : call[cache].cache \in Cache /\ next[call[cache].cache] \in Outcome
    BY DEF Answering, Outcome
  <2> QED BY <2>1 DEF RoundOf, Answering, Outcome
<1> QED BY <1>1, <1>2

LEMMA RoundsExist ==
  ASSUME NEW n \in Nat, NEW sqrtn \in Nat, NEW calls \in [Nat -> Answering]
  PROVE  \E f \in [Nat -> Answering] : Rounds(n, sqrtn, calls, f)
<1> DEFINE G == [p \in Nat \X [Nat -> Answering] |->
                   IF p[1] \in 1 .. sqrtn + 1
                     THEN RoundOf(n, calls[sqrtn + 1 - p[1]], sqrtn + 1 - p[1], p[2][p[1] - 1])
                     ELSE Ended(n)]
<1>1. \A m \in 1 .. sqrtn + 1 : sqrtn + 1 - m \in Nat /\ m - 1 \in Nat /\ m \in Nat
  OBVIOUS
<1>2. \A m \in Nat, g \in [Nat -> Answering] :
        G[<<m, g>>] = IF m \in 1 .. sqrtn + 1
                        THEN RoundOf(n, calls[sqrtn + 1 - m], sqrtn + 1 - m, g[m - 1]) ELSE Ended(n)
  OBVIOUS
<1>3. \A m \in Nat, g \in [Nat -> Answering] : G[<<m, g>>] \in Answering
  <2> HIDE DEF G
  <2> SUFFICES ASSUME NEW m \in Nat, NEW g \in [Nat -> Answering] PROVE G[<<m, g>>] \in Answering
    OBVIOUS
  <2>1. CASE m \in 1 .. sqrtn + 1
    <3>1. calls[sqrtn + 1 - m] \in Answering /\ g[m - 1] \in Answering /\ sqrtn + 1 - m \in Nat
      BY <1>1, <2>1
    <3>2. RoundOf(n, calls[sqrtn + 1 - m], sqrtn + 1 - m, g[m - 1]) \in Answering
      BY <3>1, RoundTypes
    <3> QED BY <1>2, <2>1, <3>2
  <2>2. CASE m \notin 1 .. sqrtn + 1
    BY <1>2, <2>2, RoundTypes
  <2> QED BY <2>1, <2>2
<1>4. G \in [Nat \X [Nat -> Answering] -> Answering]
  <2>1. \A p \in Nat \X [Nat -> Answering] : p = <<p[1], p[2]>> /\ p[1] \in Nat /\ p[2] \in [Nat -> Answering]
    OBVIOUS
  <2>2. \A p \in Nat \X [Nat -> Answering] : G[p] \in Answering
    <3> HIDE DEF G
    <3> QED BY <1>3, <2>1
  <2>3. DOMAIN G = Nat \X [Nat -> Answering] /\ G = [p \in DOMAIN G |-> G[p]]
    BY Zenon
  <2> HIDE DEF G
  <2> QED BY <2>2, <2>3
<1>5. Descends(Answering, G)
  <2> HIDE DEF G
  <2>1. ASSUME NEW m \in Nat, NEW g \in [Nat -> Answering], NEW h \in [Nat -> Answering],
               \A k \in 0 .. m - 1 : g[k] = h[k]
        PROVE  G[<<m, g>>] = G[<<m, h>>]
    <3>1. m \in 1 .. sqrtn + 1 => m - 1 \in 0 .. m - 1
      OBVIOUS
    <3>2. m \in 1 .. sqrtn + 1 => g[m - 1] = h[m - 1]
      BY <2>1, <3>1
    <3> QED BY <1>2, <3>2
  <2> QED BY <1>4, <2>1 DEF Descends
<1> HIDE DEF G
<1>6. PICK g \in [Nat -> Answering] : \A m \in Nat : g[m] = G[<<m, g>>]
  <2>1. Answering # {}
    BY RoundTypes
  <2>2. PICK g : Descent(Answering, G, g)
    BY <1>5, <2>1, RecursionExists
  <2> QED BY <2>2 DEF Descent
<1> DEFINE f == [i \in Nat |-> IF i > sqrtn THEN Ended(n) ELSE g[sqrtn + 1 - i]]
<1>7. f \in [Nat -> Answering]
  BY RoundTypes
<1>8. ASSUME NEW i \in Nat, i <= sqrtn PROVE f[i] = RoundOf(n, calls[i], i, f[i + 1])
  <2> DEFINE m == sqrtn + 1 - i
  <2>1. m \in 1 .. sqrtn + 1 /\ m \in Nat /\ sqrtn + 1 - m = i /\ m - 1 \in Nat /\ m - 1 = sqrtn + 1 - (i + 1)
    BY <1>8
  <2>2. f[i] = g[m]
    BY <1>8
  <2>3. f[i + 1] = g[m - 1]
    <3>1. CASE i = sqrtn
      <4>1. f[i + 1] = Ended(n)
        BY <3>1
      <4>2. m - 1 = 0 /\ 0 \notin 1 .. sqrtn + 1
        BY <3>1
      <4>3. g[0] = Ended(n)
        BY <1>2, <1>6, <4>2
      <4> HIDE DEF m, f
      <4> QED BY <4>1, <4>2, <4>3
    <3>2. CASE i < sqrtn
      BY <3>2, <2>1
    <3> QED BY <1>8, <3>1, <3>2
  <2> HIDE DEF m, f
  <2>4. g[m] = RoundOf(n, calls[sqrtn + 1 - m], sqrtn + 1 - m, g[m - 1])
    BY <1>2, <1>6, <2>1
  <2> QED BY <2>1, <2>2, <2>3, <2>4
<1>9. \A i \in Nat : i > sqrtn => f[i] = Ended(n)
  OBVIOUS
<1> HIDE DEF f
<1>10. f = [i \in Nat |-> f[i]]
  BY <1>7
<1>11. ASSUME NEW i \in Nat
       PROVE f[i] = [cache \in Cache |->
        IF i > sqrtn THEN [answer |-> 1, cache |-> Remember(cache, n)]
        ELSE LET call == calls[i][cache]
             IN IF call.answer = 1 /\ n % i = 0 THEN [answer |-> 0, cache |-> call.cache]
                ELSE f[i + 1][call.cache]]
  <2>1. CASE i > sqrtn
    BY <1>9, <2>1 DEF Ended
  <2>2. CASE ~(i > sqrtn)
    <3>1. i <= sqrtn
      BY <2>2
    <3>2. f[i] = RoundOf(n, calls[i], i, f[i + 1])
      BY <1>8, <3>1
    <3> QED BY <2>2, <3>2 DEF RoundOf
  <2> QED BY <2>1, <2>2
<1>12. Rounds(n, sqrtn, calls, f)
  BY <1>10, <1>11 DEF Rounds
<1> QED BY <1>7, <1>12

LEMMA RoundsUnique ==
  ASSUME NEW n \in Nat, NEW sqrtn \in Nat, NEW calls \in [Nat -> Answering],
         NEW f \in [Nat -> Answering], Rounds(n, sqrtn, calls, f),
         NEW g, NEW h, Rounds(n, sqrtn, g, h), \A i \in 0 .. sqrtn : g[i] = calls[i]
  PROVE  h = f
<1>1. \A i \in Nat : f[i] = [cache \in Cache |->
        IF i > sqrtn THEN [answer |-> 1, cache |-> Remember(cache, n)]
        ELSE LET call == calls[i][cache]
             IN IF call.answer = 1 /\ n % i = 0 THEN [answer |-> 0, cache |-> call.cache]
                ELSE f[i + 1][call.cache]]
  BY DEF Rounds
<1>2. \A i \in Nat : h[i] = [cache \in Cache |->
        IF i > sqrtn THEN [answer |-> 1, cache |-> Remember(cache, n)]
        ELSE LET call == g[i][cache]
             IN IF call.answer = 1 /\ n % i = 0 THEN [answer |-> 0, cache |-> call.cache]
                ELSE h[i + 1][call.cache]]
  BY DEF Rounds
<1>3. ASSUME NEW i \in Nat, i > sqrtn PROVE h[i] = f[i]
  BY <1>1, <1>2, <1>3
<1>4. ASSUME NEW i \in Nat, i <= sqrtn, h[i + 1] = f[i + 1] PROVE h[i] = f[i]
  <2>1. g[i] = calls[i] /\ ~(i > sqrtn)
    BY <1>4
  <2>2. f[i] = RoundOf(n, calls[i], i, f[i + 1])
    BY <1>1, <2>1 DEF RoundOf
  <2>3. h[i] = RoundOf(n, g[i], i, h[i + 1])
    BY <1>2, <2>1 DEF RoundOf
  <2> QED BY <1>4, <2>1, <2>2, <2>3
<1> DEFINE Q == {m \in Nat : m <= sqrtn + 1 => h[sqrtn + 1 - m] = f[sqrtn + 1 - m]}
<1>5. ASSUME NEW m \in Nat, \A k \in 0 .. m - 1 : k \in Q PROVE m \in Q
  <2> SUFFICES ASSUME m <= sqrtn + 1 PROVE h[sqrtn + 1 - m] = f[sqrtn + 1 - m]
    OBVIOUS
  <2>1. sqrtn + 1 - m \in Nat
    OBVIOUS
  <2>2. CASE m = 0
    <3>1. sqrtn + 1 - m > sqrtn
      BY <2>2
    <3> QED BY <1>3, <2>1, <3>1
  <2>3. CASE m # 0
    <3>1. m - 1 \in 0 .. m - 1 /\ m - 1 \in Nat /\ m - 1 <= sqrtn + 1
      BY <2>3
    <3>2. h[sqrtn + 1 - (m - 1)] = f[sqrtn + 1 - (m - 1)]
      BY <1>5, <3>1
    <3>3. sqrtn + 1 - (m - 1) = (sqrtn + 1 - m) + 1 /\ sqrtn + 1 - m <= sqrtn
      BY <2>3
    <3>4. h[(sqrtn + 1 - m) + 1] = f[(sqrtn + 1 - m) + 1]
      BY <3>2, <3>3
    <3> HIDE DEF Q
    <3> QED BY <1>4, <2>1, <3>3, <3>4
  <2> QED BY <2>2, <2>3
<1>6. Nat \subseteq Q
  <2> HIDE DEF Q
  <2> QED BY <1>5, SetInduction
<1>7. ASSUME NEW i \in Nat PROVE h[i] = f[i]
  <2>1. CASE i > sqrtn
    BY <1>3, <2>1
  <2>2. CASE i <= sqrtn
    <3>1. sqrtn + 1 - i \in Q /\ sqrtn + 1 - i <= sqrtn + 1 /\ sqrtn + 1 - (sqrtn + 1 - i) = i
      BY <1>6, <2>2
    <3> QED BY <3>1
  <2> QED BY <2>1, <2>2
<1>8. h = [i \in Nat |-> h[i]]
  <2>1. h = [i \in Nat |-> [cache \in Cache |->
        IF i > sqrtn THEN [answer |-> 1, cache |-> Remember(cache, n)]
        ELSE LET call == g[i][cache]
             IN IF call.answer = 1 /\ n % i = 0 THEN [answer |-> 0, cache |-> call.cache]
                ELSE h[i + 1][call.cache]]]
    BY DEF Rounds
  <2> QED BY <1>2, <2>1
<1>9. f = [i \in Nat |-> f[i]]
  OBVIOUS
<1> QED BY <1>7, <1>8, <1>9

\* The rounds ask no call but for numbers up to sqrtn.
LEMMA DividesRight ==
  ASSUME NEW n \in Nat, NEW sqrtn \in Nat, NEW calls \in [Nat -> Answering],
         NEW g, \A i \in 0 .. sqrtn : g[i] = calls[i]
  PROVE  /\ Divides(n, sqrtn, calls) \in [Nat -> Answering]
         /\ Rounds(n, sqrtn, calls, Divides(n, sqrtn, calls))
         /\ Divides(n, sqrtn, g) = Divides(n, sqrtn, calls)
<1>1. PICK f \in [Nat -> Answering] : Rounds(n, sqrtn, calls, f)
  BY RoundsExist
<1>2. Rounds(n, sqrtn, g, f)
  <2>1. f = [i \in Nat |-> f[i]]
    BY <1>1
  <2>2. ASSUME NEW i \in Nat
        PROVE  f[i] = [cache \in Cache |->
          IF i > sqrtn THEN [answer |-> 1, cache |-> Remember(cache, n)]
          ELSE LET call == g[i][cache]
               IN IF call.answer = 1 /\ n % i = 0 THEN [answer |-> 0, cache |-> call.cache]
                  ELSE f[i + 1][call.cache]]
    <3>1. f[i] = [cache \in Cache |->
          IF i > sqrtn THEN [answer |-> 1, cache |-> Remember(cache, n)]
          ELSE LET call == calls[i][cache]
               IN IF call.answer = 1 /\ n % i = 0 THEN [answer |-> 0, cache |-> call.cache]
                  ELSE f[i + 1][call.cache]]
      BY <1>1 DEF Rounds
    <3>2. i > sqrtn \/ g[i] = calls[i]
      OBVIOUS
    <3> QED BY <3>1, <3>2
  <2> QED BY <2>1, <2>2 DEF Rounds
<1>3. PICK c : c = CHOOSE x : Rounds(n, sqrtn, calls, x)
  OBVIOUS
<1>4. PICK d : d = CHOOSE x : Rounds(n, sqrtn, g, x)
  OBVIOUS
<1>5. Rounds(n, sqrtn, calls, c) /\ Rounds(n, sqrtn, g, d)
  BY <1>1, <1>2, <1>3, <1>4
<1>6. c = f
  BY <1>1, <1>5, RoundsUnique
<1>7. d = f
  BY <1>1, <1>5, RoundsUnique
<1>8. Divides(n, sqrtn, calls) = c
  BY <1>3 DEF Divides, Rounds
<1>9. Divides(n, sqrtn, g) = d
  BY <1>4 DEF Divides, Rounds
<1> QED BY <1>1, <1>6, <1>7, <1>8, <1>9

\* 2 is in the cache from the first call on.
LEMMA TwoIsCached ==
  ASSUME NEW cache \in Cache
  PROVE  CachedDivisor(Started(cache), 2, Root(2) + 1) = 2
<1> DEFINE c == Started(cache)
           D == {i \in DOMAIN c : 2 % c[i] = 0 /\ \A j \in 1 .. i : c[j] <= Root(2) + 1}
<1>1. /\ c \in Cache /\ c # <<>> /\ Len(c) >= 1 /\ Len(c) \in Nat /\ c[1] = 2 /\ DOMAIN c = 1 .. Len(c)
  BY StartedParts, CacheParts
<1>2. Root(2) = 1
  BY RootRight
<1>3. 2 % 2 = 0
  BY SMT
<1>4. 1 \in D
  <2> HIDE DEF c
  <2> QED BY <1>1, <1>2, <1>3
<1>5. \A i \in D : i >= 1 /\ i \in Nat
  <2> HIDE DEF c
  <2> QED BY <1>1
<1>6. PICK k : k = CHOOSE i \in D : \A j \in D : i <= j
  OBVIOUS
<1>7. k = 1
  <2> HIDE DEF D
  <2>1. \E i \in D : \A j \in D : i <= j
    BY <1>4, <1>5
  <2>2. k \in D /\ \A j \in D : k <= j
    BY <1>6, <2>1
  <2> QED BY <1>4, <1>5, <2>2
<1>8. CachedDivisor(c, 2, Root(2) + 1) = c[k]
  <2> HIDE DEF c
  <2> QED BY <1>4, <1>6 DEF CachedDivisor
<1> QED BY <1>1, <1>7, <1>8

\* What a call answers depends on the calls for smaller numbers only.
LEMMA CallLocal ==
  ASSUME NEW n \in Nat, NEW calls \in [Nat -> Answering],
         NEW g, \A k \in 0 .. n - 1 : g[k] = calls[k]
  PROVE  a_call(n, calls) \in Answering /\ a_call(n, g) = a_call(n, calls)
<1>1. CASE n < 2
  <2>1. a_call(n, calls) = [cache \in Cache |-> [answer |-> 0, cache |-> cache]]
    BY <1>1 DEF a_call
  <2>2. a_call(n, g) = [cache \in Cache |-> [answer |-> 0, cache |-> cache]]
    BY <1>1 DEF a_call
  <2> QED BY <2>1, <2>2 DEF Answering, Outcome
<1>2. CASE n = 2
  <2>1. ~(2 < 2) /\ 2 # 0
    OBVIOUS
  <2>2. a_call(2, calls) = [cache \in Cache |-> [answer |-> 1, cache |-> Started(cache)]]
    BY <2>1, TwoIsCached DEF a_call
  <2>3. a_call(2, g) = [cache \in Cache |-> [answer |-> 1, cache |-> Started(cache)]]
    BY <2>1, TwoIsCached DEF a_call
  <2> QED BY <1>2, <2>2, <2>3, StartedParts DEF Answering, Outcome
<1>3. CASE n > 2
  <2>1. Root(n) + 1 \in Nat /\ Root(n) + 1 < n
    BY <1>3, RootRight
  <2>2. \A i \in 0 .. Root(n) + 1 : g[i] = calls[i]
    BY <2>1
  <2>3. Divides(n, Root(n) + 1, calls) \in [Nat -> Answering]
        /\ Divides(n, Root(n) + 1, g) = Divides(n, Root(n) + 1, calls)
    BY <2>1, <2>2, DividesRight
  <2>4. a_call(n, g) = a_call(n, calls)
    BY <2>3 DEF a_call
  <2>5. a_call(n, calls) \in Answering
    <3>1. ASSUME NEW cache \in Cache
          PROVE  /\ Started(cache) \in Cache
                 /\ Divides(n, Root(n) + 1, calls)[Last(Started(cache))][Started(cache)] \in Outcome
      <4>1. Started(cache) \in Cache /\ Last(Started(cache)) \in Nat
        BY StartedParts, CacheParts
      <4> QED BY <2>3, <4>1 DEF Answering
    <3> QED BY <1>3, <3>1 DEF a_call, Answering, Outcome
  <2> QED BY <2>4, <2>5
<1> QED BY <1>1, <1>2, <1>3

\* The function that isprime_cached calls calls.
Calls == CHOOSE c : c = [k \in Nat |-> a_call(k, c)]

LEMMA CallsRight ==
  /\ Calls \in [Nat -> Answering]
  /\ \A n \in Nat : Calls[n] = a_call(n, Calls)
  /\ \A cache, n : isprime_cached(cache, n) = Calls[n][cache]
<1> DEFINE G == [p \in Nat \X [Nat -> Answering] |-> a_call(p[1], p[2])]
<1>1. \A n \in Nat, g \in [Nat -> Answering] : G[<<n, g>>] = a_call(n, g)
  OBVIOUS
<1>2. ASSUME NEW n \in Nat, NEW g \in [Nat -> Answering] PROVE a_call(n, g) \in Answering
  BY CallLocal
<1>3. G \in [Nat \X [Nat -> Answering] -> Answering]
  <2>1. \A p \in Nat \X [Nat -> Answering] : a_call(p[1], p[2]) \in Answering
    BY <1>2
  <2> QED BY <2>1
<1>4. Descends(Answering, G)
  <2> HIDE DEF G
  <2>1. ASSUME NEW n \in Nat, NEW g \in [Nat -> Answering], NEW h \in [Nat -> Answering],
               \A k \in 0 .. n - 1 : g[k] = h[k]
        PROVE  G[<<n, g>>] = G[<<n, h>>]
    <3>1. a_call(n, g) = a_call(n, h)
      BY <2>1, CallLocal
    <3> QED BY <1>1, <3>1
  <2> QED BY <1>3, <2>1 DEF Descends
<1>5. PICK g : g \in [Nat -> Answering] /\ \A n \in Nat : g[n] = a_call(n, g)
  <2> HIDE DEF G
  <2>1. Answering # {}
    BY RoundTypes
  <2>2. PICK g : Descent(Answering, G, g)
    BY <1>4, <2>1, RecursionExists
  <2> QED BY <1>1, <2>2 DEF Descent
<1>6. g = [k \in Nat |-> a_call(k, g)]
  BY <1>5
<1>7. Calls = [k \in Nat |-> a_call(k, Calls)]
  BY <1>6 DEF Calls
<1>8. PICK c : c = Calls
  OBVIOUS
<1>9. \A k \in Nat : c[k] = a_call(k, c)
  BY <1>7, <1>8
<1> DEFINE Q == {k \in Nat : c[k] = g[k]}
<1>10. ASSUME NEW n \in Nat, \A k \in 0 .. n - 1 : k \in Q PROVE n \in Q
  <2>1. \A k \in 0 .. n - 1 : c[k] = g[k]
    BY <1>10
  <2>2. a_call(n, c) = a_call(n, g)
    BY <1>5, <2>1, CallLocal
  <2> QED BY <1>5, <1>9, <2>2
<1>11. Nat \subseteq Q
  <2> HIDE DEF Q
  <2> QED BY <1>10, SetInduction
<1>12. c = g
  <2>1. \A k \in Nat : c[k] = g[k]
    BY <1>11
  <2>2. c = [k \in Nat |-> c[k]]
    BY <1>7, <1>8, <1>9
  <2>3. g = [k \in Nat |-> g[k]]
    BY <1>5
  <2> QED BY <2>1, <2>2, <2>3
<1>13. \A cache, n : isprime_cached(cache, n) = Calls[n][cache]
  BY DEF isprime_cached, Calls
<1> QED BY <1>5, <1>8, <1>9, <1>12, <1>13

LEMMA CallUnfolds ==
  ASSUME NEW n \in Nat, NEW cache \in Cache
  PROVE  /\ n < 2 => Calls[n][cache] = [answer |-> 0, cache |-> cache]
         /\ n >= 2 =>
              LET c == Started(cache)
                  d == CachedDivisor(c, n, Root(n) + 1)
              IN Calls[n][cache] =
                   IF d # 0 THEN [answer |-> IF n = d THEN 1 ELSE 0, cache |-> c]
                   ELSE Divides(n, Root(n) + 1, Calls)[Last(c)][c]
<1>1. Calls[n] = a_call(n, Calls)
  BY CallsRight
<1> QED BY <1>1 DEF a_call
-----------------------------------------------------------------------------
(***************************************************************************)
(* The cache climbs, whatever was asked: it has no room for a number that  *)
(* is not above its last one.                                              *)
(***************************************************************************)
Climbs(cache) ==
  Len(cache) <= NPRIME /\ \A i, j \in DOMAIN cache : i < j => cache[i] < cache[j]

LEMMA ClimbsParts ==
  ASSUME NEW cache \in Cache, Climbs(cache)
  PROVE  \A i, j \in 1 .. Len(cache) : /\ i <= j => cache[i] <= cache[j]
                                       /\ cache[i] >= 2 /\ cache[i] <= Last(cache)
<1>1. /\ Len(cache) \in Nat /\ DOMAIN cache = 1 .. Len(cache)
      /\ \A i \in 1 .. Len(cache) : cache[i] \in Nat
      /\ \A i, j \in 1 .. Len(cache) : i < j => cache[i] < cache[j]
  BY CacheParts DEF Climbs
<1>2. \A i, j \in 1 .. Len(cache) : i <= j => cache[i] <= cache[j]
  <2> SUFFICES ASSUME NEW i \in 1 .. Len(cache), NEW j \in 1 .. Len(cache), i <= j PROVE cache[i] <= cache[j]
    OBVIOUS
  <2>1. i = j \/ i < j
    BY <1>1
  <2> QED BY <1>1, <2>1
<1>3. ASSUME NEW i \in 1 .. Len(cache) PROVE cache[i] >= 2 /\ cache[i] <= Last(cache)
  <2>1. 1 \in 1 .. Len(cache) /\ Len(cache) \in 1 .. Len(cache) /\ cache # <<>> /\ i >= 1 /\ i <= Len(cache)
    BY <1>1, EmptySeq
  <2>2. cache[1] = 2
    BY <2>1, CacheParts
  <2> QED BY <1>1, <1>2, <2>1, <2>2 DEF Last
<1> QED BY <1>2, <1>3

LEMMA StartedClimbs ==
  ASSUME NEW cache \in Cache, Climbs(cache)
  PROVE  Climbs(Started(cache))
<1>1. CASE cache = <<>>
  <2>1. Started(cache) = <<2>> /\ Len(<<2>>) = 1 /\ DOMAIN <<2>> = 1 .. 1
    BY <1>1 DEF Started
  <2> QED BY <2>1, PrimeCacheAssumption DEF Climbs
<1>2. CASE cache # <<>>
  BY <1>2 DEF Started
<1> QED BY <1>1, <1>2

LEMMA RememberClimbs ==
  ASSUME NEW cache \in Cache, Climbs(cache), NEW n \in Nat
  PROVE  Climbs(Remember(cache, n))
<1>1. CASE Len(cache) \in 1 .. NPRIME - 1 /\ n > Last(cache)
  <2> DEFINE c == Append(cache, n)
  <2>1. Len(c) = Len(cache) + 1 /\ c[Len(cache) + 1] = n /\ \A i \in 1 .. Len(cache) : c[i] = cache[i]
    BY CacheParts, AppendProperties
  <2>2. DOMAIN c = 1 .. Len(cache) + 1
    BY CacheParts, AppendProperties, LenProperties
  <2> HIDE DEF c
  <2>3. \A i \in 1 .. Len(cache) : cache[i] < n
    <3>1. \A i \in 1 .. Len(cache) : cache[i] \in Nat /\ cache[i] <= Last(cache)
      BY CacheParts, ClimbsParts
    <3>2. Last(cache) \in Nat
      BY <1>1, CacheParts, EmptySeq
    <3> QED BY <1>1, <3>1, <3>2
  <2>4. ASSUME NEW i \in DOMAIN c, NEW j \in DOMAIN c, i < j PROVE c[i] < c[j]
    <3>1. Len(cache) \in Nat /\ i \in 1 .. Len(cache) /\ (j \in 1 .. Len(cache) \/ j = Len(cache) + 1)
      BY <2>2, <2>4, CacheParts
    <3>2. CASE j \in 1 .. Len(cache)
      BY <2>1, <2>4, <3>1, <3>2, CacheParts DEF Climbs
    <3>3. CASE j = Len(cache) + 1
      BY <2>1, <2>3, <3>1, <3>3
    <3> QED BY <3>1, <3>2, <3>3
  <2>5. Len(c) <= NPRIME
    BY <1>1, <2>1, CacheParts, PrimeCacheAssumption
  <2>6. Remember(cache, n) = c
    BY <1>1 DEF Remember, c
  <2> QED BY <2>4, <2>5, <2>6 DEF Climbs
<1>2. CASE ~(Len(cache) \in 1 .. NPRIME - 1 /\ n > Last(cache))
  BY <1>2 DEF Remember
<1> QED BY <1>1, <1>2

LEMMA FoundInCache ==
  ASSUME NEW cache \in Cache, Climbs(cache), NEW n \in Nat, NEW limit \in Nat
  PROVE  LET d == CachedDivisor(cache, n, limit)
         IN /\ d # 0 => d \in 2 .. limit /\ n % d = 0
            /\ (\E i \in 1 .. Len(cache) : cache[i] <= limit /\ n % cache[i] = 0) => d # 0
<1> DEFINE d == CachedDivisor(cache, n, limit)
           D == {i \in DOMAIN cache : n % cache[i] = 0 /\ \A j \in 1 .. i : cache[j] <= limit}
<1>1. /\ Len(cache) \in Nat /\ DOMAIN cache = 1 .. Len(cache)
      /\ \A i \in 1 .. Len(cache) : cache[i] \in Nat /\ cache[i] >= 2
  BY CacheParts, ClimbsParts
<1>2. CASE D = {}
  <2>1. d = 0
    BY <1>2 DEF CachedDivisor
  <2>2. ASSUME NEW i \in 1 .. Len(cache), cache[i] <= limit, n % cache[i] = 0 PROVE FALSE
    <3>1. ASSUME NEW j \in 1 .. i PROVE cache[j] <= limit
      <4>1. j \in 1 .. Len(cache) /\ j <= i
        BY <1>1
      <4>2. cache[j] <= cache[i] /\ cache[j] \in Nat /\ cache[i] \in Nat
        BY <1>1, <4>1, ClimbsParts
      <4> QED BY <2>2, <4>2
    <3>2. i \in D
      BY <1>1, <2>2, <3>1
    <3> QED BY <1>2, <3>2
  <2> QED BY <2>1, <2>2
<1>3. CASE D # {}
  <2>1. PICK k : k = CHOOSE i \in D : \A j \in D : i <= j
    OBVIOUS
  <2>2. k \in D
    <3>1. D \subseteq Nat
      BY <1>1
    <3>2. \E i \in D : \A j \in D : i <= j
      <4> HIDE DEF D
      <4> QED BY <1>3, <3>1, LeastNatural
    <3> HIDE DEF D
    <3> QED BY <2>1, <3>2
  <2>3. d = cache[k]
    BY <1>3, <2>1 DEF CachedDivisor
  <2>4. k \in 1 .. Len(cache) /\ n % cache[k] = 0 /\ cache[k] <= limit
    <3>1. k \in 1 .. Len(cache) /\ n % cache[k] = 0 /\ \A j \in 1 .. k : cache[j] <= limit
      BY <1>1, <2>2
    <3>2. k \in 1 .. k
      BY <1>1, <3>1
    <3> QED BY <3>1, <3>2
  <2>5. d \in 2 .. limit /\ n % d = 0 /\ d # 0
    <3> HIDE DEF d
    <3> QED BY <1>1, <2>3, <2>4
  <2> QED BY <2>5
<1> QED BY <1>2, <1>3

\* What is known of a call for n that found this cache.
Right(n, cache, call) ==
  /\ Climbs(call.cache)
  /\ isprime(n) => call.answer = 1
  /\ NoGap(cache) => call.answer = Bool(isprime(n))

\* What is known of the rounds from i on.
RoundRight(n, sqrtn, i, call) ==
  /\ Climbs(call.cache)
  /\ isprime(n) => call.answer = 1
  /\ (\E p \in i .. sqrtn : isprime(p) /\ n % p = 0) => call.answer = 0

LEMMA RoundsRight ==
  ASSUME NEW n \in Nat, n > 2, NEW sqrtn \in Nat, sqrtn < n,
         \A k \in 0 .. n - 1 : \A cache \in Cache : Climbs(cache) => Right(k, cache, Calls[k][cache])
  PROVE  \A i \in Nat, cache \in Cache :
           i >= 2 /\ Climbs(cache) => RoundRight(n, sqrtn, i, Divides(n, sqrtn, Calls)[i][cache])
<1> DEFINE f == Divides(n, sqrtn, Calls)
<1>1. f \in [Nat -> Answering] /\ Rounds(n, sqrtn, Calls, f) /\ Calls \in [Nat -> Answering]
  BY CallsRight, DividesRight
<1> HIDE DEF f
<1>2. ASSUME NEW i \in Nat, NEW cache \in Cache
      PROVE  f[i][cache] =
               IF i > sqrtn THEN [answer |-> 1, cache |-> Remember(cache, n)]
               ELSE LET call == Calls[i][cache]
                    IN IF call.answer = 1 /\ n % i = 0 THEN [answer |-> 0, cache |-> call.cache]
                       ELSE f[i + 1][call.cache]
  <2>1. f[i] = [c \in Cache |->
          IF i > sqrtn THEN [answer |-> 1, cache |-> Remember(c, n)]
          ELSE LET call == Calls[i][c]
               IN IF call.answer = 1 /\ n % i = 0 THEN [answer |-> 0, cache |-> call.cache]
                  ELSE f[i + 1][call.cache]]
    BY <1>1 DEF Rounds
  <2> QED BY <2>1
<1> DEFINE R(i) == \A cache \in Cache : i >= 2 /\ Climbs(cache) => RoundRight(n, sqrtn, i, f[i][cache])
<1>3. ASSUME NEW i \in Nat, i > sqrtn PROVE R(i)
  <2>1. ASSUME NEW cache \in Cache, Climbs(cache) PROVE RoundRight(n, sqrtn, i, f[i][cache])
    <3>1. f[i][cache] = [answer |-> 1, cache |-> Remember(cache, n)]
      BY <1>2, <1>3
    <3>2. \A p \in i .. sqrtn : FALSE
      BY <1>3
    <3> QED BY <2>1, <3>1, <3>2, RememberClimbs DEF RoundRight
  <2> QED BY <2>1
<1>4. ASSUME NEW i \in Nat, i <= sqrtn, R(i + 1) PROVE R(i)
  <2> SUFFICES ASSUME NEW cache \in Cache, i >= 2, Climbs(cache)
               PROVE  RoundRight(n, sqrtn, i, f[i][cache])
    OBVIOUS
  <2> DEFINE call == Calls[i][cache]
  <2>1. Right(i, cache, call)
    <3>1. i \in 0 .. n - 1
      BY <1>4
    <3> QED BY <3>1
  <2>2. call.cache \in Cache /\ Climbs(call.cache)
    BY <1>1, <2>1 DEF Answering, Outcome, Right
  <2>3. isprime(n) => n % i # 0
    <3>1. i \in 2 .. n - 1
      BY <1>4
    <3> QED BY <3>1, PrimeUndivided
  <2>4. CASE call.answer = 1 /\ n % i = 0
    <3>1. f[i][cache] = [answer |-> 0, cache |-> call.cache]
      <4>1. ~(i > sqrtn)
        BY <1>4
      <4> QED BY <1>2, <2>4, <4>1
    <3> QED BY <2>2, <2>3, <2>4, <3>1 DEF RoundRight
  <2>5. CASE ~(call.answer = 1 /\ n % i = 0)
    <3>1. f[i][cache] = f[i + 1][call.cache]
      <4>1. ~(i > sqrtn)
        BY <1>4
      <4> QED BY <1>2, <2>5, <4>1
    <3>2. i + 1 >= 2
      BY <2>2
    <3>3. RoundRight(n, sqrtn, i + 1, f[i + 1][call.cache])
      <4> HIDE DEF call
      <4> QED BY <1>4, <2>2, <3>2
    <3>4. ASSUME NEW p \in i .. sqrtn, isprime(p), n % p = 0 PROVE p \in i + 1 .. sqrtn
      <4>1. p # i
        BY <2>1, <2>5, <3>4 DEF Right
      <4> QED BY <4>1
    <3> HIDE DEF call
    <3> QED BY <3>1, <3>3, <3>4 DEF RoundRight
  <2> QED BY <2>4, <2>5
<1> DEFINE S == {m \in Nat : m <= sqrtn + 1 => R(sqrtn + 1 - m)}
<1> HIDE DEF R
<1>5. ASSUME NEW m \in Nat, \A k \in 0 .. m - 1 : k \in S PROVE m \in S
  <2> SUFFICES ASSUME m <= sqrtn + 1 PROVE R(sqrtn + 1 - m)
    OBVIOUS
  <2>1. sqrtn + 1 - m \in Nat
    OBVIOUS
  <2>2. CASE m = 0
    <3>1. sqrtn + 1 - m > sqrtn
      BY <2>2
    <3> QED BY <1>3, <2>1, <3>1
  <2>3. CASE m # 0
    <3>1. m - 1 \in 0 .. m - 1 /\ m - 1 \in Nat /\ m - 1 <= sqrtn + 1
      BY <2>3
    <3>2. R(sqrtn + 1 - (m - 1))
      BY <1>5, <3>1
    <3>3. sqrtn + 1 - (m - 1) = (sqrtn + 1 - m) + 1 /\ sqrtn + 1 - m <= sqrtn
      BY <2>3
    <3>4. R((sqrtn + 1 - m) + 1)
      BY <3>2, <3>3
    <3> HIDE DEF S
    <3> QED BY <1>4, <2>1, <3>3, <3>4
  <2> QED BY <2>2, <2>3
<1>6. Nat \subseteq S
  <2> HIDE DEF S
  <2> QED BY <1>5, SetInduction
<1>7. ASSUME NEW i \in Nat PROVE R(i)
  <2>1. CASE i > sqrtn
    BY <1>3, <2>1
  <2>2. CASE i <= sqrtn
    <3>1. sqrtn + 1 - i \in S /\ sqrtn + 1 - i <= sqrtn + 1 /\ sqrtn + 1 - (sqrtn + 1 - i) = i
      BY <1>6, <2>2
    <3>2. R(sqrtn + 1 - (sqrtn + 1 - i))
      BY <3>1
    <3> QED BY <3>1, <3>2
  <2> QED BY <2>1, <2>2
<1> QED BY <1>7 DEF R, f

LEMMA CallsAreRight ==
  ASSUME NEW n \in Nat, NEW cache \in Cache, Climbs(cache)
  PROVE  Right(n, cache, Calls[n][cache])
<1> DEFINE S == {k \in Nat : \A c \in Cache : Climbs(c) => Right(k, c, Calls[k][c])}
<1>1. ASSUME NEW m \in Nat, \A k \in 0 .. m - 1 : k \in S PROVE m \in S
  <2> SUFFICES ASSUME NEW found \in Cache, Climbs(found) PROVE Right(m, found, Calls[m][found])
    OBVIOUS
  <2> DEFINE c == Started(found)
             sqrtn == Root(m) + 1
             d == CachedDivisor(c, m, sqrtn)
  <2>1. c \in Cache /\ c # <<>> /\ Climbs(c) /\ Last(c) \in Nat /\ Len(c) \in Nat /\ Len(c) >= 1
    BY StartedParts, StartedClimbs, CacheParts
  <2>2. Last(c) >= 2
    <3> HIDE DEF c
    <3>1. Len(c) \in 1 .. Len(c)
      BY <2>1
    <3> QED BY <2>1, <3>1, ClimbsParts DEF Last
  <2>3. m >= 2 => Calls[m][found] = IF d # 0 THEN [answer |-> IF m = d THEN 1 ELSE 0, cache |-> c]
                                    ELSE Divides(m, sqrtn, Calls)[Last(c)][c]
    BY CallUnfolds
  <2>4. CASE m < 2
    <3>1. Calls[m][found] = [answer |-> 0, cache |-> found] /\ ~isprime(m)
      <4>1. ~isprime(m)
        BY <2>4 DEF isprime
      <4>2. Calls[m][found] = [answer |-> 0, cache |-> found]
        BY <2>4, CallUnfolds
      <4> QED BY <4>1, <4>2
    <3> QED BY <3>1 DEF Right, Bool
  <2>5. CASE m = 2
    <3>1. d = 2
      BY <2>5, TwoIsCached
    <3>2. Calls[m][found] = [answer |-> 1, cache |-> c]
      BY <2>3, <2>5, <3>1
    <3> HIDE DEF c
    <3> QED BY <2>1, <2>5, <3>2, TwoIsPrime DEF Right, Bool
  <2>6. CASE m > 2
    <3>1. sqrtn \in Nat /\ sqrtn < m
      BY <2>6, RootRight
    <3>2. /\ d # 0 => d \in 2 .. sqrtn /\ m % d = 0
          /\ (\E i \in 1 .. Len(c) : c[i] <= sqrtn /\ m % c[i] = 0) => d # 0
      <4> HIDE DEF c, sqrtn
      <4> QED BY <2>1, <3>1, FoundInCache
    <3> HIDE DEF sqrtn, d, c
    <3>3. CASE d # 0
      <4>1. m # d /\ ~isprime(m)
        <5>1. d \in 2 .. m - 1
          BY <3>1, <3>2, <3>3
        <5> QED BY <3>2, <3>3, <5>1, PrimeUndivided
      <4>2. Calls[m][found] = [answer |-> 0, cache |-> c]
        BY <2>3, <2>6, <3>3, <4>1
      <4> QED BY <2>1, <4>1, <4>2 DEF Right, Bool
    <3>4. CASE d = 0
      <4> DEFINE call == Divides(m, sqrtn, Calls)[Last(c)][c]
      <4>1. Calls[m][found] = call
        BY <2>3, <2>6, <3>4
      <4>2. RoundRight(m, sqrtn, Last(c), call)
        <5>1. \A k \in 0 .. m - 1 : \A e \in Cache : Climbs(e) => Right(k, e, Calls[k][e])
          BY <1>1
        <5> QED BY <2>1, <2>2, <2>6, <3>1, <5>1, RoundsRight
      <4>3. ASSUME NoGap(found), ~isprime(m) PROVE call.answer = 0
        <5>1. PICK p \in 2 .. Root(m) : isprime(p) /\ m % p = 0
          BY <2>6, <4>3, PrimeDivisor
        <5>2. p \in Nat /\ p >= 2 /\ p <= sqrtn
          BY <3>1, RootRight DEF sqrtn
        <5>3. p >= Last(c)
          <6>1. CASE found = <<>>
            <7>1. c = <<2>> /\ Last(<<2>>) = 2
              BY <6>1 DEF c, Started, Last
            <7> QED BY <5>2, <7>1
          <6>2. CASE found # <<>>
            <7> SUFFICES ASSUME p < Last(c) PROVE FALSE
              BY <2>1, <5>2
            <7>1. c = found
              BY <6>2 DEF c, Started
            <7>2. p \in {c[i] : i \in DOMAIN c}
              <8>1. p \in 2 .. Last(c)
                BY <2>1, <5>2
              <8>2. p \in ToSet(c)
                BY <4>3, <5>1, <6>2, <7>1, <8>1 DEF NoGap
              <8> QED BY <8>2 DEF ToSet
            <7>3. PICK i \in 1 .. Len(c) : p = c[i]
              BY <2>1, <7>2, CacheParts
            <7> QED BY <3>2, <3>4, <5>1, <5>2, <7>3
          <6> QED BY <6>1, <6>2
        <5>4. p \in Last(c) .. sqrtn
          BY <2>1, <3>1, <5>2, <5>3
        <5> HIDE DEF call
        <5> QED BY <4>2, <5>1, <5>4 DEF RoundRight
      <4> HIDE DEF call
      <4> QED BY <4>1, <4>2, <4>3 DEF RoundRight, Right, Bool
    <3> QED BY <3>3, <3>4
  <2> QED BY <2>4, <2>5, <2>6
<1>2. Nat \subseteq S
  <2> HIDE DEF S
  <2> QED BY <1>1, SetInduction
<1> QED BY <1>2
-----------------------------------------------------------------------------
\* The answer at hand is what a call made of the cache that it found.
PrimeAnswer ==
  AskedPrime => \E n \in Nat : asked.args = <<n>> /\ answer = isprime_cached(before, n).answer

PrimeInv ==
  /\ IInv
  /\ primes \in Cache /\ before \in Cache
  /\ Climbs(primes) /\ Climbs(before)
  /\ PrimeAnswer

LEMMA AskCachedKeeps ==
  ASSUME PrimeInv, NEW n \in Nat, AskCached(n)
  PROVE  PrimeInv'
<1>1. NoCall /\ Call("isprime_cached", <<n>>, isprime_cached(primes, n).answer)
  BY DEF AskCached
<1>2. IInv'
  <2>1. "isprime_cached" \notin {"extended_gcd", "chinese_remainder"}
    OBVIOUS
  <2>2. Immediate
    BY ONLY <1>1, <2>1, CallImmediate, Zenon
  <2> QED BY <2>2, ImmediateKeeps DEF PrimeInv
<1>3. isprime_cached(primes, n) = Calls[n][primes] /\ Calls \in [Nat -> Answering]
  BY CallsRight
<1>4. primes' \in Cache /\ Climbs(primes')
  <2>1. primes' = Calls[n][primes].cache
    BY <1>3 DEF AskCached
  <2>2. Calls[n][primes] \in Outcome
    BY <1>3 DEF PrimeInv, Answering
  <2>3. Right(n, primes, Calls[n][primes])
    BY CallsAreRight DEF PrimeInv
  <2> QED BY <2>1, <2>2, <2>3 DEF Outcome, Right
<1>5. before' = primes
  BY DEF AskCached
<1>6. PrimeAnswer'
  <2>1. asked' = [fn |-> "isprime_cached", args |-> <<n>>] /\ answer' = isprime_cached(primes, n).answer
    BY <1>1 DEF Call, Ask
  <2>2. answer' = Calls[n][before'].answer
    BY <1>3, <1>5, <2>1
  <2>3. isprime_cached(before', n) = Calls[n][before']
    BY CallsRight
  <2>4. asked'.args = <<n>> /\ answer' = isprime_cached(before', n).answer
    BY <2>1, <2>2, <2>3
  <2>5. \E k \in Nat : asked'.args = <<k>> /\ answer' = isprime_cached(before', k).answer
    BY <2>4
  <2> QED BY <2>5 DEF PrimeAnswer
<1> QED BY <1>2, <1>4, <1>5, <1>6 DEF PrimeInv

\* No other function of dmath.c is mistaken for isprime_cached.
LEMMA OthersAnswer ==
  ASSUME IInv, NoCall, Next
  PROVE  ~AskedPrime'
<1>1. ~Running /\ ~Forget
  BY DEF NoCall, Running, Round, RoundsEnd, Multiply, FindInverse, Combine, Forget, Answered
<1>2. ASSUME NEW fn, NEW args, Ask(fn, args), fn # "isprime_cached" PROVE ~AskedPrime'
  BY <1>2 DEF Ask, AskedPrime
<1>3. ASSUME NEW fn, NEW args, NEW value, Call(fn, args, value), fn # "isprime_cached" PROVE ~AskedPrime'
  BY <1>2, <1>3 DEF Call
<1>4. CASE CallOne
  BY <1>3, <1>4 DEF CallOne
<1>5. CASE CallTwo
  BY <1>2, <1>3, <1>5 DEF CallTwo, extended_gcd
<1>6. CASE CallBase
  BY <1>2, <1>3, <1>6 DEF CallBase, basestring_from_long
<1>7. CASE CallModular
  BY <1>3, <1>7 DEF CallModular
<1>8. CASE CallSystem
  BY <1>2, <1>3, <1>8 DEF CallSystem, chinese_remainder
<1> QED BY <1>1, <1>4, <1>5, <1>6, <1>7, <1>8 DEF Next

\* A call in progress has no answer yet, and is none of isprime_cached.
LEMMA RunningAnswers ==
  ASSUME IInv, Running
  PROVE  ~AskedPrime'
<1>1. pc # "idle" /\ asked' = asked
  BY DEF Running, Round, RoundsEnd, Multiply, FindInverse, Combine
<1>2. asked.fn # "isprime_cached"
  BY <1>1 DEF IInv, Callers
<1> QED BY <1>1, <1>2 DEF AskedPrime

LEMMA PrimeInvariantKept ==
  ASSUME PrimeInv, [PrimeNext]_<<vars, primes, before>>
  PROVE  PrimeInv'
<1>1. CASE \E n \in 0 .. MaxN : AskCached(n)
  <2>1. \A n \in 0 .. MaxN : n \in Nat
    BY PrimeCacheAssumption
  <2> QED BY <1>1, <2>1, AskCachedKeeps
<1>2. CASE CallOther
  <2>1. NoCall /\ Next /\ primes' = primes /\ before' = before
    BY <1>2 DEF CallOther
  <2>2. IInv' /\ ~AskedPrime'
    BY <2>1, InvariantKept, OthersAnswer DEF PrimeInv
  <2> QED BY <2>1, <2>2 DEF PrimeInv, PrimeAnswer
<1>3. CASE Continue
  <2>1. Running /\ primes' = primes /\ before' = before
    BY <1>3 DEF Continue
  <2>2. IInv' /\ ~AskedPrime'
    BY <2>1, InvariantKept, RunningAnswers DEF PrimeInv, Next
  <2> QED BY <2>1, <2>2 DEF PrimeInv, PrimeAnswer
<1>4. CASE ForgetAnswer
  <2>1. Forget /\ primes' = primes /\ before' = primes
    BY <1>4 DEF ForgetAnswer
  <2>2. IInv' /\ ~AskedPrime'
    BY <2>1, ForgetKeeps DEF PrimeInv, AskedPrime, Answered, Forget
  <2> QED BY <2>1, <2>2 DEF PrimeInv, PrimeAnswer
<1>5. CASE UNCHANGED <<vars, primes, before>>
  <2>1. UNCHANGED vars /\ primes' = primes /\ before' = before
    BY <1>5
  <2>2. asked' = asked /\ answer' = answer
    BY <2>1 DEF vars
  <2>3. IInv'
    BY <2>1, InvariantKept DEF PrimeInv
  <2>4. AskedPrime' = AskedPrime
    BY <2>2 DEF AskedPrime, Answered
  <2>5. PrimeAnswer'
    <3> SUFFICES ASSUME AskedPrime'
                 PROVE  \E n \in Nat : asked'.args = <<n>> /\ answer' = isprime_cached(before', n).answer
      BY DEF PrimeAnswer
    <3>1. PICK n \in Nat : asked.args = <<n>> /\ answer = isprime_cached(before, n).answer
      BY <2>4 DEF PrimeInv, PrimeAnswer
    <3>2. isprime_cached(before, n) = Calls[n][before] /\ isprime_cached(before', n) = Calls[n][before']
      BY CallsRight
    <3> QED BY <2>1, <2>2, <3>1, <3>2
  <2> QED BY <2>1, <2>3, <2>5 DEF PrimeInv
<1> QED BY <1>1, <1>2, <1>3, <1>4, <1>5 DEF PrimeNext

LEMMA PrimeInvariant == PrimeSpec => []PrimeInv
<1>1. PrimeInit => PrimeInv
  <2> SUFFICES ASSUME PrimeInit PROVE PrimeInv
    OBVIOUS
  <2>1. IInv
    BY EmptySeq DEF PrimeInit, Init, IInv, Numbers, Callers, Nonzero, Factors, Returned, Answered
  <2>2. <<>> \in Cache
    BY EmptySeq DEF Cache
  <2>3. Climbs(<<>>)
    BY PrimeCacheAssumption DEF Climbs
  <2> QED BY <2>1, <2>2, <2>3 DEF PrimeInit, Init, PrimeInv, PrimeAnswer, AskedPrime, Answered
<1>2. PrimeInv /\ [PrimeNext]_<<vars, primes, before>> => PrimeInv'
  BY PrimeInvariantKept
<1> QED BY <1>1, <1>2, PTL DEF PrimeSpec

\* The array of isprime_cached, dmath.c:312: whatever was asked before and
\* however the calls nest, it is not overrun and its numbers climb.
THEOREM CacheAscends == PrimeSpec => []Ascending
<1>1. PrimeInv => Ascending
  BY DEF PrimeInv, Climbs, Ascending
<1> QED BY <1>1, PrimeInvariant, PTL

\* isprime_cached, dmath.c:278: for every size of the array and whatever was
\* asked before, no prime is called composite; while the array holds every
\* prime up to its last, the answer is that of isprime.
THEOREM CachedIsRight == PrimeSpec => []CachedAnswers
<1>1. PrimeInv => CachedAnswers
  <2> SUFFICES ASSUME PrimeInv, AskedPrime
               PROVE  /\ isprime(asked.args[1]) => answer = 1
                      /\ NoGap(before) => answer = Bool(isprime(asked.args[1]))
    BY DEF CachedAnswers
  <2>1. PICK n \in Nat : asked.args = <<n>> /\ answer = isprime_cached(before, n).answer
    BY DEF PrimeInv, PrimeAnswer
  <2>2. Right(n, before, isprime_cached(before, n))
    BY CallsRight, CallsAreRight DEF PrimeInv
  <2> QED BY <2>1, <2>2 DEF Right
<1> QED BY <1>1, PrimeInvariant, PTL
-----------------------------------------------------------------------------
(***************************************************************************)
(* The greatest common divisor. The remainder of C has the sign of the     *)
(* dividend, and is kept in an int, which does not make it larger.         *)
(***************************************************************************)
LEMMA Division ==
  ASSUME NEW m \in Int, NEW d \in Nat \ {0}
  PROVE  m = d * (m \div d) + (m % d) /\ m \div d \in Int /\ m % d \in 0 .. d - 1 /\ (m >= 0 => m \div d >= 0)
BY SMT

LEMMA DivisorOfInt ==
  ASSUME NEW m \in Int, NEW d \in Nat \ {0}
  PROVE  divides(d, m) <=> \E q \in Int : m = d * q
<1>1. m = d * (m \div d) + (m % d) /\ m \div d \in Int /\ m % d \in 0 .. d - 1
  BY Division
<1>2. ASSUME NEW q \in Int, m = d * q PROVE m % d = 0
  <2>1. d * (q - (m \div d)) = m % d
    BY <1>1, <1>2, SMT
  <2>2. CASE q - (m \div d) >= 1
    <3>1. \A z \in Int : z >= 1 => d * z >= d
      BY SMT
    <3> QED BY <1>1, <2>1, <2>2, <3>1
  <2>3. CASE q - (m \div d) <= -1
    <3>1. \A z \in Int : z <= -1 => d * z < 0
      BY SMT
    <3> QED BY <1>1, <2>1, <2>3, <3>1
  <2>4. CASE q - (m \div d) = 0
    BY <2>1, <2>4, SMT
  <2> QED BY <1>1, <2>2, <2>3, <2>4
<1>3. ASSUME m % d = 0 PROVE m = d * (m \div d)
  <2>1. d * (m \div d) \in Int
    BY <1>1, SMT
  <2> QED BY <1>1, <1>3, <2>1
<1> QED
  <2>1. m % d = 0 => \E q \in Int : m = d * q
    BY <1>1, <1>3, Zenon
  <2>2. (\E q \in Int : m = d * q) => m % d = 0
    BY <1>2, Zenon
  <2> QED BY <2>1, <2>2 DEF divides

LEMMA DivisorSmall ==
  ASSUME NEW m \in Int, m # 0, NEW d \in Nat \ {0}, divides(d, m)
  PROVE  d <= Abs(m)
<1>1. PICK q \in Int : m = d * q
  BY DivisorOfInt
<1>2. q # 0
  BY <1>1, SMT
<1>3. q >= 1 => d * q >= d
  BY SMT
<1>4. q <= -1 => d * q <= -d
  BY SMT
<1> QED BY <1>1, <1>2, <1>3, <1>4 DEF Abs

LEMMA DividesSelf ==
  ASSUME NEW m \in Int, m # 0
  PROVE  Abs(m) \in Nat \ {0} /\ divides(Abs(m), m)
<1>1. Abs(m) \in Nat \ {0}
  BY DEF Abs
<1>2. m = Abs(m) * 1 \/ m = Abs(m) * (-1)
  BY DEF Abs
<1>3. 1 \in Int /\ -1 \in Int
  OBVIOUS
<1> QED BY <1>1, <1>2, <1>3, DivisorOfInt

LEMMA OneDivides ==
  ASSUME NEW m \in Int
  PROVE  divides(1, m)
<1>1. m = 1 * m
  OBVIOUS
<1> QED BY <1>1, DivisorOfInt

\* What divides two numbers divides the second and what is left of the first.
LEMMA CommonKept ==
  ASSUME NEW m \in Int, NEW n \in Int, NEW q \in Int, NEW r \in Int, r = m - n * q, NEW d \in Nat \ {0}
  PROVE  divides(d, m) /\ divides(d, n) <=> divides(d, n) /\ divides(d, r)
<1>1. ASSUME NEW i \in Int, NEW j \in Int, m = d * i, n = d * j PROVE r = d * (i - j * q) /\ i - j * q \in Int
  <2>1. d * (i - j * q) = d * i - (d * j) * q
    BY SMT
  <2> QED BY <1>1, <2>1
<1>2. ASSUME NEW i \in Int, NEW j \in Int, r = d * i, n = d * j PROVE m = d * (i + j * q) /\ i + j * q \in Int
  <2>1. d * (i + j * q) = d * i + (d * j) * q
    BY SMT
  <2>2. m = r + n * q
    BY SMT
  <2>3. i + j * q \in Int
    BY SMT
  <2> QED BY <1>2, <2>1, <2>2, <2>3
<1>3. ASSUME divides(d, m), divides(d, n) PROVE divides(d, r)
  <2>1. PICK i \in Int : m = d * i
    BY <1>3, DivisorOfInt
  <2>2. PICK j \in Int : n = d * j
    BY <1>3, DivisorOfInt
  <2>3. r = d * (i - j * q) /\ i - j * q \in Int
    BY <1>1, <2>1, <2>2
  <2> QED BY <2>3, DivisorOfInt
<1>4. ASSUME divides(d, n), divides(d, r) PROVE divides(d, m)
  <2>1. PICK i \in Int : r = d * i
    BY <1>4, DivisorOfInt
  <2>2. PICK j \in Int : n = d * j
    BY <1>4, DivisorOfInt
  <2>3. m = d * (i + j * q) /\ i + j * q \in Int
    BY <1>2, <2>1, <2>2
  <2> QED BY <2>3, DivisorOfInt
<1> QED BY <1>3, <1>4

\* The least remainder, with the sign of the dividend.
LEMMA RemSmall ==
  ASSUME NEW m \in Int, NEW n \in Int, n # 0
  PROVE  /\ Rem(m, n) \in Int /\ Abs(Rem(m, n)) < Abs(n) /\ Abs(Rem(m, n)) <= Abs(m)
         /\ m >= 0 => Rem(m, n) >= 0
         /\ m < 0 => Rem(m, n) <= 0
<1> DEFINE k == Abs(m) \div Abs(n)
           left == Abs(m) % Abs(n)
<1>1. Abs(m) \in Nat /\ Abs(n) \in Nat \ {0}
  BY DEF Abs
<1>2. Abs(m) = Abs(n) * k + left /\ k \in Nat /\ left \in 0 .. Abs(n) - 1
  <2>1. PICK i \in Nat : i = Abs(m)
    BY <1>1
  <2>2. PICK d \in Nat \ {0} : d = Abs(n)
    BY <1>1
  <2>3. i = d * (i \div d) + (i % d) /\ i \div d \in Nat /\ i % d \in 0 .. d - 1
    BY SMT
  <2> QED BY <2>1, <2>2, <2>3
<1>3. Abs(n) * k \in Nat
  BY <1>1, <1>2, SMT
<1>4. left <= Abs(m)
  BY <1>1, <1>2, <1>3
<1>5. Quot(m, n) = IF (m >= 0) = (n > 0) THEN k ELSE -k
  BY DEF Quot
<1> HIDE DEF k, left
<1>6. \A z \in Int : n * (-z) = -(n * z) /\ (-n) * z = -(n * z) /\ n * z \in Int
  BY SMT
<1>7. CASE m >= 0
  <2>1. n * Quot(m, n) = Abs(n) * k
    <3>1. CASE n > 0
      BY <1>5, <1>7, <3>1 DEF Abs
    <3>2. CASE n < 0
      <4>1. Quot(m, n) = -k
        BY <1>5, <1>7, <3>2
      <4>2. Abs(n) = -n
        BY <3>2 DEF Abs
      <4> QED BY <1>2, <1>6, <4>1, <4>2
    <3> QED BY <3>1, <3>2
  <2>2. Rem(m, n) = left
    BY <1>2, <1>3, <1>7, <2>1 DEF Rem, Abs
  <2> QED BY <1>1, <1>2, <1>4, <1>7, <2>2 DEF Abs
<1>8. CASE m < 0
  <2>1. n * Quot(m, n) = -(Abs(n) * k)
    <3>1. CASE n > 0
      <4>1. Quot(m, n) = -k
        BY <1>5, <1>8, <3>1
      <4>2. Abs(n) = n
        BY <3>1 DEF Abs
      <4> QED BY <1>2, <1>6, <4>1, <4>2
    <3>2. CASE n < 0
      <4>1. Quot(m, n) = k
        BY <1>5, <1>8, <3>2
      <4>2. Abs(n) = -n
        BY <3>2 DEF Abs
      <4>3. (-n) * k = -(n * k) /\ n * k \in Int
        BY <1>2, <1>6
      <4> QED BY <4>1, <4>2, <4>3
    <3> QED BY <3>1, <3>2
  <2>2. Abs(m) = -m
    BY <1>8 DEF Abs
  <2>3. Rem(m, n) = -left
    BY <1>2, <1>3, <2>1, <2>2 DEF Rem
  <2> QED BY <1>1, <1>2, <1>4, <1>8, <2>3 DEF Abs
<1> QED BY <1>7, <1>8

\* A conversion to int keeps what fits, and what does not fit gets no larger.
LEMMA ToIntSmall ==
  ASSUME NEW n \in Int
  PROVE  /\ ToInt(n) \in -(INT_MAX + 1) .. INT_MAX
         /\ n \in -(INT_MAX + 1) .. INT_MAX <=> FitsInt(n)
         /\ Abs(ToInt(n)) <= Abs(n)
<1> DEFINE w == UINT_MAX + 1
           u == n + INT_MAX + 1
<1>1. INT_MAX \in Nat \ {0} /\ w \in Nat \ {0} /\ w = 2 * INT_MAX + 2
  BY DMathAssumption DEF UINT_MAX
<1>2. u \in Int
  BY <1>1
<1>3. ToInt(n) = (u % w) - (INT_MAX + 1)
  BY DEF ToInt, ToUInt
<1> HIDE DEF w
<1> HIDE DEF u
<1>4. u = w * (u \div w) + (u % w) /\ u \div w \in Int /\ u % w \in 0 .. w - 1
  BY <1>1, <1>2, Division
<1>9. u = n + INT_MAX + 1
  BY DEF u
<1>5. u \in 0 .. w - 1 => u % w = u
  <2> SUFFICES ASSUME u \in 0 .. w - 1 PROVE u % w = u
    OBVIOUS
  <2> DEFINE k == u \div w
  <2>1. k >= 1 => w * k >= w
    BY <1>1, <1>4, SMT
  <2>2. k <= -1 => w * k <= -w
    BY <1>1, <1>4, SMT
  <2>3. w * k \in Int
    BY <1>1, <1>4, SMT
  <2>4. k = 0
    <3> HIDE DEF k
    <3>1. ~(k >= 1) /\ ~(k <= -1)
      BY <1>1, <1>2, <1>4, <2>1, <2>2, <2>3 DEF k
    <3> QED BY <1>4, <3>1 DEF k
  <2>5. w * k = 0
    BY <1>1, <2>4, SMT
  <2> QED BY <1>4, <2>5
<1>6. ToInt(n) \in -(INT_MAX + 1) .. INT_MAX
  BY <1>1, <1>3, <1>4
<1>7. n \in -(INT_MAX + 1) .. INT_MAX => ToInt(n) = n
  <2>1. n \in -(INT_MAX + 1) .. INT_MAX => u \in 0 .. w - 1
    BY <1>1, <1>9
  <2> QED BY <1>1, <1>3, <1>5, <1>9, <2>1
<1>8. Abs(ToInt(n)) <= Abs(n)
  BY <1>1, <1>6, <1>7 DEF Abs
<1> QED BY <1>6, <1>7, <1>8 DEF FitsInt

LEMMA LeftSmall ==
  ASSUME NEW m \in Int, NEW n \in Int, n # 0
  PROVE  LET r == ToInt(Rem(m, n))
         IN /\ r \in Int /\ Abs(r) \in Nat /\ Abs(n) \in Nat /\ Abs(r) < Abs(n)
            /\ FitsInt(m) \/ FitsInt(n) => r = Rem(m, n) /\ FitsInt(r)
<1> DEFINE r == ToInt(Rem(m, n))
           q == Rem(m, n)
<1>1. /\ q \in Int /\ Abs(q) < Abs(n) /\ Abs(q) <= Abs(m)
      /\ (m >= 0 => q >= 0) /\ (m < 0 => q <= 0)
  BY RemSmall
<1>2. r \in -(INT_MAX + 1) .. INT_MAX /\ Abs(r) <= Abs(q)
  BY <1>1, ToIntSmall
<1>3. INT_MAX \in Nat
  BY DMathAssumption
<1>4. r \in Int /\ Abs(r) \in Nat /\ Abs(n) \in Nat /\ Abs(r) < Abs(n)
  <2> HIDE DEF r, q
  <2> QED BY <1>1, <1>2, <1>3 DEF Abs
<1>5. ASSUME FitsInt(m) \/ FitsInt(n) PROVE r = q /\ FitsInt(r)
  <2>1. m \in -(INT_MAX + 1) .. INT_MAX \/ n \in -(INT_MAX + 1) .. INT_MAX
    BY <1>5, ToIntSmall
  <2>2. q \in -(INT_MAX + 1) .. INT_MAX
    <3> HIDE DEF q
    <3> QED BY <1>1, <1>3, <2>1 DEF Abs
  <2>3. FitsInt(q)
    BY <1>1, <2>2, ToIntSmall
  <2> QED BY <2>3 DEF FitsInt
<1> QED BY <1>4, <1>5

\* The function that gcd calls loop.
Loops(f) ==
  f = [p \in Int \X (Int \ {0}) |->
        LET r == ToInt(Rem(p[1], p[2])) IN IF r = 0 THEN p[2] ELSE f[<<p[2], r>>]]

Pair == Int \X (Int \ {0})
Left(p) == ToInt(Rem(p[1], p[2]))

\* Rounds that go on with what g holds for divisors smaller than n.
RoundBelow(n, g) ==
  [p \in Pair |-> IF Left(p) = 0 THEN p[2]
                  ELSE IF Abs(Left(p)) < n THEN g[Abs(Left(p))][<<p[2], Left(p)>>] ELSE 0]

LEMMA PairParts ==
  ASSUME NEW p \in Pair
  PROVE  /\ p[1] \in Int /\ p[2] \in Int /\ p[2] # 0
         /\ Left(p) \in Int /\ Abs(Left(p)) \in Nat /\ Abs(p[2]) \in Nat
         /\ Abs(Left(p)) < Abs(p[2])
         /\ Left(p) # 0 => <<p[2], Left(p)>> \in Pair
<1>1. p[1] \in Int /\ p[2] \in Int /\ p[2] # 0
  BY DEF Pair
<1>2. Left(p) \in Int /\ Abs(Left(p)) \in Nat /\ Abs(p[2]) \in Nat /\ Abs(Left(p)) < Abs(p[2])
  BY <1>1, LeftSmall DEF Left
<1> QED BY <1>1, <1>2 DEF Pair

LEMMA RoundBelowTypes ==
  ASSUME NEW n \in Nat, NEW g \in [Nat -> [Pair -> Int]]
  PROVE  RoundBelow(n, g) \in [Pair -> Int]
<1>1. ASSUME NEW p \in Pair
      PROVE (IF Left(p) = 0 THEN p[2]
             ELSE IF Abs(Left(p)) < n THEN g[Abs(Left(p))][<<p[2], Left(p)>>] ELSE 0) \in Int
  <2>1. g[Abs(Left(p))] \in [Pair -> Int]
    BY PairParts
  <2>2. Left(p) # 0 => g[Abs(Left(p))][<<p[2], Left(p)>>] \in Int
    BY <2>1, PairParts
  <2> QED BY <2>2, PairParts
<1> QED BY <1>1 DEF RoundBelow

LEMMA RoundBelowLocal ==
  ASSUME NEW n \in Nat, NEW g, NEW h, \A k \in 0 .. n - 1 : g[k] = h[k]
  PROVE  RoundBelow(n, g) = RoundBelow(n, h)
<1>1. ASSUME NEW p \in Pair, Abs(Left(p)) < n PROVE g[Abs(Left(p))] = h[Abs(Left(p))]
  <2>1. PICK k \in Nat : k = Abs(Left(p))
    BY PairParts
  <2>2. k \in 0 .. n - 1
    BY <1>1, <2>1
  <2> QED BY <2>1, <2>2
<1> QED BY <1>1 DEF RoundBelow

\* The remainders fall, so the loop ends.
LEMMA LoopExists == \E f : Loops(f)
<1> DEFINE S == [Pair -> Int]
           G == [z \in Nat \X [Nat -> S] |-> RoundBelow(z[1], z[2])]
<1>1. \A n \in Nat, g \in [Nat -> S] : G[<<n, g>>] = RoundBelow(n, g)
  OBVIOUS
<1>2. G \in [Nat \X [Nat -> S] -> S]
  <2>1. \A z \in Nat \X [Nat -> S] : RoundBelow(z[1], z[2]) \in S
    BY RoundBelowTypes
  <2> HIDE DEF S
  <2> QED BY <2>1
<1>3. Descends(S, G)
  <2> HIDE DEF G, S
  <2>1. ASSUME NEW n \in Nat, NEW g \in [Nat -> S], NEW h \in [Nat -> S], \A k \in 0 .. n - 1 : g[k] = h[k]
        PROVE  G[<<n, g>>] = G[<<n, h>>]
    <3>1. RoundBelow(n, g) = RoundBelow(n, h)
      BY <2>1, RoundBelowLocal
    <3> QED BY <1>1, <3>1
  <2> QED BY <1>2, <2>1 DEF Descends
<1> HIDE DEF G
<1>4. PICK g : g \in [Nat -> S] /\ \A n \in Nat : g[n] = RoundBelow(n, g)
  <2>1. S # {}
    <3>1. [p \in Pair |-> 0] \in S
      OBVIOUS
    <3> QED BY <3>1
  <2> HIDE DEF S
  <2>2. PICK g : Descent(S, G, g)
    BY <1>3, <2>1, RecursionExists
  <2> QED BY <1>1, <2>2 DEF Descent
<1> DEFINE f == [p \in Pair |-> g[Abs(p[2])][p]]
<1>5. ASSUME NEW p \in Pair PROVE f[p] = IF Left(p) = 0 THEN p[2] ELSE f[<<p[2], Left(p)>>]
  <2>1. f[p] = g[Abs(p[2])][p]
    OBVIOUS
  <2>2. g[Abs(p[2])] = RoundBelow(Abs(p[2]), g)
    BY <1>4, PairParts
  <2>3. Left(p) # 0 => f[<<p[2], Left(p)>>] = g[Abs(Left(p))][<<p[2], Left(p)>>]
    <3>1. Left(p) # 0 => <<p[2], Left(p)>> \in Pair /\ <<p[2], Left(p)>>[2] = Left(p)
      BY PairParts
    <3> QED BY <3>1
  <2> HIDE DEF f
  <2>4. RoundBelow(Abs(p[2]), g)[p] = IF Left(p) = 0 THEN p[2] ELSE g[Abs(Left(p))][<<p[2], Left(p)>>]
    BY PairParts DEF RoundBelow
  <2> QED BY <2>1, <2>2, <2>3, <2>4
<1>6. f = [p \in Pair |-> f[p]]
  OBVIOUS
<1> HIDE DEF f
<1>7. f = [p \in Pair |-> IF Left(p) = 0 THEN p[2] ELSE f[<<p[2], Left(p)>>]]
  BY <1>5, <1>6
<1>8. Loops(f)
  BY <1>7 DEF Loops, Left, Pair
<1> QED BY <1>8

LEMMA GreatestIs ==
  ASSUME NEW m \in Int, NEW n \in Int, n # 0, NEW g \in Common(m, n), \A d \in Common(m, n) : d <= g
  PROVE  Greatest(m, n) = g
<1>1. Common(m, n) \subseteq Int
  BY DEF Common, Abs
<1>2. PICK c : c = CHOOSE d \in Common(m, n) : \A e \in Common(m, n) : e <= d
  OBVIOUS
<1>3. c \in Common(m, n) /\ \A e \in Common(m, n) : e <= c
  BY <1>2
<1>4. c = g
  BY <1>1, <1>3
<1> QED BY <1>2, <1>4 DEF Greatest

\* Divided exactly, the divisor is the greatest common one.
LEMMA GreatestDivided ==
  ASSUME NEW m \in Int, NEW n \in Int, n # 0, NEW q \in Int, m = n * q
  PROVE  Greatest(m, n) = Abs(n)
<1>1. Abs(n) \in Nat \ {0} /\ divides(Abs(n), n)
  BY DividesSelf
<1>2. divides(Abs(n), m)
  <2>1. PICK i \in Int : n = Abs(n) * i
    BY <1>1, DivisorOfInt
  <2>2. m = Abs(n) * (i * q) /\ i * q \in Int
    <3>1. (Abs(n) * i) * q = Abs(n) * (i * q)
      BY <1>1, SMT
    <3>2. i * q \in Int
      BY SMT
    <3> QED BY <2>1, <3>1, <3>2
  <2> QED BY <1>1, <2>2, DivisorOfInt
<1>3. Abs(n) \in Common(m, n)
  BY <1>1, <1>2 DEF Common
<1>4. \A d \in Common(m, n) : d <= Abs(n)
  BY <1>1 DEF Common
<1> QED BY <1>3, <1>4, GreatestIs

SameDivisors(m, n, k, l) ==
  \A d \in Nat \ {0} : divides(d, m) /\ divides(d, n) <=> divides(d, k) /\ divides(d, l)

\* A round keeps the common divisors.
LEMMA CommonSame ==
  ASSUME NEW m \in Int, NEW n \in Int, n # 0, NEW k \in Int, NEW l \in Int, l # 0,
         SameDivisors(m, n, k, l)
  PROVE  Common(m, n) = Common(k, l) /\ Greatest(m, n) = Greatest(k, l)
<1>1. ASSUME NEW i \in Int, NEW j \in Int, j # 0
      PROVE  Common(i, j) = {d \in Nat \ {0} : divides(d, i) /\ divides(d, j)}
  <2>1. Abs(j) \in Nat
    BY DEF Abs
  <2>2. \A d \in Nat \ {0} : divides(d, j) => d <= Abs(j)
    BY <1>1, DivisorSmall
  <2> QED BY <2>1, <2>2 DEF Common
<1>2. Common(m, n) = Common(k, l)
  <2>1. Common(m, n) = {d \in Nat \ {0} : divides(d, m) /\ divides(d, n)}
    BY <1>1
  <2>2. Common(k, l) = {d \in Nat \ {0} : divides(d, k) /\ divides(d, l)}
    BY <1>1
  <2> QED BY <2>1, <2>2 DEF SameDivisors
<1> QED BY <1>2 DEF Greatest

LEMMA LoopRight ==
  ASSUME NEW f, Loops(f), NEW m \in Int, NEW n \in Int, n # 0, FitsInt(m) \/ FitsInt(n)
  PROVE  f[<<m, n>>] \in Int /\ Abs(f[<<m, n>>]) = Greatest(m, n)
<1> DEFINE S == {k \in Nat : \A i, j \in Int :
                   j # 0 /\ Abs(j) = k /\ (FitsInt(i) \/ FitsInt(j)) =>
                     f[<<i, j>>] \in Int /\ Abs(f[<<i, j>>]) = Greatest(i, j)}
<1>1. ASSUME NEW k \in Nat, \A l \in 0 .. k - 1 : l \in S PROVE k \in S
  <2> SUFFICES ASSUME NEW i \in Int, NEW j \in Int, j # 0, Abs(j) = k, FitsInt(i) \/ FitsInt(j)
               PROVE  f[<<i, j>>] \in Int /\ Abs(f[<<i, j>>]) = Greatest(i, j)
    OBVIOUS
  <2> DEFINE r == ToInt(Rem(i, j))
  <2>1. r \in Int /\ Abs(r) \in Nat /\ Abs(r) < k /\ r = Rem(i, j) /\ FitsInt(r)
    BY LeftSmall
  <2>2. f[<<i, j>>] = IF r = 0 THEN j ELSE f[<<j, r>>]
    <3>1. <<i, j>> \in Int \X (Int \ {0}) /\ <<i, j>>[1] = i /\ <<i, j>>[2] = j
      OBVIOUS
    <3> QED BY <3>1 DEF Loops
  <2>3. Quot(i, j) \in Int /\ r = i - j * Quot(i, j)
    BY <2>1, QuotInt DEF Rem
  <2> HIDE DEF r
  <2>4. CASE r = 0
    <3>1. i = j * Quot(i, j)
      <4>1. j * Quot(i, j) \in Int
        BY <2>3, SMT
      <4> QED BY <2>3, <2>4, <4>1
    <3> QED BY <2>2, <2>3, <2>4, <3>1, GreatestDivided
  <2>5. CASE r # 0
    <3>1. f[<<j, r>>] \in Int /\ Abs(f[<<j, r>>]) = Greatest(j, r)
      <4>1. Abs(r) \in 0 .. k - 1
        BY <2>1
      <4> QED BY <1>1, <2>1, <2>5, <4>1
    <3>2. SameDivisors(i, j, j, r)
      BY <2>1, <2>3, CommonKept DEF SameDivisors
    <3>3. Greatest(i, j) = Greatest(j, r)
      BY <2>1, <2>5, <3>2, CommonSame
    <3> QED BY <2>2, <2>5, <3>1, <3>3
  <2> QED BY <2>4, <2>5
<1>2. Nat \subseteq S
  <2> HIDE DEF S
  <2> QED BY <1>1, SetInduction
<1>3. Abs(n) \in S
  BY <1>2 DEF Abs
<1> QED BY <1>3

\* gcd, dmath.c:68: although the remainder is kept in an int, the answer is
\* right when one of the longs fits an int.
THEOREM GcdIsGreatest ==
  \A m, n \in Int :
    /\ m = 0 \/ n = 0 => gcd(m, n) = -EDOM
    /\ m # 0 /\ n # 0 /\ (FitsInt(m) \/ FitsInt(n)) => gcd(m, n) = Greatest(m, n)
<1> SUFFICES ASSUME NEW m \in Int, NEW n \in Int
             PROVE  /\ m = 0 \/ n = 0 => gcd(m, n) = -EDOM
                    /\ m # 0 /\ n # 0 /\ (FitsInt(m) \/ FitsInt(n)) => gcd(m, n) = Greatest(m, n)
  OBVIOUS
<1>1. PICK f : f = CHOOSE g : Loops(g)
  OBVIOUS
<1>2. Loops(f)
  BY <1>1, LoopExists
<1>3. gcd(m, n) = IF m = 0 \/ n = 0 THEN -EDOM ELSE Abs(f[<<m, n>>])
  BY <1>1 DEF gcd, Loops
<1> QED BY <1>2, <1>3, LoopRight

LEMMA GreatestParts ==
  ASSUME NEW m \in Int, NEW n \in Int, n # 0
  PROVE  Greatest(m, n) \in Common(m, n) /\ \A d \in Common(m, n) : d <= Greatest(m, n)
<1> DEFINE T == {k \in Nat : \E d \in Common(m, n) : k = Abs(n) - d}
<1>1. Abs(n) \in Nat \ {0} /\ \A d \in Common(m, n) : d \in Nat /\ d >= 1 /\ d <= Abs(n)
  BY DEF Common, Abs
<1>2. 1 \in Common(m, n)
  BY <1>1, OneDivides DEF Common
<1>3. T # {} /\ T \subseteq Nat
  <2>1. Abs(n) - 1 \in T
    BY <1>1, <1>2
  <2> QED BY <2>1
<1>4. PICK k \in T : \A l \in T : k <= l
  <2> HIDE DEF T
  <2> QED BY <1>3, LeastNatural
<1>5. PICK g \in Common(m, n) : k = Abs(n) - g
  OBVIOUS
<1>6. ASSUME NEW d \in Common(m, n) PROVE d <= g
  <2>1. Abs(n) - d \in T
    BY <1>1
  <2>2. k <= Abs(n) - d
    BY <1>4, <2>1
  <2> QED BY <1>1, <1>5, <2>2
<1>7. Greatest(m, n) = g
  BY <1>6, GreatestIs
<1> QED BY <1>6, <1>7

\* arecoprime, dmath.c:103: 1 is the only common divisor.
THEOREM ArecoprimeIsRight ==
  \A m, n \in Int :
    m = 0 \/ n = 0 \/ FitsInt(m) \/ FitsInt(n) => arecoprime(m, n) = Bool(Coprime(m, n))
<1> SUFFICES ASSUME NEW m \in Int, NEW n \in Int, m = 0 \/ n = 0 \/ FitsInt(m) \/ FitsInt(n)
             PROVE  arecoprime(m, n) = Bool(Coprime(m, n))
  OBVIOUS
<1>1. CASE m = 0 \/ n = 0
  <2>1. gcd(m, n) = -EDOM /\ -EDOM # 1
    BY <1>1, GcdIsGreatest, DMathAssumption
  <2> QED BY <1>1, <2>1 DEF arecoprime, Coprime, Bool
<1>2. CASE m # 0 /\ n # 0
  <2>1. gcd(m, n) = Greatest(m, n)
    BY <1>2, GcdIsGreatest
  <2>2. Greatest(m, n) \in Common(m, n) /\ \A d \in Common(m, n) : d <= Greatest(m, n)
    BY <1>2, GreatestParts
  <2>3. 1 \in Common(m, n) /\ \A d \in Common(m, n) : d \in Nat /\ d >= 1
    <3>1. Abs(n) \in Nat \ {0}
      BY <1>2 DEF Abs
    <3> QED BY <3>1, OneDivides DEF Common
  <2>4. Greatest(m, n) = 1 <=> Common(m, n) = {1}
    BY <2>2, <2>3
  <2> QED BY <1>2, <2>1, <2>4 DEF arecoprime, Coprime, Bool
<1> QED BY <1>1, <1>2
-----------------------------------------------------------------------------
\* In every round the remainders at hand have the common divisors of the
\* numbers that extended_gcd was called with.
Euclid == pc = "extended_gcd" => a0 # 0 /\ b0 # 0 /\ SameDivisors(a0, b0, a, b)

\* What extended_gcd returns to a client is the greatest common divisor, or
\* the error for a 0.
EuclidReturned ==
  Answered /\ asked.fn = "extended_gcd" =>
    LET m == asked.args[1]
        n == asked.args[2]
    IN answer = IF m = 0 \/ n = 0 THEN -EDOM ELSE Greatest(m, n)

EuclidInv == IInv /\ Euclid /\ EuclidReturned

LEMMA EnterEuclid ==
  ASSUME NEW m, NEW n, m # 0, n # 0, Enter(m, n)
  PROVE  Euclid'
<1>1. a0' = m /\ b0' = n /\ a' = m /\ b' = n
  BY DEF Enter
<1> QED BY <1>1 DEF Euclid, SameDivisors

\* Calls of other functions.
LEMMA OthersEuclid ==
  ASSUME EuclidInv, asked'.fn # "extended_gcd", pc' # "extended_gcd"
  PROVE  Euclid' /\ EuclidReturned'
BY DEF Euclid, EuclidReturned

LEMMA ExtendedGcdEuclid ==
  ASSUME EuclidInv, NoCall, NEW m \in Int, NEW n \in Int, extended_gcd(m, n)
  PROVE  Euclid' /\ EuclidReturned'
<1>1. asked' = [fn |-> "extended_gcd", args |-> <<m, n>>]
  BY DEF extended_gcd, Ask
<1>2. CASE m = 0 \/ n = 0
  <2>1. answer' = -EDOM /\ pc' = "idle"
    BY <1>2 DEF extended_gcd, NoCall
  <2> QED BY <1>1, <1>2, <2>1 DEF Euclid, EuclidReturned
<1>3. CASE ~(m = 0 \/ n = 0)
  <2>1. Enter(m, n) /\ answer' = NULL
    BY <1>3 DEF extended_gcd, NoCall
  <2> QED BY <1>3, <2>1, EnterEuclid DEF EuclidReturned, Answered
<1> QED BY <1>2, <1>3

LEMMA RoundEuclid ==
  ASSUME EuclidInv, Round
  PROVE  Euclid' /\ EuclidReturned'
<1>1. /\ pc = "extended_gcd" /\ a \in Int /\ b \in Int /\ b # 0 /\ a0 # 0 /\ b0 # 0 /\ answer = NULL
      /\ SameDivisors(a0, b0, a, b)
  BY DEF Round, EuclidInv, IInv, Numbers, Callers, Factors, Euclid
<1>2. /\ a' = b /\ b' = Rem(a, b) /\ a0' = a0 /\ b0' = b0 /\ answer' = NULL
  BY <1>1 DEF Round
<1>3. Quot(a, b) \in Int /\ Rem(a, b) \in Int /\ Rem(a, b) = a - b * Quot(a, b)
  BY <1>1, QuotInt, RemInt DEF Rem
<1>4. \A d \in Nat \ {0} : divides(d, a) /\ divides(d, b) <=> divides(d, b) /\ divides(d, Rem(a, b))
  BY <1>1, <1>3, CommonKept
<1>5. SameDivisors(a0', b0', a', b')
  BY <1>1, <1>2, <1>4 DEF SameDivisors
<1> QED BY <1>1, <1>2, <1>5 DEF Euclid, EuclidReturned, Answered

LEMMA RoundsEndEuclid ==
  ASSUME EuclidInv, RoundsEnd
  PROVE  Euclid' /\ EuclidReturned'
<1>1. /\ pc = "extended_gcd" /\ a \in Int /\ b \in Int /\ b # 0 /\ a0 # 0 /\ b0 # 0 /\ a0 \in Int /\ b0 \in Int
      /\ answer = NULL /\ SameDivisors(a0, b0, a, b) /\ Rem(a, b) = 0
  BY DEF RoundsEnd, EuclidInv, IInv, Numbers, Callers, Factors, Euclid
<1>2. asked' = asked
  BY DEF RoundsEnd
<1>3. Greatest(a0, b0) = Abs(b)
  <2>1. Quot(a, b) \in Int /\ a = b * Quot(a, b)
    <3>1. Quot(a, b) \in Int /\ a - b * Quot(a, b) = 0
      BY <1>1, QuotInt DEF Rem
    <3>2. b * Quot(a, b) \in Int
      BY <1>1, <3>1, SMT
    <3> QED BY <1>1, <3>1, <3>2
  <2>2. Greatest(a, b) = Abs(b)
    BY <1>1, <2>1, GreatestDivided
  <2>3. Greatest(a0, b0) = Greatest(a, b)
    BY <1>1, CommonSame
  <2> QED BY <2>2, <2>3
<1>4. CASE asked.fn = "extended_gcd"
  <2>1. pc' = "idle" /\ answer' = Abs(b)
    BY <1>4 DEF RoundsEnd
  <2>2. asked.args = <<a0, b0>>
    BY <1>1, <1>4 DEF EuclidInv, IInv, Factors
  <2> QED BY <1>1, <1>2, <1>3, <2>1, <2>2 DEF Euclid, EuclidReturned
<1>5. CASE asked.fn # "extended_gcd"
  <2>1. Found
    BY <1>5 DEF RoundsEnd
  <2>2. pc' # "extended_gcd"
    BY <2>1 DEF Found
  <2> QED BY <1>2, <1>5, <2>2 DEF Euclid, EuclidReturned
<1> QED BY <1>4, <1>5

LEMMA FindInverseEuclid ==
  ASSUME EuclidInv, FindInverse
  PROVE  Euclid' /\ EuclidReturned'
<1> DEFINE i == Len(y) + 1
<1>1. pc = "inverses" /\ asked.fn = "chinese_remainder" /\ asked' = asked
      /\ asked.args[2] \in Seq(Int \ {0}) /\ y \in Seq(Int)
  BY DEF FindInverse, EuclidInv, IInv, Callers, Nonzero, Numbers
<1>2. asked.args[2][i] \in Int \ {0}
  <2>1. i \in 1 .. Len(asked.args[2])
    BY <1>1, LenProperties DEF FindInverse
  <2> QED BY <1>1, <2>1, ElementOfSeq
<1>3. CASE M(i) = 0
  BY <1>1, <1>3 DEF FindInverse, Euclid, EuclidReturned
<1>4. CASE M(i) # 0
  <2>1. Enter(M(i), asked.args[2][i])
    BY <1>4 DEF FindInverse
  <2>2. Euclid'
    BY <1>2, <1>4, <2>1, EnterEuclid
  <2> QED BY <1>1, <2>2 DEF EuclidReturned
<1> QED BY <1>3, <1>4

LEMMA ProductEuclid ==
  ASSUME EuclidInv, Multiply \/ Combine
  PROVE  Euclid' /\ EuclidReturned'
<1>1. asked' = asked /\ asked.fn = "chinese_remainder" /\ pc' # "extended_gcd"
  BY DEF Multiply, Combine, EuclidInv, IInv, Callers
<1> QED BY <1>1 DEF Euclid, EuclidReturned

LEMMA EuclidKept ==
  ASSUME EuclidInv, [Next]_vars
  PROVE  EuclidInv'
<1> SUFFICES Euclid' /\ EuclidReturned'
  BY InvariantKept DEF EuclidInv
<1>1. CASE Immediate
  <2>1. asked'.fn # "extended_gcd" /\ pc' # "extended_gcd"
    BY <1>1 DEF Immediate, Ask, NoCall
  <2> QED BY <2>1, OthersEuclid
<1>2. CASE NoCall /\ \E m, n \in Int : extended_gcd(m, n)
  BY <1>2, ExtendedGcdEuclid
<1>3. CASE NoCall /\ \E n \in Nat : \E xs \in [1 .. n -> Remainders], ms \in [1 .. n -> Moduli] :
             chinese_remainder(xs, ms)
  <2>1. asked'.fn # "extended_gcd" /\ pc' # "extended_gcd"
    BY <1>3 DEF chinese_remainder, Ask, NoCall
  <2> QED BY <2>1, OthersEuclid
<1>4. CASE Forget
  <2>1. pc' # "extended_gcd" /\ ~Answered'
    BY <1>4 DEF Forget, Answered, EuclidInv, IInv, Callers
  <2> QED BY <2>1 DEF EuclidInv, Euclid, EuclidReturned
<1>5. CASE UNCHANGED vars
  BY <1>5 DEF vars, locals, EuclidInv, Euclid, EuclidReturned, Answered, SameDivisors
<1> QED
  BY <1>1, <1>2, <1>3, <1>4, <1>5, Steps, RoundEuclid, RoundsEndEuclid, FindInverseEuclid, ProductEuclid

\* extended_gcd, dmath.c:139: what it returns is the greatest common divisor
\* of its arguments, for longs of any size and sign.
THEOREM ExtendedGcdIsGreatest == Spec => []EuclidReturned
<1>1. Init => EuclidInv
  <2> SUFFICES ASSUME Init PROVE EuclidInv
    OBVIOUS
  <2>1. IInv
    BY EmptySeq DEF Init, IInv, Numbers, Callers, Nonzero, Factors, Returned, Answered
  <2> QED BY <2>1 DEF Init, EuclidInv, Euclid, EuclidReturned, Answered
<1>2. EuclidInv /\ [Next]_vars => EuclidInv'
  BY EuclidKept
<1>3. EuclidInv => EuclidReturned
  BY DEF EuclidInv
<1> QED BY <1>1, <1>2, <1>3, PTL DEF Spec
-----------------------------------------------------------------------------
(***************************************************************************)
(* The sizes of the factors of extended_gcd.                               *)
(***************************************************************************)
\* The quotient and the remainder by their sizes and signs.
LEMMA RemParts ==
  ASSUME NEW m \in Int, NEW n \in Int, n # 0
  PROVE  \E k \in Nat :
           /\ Abs(m) = Abs(n) * k + Abs(Rem(m, n))
           /\ Quot(m, n) = IF (m >= 0) = (n > 0) THEN k ELSE -k
<1>1. PICK i \in Nat : i = Abs(m)
  BY DEF Abs
<1>2. PICK d \in Nat \ {0} : d = Abs(n)
  BY DEF Abs
<1>3. PICK k \in Nat : k = i \div d
  <2>1. i \div d \in Nat
    BY Division
  <2> QED BY <2>1
<1>4. PICK l \in Nat : l = i % d
  <2>1. i % d \in Nat
    BY Division
  <2> QED BY <2>1
<1>5. i = d * k + l
  BY <1>3, <1>4, Division
<1>6. Quot(m, n) = IF (m >= 0) = (n > 0) THEN k ELSE -k
  BY <1>1, <1>2, <1>3 DEF Quot
<1>7. /\ n * (-k) = -(n * k) /\ n * k \in Int /\ d * k \in Nat
      /\ (-n) * k = -(n * k)
  BY SMT
<1>8. Rem(m, n) = l \/ Rem(m, n) = -l
  <2>1. CASE m >= 0 /\ n > 0
    BY <1>1, <1>2, <1>5, <1>6, <1>7, <2>1 DEF Rem, Abs
  <2>2. CASE m >= 0 /\ n < 0
    <3>1. d = -n /\ d * k = -(n * k) /\ Quot(m, n) = -k /\ i = m
      BY <1>1, <1>2, <1>6, <1>7, <2>2 DEF Abs
    <3> QED BY <1>5, <1>7, <3>1 DEF Rem
  <2>3. CASE m < 0 /\ n > 0
    <3>1. d = n /\ Quot(m, n) = -k /\ i = -m
      BY <1>1, <1>2, <1>6, <2>3 DEF Abs
    <3> QED BY <1>5, <1>7, <3>1 DEF Rem
  <2>4. CASE m < 0 /\ n < 0
    <3>1. d = -n /\ d * k = -(n * k) /\ Quot(m, n) = k /\ i = -m
      BY <1>1, <1>2, <1>6, <1>7, <2>4 DEF Abs
    <3> QED BY <1>5, <1>7, <3>1 DEF Rem
  <2> QED BY <2>1, <2>2, <2>3, <2>4
<1>9. Abs(Rem(m, n)) = l
  BY <1>8 DEF Abs
<1> QED BY <1>1, <1>2, <1>5, <1>6, <1>9

\* Neighbouring factors have opposite signs where their remainders have equal
\* ones, and equal signs where those have opposite ones.
Opposed(f, fprev, m, n) == f # 0 /\ fprev # 0 => ((f > 0) = (fprev > 0)) # ((m > 0) = (n > 0))

\* So a round adds up their sizes.
LEMMA RoundSizes ==
  ASSUME NEW m \in Int, NEW n \in Int, m # 0, n # 0, NEW f \in Int, NEW fprev \in Int,
         Opposed(f, fprev, m, n), Rem(m, n) # 0
  PROVE  /\ Abs(fprev - f * Quot(m, n)) * Abs(n) + Abs(f) * Abs(Rem(m, n)) = Abs(f) * Abs(m) + Abs(fprev) * Abs(n)
         /\ Opposed(fprev - f * Quot(m, n), f, n, Rem(m, n))
<1>1. PICK k \in Nat : /\ Abs(m) = Abs(n) * k + Abs(Rem(m, n))
                       /\ Quot(m, n) = IF (m >= 0) = (n > 0) THEN k ELSE -k
  BY RemParts
<1>2. PICK r \in Int : r = Rem(m, n) /\ (m > 0 => r > 0) /\ (m < 0 => r < 0)
  <2>1. Rem(m, n) \in Int /\ (m >= 0 => Rem(m, n) >= 0) /\ (m < 0 => Rem(m, n) <= 0)
    BY RemSmall
  <2> QED BY <2>1
<1>3. PICK g \in Int : g = fprev - f * Quot(m, n)
  <2>1. f * Quot(m, n) \in Int
    BY QuotInt, SMT
  <2> QED BY <2>1
<1>4. PICK fk \in Int : /\ fk = f * k /\ f * (-k) = -fk
                        /\ f > 0 => fk >= 0
                        /\ f < 0 => fk <= 0
                        /\ f = 0 => fk = 0
                        /\ Abs(f) * k = Abs(fk)
  <2>1. f * k \in Int /\ f * (-k) = -(f * k) /\ (-f) * k = -(f * k)
    BY SMT
  <2>2. f > 0 => f * k >= 0
    BY SMT
  <2>3. f < 0 => f * k <= 0
    BY SMT
  <2>4. f = 0 => f * k = 0
    BY SMT
  <2> QED BY <2>1, <2>2, <2>3, <2>4 DEF Abs
<1>5. g = fprev - fk \/ g = fprev + fk
  BY <1>1, <1>3, <1>4
<1>6. g = IF (m > 0) = (n > 0) THEN fprev - fk ELSE fprev + fk
  BY <1>1, <1>3, <1>4
<1>7. Abs(g) = Abs(fprev) + Abs(fk) /\ Opposed(g, f, n, r)
  <2>1. CASE f = 0
    BY <1>4, <1>6, <2>1 DEF Abs, Opposed
  <2>2. CASE f > 0
    BY <1>2, <1>4, <1>6, <2>2 DEF Abs, Opposed
  <2>3. CASE f < 0
    BY <1>2, <1>4, <1>6, <2>3 DEF Abs, Opposed
  <2> QED BY <2>1, <2>2, <2>3
<1>8. PICK E \in Nat, G \in Nat, N \in Nat, R \in Nat :
        E = Abs(f) /\ G = Abs(fprev) /\ N = Abs(n) /\ R = Abs(r)
  BY DEF Abs
<1>9. (G + E * k) * N + E * R = E * (N * k + R) + G * N
  <2>1. (G + E * k) * N = G * N + E * (N * k)
    BY SMT
  <2>2. E * (N * k + R) = E * (N * k) + E * R
    BY SMT
  <2>3. G * N \in Int /\ E * (N * k) \in Int /\ E * R \in Int
    BY SMT
  <2> QED BY <2>1, <2>2, <2>3
<1>10. Abs(g) = G + E * k /\ Abs(m) = N * k + R
  BY <1>1, <1>2, <1>4, <1>7, <1>8
<1> QED BY <1>2, <1>3, <1>7, <1>8, <1>9, <1>10

\* The factors of neighbouring remainders are as large as these allow.
Bounded ==
  pc = "extended_gcd" =>
    /\ a # 0
    /\ Abs(s) * Abs(a) + Abs(sprev) * Abs(b) = Abs(b0) /\ Opposed(s, sprev, a, b)
    /\ Abs(t) * Abs(a) + Abs(tprev) * Abs(b) = Abs(a0) /\ Opposed(t, tprev, a, b)

\* No factor gets larger than the number it does not belong to: not in what is
\* returned,
FactorsReturned ==
  Answered /\ asked.fn = "extended_gcd" =>
    Abs(s) <= Abs(asked.args[2]) /\ Abs(t) <= Larger(Abs(asked.args[1]), 1)

\* and in no round.
FactorsBounded ==
  /\ pc = "extended_gcd" =>
       /\ Abs(s) <= Abs(b0) /\ Abs(sprev) <= Abs(b0)
       /\ Abs(t) <= Abs(a0) /\ Abs(tprev) <= Abs(a0)
  /\ FactorsReturned

LEMMA BoundedSmall ==
  ASSUME IInv, Euclid, Bounded, pc = "extended_gcd"
  PROVE  /\ Abs(s) <= Abs(b0) /\ Abs(sprev) <= Abs(b0)
         /\ Abs(t) <= Abs(a0) /\ Abs(tprev) <= Abs(a0)
<1>1. /\ a \in Int /\ b \in Int /\ s \in Int /\ t \in Int /\ sprev \in Int /\ tprev \in Int
      /\ a0 \in Int /\ b0 \in Int /\ a # 0 /\ b # 0
      /\ Abs(s) * Abs(a) + Abs(sprev) * Abs(b) = Abs(b0)
      /\ Abs(t) * Abs(a) + Abs(tprev) * Abs(b) = Abs(a0)
  BY DEF IInv, Numbers, Factors, Bounded
<1>2. ASSUME NEW f \in Nat, NEW g \in Nat, NEW m \in Nat \ {0}, NEW n \in Nat \ {0}, NEW k, f * m + g * n = k
      PROVE  f <= k /\ g <= k
  <2>1. f * m >= f /\ f * m \in Nat
    BY SMT
  <2>2. g * n >= g /\ g * n \in Nat
    BY SMT
  <2>3. PICK i \in Nat, j \in Nat : i = f * m /\ j = g * n
    BY <2>1, <2>2
  <2> QED BY <1>2, <2>1, <2>2, <2>3
<1>3. /\ Abs(s) \in Nat /\ Abs(sprev) \in Nat /\ Abs(t) \in Nat /\ Abs(tprev) \in Nat
      /\ Abs(a) \in Nat \ {0} /\ Abs(b) \in Nat \ {0}
  BY <1>1 DEF Abs
<1> QED BY ONLY <1>1, <1>2, <1>3, Zenon

LEMMA EnterBounded ==
  ASSUME NEW m \in Int, NEW n \in Int, m # 0, n # 0, Enter(m, n)
  PROVE  Bounded'
<1>1. a' = m /\ b' = n /\ a0' = m /\ b0' = n /\ s' = 0 /\ t' = 1 /\ sprev' = 1 /\ tprev' = 0
  BY DEF Enter
<1>2. PICK p \in Nat, q \in Nat : p = Abs(m) /\ q = Abs(n) /\ Abs(0) = 0 /\ Abs(1) = 1
  BY DEF Abs
<1>3. 0 * p + 1 * q = q /\ 1 * p + 0 * q = p
  BY SMT
<1>4. Opposed(0, 1, m, n) /\ Opposed(1, 0, m, n)
  BY DEF Opposed
<1>5. Abs(0) * Abs(m) + Abs(1) * Abs(n) = Abs(n) /\ Abs(1) * Abs(m) + Abs(0) * Abs(n) = Abs(m)
  BY <1>2, <1>3
<1> QED BY <1>1, <1>4, <1>5 DEF Bounded

LEMMA RoundBounded ==
  ASSUME IInv, Bounded, Round
  PROVE  Bounded'
<1>1. /\ pc = "extended_gcd" /\ a \in Int /\ b \in Int /\ s \in Int /\ t \in Int /\ sprev \in Int /\ tprev \in Int
      /\ a0 \in Int /\ b0 \in Int /\ a # 0 /\ b # 0 /\ Rem(a, b) # 0
  BY DEF IInv, Numbers, Factors, Bounded, Round
<1>2. /\ Abs(s) * Abs(a) + Abs(sprev) * Abs(b) = Abs(b0) /\ Opposed(s, sprev, a, b)
      /\ Abs(t) * Abs(a) + Abs(tprev) * Abs(b) = Abs(a0) /\ Opposed(t, tprev, a, b)
  BY <1>1 DEF Bounded
<1>3. /\ a' = b /\ b' = Rem(a, b) /\ a0' = a0 /\ b0' = b0
      /\ s' = sprev - s * Quot(a, b) /\ sprev' = s /\ t' = tprev - t * Quot(a, b) /\ tprev' = t
  BY DEF Round
<1>4. /\ Abs(sprev - s * Quot(a, b)) * Abs(b) + Abs(s) * Abs(Rem(a, b)) = Abs(b0)
      /\ Opposed(sprev - s * Quot(a, b), s, b, Rem(a, b))
  <2>1. /\ Abs(sprev - s * Quot(a, b)) * Abs(b) + Abs(s) * Abs(Rem(a, b)) = Abs(s) * Abs(a) + Abs(sprev) * Abs(b)
        /\ Opposed(sprev - s * Quot(a, b), s, b, Rem(a, b))
    BY ONLY <1>1, <1>2, RoundSizes, Zenon
  <2> QED BY ONLY <1>2, <2>1, Zenon
<1>5. /\ Abs(tprev - t * Quot(a, b)) * Abs(b) + Abs(t) * Abs(Rem(a, b)) = Abs(a0)
      /\ Opposed(tprev - t * Quot(a, b), t, b, Rem(a, b))
  <2>1. /\ Abs(tprev - t * Quot(a, b)) * Abs(b) + Abs(t) * Abs(Rem(a, b)) = Abs(t) * Abs(a) + Abs(tprev) * Abs(b)
        /\ Opposed(tprev - t * Quot(a, b), t, b, Rem(a, b))
    BY ONLY <1>1, <1>2, RoundSizes, Zenon
  <2> QED BY ONLY <1>2, <2>1, Zenon
<1> QED BY ONLY <1>1, <1>3, <1>4, <1>5, Zenon DEF Bounded

\* The factors that are returned differ from those of the last round in sign.
LEMMA RoundsEndBounded ==
  ASSUME IInv, Euclid, Bounded, RoundsEnd
  PROVE  /\ s' \in Int /\ t' \in Int /\ Abs(s') = Abs(s) /\ Abs(t') = Abs(t)
         /\ Abs(s') <= Abs(b0) /\ Abs(t') <= Abs(a0)
<1>1. pc = "extended_gcd" /\ s \in Int /\ t \in Int
  BY DEF RoundsEnd, IInv, Numbers
<1>2. (s' = s \/ s' = -s) /\ (t' = t \/ t' = -t)
  BY DEF RoundsEnd
<1>3. s' \in Int /\ t' \in Int /\ Abs(s') = Abs(s) /\ Abs(t') = Abs(t)
  BY <1>1, <1>2 DEF Abs
<1> QED BY <1>1, <1>3, BoundedSmall

LEMMA RoundsEndFactors ==
  ASSUME IInv, Euclid, Bounded, RoundsEnd
  PROVE  Bounded' /\ FactorsReturned'
<1>1. pc' # "extended_gcd" /\ asked' = asked
  BY DEF RoundsEnd, Found
<1>2. ASSUME asked.fn = "extended_gcd"
      PROVE  Abs(s') <= Abs(asked.args[2]) /\ Abs(t') <= Larger(Abs(asked.args[1]), 1)
  <2>1. asked.args = <<a0, b0>> /\ a0 \in Int
    BY <1>2 DEF RoundsEnd, IInv, Factors, Numbers
  <2>2. Abs(s') <= Abs(b0) /\ Abs(t') <= Abs(a0) /\ Abs(t') \in Int
    BY RoundsEndBounded DEF Abs
  <2>3. Abs(a0) \in Int /\ Abs(a0) <= Larger(Abs(a0), 1) /\ Larger(Abs(a0), 1) \in Int
    BY <2>1 DEF Larger, Abs
  <2>4. Abs(t') <= Larger(Abs(a0), 1)
    BY <2>2, <2>3
  <2>5. asked.args[1] = a0 /\ asked.args[2] = b0
    BY <2>1
  <2> QED BY <2>2, <2>4, <2>5
<1> QED BY <1>1, <1>2 DEF Bounded, FactorsReturned

LEMMA ExtendedGcdFactors ==
  ASSUME IInv, NoCall, NEW m \in Int, NEW n \in Int, extended_gcd(m, n)
  PROVE  Bounded' /\ FactorsReturned'
<1>1. asked' = [fn |-> "extended_gcd", args |-> <<m, n>>]
  BY DEF extended_gcd, Ask
<1>2. CASE m = 0 \/ n = 0
  <2>1. s' = 0 /\ t' = 0 /\ pc' = "idle"
    BY <1>2 DEF extended_gcd, NoCall
  <2>2. Abs(0) <= Abs(n) /\ Abs(0) <= Larger(Abs(m), 1)
    BY DEF Abs, Larger
  <2>3. asked'.args[1] = m /\ asked'.args[2] = n
    BY <1>1
  <2> QED BY <2>1, <2>2, <2>3 DEF Bounded, FactorsReturned
<1>3. CASE ~(m = 0 \/ n = 0)
  <2>1. Enter(m, n) /\ answer' = NULL
    BY <1>3 DEF extended_gcd, NoCall
  <2> QED BY <1>3, <2>1, EnterBounded DEF FactorsReturned, Answered
<1> QED BY <1>2, <1>3
-----------------------------------------------------------------------------
(***************************************************************************)
(* chinese_remainder. The product of the moduli but one has an inverse for *)
(* that one, and a term leaves no remainder for the others.                *)
(***************************************************************************)
\* A row of integers, each made of its place and the one before.
Row(r, n, first, next) == r = [i \in 0 .. n |-> IF i = 0 THEN first ELSE next[<<i, r[i - 1]>>]]

LEMMA RowExists ==
  ASSUME NEW n \in Nat, NEW first \in Int, NEW next \in [(1 .. n) \X Int -> Int]
  PROVE  \E r : Row(r, n, first, next)
<1> DEFINE def == [z \in Nat \X [Nat -> Int] |->
              IF z[1] = 0 THEN first ELSE IF z[1] <= n THEN next[<<z[1], z[2][z[1] - 1]>>] ELSE 0]
<1>1. ASSUME NEW k \in Nat, NEW g \in [Nat -> Int]
      PROVE  /\ def[<<k, g>>] = IF k = 0 THEN first ELSE IF k <= n THEN next[<<k, g[k - 1]>>] ELSE 0
             /\ def[<<k, g>>] \in Int
  <2>1. def[<<k, g>>] = IF k = 0 THEN first ELSE IF k <= n THEN next[<<k, g[k - 1]>>] ELSE 0
    OBVIOUS
  <2>2. k # 0 /\ k <= n => next[<<k, g[k - 1]>>] \in Int
    <3>1. k # 0 /\ k <= n => <<k, g[k - 1]>> \in (1 .. n) \X Int
      OBVIOUS
    <3> QED BY <3>1
  <2> HIDE DEF def
  <2> QED BY <2>1, <2>2
<1>2. def \in [Nat \X [Nat -> Int] -> Int]
  <2>1. \A z \in Nat \X [Nat -> Int] : z = <<z[1], z[2]>> /\ z[1] \in Nat /\ z[2] \in [Nat -> Int]
    OBVIOUS
  <2>2. \A z \in Nat \X [Nat -> Int] : def[z] \in Int
    <3> HIDE DEF def
    <3> QED BY <1>1, <2>1
  <2>3. def = [z \in Nat \X [Nat -> Int] |-> def[z]]
    OBVIOUS
  <2> HIDE DEF def
  <2> QED BY <2>2, <2>3
<1> HIDE DEF def
<1>3. Descends(Int, def)
  <2>1. ASSUME NEW k \in Nat, NEW g \in [Nat -> Int], NEW h \in [Nat -> Int], \A j \in 0 .. k - 1 : g[j] = h[j]
        PROVE  def[<<k, g>>] = def[<<k, h>>]
    <3>1. k # 0 => g[k - 1] = h[k - 1]
      BY <2>1
    <3> QED BY <1>1, <3>1
  <2> QED BY <1>2, <2>1 DEF Descends
<1>4. PICK f : Descent(Int, def, f)
  BY <1>3, RecursionExists
<1>5. f \in [Nat -> Int] /\ \A k \in Nat : f[k] = def[<<k, f>>]
  BY <1>4 DEF Descent
<1> DEFINE r == [i \in 0 .. n |-> f[i]]
<1>6. ASSUME NEW i \in 0 .. n PROVE r[i] = IF i = 0 THEN first ELSE next[<<i, r[i - 1]>>]
  <2>1. r[i] = f[i] /\ (i # 0 => r[i - 1] = f[i - 1])
    OBVIOUS
  <2>2. i \in Nat /\ i <= n
    OBVIOUS
  <2> HIDE DEF r
  <2>3. f[i] = def[<<i, f>>] /\ def[<<i, f>>] = IF i = 0 THEN first ELSE IF i <= n THEN next[<<i, f[i - 1]>>] ELSE 0
    BY <1>1, <1>5, <2>2
  <2> QED BY <2>1, <2>2, <2>3
<1>7. r = [i \in 0 .. n |-> r[i]]
  OBVIOUS
<1> HIDE DEF r
<1>8. [i \in 0 .. n |-> r[i]] = [i \in 0 .. n |-> IF i = 0 THEN first ELSE next[<<i, r[i - 1]>>]]
  BY <1>6
<1>9. Row(r, n, first, next)
  BY <1>7, <1>8 DEF Row
<1> QED BY <1>9

Rises(r, n, first, next) ==
  /\ r[0] = first
  /\ \A i \in 1 .. n : i - 1 \in 0 .. n /\ r[i] = next[<<i, r[i - 1]>>]
  /\ \A i \in 0 .. n : r[i] \in Int

LEMMA RowIs ==
  ASSUME NEW n \in Nat, NEW first \in Int, NEW next \in [(1 .. n) \X Int -> Int], NEW r, Row(r, n, first, next)
  PROVE  Rises(r, n, first, next)
<1>1. r[0] = first /\ \A i \in 1 .. n : i - 1 \in 0 .. n /\ r[i] = next[<<i, r[i - 1]>>]
  BY DEF Row
<1> DEFINE Q == {i \in Nat : i <= n => r[i] \in Int}
<1>2. ASSUME NEW i \in Nat, \A j \in 0 .. i - 1 : j \in Q PROVE i \in Q
  <2>1. CASE i = 0
    BY <1>1, <2>1
  <2>2. CASE i # 0
    <3> SUFFICES ASSUME i <= n PROVE r[i] \in Int
      OBVIOUS
    <3>1. i - 1 \in Q /\ i \in 1 .. n
      BY <1>2, <2>2
    <3>2. <<i, r[i - 1]>> \in (1 .. n) \X Int
      BY <3>1
    <3> QED BY <1>1, <3>1, <3>2
  <2> QED BY <2>1, <2>2
<1>3. Nat \subseteq Q
  <2> HIDE DEF Q
  <2> QED BY <1>2, SetInduction
<1> QED BY <1>1, <1>3 DEF Rises

\* What holds of 0 and with each number of the next holds up to n.
LEMMA UpTo ==
  ASSUME NEW n \in Nat, NEW Q, 0 \in Q, \A i \in 1 .. n : i - 1 \in Q => i \in Q
  PROVE  \A i \in 0 .. n : i \in Q
<1> DEFINE T == {i \in Nat : i <= n => i \in Q}
<1>1. ASSUME NEW i \in Nat, \A j \in 0 .. i - 1 : j \in T PROVE i \in T
  <2>1. CASE i = 0
    BY <2>1
  <2>2. CASE i # 0 /\ i <= n
    <3>1. i - 1 \in T /\ i \in 1 .. n /\ i - 1 <= n
      BY <1>1, <2>2
    <3> QED BY <3>1
  <2> QED BY <2>1, <2>2
<1>2. Nat \subseteq T
  <2> HIDE DEF T
  <2> QED BY <1>1, SetInduction
<1> QED BY <1>2

\* The products of the first moduli.
Partial(ms, pr) == pr = [n \in 0 .. Len(ms) |-> IF n = 0 THEN 1 ELSE pr[n - 1] * ms[n]]

LEMMA ProductIs ==
  ASSUME NEW ms \in Seq(Int)
  PROVE  /\ Product(ms)[0] = 1
         /\ \A n \in 1 .. Len(ms) : n - 1 \in 0 .. Len(ms) /\ Product(ms)[n] = Product(ms)[n - 1] * ms[n]
         /\ \A n \in 0 .. Len(ms) : Product(ms)[n] \in Int
<1>0. PICK next : next = [z \in (1 .. Len(ms)) \X Int |-> z[2] * ms[z[1]]]
  OBVIOUS
<1>1. Len(ms) \in Nat /\ \A i \in 1 .. Len(ms) : ms[i] \in Int
  OBVIOUS
<1>2. \A i \in 1 .. Len(ms), k \in Int : next[<<i, k>>] = k * ms[i] /\ next[<<i, k>>] \in Int
  BY <1>0, <1>1, SMT
<1>3. next \in [(1 .. Len(ms)) \X Int -> Int]
  <2>1. \A z \in (1 .. Len(ms)) \X Int : z = <<z[1], z[2]>> /\ z[1] \in 1 .. Len(ms) /\ z[2] \in Int
    OBVIOUS
  <2>2. next = [z \in (1 .. Len(ms)) \X Int |-> next[z]]
    BY <1>0
  <2> QED BY <1>2, <2>1, <2>2
<1>10. Len(ms) \in Nat /\ 1 \in Int
  OBVIOUS
<1>4. PICK r : Row(r, Len(ms), 1, next)
  BY ONLY <1>10, <1>3, RowExists, Zenon
<1>11. Rises(r, Len(ms), 1, next)
  BY ONLY <1>10, <1>3, <1>4, RowIs, Zenon
<1>5. r[0] = 1 /\ (\A i \in 1 .. Len(ms) : i - 1 \in 0 .. Len(ms) /\ r[i] = next[<<i, r[i - 1]>>])
      /\ \A i \in 0 .. Len(ms) : r[i] \in Int
  BY <1>11 DEF Rises
<1>6. r = [n \in 0 .. Len(ms) |-> IF n = 0 THEN 1 ELSE r[n - 1] * ms[n]]
  <2>1. r = [i \in 0 .. Len(ms) |-> r[i]]
    BY <1>4 DEF Row
  <2>2. ASSUME NEW i \in 0 .. Len(ms) PROVE r[i] = IF i = 0 THEN 1 ELSE r[i - 1] * ms[i]
    <3>1. CASE i # 0
      <4>1. i \in 1 .. Len(ms) /\ r[i - 1] \in Int
        BY <1>1, <1>5, <3>1
      <4> QED BY <1>2, <1>5, <3>1, <4>1
    <3> QED BY <1>5, <3>1
  <2> QED BY <2>1, <2>2
<1>7. Partial(ms, Product(ms))
  <2>1. Partial(ms, r)
    BY <1>6 DEF Partial
  <2> QED BY <2>1 DEF Product, Partial
<1>12. PICK pr : pr = Product(ms)
  OBVIOUS
<1>8. pr[0] = 1 /\ \A n \in 1 .. Len(ms) : n - 1 \in 0 .. Len(ms) /\ pr[n] = pr[n - 1] * ms[n]
  <2>1. pr = [n \in 0 .. Len(ms) |-> IF n = 0 THEN 1 ELSE pr[n - 1] * ms[n]]
    BY <1>7, <1>12 DEF Partial
  <2>2. \A n \in 0 .. Len(ms) : pr[n] = IF n = 0 THEN 1 ELSE pr[n - 1] * ms[n]
    BY <2>1, Zenon
  <2> QED BY <1>10, <2>2
<1>9. ASSUME NEW n \in 0 .. Len(ms) PROVE pr[n] \in Int
  <2>1. PICK Q : Q = {i \in Nat : pr[i] \in Int}
    OBVIOUS
  <2>2. 0 \in Q /\ \A i \in 1 .. Len(ms) : i - 1 \in Q => i \in Q
    <3>1. ASSUME NEW i \in 1 .. Len(ms), i - 1 \in Q PROVE i \in Q
      <4>1. pr[i] = pr[i - 1] * ms[i] /\ pr[i - 1] \in Int /\ ms[i] \in Int
        BY <1>1, <1>8, <2>1, <3>1
      <4>2. pr[i] \in Int
        BY <4>1, SMT
      <4> QED BY <2>1, <4>2
    <3> QED BY <1>8, <2>1, <3>1
  <2>3. \A i \in 0 .. Len(ms) : i \in Q
    BY ONLY <1>10, <2>2, UpTo, Zenon
  <2> QED BY <2>1, <2>3
<1> QED BY <1>8, <1>9, <1>12

Positive(ms) == ms \in Seq(Int) /\ \A i \in 1 .. Len(ms) : ms[i] \in Nat \ {0}

LEMMA GrowsTo ==
  ASSUME NEW n \in Nat, NEW r, \A i \in 0 .. n : r[i] \in Nat, \A i \in 1 .. n : r[i - 1] <= r[i]
  PROVE  \A i \in 0 .. n : r[i] <= r[n]
<1>1. PICK Q : Q = {k \in Nat : k <= n => r[n - k] <= r[n]}
  OBVIOUS
<1>2. ASSUME NEW k \in 1 .. n, k - 1 \in Q PROVE k \in Q
  <2>1. n - k + 1 \in 1 .. n /\ n - k + 1 - 1 = n - k /\ n - k \in 0 .. n /\ k - 1 <= n
        /\ n - (k - 1) = n - k + 1 /\ n - k + 1 \in 0 .. n /\ n \in 0 .. n
    OBVIOUS
  <2>2. r[n - k] <= r[n - k + 1]
    BY <2>1
  <2>3. r[n - k + 1] <= r[n]
    BY <1>1, <1>2, <2>1
  <2>4. r[n - k] \in Nat /\ r[n - k + 1] \in Nat /\ r[n] \in Nat
    BY <2>1
  <2>5. r[n - k] <= r[n]
    BY <2>2, <2>3, <2>4
  <2> QED BY <1>1, <2>5
<1>3. 0 \in Q
  BY <1>1
<1>4. \A k \in 0 .. n : k \in Q
  BY ONLY n \in Nat, <1>2, <1>3, UpTo, Zenon
<1>5. ASSUME NEW i \in 0 .. n PROVE r[i] <= r[n]
  <2>1. n - i \in 0 .. n /\ n - (n - i) = i
    OBVIOUS
  <2> QED BY <1>1, <1>4, <2>1
<1> QED BY <1>5

LEMMA ProductGrows ==
  ASSUME NEW ms, Positive(ms)
  PROVE  /\ \A n \in 0 .. Len(ms) : Product(ms)[n] \in Nat \ {0}
         /\ \A n \in 0 .. Len(ms) : Product(ms)[n] <= Product(ms)[Len(ms)]
<1>0. PICK pr : pr = Product(ms)
  OBVIOUS
<1>1. PICK l \in Nat : pr = Product(ms) /\ l = Len(ms)
  <2>1. Len(ms) \in Nat
    BY DEF Positive
  <2> QED BY <1>0, <2>1
<1>2. /\ pr[0] = 1 /\ \A n \in 1 .. l : n - 1 \in 0 .. l /\ pr[n] = pr[n - 1] * ms[n]
      /\ \A n \in 0 .. l : pr[n] \in Int
  BY <1>1, ProductIs DEF Positive
<1>3. \A i \in 1 .. l : ms[i] \in Nat \ {0}
  BY <1>1 DEF Positive
<1>4. ASSUME NEW n \in 1 .. l, pr[n - 1] \in Nat \ {0} PROVE pr[n] \in Nat \ {0} /\ pr[n - 1] <= pr[n]
  <2>1. PICK p \in Nat \ {0}, m \in Nat \ {0} : p = pr[n - 1] /\ m = ms[n]
    BY <1>3, <1>4
  <2>2. p * m \in Nat /\ p * m >= p
    BY SMT
  <2> QED BY <1>2, <2>1, <2>2
<1>5. \A n \in 0 .. l : pr[n] \in Nat \ {0}
  <2>1. PICK Q : Q = {n \in Nat : pr[n] \in Nat \ {0}}
    OBVIOUS
  <2>2. 0 \in Q /\ \A n \in 1 .. l : n - 1 \in Q => n \in Q
    BY <1>2, <1>4, <2>1
  <2>3. \A n \in 0 .. l : n \in Q
    BY ONLY l \in Nat, <2>2, UpTo, Zenon
  <2> QED BY <2>1, <2>3
<1>6. (\A n \in 0 .. l : pr[n] \in Nat) /\ \A n \in 1 .. l : pr[n - 1] <= pr[n]
  BY <1>2, <1>4, <1>5
<1>7. \A n \in 0 .. l : pr[n] <= pr[l]
  BY ONLY l \in Nat, <1>6, GrowsTo, Zenon
<1> QED BY <1>1, <1>5, <1>7

\* Two numbers have a combination that divides both.
LEMMA Combined ==
  ASSUME NEW m \in Int, m # 0, NEW n \in Int
  PROVE  \E g \in Nat \ {0} : \E u, v \in Int : u * m + v * n = g /\ divides(g, m) /\ divides(g, n)
<1> DEFINE T == {k \in Nat : k # 0 /\ \E u, v \in Int : u * m + v * n = k}
<1>1. Abs(m) \in T
  <2>1. 1 * m + 0 * n = m /\ (-1) * m + 0 * n = -m
    OBVIOUS
  <2>2. Abs(m) \in Nat /\ Abs(m) # 0 /\ (Abs(m) = m \/ Abs(m) = -m)
    BY DEF Abs
  <2>3. \E u, v \in Int : u * m + v * n = Abs(m)
    <3>1. 1 \in Int /\ -1 \in Int /\ 0 \in Int
      OBVIOUS
    <3>2. CASE Abs(m) = m
      BY ONLY <2>1, <3>1, <3>2, Zenon
    <3>3. CASE Abs(m) = -m
      BY ONLY <2>1, <3>1, <3>3, Zenon
    <3> QED BY <2>2, <3>2, <3>3
  <2> QED BY <2>2, <2>3
<1>2. PICK g \in T : \A k \in T : g <= k
  <2>1. T # {} /\ T \subseteq Nat
    BY <1>1
  <2> HIDE DEF T
  <2> QED BY <2>1, LeastNatural
<1>3. PICK u \in Int, v \in Int : u * m + v * n = g
  BY <1>2
<1>4. g \in Nat \ {0}
  OBVIOUS
<1>5. ASSUME NEW k \in Int, NEW i \in Int, NEW j \in Int, i * m + j * n = k PROVE divides(g, k)
  <2>1. PICK q \in Int, r \in Int : q = k \div g /\ r = k % g /\ k = g * q + r /\ r \in 0 .. g - 1
    <3>1. k = g * (k \div g) + (k % g) /\ k \div g \in Int /\ k % g \in 0 .. g - 1
      BY <1>4, Division
    <3> QED BY <3>1
  <2>3. (i - u * q) * m + (j - v * q) * n = (i * m + j * n) - (u * m + v * n) * q
    BY RoundFactors
  <2>4. i - u * q \in Int /\ j - v * q \in Int
    <3>1. u * q \in Int /\ v * q \in Int
      BY SMT
    <3> QED BY <3>1
  <2>5. (i - u * q) * m + (j - v * q) * n = r
    <3>1. g * q \in Int
      BY <1>4, SMT
    <3> QED BY <1>3, <1>5, <2>1, <2>3, <3>1
  <2>6. r = 0
    <3> SUFFICES ASSUME r # 0 PROVE FALSE
      OBVIOUS
    <3>1. \E c, d \in Int : c * m + d * n = r
      BY ONLY <2>4, <2>5, Zenon
    <3>2. r \in Nat /\ r < g
      BY <1>4, <2>1
    <3>3. r \in T
      BY ONLY <3>1, <3>2, r # 0, Zenon
    <3> HIDE DEF T
    <3> QED BY <1>2, <1>4, <3>2, <3>3
  <2> QED BY <2>1, <2>6 DEF divides
<1> HIDE DEF T
<1>6. divides(g, m)
  <2>1. 1 * m + 0 * n = m /\ m \in Int /\ 1 \in Int /\ 0 \in Int
    OBVIOUS
  <2> QED BY ONLY <1>5, <2>1, Zenon
<1>7. divides(g, n)
  <2>1. 0 * m + 1 * n = n /\ n \in Int /\ 1 \in Int /\ 0 \in Int
    OBVIOUS
  <2> QED BY ONLY <1>5, <2>1, Zenon
<1> QED BY ONLY <1>3, <1>4, <1>6, <1>7, u \in Int, v \in Int, Zenon

\* It is 1 where nothing else divides both.
LEMMA CoprimeCombined ==
  ASSUME NEW m \in Nat \ {0}, NEW n \in Nat \ {0}, Coprime(m, n)
  PROVE  \E u, v \in Int : u * m + v * n = 1
<1>0. m \in Int /\ m # 0 /\ n \in Int
  OBVIOUS
<1>1. PICK g \in Nat \ {0} : \E u, v \in Int : u * m + v * n = g /\ divides(g, m) /\ divides(g, n)
  BY ONLY <1>0, Combined, Zenon
<1>2. PICK u \in Int, v \in Int : u * m + v * n = g /\ divides(g, m) /\ divides(g, n)
  BY <1>1
<1>3. g <= Abs(n)
  BY <1>2, DivisorSmall
<1>4. g \in Common(m, n)
  BY <1>2, <1>3 DEF Common, Abs
<1>5. g = 1
  BY <1>4 DEF Coprime
<1> QED BY <1>2, <1>5

\* And numbers with a combination that is 1 are coprime.
LEMMA CombinedCoprime ==
  ASSUME NEW m \in Int, NEW n \in Int, m # 0, n # 0, NEW u \in Int, NEW v \in Int, u * m + v * n = 1
  PROVE  /\ \A d \in Nat \ {0} : divides(d, m) /\ divides(d, n) => d = 1
         /\ Coprime(m, n)
<1>1. ASSUME NEW d \in Nat \ {0}, divides(d, m), divides(d, n) PROVE d = 1
  <2>1. PICK i \in Int : m = d * i
    BY <1>1, DivisorOfInt
  <2>2. PICK j \in Int : n = d * j
    BY <1>1, DivisorOfInt
  <2>3. d * (u * i + v * j) = u * (d * i) + v * (d * j) /\ u * i + v * j \in Int
    BY SMT
  <2>4. PICK q \in Int : d * q = 1
    BY <2>1, <2>2, <2>3
  <2> QED BY <2>4, SMT
<1>2. 1 \in Common(m, n)
  BY OneDivides DEF Common, Abs
<1>3. Common(m, n) = {1}
  BY <1>1, <1>2 DEF Common
<1> QED BY <1>1, <1>3 DEF Coprime

LEMMA DividesProduct ==
  ASSUME NEW m \in Int, NEW k \in Int, NEW d \in Nat \ {0}, divides(d, m)
  PROVE  divides(d, m * k) /\ m * k \in Int
<1>1. PICK q \in Int : m = d * q
  BY DivisorOfInt
<1>2. m * k = d * (q * k) /\ q * k \in Int /\ m * k \in Int
  <2>1. (d * q) * k = d * (q * k) /\ q * k \in Int /\ m * k \in Int
    BY SMT
  <2> QED BY <1>1, <2>1
<1> QED BY <1>2, DivisorOfInt

LEMMA DividesSum ==
  ASSUME NEW m \in Int, NEW k \in Int, NEW d \in Nat \ {0}, divides(d, m), divides(d, k)
  PROVE  divides(d, m + k) /\ divides(d, m - k)
<1>1. PICK q \in Int : m = d * q
  BY DivisorOfInt
<1>2. PICK r \in Int : k = d * r
  BY DivisorOfInt
<1>3. d * q + d * r = d * (q + r) /\ d * q - d * r = d * (q - r) /\ q + r \in Int /\ q - r \in Int
  BY SMT
<1>4. m + k \in Int /\ m - k \in Int
  OBVIOUS
<1> QED BY <1>1, <1>2, <1>3, <1>4, DivisorOfInt

Pairwise(ms) == \A i, j \in DOMAIN ms : i # j => Coprime(ms[i], ms[j])

\* The product of the first n moduli but the one at i.
Cofactor(ms, i, n, c) ==
  /\ c \in Nat \ {0}
  /\ Product(ms)[n] = IF n < i THEN c ELSE c * ms[i]
  /\ \A j \in 1 .. n : j # i => divides(ms[j], c)
  /\ Pairwise(ms) => \E u, v \in Int : u * c + v * ms[i] = 1

LEMMA CofactorStep ==
  ASSUME NEW ms, Positive(ms), NEW i \in 1 .. Len(ms), NEW n \in 1 .. Len(ms),
         NEW c, Cofactor(ms, i, n - 1, c)
  PROVE  \E d : Cofactor(ms, i, n, d)
<1>1. /\ Len(ms) \in Nat /\ DOMAIN ms = 1 .. Len(ms) /\ ms[i] \in Nat \ {0} /\ ms[n] \in Nat \ {0}
      /\ c \in Nat \ {0} /\ \A j \in 1 .. Len(ms) : ms[j] \in Nat \ {0}
  BY DEF Positive, Cofactor
<1>2. /\ n - 1 \in Nat /\ Product(ms)[n] = Product(ms)[n - 1] * ms[n]
      /\ Product(ms)[n - 1] = IF n - 1 < i THEN c ELSE c * ms[i]
  BY ProductIs DEF Positive, Cofactor
<1>3. \A j \in 1 .. n : j = n \/ j \in 1 .. n - 1
  BY <1>1
<1>4. CASE n = i
  <2>1. Product(ms)[n] = c * ms[i] /\ ~(n < i)
    BY <1>1, <1>2, <1>4
  <2>2. \A j \in 1 .. n : j # i => divides(ms[j], c)
    BY <1>3, <1>4 DEF Cofactor
  <2> QED BY <1>1, <2>1, <2>2 DEF Cofactor
<1>5. CASE n # i
  <2>1. PICK m \in Nat \ {0}, l \in Nat \ {0} : m = ms[n] /\ l = ms[i]
    BY <1>1
  <2>2. c * m \in Nat \ {0} /\ c * m = m * c
    <3>1. c * m \in Nat /\ c * m >= c /\ c * m = m * c
      BY <1>1, <2>1, SMT
    <3> QED BY <1>1, <3>1
  <2>3. Product(ms)[n] = IF n < i THEN c * m ELSE (c * m) * l
    <3>1. CASE n < i
      <4>1. n - 1 < i
        BY <1>1, <3>1
      <4> QED BY <1>2, <2>1, <3>1, <4>1
    <3>2. CASE ~(n < i)
      <4>1. ~(n - 1 < i)
        BY <1>1, <1>5, <3>2
      <4>2. (c * l) * m = (c * m) * l
        BY <1>1, <2>1, SMT
      <4> QED BY <1>2, <2>1, <3>2, <4>1, <4>2
    <3> QED BY <3>1, <3>2
  <2>4. ASSUME NEW j \in 1 .. n, j # i PROVE divides(ms[j], c * m)
    <3>1. ms[j] \in Nat \ {0}
      BY <1>1
    <3>2. CASE j = n
      <4>1. m \in Int /\ divides(m, m)
        BY DividesSelf DEF Abs
      <4>2. divides(m, m * c)
        <5>1. c \in Int /\ m \in Nat \ {0}
          BY <1>1
        <5> QED BY ONLY <4>1, <5>1, DividesProduct, Zenon
      <4> QED BY <2>1, <2>2, <3>2, <4>2
    <3>3. CASE j # n
      <4>1. divides(ms[j], c)
        BY <1>3, <2>4, <3>3 DEF Cofactor
      <4>2. c \in Int /\ m \in Int /\ ms[j] \in Nat \ {0}
        BY <1>1, <3>1
      <4> QED BY ONLY <4>1, <4>2, DividesProduct, Zenon
    <3> QED BY <3>2, <3>3
  <2>5. ASSUME Pairwise(ms) PROVE \E u, v \in Int : u * (c * m) + v * l = 1
    <3>1. PICK u \in Int, v \in Int : u * c + v * l = 1
      BY <2>1, <2>5 DEF Cofactor
    <3>2. Coprime(m, l)
      BY <1>1, <1>5, <2>1, <2>5 DEF Pairwise
    <3>3. PICK p \in Int, q \in Int : p * m + q * l = 1
      BY <3>2, CoprimeCombined
    <3>4. PICK A \in Int, B \in Int, C \in Int, D \in Int : A = u * c /\ B = v * l /\ C = p * m /\ D = q * l
      <4>1. u * c \in Int /\ v * l \in Int /\ p * m \in Int /\ q * l \in Int
        BY <1>1, <2>1, SMT
      <4> QED BY <4>1
    <3>5. A * C + (A * D + B * C + B * D) = 1
      <4>1. (A + B) * (C + D) = A * C + (A * D + B * C + B * D)
        BY SMT
      <4>2. A + B = 1 /\ C + D = 1
        BY <3>1, <3>3, <3>4
      <4> QED BY <4>1, <4>2
    <3>6. A * C = (u * p) * (c * m) /\ u * p \in Int
      <4>1. (u * c) * (p * m) = (u * p) * (c * m) /\ u * p \in Int
        BY <1>1, <2>1, SMT
      <4> QED BY <3>4, <4>1
    <3>7. PICK w \in Int : w = A * q + v * C + v * D
      <4>1. A * q \in Int /\ v * C \in Int /\ v * D \in Int
        BY SMT
      <4> QED BY <4>1
    <3>8. A * D + B * C + B * D = w * l
      <4>1. A * D = (A * q) * l /\ A * q \in Int
        <5>1. A * (q * l) = (A * q) * l /\ A * q \in Int
          BY <2>1, SMT
        <5> QED BY <3>4, <5>1
      <4>2. B * C = (v * C) * l /\ v * C \in Int
        <5>1. (v * l) * C = (v * C) * l /\ v * C \in Int
          BY <2>1, SMT
        <5> QED BY <3>4, <5>1
      <4>3. B * D = (v * D) * l /\ v * D \in Int
        <5>1. (v * l) * D = (v * D) * l /\ v * D \in Int
          BY <2>1, SMT
        <5> QED BY <3>4, <5>1
      <4>4. \A h, x, z \in Int : (h + x + z) * l = h * l + x * l + z * l
        BY <2>1, SMT
      <4>5. w * l = (A * q) * l + (v * C) * l + (v * D) * l
        BY <3>7, <4>1, <4>2, <4>3, <4>4
      <4> QED BY <4>1, <4>2, <4>3, <4>5
    <3>9. (u * p) * (c * m) + w * l = 1
      BY <3>5, <3>6, <3>8
    <3>10. u * p \in Int /\ w \in Int
      BY <3>6
    <3> QED BY ONLY <3>9, <3>10, Zenon
  <2>6. Cofactor(ms, i, n, c * m)
    BY <2>1, <2>2, <2>3, <2>4, <2>5 DEF Cofactor
  <2> QED BY <2>6
<1> QED BY <1>4, <1>5

LEMMA CofactorExists ==
  ASSUME NEW ms, Positive(ms), NEW i \in 1 .. Len(ms)
  PROVE  \E c : Cofactor(ms, i, Len(ms), c)
<1>1. PICK l \in Nat : l = Len(ms)
  BY DEF Positive
<1>2. PICK Q : Q = {n \in Nat : \E c : Cofactor(ms, i, n, c)}
  OBVIOUS
<1>3. 0 \in Q
  <2>1. Product(ms)[0] = 1 /\ ms[i] \in Int
    BY ProductIs DEF Positive
  <2>2. 1 * 1 + 0 * ms[i] = 1 /\ 1 \in Int /\ 0 \in Int /\ 0 < i
    BY <1>1, <2>1
  <2>3. \E u, v \in Int : u * 1 + v * ms[i] = 1
    BY ONLY <2>2, Zenon
  <2>4. Cofactor(ms, i, 0, 1)
    BY <2>1, <2>2, <2>3 DEF Cofactor
  <2> QED BY <1>2, <2>4
<1>4. \A n \in 1 .. l : n - 1 \in Q => n \in Q
  BY <1>1, <1>2, CofactorStep
<1>5. \A n \in 0 .. l : n \in Q
  BY ONLY l \in Nat, <1>3, <1>4, UpTo, Zenon
<1> QED BY <1>1, <1>2, <1>5

\* A conversion to long keeps what fits.
LEMMA ToLongKeeps ==
  ASSUME NEW n \in Int, Abs(n) <= LONG_MAX
  PROVE  ToLong(n) = n
<1>1. PICK w \in Nat \ {0} : w = ULONG_MAX + 1 /\ w = 2 * LONG_MAX + 2
  BY DMathAssumption DEF ULONG_MAX
<1>2. PICK u \in Nat : u = n + LONG_MAX + 1 /\ u < w
  BY <1>1, DMathAssumption DEF Abs
<1>3. PICK k \in Int, r \in Int : k = u \div w /\ r = u % w /\ u = w * k + r /\ r \in 0 .. w - 1
  <2>1. u = w * (u \div w) + (u % w) /\ u \div w \in Int /\ u % w \in 0 .. w - 1
    BY Division
  <2> QED BY <2>1
<1>4. PICK z \in Int : z = w * k
  <2>1. w * k \in Int
    BY SMT
  <2> QED BY <2>1
<1>5. z = 0
  <2>1. k >= 1 => z >= w
    <3>1. k >= 1 => w * k >= w
      BY SMT
    <3> QED BY <1>4, <3>1
  <2>2. k <= -1 => z <= -w
    <3>1. k <= -1 => w * k <= -w
      BY SMT
    <3> QED BY <1>4, <3>1
  <2>3. k = 0 => z = 0
    <3>1. k = 0 => w * k = 0
      BY SMT
    <3> QED BY <1>4, <3>1
  <2>4. u = z + r /\ r \in 0 .. w - 1
    BY <1>3, <1>4
  <2> QED BY <1>2, <2>1, <2>2, <2>3, <2>4
<1>6. u % w = u
  BY <1>3, <1>4, <1>5
<1> QED BY <1>1, <1>2, <1>6, DMathAssumption DEF ToLong, ToULong

\* An exact division.
LEMMA QuotExact ==
  ASSUME NEW c \in Nat, NEW m \in Nat \ {0}
  PROVE  Quot(c * m, m) = c
<1>1. PICK p \in Nat : p = c * m
  <2>1. c * m \in Nat
    BY SMT
  <2> QED BY <2>1
<1>2. PICK q \in Int, r \in Int : q = p \div m /\ r = p % m /\ p = m * q + r /\ r \in 0 .. m - 1
  <2>1. p = m * (p \div m) + (p % m) /\ p \div m \in Int /\ p % m \in 0 .. m - 1
    BY Division
  <2> QED BY <2>1
<1>3. m * (c - q) = r
  <2>1. m * (c - q) = m * c - m * q
    BY SMT
  <2>2. m * c = p
    <3>1. m * c = c * m
      BY SMT
    <3> QED BY <1>1, <3>1
  <2>3. PICK z \in Int : z = m * q
    <3>1. m * q \in Int
      BY SMT
    <3> QED BY <3>1
  <2> QED BY <1>2, <2>1, <2>2, <2>3
<1>4. c = q
  <2>1. c - q >= 1 => m * (c - q) >= m
    BY SMT
  <2>2. c - q <= -1 => m * (c - q) <= -m
    BY SMT
  <2> QED BY <1>2, <1>3, <2>1, <2>2
<1>5. Quot(p, m) = Abs(p) \div Abs(m) /\ Abs(p) = p /\ Abs(m) = m
  BY DEF Quot, Abs
<1> QED BY <1>1, <1>2, <1>4, <1>5

\* The size of a product.
LEMMA AbsProduct ==
  ASSUME NEW m \in Int, NEW n \in Int
  PROVE  m * n \in Int /\ Abs(m) \in Nat /\ Abs(n) \in Nat /\ Abs(m) * Abs(n) \in Nat /\ Abs(m * n) = Abs(m) * Abs(n)
<1>1. m * n \in Int /\ Abs(m) \in Nat /\ Abs(n) \in Nat
  BY SMT DEF Abs
<1>2. PICK p \in Nat, q \in Nat : p = Abs(m) /\ q = Abs(n)
  BY <1>1
<1>3. p * q \in Nat /\ p * (-q) = -(p * q) /\ (-p) * q = -(p * q) /\ (-p) * (-q) = p * q
  BY SMT
<1>4. (m = p \/ m = -p) /\ (n = q \/ n = -q)
  BY <1>2 DEF Abs
<1>5. m * n = p * q \/ m * n = -(p * q)
  BY <1>3, <1>4
<1>6. Abs(m * n) = p * q
  BY <1>3, <1>5 DEF Abs
<1> QED BY <1>1, <1>2, <1>3, <1>6

\* A bound of the first terms.
LEMMA TermsIs ==
  ASSUME NEW xs \in Seq(Int), NEW p \in Nat
  PROVE  /\ Terms(xs, p)[0] = 0
         /\ \A n \in 1 .. Len(xs) : /\ n - 1 \in 0 .. Len(xs)
                                    /\ Terms(xs, p)[n] = Terms(xs, p)[n - 1] + p * Abs(xs[n])
         /\ \A n \in 0 .. Len(xs) : Terms(xs, p)[n] \in Nat
<1>0. Len(xs) \in Nat /\ \A i \in 1 .. Len(xs) : xs[i] \in Int
  OBVIOUS
<1>1. PICK l \in Nat : l = Len(xs)
  BY <1>0
<1>2. PICK next : next = [z \in (1 .. l) \X Int |-> z[2] + p * Abs(xs[z[1]])]
  OBVIOUS
<1>3. ASSUME NEW i \in 1 .. l PROVE p * Abs(xs[i]) \in Nat
  <2>1. xs[i] \in Int
    BY <1>0, <1>1
  <2>2. Abs(xs[i]) \in Nat
    BY <2>1 DEF Abs
  <2>3. \A z \in Nat : p * z \in Nat
    BY SMT
  <2> QED BY <2>2, <2>3
<1>4. \A i \in 1 .. l, k \in Int : next[<<i, k>>] = k + p * Abs(xs[i]) /\ next[<<i, k>>] \in Int
  BY <1>2, <1>3
<1>5. next \in [(1 .. l) \X Int -> Int]
  <2>1. \A z \in (1 .. l) \X Int : z = <<z[1], z[2]>> /\ z[1] \in 1 .. l /\ z[2] \in Int
    OBVIOUS
  <2>2. next = [z \in (1 .. l) \X Int |-> next[z]]
    BY <1>2
  <2> QED BY <1>4, <2>1, <2>2
<1>6. l \in Nat /\ 0 \in Int
  OBVIOUS
<1>7. PICK r : Row(r, l, 0, next)
  BY ONLY <1>6, <1>5, RowExists, Zenon
<1>8. Rises(r, l, 0, next)
  BY ONLY <1>6, <1>5, <1>7, RowIs, Zenon
<1>9. r[0] = 0 /\ (\A i \in 1 .. l : i - 1 \in 0 .. l /\ r[i] = next[<<i, r[i - 1]>>])
      /\ \A i \in 0 .. l : r[i] \in Int
  BY <1>8 DEF Rises
<1>10. r = [n \in 0 .. Len(xs) |-> IF n = 0 THEN 0 ELSE r[n - 1] + p * Abs(xs[n])]
  <2>1. r = [i \in 0 .. l |-> r[i]]
    BY <1>7 DEF Row
  <2>2. ASSUME NEW i \in 0 .. l PROVE r[i] = IF i = 0 THEN 0 ELSE r[i - 1] + p * Abs(xs[i])
    <3>1. CASE i # 0
      <4>1. i \in 1 .. l /\ r[i - 1] \in Int
        BY <1>9, <3>1
      <4> QED BY <1>4, <1>9, <3>1, <4>1
    <3> QED BY <1>9, <3>1
  <2> QED BY <1>1, <2>1, <2>2
<1>11. PICK te : te = Terms(xs, p)
  OBVIOUS
<1>12. te = [n \in 0 .. Len(xs) |-> IF n = 0 THEN 0 ELSE te[n - 1] + p * Abs(xs[n])]
  BY <1>10, <1>11 DEF Terms
<1>13. te[0] = 0 /\ \A n \in 1 .. l : n - 1 \in 0 .. l /\ te[n] = te[n - 1] + p * Abs(xs[n])
  <2>1. \A n \in 0 .. l : te[n] = IF n = 0 THEN 0 ELSE te[n - 1] + p * Abs(xs[n])
    BY <1>1, <1>12, Zenon
  <2>2. 0 \in 0 .. l /\ \A n \in 1 .. l : n \in 0 .. l /\ n # 0 /\ n - 1 \in 0 .. l
    BY <1>6
  <2> QED BY ONLY <2>1, <2>2, Zenon
<1>14. \A n \in 0 .. l : te[n] \in Nat
  <2>1. PICK Q : Q = {i \in Nat : te[i] \in Nat}
    OBVIOUS
  <2>2. 0 \in Q /\ \A i \in 1 .. l : i - 1 \in Q => i \in Q
    BY <1>3, <1>13, <2>1
  <2>3. \A i \in 0 .. l : i \in Q
    BY ONLY <1>6, <2>2, UpTo, Zenon
  <2> QED BY <2>1, <2>3
<1> QED BY <1>1, <1>11, <1>13, <1>14

\* A system of equations that the longs are large enough for.
SystemFits(xs, ms) ==
  /\ Positive(ms) /\ xs \in Seq(Int \ {0}) /\ Len(xs) = Len(ms) /\ Len(ms) >= 1
  /\ Terms(xs, Product(ms)[Len(ms)])[Len(xs)] <= LONG_MAX

Bounds(te, P, xs, l) ==
  /\ P \in Nat \ {0} /\ P <= LONG_MAX /\ te[0] = 0
  /\ \A n \in 1 .. l : /\ xs[n] \in Int \ {0}
                       /\ te[n] = te[n - 1] + P * Abs(xs[n])
                       /\ P * Abs(xs[n]) <= LONG_MAX
  /\ \A n \in 0 .. l : te[n] \in Nat /\ te[n] <= LONG_MAX

LEMMA TermsBound ==
  ASSUME NEW xs, NEW ms, SystemFits(xs, ms), NEW P, P = Product(ms)[Len(ms)], NEW te, te = Terms(xs, P)
  PROVE  Bounds(te, P, xs, Len(ms))
<1>1. PICK l \in Nat : l = Len(ms) /\ l >= 1 /\ Len(xs) = l
  <2>1. Len(ms) \in Nat
    BY DEF SystemFits, Positive
  <2> QED BY <2>1 DEF SystemFits
<1>2. P \in Nat \ {0}
  <2>1. Positive(ms) /\ l \in 0 .. Len(ms)
    BY <1>1 DEF SystemFits
  <2> QED BY <1>1, <2>1, ProductGrows
<1>3. \A n \in 1 .. l : xs[n] \in Int \ {0}
  BY <1>1 DEF SystemFits
<1>4. xs \in Seq(Int)
  BY <1>1, <1>3 DEF SystemFits
<1>5. /\ te[0] = 0
      /\ \A n \in 1 .. l : n - 1 \in 0 .. l /\ te[n] = te[n - 1] + P * Abs(xs[n])
      /\ \A n \in 0 .. l : te[n] \in Nat
  <2>1. P \in Nat
    BY <1>2
  <2>2. /\ Terms(xs, P)[0] = 0
        /\ \A n \in 1 .. Len(xs) : /\ n - 1 \in 0 .. Len(xs)
                                   /\ Terms(xs, P)[n] = Terms(xs, P)[n - 1] + P * Abs(xs[n])
        /\ \A n \in 0 .. Len(xs) : Terms(xs, P)[n] \in Nat
    BY ONLY <1>4, <2>1, TermsIs, Zenon
  <2> QED BY ONLY <2>2, <1>1, te = Terms(xs, P), Zenon
<1>6. ASSUME NEW n \in 1 .. l PROVE P <= P * Abs(xs[n]) /\ P * Abs(xs[n]) \in Nat
  <2>1. PICK x \in Nat \ {0} : x = Abs(xs[n])
    BY <1>3 DEF Abs
  <2>2. P * x >= P /\ P * x \in Nat
    BY <1>2, SMT
  <2> QED BY <2>1, <2>2
<1>7. ASSUME NEW n \in 1 .. l PROVE te[n - 1] <= te[n] /\ P * Abs(xs[n]) <= te[n]
  <2>1. PICK x \in Nat : x = P * Abs(xs[n])
    BY <1>6
  <2>2. te[n] = te[n - 1] + x /\ te[n - 1] \in Nat
    BY <1>5, <2>1
  <2> QED BY <2>1, <2>2
<1>8. \A n \in 0 .. l : te[n] <= te[l]
  <2>1. (\A n \in 0 .. l : te[n] \in Nat) /\ \A n \in 1 .. l : te[n - 1] <= te[n]
    BY <1>5, <1>7
  <2> QED BY ONLY l \in Nat, <2>1, GrowsTo, Zenon
<1>9. te[l] <= LONG_MAX
  BY <1>1 DEF SystemFits
<1>10. LONG_MAX \in Nat
  BY DMathAssumption
<1>11. \A n \in 0 .. l : te[n] \in Nat /\ te[n] <= LONG_MAX
  <2>1. l \in 0 .. l
    OBVIOUS
  <2> QED BY <1>5, <1>8, <1>9, <1>10, <2>1
<1>12. ASSUME NEW n \in 1 .. l PROVE P * Abs(xs[n]) <= LONG_MAX
  <2>1. n \in 0 .. l
    OBVIOUS
  <2>2. PICK x \in Nat : x = P * Abs(xs[n])
    BY <1>6
  <2>3. x <= te[n] /\ te[n] \in Nat /\ te[n] <= LONG_MAX
    BY <1>7, <1>11, <2>1, <2>2
  <2> QED BY <1>10, <2>2, <2>3
<1>13. P <= LONG_MAX
  <2>1. 1 \in 1 .. l
    BY <1>1
  <2>2. PICK x \in Nat : x = P * Abs(xs[1])
    BY <1>6, <2>1
  <2>3. P <= x /\ x <= LONG_MAX
    BY <1>6, <1>12, <2>1, <2>2
  <2> QED BY <1>2, <1>10, <2>2, <2>3
<1>14. \A n \in 1 .. l : te[n] = te[n - 1] + P * Abs(xs[n])
  BY <1>5, Zenon
<1>15. Bounds(te, P, xs, l)
  BY ONLY <1>2, <1>3, <1>5, <1>11, <1>12, <1>13, <1>14, Zenon DEF Bounds
<1> QED BY <1>1, <1>15

\* x is an inverse of m for the modulus n.
IsInverse(x, m, n) == Abs(x) <= n /\ \E k \in Int : x * m + k * n = 1

\* No product in a term is too large, and what is left of it is the remainder.
LEMMA TermRight ==
  ASSUME NEW c \in Nat \ {0}, NEW m \in Nat \ {0}, NEW x \in Int \ {0}, NEW z \in Int, IsInverse(z, c, m),
         (c * m) * Abs(x) <= LONG_MAX
  PROVE  \E T \in Int : /\ ToLong(ToLong(c * x) * z) = T
                        /\ T = c * (x * z)
                        /\ Abs(T) <= (c * m) * Abs(x)
                        /\ divides(m, T - x)
<1>1. PICK A \in Nat \ {0}, Z \in Nat : A = Abs(x) /\ Z = Abs(z) /\ Z <= m
  BY DEF Abs, IsInverse
<1>2. PICK k \in Int : z * c + k * m = 1
  BY DEF IsInverse
<1>3. PICK L \in Nat : L = (c * m) * A /\ L <= LONG_MAX
  <2>1. c * m \in Nat
    BY SMT
  <2>2. \A p \in Nat : p * A \in Nat
    BY SMT
  <2> QED BY <1>1, <2>1, <2>2
<1>4. PICK B \in Int : B = c * x /\ Abs(B) = c * A
  <2>1. c * x \in Int /\ Abs(c * x) = Abs(c) * Abs(x)
    BY AbsProduct
  <2>2. Abs(c) = c
    BY DEF Abs
  <2> QED BY <1>1, <2>1, <2>2
<1>5. PICK C \in Nat : C = c * A
  <2>1. c * A \in Nat
    BY <1>1, SMT
  <2> QED BY <2>1
<1>6. C <= L /\ C * Z <= L
  <2>1. L = C * m
    <3>1. (c * m) * A = (c * A) * m
      BY <1>1, SMT
    <3> QED BY <1>3, <1>5, <3>1
  <2>2. C <= C * m /\ C * Z <= C * m
    BY <1>1, <1>5, SMT
  <2> QED BY <2>1, <2>2
<1>7. LONG_MAX \in Nat
  BY DMathAssumption
<1>8. ToLong(B) = B
  BY <1>3, <1>4, <1>5, <1>6, <1>7, ToLongKeeps
<1>9. PICK T \in Int : T = B * z /\ Abs(T) = C * Z
  <2>1. B * z \in Int /\ Abs(B * z) = Abs(B) * Abs(z)
    BY AbsProduct
  <2> QED BY <1>1, <1>4, <1>5, <2>1
<1>10. PICK D \in Nat : D = C * Z
  <2>1. C * Z \in Nat
    BY SMT
  <2> QED BY <2>1
<1>11. Abs(T) <= LONG_MAX /\ Abs(T) <= L
  BY <1>3, <1>6, <1>7, <1>9, <1>10
<1>12. ToLong(T) = T
  BY <1>11, ToLongKeeps
<1>13. T = c * (x * z)
  <2>1. (c * x) * z = c * (x * z)
    BY SMT
  <2> QED BY <1>4, <1>9, <2>1
<1>14. divides(m, T - x)
  <2>1. T = x * (z * c)
    <3>1. (c * x) * z = x * (z * c)
      BY SMT
    <3> QED BY <1>4, <1>9, <3>1
  <2>2. PICK K \in Int : K = k * m
    <3>1. k * m \in Int
      BY SMT
    <3> QED BY <3>1
  <2>3. z * c = 1 - K
    <3>1. z * c \in Int
      BY SMT
    <3> QED BY <1>2, <2>2, <3>1
  <2>4. x * (1 - K) = x - x * K
    BY SMT
  <2>5. x * K = m * (x * k) /\ x * k \in Int
    <3>1. x * (k * m) = m * (x * k) /\ x * k \in Int
      BY SMT
    <3> QED BY <2>2, <3>1
  <2>6. PICK q \in Int : q = x * k
    BY <2>5
  <2>7. m * (-q) = -(m * q) /\ m * q \in Int /\ -q \in Int
    BY SMT
  <2>8. T - x = m * (-q)
    <3>1. T = x - m * q
      BY <2>1, <2>3, <2>4, <2>5, <2>6
    <3> QED BY <2>7, <3>1
  <2>9. T - x \in Int
    OBVIOUS
  <2>10. \E j \in Int : T - x = m * j
    BY ONLY <2>7, <2>8, Zenon
  <2> QED BY <2>9, <2>10, DivisorOfInt
<1>15. ToLong(ToLong(c * x) * z) = T /\ Abs(T) <= (c * m) * Abs(x)
  <2>1. ToLong(ToLong(c * x) * z) = T
    BY ONLY <1>4, <1>8, <1>9, <1>12, Zenon
  <2> QED BY <1>1, <1>3, <1>11, <2>1
<1> QED BY ONLY <1>13, <1>14, <1>15, Zenon

\* The sum of the first terms, as chinese_remainder adds them up.
Summed(r, xs, ms, ys, P) ==
  LET term(i) == ToLong(ToLong(Quot(P, ms[i]) * xs[i]) * ys[i])
  IN r = [i \in 0 .. Len(ys) |-> IF i = 0 THEN 0 ELSE ToLong(r[i - 1] + term(i))]

\* What it is: the equations seen so far leave their remainders, the others none.
SumRight(r, n, xs, ms, bound) ==
  /\ r[n] \in Int /\ Abs(r[n]) <= bound
  /\ \A i \in 1 .. Len(ms) : divides(ms[i], IF n < i THEN r[n] ELSE r[n] - xs[i])

Inverses(ys, ms, P) ==
  /\ ys \in Seq(Int) /\ Len(ys) = Len(ms)
  /\ \A i \in 1 .. Len(ms) : IsInverse(ys[i], Quot(P, ms[i]), ms[i])

LEMMA SumStep ==
  ASSUME NEW xs, NEW ms, SystemFits(xs, ms), NEW P, P = Product(ms)[Len(ms)], NEW te, te = Terms(xs, P),
         NEW ys, Inverses(ys, ms, P), NEW r, Summed(r, xs, ms, ys, P),
         NEW n \in 1 .. Len(ms), SumRight(r, n - 1, xs, ms, te[n - 1])
  PROVE  SumRight(r, n, xs, ms, te[n])
<1>1. PICK l \in Nat : l = Len(ms) /\ Len(xs) = l /\ Len(ys) = l
  <2>1. Len(ms) \in Nat
    BY DEF SystemFits, Positive
  <2> QED BY <2>1 DEF SystemFits, Inverses
<1>2. /\ P \in Nat \ {0} /\ te[n] = te[n - 1] + P * Abs(xs[n]) /\ P * Abs(xs[n]) <= LONG_MAX /\ xs[n] \in Int \ {0}
      /\ te[n] \in Nat /\ te[n] <= LONG_MAX /\ te[n - 1] \in Nat
  <2>1. n \in 0 .. Len(ms) /\ n - 1 \in 0 .. Len(ms)
    BY <1>1
  <2>2. Bounds(te, P, xs, Len(ms))
    BY TermsBound
  <2> QED BY ONLY <2>1, <2>2, n \in 1 .. Len(ms), Zenon DEF Bounds
<1>3. Positive(ms) /\ \A i \in 1 .. l : ms[i] \in Nat \ {0}
  BY <1>1 DEF SystemFits, Positive
<1>4. PICK c : Cofactor(ms, n, l, c)
  BY <1>1, <1>3, CofactorExists
<1>5. PICK m \in Nat \ {0}, x \in Int \ {0} : m = ms[n] /\ x = xs[n]
  BY <1>1, <1>2, <1>3
<1>6. c \in Nat \ {0} /\ P = c * m /\ \A j \in 1 .. l : j # n => divides(ms[j], c)
  <2>1. ~(l < n)
    BY <1>1
  <2> QED BY <1>1, <1>4, <1>5, <2>1 DEF Cofactor
<1>7. Quot(P, m) = c
  BY <1>6, QuotExact
<1>8. PICK z \in Int : z = ys[n]
  BY <1>1 DEF Inverses
<1>9. IsInverse(z, c, m)
  BY <1>1, <1>5, <1>7, <1>8 DEF Inverses
<1>10. PICK T \in Int : /\ ToLong(ToLong(c * x) * z) = T /\ T = c * (x * z)
                        /\ Abs(T) <= (c * m) * Abs(x) /\ divides(m, T - x)
  <2>1. (c * m) * Abs(x) <= LONG_MAX
    BY <1>2, <1>5, <1>6
  <2> QED BY <1>6, <1>9, <2>1, TermRight
<1>11. PICK R \in Int : R = r[n - 1] /\ Abs(R) <= te[n - 1]
                        /\ \A i \in 1 .. l : divides(ms[i], IF n - 1 < i THEN R ELSE R - xs[i])
  BY <1>1 DEF SumRight
<1>12. PICK B \in Int : B = P * Abs(xs[n])
  <2>1. Abs(xs[n]) \in Int
    BY <1>2 DEF Abs
  <2>2. \A k \in Int : P * k \in Int
    BY <1>2, SMT
  <2> QED BY <2>1, <2>2
<1>13. Abs(T) <= B
  BY <1>5, <1>6, <1>10, <1>12
<1>14. Abs(R + T) <= te[n] /\ R + T \in Int
  <2>1. te[n] = te[n - 1] + B
    BY <1>2, <1>12
  <2>2. te[n - 1] \in Nat /\ Abs(R) <= te[n - 1]
    BY <1>2, <1>11
  <2> QED BY <1>13, <2>1, <2>2 DEF Abs
<1>15. r[n] = R + T
  <2>1. r[n] = ToLong(r[n - 1] + ToLong(ToLong(Quot(P, ms[n]) * xs[n]) * ys[n]))
    <3>1. r = [i \in 0 .. Len(ys) |->
                 IF i = 0 THEN 0 ELSE ToLong(r[i - 1] + ToLong(ToLong(Quot(P, ms[i]) * xs[i]) * ys[i]))]
      BY Zenon DEF Summed
    <3>2. n \in 0 .. Len(ys) /\ n # 0
      BY <1>1
    <3> QED BY ONLY <3>1, <3>2, Zenon
  <2>2. r[n] = ToLong(R + T)
    BY ONLY <2>1, <1>5, <1>7, <1>8, <1>10, <1>11, Zenon
  <2>3. Abs(R + T) <= LONG_MAX
    BY <1>2, <1>14, DMathAssumption DEF Abs
  <2> QED BY <1>14, <2>2, <2>3, ToLongKeeps
<1>16. ASSUME NEW i \in 1 .. l PROVE divides(ms[i], IF n < i THEN r[n] ELSE r[n] - xs[i])
  <2>1. PICK d \in Nat \ {0} : d = ms[i]
    BY <1>3
  <2>2. CASE i = n
    <3>1. divides(m, R) /\ divides(m, T - x) /\ T - x \in Int
      BY <1>5, <1>10, <1>11, <2>2
    <3>2. divides(m, R + (T - x))
      BY ONLY <3>1, R \in Int, m \in Nat \ {0}, DividesSum, Zenon
    <3>3. R + (T - x) = r[n] - x
      BY <1>15
    <3> QED BY <1>5, <2>2, <3>2, <3>3
  <2>3. CASE i # n
    <3>1. divides(d, T)
      <4>1. divides(d, c) /\ c \in Int
        BY <1>6, <2>1, <2>3
      <4>2. x * z \in Int
        BY SMT
      <4>3. divides(d, c * (x * z))
        BY ONLY <4>1, <4>2, d \in Nat \ {0}, DividesProduct, Zenon
      <4> QED BY <1>10, <4>3
    <3>2. CASE n < i
      <4>1. divides(d, R)
        BY <1>11, <2>1, <3>2
      <4>2. divides(d, R + T)
        BY ONLY <3>1, <4>1, R \in Int, T \in Int, d \in Nat \ {0}, DividesSum, Zenon
      <4> QED BY <1>15, <2>1, <3>2, <4>2
    <3>3. CASE ~(n < i)
      <4>1. PICK v \in Int : v = xs[i]
        BY <1>1 DEF SystemFits
      <4>2. ~(n - 1 < i)
        BY <2>3, <3>3
      <4>3. divides(d, R - v) /\ R - v \in Int
        BY <1>11, <2>1, <4>1, <4>2
      <4>4. divides(d, (R - v) + T)
        BY ONLY <3>1, <4>3, T \in Int, d \in Nat \ {0}, DividesSum, Zenon
      <4>5. (R - v) + T = r[n] - v
        BY <1>15
      <4> QED BY <2>1, <3>3, <4>1, <4>4, <4>5
    <3> QED BY <3>2, <3>3
  <2> QED BY <2>2, <2>3
<1> QED BY <1>1, <1>14, <1>15, <1>16 DEF SumRight

LEMMA SumIsRight ==
  ASSUME NEW xs, NEW ms, SystemFits(xs, ms), NEW P, P = Product(ms)[Len(ms)],
         NEW ys, Inverses(ys, ms, P), NEW r, Summed(r, xs, ms, ys, P)
  PROVE  r[Len(ms)] \in Int /\ \A i \in 1 .. Len(ms) : divides(ms[i], r[Len(ms)] - xs[i])
<1>1. PICK l \in Nat : l = Len(ms) /\ Len(ys) = l
  <2>1. Len(ms) \in Nat
    BY DEF SystemFits, Positive
  <2> QED BY <2>1 DEF Inverses
<1>2. PICK te : te = Terms(xs, P)
  OBVIOUS
<1>3. te[0] = 0
  BY <1>2, TermsBound DEF Bounds
<1>4. PICK Q : Q = {n \in Nat : SumRight(r, n, xs, ms, te[n])}
  OBVIOUS
<1>5. 0 \in Q
  <2>1. r[0] = 0
    <3>1. r = [i \in 0 .. Len(ys) |->
                 IF i = 0 THEN 0 ELSE ToLong(r[i - 1] + ToLong(ToLong(Quot(P, ms[i]) * xs[i]) * ys[i]))]
      BY Zenon DEF Summed
    <3>2. 0 \in 0 .. Len(ys)
      BY <1>1
    <3> QED BY ONLY <3>1, <3>2, Zenon
  <2>2. ASSUME NEW i \in 1 .. l PROVE divides(ms[i], 0) /\ 0 < i
    <3>1. PICK d \in Nat \ {0} : d = ms[i]
      BY <1>1 DEF SystemFits, Positive
    <3>2. 0 = d * 0
      OBVIOUS
    <3> QED BY <3>1, <3>2, DivisorOfInt
  <2>3. SumRight(r, 0, xs, ms, te[0])
    BY <1>1, <1>3, <2>1, <2>2 DEF SumRight, Abs
  <2> QED BY <1>4, <2>3
<1>6. \A n \in 1 .. l : n - 1 \in Q => n \in Q
  <2> SUFFICES ASSUME NEW n \in 1 .. l, n - 1 \in Q PROVE n \in Q
    OBVIOUS
  <2>1. SumRight(r, n - 1, xs, ms, te[n - 1]) /\ n \in 1 .. Len(ms)
    BY <1>1, <1>4
  <2>2. SumRight(r, n, xs, ms, te[n])
    BY ONLY <2>1, <1>2, SystemFits(xs, ms), P = Product(ms)[Len(ms)], Inverses(ys, ms, P),
            Summed(r, xs, ms, ys, P), SumStep, Zenon
  <2> QED BY <1>4, <2>2
<1>7. \A n \in 0 .. l : n \in Q
  BY ONLY l \in Nat, <1>5, <1>6, UpTo, Zenon
<1>8. SumRight(r, l, xs, ms, te[l])
  BY <1>4, <1>7
<1>9. \A i \in 1 .. l : ~(l < i)
  OBVIOUS
<1> QED BY <1>1, <1>8, <1>9 DEF SumRight

\* The cofactor is what the division yields.
LEMMA QuotCofactor ==
  ASSUME NEW ms, Positive(ms), NEW i \in 1 .. Len(ms)
  PROVE  Cofactor(ms, i, Len(ms), Quot(Product(ms)[Len(ms)], ms[i]))
<1>1. PICK l \in Nat : l = Len(ms)
  BY DEF Positive
<1>2. PICK m \in Nat \ {0} : m = ms[i]
  BY <1>1 DEF Positive
<1>3. PICK c : Cofactor(ms, i, l, c)
  BY <1>1, CofactorExists
<1>4. c \in Nat \ {0} /\ Product(ms)[l] = c * m
  <2>1. ~(l < i)
    BY <1>1
  <2> QED BY <1>2, <1>3, <2>1 DEF Cofactor
<1>5. Quot(c * m, m) = c
  BY <1>4, QuotExact
<1>6. Quot(Product(ms)[l], ms[i]) = c
  BY ONLY <1>2, <1>4, <1>5, Zenon
<1> QED BY ONLY <1>1, <1>3, <1>6, Zenon

\* With every inverse found, the moduli are coprime.
LEMMA InversesCoprime ==
  ASSUME NEW ms, Positive(ms), NEW ys, Inverses(ys, ms, Product(ms)[Len(ms)])
  PROVE  Pairwise(ms)
<1>1. PICK l \in Nat : l = Len(ms) /\ DOMAIN ms = 1 .. l /\ Len(ys) = l
  BY DEF Positive, Inverses
<1> SUFFICES ASSUME NEW i \in 1 .. l, NEW j \in 1 .. l, i # j PROVE Coprime(ms[i], ms[j])
  BY <1>1 DEF Pairwise
<1>2. PICK m \in Nat \ {0}, n \in Nat \ {0} : m = ms[i] /\ n = ms[j]
  BY <1>1 DEF Positive
<1>3. PICK c : c = Quot(Product(ms)[Len(ms)], ms[j]) /\ Cofactor(ms, j, l, c)
  <2>1. j \in 1 .. Len(ms)
    BY <1>1
  <2>2. Cofactor(ms, j, Len(ms), Quot(Product(ms)[Len(ms)], ms[j]))
    BY ONLY <2>1, Positive(ms), QuotCofactor, Zenon
  <2> QED BY <1>1, <2>2
<1>4. PICK z \in Int : z = ys[j] /\ IsInverse(z, c, n)
  <2>1. ys[j] \in Int
    BY <1>1 DEF Inverses
  <2>2. IsInverse(ys[j], c, n)
    BY <1>1, <1>2, <1>3 DEF Inverses
  <2> QED BY <2>1, <2>2
<1>5. PICK k \in Int : z * c + k * n = 1
  BY <1>4 DEF IsInverse
<1>6. c \in Int /\ divides(m, c)
  BY <1>2, <1>3 DEF Cofactor
<1>7. PICK q \in Int : c = m * q
  BY <1>6, DivisorOfInt
<1>8. (z * q) * m + k * n = 1 /\ z * q \in Int
  <2>1. z * (m * q) = (z * q) * m /\ z * q \in Int
    BY SMT
  <2> QED BY <1>5, <1>7, <2>1
<1>9. PICK w \in Int : w = z * q
  BY <1>8
<1>10. w * m + k * n = 1
  BY <1>8, <1>9
<1>11. Coprime(m, n)
  <2>1. m \in Int /\ n \in Int /\ m # 0 /\ n # 0
    OBVIOUS
  <2> QED BY ONLY <1>10, <2>1, w \in Int, k \in Int, CombinedCoprime, Zenon
<1> QED BY <1>2, <1>11

\* What is left of the sum, made positive, leaves the same remainders.
LEMMA RemainderRight ==
  ASSUME NEW S \in Int, NEW P \in Nat \ {0}, NEW x, x = IF Rem(S, P) < 0 THEN Rem(S, P) + P ELSE Rem(S, P)
  PROVE  /\ x \in 0 .. P - 1
         /\ \A d \in Nat \ {0}, v \in Int : divides(d, P) /\ divides(d, S - v) => divides(d, x - v)
<1>1. PICK r \in Int : r = Rem(S, P) /\ Abs(r) < Abs(P)
  BY RemSmall
<1>2. x \in 0 .. P - 1
  BY <1>1 DEF Abs
<1>3. PICK q \in Int : x = S - P * q
  <2>1. PICK k \in Int : k = Quot(S, P)
    BY QuotInt
  <2>2. r = S - P * k
    BY <1>1, <2>1 DEF Rem
  <2>3. P * (k - 1) = P * k - P
    BY SMT
  <2>4. PICK z \in Int : z = P * k
    <3>1. P * k \in Int
      BY SMT
    <3> QED BY <3>1
  <2>5. x = S - z \/ x = S - (z - P)
    BY <1>1, <2>2, <2>4
  <2>6. x = S - P * k \/ x = S - P * (k - 1)
    BY ONLY <2>3, <2>4, <2>5, Zenon
  <2> QED BY ONLY <2>6, k \in Int, k - 1 \in Int, Zenon
<1>4. ASSUME NEW d \in Nat \ {0}, NEW v \in Int, divides(d, P), divides(d, S - v) PROVE divides(d, x - v)
  <2>1. P * q \in Int /\ divides(d, P * q)
    <3>1. P \in Int
      OBVIOUS
    <3> QED BY ONLY <3>1, <1>4, q \in Int, DividesProduct, Zenon
  <2>2. S - v \in Int
    OBVIOUS
  <2>3. divides(d, (S - v) - P * q)
    BY ONLY <1>4, <2>1, <2>2, d \in Nat \ {0}, DividesSum, Zenon
  <2>4. (S - v) - P * q = x - v
    BY <1>3, <2>1
  <2> QED BY <2>3, <2>4
<1> QED BY <1>2, <1>4

\* Such a sum exists whatever the longs, since every term is cut down to a long.
LEMMA SumExists ==
  ASSUME NEW xs \in Seq(Int), NEW ms \in Seq(Int \ {0}), NEW ys \in Seq(Int), NEW P \in Int,
         Len(xs) = Len(ms), Len(ys) = Len(ms), NEW S,
         S = CHOOSE r : Summed(r, xs, ms, ys, P)
  PROVE  Summed(S, xs, ms, ys, P) /\ S[Len(ys)] \in Int
<1>1. Len(ys) \in Nat /\ \A i \in 1 .. Len(ys) : ms[i] \in Int \ {0} /\ xs[i] \in Int /\ ys[i] \in Int
  OBVIOUS
<1>2. PICK l \in Nat : l = Len(ys)
  BY <1>1
<1>3. PICK term : term = [i \in 1 .. l |-> ToLong(ToLong(Quot(P, ms[i]) * xs[i]) * ys[i])]
  OBVIOUS
<1>4. ASSUME NEW i \in 1 .. l PROVE term[i] \in Int /\ term[i] = ToLong(ToLong(Quot(P, ms[i]) * xs[i]) * ys[i])
  <2>1. PICK c \in Int, x \in Int, z \in Int : c = Quot(P, ms[i]) /\ x = xs[i] /\ z = ys[i]
    BY <1>1, <1>2, QuotInt
  <2>2. c * x \in Int
    BY SMT
  <2>3. PICK k \in Int : k = ToLong(c * x)
    BY <2>2, ToLongInt
  <2>4. k * z \in Int
    BY SMT
  <2>5. ToLong(k * z) \in Int
    BY <2>4, ToLongInt
  <2>6. term[i] = ToLong(ToLong(Quot(P, ms[i]) * xs[i]) * ys[i])
    BY <1>3, Zenon
  <2> QED BY ONLY <2>1, <2>3, <2>5, <2>6, Zenon
<1>5. PICK next : next = [z \in (1 .. l) \X Int |-> ToLong(z[2] + term[z[1]])]
  OBVIOUS
<1>6. ASSUME NEW i \in 1 .. l, NEW k \in Int PROVE next[<<i, k>>] = ToLong(k + term[i]) /\ next[<<i, k>>] \in Int
  <2>1. k + term[i] \in Int
    BY <1>4
  <2>2. next[<<i, k>>] = ToLong(k + term[i])
    BY <1>5
  <2> QED BY <2>1, <2>2, ToLongInt
<1>7. next \in [(1 .. l) \X Int -> Int]
  <2>1. \A z \in (1 .. l) \X Int : z = <<z[1], z[2]>> /\ z[1] \in 1 .. l /\ z[2] \in Int
    OBVIOUS
  <2>2. next = [z \in (1 .. l) \X Int |-> next[z]]
    BY <1>5
  <2> QED BY <1>6, <2>1, <2>2
<1>8. l \in Nat /\ 0 \in Int
  OBVIOUS
<1>9. PICK r : Row(r, l, 0, next)
  BY ONLY <1>8, <1>7, RowExists, Zenon
<1>10. Rises(r, l, 0, next)
  BY ONLY <1>8, <1>7, <1>9, RowIs, Zenon
<1>11. r[0] = 0 /\ (\A i \in 1 .. l : i - 1 \in 0 .. l /\ r[i] = next[<<i, r[i - 1]>>])
      /\ \A i \in 0 .. l : r[i] \in Int
  BY <1>10 DEF Rises
<1>12. ASSUME NEW i \in 0 .. l
       PROVE  r[i] = IF i = 0 THEN 0 ELSE ToLong(r[i - 1] + ToLong(ToLong(Quot(P, ms[i]) * xs[i]) * ys[i]))
  <2>1. CASE i # 0
    <3>1. i \in 1 .. l /\ r[i - 1] \in Int
      BY <1>11, <2>1
    <3>2. r[i] = ToLong(r[i - 1] + term[i])
      BY <1>6, <1>11, <3>1
    <3> QED BY ONLY <1>4, <2>1, <3>1, <3>2, Zenon
  <2> QED BY <1>11, <2>1
<1>13. r = [i \in 0 .. l |-> r[i]]
  BY <1>9 DEF Row
<1>14. r = [i \in 0 .. l |-> IF i = 0 THEN 0 ELSE ToLong(r[i - 1] + ToLong(ToLong(Quot(P, ms[i]) * xs[i]) * ys[i]))]
  BY ONLY <1>12, <1>13, Zenon
<1>15. Summed(r, xs, ms, ys, P)
  BY ONLY <1>2, <1>14, Zenon DEF Summed
<1>16. Summed(S, xs, ms, ys, P)
  BY <1>15
<1>17. S = [i \in 0 .. l |-> IF i = 0 THEN 0 ELSE ToLong(S[i - 1] + ToLong(ToLong(Quot(P, ms[i]) * xs[i]) * ys[i]))]
  BY ONLY <1>2, <1>16, Zenon DEF Summed
<1>18. \A i \in 0 .. l : S[i] = IF i = 0 THEN 0 ELSE ToLong(S[i - 1] + ToLong(ToLong(Quot(P, ms[i]) * xs[i]) * ys[i]))
  BY ONLY <1>17, Zenon
<1>19. PICK Q : Q = {i \in Nat : S[i] \in Int}
  OBVIOUS
<1>20. 0 \in Q
  <2>1. 0 \in 0 .. l /\ 0 \in Nat
    OBVIOUS
  <2>2. S[0] = 0
    BY ONLY <1>18, <2>1, Zenon
  <2> QED BY <1>19, <2>2
<1>21. \A i \in 1 .. l : i - 1 \in Q => i \in Q
  <2> SUFFICES ASSUME NEW i \in 1 .. l, i - 1 \in Q PROVE i \in Q
    OBVIOUS
  <2>1. i \in 0 .. l /\ i # 0 /\ i \in Nat /\ S[i - 1] \in Int
    BY <1>19
  <2>2. S[i] = ToLong(S[i - 1] + term[i])
    BY ONLY <1>4, <1>18, <2>1, i \in 1 .. l, Zenon
  <2>3. S[i - 1] + term[i] \in Int
    BY <1>4, <2>1
  <2> QED BY <1>19, <2>1, <2>2, <2>3, ToLongInt
<1>22. \A i \in 0 .. l : i \in Q
  BY ONLY <1>8, <1>20, <1>21, UpTo, Zenon
<1>23. S[l] \in Int
  BY <1>19, <1>22
<1> QED BY <1>2, <1>16, <1>23
-----------------------------------------------------------------------------
\* chinese_remainder starts from scratch.
Fresh == NoCall => sm = 1 /\ nm = 0 /\ y = <<>>

\* Every equation seen so far has its inverse. When the longs are large enough,
\* the product is the one of the moduli, and is never 0 when it is divided by.
SystemState(xs, ms) ==
  /\ xs \in Seq(Int \ {0}) /\ ms \in Seq(Int \ {0}) /\ Len(xs) = Len(ms) /\ Len(ms) >= 1
  /\ Len(y) <= Len(ms)
  /\ pc = "product" => y = <<>>
  /\ pc = "extended_gcd" => Len(y) < Len(ms) /\ a0 = M(Len(y) + 1) /\ b0 = ms[Len(y) + 1]
  /\ pc = "extended_gcd" \/ Len(y) >= 1 => sm # 0
  /\ SystemFits(xs, ms) =>
       /\ nm \in 0 .. Len(ms) /\ sm = Product(ms)[nm]
       /\ pc # "product" => nm = Len(ms)
       /\ \A i \in 1 .. Len(y) : IsInverse(y[i], M(i), ms[i])

System == pc # "idle" /\ asked.fn = "chinese_remainder" => SystemState(asked.args[1], asked.args[2])

SystemAnswered == Answered /\ asked.fn = "chinese_remainder" => SystemRight(asked.args[1], asked.args[2])

\* Where the longs are too small, no answer is promised.
LEMMA TooLarge ==
  ASSUME NEW xs \in Seq(Int \ {0}), NEW ms \in Seq(Int \ {0}), Len(xs) = Len(ms), Len(ms) >= 1, ~SystemFits(xs, ms)
  PROVE  (\E i \in DOMAIN ms : ms[i] < 0) \/ Terms(xs, Product(ms)[Len(ms)])[Len(xs)] > LONG_MAX
<1> SUFFICES ASSUME \A i \in DOMAIN ms : ~(ms[i] < 0)
             PROVE  Terms(xs, Product(ms)[Len(ms)])[Len(xs)] > LONG_MAX
  OBVIOUS
<1>1. Len(ms) \in Nat /\ DOMAIN ms = 1 .. Len(ms) /\ \A i \in 1 .. Len(ms) : ms[i] \in Int \ {0}
  OBVIOUS
<1>2. Positive(ms)
  <2>1. \A i \in 1 .. Len(ms) : ms[i] \in Nat \ {0}
    BY <1>1
  <2>2. ms \in Seq(Int)
    OBVIOUS
  <2> QED BY <2>1, <2>2 DEF Positive
<1>3. PICK P \in Nat : P = Product(ms)[Len(ms)]
  <2>1. Len(ms) \in 0 .. Len(ms)
    BY <1>1
  <2>2. Product(ms)[Len(ms)] \in Nat \ {0}
    BY ONLY <1>2, <2>1, ProductGrows, Zenon
  <2> QED BY <2>2
<1>4. xs \in Seq(Int) /\ Len(xs) \in 0 .. Len(xs)
  OBVIOUS
<1>5. Terms(xs, P)[Len(xs)] \in Nat
  BY ONLY <1>4, P \in Nat, TermsIs, Zenon
<1>6. ~(Terms(xs, P)[Len(xs)] <= LONG_MAX)
  BY <1>2, <1>3 DEF SystemFits
<1>7. Terms(xs, P)[Len(xs)] > LONG_MAX
  BY <1>5, <1>6, DMathAssumption
<1> QED BY <1>3, <1>7

\* Then any answer will do.
LEMMA TooLargeRight ==
  ASSUME NEW xs \in Seq(Int \ {0}), NEW ms \in Seq(Int \ {0}), Len(xs) = Len(ms), Len(ms) >= 1, ~SystemFits(xs, ms)
  PROVE  SystemRight(xs, ms)'
<1>1. (\E i \in DOMAIN ms : ms[i] < 0) \/ Terms(xs, Product(ms)[Len(ms)])[Len(xs)] > LONG_MAX
  BY TooLarge
<1> QED BY <1>1, Zenon DEF SystemRight

LEMMA ProductOne == \A ms \in Seq(Int) : Product(ms)[0] = 1
BY ProductIs, Zenon

LEMMA ChineseRemainderSystem ==
  ASSUME IInv, Fresh, NoCall, NEW n \in Nat, NEW xs \in [1 .. n -> Remainders], NEW ms \in [1 .. n -> Moduli],
         chinese_remainder(xs, ms)
  PROVE  System' /\ SystemAnswered'
<1>1. asked' = [fn |-> "chinese_remainder", args |-> <<xs, ms>>]
  BY DEF chinese_remainder, Ask
<1>2. asked'.args[1] = xs /\ asked'.args[2] = ms
  BY <1>1
<1>3. sm' = 1 /\ nm' = 0 /\ y' = <<>>
  BY DEF Fresh, chinese_remainder, equations
<1>4. xs \in [1 .. n -> Int] /\ ms \in [1 .. n -> Int]
  BY DMathAssumption
<1>5. /\ xs \in Seq(Int) /\ ms \in Seq(Int) /\ DOMAIN ms = 1 .. n /\ DOMAIN xs = 1 .. n
      /\ Len(ms) = n /\ Len(xs) = n
  BY <1>4, SeqDef, LenProperties
<1>6. CASE ~(Len(ms) >= 1)
  <2>1. Len(ms) = 0 /\ answer' = -EINVAL /\ pc' = "idle"
    <3>1. Len(ms) = 0
      BY <1>5, <1>6
    <3>2. answer' = -EINVAL /\ pc' = "idle"
      BY <1>6 DEF chinese_remainder, NoCall
    <3> QED BY <3>1, <3>2
  <2>2. SystemRight(xs, ms)'
    BY <2>1, Zenon DEF SystemRight
  <2> QED BY <1>2, <2>1, <2>2 DEF System, SystemAnswered
<1>7. CASE Len(ms) >= 1 /\ \E i \in DOMAIN ms : xs[i] = 0 \/ ms[i] = 0
  <2>1. answer' = -EDOM /\ pc' = "idle"
    BY <1>5, <1>7 DEF chinese_remainder, NoCall
  <2>2. SystemRight(xs, ms)'
    BY <1>7, <2>1, Zenon DEF SystemRight
  <2> QED BY <1>2, <2>1, <2>2 DEF System, SystemAnswered
<1>8. CASE Len(ms) >= 1 /\ ~\E i \in DOMAIN ms : xs[i] = 0 \/ ms[i] = 0
  <2>1. \/ answer' = -ENOMEM /\ pc' = "idle"
        \/ answer' = NULL /\ pc' = "product"
    BY <1>5, <1>8 DEF chinese_remainder, NoCall
  <2>2. CASE answer' = -ENOMEM /\ pc' = "idle"
    <3>1. SystemRight(xs, ms)'
      BY <1>8, <2>2, Zenon DEF SystemRight
    <3> QED BY <1>2, <2>2, <3>1 DEF System, SystemAnswered
  <2>3. CASE answer' = NULL /\ pc' = "product"
    <3>1. xs \in Seq(Int \ {0}) /\ ms \in Seq(Int \ {0})
      <4>1. \A i \in 1 .. n : xs[i] \in Int \ {0} /\ ms[i] \in Int \ {0}
        BY <1>4, <1>5, <1>8
      <4>2. xs \in [1 .. n -> Int \ {0}] /\ ms \in [1 .. n -> Int \ {0}]
        BY <1>4, <4>1
      <4> QED BY <4>2, SeqDef
    <3>2. 0 \in 0 .. Len(ms) /\ Product(ms)[0] = 1 /\ Len(<<>>) = 0
      BY <1>5, ProductOne
    <3>3. Len(<<>>) <= Len(ms) /\ ~(Len(<<>>) >= 1) /\ \A i : ~(i \in 1 .. Len(<<>>))
      BY <1>5, <3>2
    <3>4. SystemState(xs, ms)'
      BY <1>3, <1>5, <1>8, <2>3, <3>1, <3>2, <3>3 DEF SystemState
    <3> QED BY <1>1, <1>2, <2>3, <3>4 DEF System, SystemAnswered, Answered
  <2> QED BY <2>1, <2>2, <2>3
<1> QED BY <1>6, <1>7, <1>8

\* The equations of a running call.
LEMMA Solving ==
  ASSUME IInv, System, pc # "idle", asked.fn = "chinese_remainder"
  PROVE  \E xs, ms : xs = asked.args[1] /\ ms = asked.args[2] /\ SystemState(xs, ms)
BY DEF System

LEMMA MultiplySystem ==
  ASSUME IInv, System, Multiply
  PROVE  System' /\ SystemAnswered' /\ Fresh'
<1>1. pc = "product" /\ asked.fn = "chinese_remainder" /\ answer = NULL /\ sm \in Int /\ nm \in Nat
  BY DEF Multiply, IInv, Callers, Numbers
<1>2. PICK xs, ms : xs = asked.args[1] /\ ms = asked.args[2] /\ SystemState(xs, ms)
  BY <1>1, Solving
<1>3. UNCHANGED <<asked, answer, y>> /\ pc' \in {"product", "inverses"}
  BY <1>1 DEF Multiply
<1>4. /\ y = <<>> /\ Len(ms) \in Nat /\ Len(<<>>) = 0
      /\ xs \in Seq(Int \ {0}) /\ ms \in Seq(Int \ {0}) /\ Len(xs) = Len(ms) /\ Len(ms) >= 1
  BY <1>1, <1>2 DEF SystemState
<1>5. ASSUME SystemFits(xs, ms)
      PROVE  nm' \in 0 .. Len(ms) /\ sm' = Product(ms)[nm'] /\ (pc' # "product" => nm' = Len(ms))
  <2>1. nm \in 0 .. Len(ms) /\ sm = Product(ms)[nm]
    BY <1>2, <1>5 DEF SystemState
  <2>2. CASE nm < Len(ms)
    <3>1. nm' = nm + 1 /\ sm' = ToLong(sm * ms[nm + 1]) /\ pc' = pc
      BY <1>2, <2>2 DEF Multiply
    <3>2. nm + 1 \in 1 .. Len(ms) /\ nm + 1 \in 0 .. Len(ms) /\ nm + 1 - 1 = nm
      BY <1>4, <2>1, <2>2
    <3>3. Positive(ms) /\ ms \in Seq(Int)
      BY <1>5 DEF SystemFits, Positive
    <3>4. Product(ms)[nm + 1] = sm * ms[nm + 1]
      <4>0. PICK k \in Int : k = nm + 1
        BY <1>1
      <4>1. k = nm + 1 /\ k - 1 = nm /\ k \in 1 .. Len(ms)
        BY <1>1, <3>2, <4>0
      <4>2. Product(ms)[k] = Product(ms)[k - 1] * ms[k]
        BY ONLY <3>3, <4>1, ProductIs, Zenon
      <4>3. Product(ms)[k] = sm * ms[k]
        BY <2>1, <4>1, <4>2
      <4> QED BY <4>1, <4>3
    <3>5. PICK P : P = Product(ms)[Len(ms)] /\ P \in Nat /\ P <= LONG_MAX
      <4>1. Bounds(Terms(xs, Product(ms)[Len(ms)]), Product(ms)[Len(ms)], xs, Len(ms))
        BY ONLY <1>5, TermsBound, Zenon
      <4> QED BY <4>1 DEF Bounds
    <3>6. PICK p \in Nat : p = Product(ms)[nm + 1] /\ p <= P
      <4>1. Product(ms)[nm + 1] \in Nat \ {0} /\ Product(ms)[nm + 1] <= Product(ms)[Len(ms)]
        BY ONLY <3>2, <3>3, ProductGrows, Zenon
      <4> QED BY <3>5, <4>1
    <3>7. ToLong(p) = p
      <4>1. Abs(p) <= LONG_MAX
        BY <3>5, <3>6, DMathAssumption DEF Abs
      <4> QED BY <4>1, ToLongKeeps
    <3>8. sm' = Product(ms)[nm + 1]
      BY ONLY <3>1, <3>4, <3>6, <3>7, Zenon
    <3> QED BY <1>1, <3>1, <3>2, <3>8
  <2>3. CASE ~(nm < Len(ms))
    <3>1. nm' = nm /\ sm' = sm
      BY <1>2, <2>3 DEF Multiply
    <3>2. nm = Len(ms)
      BY <1>4, <2>1, <2>3
    <3> QED BY <2>1, <3>1, <3>2
  <2> QED BY <2>2, <2>3
<1>6. Len(<<>>) <= Len(ms) /\ ~(Len(<<>>) >= 1) /\ \A i : ~(i \in 1 .. Len(<<>>))
  BY <1>4
<1>7. SystemState(xs, ms)'
  BY <1>3, <1>4, <1>5, <1>6 DEF SystemState
<1> QED BY <1>1, <1>2, <1>3, <1>7 DEF System, SystemAnswered, Answered, Fresh, NoCall

LEMMA RoundSystem ==
  ASSUME IInv, System, Round
  PROVE  System' /\ SystemAnswered' /\ Fresh'
<1>1. pc = "extended_gcd" /\ answer = NULL /\ UNCHANGED <<asked, answer, pc, a0, b0, sm, nm, y>>
  BY DEF Round, IInv, Callers, equations
<1>2. CASE asked.fn = "chinese_remainder"
  <2>1. PICK xs, ms : xs = asked.args[1] /\ ms = asked.args[2] /\ SystemState(xs, ms)
    BY <1>1, <1>2, Solving
  <2>2. SystemState(xs, ms)'
    BY <1>1, <2>1 DEF SystemState, M
  <2> QED BY <1>1, <2>1, <2>2 DEF System, SystemAnswered, Answered, Fresh, NoCall
<1>3. CASE asked.fn # "chinese_remainder"
  BY <1>1, <1>3 DEF System, SystemAnswered, Fresh, NoCall
<1> QED BY <1>2, <1>3

\* Dividing 0 yields 0, so no factor is ever sought for a product that is 0.
LEMMA QuotZero ==
  ASSUME NEW n \in Int, n # 0
  PROVE  Quot(0, n) = 0
<1>1. PICK d \in Nat \ {0} : d = Abs(n)
  BY DEF Abs
<1>2. Abs(0) = 0 /\ 0 \div d = 0
  BY SMT DEF Abs
<1> QED BY <1>1, <1>2 DEF Quot

LEMMA FindInverseSystem ==
  ASSUME IInv, System, FindInverse
  PROVE  System' /\ SystemAnswered' /\ Fresh' /\ Bounded'
<1>1. pc = "inverses" /\ asked.fn = "chinese_remainder" /\ answer = NULL /\ sm \in Int /\ nm \in Nat /\ y \in Seq(Int)
  BY DEF FindInverse, IInv, Callers, Numbers
<1>2. PICK xs, ms : xs = asked.args[1] /\ ms = asked.args[2] /\ SystemState(xs, ms)
  BY <1>1, Solving
<1>3. UNCHANGED <<asked, sm, nm, y>>
  BY DEF FindInverse, equations
<1>4. PICK i \in Nat : i = Len(y) + 1 /\ i \in 1 .. Len(ms)
  <2>1. Len(y) \in Nat /\ Len(y) + 1 <= Len(ms) /\ Len(ms) \in Nat
    BY <1>1, <1>2 DEF FindInverse, SystemState
  <2> QED BY <2>1
<1>5. PICK m \in Int : m = ms[i] /\ m # 0
  <2>1. ms \in Seq(Int \ {0})
    BY <1>2 DEF SystemState
  <2>2. ms[i] \in Int \ {0}
    BY <1>4, <2>1
  <2> QED BY <2>2
<1>6. M(i) = Quot(sm, m) /\ M(i) \in Int
  BY <1>1, <1>2, <1>5, QuotInt DEF M
<1>7. xs \in Seq(Int \ {0}) /\ ms \in Seq(Int \ {0}) /\ Len(xs) = Len(ms) /\ Len(ms) >= 1
  BY <1>2 DEF SystemState
<1>8. CASE M(i) = 0
  <2>1. pc' = "idle" /\ answer' = -EDOM
    BY <1>4, <1>8 DEF FindInverse
  <2>2. ~SystemFits(xs, ms)
    <3> SUFFICES ASSUME SystemFits(xs, ms) PROVE FALSE
      OBVIOUS
    <3>1. sm = Product(ms)[Len(ms)]
      BY <1>1, <1>2 DEF SystemState
    <3>2. Positive(ms) /\ i \in 1 .. Len(ms)
      BY <1>4 DEF SystemFits
    <3>3. Cofactor(ms, i, Len(ms), Quot(Product(ms)[Len(ms)], ms[i]))
      BY ONLY <3>2, QuotCofactor, Zenon
    <3>4. Cofactor(ms, i, Len(ms), 0)
      BY ONLY <1>5, <1>6, <1>8, <3>1, <3>3, Zenon
    <3> QED BY <3>4 DEF Cofactor
  <2>3. SystemRight(xs, ms)'
    BY ONLY <1>7, <2>2, TooLargeRight
  <2>4. answer' # NULL
    BY <2>1, DMathAssumption
  <2> QED BY <1>2, <1>3, <2>1, <2>3, <2>4 DEF System, SystemAnswered, Fresh, NoCall, Bounded
<1>9. CASE M(i) # 0
  <2>1. Enter(M(i), m) /\ answer' = answer
    BY <1>2, <1>4, <1>5, <1>9 DEF FindInverse
  <2>2. pc' = "extended_gcd" /\ a0' = M(i) /\ b0' = m
    BY <2>1 DEF Enter
  <2>3. sm # 0
    BY <1>5, <1>6, <1>9, QuotZero
  <2>4. Len(y) < Len(ms) /\ Len(y) <= Len(ms)
    BY <1>4, <1>7
  <2>5. \A j : M(j)' = M(j)
    BY <1>3 DEF M
  <2>6. SystemFits(xs, ms) => nm \in 0 .. Len(ms) /\ sm = Product(ms)[nm] /\ nm = Len(ms)
                              /\ \A j \in 1 .. Len(y) : IsInverse(y[j], M(j), ms[j])
    BY <1>1, <1>2 DEF SystemState
  <2>7. SystemState(xs, ms)'
    BY <1>3, <1>4, <1>5, <1>7, <2>2, <2>3, <2>4, <2>5, <2>6 DEF SystemState
  <2>8. Bounded'
    BY <1>5, <1>6, <1>9, <2>1, EnterBounded
  <2> QED BY <1>1, <1>2, <1>3, <2>1, <2>2, <2>7, <2>8 DEF System, SystemAnswered, Answered, Fresh, NoCall
<1> QED BY <1>8, <1>9

\* Coprime moduli leave 1.
LEMMA LeftOfCoprime ==
  ASSUME NEW A \in Int, NEW B \in Int, A # 0, B # 0, NEW u \in Int, NEW v \in Int, u * A + v * B = 1,
         NEW m \in Int, NEW n \in Int, n # 0, SameDivisors(A, B, m, n), Rem(m, n) = 0
  PROVE  Abs(n) = 1
<1>1. PICK d \in Nat \ {0} : d = Abs(n) /\ divides(d, n)
  BY DividesSelf
<1>2. PICK q \in Int : q = Quot(m, n)
  BY QuotInt
<1>3. m = n * q
  <2>1. m - n * q = 0
    BY <1>2 DEF Rem
  <2>2. n * q \in Int
    BY SMT
  <2> QED BY <2>1, <2>2
<1>4. divides(d, m)
  <2>1. divides(d, n * q)
    BY ONLY <1>1, n \in Int, q \in Int, d \in Nat \ {0}, DividesProduct, Zenon
  <2> QED BY <1>3, <2>1
<1>5. divides(d, A) /\ divides(d, B)
  BY <1>1, <1>4 DEF SameDivisors
<1>6. \A k \in Nat \ {0} : divides(k, A) /\ divides(k, B) => k = 1
  BY CombinedCoprime
<1> QED BY <1>1, <1>5, <1>6

LEMMA RoundsEndSystem ==
  ASSUME IInv, Euclid, Bounded, System, RoundsEnd
  PROVE  System' /\ SystemAnswered' /\ Fresh'
<1>1. /\ pc = "extended_gcd" /\ a \in Int /\ b \in Int /\ b # 0 /\ a0 \in Int /\ b0 \in Int /\ a0 # 0 /\ b0 # 0
      /\ y \in Seq(Int) /\ answer = NULL /\ Rem(a, b) = 0 /\ SameDivisors(a0, b0, a, b)
  BY DEF RoundsEnd, IInv, Callers, Numbers, Factors, Euclid
<1>2. UNCHANGED <<asked, sm, nm>>
  BY DEF RoundsEnd
<1>3. CASE asked.fn = "extended_gcd"
  <2>1. pc' = "idle" /\ answer' = Abs(b)
    BY <1>3 DEF RoundsEnd
  <2>2. answer' # NULL
    BY <1>1, <2>1, DMathAssumption DEF Abs
  <2> QED BY <1>2, <1>3, <2>1, <2>2 DEF System, SystemAnswered, Fresh, NoCall
<1>4. CASE asked.fn # "extended_gcd"
  <2>1. asked.fn = "chinese_remainder" /\ Found
    BY <1>1, <1>4 DEF RoundsEnd, IInv, Callers
  <2>2. PICK xs, ms : xs = asked.args[1] /\ ms = asked.args[2] /\ SystemState(xs, ms)
    BY <1>1, <2>1, Solving
  <2>3. PICK i \in Nat : i = Len(y) + 1 /\ i \in 1 .. Len(ms) /\ a0 = M(i) /\ b0 = ms[i]
    <3>1. Len(y) \in Nat /\ Len(ms) \in Nat /\ Len(y) < Len(ms) /\ a0 = M(Len(y) + 1) /\ b0 = ms[Len(y) + 1]
      BY <1>1, <2>2 DEF SystemState
    <3> QED BY <3>1
  <2>4. /\ xs \in Seq(Int \ {0}) /\ ms \in Seq(Int \ {0}) /\ Len(xs) = Len(ms) /\ Len(ms) >= 1
        /\ Len(y) \in Nat /\ Len(ms) \in Nat /\ Len(y) < Len(ms) /\ sm # 0
    BY <1>1, <2>2 DEF SystemState
  <2>5. CASE Abs(b) = 1
    <3>1. pc' = "inverses" /\ y' = Append(y, s') /\ answer' = NULL
      BY <1>1, <2>1, <2>5 DEF Found
    <3>2. s' \in Int /\ t' \in Int /\ s' * a0 + t' * b0 = 1 /\ Abs(s') <= Abs(b0)
      BY <2>5, LastFactors, RoundsEndBounded
    <3>3. Len(y') = i /\ y'[i] = s' /\ \A j \in 1 .. i : j # i => j \in 1 .. Len(y) /\ y'[j] = y[j]
      <4>1. PICK e \in Int : e = s'
        BY <3>2
      <4>2. Len(Append(y, e)) = Len(y) + 1 /\ (\A j \in 1 .. Len(y) : Append(y, e)[j] = y[j])
            /\ Append(y, e)[Len(y) + 1] = e
        BY <1>1, AppendProperties
      <4>3. \A j \in 1 .. i : j # i => j \in 1 .. Len(y)
        BY <2>3, <2>4
      <4> QED BY <2>3, <3>1, <4>1, <4>2, <4>3
    <3>4. \A j : M(j)' = M(j)
      BY <1>2 DEF M
    <3>5. ASSUME SystemFits(xs, ms), NEW j \in 1 .. i PROVE IsInverse(y'[j], M(j), ms[j])
      <4>1. CASE j = i
        <5>1. Abs(b0) = b0
          BY <2>3, <3>5 DEF SystemFits, Positive, Abs
        <5>2. \E k \in Int : s' * a0 + k * b0 = 1
          BY ONLY <3>2, Zenon
        <5>3. IsInverse(s', a0, b0)
          BY <3>2, <5>1, <5>2 DEF IsInverse
        <5> QED BY <2>3, <3>3, <4>1, <5>3
      <4>2. CASE j # i
        BY <2>2, <3>3, <3>5, <4>2 DEF SystemState
      <4> QED BY <4>1, <4>2
    <3>6. SystemFits(xs, ms) => nm \in 0 .. Len(ms) /\ sm = Product(ms)[nm] /\ nm = Len(ms)
      BY <1>1, <2>2 DEF SystemState
    <3>7. i <= Len(ms)
      BY <2>3
    <3>8. SystemState(xs, ms)'
      BY <1>2, <2>4, <3>1, <3>3, <3>4, <3>5, <3>6, <3>7 DEF SystemState
    <3> QED BY <1>2, <2>2, <3>1, <3>8 DEF System, SystemAnswered, Answered, Fresh, NoCall
  <2>6. CASE Abs(b) # 1
    <3>1. pc' = "idle" /\ answer' = -EDOM
      BY <2>1, <2>6 DEF Found
    <3>2. answer' # NULL
      BY <3>1, DMathAssumption
    <3>3. SystemRight(xs, ms)'
      <4>1. CASE ~SystemFits(xs, ms)
        BY ONLY <2>4, <4>1, TooLargeRight
      <4>2. CASE SystemFits(xs, ms)
        <5>1. ~Pairwise(ms)
          <6> SUFFICES ASSUME Pairwise(ms) PROVE FALSE
            OBVIOUS
          <6>1. Positive(ms) /\ i \in 1 .. Len(ms) /\ sm = Product(ms)[Len(ms)]
            BY <1>1, <2>2, <2>3, <4>2 DEF SystemFits, SystemState
          <6>2. Cofactor(ms, i, Len(ms), Quot(Product(ms)[Len(ms)], ms[i]))
            BY ONLY <6>1, QuotCofactor, Zenon
          <6>3. Cofactor(ms, i, Len(ms), a0)
            BY <2>2, <2>3, <6>1, <6>2 DEF M
          <6>4. PICK u \in Int, v \in Int : u * a0 + v * b0 = 1
            BY <2>3, <6>3 DEF Cofactor
          <6>5. Abs(b) = 1
            BY ONLY <1>1, <6>4, u \in Int, v \in Int, LeftOfCoprime, Zenon
          <6> QED BY <2>6, <6>5
        <5> QED BY ONLY <2>4, <3>1, <5>1, Zenon DEF SystemRight, Pairwise
      <4> QED BY <4>1, <4>2
    <3> QED BY <1>2, <2>2, <3>1, <3>2, <3>3 DEF System, SystemAnswered, Fresh, NoCall
  <2> QED BY <2>5, <2>6
<1> QED BY <1>3, <1>4

LEMMA CombineSystem ==
  ASSUME IInv, System, Combine
  PROVE  System' /\ SystemAnswered' /\ Fresh'
<1>1. pc = "inverses" /\ asked.fn = "chinese_remainder" /\ sm \in Int /\ y \in Seq(Int)
  BY DEF Combine, IInv, Callers, Numbers
<1>2. PICK xs, ms : xs = asked.args[1] /\ ms = asked.args[2] /\ SystemState(xs, ms)
  BY <1>1, Solving
<1>3. UNCHANGED <<asked, sm, nm, y>> /\ pc' = "idle" /\ answer' = ToInt(solution)
  BY DEF Combine, equations
<1>4. /\ xs \in Seq(Int \ {0}) /\ ms \in Seq(Int \ {0}) /\ Len(xs) = Len(ms) /\ Len(ms) >= 1
      /\ Len(y) = Len(ms) /\ Len(ms) \in Nat /\ sm # 0
  BY <1>1, <1>2 DEF SystemState, Combine
<1>5. PICK S : S = CHOOSE r : Summed(r, xs, ms, y, sm)
  OBVIOUS
<1>6. sum_of_terms = S[Len(y)]
  BY <1>2, <1>5 DEF sum_of_terms, Summed, M
<1>7. Summed(S, xs, ms, y, sm) /\ S[Len(y)] \in Int
  <2>1. xs \in Seq(Int)
    BY <1>4
  <2> QED BY <1>1, <1>4, <1>5, <2>1, SumExists
<1>8. PICK total \in Int : total = sum_of_terms /\ total = S[Len(ms)]
  BY <1>4, <1>6, <1>7
<1>9. Rem(total, sm) \in Int
  BY <1>1, <1>4, RemInt
<1>10. solution \in Int /\ solution = IF Rem(total, sm) < 0 THEN Rem(total, sm) + sm ELSE Rem(total, sm)
  BY <1>1, <1>8, <1>9 DEF solution
<1>11. answer' \in Int
  BY <1>3, <1>10, ToIntSmall, DMathAssumption
<1>12. SystemRight(xs, ms)'
  <2>1. CASE ~SystemFits(xs, ms)
    BY ONLY <1>4, <2>1, TooLargeRight
  <2>2. CASE SystemFits(xs, ms)
    <3>1. Positive(ms) /\ ms \in Seq(Int) /\ DOMAIN ms = 1 .. Len(ms) /\ \A i \in 1 .. Len(ms) : ms[i] \in Nat \ {0}
      BY <2>2 DEF SystemFits, Positive
    <3>2. sm = Product(ms)[Len(ms)]
      BY <1>1, <1>2, <2>2 DEF SystemState
    <3>3. sm \in Nat \ {0}
      <4>1. Len(ms) \in 0 .. Len(ms)
        BY <1>4
      <4>2. Product(ms)[Len(ms)] \in Nat \ {0}
        BY ONLY <3>1, <4>1, ProductGrows, Zenon
      <4> QED BY <3>2, <4>2
    <3>4. Inverses(y, ms, sm)
      BY <1>1, <1>2, <1>4, <2>2 DEF SystemState, Inverses, M
    <3>5. Pairwise(ms)
      BY ONLY <3>1, <3>2, <3>4, InversesCoprime
    <3>6. \A i \in 1 .. Len(ms) : divides(ms[i], total - xs[i])
      BY ONLY <1>7, <1>8, <2>2, <3>2, <3>4, SumIsRight
    <3>7. PICK x : x = solution
      OBVIOUS
    <3>8. /\ x \in 0 .. sm - 1
          /\ \A d \in Nat \ {0}, v \in Int : divides(d, sm) /\ divides(d, total - v) => divides(d, x - v)
      BY ONLY <1>10, <3>3, <3>7, total \in Int, RemainderRight
    <3>9. ASSUME NEW i \in DOMAIN ms PROVE divides(ms[i], x - xs[i])
      <4>1. i \in 1 .. Len(ms) /\ ms[i] \in Nat \ {0} /\ xs[i] \in Int
        BY <1>4, <3>1
      <4>2. Cofactor(ms, i, Len(ms), Quot(Product(ms)[Len(ms)], ms[i]))
        BY ONLY <3>1, <4>1, QuotCofactor, Zenon
      <4>3. PICK c \in Int : sm = c * ms[i]
        <5>1. ~(Len(ms) < i)
          BY <4>1
        <5> QED BY <3>2, <4>2, <5>1 DEF Cofactor
      <4>4. divides(ms[i], sm)
        <5>1. c * ms[i] = ms[i] * c
          BY <4>1, SMT
        <5>2. \E q \in Int : sm = ms[i] * q
          BY ONLY <4>3, <5>1, c \in Int, Zenon
        <5> QED BY <1>1, <4>1, <5>2, DivisorOfInt
      <4> QED BY <3>6, <3>8, <4>1, <4>4
    <3>10. \A i \in DOMAIN ms : ms[i] > 0 /\ ms[i] # 0 /\ xs[i] # 0
      BY <1>4, <3>1
    <3>11. Terms(xs, Product(ms)[Len(ms)])[Len(xs)] <= LONG_MAX
      BY <2>2 DEF SystemFits
    <3>12. x \in 0 .. Product(ms)[Len(ms)] - 1
      BY <3>2, <3>8
    <3> QED BY ONLY <1>3, <1>4, <3>5, <3>7, <3>9, <3>10, <3>11, <3>12, Zenon DEF SystemRight, Pairwise
  <2> QED BY <2>1, <2>2
<1>13. answer' # NULL
  BY <1>11, DMathAssumption
<1> QED BY <1>2, <1>3, <1>12, <1>13 DEF System, SystemAnswered, Fresh, NoCall

SystemInv == EuclidInv /\ Bounded /\ FactorsReturned /\ Fresh /\ System /\ SystemAnswered

LEMMA SystemKept ==
  ASSUME SystemInv, [Next]_vars
  PROVE  SystemInv'
<1>1. EuclidInv' /\ EuclidInv /\ IInv /\ Euclid /\ Callers /\ Bounded /\ FactorsReturned /\ Fresh /\ System /\ SystemAnswered
  BY EuclidKept DEF SystemInv, EuclidInv, IInv
<1>2. CASE Immediate
  <2>1. PICK fn, args : Ask(fn, args) /\ fn \notin {"extended_gcd", "chinese_remainder"}
    BY <1>2 DEF Immediate
  <2>2. asked'.fn \notin {"extended_gcd", "chinese_remainder"} /\ pc' = "idle" /\ NoCall /\ UNCHANGED <<sm, nm, y>>
    BY <1>2, <2>1 DEF Immediate, Ask, NoCall, equations
  <2> QED BY <1>1, <2>2 DEF SystemInv, Bounded, FactorsReturned, Fresh, System, SystemAnswered
<1>3. CASE NoCall /\ \E m, n \in Int : extended_gcd(m, n)
  <2>1. PICK m \in Int, n \in Int : extended_gcd(m, n)
    BY <1>3
  <2>2. Bounded' /\ FactorsReturned'
    BY <1>1, <1>3, <2>1, ExtendedGcdFactors
  <2>3. asked'.fn = "extended_gcd" /\ UNCHANGED <<sm, nm, y>>
    BY <2>1 DEF extended_gcd, Ask, equations
  <2> QED BY <1>1, <1>3, <2>2, <2>3 DEF SystemInv, Fresh, System, SystemAnswered
<1>4. CASE NoCall /\ \E n \in Nat : \E xs \in [1 .. n -> Remainders], ms \in [1 .. n -> Moduli] : chinese_remainder(xs, ms)
  <2>1. PICK n \in Nat : \E xs \in [1 .. n -> Remainders], ms \in [1 .. n -> Moduli] : chinese_remainder(xs, ms)
    BY <1>4
  <2>2. PICK xs \in [1 .. n -> Remainders], ms \in [1 .. n -> Moduli] : chinese_remainder(xs, ms)
    BY <2>1
  <2>3. System' /\ SystemAnswered'
    BY <1>1, <1>4, <2>2, ChineseRemainderSystem
  <2>4. asked'.fn = "chinese_remainder" /\ UNCHANGED <<sm, nm, y>> /\ pc' # "extended_gcd"
    BY <1>4, <2>2 DEF chinese_remainder, Ask, equations, NoCall
  <2> QED BY <1>1, <1>4, <2>3, <2>4 DEF SystemInv, Bounded, FactorsReturned, Fresh
<1>5. CASE Round
  <2>1. answer' = NULL
    BY <1>1, <1>5 DEF Round, Callers
  <2> QED BY <1>1, <1>5, <2>1, RoundBounded, RoundSystem DEF SystemInv, FactorsReturned, Answered
<1>6. CASE RoundsEnd
  BY <1>1, <1>6, RoundsEndFactors, RoundsEndSystem DEF SystemInv
<1>7. CASE Multiply \/ Combine \/ FindInverse
  <2>1. asked.fn = "chinese_remainder" /\ asked' = asked
    BY <1>1, <1>7 DEF Multiply, Combine, FindInverse, Callers
  <2>2. Bounded'
    <3>1. CASE FindInverse
      BY <1>1, <3>1, FindInverseSystem
    <3>2. CASE Multiply \/ Combine
      BY <3>2 DEF Multiply, Combine, Bounded
    <3> QED BY <1>7, <3>1, <3>2
  <2>3. System' /\ SystemAnswered' /\ Fresh'
    BY <1>1, <1>7, MultiplySystem, CombineSystem, FindInverseSystem
  <2> QED BY <1>1, <2>1, <2>2, <2>3 DEF SystemInv, FactorsReturned
<1>8. CASE Forget
  <2>1. pc' = "idle" /\ ~Answered' /\ sm' = 1 /\ nm' = 0 /\ y' = <<>>
    BY <1>1, <1>8 DEF Forget, Answered, Callers
  <2> QED BY <1>1, <2>1 DEF SystemInv, Bounded, FactorsReturned, Fresh, System, SystemAnswered
<1>9. CASE UNCHANGED vars
  <2>1. UNCHANGED <<asked, answer, pc, a, b, s, t, sprev, tprev, a0, b0, sm, nm, y>>
    BY <1>9 DEF vars, locals, equations
  <2>2. Bounded' /\ FactorsReturned' /\ Fresh'
    BY <1>1, <2>1 DEF Bounded, FactorsReturned, Answered, Fresh, NoCall
  <2>3. System'
    BY <1>1, <2>1 DEF System, SystemState, M
  <2>4. SystemAnswered'
    BY <1>1, <2>1 DEF SystemAnswered, Answered, SystemRight
  <2> QED BY <1>1, <2>2, <2>3, <2>4 DEF SystemInv
<1> QED BY <1>2, <1>3, <1>4, <1>5, <1>6, <1>7, <1>8, <1>9, Steps

LEMMA SystemInvariant == Spec => []SystemInv
<1>1. Init => SystemInv
  <2> SUFFICES ASSUME Init PROVE SystemInv
    OBVIOUS
  <2>1. EuclidInv
    BY EmptySeq DEF Init, IInv, Numbers, Callers, Nonzero, Factors, Returned, Answered,
                    EuclidInv, Euclid, EuclidReturned
  <2> QED BY <2>1 DEF Init, SystemInv, Bounded, FactorsReturned, Fresh, System, SystemAnswered, Answered
<1>2. SystemInv /\ [Next]_vars => SystemInv'
  BY SystemKept
<1> QED BY <1>1, <1>2, PTL DEF Spec

\* extended_gcd, dmath.c:139: the factors it works with never get larger than
\* its arguments, so that none overflows, and those it returns are as small as
\* AnswersRight says.
THEOREM FactorsFit == Spec => []FactorsBounded
<1>1. SystemInv => FactorsBounded
  BY BoundedSmall DEF SystemInv, EuclidInv, FactorsBounded, FactorsReturned
<1> QED BY <1>1, SystemInvariant, PTL

\* chinese_remainder, dmath.c:188: it reports moduli that are not coprime, and
\* its solution, converted to an int, solves every equation, for any number of
\* equations with positive moduli whose terms add up to a long.
THEOREM ChineseRemainderIsRight == Spec => []SystemAnswered
<1>1. SystemInv => SystemAnswered
  BY DEF SystemInv
<1> QED BY <1>1, SystemInvariant, PTL
-----------------------------------------------------------------------------
\* The combination that divides both is their greatest common divisor.
LEMMA GreatestCombined ==
  ASSUME NEW m \in Int, NEW n \in Int, m # 0, n # 0
  PROVE  \E g \in Nat \ {0} : /\ g = Greatest(m, n) /\ divides(g, m) /\ divides(g, n)
                             /\ \E u, v \in Int : u * m + v * n = g
<1>1. PICK h \in Nat \ {0} : \E u, v \in Int : u * m + v * n = h /\ divides(h, m) /\ divides(h, n)
  BY Combined
<1>2. PICK u \in Int, v \in Int : u * m + v * n = h /\ divides(h, m) /\ divides(h, n)
  BY <1>1
<1>3. h <= Abs(n) /\ Abs(n) \in Nat
  BY <1>2, DivisorSmall DEF Abs
<1>4. h \in Common(m, n)
  BY <1>2, <1>3 DEF Common
<1>5. ASSUME NEW d \in Common(m, n) PROVE d <= h
  <2>1. d \in Nat \ {0} /\ divides(d, m) /\ divides(d, n)
    BY <1>3 DEF Common
  <2>2. divides(d, m * u) /\ m * u \in Int
    BY ONLY <2>1, m \in Int, u \in Int, DividesProduct, Zenon
  <2>3. divides(d, n * v) /\ n * v \in Int
    BY ONLY <2>1, n \in Int, v \in Int, DividesProduct, Zenon
  <2>4. divides(d, m * u + n * v)
    BY ONLY <2>1, <2>2, <2>3, DividesSum, Zenon
  <2>5. m * u + n * v = h
    <3>1. m * u = u * m /\ n * v = v * n
      BY SMT
    <3> QED BY ONLY <1>2, <3>1, Zenon
  <2>6. divides(d, h)
    BY ONLY <2>4, <2>5, Zenon
  <2>7. h \in Int /\ h # 0 /\ Abs(h) = h
    BY DEF Abs
  <2> QED BY <2>1, <2>6, <2>7, DivisorSmall
<1>6. h = Greatest(m, n)
  BY <1>4, <1>5, GreatestIs
<1> QED BY ONLY <1>2, <1>6, h \in Nat \ {0}, u \in Int, v \in Int, Zenon

\* lcm, dmath.c:88: the product by the greatest common divisor is the least
\* number that both divide, without their sign.
THEOREM LcmIsLeast ==
  \A m, n \in Int :
    /\ m = 0 \/ n = 0 => lcm(m, n) = -EDOM
    /\ m # 0 /\ n # 0 /\ (FitsInt(m) \/ FitsInt(n)) => lcm(m, n) = Least(m, n)
<1> SUFFICES ASSUME NEW m \in Int, NEW n \in Int, m # 0, n # 0, FitsInt(m) \/ FitsInt(n)
             PROVE  lcm(m, n) = Least(m, n)
  BY DEF lcm
<1>1. PICK p \in Nat \ {0}, q \in Nat \ {0} : p = Abs(m) /\ q = Abs(n)
  BY DEF Abs
<1>2. PICK g \in Nat \ {0} : /\ g = Greatest(m, n) /\ divides(g, m) /\ divides(g, n)
                             /\ \E u, v \in Int : u * m + v * n = g
  BY ONLY m \in Int, n \in Int, m # 0, n # 0, GreatestCombined, Zenon
<1>3. PICK i \in Nat \ {0} : p = g * i
  <2>1. PICK k \in Int : m = g * k
    BY <1>2, DivisorOfInt
  <2>2. Abs(m) = Abs(g) * Abs(k) /\ Abs(k) \in Nat /\ Abs(g) = g
    <3>1. Abs(m) = Abs(g) * Abs(k)
      BY ONLY <2>1, g \in Int, k \in Int, AbsProduct, Zenon
    <3> QED BY <3>1 DEF Abs
  <2>3. PICK l \in Nat : l = Abs(k)
    BY <2>2
  <2>4. p = g * l
    BY <1>1, <2>2, <2>3
  <2>5. l # 0
    <3>1. g * 0 = 0
      BY SMT
    <3> QED BY <2>4, <3>1
  <2> QED BY <2>4, <2>5
<1>4. PICK j \in Nat \ {0} : q = g * j
  <2>1. PICK k \in Int : n = g * k
    BY <1>2, DivisorOfInt
  <2>2. Abs(n) = Abs(g) * Abs(k) /\ Abs(k) \in Nat /\ Abs(g) = g
    <3>1. Abs(n) = Abs(g) * Abs(k)
      BY ONLY <2>1, g \in Int, k \in Int, AbsProduct, Zenon
    <3> QED BY <3>1 DEF Abs
  <2>3. PICK l \in Nat : l = Abs(k)
    BY <2>2
  <2>4. q = g * l
    BY <1>1, <2>2, <2>3
  <2>5. l # 0
    <3>1. g * 0 = 0
      BY SMT
    <3> QED BY <2>4, <3>1
  <2> QED BY <2>4, <2>5
<1>5. PICK L \in Nat \ {0} : L = p * j /\ L = q * i /\ p * q = L * g
  <2>1. p * j = (g * i) * j /\ q * i = (g * j) * i /\ p * q = (g * i) * (g * j)
    BY ONLY <1>3, <1>4, Zenon
  <2>2. (g * i) * j = (g * j) * i /\ (g * i) * (g * j) = ((g * i) * j) * g
    BY SMT
  <2>3. p * j \in Nat /\ p * j >= p
    BY SMT
  <2> QED BY <2>1, <2>2, <2>3
<1>6. m * n \in Int /\ Abs(m * n) = L * g
  <2>1. m * n \in Int /\ Abs(m * n) = p * q
    BY <1>1, AbsProduct
  <2> QED BY <1>5, <2>1
<1>7. lcm(m, n) = L
  <2>1. gcd(m, n) = g
    BY <1>2, GcdIsGreatest
  <2>2. PICK z \in Int : z = m * n
    BY <1>6
  <2>3. PICK k \in Int : k = Quot(z, g)
    BY QuotInt
  <2>4. L = Quot(L * g, g)
    BY QuotExact
  <2>5. Abs(L * g) = L * g
    <3>1. L * g \in Nat
      BY SMT
    <3> QED BY <3>1 DEF Abs
  <2>6. Abs(k) = L
    <3>1. L * g \in Nat /\ Abs(g) = g
      <4>1. L * g \in Nat
        BY SMT
      <4> QED BY <4>1 DEF Abs
    <3>2. L = (L * g) \div g
      BY ONLY <2>4, <2>5, <3>1, g \in Nat \ {0}, SMT DEF Quot
    <3>3. k = L \/ k = -L
      BY <1>6, <2>2, <2>3, <3>1, <3>2 DEF Quot
    <3> QED BY <3>3 DEF Abs
  <2>7. lcm(m, n) = Abs(Quot(m * n, gcd(m, n)))
    BY DEF lcm
  <2> QED BY ONLY <2>1, <2>2, <2>3, <2>6, <2>7, Zenon
<1>8. divides(p, L) /\ divides(q, L) /\ L \in 1 .. Abs(m * n)
  <2>1. divides(p, L) /\ divides(q, L)
    BY <1>5, DivisorOfInt
  <2>2. L <= L * g /\ L * g \in Nat
    BY SMT
  <2> QED BY <1>6, <2>1, <2>2
<1>9. ASSUME NEW l \in Nat \ {0}, divides(p, l), divides(q, l) PROVE L <= l
  <2>1. PICK x \in Int, z \in Int : l = m * x /\ l = n * z
    <3>1. PICK c \in Int : l = p * c
      BY <1>9, DivisorOfInt
    <3>2. PICK d \in Int : l = q * d
      BY <1>9, DivisorOfInt
    <3>3. \A k, w \in Int : (-k) * w = k * (-w)
      BY SMT
    <3>4. \E x \in Int : l = m * x
      <4>1. p = m \/ p = -m
        BY <1>1 DEF Abs
      <4>2. l = m * c \/ l = m * (-c)
        BY ONLY <3>1, <3>3, <4>1, m \in Int, c \in Int, Zenon
      <4>3. c \in Int /\ -c \in Int
        OBVIOUS
      <4> QED BY ONLY <4>2, <4>3, Zenon
    <3>5. \E z \in Int : l = n * z
      <4>1. q = n \/ q = -n
        BY <1>1 DEF Abs
      <4>2. l = n * d \/ l = n * (-d)
        BY ONLY <3>2, <3>3, <4>1, n \in Int, d \in Int, Zenon
      <4>3. d \in Int /\ -d \in Int
        OBVIOUS
      <4> QED BY ONLY <4>2, <4>3, Zenon
    <3> QED BY <3>4, <3>5
  <2>2. PICK u \in Int, v \in Int : u * m + v * n = g
    BY <1>2
  <2>3. PICK w \in Int : l * g = (m * n) * w
    <3>1. l * (u * m + v * n) = l * (u * m) + l * (v * n)
      <4>1. u * m \in Int /\ v * n \in Int
        BY SMT
      <4>2. \A c, d \in Int : l * (c + d) = l * c + l * d
        BY SMT
      <4> QED BY <4>1, <4>2
    <3>2. l * (u * m) = (m * n) * (z * u)
      <4>1. (n * z) * (u * m) = (m * n) * (z * u)
        BY SMT
      <4> QED BY ONLY <2>1, <4>1, Zenon
    <3>3. l * (v * n) = (m * n) * (x * v)
      <4>1. (m * x) * (v * n) = (m * n) * (x * v)
        BY SMT
      <4> QED BY ONLY <2>1, <4>1, Zenon
    <3>4. z * u \in Int /\ x * v \in Int
      BY SMT
    <3>5. (m * n) * (z * u + x * v) = (m * n) * (z * u) + (m * n) * (x * v)
      <4>1. \A k, c, d \in Int : k * (c + d) = k * c + k * d
        BY SMT
      <4> QED BY ONLY <1>6, <3>4, <4>1, Zenon
    <3>6. l * g = (m * n) * (z * u + x * v)
      BY ONLY <2>2, <3>1, <3>2, <3>3, <3>5, Zenon
    <3>7. z * u + x * v \in Int
      BY <3>4
    <3> QED BY ONLY <3>6, <3>7, Zenon
  <2>4. PICK k \in Nat : l * g = (L * g) * k
    <3>1. l * g \in Nat /\ Abs(l * g) = l * g
      <4>1. l * g \in Nat
        BY SMT
      <4> QED BY <4>1 DEF Abs
    <3>2. Abs((m * n) * w) = Abs(m * n) * Abs(w)
      BY ONLY <1>6, w \in Int, AbsProduct, Zenon
    <3>3. Abs(w) \in Nat
      BY DEF Abs
    <3>4. l * g = (L * g) * Abs(w)
      BY ONLY <1>6, <2>3, <3>1, <3>2, Zenon
    <3> QED BY ONLY <3>3, <3>4, Zenon
  <2>5. l = L * k
    <3>1. (L * g) * k = (L * k) * g /\ L * k \in Nat
      BY SMT
    <3>2. \A c, d \in Nat : c * g = d * g => c = d
      BY SMT
    <3>3. l * g = (L * k) * g
      BY ONLY <2>4, <3>1, Zenon
    <3> QED BY ONLY <3>1, <3>2, <3>3, l \in Nat, Zenon
  <2>6. k >= 1
    <3>1. L * 0 = 0
      BY SMT
    <3> QED BY <2>5, <3>1
  <2>7. L * k >= L
    BY <2>6, SMT
  <2> QED BY <2>5, <2>7
<1>10. PICK c : c = Least(m, n)
  OBVIOUS
<1>11. c = CHOOSE k \in 1 .. Abs(m * n) :
         divides(p, k) /\ divides(q, k) /\ \A l \in 1 .. k - 1 : ~(divides(p, l) /\ divides(q, l))
  BY <1>1, <1>10 DEF Least
<1>12. \A l \in 1 .. L - 1 : ~(divides(p, l) /\ divides(q, l))
  <2> SUFFICES ASSUME NEW l \in 1 .. L - 1, divides(p, l), divides(q, l) PROVE FALSE
    OBVIOUS
  <2>1. l \in Nat \ {0} /\ l < L
    OBVIOUS
  <2>2. L <= l
    BY ONLY <1>9, <2>1, divides(p, l), divides(q, l), Zenon
  <2> QED BY <2>1, <2>2
<1>13. /\ c \in 1 .. Abs(m * n) /\ divides(p, c) /\ divides(q, c)
       /\ \A l \in 1 .. c - 1 : ~(divides(p, l) /\ divides(q, l))
  BY ONLY <1>8, <1>11, <1>12, Zenon
<1>14. L <= c /\ c \in Nat
  <2>1. c \in Nat \ {0}
    <3>1. Abs(m * n) \in Nat
      BY <1>6 DEF Abs
    <3> QED BY <1>13, <3>1
  <2> QED BY <1>9, <1>13, <2>1
<1>15. c = L
  <2> SUFFICES ASSUME c # L PROVE FALSE
    OBVIOUS
  <2>1. L \in 1 .. c - 1
    BY <1>14
  <2> QED BY <1>8, <1>13, <2>1
<1> QED BY <1>7, <1>10, <1>15

\* Being coprime has no order.
LEMMA CoprimeTurned ==
  ASSUME NEW m \in Int, NEW n \in Int, Coprime(m, n)
  PROVE  Coprime(n, m)
<1>1. m # 0 /\ n # 0 /\ Common(m, n) = {1} /\ Abs(m) \in Nat \ {0} /\ Abs(n) \in Nat \ {0}
  BY DEF Coprime, Abs
<1>2. ASSUME NEW d \in Common(n, m) PROVE d = 1
  <2>1. d \in Nat \ {0} /\ divides(d, m) /\ divides(d, n)
    BY <1>1 DEF Common
  <2>2. d <= Abs(n)
    BY <1>1, <2>1, DivisorSmall
  <2>3. d \in Common(m, n)
    BY <1>1, <2>1, <2>2 DEF Common
  <2> QED BY <1>1, <2>3
<1>3. 1 \in Common(n, m)
  BY <1>1, OneDivides DEF Common
<1> QED BY <1>1, <1>2, <1>3 DEF Coprime

\* arecoprime_pairwise, dmath.c:126: no two of the numbers are equal or have a
\* common divisor, although each pair is looked at in one order only.
THEOREM PairwiseIsRight ==
  \A ms \in Seq(Int) :
    (\A i \in DOMAIN ms : FitsInt(ms[i])) =>
      arecoprime_pairwise(ms) =
        Bool(\A i, j \in DOMAIN ms : i # j => ms[i] # ms[j] /\ Coprime(ms[i], ms[j]))
<1> SUFFICES ASSUME NEW ms \in Seq(Int), \A i \in DOMAIN ms : FitsInt(ms[i])
             PROVE  arecoprime_pairwise(ms) =
                      Bool(\A i, j \in DOMAIN ms : i # j => ms[i] # ms[j] /\ Coprime(ms[i], ms[j]))
  OBVIOUS
<1>1. /\ Len(ms) \in Nat /\ DOMAIN ms = 1 .. Len(ms) /\ \A i \in DOMAIN ms : ms[i] \in Int
  OBVIOUS
<1>2. ASSUME NEW i \in DOMAIN ms, NEW j \in DOMAIN ms
      PROVE  arecoprime(ms[i], ms[j]) = 0 <=> ~Coprime(ms[i], ms[j])
  <2>1. arecoprime(ms[i], ms[j]) = Bool(Coprime(ms[i], ms[j]))
    BY <1>1, ArecoprimeIsRight
  <2> QED BY <2>1 DEF Bool
<1>3. ASSUME NEW i \in DOMAIN ms, NEW j \in DOMAIN ms, i # j, ~(ms[i] # ms[j] /\ Coprime(ms[i], ms[j]))
      PROVE  \E k, l \in DOMAIN ms : k < l /\ (ms[k] = ms[l] \/ arecoprime(ms[k], ms[l]) = 0)
  <2>1. CASE i < j
    BY <1>2, <1>3, <2>1
  <2>2. CASE j < i
    <3>1. ms[j] = ms[i] \/ ~Coprime(ms[j], ms[i])
      BY <1>1, <1>3, CoprimeTurned
    <3> QED BY <1>2, <2>2, <3>1
  <2> QED BY <1>1, <1>3, <2>1, <2>2
<1>4. ASSUME NEW k \in DOMAIN ms, NEW l \in DOMAIN ms, k < l, ms[k] = ms[l] \/ arecoprime(ms[k], ms[l]) = 0
      PROVE  k # l /\ ~(ms[k] # ms[l] /\ Coprime(ms[k], ms[l]))
  BY <1>1, <1>2, <1>4
<1>5. (\E k, l \in DOMAIN ms : k < l /\ (ms[k] = ms[l] \/ arecoprime(ms[k], ms[l]) = 0))
        <=> ~\A i, j \in DOMAIN ms : i # j => ms[i] # ms[j] /\ Coprime(ms[i], ms[j])
  BY ONLY <1>3, <1>4, Zenon
<1> QED BY ONLY <1>5, Zenon DEF arecoprime_pairwise, Bool
-----------------------------------------------------------------------------
\* The Fibonacci numbers exist, all of them.
LEMMA FibonacciNumbers ==
  \A n \in Nat : F[n] = (IF n <= 1 THEN n ELSE F[n - 1] + F[n - 2]) /\ F[n] \in Nat
<1> DEFINE def == [z \in Nat \X [Nat -> Nat] |->
                     IF z[1] <= 1 THEN z[1] ELSE z[2][z[1] - 1] + z[2][z[1] - 2]]
           Is(f) == f = [n \in Nat |-> IF n <= 1 THEN n ELSE f[n - 1] + f[n - 2]]
<1>1. ASSUME NEW n \in Nat, NEW g \in [Nat -> Nat]
      PROVE  def[<<n, g>>] = (IF n <= 1 THEN n ELSE g[n - 1] + g[n - 2]) /\ def[<<n, g>>] \in Nat
  <2>1. def[<<n, g>>] = IF n <= 1 THEN n ELSE g[n - 1] + g[n - 2]
    OBVIOUS
  <2>2. n > 1 => g[n - 1] \in Nat /\ g[n - 2] \in Nat
    OBVIOUS
  <2> HIDE DEF def
  <2> QED BY <2>1, <2>2
<1>2. def \in [Nat \X [Nat -> Nat] -> Nat]
  <2>1. \A z \in Nat \X [Nat -> Nat] : z = <<z[1], z[2]>> /\ z[1] \in Nat /\ z[2] \in [Nat -> Nat]
    OBVIOUS
  <2>2. \A z \in Nat \X [Nat -> Nat] : def[z] \in Nat
    <3> HIDE DEF def
    <3> QED BY <1>1, <2>1
  <2>3. def = [z \in Nat \X [Nat -> Nat] |-> def[z]]
    OBVIOUS
  <2> HIDE DEF def
  <2> QED BY <2>2, <2>3
<1> HIDE DEF def
<1>3. Descends(Nat, def)
  <2>1. ASSUME NEW n \in Nat, NEW g \in [Nat -> Nat], NEW h \in [Nat -> Nat], \A k \in 0 .. n - 1 : g[k] = h[k]
        PROVE  def[<<n, g>>] = def[<<n, h>>]
    <3>1. n > 1 => g[n - 1] = h[n - 1] /\ g[n - 2] = h[n - 2]
      BY <2>1
    <3> QED BY <1>1, <3>1
  <2> QED BY <1>2, <2>1 DEF Descends
<1>4. PICK f : Descent(Nat, def, f)
  BY <1>3, RecursionExists
<1>5. Is(f)
  <2>1. f \in [Nat -> Nat] /\ \A n \in Nat : f[n] = IF n <= 1 THEN n ELSE f[n - 1] + f[n - 2]
    BY <1>1, <1>4 DEF Descent
  <2>2. f = [n \in Nat |-> f[n]]
    BY <2>1
  <2> QED BY <2>1, <2>2
<1>6. Is(F)
  <2>1. F = CHOOSE h : Is(h)
    BY DEF F
  <2> HIDE DEF Is
  <2> QED BY ONLY <1>5, <2>1, Zenon
<1>7. \A n \in Nat : F[n] = IF n <= 1 THEN n ELSE F[n - 1] + F[n - 2]
  BY <1>6
<1> DEFINE Q == {n \in Nat : F[n] \in Nat}
<1>8. ASSUME NEW n \in Nat, \A k \in 0 .. n - 1 : k \in Q PROVE n \in Q
  <2>1. n > 1 => n - 1 \in Q /\ n - 2 \in Q
    BY <1>8
  <2> QED BY <1>7, <2>1
<1>9. Nat \subseteq Q
  <2> HIDE DEF Q
  <2> QED BY <1>8, SetInduction
<1> QED BY <1>7, <1>9

\* The two numbers fibonacci keeps, after each of its rounds.
LastTwo(f) == f = [i \in 1 .. MaxFibonacci |->
                     IF i = 1 THEN <<1, 0>> ELSE <<ToULong(f[i - 1][1] + f[i - 1][2]), f[i - 1][1]>>]

LEMMA LastTwoExist == \E f : LastTwo(f)
<1> DEFINE Pairs == Nat \X Nat
           def == [z \in Nat \X [Nat -> Pairs] |->
                     IF z[1] <= 1 THEN <<1, 0>>
                     ELSE <<ToULong(z[2][z[1] - 1][1] + z[2][z[1] - 1][2]), z[2][z[1] - 1][1]>>]
<1>0. \A m \in Nat : ToULong(m) \in Nat
  <2>1. PICK w \in Nat \ {0} : w = ULONG_MAX + 1
    BY DMathAssumption DEF ULONG_MAX
  <2>2. \A m \in Nat : m % w \in Nat
    BY SMT
  <2> QED BY <2>1, <2>2 DEF ToULong
<1>1. ASSUME NEW n \in Nat, NEW g \in [Nat -> Pairs]
      PROVE  /\ def[<<n, g>>] = IF n <= 1 THEN <<1, 0>>
                                ELSE <<ToULong(g[n - 1][1] + g[n - 1][2]), g[n - 1][1]>>
             /\ def[<<n, g>>] \in Pairs
  <2>1. def[<<n, g>>] = IF n <= 1 THEN <<1, 0>> ELSE <<ToULong(g[n - 1][1] + g[n - 1][2]), g[n - 1][1]>>
    OBVIOUS
  <2>2. n > 1 => g[n - 1][1] \in Nat /\ g[n - 1][2] \in Nat
    <3>1. n > 1 => g[n - 1] \in Pairs
      OBVIOUS
    <3> QED BY <3>1
  <2>3. n > 1 => ToULong(g[n - 1][1] + g[n - 1][2]) \in Nat
    <3>1. n > 1 => g[n - 1][1] + g[n - 1][2] \in Nat
      BY <2>2
    <3> QED BY ONLY <1>0, <3>1, Zenon
  <2> HIDE DEF def
  <2> QED BY <2>1, <2>2, <2>3
<1>2. def \in [Nat \X [Nat -> Pairs] -> Pairs]
  <2>1. \A z \in Nat \X [Nat -> Pairs] : z = <<z[1], z[2]>> /\ z[1] \in Nat /\ z[2] \in [Nat -> Pairs]
    OBVIOUS
  <2>2. \A z \in Nat \X [Nat -> Pairs] : def[z] \in Pairs
    <3> HIDE DEF def, Pairs
    <3> QED BY <1>1, <2>1
  <2>3. def = [z \in Nat \X [Nat -> Pairs] |-> def[z]]
    OBVIOUS
  <2> HIDE DEF def, Pairs
  <2> QED BY <2>2, <2>3
<1> HIDE DEF def
<1>3. Descends(Pairs, def)
  <2>1. ASSUME NEW n \in Nat, NEW g \in [Nat -> Pairs], NEW h \in [Nat -> Pairs], \A k \in 0 .. n - 1 : g[k] = h[k]
        PROVE  def[<<n, g>>] = def[<<n, h>>]
    <3>1. n > 1 => g[n - 1] = h[n - 1]
      BY <2>1
    <3>2. \/ n <= 1
          \/ n > 1 /\ ~(n <= 1)
      OBVIOUS
    <3>3. /\ def[<<n, g>>] = IF n <= 1 THEN <<1, 0>> ELSE <<ToULong(g[n - 1][1] + g[n - 1][2]), g[n - 1][1]>>
          /\ def[<<n, h>>] = IF n <= 1 THEN <<1, 0>> ELSE <<ToULong(h[n - 1][1] + h[n - 1][2]), h[n - 1][1]>>
      BY ONLY <1>1, n \in Nat, g \in [Nat -> Pairs], h \in [Nat -> Pairs], Zenon
    <3> QED BY ONLY <3>1, <3>2, <3>3, Zenon
  <2> HIDE DEF Pairs
  <2> QED BY <1>2, <2>1 DEF Descends
<1>4. PICK f : Descent(Pairs, def, f)
  <2>1. Pairs # {}
    <3>1. <<0, 0>> \in Pairs
      OBVIOUS
    <3> QED BY <3>1
  <2> HIDE DEF Pairs
  <2> QED BY <1>3, <2>1, RecursionExists
<1>5. \A n \in Nat : f[n] = IF n <= 1 THEN <<1, 0>> ELSE <<ToULong(f[n - 1][1] + f[n - 1][2]), f[n - 1][1]>>
  BY <1>1, <1>4 DEF Descent
<1> DEFINE r == [i \in 1 .. MaxFibonacci |-> f[i]]
<1>6. ASSUME NEW i \in 1 .. MaxFibonacci
      PROVE  r[i] = IF i = 1 THEN <<1, 0>> ELSE <<ToULong(r[i - 1][1] + r[i - 1][2]), r[i - 1][1]>>
  <2>1. i \in Nat /\ (i <= 1 <=> i = 1) /\ (i # 1 => i - 1 \in 1 .. MaxFibonacci)
    BY DMathAssumption
  <2>2. r[i] = f[i] /\ (i # 1 => r[i - 1] = f[i - 1])
    BY <2>1
  <2> HIDE DEF r
  <2> QED BY <1>5, <2>1, <2>2
<1>7. r = [i \in 1 .. MaxFibonacci |-> r[i]]
  OBVIOUS
<1> HIDE DEF r
<1>8. [i \in 1 .. MaxFibonacci |-> r[i]] =
        [i \in 1 .. MaxFibonacci |->
           IF i = 1 THEN <<1, 0>> ELSE <<ToULong(r[i - 1][1] + r[i - 1][2]), r[i - 1][1]>>]
  BY <1>6
<1> QED BY <1>7, <1>8 DEF LastTwo

\* The remainder of a sum is that of the sum of remainders.
LEMMA SumWraps ==
  ASSUME NEW m \in Nat, NEW n \in Nat
  PROVE  ToULong(ToULong(m) + ToULong(n)) = ToULong(m + n)
<1>1. PICK w \in Nat \ {0} : w = ULONG_MAX + 1
  BY DMathAssumption DEF ULONG_MAX
<1>2. PICK i \in Int, c \in Int : i = m \div w /\ m = w * i + c /\ c = m % w /\ c \in 0 .. w - 1
  <2>1. m = w * (m \div w) + (m % w) /\ m \div w \in Int /\ m % w \in 0 .. w - 1
    BY Division
  <2> QED BY <2>1
<1>3. PICK j \in Int, d \in Int : j = n \div w /\ n = w * j + d /\ d = n % w /\ d \in 0 .. w - 1
  <2>1. n = w * (n \div w) + (n % w) /\ n \div w \in Int /\ n % w \in 0 .. w - 1
    BY Division
  <2> QED BY <2>1
<1>4. PICK k \in Int, e \in Int : k = (c + d) \div w /\ c + d = w * k + e /\ e = (c + d) % w /\ e \in 0 .. w - 1
  <2>1. c + d \in Int
    OBVIOUS
  <2>2. c + d = w * ((c + d) \div w) + ((c + d) % w) /\ (c + d) \div w \in Int /\ (c + d) % w \in 0 .. w - 1
    BY <2>1, Division
  <2> QED BY <2>2
<1>5. PICK l \in Int, f \in Int : l = (m + n) \div w /\ m + n = w * l + f /\ f = (m + n) % w /\ f \in 0 .. w - 1
  <2>1. m + n \in Int
    OBVIOUS
  <2>2. m + n = w * ((m + n) \div w) + ((m + n) % w) /\ (m + n) \div w \in Int /\ (m + n) % w \in 0 .. w - 1
    BY <2>1, Division
  <2> QED BY <2>2
<1>6. PICK z \in Int : z = i + j + k - l /\ w * z = f - e
  <2>1. w * (i + j + k - l) = w * i + w * j + w * k - w * l
    BY SMT
  <2>2. w * i \in Int /\ w * j \in Int /\ w * k \in Int /\ w * l \in Int
    BY SMT
  <2>3. PICK wi \in Int, wj \in Int, wk \in Int, wl \in Int :
          wi = w * i /\ wj = w * j /\ wk = w * k /\ wl = w * l
    BY ONLY <2>2, Zenon
  <2>4. m = wi + c /\ n = wj + d /\ c + d = wk + e /\ m + n = wl + f
    BY ONLY <1>2, <1>3, <1>4, <1>5, <2>3, Zenon
  <2>5. wi + wj + wk - wl = f - e
    BY <2>4
  <2>6. w * (i + j + k - l) = f - e
    BY ONLY <2>1, <2>3, <2>5, Zenon
  <2>7. i + j + k - l \in Int
    OBVIOUS
  <2> QED BY ONLY <2>6, <2>7, Zenon
<1>7. z = 0
  <2>1. z >= 1 => w * z >= w
    BY SMT
  <2>2. z <= -1 => w * z <= -w
    BY SMT
  <2>3. f - e < w /\ f - e > -w
    BY <1>4, <1>5
  <2> QED BY <1>6, <2>1, <2>2, <2>3
<1>8. w * 0 = 0
  BY SMT
<1>9. e = f
  BY <1>4, <1>5, <1>6, <1>7, <1>8
<1> QED BY <1>1, <1>2, <1>3, <1>4, <1>5, <1>9 DEF ToULong

\* fibonacci, dmath.c:12: the Fibonacci number, as far as it fits an unsigned
\* long, and an error outside of the range it answers for.
THEOREM FibonacciIsRight ==
  \A n \in Int : fibonacci(n) = IF n < 0 THEN ToULong(-EDOM)
                                ELSE IF n > MaxFibonacci THEN ToULong(-ERANGE) ELSE ToULong(F[n])
<1> DEFINE after(x) == <<ToULong(x[1] + x[2]), x[1]>>
<1>1. PICK f : f = CHOOSE g : g = [i \in 1 .. MaxFibonacci |-> IF i = 1 THEN <<1, 0>> ELSE after(g[i - 1])]
  OBVIOUS
<1>2. LastTwo(f)
  <2>1. f = CHOOSE g : LastTwo(g)
    BY <1>1 DEF LastTwo
  <2> QED BY ONLY <2>1, LastTwoExist, Zenon
<1>3. PICK max \in Nat : max = MaxFibonacci
  BY DMathAssumption
<1>4. ToULong(0) = 0 /\ ToULong(1) = 1
  <2>1. PICK w \in Nat \ {0, 1} : w = ULONG_MAX + 1
    <3>1. PICK z \in Int : z = (INT_MAX + 1) * (INT_MAX + 1) /\ z <= LONG_MAX
      BY DMathAssumption
    <3>2. INT_MAX + 1 >= 1 /\ INT_MAX + 1 \in Nat
      BY DMathAssumption
    <3>3. z >= 1
      BY <3>1, <3>2, Products
    <3> QED BY <3>1, <3>3, DMathAssumption DEF ULONG_MAX
  <2>2. 0 % w = 0 /\ 1 % w = 1
    BY SMT
  <2> QED BY <2>1, <2>2 DEF ToULong
<1>5. ASSUME NEW i \in 1 .. max
      PROVE  f[i] = IF i = 1 THEN <<1, 0>> ELSE <<ToULong(f[i - 1][1] + f[i - 1][2]), f[i - 1][1]>>
  BY <1>2, <1>3 DEF LastTwo
<1> DEFINE Q == {i \in Nat : i \in 1 .. max => f[i] = <<ToULong(F[i]), ToULong(F[i - 1])>>}
<1>6. ASSUME NEW i \in Nat, \A k \in 0 .. i - 1 : k \in Q PROVE i \in Q
  <2> SUFFICES ASSUME i \in 1 .. max PROVE f[i] = <<ToULong(F[i]), ToULong(F[i - 1])>>
    OBVIOUS
  <2>0. f[i] = IF i = 1 THEN <<1, 0>> ELSE <<ToULong(f[i - 1][1] + f[i - 1][2]), f[i - 1][1]>>
    BY ONLY <1>5, i \in 1 .. max, Zenon
  <2>1. CASE i = 1
    <3>1. F[1] = 1 /\ F[0] = 0 /\ i - 1 = 0
      BY <2>1, FibonacciNumbers
    <3> QED BY ONLY <1>4, <2>0, <2>1, <3>1, Zenon
  <2>2. CASE i \in 2 .. max
    <3>1. i - 1 \in Q /\ i - 1 \in 1 .. max
      BY <1>6, <2>2
    <3>2. f[i - 1] = <<ToULong(F[i - 1]), ToULong(F[i - 2])>>
      <4>1. (i - 1) - 1 = i - 2
        OBVIOUS
      <4> QED BY <3>1, <4>1
    <3>3. F[i] = F[i - 1] + F[i - 2] /\ F[i - 1] \in Nat /\ F[i - 2] \in Nat
      BY <2>2, FibonacciNumbers
    <3>4. f[i] = <<ToULong(f[i - 1][1] + f[i - 1][2]), f[i - 1][1]>>
      <4>1. i # 1
        BY <2>2
      <4> QED BY ONLY <2>0, <4>1, Zenon
    <3>5. f[i] = <<ToULong(ToULong(F[i - 1]) + ToULong(F[i - 2])), ToULong(F[i - 1])>>
      BY <3>2, <3>4
    <3>6. ToULong(ToULong(F[i - 1]) + ToULong(F[i - 2])) = ToULong(F[i])
      <4>1. ToULong(ToULong(F[i - 1]) + ToULong(F[i - 2])) = ToULong(F[i - 1] + F[i - 2])
        BY ONLY <3>3, SumWraps, Zenon
      <4> QED BY ONLY <3>3, <4>1, Zenon
    <3> QED BY <3>5, <3>6
  <2> QED BY <2>1, <2>2
<1>7. Nat \subseteq Q
  <2> HIDE DEF Q
  <2> QED BY <1>6, SetInduction
<1>8. ASSUME NEW n \in Nat, n <= max PROVE fibonacci(n) = ToULong(F[n])
  <2>1. CASE n = 0
    <3>1. F[0] = 0
      BY FibonacciNumbers
    <3> QED BY <1>3, <1>4, <1>8, <2>1, <3>1 DEF fibonacci
  <2>2. CASE n # 0
    <3>1. f[n] = <<ToULong(F[n]), ToULong(F[n - 1])>>
      BY <1>7, <1>8, <2>2
    <3>2. n \in 1 .. MaxFibonacci /\ ~(n < 0) /\ ~(n > MaxFibonacci) /\ n # 0
      BY <1>3, <1>8, <2>2
    <3>3. fibonacci(n) = f[n][1]
      BY ONLY <1>1, <3>2, Zenon DEF fibonacci
    <3> QED BY <3>1, <3>3
  <2> QED BY <2>1, <2>2
<1>9. ASSUME NEW n \in Int, n < 0 PROVE fibonacci(n) = ToULong(-EDOM)
  <2>1. n \notin 1 .. MaxFibonacci /\ ~(n > MaxFibonacci) /\ n # 0
    BY <1>3, <1>9
  <2> QED BY <1>9, <2>1 DEF fibonacci
<1>10. ASSUME NEW n \in Int, n > max PROVE fibonacci(n) = ToULong(-ERANGE)
  <2>1. n \notin 1 .. MaxFibonacci /\ ~(n < 0) /\ n # 0 /\ n > MaxFibonacci
    BY <1>3, <1>10
  <2> QED BY <2>1 DEF fibonacci
<1> QED BY <1>3, <1>8, <1>9, <1>10
=============================================================================
