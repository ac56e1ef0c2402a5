-------------------------------- MODULE DMath --------------------------------
(***************************************************************************)
(* The integer functions of dmath.c without a state of their own. A client *)
(* asks for one of them and gets an answer. Functions with a loop over     *)
(* their arguments alone are operators; extended_gcd, and                  *)
(* chinese_remainder which calls it once per equation, take a step per     *)
(* round.                                                                  *)
(***************************************************************************)
EXTENDS Integers, SequencesExt

CONSTANTS
  INT_MAX, LONG_MAX,
  EDOM, ERANGE, EINVAL, ENOMEM,
  MaxFibonacci,                  \* 92, with a long of 64 bits
  Depth,                         \* bounds the definitions answers are compared to
  Longs, UInts, Bases,           \* what clients pass
  Remainders, Moduli, MaxEquations,
  NULL

ASSUME DMathAssumption ==
  /\ INT_MAX \in Nat \ {0} /\ LONG_MAX \in Nat /\ (INT_MAX + 1) * (INT_MAX + 1) <= LONG_MAX
  /\ {EDOM, ERANGE, EINVAL, ENOMEM} \subseteq Nat \ {0} /\ MaxFibonacci \in Nat
  /\ Longs \subseteq Int /\ UInts \subseteq Nat /\ Bases \subseteq Int
  /\ Remainders \subseteq Int /\ Moduli \subseteq Int /\ MaxEquations \in Nat
  /\ NULL \notin Int

VARIABLES
  asked,              \* history: the function called and its arguments, or NULL
  answer,             \* what it returned, or NULL
  pc,                 \* "idle", or the loop the running call is in
  a, b,               \* the parameters of extended_gcd, which it changes
  s, t, sprev, tprev, \* *s, *t and the locals of extended_gcd
  a0, b0,             \* history: what extended_gcd was called with
  sm, nm,             \* the product chinese_remainder computes, of so many moduli
  y,                  \* the inverses it has found
  basestring          \* what basestring_from_long wrote

locals == <<a, b, s, t, sprev, tprev, a0, b0>>
equations == <<sm, nm, y>>
vars == <<asked, answer, pc, locals, equations, basestring>>
-----------------------------------------------------------------------------
\* Arithmetic of C: division truncates, a conversion keeps the low bits. A
\* product or sum of longs that overflows is taken to wrap.
Abs(n) == IF n < 0 THEN -n ELSE n
Quot(m, n) == IF (m >= 0) = (n > 0) THEN Abs(m) \div Abs(n) ELSE -(Abs(m) \div Abs(n))
Rem(m, n) == m - n * Quot(m, n)
UINT_MAX == 2 * INT_MAX + 1
ULONG_MAX == 2 * LONG_MAX + 1
ToUInt(n) == n % (UINT_MAX + 1)
ToULong(n) == n % (ULONG_MAX + 1)
ToInt(n) == ToUInt(n + INT_MAX + 1) - (INT_MAX + 1)
ToLong(n) == ToULong(n + LONG_MAX + 1) - (LONG_MAX + 1)

fibonacci(n) ==
  LET after(x) == <<ToULong(x[1] + x[2]), x[1]>>
      x_n[i \in 1 .. MaxFibonacci] == IF i = 1 THEN <<1, 0>> ELSE after(x_n[i - 1])
  IN CASE n < 0 -> ToULong(-EDOM)
       [] n > MaxFibonacci -> ToULong(-ERANGE)
       [] n = 0 -> 0
       [] n \in 1 .. MaxFibonacci -> x_n[n][1]

\* The remainder is kept in an int.
gcd(m, n) ==
  LET loop[p \in Int \X (Int \ {0})] ==
        LET r == ToInt(Rem(p[1], p[2])) IN IF r = 0 THEN p[2] ELSE loop[<<p[2], r>>]
  IN IF m = 0 \/ n = 0 THEN -EDOM ELSE Abs(loop[<<m, n>>])

lcm(m, n) == IF m = 0 \/ n = 0 THEN -EDOM ELSE Abs(Quot(m * n, gcd(m, n)))

arecoprime(m, n) == IF gcd(m, n) = 1 THEN 1 ELSE 0

arecoprime_pairwise(ms) ==
  IF \E i, j \in DOMAIN ms : i < j /\ (ms[i] = ms[j] \/ arecoprime(ms[i], ms[j]) = 0) THEN 0 ELSE 1

is_power_of_2(n) ==
  LET odd[k \in Nat] == IF k % 2 = 0 THEN odd[k \div 2] ELSE k
  IN IF n # 0 /\ odd[n] = 1 THEN 1 ELSE 0

is_power_of(base, n) ==
  LET divided[k \in Nat] ==
        CASE k = base -> 1
          [] k = 0 \/ (k # base /\ k % base # 0) -> 0
          [] k \notin {0, base} /\ k % base = 0 -> divided[k \div base]
  IN CASE base < 2 \/ n = 0 -> 0
       [] base >= 2 /\ n = 1 -> 1
       [] base >= 2 /\ n > 1 -> divided[n]

dmath_ilogb(base, n) ==
  LET rounds[k \in Nat] == IF k = 0 THEN 0 ELSE rounds[k \div base] + 1
  IN IF base < 2 \/ n = 0 THEN -EDOM ELSE rounds[n] - 1

dmath_ilog2(n) == dmath_ilogb(2, n)

\* The base wraps when it is squared, and the result is reduced at the end only.
modular_exponentiation(base, exp, m) ==
  LET loop[l \in Nat \X Nat \X Nat] ==
        LET reduced == l[1] % m
        IN IF l[2] = 0 THEN l[3]
           ELSE loop[<<ToUInt(reduced * reduced), l[2] \div 2,
                       IF l[2] % 2 = 1 THEN ToULong(l[3] * reduced) ELSE l[3]>>]
  IN IF m < 1 THEN ToUInt(-EDOM) ELSE loop[<<base, exp, 1>>] % m

sum_of_squared_digits(base, n) ==
  LET sum[k \in Nat] == IF k = 0 THEN 0 ELSE (k % base) * (k % base) + sum[k \div base]
  IN sum[n]

\* halfway goes half as fast, until both meet in a cycle. The variants for
\* bases 2 and 10 are not compiled in.
is_happy(base, n) ==
  LET next(k) == sum_of_squared_digits(base, k)
      loop[l \in Nat \X Nat \X {0, 1}] ==
        LET halfway == IF l[3] = 1 THEN next(l[2]) ELSE l[2]
        IN CASE l[1] = 1 -> 1
             [] l[1] # 1 /\ next(l[1]) = halfway -> 0
             [] l[1] # 1 /\ next(l[1]) # halfway -> loop[<<next(l[1]), halfway, 1 - l[3]>>]
  IN IF base < 2 \/ n < 1 THEN -EDOM ELSE loop[<<n, n, 0>>]
-----------------------------------------------------------------------------
Init ==
  /\ asked = NULL /\ answer = NULL /\ pc = "idle" /\ basestring = <<>>
  /\ sm = 1 /\ nm = 0 /\ y = <<>>
  /\ a = 0 /\ b = 0 /\ s = 0 /\ t = 0 /\ sprev = 0 /\ tprev = 0 /\ a0 = 0 /\ b0 = 0

Ask(fn, args) == asked' = [fn |-> fn, args |-> args]

Call(fn, args, value) ==
  /\ Ask(fn, args)
  /\ answer' = value
  /\ UNCHANGED <<pc, locals, equations, basestring>>

Enter(m, n) ==
  /\ pc' = "extended_gcd"
  /\ a' = m /\ b' = n /\ a0' = m /\ b0' = n
  /\ s' = 0 /\ t' = 1 /\ sprev' = 1 /\ tprev' = 0

extended_gcd(m, n) ==
  /\ Ask("extended_gcd", <<m, n>>)
  /\ IF m = 0 \/ n = 0
       THEN answer' = -EDOM /\ s' = 0 /\ t' = 0 /\ UNCHANGED <<pc, a, b, sprev, tprev, a0, b0>>
       ELSE Enter(m, n) /\ UNCHANGED answer
  /\ UNCHANGED <<equations, basestring>>

\* Mutant: the quotient is taken for one factor only.
Round_t_kept ==
  /\ pc = "extended_gcd" /\ Rem(a, b) # 0
  /\ a' = b /\ b' = Rem(a, b)
  /\ s' = sprev - s * Quot(a, b) /\ sprev' = s
  /\ t' = tprev - t /\ tprev' = t
  /\ UNCHANGED <<asked, answer, pc, a0, b0, equations, basestring>>

Round ==
  /\ pc = "extended_gcd" /\ Rem(a, b) # 0
  /\ a' = b /\ b' = Rem(a, b)
  /\ s' = sprev - s * Quot(a, b) /\ sprev' = s
  /\ t' = tprev - t * Quot(a, b) /\ tprev' = t
  /\ UNCHANGED <<asked, answer, pc, a0, b0, equations, basestring>>

\* Mutant: the inverse is not stored.
Found_not_stored ==
  IF Abs(b) = 1 THEN pc' = "inverses" /\ UNCHANGED <<answer, y>>
  ELSE pc' = "idle" /\ answer' = -EDOM /\ UNCHANGED y

\* chinese_remainder goes on only with moduli that are coprime.
Found ==
  IF Abs(b) = 1 THEN pc' = "inverses" /\ y' = Append(y, s') /\ UNCHANGED answer
  ELSE pc' = "idle" /\ answer' = -EDOM /\ UNCHANGED y

\* extended_gcd returns, to the client or to chinese_remainder.
RoundsEnd ==
  /\ pc = "extended_gcd" /\ Rem(a, b) = 0
  /\ b' = Abs(b)
  /\ IF b < 0 THEN s' = -s /\ t' = -t ELSE UNCHANGED <<s, t>>
  /\ IF asked.fn = "extended_gcd" THEN pc' = "idle" /\ answer' = Abs(b) /\ UNCHANGED y ELSE Found
  /\ UNCHANGED <<asked, a, sprev, tprev, a0, b0, sm, nm, basestring>>

\* The moduli are tested for being coprime, but the result is dropped.
chinese_remainder(as, ms) ==
  /\ Ask("chinese_remainder", <<as, ms>>)
  /\ \/ Len(ms) < 1 /\ answer' = -EINVAL /\ UNCHANGED pc
     \/ Len(ms) >= 1 /\ (\E i \in DOMAIN ms : as[i] = 0 \/ ms[i] = 0) /\ answer' = -EDOM /\ UNCHANGED pc
     \/ /\ Len(ms) >= 1 /\ \A i \in DOMAIN ms : as[i] # 0 /\ ms[i] # 0
        /\ \/ answer' = -ENOMEM /\ UNCHANGED pc
           \/ pc' = "product" /\ UNCHANGED answer
  /\ UNCHANGED <<locals, equations, basestring>>

Multiply ==
  /\ pc = "product"
  /\ IF nm < Len(asked.args[2])
       THEN sm' = ToLong(sm * asked.args[2][nm + 1]) /\ nm' = nm + 1 /\ UNCHANGED pc
       ELSE pc' = "inverses" /\ UNCHANGED <<sm, nm>>
  /\ UNCHANGED <<asked, answer, locals, y, basestring>>

M(i) == Quot(sm, asked.args[2][i])

FindInverse ==
  LET ms == asked.args[2]
      i == Len(y) + 1
  IN /\ pc = "inverses" /\ i <= Len(ms)
     /\ IF M(i) = 0
          THEN pc' = "idle" /\ answer' = -EDOM /\ UNCHANGED locals
          ELSE Enter(M(i), ms[i]) /\ UNCHANGED answer
     /\ UNCHANGED <<asked, equations, basestring>>

sum_of_terms ==
  LET term(i) == ToLong(ToLong(M(i) * asked.args[1][i]) * y[i])
      sum[i \in 0 .. Len(y)] == IF i = 0 THEN 0 ELSE ToLong(sum[i - 1] + term(i))
  IN sum[Len(y)]

\* Mutant: the sign of the remainder is forgotten.
solution_signed == Rem(sum_of_terms, sm)

solution ==
  LET res == Rem(sum_of_terms, sm)
  IN IF res < 0 THEN res + sm ELSE res

Combine ==
  /\ pc = "inverses" /\ Len(y) = Len(asked.args[2])
  /\ pc' = "idle" /\ answer' = ToInt(solution)
  /\ UNCHANGED <<asked, locals, equations, basestring>>

Answered == asked # NULL /\ answer # NULL

\* The client has read the answer.
Forget ==
  /\ Answered
  /\ asked' = NULL /\ answer' = NULL /\ basestring' = <<>>
  /\ sm' = 1 /\ nm' = 0 /\ y' = <<>>
  /\ a' = 0 /\ b' = 0 /\ s' = 0 /\ t' = 0 /\ sprev' = 0 /\ tprev' = 0 /\ a0' = 0 /\ b0' = 0
  /\ UNCHANGED pc

\* '0' .. '9' and 'a' .. 'z' as the codes of their characters.
basestring_alphabet == [digit \in 0 .. 35 |-> IF digit < 10 THEN 48 + digit ELSE 87 + digit]

\* By isdigit and islower.
basestring_char_to_int(c) ==
  CASE c \in 48 .. 57 -> c - 48
    [] c \in 97 .. 122 -> c - 97 + 10
    [] OTHER -> -ERANGE

\* The most significant digit comes first.
basestring_from_long(base, n) ==
  LET max == dmath_ilogb(base, n)
  IN /\ Ask("basestring_from_long", <<base, n>>)
     /\ \/ (base < 2 \/ base > 36) /\ answer' = -ERANGE /\ UNCHANGED basestring
        \/ base \in 2 .. 36 /\ n = 0 /\ basestring' = <<basestring_alphabet[0]>> /\ answer' = 1
        \/ /\ base \in 2 .. 36 /\ n # 0
           /\ basestring' = [k \in 1 .. max + 1 |->
                basestring_alphabet[(n \div base ^ (max + 1 - k)) % base]]
           /\ answer' = max + 1
     /\ UNCHANGED <<pc, locals, equations>>

NoCall == asked = NULL /\ answer = NULL /\ pc = "idle"

CallOne ==
  /\ NoCall
  /\ \E n \in Longs :
       \/ Call("fibonacci", <<n>>, fibonacci(n))
       \/ n >= 0 /\ Call("is_power_of_2", <<n>>, is_power_of_2(n))
       \/ n >= 0 /\ Call("dmath_ilog2", <<n>>, dmath_ilog2(n))
       \/ n \in 0 .. 127 /\ Call("basestring_char_to_int", <<n>>, basestring_char_to_int(n))

CallTwo ==
  /\ NoCall
  /\ \E m, n \in Longs :
       \/ Call("gcd", <<m, n>>, gcd(m, n))
       \/ Call("arecoprime", <<m, n>>, arecoprime(m, n))
       \/ {m, n} \subseteq Bases /\ Call("lcm", <<m, n>>, lcm(m, n))
       \/ extended_gcd(m, n)

CallBase ==
  /\ NoCall
  /\ \E base \in Bases, n \in Longs :
       /\ n >= 0
       /\ \/ base >= 0 /\ Call("is_power_of", <<base, n>>, is_power_of(base, n))
          \/ Call("dmath_ilogb", <<base, n>>, dmath_ilogb(base, n))
          \/ basestring_from_long(base, n)
          \/ Call("is_happy", <<base, n>>, is_happy(base, n))

CallModular ==
  /\ NoCall
  /\ \E base, exp, m \in UInts :
       Call("modular_exponentiation", <<base, exp, m>>, modular_exponentiation(base, exp, m))

CallSystem ==
  /\ NoCall
  /\ \E n \in 0 .. MaxEquations : \E ms \in [1 .. n -> Moduli] :
       \/ Call("arecoprime_pairwise", <<ms>>, arecoprime_pairwise(ms))
       \/ \E as \in [1 .. n -> Remainders] : chinese_remainder(as, ms)

Running == Round \/ RoundsEnd \/ Multiply \/ FindInverse \/ Combine
Next == CallOne \/ CallTwo \/ CallBase \/ CallModular \/ CallSystem \/ Running \/ Forget

Spec == Init /\ [][Next]_vars
FairSpec == Spec /\ WF_vars(Running)
-----------------------------------------------------------------------------
(***************************************************************************)
(* Properties.                                                             *)
(***************************************************************************)
\* extended_gcd, dmath.h: s * a + t * b = gcd(a, b). In every round the
\* factors give the remainder at hand, also when negative numbers divide.
Bezout ==
  /\ pc = "extended_gcd" => s * a0 + t * b0 = b
  /\ Answered /\ asked.fn = "extended_gcd" /\ answer # -EDOM =>
       s * asked.args[1] + t * asked.args[2] = answer

\* What dmath.h defines, by quantifiers.
divides(d, n) == n % d = 0
Common(m, n) == {d \in 1 .. Abs(n) : divides(d, m) /\ divides(d, n)}
Greatest(m, n) == CHOOSE d \in Common(m, n) : \A e \in Common(m, n) : e <= d
Least(m, n) == CHOOSE k \in 1 .. Abs(m * n) :
  divides(Abs(m), k) /\ divides(Abs(n), k) /\
  \A l \in 1 .. k - 1 : ~(divides(Abs(m), l) /\ divides(Abs(n), l))
Larger(m, n) == IF m > n THEN m ELSE n
Smaller(m, n) == IF m < n THEN m ELSE n
Coprime(m, n) == m # 0 /\ n # 0 /\ Common(m, n) = {1}
Bool(p) == IF p THEN 1 ELSE 0
FitsInt(n) == ToInt(n) = n

\* base ^ k, or cap + 1 when that is more than cap.
Power(base, k, cap) ==
  LET power[j \in Nat] == IF j = 0 THEN 1 ELSE Smaller(power[j - 1] * base, cap + 1)
  IN power[k]

DivisorsRight(fn, args) ==
  LET m == args[1]
      n == args[2]
      zero == m = 0 \/ n = 0
  IN /\ fn = "gcd" /\ (zero \/ FitsInt(m) \/ FitsInt(n)) =>
          answer = IF zero THEN -EDOM ELSE Greatest(m, n)
     /\ fn = "lcm" => answer = IF zero THEN -EDOM ELSE Least(m, n)
     /\ fn = "arecoprime" /\ (zero \/ FitsInt(m) \/ FitsInt(n)) => answer = Bool(Coprime(m, n))
     /\ fn = "extended_gcd" =>
          /\ answer = IF zero THEN -EDOM ELSE Greatest(m, n)
          /\ Abs(s) <= Abs(n) /\ Abs(t) <= Larger(Abs(m), 1)

LogarithmsRight(fn, base, n) ==
  LET iterated[k \in Nat] == IF k = 0 THEN n ELSE sum_of_squared_digits(base, iterated[k - 1])
  IN /\ fn \in {"is_power_of", "is_power_of_2"} =>
          answer = Bool(base >= 2 /\ \E k \in 0 .. Depth : Power(base, k, n) = n)
     /\ fn \in {"dmath_ilogb", "dmath_ilog2"} =>
          IF base < 2 \/ n = 0 THEN answer = -EDOM
          ELSE answer >= 0 /\ Power(base, answer, n) <= n /\ n < Power(base, answer + 1, n)
     /\ fn = "basestring_from_long" =>
          IF base \notin 2 .. 36 THEN answer = -ERANGE
          ELSE /\ answer = Len(basestring)
               /\ \A k \in 1 .. answer : basestring_char_to_int(basestring[k]) \in 0 .. base - 1
               /\ answer >= 1 /\ (n > 0 => basestring_char_to_int(basestring[1]) # 0)
               /\ FoldLeft(LAMBDA value, c : value * base + basestring_char_to_int(c), 0, basestring) = n
     /\ fn = "is_happy" =>
          answer = IF base < 2 \/ n < 1 THEN -EDOM ELSE Bool(\E k \in 0 .. Depth : iterated[k] = 1)

PowersRight(fn, args) ==
  LET base == args[1]
      exp == args[2]
      m == args[3]
      ones[k \in Nat] == IF k = 0 THEN 0 ELSE (k % 2) + ones[k \div 2]
      reduced[k \in 0 .. exp] == IF k = 0 THEN 1 % m ELSE (reduced[k - 1] * base) % m
  IN fn = "modular_exponentiation" =>
       IF m = 0 THEN answer = ToUInt(-EDOM)
       ELSE m * m <= UINT_MAX /\ Power(m, ones[exp], ULONG_MAX) <= ULONG_MAX =>
              answer = reduced[exp]

F[n \in Nat] == IF n <= 1 THEN n ELSE F[n - 1] + F[n - 2]

\* The products of the first moduli, and the most that the first terms add up to.
Product(ms) ==
  LET product[n \in 0 .. Len(ms)] == IF n = 0 THEN 1 ELSE product[n - 1] * ms[n]
  IN product
Terms(as, product) ==
  LET terms[n \in 0 .. Len(as)] == IF n = 0 THEN 0 ELSE terms[n - 1] + product * Abs(as[n])
  IN terms

SystemRight(as, ms) ==
  LET zero == \E i \in DOMAIN ms : as[i] = 0 \/ ms[i] = 0
      coprime == \A i, j \in DOMAIN ms : i # j => Coprime(ms[i], ms[j])
      product == Product(ms)[Len(ms)]
      terms == Terms(as, product)[Len(as)]
      solves(x) == \A i \in DOMAIN ms : divides(ms[i], x - as[i])
  IN \/ Len(ms) >= 1 /\ ~zero /\ answer = -ENOMEM
     \/ Len(ms) = 0 /\ answer = -EINVAL
     \/ Len(ms) >= 1 /\ (zero \/ ~coprime) /\ answer = -EDOM
     \/ Len(ms) >= 1 /\ ~zero /\ coprime /\ (\A i \in DOMAIN ms : ms[i] > 0) /\ terms <= LONG_MAX
          /\ \E x \in 0 .. product - 1 : solves(x) /\ answer = ToInt(x)
     \/ (\E i \in DOMAIN ms : ms[i] < 0) \/ terms > LONG_MAX

\* Every function answers what dmath.h defines. gcd does so when one of its
\* arguments fits an int, modular_exponentiation when its products fit,
\* chinese_remainder for positive moduli when the sum of its terms fits, and
\* then with the solution converted to int. A modulus that comes twice is not
\* coprime, except 1.
AnswersRight ==
  Answered =>
    LET fn == asked.fn
        args == asked.args
    IN /\ fn \in {"gcd", "lcm", "arecoprime", "extended_gcd"} => DivisorsRight(fn, args)
       /\ fn \in {"is_power_of", "dmath_ilogb", "basestring_from_long", "is_happy"} =>
            LogarithmsRight(fn, args[1], args[2])
       /\ fn \in {"is_power_of_2", "dmath_ilog2"} => LogarithmsRight(fn, 2, args[1])
       /\ fn = "basestring_char_to_int" =>
            \/ answer \in 0 .. 35 /\ basestring_alphabet[answer] = args[1]
            \/ answer = -ERANGE /\ \A digit \in 0 .. 35 : basestring_alphabet[digit] # args[1]
       /\ fn = "modular_exponentiation" => PowersRight(fn, args)
       /\ fn = "chinese_remainder" => SystemRight(args[1], args[2])
       /\ fn = "arecoprime_pairwise" =>
            answer = Bool(\A i, j \in DOMAIN args[1] : i # j =>
                            args[1][i] # args[1][j] /\ Coprime(args[1][i], args[1][j]))
       /\ fn = "fibonacci" =>
            answer = IF args[1] < 0 THEN ToULong(-EDOM)
                     ELSE IF args[1] > MaxFibonacci THEN ToULong(-ERANGE) ELSE F[args[1]]

\* Every call returns: remainders shrink, and every equation gets its inverse.
CallsReturn == asked # NULL ~> answer # NULL
=============================================================================
