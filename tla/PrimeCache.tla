----------------------------- MODULE PrimeCache -----------------------------
(***************************************************************************)
(* All of dmath.c: DMath, and the primality tests. isprime divides by      *)
(* every number up to the root; isprime_cached divides by the primes that  *)
(* earlier calls left in a static array, and appends to it.                *)
(*                                                                         *)
(* isprime_cached calls itself, and each of those calls may extend the     *)
(* array that its caller is reading: a call is a function from a cache to  *)
(* an answer and a cache.                                                  *)
(***************************************************************************)
EXTENDS DMath

CONSTANTS
  MaxN,    \* clients ask for 0 .. MaxN, at most UINT_MAX
  NPRIME   \* the size of the array

ASSUME PrimeCacheAssumption == MaxN \in Nat /\ NPRIME \in Nat \ {0}

VARIABLES
  primes,  \* the static array, up to the static nprime
  before   \* history: the array when the last call was made

\* (unsigned)sqrt(n), exact in double for the n of interest.
Root(n) == CHOOSE r \in 0 .. n : r * r <= n /\ n < (r + 1) * (r + 1)

isprime(n) == n >= 2 /\ \A i \in 2 .. Root(n) : n % i # 0

\* The array filled by its first use.
Started(cache) == IF cache = <<>> THEN <<2>> ELSE cache

\* The first cached prime, not above limit, that divides n: 0 if none does.
CachedDivisor(cache, n, limit) ==
  LET divides_n == {i \in DOMAIN cache :
        n % cache[i] = 0 /\ \A j \in 1 .. i : cache[j] <= limit}
  IN IF divides_n = {} THEN 0
     ELSE cache[CHOOSE i \in divides_n : \A j \in divides_n : i <= j]

\* Mutant: the last element need not be smaller.
Remember_unordered(cache, n) == IF Len(cache) \in 1 .. NPRIME - 1 THEN Append(cache, n) ELSE cache

Remember(cache, n) ==
  IF Len(cache) \in 1 .. NPRIME - 1 /\ n > Last(cache) THEN Append(cache, n) ELSE cache

\* What a call makes of the cache it finds.
Cache == {cache \in Seq(Nat) : cache = <<>> \/ cache[1] = 2}
Outcome == [answer : {0, 1}, cache : Cache]

\* The loop from i to sqrtn. Dividing needs the answer to a further call, so
\* the cache passes through every round.
Divides(n, sqrtn, calls) ==
  LET round[i \in Nat] == [cache \in Cache |->
        IF i > sqrtn THEN [answer |-> 1, cache |-> Remember(cache, n)]
        ELSE LET call == calls[i][cache]
             IN IF call.answer = 1 /\ n % i = 0 THEN [answer |-> 0, cache |-> call.cache]
                ELSE round[i + 1][call.cache]]
  IN round

\* Mutant: stops the search at the root less one.
a_call_short(n, calls) == [cache \in Cache |->
  IF n < 2 THEN [answer |-> 0, cache |-> cache]
  ELSE LET started == Started(cache)
           sqrtn == Root(n) - 1
           divisor == CachedDivisor(started, n, sqrtn)
       IN IF divisor # 0 THEN [answer |-> IF n = divisor THEN 1 ELSE 0, cache |-> started]
          ELSE Divides(n, sqrtn, calls)[Last(started)][started]]

a_call(n, calls) == [cache \in Cache |->
  IF n < 2 THEN [answer |-> 0, cache |-> cache]
  ELSE LET started == Started(cache)
           sqrtn == Root(n) + 1
           divisor == CachedDivisor(started, n, sqrtn)
       IN IF divisor # 0 THEN [answer |-> IF n = divisor THEN 1 ELSE 0, cache |-> started]
          ELSE Divides(n, sqrtn, calls)[Last(started)][started]]

isprime_cached(cache, n) ==
  LET calls[k \in Nat] == a_call(k, calls)
  IN calls[n][cache]

PrimeInit == Init /\ primes = <<>> /\ before = <<>>

AskCached(n) ==
  LET call == isprime_cached(primes, n)
  IN /\ NoCall
     /\ Call("isprime_cached", <<n>>, call.answer)
     /\ primes' = call.cache /\ before' = primes

\* No other function reads the array, so they are asked only while it is
\* empty: a bound.
CallOther == primes = <<>> /\ NoCall /\ Next /\ UNCHANGED <<primes, before>>
Continue == Running /\ UNCHANGED <<primes, before>>
ForgetAnswer == Forget /\ before' = primes /\ UNCHANGED primes

PrimeNext == (\E n \in 0 .. MaxN : AskCached(n)) \/ CallOther \/ Continue \/ ForgetAnswer

PrimeSpec == PrimeInit /\ [][PrimeNext]_<<vars, primes, before>>
PrimeFairSpec == PrimeSpec /\ WF_<<vars, primes, before>>(Continue)
-----------------------------------------------------------------------------
(***************************************************************************)
(* Properties.                                                             *)
(***************************************************************************)
\* The cache fits its array, and the nested calls never append to it out of
\* order or twice, which is what lets the division stop at the first cached
\* prime above the root.
Ascending == Len(primes) <= NPRIME /\ \A i, j \in DOMAIN primes : i < j => primes[i] < primes[j]

NoGap(cache) ==
  cache = <<>> \/ ToSet(cache) = {p \in 2 .. Last(cache) : isprime(p)}

AskedPrime == Answered /\ asked.fn = "isprime_cached"

\* In whatever order clients asked, a prime is never called composite, and
\* while the cache has no gap every answer is right.
CachedAnswers ==
  AskedPrime =>
    /\ isprime(asked.args[1]) => answer = 1
    /\ NoGap(before) => answer = Bool(isprime(asked.args[1]))

\* dmath.h: isprime_cached is isprime with a cache, so the order of the calls
\* does not show in the answers.
AnswersAsIsprime == AskedPrime => answer = Bool(isprime(asked.args[1]))
=============================================================================
