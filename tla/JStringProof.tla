----------------------------- MODULE JStringProof -----------------------------
(***************************************************************************)
(* Proofs about JString, for every alphabet, every memory that ends in a   *)
(* terminator and every width of size_t that can count past it: no call    *)
(* reads or writes outside of the memory, by IInv, and every call returns  *)
(* what jstring.h says, by AInv on top of it.                              *)
(***************************************************************************)
EXTENDS JString, FiniteSetTheorems, TLAPS

Calls ==
  [fn : {"strnchr"}, s : Address, count : Nat, sought : Char \cup {NUL}] \cup
  [fn : {"end_of_quoted_string"}, s : Address, count : Nat, sought : {quote}, escape : Escape] \cup
  [fn : {"strnstr"}, s : Address, count : Nat, s2 : Needles] \cup
  [fn : {"strncpy_with_modifier"}, s : Address, count : Nat, dest : Address]

TypeOK ==
  /\ mem \in [Address -> Char \cup {NUL}]
  /\ pc \in {"idle", "strnchr", "search", "quote", "strnstr", "copy"}
  /\ asked \in Calls \cup {Nothing}
  /\ asked = Nothing => pc = "idle"

\* Which loops a function runs.
Loops ==
  /\ pc = "strnchr" => asked.fn \in {"strnchr", "end_of_quoted_string"}
  /\ pc \in {"search", "quote"} => asked.fn = "end_of_quoted_string"
  /\ pc = "strnstr" => asked.fn = "strnstr"
  /\ pc = "copy" => asked.fn = "strncpy_with_modifier"

\* Only a copy can lose the terminator of the memory, and the client puts it
\* back before the next call.
Terminated ==
  asked = Nothing \/ asked.fn # "strncpy_with_modifier" => mem[Size] = NUL

\* Where a scanner of quoted strings goes on: the end of what it was asked to
\* search stays where it was, and count has wrapped when it is past that.
Searching ==
  pc \in {"search", "quote"} \/ (pc = "strnchr" /\ asked.fn = "end_of_quoted_string") =>
    /\ s \in Address /\ count \in 0 .. SIZE_MAX
    /\ \E e \in 1 .. Size + 1 : s + count = e \/ s + count = e + SIZE_MAX + 1

\* A scan does not leave the memory.
Scanning ==
  /\ pc = "strnchr" => p \in Address /\ end \in 0 .. Size + 1
  /\ pc = "quote" => p \in Address /\ mem[p] = quote
  /\ pc \in {"quote", "strnchr"} /\ asked.fn = "end_of_quoted_string" => s <= p

Comparing ==
  pc = "strnstr" => s \in Nat \ {0} /\ count \in Nat /\ s + count <= Size + 1

\* A copy to the left or onto itself reads what it has not overwritten yet, up
\* to the terminator; a copy to the right stays behind its destination.
Copying ==
  pc = "copy" =>
    /\ s \in Nat \ {0} /\ dest \in Nat \ {0} /\ count \in Nat /\ dest + count <= Size + 1
    /\ s < dest \/ (s \in Address /\ mem[Size] = NUL)

IInv ==
  TypeOK /\ Loops /\ Terminated /\ Searching /\ Scanning /\ Comparing /\ Copying

\* The two cases in which size_t does not wrap or wraps once.
LEMMA Wraps ==
  /\ \A n \in 0 .. SIZE_MAX : Wrap(n) = n
  /\ \A n \in Int : n < 0 /\ n + SIZE_MAX + 1 >= 0 => Wrap(n) = n + SIZE_MAX + 1
  /\ \A n \in Int : n > SIZE_MAX /\ n <= 2 * SIZE_MAX + 1 => Wrap(n) = n - (SIZE_MAX + 1)
<1>1. SIZE_MAX \in Nat
  BY StringAssumption
<1>2. PICK w \in Nat : w = SIZE_MAX + 1
  BY <1>1
<1>3. w > 0 /\ \A n : Wrap(n) = n % w
  BY <1>1, <1>2 DEF Wrap
<1>4. \A n \in 0 .. SIZE_MAX : n % w = n
  BY <1>1, <1>2
<1>5. \A n \in Int : n < 0 /\ n + w >= 0 => n % w = n + w
  BY <1>3
<1>6. \A n \in Int : n >= w /\ n < 2 * w => n % w = n - w
  BY <1>3
<1> QED BY <1>1, <1>2, <1>3, <1>4, <1>5, <1>6
-----------------------------------------------------------------------------
LEMMA InitIInv == Init => IInv
<1> SUFFICES ASSUME Init PROVE IInv
  OBVIOUS
<1> USE DEF Init
<1>1. mem \in [Address -> Char \cup {NUL}] /\ mem[Size] = NUL
  OBVIOUS
<1>2. TypeOK
  BY <1>1 DEF TypeOK
<1> QED
  BY <1>1, <1>2 DEF IInv, Loops, Terminated, Searching, Scanning, Comparing, Copying

LEMMA AskCalls ==
  ASSUME NEW call \in Calls, IInv, Ask(call)
  PROVE  /\ asked' = call /\ s' = call.s /\ count' = call.count /\ mem' = mem
         /\ mem \in [Address -> Char \cup {NUL}] /\ mem[Size] = NUL /\ Idle
BY DEF IInv, TypeOK, Terminated, Ask, Idle

\* A scan of characters inside the memory.
LEMMA ScanInside ==
  ASSUME NEW from \in Address, NEW n \in Nat \ {0}, from + n <= Size + 1
  PROVE  Wrap(from + n) = from + n
<1>1. Size \in Nat /\ SIZE_MAX \in Nat /\ Size < SIZE_MAX /\ from \in Nat
  BY StringAssumption DEF Address
<1> QED BY <1>1, Wraps

LEMMA strnchrIInv ==
  ASSUME IInv, NEW from \in Address, NEW n \in 0 .. Size + 1 - from, NEW c \in Char \cup {NUL},
         strnchr(from, n, c)
  PROVE  IInv'
<1> DEFINE new == [fn |-> "strnchr", s |-> from, count |-> n, sought |-> c]
<1>1. Size \in Nat /\ from \in Nat /\ n \in Nat /\ from + n <= Size + 1
  BY StringAssumption DEF Address
<1>2. new \in Calls /\ Ask(new)
  BY <1>1 DEF strnchr, Calls
<1> HIDE DEF new
<1>3. asked' = new /\ mem' = mem /\ mem \in [Address -> Char \cup {NUL}] /\ mem[Size] = NUL
  BY <1>2, AskCalls
<1>4. new.fn = "strnchr" /\ new # Nothing
  BY DEF new, Nothing
<1>5. pc' = "idle" \/ (pc' = "strnchr" /\ p' \in Address /\ end' \in 0 .. Size + 1)
  <2>1. CASE n = 0
    BY <2>1 DEF strnchr, Return
  <2>2. CASE n # 0
    <3>1. Wrap(from + n) = from + n
      BY <1>1, <2>2, ScanInside
    <3> QED BY <1>1, <2>2, <3>1 DEF strnchr, Scan
  <2> QED BY <2>1, <2>2
<1>6. TypeOK'
  BY <1>2, <1>3, <1>4, <1>5 DEF TypeOK
<1>7. Scanning'
  BY <1>3, <1>4, <1>5 DEF Scanning
<1> QED
  BY <1>3, <1>4, <1>5, <1>6, <1>7 DEF IInv, Loops, Terminated, Searching, Comparing, Copying

LEMMA QuotedIInv ==
  ASSUME IInv, NEW from \in Address, NEW n \in 0 .. Size + 1 - from, NEW escape \in Escape,
         end_of_quoted_string(from, n, escape)
  PROVE  IInv'
<1> DEFINE new == [fn |-> "end_of_quoted_string", s |-> from, count |-> n,
                   sought |-> quote, escape |-> escape]
<1>1. Size \in Nat /\ SIZE_MAX \in Nat /\ Size < SIZE_MAX /\ from \in Nat /\ n \in Nat
      /\ from >= 1 /\ from + n <= Size + 1
  BY StringAssumption DEF Address
<1>2. new \in Calls /\ Ask(new) /\ new.s = from /\ new.count = n
  BY <1>1 DEF end_of_quoted_string, Calls
<1>3. new.fn = "end_of_quoted_string" /\ new # Nothing
  BY DEF new, Nothing
<1> HIDE DEF new
<1>4. /\ asked' = new /\ s' = from /\ count' = n /\ mem' = mem
      /\ mem \in [Address -> Char \cup {NUL}] /\ mem[Size] = NUL
  BY <1>2, AskCalls
<1>5. pc' = "search"
  BY DEF end_of_quoted_string
<1>6. TypeOK'
  BY <1>2, <1>3, <1>4, <1>5 DEF TypeOK
<1>7. Searching'
  <2>1. from + n \in 1 .. Size + 1 /\ n \in 0 .. SIZE_MAX
    BY <1>1
  <2> QED BY <1>4, <1>5, <2>1 DEF Searching
<1> QED
  BY <1>3, <1>4, <1>5, <1>6, <1>7 DEF IInv, Loops, Terminated, Scanning, Comparing, Copying

LEMMA strnstrIInv ==
  ASSUME IInv, NEW from \in Address, NEW n \in 0 .. Size + 1 - from, NEW needle \in Needles,
         strnstr(from, n, needle)
  PROVE  IInv'
<1> DEFINE new == [fn |-> "strnstr", s |-> from, count |-> n, s2 |-> needle]
<1>1. Size \in Nat /\ from \in Nat \ {0} /\ n \in Nat /\ from + n <= Size + 1
  BY StringAssumption DEF Address
<1>2. new \in Calls /\ Ask(new) /\ new.s = from /\ new.count = n
  BY <1>1 DEF strnstr, Calls
<1>3. new.fn = "strnstr" /\ new # Nothing
  BY DEF new, Nothing
<1> HIDE DEF new
<1>4. /\ asked' = new /\ s' = from /\ count' = n /\ mem' = mem
      /\ mem \in [Address -> Char \cup {NUL}] /\ mem[Size] = NUL
  BY <1>2, AskCalls
<1>5. pc' = "strnstr"
  BY DEF strnstr
<1>6. TypeOK'
  BY <1>2, <1>3, <1>4, <1>5 DEF TypeOK
<1>7. Comparing'
  BY <1>1, <1>4 DEF Comparing
<1> QED
  BY <1>3, <1>4, <1>5, <1>6, <1>7 DEF IInv, Loops, Terminated, Searching, Scanning, Copying

LEMMA CopyIInv ==
  ASSUME IInv, NEW to \in Address, NEW n \in 0 .. Size + 1 - to, NEW src \in Address,
         strncpy_with_modifier(to, src, n)
  PROVE  IInv'
<1> DEFINE new == [fn |-> "strncpy_with_modifier", s |-> src, count |-> n, dest |-> to]
<1>1. Size \in Nat /\ to \in Nat \ {0} /\ src \in Nat \ {0} /\ n \in Nat /\ to + n <= Size + 1
  BY StringAssumption DEF Address
<1>2. new \in Calls /\ Ask(new) /\ new.s = src /\ new.count = n
  BY <1>1 DEF strncpy_with_modifier, Calls
<1>3. new.fn = "strncpy_with_modifier" /\ new # Nothing
  BY DEF new, Nothing
<1> HIDE DEF new
<1>4. /\ asked' = new /\ s' = src /\ count' = n /\ mem' = mem
      /\ mem \in [Address -> Char \cup {NUL}] /\ mem[Size] = NUL
  BY <1>2, AskCalls
<1>5. pc' = "copy" /\ dest' = to
  BY DEF strncpy_with_modifier
<1>6. TypeOK'
  BY <1>2, <1>3, <1>4, <1>5 DEF TypeOK
<1>7. Copying'
  BY <1>1, <1>4, <1>5 DEF Copying
<1> QED
  BY <1>3, <1>4, <1>5, <1>6, <1>7 DEF IInv, Loops, Terminated, Searching, Scanning, Comparing
-----------------------------------------------------------------------------
\* What holds of a call that is running.
LEMMA Facts ==
  ASSUME IInv
  PROVE  /\ Size \in Nat \ {0} /\ SIZE_MAX \in Nat /\ Size < SIZE_MAX
         /\ mem \in [Address -> Char \cup {NUL}] /\ Size \in Address
         /\ quote # NUL
         /\ pc # "idle" => asked \in Calls /\ asked # Nothing
BY StringAssumption DEF IInv, TypeOK, Address

\* A scan or a comparison returns: asked and the memory are as they were.
LEMMA ReturnIInv ==
  ASSUME IInv, pc' = "idle", UNCHANGED <<mem, asked>>
  PROVE  IInv'
BY DEF IInv, TypeOK, Loops, Terminated, Searching, Scanning, Comparing, Copying

LEMMA ScanFoundIInv ==
  ASSUME IInv, ScanFound
  PROVE  IInv'
<1> USE DEF ScanFound
<1>1. CASE asked.fn = "strnchr"
  BY <1>1, ReturnIInv DEF Return
<1>2. CASE asked.fn # "strnchr"
  <2>1. pc' = "quote" /\ asked.fn = "end_of_quoted_string" /\ asked \in Calls /\ asked # Nothing
    BY <1>2, Facts DEF IInv, Loops
  <2>2. asked.sought = quote
    BY <2>1 DEF Calls
  <2>3. TypeOK' /\ Loops' /\ Terminated' /\ Comparing' /\ Copying'
    BY <2>1 DEF IInv, TypeOK, Loops, Terminated, Comparing, Copying
  <2>4. Searching' /\ Scanning'
    BY <2>1, <2>2 DEF IInv, Searching, Scanning, locals
  <2> QED BY <2>3, <2>4 DEF IInv
<1> QED BY <1>1, <1>2

LEMMA ScanOnIInv ==
  ASSUME IInv, ScanOn
  PROVE  IInv'
<1> USE DEF ScanOn
<1>1. p + 1 \in Address /\ (asked.fn = "end_of_quoted_string" => s <= p + 1)
  BY Facts DEF IInv, Scanning, Searching, Address
<1>2. TypeOK' /\ Loops' /\ Terminated' /\ Comparing' /\ Copying' /\ Searching'
  BY DEF IInv, TypeOK, Loops, Terminated, Comparing, Copying, Searching
<1>3. Scanning'
  BY <1>1 DEF IInv, Scanning
<1> QED BY <1>2, <1>3 DEF IInv

LEMMA SearchIInv ==
  ASSUME IInv, Search
  PROVE  IInv'
<1> USE DEF Search
<1>1. CASE count = 0
  BY <1>1, ReturnIInv DEF Return
<1>2. CASE count # 0
  <2>1. /\ pc' = "strnchr" /\ p' = s /\ end' = Wrap(s + count)
        /\ UNCHANGED <<mem, asked, s, count>>
    BY <1>2 DEF Scan
  <2>2. asked.fn = "end_of_quoted_string" /\ asked \in Calls /\ asked # Nothing
    BY Facts DEF IInv, Loops
  <2>3. s \in Address /\ count \in 0 .. SIZE_MAX
    BY DEF IInv, Searching
  <2>4. Wrap(s + count) \in 1 .. Size + 1
    <3>1. PICK e \in 1 .. Size + 1 : s + count = e \/ s + count = e + SIZE_MAX + 1
      BY DEF IInv, Searching
    <3>2. Wrap(s + count) = e
      <4>1. CASE s + count = e
        BY <3>1, <4>1, Facts, Wraps
      <4>2. CASE s + count = e + SIZE_MAX + 1
        BY <3>1, <4>2, Facts, Wraps
      <4> QED BY <3>1, <4>1, <4>2
    <3> QED BY <3>2
  <2>5. TypeOK' /\ Loops' /\ Terminated' /\ Comparing' /\ Copying'
    BY <2>1, <2>2 DEF IInv, TypeOK, Loops, Terminated, Comparing, Copying
  <2>6. Searching'
    BY <2>1 DEF IInv, Searching
  <2>7. Scanning'
    BY <2>1, <2>3, <2>4, Facts DEF Scanning, Address
  <2> QED BY <2>5, <2>6, <2>7 DEF IInv
<1> QED BY <1>1, <1>2

\* Going on behind a quote keeps the end of the search.
LEMMA SearchBehindIInv ==
  ASSUME IInv, NEW n \in {1, 2}, pc = "quote", p + n <= Size,
         SearchBehind(n), UNCHANGED <<mem, asked>>
  PROVE  IInv'
<1>1. /\ pc' = "search" /\ s' = p + n /\ count' = Wrap(count - (p + n - s))
  BY DEF SearchBehind
<1>2. asked.fn = "end_of_quoted_string" /\ asked \in Calls /\ asked # Nothing
  BY Facts DEF IInv, Loops
<1>3. s \in Address /\ count \in 0 .. SIZE_MAX /\ p \in Address /\ s <= p
  BY <1>2 DEF IInv, Searching, Scanning
<1>4. PICK e \in 1 .. Size + 1 : s + count = e \/ s + count = e + SIZE_MAX + 1
  BY DEF IInv, Searching
<1>5. PICK q : q = p + n
  OBVIOUS
<1>6. q \in 1 .. Size /\ Size \in Nat /\ SIZE_MAX \in Nat /\ Size < SIZE_MAX
  BY <1>3, <1>5, Facts DEF Address
<1>7. PICK v : v = count - (p + n - s)
  OBVIOUS
<1>8. v \in Int /\ (q + v = e \/ q + v = e + SIZE_MAX + 1)
  BY <1>3, <1>4, <1>5, <1>6, <1>7 DEF Address
<1>9. Wrap(v) \in 0 .. SIZE_MAX /\ (q + Wrap(v) = e \/ q + Wrap(v) = e + SIZE_MAX + 1)
  <2>1. CASE v < 0
    BY <1>6, <1>8, <2>1, Wraps
  <2>2. CASE v >= 0 /\ v <= SIZE_MAX
    BY <1>6, <1>8, <2>2, Wraps
  <2>3. CASE v > SIZE_MAX
    BY <1>6, <1>8, <2>3, Wraps
  <2> QED BY <1>6, <1>8, <2>1, <2>2, <2>3
<1>10. Searching'
  <2>1. s' = q /\ count' = Wrap(v) /\ q \in Address
    BY <1>1, <1>5, <1>6, <1>7 DEF Address
  <2> QED BY <1>1, <1>9, <2>1 DEF Searching
<1>11. TypeOK' /\ Loops' /\ Terminated' /\ Comparing' /\ Copying' /\ Scanning'
  BY <1>1, <1>2 DEF IInv, TypeOK, Loops, Terminated, Comparing, Copying, Scanning
<1> QED BY <1>10, <1>11 DEF IInv

\* A quote that was found is not the terminator of the memory.
LEMMA QuoteInside ==
  ASSUME IInv, pc = "quote"
  PROVE  p \in Address /\ p + 1 \in Address /\ (mem[p + 1] = quote => p + 2 <= Size)
<1>1. mem[Size] = NUL /\ p \in Address /\ mem[p] = quote
  BY DEF IInv, Loops, Terminated, Scanning
<1>2. p + 1 \in Address
  BY <1>1, Facts DEF Address
<1>3. ASSUME mem[p + 1] = quote PROVE p + 2 <= Size
  BY <1>1, <1>2, <1>3, Facts DEF Address
<1> QED BY <1>1, <1>2, <1>3

LEMMA DoubledIInv ==
  ASSUME IInv, Doubled
  PROVE  IInv'
<1> USE DEF Doubled
<1>1. CASE count = 1 \/ mem[p + 1] # quote
  BY <1>1, ReturnIInv DEF Return
<1>2. CASE ~(count = 1 \/ mem[p + 1] # quote)
  BY <1>2, QuoteInside, SearchBehindIInv
<1> QED BY <1>1, <1>2

LEMMA EscapedIInv ==
  ASSUME IInv, Escaped
  PROVE  IInv'
<1> USE DEF Escaped
<1>1. CASE Return(p)
  BY <1>1, ReturnIInv DEF Return
<1>2. CASE SearchBehind(1)
  BY <1>2, QuoteInside, SearchBehindIInv DEF Address
<1> QED BY <1>1, <1>2

LEMMA CompareIInv ==
  ASSUME IInv, Compare
  PROVE  IInv'
<1> USE DEF Compare
<1>1. asked.fn = "strnstr" /\ asked \in Calls /\ asked # Nothing
  BY Facts DEF IInv, Loops
<1>2. Len(asked.s2) \in Nat /\ (Len(asked.s2) = 0 => DOMAIN asked.s2 = {})
  BY <1>1, StringAssumption DEF Calls
<1>3. CASE pc' = "idle"
  BY <1>3, ReturnIInv
<1>4. CASE pc' # "idle"
  <2>1. /\ count >= Len(asked.s2) /\ ~\A i \in compared : mem[s + i - 1] = asked.s2[i]
        /\ s' = s + 1 /\ count' = count - 1 /\ UNCHANGED pc
    BY <1>4 DEF Return
  <2>2. s \in Nat \ {0} /\ count \in Nat /\ s + count <= Size + 1
    BY DEF IInv, Comparing
  <2>3. count > 0
    BY <1>2, <2>1, <2>2 DEF compared
  <2>4. Comparing'
    BY <2>1, <2>2, <2>3, Facts DEF Comparing
  <2>5. TypeOK' /\ Loops' /\ Terminated' /\ Searching' /\ Scanning' /\ Copying'
    BY <1>1, <2>1 DEF IInv, TypeOK, Loops, Terminated, Searching, Scanning, Copying
  <2> QED BY <2>4, <2>5 DEF IInv
<1> QED BY <1>3, <1>4

\* The addresses of a round that writes.
LEMMA CopyInside ==
  ASSUME IInv, pc = "copy", count > 0
  PROVE  s \in Address /\ dest \in Address
BY Facts DEF IInv, Copying, Address

LEMMA CopyCharacterIInv ==
  ASSUME IInv, CopyCharacter
  PROVE  IInv'
<1> USE DEF CopyCharacter
<1>1. s \in Address /\ dest \in Address
  BY CopyInside
<1>2. mem[s] \in Char /\ modifier[mem[s]] \in Char
  BY <1>1, Facts, StringAssumption
<1>3. /\ asked.fn = "strncpy_with_modifier" /\ asked \in Calls /\ asked # Nothing
      /\ dest + count <= Size + 1 /\ count \in Nat /\ (s < dest \/ mem[Size] = NUL)
  BY Facts DEF IInv, Loops, Copying
<1>4. mem' \in [Address -> Char \cup {NUL}]
  BY <1>1, <1>2, Facts
<1>5. s' < dest' \/ (s' \in Address /\ mem'[Size] = NUL)
  <2>1. CASE s < dest
    BY <1>1, <2>1 DEF Address
  <2>2. CASE s >= dest
    <3>1. mem[Size] = NUL /\ s # Size
      BY <1>1, <1>3, <2>2 DEF Address
    <3>2. s + 1 \in Address /\ dest # Size
      BY <1>1, <2>2, <3>1, Facts DEF Address
    <3> QED BY <3>1, <3>2, Facts
  <2> QED BY <1>1, <2>1, <2>2 DEF Address
<1>6. Copying'
  BY <1>1, <1>3, <1>5, Facts DEF Copying, Address
<1>7. TypeOK' /\ Loops' /\ Terminated' /\ Searching' /\ Scanning' /\ Comparing'
  BY <1>3, <1>4 DEF IInv, TypeOK, Loops, Terminated, Searching, Scanning, Comparing
<1> QED BY <1>6, <1>7 DEF IInv

LEMMA CopyEndsIInv ==
  ASSUME IInv, CopyEnds
  PROVE  IInv'
<1> USE DEF CopyEnds, Return
<1>1. asked.fn = "strncpy_with_modifier" /\ asked \in Calls /\ asked # Nothing
  BY Facts DEF IInv, Loops
<1>2. mem' \in [Address -> Char \cup {NUL}]
  BY CopyInside, Facts
<1> QED
  BY <1>1, <1>2 DEF IInv, TypeOK, Loops, Terminated, Searching, Scanning, Comparing, Copying

LEMMA ForgetIInv ==
  ASSUME IInv, Forget
  PROVE  IInv'
<1> USE DEF Forget
<1>1. mem' \in [Address -> Char \cup {NUL}] /\ mem'[Size] = NUL
  BY Facts
<1> QED
  BY <1>1 DEF IInv, TypeOK, Loops, Terminated, Searching, Scanning, Comparing, Copying, Nothing

LEMMA NextIInv == IInv /\ [Next]_vars => IInv'
<1> SUFFICES ASSUME IInv, [Next]_vars PROVE IInv'
  OBVIOUS
<1>1. CASE UNCHANGED vars
  BY <1>1 DEF vars, locals, IInv, TypeOK, Loops, Terminated, Searching, Scanning, Comparing, Copying
<1>2. CASE Client
  BY <1>2, strnchrIInv, QuotedIInv, strnstrIInv, CopyIInv DEF Client
<1>3. CASE ScanEnds
  BY <1>3, ReturnIInv DEF ScanEnds, Return
<1>4. CASE Running
  BY <1>3, <1>4, ScanFoundIInv, ScanOnIInv, SearchIInv, DoubledIInv, EscapedIInv, CompareIInv,
     CopyCharacterIInv, CopyEndsIInv DEF Running
<1>5. CASE Forget
  BY <1>5, ForgetIInv
<1> QED BY <1>1, <1>2, <1>4, <1>5 DEF Next

LEMMA AccessInside == IInv => InBounds
<1> SUFFICES ASSUME IInv PROVE accessed \subseteq Address
  BY DEF InBounds
<1>1. CASE pc = "strnchr"
  BY <1>1 DEF accessed, IInv, Scanning
<1>2. CASE pc = "quote"
  BY <1>2, QuoteInside DEF accessed
<1>3. CASE pc = "strnstr"
  <2>1. asked.fn = "strnstr" /\ asked \in Calls
    BY <1>3, Facts DEF IInv, Loops
  <2>2. compared \subseteq 1 .. Len(asked.s2) /\ Len(asked.s2) \in Nat
    BY <2>1, StringAssumption DEF Calls, compared
  <2>3. ASSUME count >= Len(asked.s2), NEW i \in compared PROVE s + i - 1 \in Address
    BY <1>3, <2>2, <2>3, Facts DEF IInv, Comparing, Address
  <2> QED BY <1>3, <2>3 DEF accessed
<1>4. CASE pc = "copy"
  BY <1>4, CopyInside DEF accessed
<1>5. CASE pc \in {"idle", "search"}
  BY <1>5 DEF accessed
<1> QED BY <1>1, <1>2, <1>3, <1>4, <1>5 DEF IInv, TypeOK

LEMMA SpecIInv == Spec => []IInv
<1> QED BY InitIInv, NextIInv, PTL DEF Spec

\* No function of jstring.c reads or writes outside of the memory, whatever
\* its alphabet and size, also when strnchr is given a wrapped count.
THEOREM AccessesStayInside == Spec => []InBounds
BY SpecIInv, AccessInside, PTL
-----------------------------------------------------------------------------
(***************************************************************************)
(* Least and greatest numbers, and what is found first.                    *)
(***************************************************************************)
LEMMA LeastNatural ==
  ASSUME NEW T, T \subseteq Nat, T # {}
  PROVE  \E x \in T : \A y \in T : x <= y
<1> DEFINE below(n) == 1 .. n
           S == {below(n) : n \in T}
<1>1. IsWellFoundedOn(StrictSubsetOrdering(Nat), FiniteSubsetsOf(Nat))
  BY FS_StrictSubsetOrderingWellFounded
<1>2. S \subseteq FiniteSubsetsOf(Nat) /\ S # {}
  <2>1. \A n \in T : below(n) \subseteq Nat /\ IsFiniteSet(below(n))
    BY FS_Interval
  <2> QED BY <2>1 DEF FiniteSubsetsOf
<1>3. PICK s0 \in S : \A r \in S : <<r, s0>> \notin StrictSubsetOrdering(Nat)
  <2> HIDE DEF S
  <2> QED BY <1>1, <1>2, WFMin
<1>4. PICK x \in T : s0 = below(x)
  OBVIOUS
<1>5. ASSUME NEW y \in T, y < x PROVE FALSE
  <2>1. <<below(y), below(x)>> \notin StrictSubsetOrdering(Nat)
    BY <1>3, <1>4
  <2>2. /\ below(y) \subseteq below(x) /\ below(y) # below(x)
        /\ below(y) \subseteq Nat /\ below(x) \subseteq Nat
    <3>1. x \in below(x) /\ x \notin below(y) /\ x \in Nat /\ y \in Nat
      BY <1>5
    <3> QED BY <3>1, <1>5
  <2> QED BY <2>1, <2>2 DEF StrictSubsetOrdering
<1> QED BY <1>5

LEMMA Inductive ==
  ASSUME NEW S, 0 \in S, \A n \in Nat : n \in S => n + 1 \in S
  PROVE  Nat \subseteq S
<1> SUFFICES ASSUME NEW T, T = {n \in Nat : n \notin S}, T # {} PROVE FALSE
  OBVIOUS
<1>1. PICK x \in T : \A y \in T : x <= y
  BY LeastNatural
<1>2. x \in Nat \ {0} /\ x - 1 \in Nat /\ x - 1 \notin T
  BY <1>1
<1>3. x - 1 \in S
  BY <1>2
<1>4. x - 1 + 1 = x
  BY <1>2
<1> QED BY <1>2, <1>3, <1>4

LEMMA MinOf ==
  ASSUME NEW T, T \subseteq Nat, T # {}
  PROVE  Min(T) \in T /\ \A y \in T : Min(T) <= y
BY LeastNatural DEF Min

LEMMA MaxOf ==
  ASSUME NEW m \in Nat, NEW T, T \subseteq 0 .. m, T # {}
  PROVE  Max(T) \in T /\ \A y \in T : Max(T) >= y
<1> DEFINE D == {m - x : x \in T}
<1>1. D \subseteq Nat /\ D # {}
  <2>1. \A x \in T : m - x \in Nat
    OBVIOUS
  <2>2. PICK x : x \in T
    OBVIOUS
  <2>3. m - x \in D
    BY <2>2
  <2> QED BY <2>1, <2>3
<1>2. PICK d \in D : \A c \in D : d <= c
  <2> HIDE DEF D
  <2> QED BY <1>1, LeastNatural
<1>3. PICK x \in T : d = m - x
  OBVIOUS
<1>4. \A y \in T : x >= y
  <2> TAKE y \in T
  <2>1. m - y \in D
    OBVIOUS
  <2> QED BY <1>2, <1>3, <2>1
<1> QED BY <1>4 DEF Max

LEMMA FirstIs ==
  ASSUME NEW T, T \subseteq Int, NEW x \in T, \A y \in T : x <= y
  PROVE  FirstOf(T) = x
<1>1. \A y \in T : (\A z \in T : y <= z) => y = x
  OBVIOUS
<1> QED BY <1>1 DEF FirstOf, Min

LEMMA FirstNone == FirstOf({}) = NULL
BY DEF FirstOf
-----------------------------------------------------------------------------
(***************************************************************************)
(* Escapes.                                                                *)
(***************************************************************************)
\* Which characters are escaped, from left to right.
EscapedBy(text, call) ==
  LET escaped[a \in Searched(call)] ==
        a > call.s /\ text[a - 1] = call.escape /\ ~escaped[a - 1]
  IN escaped

Unescaped(text, call) == {a \in Searched(call) : ~EscapedBy(text, call)[a]}

UnescapedQuotes(text, call) == {a \in Unescaped(text, call) : text[a] = quote}

LEMMA EscapedEndIs == \A call : EscapedEnd(call) = FirstOf(UnescapedQuotes(before, call))
<1> TAKE call
<1>1. EscapedEnd(call) =
        FirstOf({a \in Searched(call) : before[a] = quote /\ ~EscapedBy(before, call)[a]})
  BY DEF EscapedEnd, EscapedBy
<1>2. {a \in Searched(call) : before[a] = quote /\ ~EscapedBy(before, call)[a]} =
        UnescapedQuotes(before, call)
  BY DEF Unescaped, UnescapedQuotes
<1> QED BY <1>1, <1>2

LEMMA EscapedByExists ==
  ASSUME NEW text, NEW call, call.s \in Int, call.count \in Nat
  PROVE  \A a \in Searched(call) :
           EscapedBy(text, call)[a] =
             (a > call.s /\ text[a - 1] = call.escape /\ ~EscapedBy(text, call)[a - 1])
<1> DEFINE from == call.s
           Upto(n, f) == f = [a \in from .. from + n - 1 |->
                                a > from /\ text[a - 1] = call.escape /\ ~f[a - 1]]
           Reached == {n \in Nat : \E f : Upto(n, f)}
<1>1. 0 \in Reached
  <2>1. PICK g : g = [a \in from .. from + 0 - 1 |-> TRUE]
    OBVIOUS
  <2>2. from .. from + 0 - 1 = {}
    OBVIOUS
  <2>3. Upto(0, g)
    BY <2>1, <2>2
  <2> QED BY <2>3
<1>2. ASSUME NEW n \in Nat, n \in Reached PROVE n + 1 \in Reached
  <2>1. PICK f : Upto(n, f)
    BY <1>2
  <2> DEFINE escaped(a) == a > from /\ text[a - 1] = call.escape /\ ~f[a - 1]
  <2>2. PICK g : g = [a \in from .. from + (n + 1) - 1 |-> escaped(a)]
    OBVIOUS
  <2>3. \A a \in from .. from + n - 1 : f[a] = escaped(a) /\ g[a] = escaped(a)
    BY <2>1, <2>2
  <2>4. \A a \in from .. from + (n + 1) - 1 : a > from => g[a - 1] = f[a - 1]
    <3> HIDE DEF escaped
    <3> TAKE a \in from .. from + (n + 1) - 1
    <3> HAVE a > from
    <3>1. a - 1 \in from .. from + n - 1
      OBVIOUS
    <3> QED BY <2>3, <3>1
  <2>5. \A a \in from .. from + (n + 1) - 1 :
          escaped(a) <=> a > from /\ text[a - 1] = call.escape /\ ~g[a - 1]
    BY <2>4
  <2>6. g = [a \in from .. from + (n + 1) - 1 |->
               a > from /\ text[a - 1] = call.escape /\ ~g[a - 1]]
    BY <2>2, <2>5
  <2>7. Upto(n + 1, g)
    BY <2>6
  <2>8. n + 1 \in Nat /\ \E h : Upto(n + 1, h)
    BY <2>7
  <2> QED BY <2>8
<1>3. call.count \in Reached
  <2> HIDE DEF Reached
  <2>1. Nat \subseteq Reached
    BY <1>1, <1>2, Inductive
  <2> QED BY <2>1
<1>4. PICK f : Upto(call.count, f)
  BY <1>3
<1>5. Upto(call.count, EscapedBy(text, call))
  BY <1>4 DEF EscapedBy, Searched
<1> QED BY <1>5 DEF Searched

LEMMA UnescapedIs ==
  ASSUME NEW text, NEW call, call.s \in Int, call.count \in Nat
  PROVE  \A a \in Searched(call) :
           a \notin Unescaped(text, call) <=>
             a > call.s /\ text[a - 1] = call.escape /\ a - 1 \in Unescaped(text, call)
<1> TAKE a \in Searched(call)
<1>1. a > call.s => a - 1 \in Searched(call)
  BY DEF Searched
<1>2. EscapedBy(text, call)[a] =
        (a > call.s /\ text[a - 1] = call.escape /\ ~EscapedBy(text, call)[a - 1])
  BY EscapedByExists
<1> QED BY <1>1, <1>2 DEF Unescaped

\* A search has come to x without an end, and the first quote from x on is at
\* q; or there is none up to q.
Clean(text, call, x, q) ==
  /\ call.s \in Nat \ {0} /\ call.count \in Nat
  /\ x \in call.s .. call.s + call.count /\ q \in x .. call.s + call.count
  /\ \A a \in x .. q - 1 : text[a] # quote
Spot(text, call, x, q) == Clean(text, call, x, q) /\ q < call.s + call.count /\ text[q] = quote

\* All quotes before x are escaped, and x is not.
PassedEscapes(text, call, x) ==
  /\ \A a \in call.s .. x - 1 : text[a] = quote => a \notin Unescaped(text, call)
  /\ x \in Searched(call) => x \in Unescaped(text, call)

\* Behind a character that is no escape, or not escaped, every other one of
\* the escapes escapes.
LEMMA EscapeRun ==
  ASSUME NEW text, NEW call, call.s \in Int, call.count \in Nat,
         NEW lo \in Searched(call), NEW q \in Searched(call), lo <= q, lo \in Unescaped(text, call),
         NEW n \in 0 .. q - lo, \A i \in 1 .. n : text[q - i] = call.escape,
         n = q - lo \/ text[q - n - 1] # call.escape
  PROVE  q \notin Unescaped(text, call) <=> n % 2 = 1
<1> DEFINE b == q - n
           Alternate == {j \in Nat : j <= n => (b + j \notin Unescaped(text, call) <=> j % 2 = 1)}
<1>1. \A a \in Searched(call) :
        a \notin Unescaped(text, call) <=>
          a > call.s /\ text[a - 1] = call.escape /\ a - 1 \in Unescaped(text, call)
  BY UnescapedIs
<1>2. \A j \in 0 .. n : b + j \in Searched(call) /\ b + j \in Int
  BY DEF Searched
<1>3. 0 \in Alternate
  <2>1. b + 0 \in Unescaped(text, call)
    <3>1. CASE n = q - lo
      <4>1. b + 0 = lo
        BY <3>1 DEF Searched
      <4> QED BY <4>1
    <3>2. CASE text[q - n - 1] # call.escape
      <4>1. PICK a : a = b + 0
        OBVIOUS
      <4>2. a \in Searched(call) /\ a - 1 = q - n - 1
        BY <1>2, <4>1 DEF Searched
      <4>3. a \in Unescaped(text, call)
        BY <1>1, <3>2, <4>2
      <4> QED BY <4>1, <4>3
    <3> QED BY <3>1, <3>2
  <2> QED BY <2>1
<1>4. ASSUME NEW j \in Nat, j \in Alternate PROVE j + 1 \in Alternate
  <2> SUFFICES ASSUME j + 1 <= n PROVE b + (j + 1) \notin Unescaped(text, call) <=> (j + 1) % 2 = 1
    OBVIOUS
  <2>1. b + j \notin Unescaped(text, call) <=> j % 2 = 1
    BY <1>4
  <2>2. PICK a : a = b + (j + 1)
    OBVIOUS
  <2>3. a \in Searched(call) /\ a - 1 = b + j /\ a > call.s
    BY <1>2, <2>2 DEF Searched
  <2>4. text[a - 1] = call.escape
    <3>1. n - j \in 1 .. n /\ q - (n - j) = a - 1
      BY <2>2 DEF Searched
    <3> QED BY <3>1
  <2>5. a \notin Unescaped(text, call) <=> a - 1 \in Unescaped(text, call)
    BY <1>1, <2>3, <2>4
  <2>6. (j + 1) % 2 = 1 <=> ~(j % 2 = 1)
    OBVIOUS
  <2> QED BY <2>1, <2>2, <2>3, <2>5, <2>6
<1>5. n \in Alternate
  <2> HIDE DEF Alternate
  <2>1. Nat \subseteq Alternate
    BY <1>3, <1>4, Inductive
  <2> QED BY <2>1
<1>6. b + n = q
  BY DEF Searched
<1> HIDE DEF b
<1> QED BY <1>5, <1>6

\* The escapes right before a quote tell whether it is escaped.
LEMMA PrecedingEscapes ==
  ASSUME NEW text, NEW call, NEW x, NEW q, Spot(text, call, x, q),
         PassedEscapes(text, call, x), NEW n,
         n = Max({m \in 0 .. q - x : \A i \in 1 .. m : text[q - i] = call.escape})
  PROVE  n \in Nat /\ (q \notin Unescaped(text, call) <=> n % 2 = 1)
<1> DEFINE T == {m \in 0 .. q - x : \A i \in 1 .. m : text[q - i] = call.escape}
<1>1. /\ x \in Searched(call) /\ q \in Searched(call) /\ x \in Nat /\ q \in Nat /\ x <= q
      /\ call.s \in Int /\ call.count \in Nat
  BY DEF Spot, Clean, Searched
<1>2. T \subseteq 0 .. q - x /\ q - x \in Nat
  BY <1>1
<1>3. 0 \in T
  BY <1>2
<1>4. n \in T /\ \A y \in T : n >= y
  <2> HIDE DEF T
  <2>1. n = Max(T)
    BY DEF T
  <2> QED BY <1>2, <1>3, <2>1, MaxOf
<1>5. n \in 0 .. q - x /\ \A i \in 1 .. n : text[q - i] = call.escape
  BY <1>4
<1>6. n = q - x \/ text[q - n - 1] # call.escape
  <2> SUFFICES ASSUME n # q - x, text[q - n - 1] = call.escape PROVE FALSE
    OBVIOUS
  <2>1. n + 1 \in 0 .. q - x
    BY <1>1, <1>5
  <2>2. \A i \in 1 .. n + 1 : text[q - i] = call.escape
    <3> TAKE i \in 1 .. n + 1
    <3>1. CASE i = n + 1
      <4>1. q - i = q - n - 1
        BY <1>1, <1>5, <3>1
      <4> QED BY <4>1
    <3>2. CASE i \in 1 .. n
      BY <1>5, <3>2
    <3> QED BY <1>5, <3>1, <3>2
  <2>3. n + 1 \in T
    BY <2>1, <2>2
  <2> HIDE DEF T
  <2> QED BY <1>4, <1>5, <2>3
<1>7. x \in Unescaped(text, call)
  BY <1>1 DEF PassedEscapes
<1>8. q \notin Unescaped(text, call) <=> n % 2 = 1
  BY <1>1, <1>5, <1>6, <1>7, EscapeRun
<1> QED BY <1>2, <1>5, <1>8

LEMMA EscapedFound ==
  ASSUME NEW text, NEW call, NEW x, NEW q, Spot(text, call, x, q),
         PassedEscapes(text, call, x), q \in Unescaped(text, call)
  PROVE  FirstOf(UnescapedQuotes(text, call)) = q
<1> DEFINE T == UnescapedQuotes(text, call)
<1>1. T \subseteq Int /\ q \in T
  BY DEF UnescapedQuotes, Spot, Clean, Searched, Unescaped
<1>2. \A y \in T : q <= y
  BY DEF UnescapedQuotes, Spot, Clean, Searched, PassedEscapes, Unescaped
<1> HIDE DEF T
<1>3. FirstOf(T) = q
  BY <1>1, <1>2, FirstIs
<1> QED BY <1>3 DEF T

LEMMA EscapedOn ==
  ASSUME NEW text, NEW call, NEW x, NEW q, Spot(text, call, x, q),
         PassedEscapes(text, call, x), q \notin Unescaped(text, call),
         call.escape # quote
  PROVE  PassedEscapes(text, call, q + 1)
<1>1. \A a \in call.s .. q : text[a] = quote => a \notin Unescaped(text, call)
  BY DEF Spot, Clean, PassedEscapes
<1>2. ASSUME q + 1 \in Searched(call) PROVE q + 1 \in Unescaped(text, call)
  <2>1. PICK a : a = q + 1
    OBVIOUS
  <2>2. a \in Searched(call) /\ a - 1 = q /\ text[a - 1] # call.escape
    BY <1>2, <2>1 DEF Spot, Clean
  <2>3. call.s \in Int /\ call.count \in Nat
    BY DEF Spot, Clean
  <2>4. a \in Unescaped(text, call)
    BY <2>2, <2>3, UnescapedIs
  <2> QED BY <2>1, <2>4
<1>3. PICK y : y = q + 1
  OBVIOUS
<1>4. y - 1 = q
  <2>1. q \in Int
    BY DEF Spot, Clean
  <2> QED BY <1>3, <2>1
<1>5. \A a \in call.s .. y - 1 : text[a] = quote => a \notin Unescaped(text, call)
  BY <1>1, <1>4
<1>6. y \in Searched(call) => y \in Unescaped(text, call)
  BY <1>2, <1>3
<1>7. PassedEscapes(text, call, y)
  BY <1>5, <1>6 DEF PassedEscapes
<1> QED BY <1>3, <1>7

LEMMA EscapedNone ==
  ASSUME NEW text, NEW call, NEW x, Clean(text, call, x, call.s + call.count),
         PassedEscapes(text, call, x)
  PROVE  FirstOf(UnescapedQuotes(text, call)) = NULL
<1>1. UnescapedQuotes(text, call) = {}
  BY DEF UnescapedQuotes, Clean, Searched, PassedEscapes, Unescaped
<1> QED BY <1>1, FirstNone

LEMMA EscapesStart ==
  ASSUME NEW text, NEW call, call.s \in Nat, call.count \in Nat
  PROVE  PassedEscapes(text, call, call.s)
<1>1. ASSUME NEW a, a = call.s, a \in Searched(call) PROVE a \in Unescaped(text, call)
  <2>1. a \notin Unescaped(text, call) <=>
          a > call.s /\ text[a - 1] = call.escape /\ a - 1 \in Unescaped(text, call)
    BY <1>1, UnescapedIs
  <2>2. ~(a > call.s)
    BY <1>1
  <2> QED BY <2>1, <2>2
<1>2. call.s .. call.s - 1 = {}
  OBVIOUS
<1> QED BY <1>1, <1>2 DEF PassedEscapes
-----------------------------------------------------------------------------
(***************************************************************************)
(* Doubled quotes.                                                         *)
(***************************************************************************)
Quotes(text, a, z) == \A i \in a .. z : text[i] = quote
LeftEnd(text, call, a) == a - 1 \in Searched(call) => text[a - 1] # quote
RightEnd(text, call, z) == z + 1 \in Searched(call) => text[z + 1] # quote

OddRunTo(text, call, z) ==
  \E a \in call.s .. z :
    Quotes(text, a, z) /\ LeftEnd(text, call, a) /\ RightEnd(text, call, z) /\ (z - a) % 2 = 0

OddRunEnds(text, call) == {z \in Searched(call) : OddRunTo(text, call, z)}

LEMMA DoubledEndIs ==
  \A call : DoubledEnd(call) = FirstOf(OddRunEnds(before, call))
<1> TAKE call
<1>1. \A z : OddRunTo(before, call, z) <=>
        \E a \in call.s .. z : /\ \A i \in a .. z : before[i] = quote
                               /\ a - 1 \in Searched(call) => before[a - 1] # quote
                               /\ z + 1 \in Searched(call) => before[z + 1] # quote
                               /\ (z - a) % 2 = 0
  BY DEF OddRunTo, Quotes, LeftEnd, RightEnd
<1> QED BY <1>1 DEF DoubledEnd, OddRunEnds

\* The runs of quotes before x are of even length, one that x may go on too.
PassedPairs(text, call, x) ==
  \A z \in call.s .. x - 1 : \A a \in call.s .. z :
    Quotes(text, a, z) /\ LeftEnd(text, call, a) /\ (z = x - 1 \/ text[z + 1] # quote) =>
      (z - a) % 2 = 1

\* Every quote is in a run that starts somewhere.
LEMMA RunStarts ==
  ASSUME NEW text, NEW call, call.s \in Nat, call.count \in Nat,
         NEW z \in Searched(call), text[z] = quote
  PROVE  \E a \in call.s .. z : Quotes(text, a, z) /\ LeftEnd(text, call, a)
<1> DEFINE T == {a \in call.s .. z : Quotes(text, a, z)}
<1>1. T \subseteq Nat /\ z \in T
  BY DEF Searched, Quotes
<1>2. PICK a \in T : \A b \in T : a <= b
  <2> HIDE DEF T
  <2> QED BY <1>1, LeastNatural
<1>3. a \in call.s .. z /\ Quotes(text, a, z) /\ z \in Nat
  BY <1>2 DEF Searched
<1>4. ASSUME a - 1 \in Searched(call), text[a - 1] = quote PROVE FALSE
  <2>1. a - 1 \in call.s .. z
    BY <1>3, <1>4 DEF Searched
  <2>2. Quotes(text, a - 1, z)
    <3> SUFFICES ASSUME NEW i \in a - 1 .. z PROVE text[i] = quote
      BY DEF Quotes
    <3>1. i = a - 1 \/ i \in a .. z
      BY <1>3
    <3> QED BY <1>3, <1>4, <3>1 DEF Quotes
  <2>3. a - 1 \in T
    BY <2>1, <2>2
  <2>4. ~(a <= a - 1)
    BY <1>3
  <2> QED BY <1>2, <2>3, <2>4
<1> QED BY <1>3, <1>4 DEF LeftEnd

\* The run that a quote found at q is in: all of it before x is even.
LEMMA RunAtSpot ==
  ASSUME NEW text, NEW call, NEW x, NEW q, Spot(text, call, x, q),
         PassedPairs(text, call, x)
  PROVE  /\ \E a \in call.s .. q : Quotes(text, a, q) /\ LeftEnd(text, call, a)
         /\ \A a \in call.s .. q : Quotes(text, a, q) /\ LeftEnd(text, call, a) => (q - a) % 2 = 0
<1>1. /\ call.s \in Nat /\ call.count \in Nat /\ x \in Nat /\ q \in Nat /\ x <= q /\ call.s <= x
      /\ q \in Searched(call) /\ text[q] = quote
  BY DEF Spot, Clean, Searched
<1>2. ASSUME NEW a \in call.s .. q, Quotes(text, a, q), LeftEnd(text, call, a)
      PROVE  (q - a) % 2 = 0
  <2>1. CASE a = q
    BY <1>1, <2>1
  <2>2. CASE a # q
    <3>1. q - 1 \in a .. q /\ text[q - 1] = quote
      BY <1>1, <1>2, <2>2 DEF Quotes
    <3>2. q = x
      <4>1. ~(q - 1 \in x .. q - 1)
        BY <3>1 DEF Spot, Clean
      <4> QED BY <1>1, <4>1
    <3>3. PICK z : z = q - 1
      OBVIOUS
    <3>4. z \in call.s .. x - 1 /\ a \in call.s .. z /\ z = x - 1
      BY <1>1, <1>2, <2>2, <3>2, <3>3
    <3>5. Quotes(text, a, z)
      BY <1>1, <1>2, <3>4 DEF Quotes
    <3>6. (z - a) % 2 = 1
      BY <1>2, <3>4, <3>5 DEF PassedPairs
    <3>7. q - a = (z - a) + 1 /\ z - a \in Nat
      BY <1>1, <3>3, <3>4
    <3> QED BY <3>6, <3>7
  <2> QED BY <2>1, <2>2
<1>3. \E a \in call.s .. q : Quotes(text, a, q) /\ LeftEnd(text, call, a)
  BY <1>1, RunStarts
<1> QED BY <1>2, <1>3

\* Before x there is no end, nor among characters that are no quotes.
LEMMA NoneBefore ==
  ASSUME NEW text, NEW call, NEW x, NEW q, Clean(text, call, x, q),
         PassedPairs(text, call, x), NEW z \in call.s .. q - 1
  PROVE  ~OddRunTo(text, call, z)
<1>1. /\ call.s \in Nat /\ call.count \in Nat /\ x \in Nat /\ q \in Nat /\ z \in Nat
      /\ x <= q /\ q <= call.s + call.count
  BY DEF Clean
<1> SUFFICES ASSUME NEW a \in call.s .. z,
                    Quotes(text, a, z), LeftEnd(text, call, a), RightEnd(text, call, z),
                    (z - a) % 2 = 0
             PROVE  FALSE
  BY DEF OddRunTo
<1>2. text[z] = quote
  BY <1>1 DEF Quotes
<1>3. z \in call.s .. x - 1
  BY <1>1, <1>2 DEF Clean
<1>4. z = x - 1 \/ text[z + 1] # quote
  <2>1. z # x - 1 => z + 1 \in Searched(call)
    BY <1>1, <1>3 DEF Searched
  <2> QED BY <2>1 DEF RightEnd
<1>5. (z - a) % 2 = 1
  BY <1>3, <1>4 DEF PassedPairs
<1> QED BY <1>5

LEMMA DoubledFound ==
  ASSUME NEW text, NEW call, NEW x, NEW q, Spot(text, call, x, q),
         PassedPairs(text, call, x), RightEnd(text, call, q)
  PROVE  FirstOf(OddRunEnds(text, call)) = q
<1> DEFINE T == OddRunEnds(text, call)
<1>1. Clean(text, call, x, q) /\ q \in Searched(call) /\ q \in Nat
  BY DEF Spot, Clean, Searched
<1>2. OddRunTo(text, call, q)
  BY RunAtSpot DEF OddRunTo
<1>3. T \subseteq Int /\ q \in T
  BY <1>1, <1>2 DEF OddRunEnds, Clean, Searched
<1>4. \A y \in T : q <= y
  <2> SUFFICES ASSUME NEW y \in T, y < q PROVE FALSE
    BY <1>1, <1>3
  <2>1. y \in call.s .. q - 1
    BY <1>1 DEF OddRunEnds, Clean, Searched
  <2> QED BY <1>1, <2>1, NoneBefore DEF OddRunEnds
<1> HIDE DEF T
<1>5. FirstOf(T) = q
  BY <1>3, <1>4, FirstIs
<1> QED BY <1>5 DEF T

LEMMA DoubledNone ==
  ASSUME NEW text, NEW call, NEW x, Clean(text, call, x, call.s + call.count),
         PassedPairs(text, call, x)
  PROVE  FirstOf(OddRunEnds(text, call)) = NULL
<1>1. OddRunEnds(text, call) = {}
  <2>1. PICK e : e = call.s + call.count
    OBVIOUS
  <2>2. Clean(text, call, x, e)
    BY <2>1
  <2>3. \A z \in call.s .. e - 1 : ~OddRunTo(text, call, z)
    BY <2>2, NoneBefore
  <2>4. Searched(call) = call.s .. e - 1
    BY <2>1 DEF Clean, Searched
  <2> QED BY <2>3, <2>4 DEF OddRunEnds
<1> QED BY <1>1, FirstNone

LEMMA DoubledOn ==
  ASSUME NEW text, NEW call, NEW x, NEW q, Spot(text, call, x, q),
         PassedPairs(text, call, x),
         text[q + 1] = quote, q + 2 <= call.s + call.count
  PROVE  PassedPairs(text, call, q + 2)
<1>1. /\ call.s \in Nat /\ call.count \in Nat /\ x \in Nat /\ q \in Nat /\ x <= q /\ call.s <= x
      /\ text[q] = quote /\ q \in Searched(call)
  BY DEF Spot, Clean, Searched
<1>2. PICK y : y = q + 2
  OBVIOUS
<1>3. y - 1 = q + 1
  BY <1>1, <1>2
<1>4. ASSUME NEW z \in call.s .. y - 1, NEW a \in call.s .. z,
             Quotes(text, a, z), LeftEnd(text, call, a),
             z = y - 1 \/ text[z + 1] # quote
      PROVE  (z - a) % 2 = 1
  <2>1. text[z] = quote /\ z \in Nat /\ a \in Nat
    BY <1>1, <1>4 DEF Quotes
  <2>2. CASE z = q + 1
    <3>1. a # z
      <4>1. z - 1 = q
        BY <1>1, <2>2
      <4> QED BY <1>1, <1>4, <4>1 DEF LeftEnd
    <3>2. a \in call.s .. q /\ Quotes(text, a, q)
      BY <1>1, <1>4, <2>1, <2>2, <3>1 DEF Quotes
    <3>3. (q - a) % 2 = 0
      BY <1>4, <3>2, RunAtSpot
    <3>4. q - a \in Nat /\ z - a = (q - a) + 1
      BY <1>1, <2>2, <3>2
    <3> QED BY <3>3, <3>4
  <2>3. CASE z # q + 1
    <3>1. text[z + 1] # quote /\ z # q /\ z < q
      BY <1>1, <1>3, <1>4, <2>1, <2>3
    <3>2. z \in call.s .. x - 1
      BY <1>1, <2>1, <3>1 DEF Spot, Clean
    <3> QED BY <1>4, <3>1, <3>2 DEF PassedPairs
  <2> QED BY <2>2, <2>3
<1>5. PassedPairs(text, call, y)
  BY <1>4 DEF PassedPairs
<1> QED BY <1>2, <1>5

\* What ResultsRight does not judge.
Cut(text, call) ==
  LET last == call.s + call.count - 1
  IN  /\ call.count > 1 /\ last < Size
      /\ text[last - 1] # quote /\ text[last] = quote /\ text[last + 1] = quote

LEMMA CutRunIs == \A call : CutRun(call) <=> Cut(before, call)
BY DEF CutRun, Cut

LEMMA RunIsCut ==
  ASSUME NEW text, NEW call, NEW x, NEW q, Spot(text, call, x, q), x < q,
         q + 1 = call.s + call.count, text[q + 1] = quote, q < Size
  PROVE  Cut(text, call)
<1>1. /\ call.s \in Nat /\ call.count \in Nat /\ x \in Nat /\ q \in Nat /\ call.s <= x
      /\ text[q] = quote
  BY DEF Spot, Clean
<1>2. call.count > 1 /\ call.s + call.count - 1 = q
  BY <1>1
<1>3. text[q - 1] # quote
  <2>1. q - 1 \in x .. q - 1
    BY <1>1
  <2> QED BY <2>1 DEF Spot, Clean
<1> QED BY <1>1, <1>2, <1>3 DEF Cut

LEMMA PairsStart ==
  ASSUME NEW text, NEW call, call.s \in Nat
  PROVE  PassedPairs(text, call, call.s)
<1>1. call.s .. call.s - 1 = {}
  OBVIOUS
<1> QED BY <1>1 DEF PassedPairs
-----------------------------------------------------------------------------
(***************************************************************************)
(* Copies.                                                                 *)
(***************************************************************************)
Length(text, call) == Min({n \in 0 .. Size - call.s : text[call.s + n] = NUL})

\* No character is overwritten before it is read.
Untouched(text, call) ==
  call.dest <= call.s \/ call.dest >= call.s + Min({call.count, Length(text, call) + 1})

\* The memory after k characters, and at the end.
Part(text, call, k) ==
  [a \in Address |-> IF a \in call.dest .. call.dest + k - 1
                       THEN modifier[text[call.s + a - call.dest]] ELSE text[a]]
Left(text, call, a) ==
  LET n == Min({call.count, Length(text, call)})
      written == call.dest .. call.dest + Min({call.count, Length(text, call) + 1}) - 1
  IN  CASE a \notin written -> text[a]
        [] a \in written /\ a < call.dest + n -> modifier[text[call.s + a - call.dest]]
        [] a \in written /\ a >= call.dest + n -> NUL
Final(text, call) == [a \in Address |-> Left(text, call, a)]

LEMMA CopyRightIs ==
  \A call : CopyRight(call) <=> (Untouched(before, call) => mem = Final(before, call))
BY DEF CopyRight, Length, Untouched, Final, Left

Copy(text, call) ==
  /\ call.s \in Address /\ call.dest \in Address /\ call.count \in Nat
  /\ call.dest + call.count <= Size + 1
  /\ text \in [Address -> Char \cup {NUL}] /\ text[Size] = NUL

LEMMA MinPair == \A a, b \in Nat : Min({a, b}) = IF a <= b THEN a ELSE b
<1> TAKE a, b \in Nat
<1>1. Min({a, b}) \in {a, b} /\ \A y \in {a, b} : Min({a, b}) <= y
  BY MinOf
<1> QED BY <1>1

LEMMA LengthIs ==
  ASSUME NEW text, NEW call, Copy(text, call)
  PROVE  /\ Length(text, call) \in Nat /\ call.s + Length(text, call) \in Address
         /\ text[call.s + Length(text, call)] = NUL
         /\ \A n \in Nat : n < Length(text, call) => text[call.s + n] # NUL
<1> DEFINE T == {n \in 0 .. Size - call.s : text[call.s + n] = NUL}
<1>1. Size \in Nat /\ call.s \in Nat \ {0} /\ call.s <= Size
  BY StringAssumption DEF Copy, Address
<1>2. T \subseteq Nat /\ Size - call.s \in T
  <2>1. call.s + (Size - call.s) = Size
    BY <1>1
  <2> QED BY <1>1, <2>1 DEF Copy
<1>3. Length(text, call) \in T /\ \A y \in T : Length(text, call) <= y
  <2>1. Length(text, call) = Min(T)
    BY DEF Length
  <2> HIDE DEF T
  <2> QED BY <1>2, <2>1, MinOf
<1>4. Length(text, call) \in 0 .. Size - call.s /\ text[call.s + Length(text, call)] = NUL
  BY <1>3
<1>5. \A n \in Nat : n < Length(text, call) => text[call.s + n] # NUL
  <2> SUFFICES ASSUME NEW n \in Nat, n < Length(text, call), text[call.s + n] = NUL PROVE FALSE
    OBVIOUS
  <2>1. n \in T
    BY <1>1, <1>4
  <2> HIDE DEF T
  <2> QED BY <1>3, <1>4, <2>1
<1> QED BY <1>1, <1>4, <1>5 DEF Address

\* What an undisturbed copy reads next.
LEMMA CopyReads ==
  ASSUME NEW text, NEW call, Copy(text, call), Untouched(text, call),
         NEW k \in Nat, k < call.count, k <= Length(text, call)
  PROVE  /\ call.s + k \in Address /\ call.dest + k \in Address
         /\ Part(text, call, k)[call.s + k] = text[call.s + k]
         /\ text[call.s + k] = NUL <=> k = Length(text, call)
<1>1. PICK length : length = Length(text, call)
  OBVIOUS
<1>2. /\ length \in Nat /\ call.s + length \in Address /\ text[call.s + length] = NUL
      /\ \A n \in Nat : n < length => text[call.s + n] # NUL
  BY <1>1, LengthIs
<1>3. /\ Size \in Nat /\ call.s \in Nat \ {0} /\ call.s <= Size /\ call.count \in Nat
      /\ call.dest \in Nat \ {0} /\ call.dest + call.count <= Size + 1
  BY StringAssumption DEF Copy, Address
<1>4. call.s + k \in Address /\ call.dest + k \in Address
  BY <1>1, <1>2, <1>3 DEF Address
<1>5. text[call.s + k] = NUL <=> k = length
  BY <1>1, <1>2
<1>6. Min({call.count, length + 1}) > k
  BY <1>1, <1>2, <1>3, MinPair
<1>7. call.s + k \notin call.dest .. call.dest + k - 1
  <2>1. call.dest <= call.s \/ call.dest >= call.s + Min({call.count, length + 1})
    BY <1>1 DEF Untouched
  <2>2. Min({call.count, length + 1}) \in Nat
    BY <1>2, <1>3, MinPair
  <2> QED BY <1>3, <1>6, <2>1, <2>2
<1>8. Part(text, call, k)[call.s + k] = text[call.s + k]
  BY <1>4, <1>7 DEF Part
<1> QED BY <1>1, <1>4, <1>5, <1>8

LEMMA CopyStarts ==
  ASSUME NEW text, NEW call, Copy(text, call)
  PROVE  Part(text, call, 0) = text /\ 0 <= Length(text, call)
<1>1. call.dest .. call.dest + 0 - 1 = {}
  BY DEF Copy, Address
<1>2. Part(text, call, 0) = text
  BY <1>1 DEF Part, Copy
<1> QED BY <1>2, LengthIs

LEMMA CopyGoesOn ==
  ASSUME NEW text, NEW call, Copy(text, call), Untouched(text, call),
         NEW k \in Nat, k < call.count, k < Length(text, call),
         NEW m, m = Part(text, call, k)
  PROVE  [m EXCEPT ![call.dest + k] = modifier[m[call.s + k]]] = Part(text, call, k + 1)
<1>1. /\ call.s + k \in Address /\ call.dest + k \in Address /\ m[call.s + k] = text[call.s + k]
      /\ call.dest \in Nat /\ call.s \in Nat
  <2>1. /\ call.s + k \in Address /\ call.dest + k \in Address
        /\ Part(text, call, k)[call.s + k] = text[call.s + k]
    <3>1. k <= Length(text, call)
      BY LengthIs
    <3> QED BY <3>1, CopyReads
  <2> QED BY <2>1 DEF Copy, Address
<1>2. PICK c : c = modifier[text[call.s + k]]
  OBVIOUS
<1>3. PICK b : b = Part(text, call, k + 1)
  OBVIOUS
<1>4. \A a \in Address : b[a] = IF a = call.dest + k THEN c ELSE m[a]
  <2> TAKE a \in Address
  <2>1. CASE a = call.dest + k
    <3>1. a \in call.dest .. call.dest + (k + 1) - 1 /\ call.s + a - call.dest = call.s + k
      BY <1>1, <2>1
    <3> QED BY <1>2, <1>3, <2>1, <3>1 DEF Part
  <2>2. CASE a # call.dest + k
    <3>1. PICK d : d = call.dest
      OBVIOUS
    <3>2. d \in Nat /\ k \in Nat /\ a \in Int /\ a # d + k
      BY <1>1, <2>2, <3>1 DEF Address
    <3>3. a \in d .. d + (k + 1) - 1 <=> a \in d .. d + k - 1
      BY <3>2
    <3>4. a \in call.dest .. call.dest + (k + 1) - 1 <=> a \in call.dest .. call.dest + k - 1
      BY <3>1, <3>3
    <3> QED BY <1>3, <2>2, <3>4 DEF Part
  <2> QED BY <2>1, <2>2
<1>5. b = [a \in Address |-> b[a]] /\ m = [a \in Address |-> m[a]]
  BY <1>3 DEF Part
<1>6. [m EXCEPT ![call.dest + k] = c] = b
  BY <1>1, <1>4, <1>5
<1> QED BY <1>1, <1>2, <1>3, <1>6

\* It ends with all the characters asked for, or with a terminator.
LEMMA CopyFull ==
  ASSUME NEW text, NEW call, Copy(text, call), call.count <= Length(text, call)
  PROVE  Part(text, call, call.count) = Final(text, call)
<1>1. PICK n : n = call.count
  OBVIOUS
<1>2. /\ n \in Nat /\ call.dest \in Nat
      /\ Min({n, Length(text, call)}) = n /\ Min({n, Length(text, call) + 1}) = n
  <2>1. Length(text, call) \in Nat
    BY LengthIs
  <2>2. n \in Nat /\ call.dest \in Nat
    BY <1>1 DEF Copy, Address
  <2> QED BY <1>1, <2>1, <2>2, MinPair
<1>3. \A a \in Address : a \in call.dest .. call.dest + n - 1 => a < call.dest + n
  BY <1>2 DEF Address
<1> QED BY <1>1, <1>2, <1>3 DEF Part, Final, Left

LEMMA CopyTerminated ==
  ASSUME NEW text, NEW call, Copy(text, call),
         NEW k, k = Length(text, call), k < call.count, NEW m, m = Part(text, call, k)
  PROVE  [m EXCEPT ![call.dest + k] = NUL] = Final(text, call)
<1>1. k \in Nat /\ call.dest \in Nat /\ call.count \in Nat
  <2>1. k \in Nat
    BY LengthIs
  <2> QED BY <2>1 DEF Copy, Address
<1>2. Min({call.count, k}) = k /\ Min({call.count, k + 1}) = k + 1
  BY <1>1, MinPair
<1>3. PICK b : b = Final(text, call)
  OBVIOUS
<1>4. \A a \in Address : b[a] = IF a = call.dest + k THEN NUL ELSE m[a]
  <2> TAKE a \in Address
  <2>1. b[a] = CASE a \notin call.dest .. call.dest + (k + 1) - 1 -> text[a]
                 [] /\ a \in call.dest .. call.dest + (k + 1) - 1
                    /\ a < call.dest + k -> modifier[text[call.s + a - call.dest]]
                 [] /\ a \in call.dest .. call.dest + (k + 1) - 1
                    /\ a >= call.dest + k -> NUL
    BY <1>2, <1>3 DEF Final, Left
  <2>2. m[a] = IF a \in call.dest .. call.dest + k - 1
                 THEN modifier[text[call.s + a - call.dest]] ELSE text[a]
    BY DEF Part
  <2>3. CASE a = call.dest + k
    <3>1. a \in call.dest .. call.dest + (k + 1) - 1 /\ ~(a < call.dest + k) /\ a >= call.dest + k
      BY <1>1, <2>3
    <3> QED BY <2>1, <2>3, <3>1
  <2>4. CASE a \in call.dest .. call.dest + k - 1
    <3>1. /\ a \in call.dest .. call.dest + (k + 1) - 1 /\ a < call.dest + k
          /\ ~(a >= call.dest + k) /\ a # call.dest + k
      BY <1>1, <2>4
    <3> QED BY <2>1, <2>2, <2>4, <3>1
  <2>5. CASE a # call.dest + k /\ a \notin call.dest .. call.dest + k - 1
    <3>1. a \notin call.dest .. call.dest + (k + 1) - 1
      BY <1>1, <2>5 DEF Address
    <3> QED BY <2>1, <2>2, <2>5, <3>1
  <2> QED BY <2>3, <2>4, <2>5
<1>5. call.dest + k \in Address
  BY <1>1, StringAssumption DEF Copy, Address
<1>6. m = [a \in Address |-> m[a]]
  BY DEF Part
<1>7. b = [a \in Address |-> b[a]]
  BY <1>3 DEF Final
<1> QED BY <1>3, <1>4, <1>5, <1>6, <1>7
-----------------------------------------------------------------------------
(***************************************************************************)
(* What the functions return.                                              *)
(***************************************************************************)
Matches(text, call, a) == \A i \in DOMAIN call.s2 : text[a + i - 1] = call.s2[i]
Occurrences(text, call) ==
  {a \in call.s .. call.s + call.count - Len(call.s2) : Matches(text, call, a)}

\* r answers the call of a client on the memory text, which is m afterwards.
Right(text, call, r, m) ==
  /\ call.fn = "strnchr" => r = FirstOf({a \in Searched(call) : text[a] = call.sought})
  /\ call.fn = "strnstr" => r = FirstOf(Occurrences(text, call))
  /\ call.fn = "end_of_quoted_string" =>
       IF call.escape # quote THEN r = FirstOf(UnescapedQuotes(text, call))
       ELSE Cut(text, call) \/ r = FirstOf(OddRunEnds(text, call))
  /\ call.fn = "strncpy_with_modifier" =>
       r = call.dest /\ (Untouched(text, call) => m = Final(text, call))

Answered == pc = "idle" /\ asked # Nothing => Right(before, asked, result, mem)

\* Only a copy changes the memory while it runs. The characters a client
\* hands over are inside of the memory.
History ==
  /\ before \in [Address -> Char \cup {NUL}]
  /\ asked # Nothing =>
       /\ before[Size] = NUL
       /\ asked.fn # "strncpy_with_modifier" =>
            mem = before /\ asked.s + asked.count <= Size + 1
       /\ asked.fn = "strncpy_with_modifier" => asked.dest + asked.count <= Size + 1

\* What the loops have left behind has been looked at, and is not the answer.
Scanned ==
  pc = "strnchr" /\ asked.fn = "strnchr" =>
    /\ end = asked.s + asked.count /\ p \in asked.s .. end - 1
    /\ \A a \in asked.s .. p - 1 : before[a] # asked.sought

Compared ==
  pc = "strnstr" =>
    /\ s \in Nat /\ asked.s <= s /\ s + count = asked.s + asked.count
    /\ \A a \in asked.s .. s - 1 : ~Matches(before, asked, a)

\* Without a run that is cut off, count does not wrap.
Passed ==
  /\ count = asked.s + asked.count - s
  /\ Clean(before, asked, s, IF pc = "search" THEN s ELSE p)
  /\ asked.escape # quote => PassedEscapes(before, asked, s)
  /\ asked.escape = quote => PassedPairs(before, asked, s)
  /\ pc = "strnchr" => end = asked.s + asked.count /\ p < end
  /\ pc = "quote" => Spot(before, asked, s, p)

Quoted ==
  pc # "idle" /\ asked.fn = "end_of_quoted_string" =>
    (asked.escape = quote /\ Cut(before, asked)) \/ Passed

Copied ==
  pc = "copy" =>
    \E k \in 0 .. asked.count :
      /\ s = asked.s + k /\ dest = asked.dest + k /\ count = asked.count - k
      /\ Untouched(before, asked) => k <= Length(before, asked) /\ mem = Part(before, asked, k)

AInv == History /\ Answered /\ Scanned /\ Compared /\ Quoted /\ Copied
-----------------------------------------------------------------------------
LEMMA InitAInv == Init => AInv
<1> SUFFICES ASSUME Init PROVE AInv
  OBVIOUS
<1>1. mem \in [Address -> Char \cup {NUL}] /\ asked = Nothing /\ pc = "idle" /\ before = mem
  BY DEF Init
<1> QED
  BY <1>1 DEF AInv, History, Answered, Scanned, Compared, Quoted, Copied

\* What holds of the call that is running.
LEMMA CallFacts ==
  ASSUME IInv, AInv, pc # "idle"
  PROVE  /\ Size \in Nat \ {0} /\ SIZE_MAX \in Nat /\ Size < SIZE_MAX /\ Size \in Address
         /\ asked \in Calls /\ asked # Nothing
         /\ asked.s \in Nat \ {0} /\ asked.s <= Size /\ asked.count \in Nat
         /\ asked.fn = "end_of_quoted_string" => asked.sought = quote
         /\ before \in [Address -> Char \cup {NUL}] /\ before[Size] = NUL /\ quote # NUL
         /\ asked.fn # "strncpy_with_modifier" =>
              mem = before /\ asked.s + asked.count <= Size + 1
<1>1. Size \in Nat \ {0} /\ SIZE_MAX \in Nat /\ Size < SIZE_MAX /\ Size \in Address
  BY Facts
<1>2. asked \in Calls /\ asked # Nothing
  BY Facts
<1>3. asked.s \in Address /\ asked.count \in Nat
  BY <1>2 DEF Calls
<1>4. asked.fn = "end_of_quoted_string" => asked.sought = quote
  BY <1>2 DEF Calls
<1> QED
  BY <1>1, <1>2, <1>3, <1>4, Facts DEF AInv, History, Address

\* A call that returns answers; then it is only remembered.
LEMMA Answer ==
  ASSUME AInv, pc # "idle", pc' = "idle", UNCHANGED <<asked, before>>,
         asked.fn = "strncpy_with_modifier" \/ mem' = mem,
         Right(before, asked, result', mem')
  PROVE  AInv'
<1>1. History'
  BY DEF AInv, History
<1>2. Answered'
  BY DEF Answered
<1> QED
  BY <1>1, <1>2 DEF AInv, Scanned, Compared, Quoted, Copied

LEMMA GoesOn ==
  ASSUME AInv, pc' # "idle", UNCHANGED <<asked, before>>,
         asked.fn = "strncpy_with_modifier" \/ mem' = mem
  PROVE  History' /\ Answered'
BY DEF AInv, History, Answered
-----------------------------------------------------------------------------
\* The scanners of quoted strings.
LEMMA QuotedFacts ==
  ASSUME IInv, AInv, pc # "idle", asked.fn = "end_of_quoted_string"
  PROVE  /\ (asked.escape = quote /\ Cut(before, asked)) \/ Passed
         /\ mem = before /\ asked.sought = quote
BY CallFacts DEF AInv, Quoted

LEMMA QuotedOn ==
  ASSUME IInv, AInv, pc # "idle", asked.fn = "end_of_quoted_string",
         pc' \in {"search", "quote", "strnchr"}, UNCHANGED <<asked, before, mem>>,
         Passed => (asked.escape = quote /\ Cut(before, asked)) \/ Passed'
  PROVE  AInv'
<1>1. History' /\ Answered'
  BY GoesOn
<1>2. Quoted'
  BY QuotedFacts DEF Quoted
<1> QED
  BY <1>1, <1>2 DEF AInv, Scanned, Compared, Copied

LEMMA QuotedReturns ==
  ASSUME IInv, AInv, pc # "idle", asked.fn = "end_of_quoted_string", pc' = "idle",
         UNCHANGED <<asked, before, mem>>,
         Passed /\ asked.escape # quote => result' = FirstOf(UnescapedQuotes(before, asked)),
         Passed /\ asked.escape = quote =>
           Cut(before, asked) \/ result' = FirstOf(OddRunEnds(before, asked))
  PROVE  AInv'
<1>1. Right(before, asked, result', mem')
  BY QuotedFacts DEF Right
<1> QED BY <1>1, Answer

\* No quote is left up to the end.
LEMMA QuotedNone ==
  ASSUME IInv, AInv, pc # "idle", asked.fn = "end_of_quoted_string", Return(NULL),
         UNCHANGED <<asked, before, mem>>,
         Passed => Clean(before, asked, s, asked.s + asked.count)
  PROVE  AInv'
<1>1. pc' = "idle" /\ result' = NULL
  BY DEF Return
<1>2. ASSUME Passed, asked.escape # quote
      PROVE  FirstOf(UnescapedQuotes(before, asked)) = NULL
  BY <1>2, EscapedNone DEF Passed
<1>3. ASSUME Passed, asked.escape = quote
      PROVE  FirstOf(OddRunEnds(before, asked)) = NULL
  BY <1>3, DoubledNone DEF Passed
<1> QED BY <1>1, <1>2, <1>3, QuotedReturns
-----------------------------------------------------------------------------
LEMMA ScanFoundAInv ==
  ASSUME IInv, AInv, ScanFound
  PROVE  AInv'
<1> USE DEF ScanFound
<1>1. CASE asked.fn = "strnchr"
  <2>1. pc' = "idle" /\ result' = p /\ mem = before /\ before[p] = asked.sought
    BY <1>1, CallFacts DEF Return
  <2> DEFINE T == {a \in Searched(asked) : before[a] = asked.sought}
  <2>2. /\ end = asked.s + asked.count /\ p \in asked.s .. end - 1
        /\ \A a \in asked.s .. p - 1 : before[a] # asked.sought
    BY <1>1 DEF AInv, Scanned
  <2>3. T \subseteq Int /\ p \in T /\ \A a \in T : p <= a
    BY <2>1, <2>2, CallFacts DEF Searched
  <2> HIDE DEF T
  <2>4. FirstOf(T) = p
    BY <2>3, FirstIs
  <2>5. Right(before, asked, result', mem')
    BY <1>1, <2>1, <2>4 DEF Right, T
  <2> QED BY <2>1, <2>5, Answer
<1>2. CASE asked.fn # "strnchr"
  <2>1. pc' = "quote" /\ asked.fn = "end_of_quoted_string" /\ pc = "strnchr"
    BY <1>2 DEF IInv, Loops
  <2>2. Passed => Passed'
    BY <2>1, QuotedFacts DEF Passed, Spot, locals
  <2> QED BY <2>1, <2>2, QuotedOn
<1> QED BY <1>1, <1>2

LEMMA ScanOnAInv ==
  ASSUME IInv, AInv, ScanOn
  PROVE  AInv'
<1> USE DEF ScanOn
<1>1. CASE asked.fn = "strnchr"
  <2>1. History' /\ Answered'
    BY GoesOn
  <2>2. /\ end = asked.s + asked.count /\ p \in asked.s .. end - 1
        /\ \A a \in asked.s .. p - 1 : before[a] # asked.sought
        /\ before[p] # asked.sought
    BY <1>1, CallFacts DEF AInv, Scanned
  <2>3. p + 1 \in asked.s .. end - 1 /\ \A a \in asked.s .. p + 1 - 1 : before[a] # asked.sought
    BY <2>2, CallFacts
  <2>4. Scanned'
    BY <2>2, <2>3 DEF Scanned
  <2> QED BY <1>1, <2>1, <2>4 DEF AInv, Compared, Quoted, Copied
<1>2. CASE asked.fn # "strnchr"
  <2>1. asked.fn = "end_of_quoted_string" /\ pc = "strnchr" /\ mem = before /\ asked.sought = quote
    BY <1>2, QuotedFacts DEF IInv, Loops
  <2>2. ASSUME Passed PROVE Passed'
    <3>1. Clean(before, asked, s, p) /\ end = asked.s + asked.count
      BY <2>1, <2>2 DEF Passed
    <3>2. Clean(before, asked, s, p + 1)
      BY <2>1, <3>1, CallFacts DEF Clean
    <3> QED BY <2>1, <2>2, <3>2 DEF Passed
  <2> QED BY <2>1, <2>2, QuotedOn
<1> QED BY <1>1, <1>2

LEMMA ScanEndsAInv ==
  ASSUME IInv, AInv, ScanEnds
  PROVE  AInv'
<1> USE DEF ScanEnds
<1>1. CASE asked.fn = "strnchr"
  <2>1. pc' = "idle" /\ result' = NULL /\ mem = before /\ before[p] # asked.sought
    BY <1>1, CallFacts DEF Return
  <2>2. /\ end = asked.s + asked.count /\ p \in asked.s .. end - 1
        /\ \A a \in asked.s .. p - 1 : before[a] # asked.sought
    BY <1>1 DEF AInv, Scanned
  <2>3. {a \in Searched(asked) : before[a] = asked.sought} = {}
    BY <2>1, <2>2, CallFacts DEF Searched
  <2>4. Right(before, asked, result', mem')
    BY <1>1, <2>1, <2>3, FirstNone DEF Right
  <2> QED BY <2>1, <2>4, Answer
<1>2. CASE asked.fn # "strnchr"
  <2>1. asked.fn = "end_of_quoted_string" /\ pc = "strnchr" /\ mem = before /\ asked.sought = quote
    BY <1>2, QuotedFacts DEF IInv, Loops
  <2>2. ASSUME Passed PROVE Clean(before, asked, s, asked.s + asked.count)
    <3>1. Clean(before, asked, s, p) /\ end = asked.s + asked.count /\ p < end
      BY <2>1, <2>2 DEF Passed
    <3>2. p + 1 = asked.s + asked.count
      BY <3>1, CallFacts DEF Clean
    <3> QED BY <2>1, <3>1, <3>2 DEF Clean
  <2> QED BY <2>1, <2>2, QuotedNone
<1> QED BY <1>1, <1>2

LEMMA SearchAInv ==
  ASSUME IInv, AInv, Search
  PROVE  AInv'
<1> USE DEF Search
<1>1. asked.fn = "end_of_quoted_string" /\ pc = "search"
  BY DEF IInv, Loops
<1>2. ASSUME Passed
      PROVE  /\ Clean(before, asked, s, s) /\ count = asked.s + asked.count - s
             /\ s \in Nat /\ count \in Nat
  <2>1. Clean(before, asked, s, s) /\ count = asked.s + asked.count - s
    BY <1>1, <1>2 DEF Passed
  <2> QED BY <2>1, CallFacts DEF Clean
<1>3. CASE count = 0
  <2>1. ASSUME Passed PROVE Clean(before, asked, s, asked.s + asked.count)
    <3>1. s = asked.s + asked.count
      BY <1>2, <1>3, <2>1, CallFacts
    <3> QED BY <1>2, <2>1, <3>1
  <2> QED BY <1>1, <1>3, <2>1, QuotedNone
<1>4. CASE count # 0
  <2>1. /\ pc' = "strnchr" /\ p' = s /\ end' = Wrap(s + count)
        /\ UNCHANGED <<mem, asked, before, s, count>>
    BY <1>4 DEF Scan
  <2>2. ASSUME Passed PROVE Passed'
    <3>1. s + count = asked.s + asked.count /\ s + count \in 0 .. SIZE_MAX /\ s < s + count
      BY <1>1, <1>2, <1>4, <2>2, CallFacts
    <3>2. end' = asked.s + asked.count /\ p' < end'
      BY <2>1, <3>1, Wraps
    <3> QED BY <1>1, <1>2, <2>1, <2>2, <3>2 DEF Passed
  <2> QED BY <1>1, <2>1, <2>2, QuotedOn
<1> QED BY <1>3, <1>4

\* Going on behind the quote at p, but not behind the end.
LEMMA SearchBehindPassed ==
  ASSUME IInv, AInv, pc = "quote", NEW n \in {1, 2}, SearchBehind(n),
         UNCHANGED <<asked, before>>, Passed,
         p + n <= asked.s + asked.count,
         asked.escape # quote => PassedEscapes(before, asked, p + n),
         asked.escape = quote => PassedPairs(before, asked, p + n)
  PROVE  Passed'
<1>1. pc' = "search" /\ s' = p + n /\ count' = Wrap(count - (p + n - s))
  BY DEF SearchBehind
<1>2. asked.fn = "end_of_quoted_string"
  BY DEF IInv, Loops
<1>3. Spot(before, asked, s, p) /\ count = asked.s + asked.count - s
  BY DEF Passed
<1>4. /\ s \in Nat /\ p \in Nat /\ asked.s \in Nat /\ asked.count \in Nat /\ asked.s <= s /\ s <= p
      /\ asked.s + asked.count <= Size + 1 /\ Size \in Nat /\ SIZE_MAX \in Nat /\ Size < SIZE_MAX
      /\ asked.s \in Nat \ {0}
  BY <1>2, <1>3, CallFacts DEF Spot, Clean
<1>5. count' = asked.s + asked.count - s'
  <2>1. PICK v : v = count - (p + n - s)
    OBVIOUS
  <2>2. v = asked.s + asked.count - (p + n) /\ v \in 0 .. SIZE_MAX
    BY <1>3, <1>4, <2>1
  <2> QED BY <1>1, <2>1, <2>2, Wraps
<1>6. Clean(before, asked, s', s')
  <2>1. PICK q : q = p + n
    OBVIOUS
  <2>2. q \in asked.s .. asked.s + asked.count /\ q \in Nat /\ q .. q - 1 = {}
    BY <1>4, <2>1
  <2>3. Clean(before, asked, q, q)
    BY <1>4, <2>2 DEF Clean
  <2> QED BY <1>1, <2>1, <2>3
<1> QED BY <1>1, <1>5, <1>6 DEF Passed

LEMMA DoubledAInv ==
  ASSUME IInv, AInv, Doubled
  PROVE  AInv'
<1> USE DEF Doubled
<1>1. asked.fn = "end_of_quoted_string" /\ pc = "quote" /\ mem = before /\ asked.escape = quote
  BY QuotedFacts DEF IInv, Loops
<1>2. ASSUME Passed
      PROVE  /\ Spot(before, asked, s, p) /\ PassedPairs(before, asked, s)
             /\ count = asked.s + asked.count - s
             /\ s \in Nat /\ p \in Nat /\ s <= p /\ p < asked.s + asked.count
             /\ asked.s \in Nat /\ asked.count \in Nat /\ before[p] = quote
  BY <1>1, <1>2, CallFacts DEF Passed, Spot, Clean
<1>3. CASE count = 1 \/ mem[p + 1] # quote
  <2>1. pc' = "idle" /\ result' = p
    BY <1>3 DEF Return
  <2>2. ASSUME Passed PROVE FirstOf(OddRunEnds(before, asked)) = p
    <3>1. RightEnd(before, asked, p)
      <4>1. count = 1 => p + 1 \notin Searched(asked)
        BY <1>2, <2>2 DEF Searched
      <4> QED BY <1>1, <1>3, <4>1 DEF RightEnd
    <3> QED BY <1>2, <2>2, <3>1, DoubledFound
  <2> QED BY <1>1, <2>1, <2>2, QuotedReturns
<1>4. CASE ~(count = 1 \/ mem[p + 1] # quote)
  <2>1. SearchBehind(2) /\ before[p + 1] = quote
    BY <1>1, <1>4
  <2>2. ASSUME Passed PROVE Cut(before, asked) \/ Passed'
    <3>1. CASE p + 2 <= asked.s + asked.count
      <4>1. PassedPairs(before, asked, p + 2)
        BY <1>2, <2>1, <2>2, <3>1, DoubledOn
      <4> QED BY <1>1, <2>1, <2>2, <3>1, <4>1, SearchBehindPassed
    <3>2. CASE ~(p + 2 <= asked.s + asked.count)
      <4>1. p + 1 = asked.s + asked.count /\ s < p
        BY <1>2, <1>4, <2>2, <3>2
      <4>2. p < Size
        BY <1>1, <1>2, <2>2, <4>1, CallFacts
      <4> QED BY <1>2, <2>1, <2>2, <4>1, <4>2, RunIsCut
    <3> QED BY <3>1, <3>2
  <2>3. pc' = "search"
    BY <2>1 DEF SearchBehind
  <2> QED BY <1>1, <2>2, <2>3, QuotedOn
<1> QED BY <1>3, <1>4

LEMMA EscapedAInv ==
  ASSUME IInv, AInv, Escaped
  PROVE  AInv'
<1> USE DEF Escaped
<1>1. asked.fn = "end_of_quoted_string" /\ pc = "quote" /\ mem = before /\ asked.escape # quote
  BY QuotedFacts DEF IInv, Loops
<1>2. Passed
  BY <1>1, QuotedFacts
<1>3. /\ Spot(before, asked, s, p) /\ PassedEscapes(before, asked, s)
      /\ p \in Nat /\ p < asked.s + asked.count /\ p \in Searched(asked)
  BY <1>1, <1>2, CallFacts DEF Passed, Spot, Clean, Searched
<1>4. npreceding_escape \in Nat /\ (p \notin Unescaped(before, asked) <=> npreceding_escape % 2 = 1)
  <2>1. npreceding_escape = Max({n \in 0 .. p - s : \A i \in 1 .. n : before[p - i] = asked.escape})
    BY <1>1 DEF npreceding_escape
  <2> QED BY <1>3, <2>1, PrecedingEscapes
<1>5. CASE npreceding_escape % 2 = 0 /\ Return(p)
  <2>1. pc' = "idle" /\ result' = p
    BY <1>5 DEF Return
  <2>2. p \in Unescaped(before, asked)
    BY <1>4, <1>5
  <2>3. FirstOf(UnescapedQuotes(before, asked)) = p
    BY <1>3, <2>2, EscapedFound
  <2> QED BY <1>1, <2>1, <2>3, QuotedReturns
<1>6. CASE npreceding_escape % 2 = 1 /\ SearchBehind(1)
  <2>1. PassedEscapes(before, asked, p + 1)
    BY <1>1, <1>3, <1>4, <1>6, EscapedOn
  <2>2. p + 1 <= asked.s + asked.count
    BY <1>1, <1>3, CallFacts
  <2>3. Passed'
    BY <1>1, <1>2, <1>6, <2>1, <2>2, SearchBehindPassed
  <2>4. pc' = "search"
    BY <1>6 DEF SearchBehind
  <2> QED BY <1>1, <2>3, <2>4, QuotedOn
<1> QED BY <1>5, <1>6
-----------------------------------------------------------------------------
\* Up to the first difference, and beyond when there is none.
LEMMA ComparedAll ==
  ASSUME IInv, pc = "strnstr"
  PROVE  (\A i \in compared : mem[s + i - 1] = asked.s2[i]) <=> Matches(mem, asked, s)
<1>1. asked \in Calls /\ asked.fn = "strnstr"
  BY Facts DEF IInv, Loops
<1>2. asked.s2 \in Seq(Char)
  BY <1>1, StringAssumption DEF Calls
<1>3. DOMAIN asked.s2 \subseteq Nat
  BY <1>2
<1>4. ASSUME NEW i0 \in DOMAIN asked.s2, mem[s + i0 - 1] # asked.s2[i0]
      PROVE  \E i \in compared : mem[s + i - 1] # asked.s2[i]
  <2> DEFINE T == {i \in DOMAIN asked.s2 : mem[s + i - 1] # asked.s2[i]}
  <2>1. T \subseteq Nat /\ i0 \in T
    BY <1>3, <1>4
  <2>2. PICK i \in T : \A j \in T : i <= j
    <3> HIDE DEF T
    <3> QED BY <2>1, LeastNatural
  <2>3. i \in DOMAIN asked.s2 /\ mem[s + i - 1] # asked.s2[i] /\ i \in Nat
    BY <2>1
  <2>4. ASSUME NEW j \in 1 .. i - 1 PROVE mem[s + j - 1] = asked.s2[j]
    <3>1. j \in DOMAIN asked.s2 /\ ~(i <= j)
      BY <1>2, <2>3
    <3> QED BY <2>2, <3>1
  <2>5. i \in compared
    BY <2>3, <2>4 DEF compared
  <2> QED BY <2>3, <2>5
<1>5. compared \subseteq DOMAIN asked.s2
  BY DEF compared
<1> QED BY <1>4, <1>5 DEF Matches

LEMMA CompareAInv ==
  ASSUME IInv, AInv, Compare
  PROVE  AInv'
<1> USE DEF Compare
<1>1. /\ asked.fn = "strnstr" /\ asked \in Calls /\ mem = before
      /\ asked.s \in Nat /\ asked.count \in Nat
  BY CallFacts DEF IInv, Loops
<1>2. Len(asked.s2) \in Nat
  BY <1>1, StringAssumption DEF Calls
<1>3. /\ s \in Nat /\ asked.s <= s /\ s + count = asked.s + asked.count /\ count \in Nat
      /\ \A a \in asked.s .. s - 1 : ~Matches(before, asked, a)
  BY DEF AInv, Compared, IInv, Comparing
<1>4. PICK last : last = asked.s + asked.count - Len(asked.s2)
  OBVIOUS
<1>5. last \in Int /\ (count < Len(asked.s2) <=> last < s)
  BY <1>1, <1>2, <1>3, <1>4
<1>6. Occurrences(before, asked) = {a \in asked.s .. last : Matches(before, asked, a)}
  BY <1>4 DEF Occurrences
<1>7. CASE count < Len(asked.s2) /\ Return(NULL)
  <2>1. Occurrences(before, asked) = {}
    BY <1>1, <1>3, <1>5, <1>6, <1>7
  <2>2. Right(before, asked, result', mem')
    BY <1>1, <1>7, <2>1, FirstNone DEF Right, Return
  <2> QED BY <1>7, <2>2, Answer DEF Return
<1>8. CASE count >= Len(asked.s2) /\ Matches(mem, asked, s) /\ Return(s)
  <2>1. s \in Occurrences(before, asked)
    BY <1>1, <1>2, <1>3, <1>5, <1>6, <1>8
  <2>2. Occurrences(before, asked) \subseteq Int /\ \A a \in Occurrences(before, asked) : s <= a
    BY <1>1, <1>3, <1>5, <1>6
  <2>3. FirstOf(Occurrences(before, asked)) = s
    BY <2>1, <2>2, FirstIs
  <2>4. Right(before, asked, result', mem')
    BY <1>1, <1>8, <2>3 DEF Right, Return
  <2> QED BY <1>8, <2>4, Answer DEF Return
<1>9. CASE /\ count >= Len(asked.s2) /\ ~Matches(mem, asked, s)
           /\ s' = s + 1 /\ count' = count - 1 /\ UNCHANGED pc
  <2>1. \A a \in asked.s .. s' - 1 : ~Matches(before, asked, a)
    BY <1>1, <1>3, <1>9
  <2>2. s' \in Nat /\ asked.s <= s' /\ s' + count' = asked.s + asked.count
    BY <1>1, <1>3, <1>9
  <2>3. Compared'
    <3>1. UNCHANGED <<asked, before>>
      OBVIOUS
    <3> HIDE DEF Compare
    <3> QED BY <2>1, <2>2, <3>1 DEF Compared
  <2>4. History' /\ Answered'
    BY <1>9, GoesOn
  <2> QED BY <1>1, <1>9, <2>3, <2>4 DEF AInv, Scanned, Quoted, Copied
<1> QED BY <1>2, <1>3, <1>7, <1>8, <1>9, ComparedAll
-----------------------------------------------------------------------------
\* Where a copy is.
LEMMA CopyFacts ==
  ASSUME IInv, AInv, pc = "copy"
  PROVE  /\ asked.fn = "strncpy_with_modifier" /\ Copy(before, asked)
         /\ \E k \in 0 .. asked.count :
              /\ s = asked.s + k /\ dest = asked.dest + k /\ count = asked.count - k
              /\ Untouched(before, asked) =>
                   k <= Length(before, asked) /\ mem = Part(before, asked, k)
<1>1. asked.fn = "strncpy_with_modifier" /\ asked \in Calls
  BY Facts DEF IInv, Loops
<1>2. asked.s \in Address /\ asked.dest \in Address /\ asked.count \in Nat
  BY <1>1 DEF Calls
<1>3. Copy(before, asked)
  BY <1>1, <1>2, CallFacts DEF Copy, AInv, History
<1> QED BY <1>1, <1>3 DEF AInv, Copied

LEMMA CopyCharacterAInv ==
  ASSUME IInv, AInv, CopyCharacter
  PROVE  AInv'
<1> USE DEF CopyCharacter
<1>1. asked.fn = "strncpy_with_modifier" /\ Copy(before, asked)
  BY CopyFacts
<1>2. PICK k \in 0 .. asked.count :
        /\ s = asked.s + k /\ dest = asked.dest + k /\ count = asked.count - k
        /\ Untouched(before, asked) => k <= Length(before, asked) /\ mem = Part(before, asked, k)
  BY CopyFacts
<1>3. /\ asked.s \in Nat /\ asked.dest \in Nat /\ asked.count \in Nat
      /\ k \in Nat /\ k < asked.count
  <2>1. asked.s \in Nat /\ asked.dest \in Nat /\ asked.count \in Nat
    BY <1>1 DEF Copy, Address
  <2> QED BY <1>2, <2>1
<1>4. /\ k + 1 \in 0 .. asked.count
      /\ s' = asked.s + (k + 1) /\ dest' = asked.dest + (k + 1) /\ count' = asked.count - (k + 1)
  BY <1>2, <1>3
<1>5. ASSUME Untouched(before, asked)
      PROVE  k + 1 <= Length(before, asked) /\ mem' = Part(before, asked, k + 1)
  <2>1. k <= Length(before, asked) /\ mem = Part(before, asked, k)
    BY <1>2, <1>5
  <2>2. mem[asked.s + k] # NUL /\ Length(before, asked) \in Nat
    BY <1>1, <1>2, LengthIs
  <2>3. k # Length(before, asked)
    BY <1>1, <1>3, <1>5, <2>1, <2>2, CopyReads
  <2>4. k < Length(before, asked)
    BY <1>3, <2>1, <2>2, <2>3
  <2>5. [mem EXCEPT ![asked.dest + k] = modifier[mem[asked.s + k]]] = Part(before, asked, k + 1)
    BY <1>1, <1>3, <1>5, <2>1, <2>4, CopyGoesOn
  <2> QED BY <1>2, <1>3, <2>2, <2>4, <2>5
<1>6. Copied'
  BY <1>4, <1>5 DEF Copied
<1>7. History' /\ Answered'
  BY <1>1, GoesOn
<1> QED BY <1>1, <1>6, <1>7 DEF AInv, Scanned, Compared, Quoted

LEMMA CopyEndsAInv ==
  ASSUME IInv, AInv, CopyEnds
  PROVE  AInv'
<1> USE DEF CopyEnds
<1>1. asked.fn = "strncpy_with_modifier" /\ Copy(before, asked)
  BY CopyFacts
<1>2. PICK k \in 0 .. asked.count :
        /\ s = asked.s + k /\ dest = asked.dest + k /\ count = asked.count - k
        /\ Untouched(before, asked) => k <= Length(before, asked) /\ mem = Part(before, asked, k)
  BY CopyFacts
<1>3. asked.count \in Nat /\ k \in Nat
  BY <1>1, <1>2 DEF Copy
<1>4. ASSUME Untouched(before, asked) PROVE mem' = Final(before, asked)
  <2>1. k <= Length(before, asked) /\ mem = Part(before, asked, k)
    BY <1>2, <1>4
  <2>2. CASE count = 0 /\ UNCHANGED mem
    <3>1. k = asked.count
      BY <1>2, <1>3, <2>2
    <3> QED BY <1>1, <2>1, <2>2, <3>1, CopyFull
  <2>3. CASE count > 0 /\ mem[s] = NUL /\ mem' = [mem EXCEPT ![dest] = NUL]
    <3>1. k < asked.count
      BY <1>2, <1>3, <2>3
    <3>2. k = Length(before, asked)
      BY <1>1, <1>2, <1>3, <1>4, <2>1, <2>3, <3>1, CopyReads
    <3> QED BY <1>1, <1>2, <2>1, <2>3, <3>1, <3>2, CopyTerminated
  <2> QED BY <2>2, <2>3
<1>5. pc' = "idle" /\ result' = asked.dest
  BY DEF Return
<1>6. Right(before, asked, result', mem')
  BY <1>1, <1>4, <1>5 DEF Right
<1> QED BY <1>1, <1>5, <1>6, Answer
-----------------------------------------------------------------------------
\* What a client hands over is inside of the memory as it finds it.
LEMMA AskHistory ==
  ASSUME IInv, NEW call \in Calls, Ask(call),
         call.fn # "strncpy_with_modifier" => call.s + call.count <= Size + 1,
         call.fn = "strncpy_with_modifier" => call.dest + call.count <= Size + 1
  PROVE  /\ History' /\ before' = mem
         /\ before' \in [Address -> Char \cup {NUL}] /\ before'[Size] = NUL
<1>1. /\ asked' = call /\ mem' = mem /\ before' = mem
      /\ mem \in [Address -> Char \cup {NUL}] /\ mem[Size] = NUL
  BY AskCalls DEF Ask
<1> QED BY <1>1 DEF History

LEMMA strnchrAInv ==
  ASSUME IInv, AInv, NEW from \in Address, NEW n \in 0 .. Size + 1 - from,
         NEW c \in Char \cup {NUL}, strnchr(from, n, c)
  PROVE  AInv'
<1> DEFINE new == [fn |-> "strnchr", s |-> from, count |-> n, sought |-> c]
<1>1. Size \in Nat /\ from \in Nat /\ n \in Nat /\ from + n <= Size + 1
  BY StringAssumption DEF Address
<1>2. new \in Calls /\ Ask(new)
  BY <1>1 DEF strnchr, Calls
<1>3. new.fn = "strnchr" /\ new.s = from /\ new.count = n
  OBVIOUS
<1> HIDE DEF new
<1>4. History' /\ asked' = new
  BY <1>1, <1>2, <1>3, AskHistory, AskCalls
<1>5. CASE n = 0
  <2>1. pc' = "idle" /\ result' = NULL
    BY <1>5 DEF strnchr, Return
  <2>2. Searched(new) = {}
    BY <1>1, <1>3, <1>5 DEF Searched
  <2>3. {a \in Searched(new) : before'[a] = new.sought} = {}
    BY <2>2
  <2>4. Right(before', new, NULL, mem')
    BY <1>3, <2>3, FirstNone DEF Right
  <2>5. Answered'
    BY <1>4, <2>1, <2>4 DEF Answered
  <2> QED BY <1>4, <2>1, <2>5 DEF AInv, Scanned, Compared, Quoted, Copied
<1>6. CASE n # 0
  <2>1. pc' = "strnchr" /\ p' = from /\ end' = Wrap(from + n)
    BY <1>6 DEF strnchr, Scan
  <2>2. end' = from + n /\ p' \in from .. end' - 1
    BY <1>1, <1>6, <2>1, ScanInside
  <2>3. from .. p' - 1 = {}
    BY <1>1, <2>1
  <2>4. asked'.s = from /\ asked'.count = n
    BY <1>3, <1>4
  <2>5. /\ end' = asked'.s + asked'.count /\ p' \in asked'.s .. end' - 1
        /\ asked'.s .. p' - 1 = {}
    BY <2>2, <2>3, <2>4
  <2>6. Scanned'
    BY <2>5 DEF Scanned
  <2> QED BY <1>3, <1>4, <2>1, <2>6 DEF AInv, Answered, Compared, Quoted, Copied
<1> QED BY <1>5, <1>6

LEMMA QuotedAInv ==
  ASSUME IInv, AInv, NEW from \in Address, NEW n \in 0 .. Size + 1 - from, NEW escape \in Escape,
         end_of_quoted_string(from, n, escape)
  PROVE  AInv'
<1> DEFINE new == [fn |-> "end_of_quoted_string", s |-> from, count |-> n,
                   sought |-> quote, escape |-> escape]
<1>1. Size \in Nat /\ from \in Nat \ {0} /\ n \in Nat /\ from + n <= Size + 1
  BY StringAssumption DEF Address
<1>2. new \in Calls /\ Ask(new)
  BY <1>1 DEF end_of_quoted_string, Calls
<1>3. new.fn = "end_of_quoted_string" /\ new.s = from /\ new.count = n
  OBVIOUS
<1> HIDE DEF new
<1>4. History' /\ asked' = new /\ s' = from /\ count' = n
  BY <1>1, <1>2, <1>3, AskHistory, AskCalls
<1>5. pc' = "search"
  BY DEF end_of_quoted_string
<1>6. PassedEscapes(before', new, from) /\ PassedPairs(before', new, from)
  BY <1>1, <1>3, EscapesStart, PairsStart
<1>7. Clean(before', new, from, from)
  <2>1. from .. from - 1 = {} /\ from \in from .. from + n
    BY <1>1
  <2> QED BY <1>1, <1>3, <2>1 DEF Clean
<1>8. Passed'
  <2>1. n = from + n - from
    BY <1>1
  <2> QED BY <1>3, <1>4, <1>5, <1>6, <1>7, <2>1 DEF Passed
<1> QED BY <1>3, <1>4, <1>5, <1>8 DEF AInv, Answered, Scanned, Compared, Quoted, Copied

LEMMA strnstrAInv ==
  ASSUME IInv, AInv, NEW from \in Address, NEW n \in 0 .. Size + 1 - from, NEW needle \in Needles,
         strnstr(from, n, needle)
  PROVE  AInv'
<1> DEFINE new == [fn |-> "strnstr", s |-> from, count |-> n, s2 |-> needle]
<1>1. Size \in Nat /\ from \in Nat \ {0} /\ n \in Nat /\ from + n <= Size + 1
  BY StringAssumption DEF Address
<1>2. new \in Calls /\ Ask(new)
  BY <1>1 DEF strnstr, Calls
<1>3. new.fn = "strnstr" /\ new.s = from /\ new.count = n
  OBVIOUS
<1> HIDE DEF new
<1>4. History' /\ asked' = new /\ s' = from /\ count' = n
  BY <1>1, <1>2, <1>3, AskHistory, AskCalls
<1>5. pc' = "strnstr"
  BY DEF strnstr
<1>6. Compared'
  <2>1. from .. from - 1 = {}
    BY <1>1
  <2> QED BY <1>1, <1>3, <1>4, <2>1 DEF Compared
<1> QED BY <1>3, <1>4, <1>5, <1>6 DEF AInv, Answered, Scanned, Quoted, Copied

LEMMA CopyAInv ==
  ASSUME IInv, AInv, NEW to \in Address, NEW n \in 0 .. Size + 1 - to, NEW src \in Address,
         strncpy_with_modifier(to, src, n)
  PROVE  AInv'
<1> DEFINE new == [fn |-> "strncpy_with_modifier", s |-> src, count |-> n, dest |-> to]
<1>1. Size \in Nat /\ to \in Nat \ {0} /\ src \in Nat \ {0} /\ n \in Nat /\ to + n <= Size + 1
  BY StringAssumption DEF Address
<1>2. new \in Calls /\ Ask(new)
  BY <1>1 DEF strncpy_with_modifier, Calls
<1>3. new.fn = "strncpy_with_modifier" /\ new.s = src /\ new.count = n /\ new.dest = to
  OBVIOUS
<1> HIDE DEF new
<1>4. History' /\ asked' = new /\ s' = src /\ count' = n /\ mem' = before'
  BY <1>1, <1>2, <1>3, AskHistory, AskCalls
<1>5. pc' = "copy" /\ dest' = to
  BY DEF strncpy_with_modifier
<1>6. Copy(before', new)
  BY <1>1, <1>2, <1>3, AskHistory DEF Copy
<1>7. Part(before', new, 0) = mem' /\ 0 <= Length(before', new)
  BY <1>4, <1>6, CopyStarts
<1>8. Copied'
  <2>1. 0 \in 0 .. n /\ src = src + 0 /\ to = to + 0 /\ n = n - 0
    BY <1>1
  <2> QED BY <1>3, <1>4, <1>5, <1>7, <2>1 DEF Copied
<1> QED BY <1>3, <1>4, <1>5, <1>8 DEF AInv, Answered, Scanned, Compared, Quoted

LEMMA ForgetAInv ==
  ASSUME IInv, AInv, Forget
  PROVE  AInv'
<1>1. /\ asked' = Nothing /\ pc' = "idle" /\ before' = [mem EXCEPT ![Size] = NUL]
  BY DEF Forget
<1>2. before' \in [Address -> Char \cup {NUL}]
  BY <1>1, Facts
<1> QED
  BY <1>1, <1>2 DEF AInv, History, Answered, Scanned, Compared, Quoted, Copied

LEMMA NextAInv == IInv /\ AInv /\ [Next]_vars => AInv'
<1> SUFFICES ASSUME IInv, AInv, [Next]_vars PROVE AInv'
  OBVIOUS
<1>1. CASE UNCHANGED vars
  BY <1>1 DEF vars, locals, AInv, History, Answered, Scanned, Compared, Quoted, Passed, Copied
<1>2. CASE Client
  BY <1>2, strnchrAInv, QuotedAInv, strnstrAInv, CopyAInv DEF Client
<1>3. CASE Running
  BY <1>3, ScanFoundAInv, ScanOnAInv, ScanEndsAInv, SearchAInv, DoubledAInv, EscapedAInv,
     CompareAInv, CopyCharacterAInv, CopyEndsAInv DEF Running
<1>4. CASE Forget
  BY <1>4, ForgetAInv
<1> QED BY <1>1, <1>2, <1>3, <1>4 DEF Next

LEMMA AnswersAgree == IInv /\ AInv => ResultsRight
<1> SUFFICES ASSUME IInv, AInv, pc = "idle", asked # Nothing PROVE ResultsRight
  BY DEF ResultsRight
<1>1. asked \in Calls /\ Right(before, asked, result, mem)
  BY DEF IInv, TypeOK, AInv, Answered
<1>2. asked.fn # "strncpy_with_modifier" => mem = before
  BY DEF AInv, History
<1>3. asked.fn \in {"strnchr", "end_of_quoted_string", "strnstr", "strncpy_with_modifier"}
  BY <1>1 DEF Calls
<1>4. CASE asked.fn = "strnchr"
  BY <1>1, <1>2, <1>4 DEF ResultsRight, Right
<1>5. CASE asked.fn = "strnstr"
  BY <1>1, <1>2, <1>5 DEF ResultsRight, Right, Occurrences, Matches
<1>6. CASE asked.fn = "end_of_quoted_string"
  BY <1>1, <1>6, EscapedEndIs, DoubledEndIs, CutRunIs DEF ResultsRight, Right
<1>7. CASE asked.fn = "strncpy_with_modifier"
  BY <1>1, <1>7, CopyRightIs DEF ResultsRight, Right
<1> QED BY <1>3, <1>4, <1>5, <1>6, <1>7

\* Every function of jstring.c answers what jstring.h says, for every string
\* and every count: the first occurrence, the first quote that no escape and
\* no second quote makes part of the string, the modified copy.
THEOREM AnswersAreRight == Spec => []ResultsRight
<1>1. Spec => []AInv
  <2>1. Spec => []IInv
    BY SpecIInv
  <2> QED BY <2>1, InitAInv, NextAInv, PTL DEF Spec
<1> QED BY <1>1, SpecIInv, AnswersAgree, PTL
=============================================================================
