------------------------------- MODULE JString -------------------------------
(***************************************************************************)
(* The string functions of jstring.c, called by one client on one memory.  *)
(* A step is one round of a loop.                                          *)
(*                                                                         *)
(* A pointer is an index of the memory. Counts and addresses have the      *)
(* width of size_t and wrap: the pointer s + count, which is undefined in  *)
(* C when it leaves the object, is taken to wrap too.                      *)
(***************************************************************************)
EXTENDS Integers, Sequences, FiniteSetsExt

CONSTANTS
  Char,      \* characters but for the terminator
  NUL,
  quote,     \* the quote clients look for
  Escape,    \* what they escape it with, the quote itself or other characters
  Needles,   \* the strings they look for
  modifier,  \* the character_modifier they pass
  Size,      \* bytes of memory
  SIZE_MAX

ASSUME StringAssumption ==
  /\ NUL \notin Char /\ quote \in Char /\ Escape \subseteq Char
  /\ Needles \subseteq Seq(Char) /\ modifier \in [Char -> Char]
  /\ Size \in Nat \ {0} /\ SIZE_MAX \in Nat /\ Size < SIZE_MAX

NULL == 0
Nothing == [fn |-> "nothing"]
Address == 1 .. Size
Wrap(n) == n % (SIZE_MAX + 1)

VARIABLES
  mem,       \* the memory
  asked,     \* the function called and its arguments, or Nothing
  pc,        \* "idle", or the loop the call is in
  s, count,  \* the parameters the functions change; s is also s1 and src
  p, end,    \* s and end_of_str of strnchr; p is the next_quote of its callers
  dest,
  result,    \* the pointer returned
  before     \* history: the memory when the call was made

locals == <<s, count, p, end, dest>>
vars == <<mem, asked, pc, locals, result, before>>

Init ==
  /\ mem \in {m \in [Address -> Char \cup {NUL}] : m[Size] = NUL}
  /\ asked = Nothing /\ pc = "idle" /\ result = NULL /\ before = mem
  /\ s = 0 /\ count = 0 /\ p = 0 /\ end = 0 /\ dest = 0

Idle == pc = "idle" /\ asked = Nothing

Return(r) == pc' = "idle" /\ result' = r

\* strnchr runs from address from over n characters, more than 0.
Scan(from, n) == pc' = "strnchr" /\ p' = from /\ end' = Wrap(from + n)

\* The functions that look for characters, and what they first do. A count
\* of 0 finds nothing.
Ask(call) ==
  /\ Idle
  /\ asked' = call /\ s' = call.s /\ count' = call.count /\ before' = mem
  /\ UNCHANGED mem

strnchr(from, n, c) ==
  /\ Ask([fn |-> "strnchr", s |-> from, count |-> n, sought |-> c])
  /\ IF n = 0 THEN Return(NULL) /\ UNCHANGED <<p, end>>
     ELSE Scan(from, n) /\ UNCHANGED result
  /\ UNCHANGED dest

end_of_quoted_string(from, n, escape) ==
  /\ Ask([fn |-> "end_of_quoted_string", s |-> from, count |-> n,
          sought |-> quote, escape |-> escape])
  /\ pc' = "search"
  /\ UNCHANGED <<p, end, dest, result>>

strnstr(s1, n, s2) ==
  /\ Ask([fn |-> "strnstr", s |-> s1, count |-> n, s2 |-> s2])
  /\ pc' = "strnstr"
  /\ UNCHANGED <<p, end, dest, result>>

strncpy_with_modifier(to, src, n) ==
  /\ Ask([fn |-> "strncpy_with_modifier", s |-> src, count |-> n, dest |-> to])
  /\ pc' = "copy" /\ dest' = to
  /\ UNCHANGED <<p, end, result>>
-----------------------------------------------------------------------------
\* The loop of strnchr. It reads a character before it compares with the end.
ScanFound ==
  /\ pc = "strnchr" /\ mem[p] = asked.sought
  /\ IF asked.fn = "strnchr" THEN Return(p) ELSE pc' = "quote" /\ UNCHANGED result
  /\ UNCHANGED <<mem, asked, locals, before>>

\* Mutant: the end is searched too.
ScanOn_end ==
  /\ pc = "strnchr" /\ mem[p] # asked.sought /\ p < end
  /\ p' = p + 1
  /\ UNCHANGED <<mem, asked, pc, s, count, end, dest, result, before>>

ScanOn ==
  /\ pc = "strnchr" /\ mem[p] # asked.sought /\ p + 1 < end
  /\ p' = p + 1
  /\ UNCHANGED <<mem, asked, pc, s, count, end, dest, result, before>>

\* Without a further quote its callers return NULL as well.
ScanEnds ==
  /\ pc = "strnchr" /\ mem[p] # asked.sought /\ p + 1 >= end
  /\ Return(NULL)
  /\ UNCHANGED <<mem, asked, locals, before>>

\* The loops of both scanners of quoted strings.
Search ==
  /\ pc = "search"
  /\ IF count = 0 THEN Return(NULL) /\ UNCHANGED <<p, end>>
     ELSE Scan(s, count) /\ UNCHANGED result
  /\ UNCHANGED <<mem, asked, s, count, dest, before>>

\* Mutant: goes on at the quote.
SearchBehind_quote(n) ==
  /\ s' = p /\ count' = Wrap(count - (p - s))
  /\ pc' = "search"
  /\ UNCHANGED <<p, end, dest, result>>

\* Goes on n characters behind the quote at p.
SearchBehind(n) ==
  /\ s' = p + n /\ count' = Wrap(count - (p + n - s))
  /\ pc' = "search"
  /\ UNCHANGED <<p, end, dest, result>>

\* end_of_quoted_string_escaped_by_double_quotes. The quote is the last one
\* when one character was left from s, not from the quote.
Doubled ==
  /\ pc = "quote" /\ asked.escape = quote
  /\ IF count = 1 \/ mem[p + 1] # quote
       THEN Return(p) /\ UNCHANGED locals
       ELSE SearchBehind(2)
  /\ UNCHANGED <<mem, asked, before>>

\* Mutant: an escape that is the first character is not seen.
npreceding_escape_first ==
  Max({n \in 0 .. p - s : (n > 0 => p - n > s) /\ \A i \in 1 .. n : mem[p - i] = asked.escape})

\* The escapes right before the quote, back to s.
npreceding_escape ==
  Max({n \in 0 .. p - s : \A i \in 1 .. n : mem[p - i] = asked.escape})

Escaped ==
  /\ pc = "quote" /\ asked.escape # quote
  /\ \/ npreceding_escape % 2 = 0 /\ Return(p) /\ UNCHANGED locals
     \/ npreceding_escape % 2 = 1 /\ SearchBehind(1)
  /\ UNCHANGED <<mem, asked, before>>

\* strncmp stops at the first difference.
compared ==
  {i \in DOMAIN asked.s2 : \A j \in 1 .. i - 1 : mem[s + j - 1] = asked.s2[j]}

Compare ==
  /\ pc = "strnstr"
  /\ \/ count < Len(asked.s2) /\ Return(NULL) /\ UNCHANGED locals
     \/ /\ count >= Len(asked.s2)
        /\ IF \A i \in compared : mem[s + i - 1] = asked.s2[i]
             THEN Return(s) /\ UNCHANGED locals
             ELSE s' = s + 1 /\ count' = count - 1 /\ UNCHANGED <<pc, result, p, end, dest>>
  /\ UNCHANGED <<mem, asked, before>>

CopyCharacter ==
  /\ pc = "copy" /\ count > 0 /\ mem[s] # NUL
  /\ mem' = [mem EXCEPT ![dest] = modifier[mem[s]]]
  /\ dest' = dest + 1 /\ s' = s + 1 /\ count' = count - 1
  /\ UNCHANGED <<asked, pc, p, end, result, before>>

\* dest is terminated only when there is room left.
CopyEnds ==
  /\ pc = "copy"
  /\ \/ count = 0 /\ UNCHANGED mem
     \/ /\ count > 0 /\ mem[s] = NUL
        /\ mem' = [mem EXCEPT ![dest] = NUL]
  /\ Return(asked.dest)
  /\ UNCHANGED <<asked, locals, before>>

\* The client has read the result. It terminates the memory again.
Forget ==
  /\ pc = "idle" /\ asked # Nothing
  /\ asked' = Nothing /\ result' = NULL
  /\ mem' = [mem EXCEPT ![Size] = NUL] /\ before' = mem'
  /\ s' = 0 /\ count' = 0 /\ p' = 0 /\ end' = 0 /\ dest' = 0
  /\ UNCHANGED pc

\* Clients hand over characters that are theirs: s + n does not leave the
\* memory, and what is copied fits behind dest.
Client ==
  \E from \in Address : \E n \in 0 .. Size + 1 - from :
    \/ \E c \in Char \cup {NUL} : strnchr(from, n, c)
    \/ \E escape \in Escape : end_of_quoted_string(from, n, escape)
    \/ \E needle \in Needles : strnstr(from, n, needle)
    \/ \E src \in Address : strncpy_with_modifier(from, src, n)

Running ==
  \/ ScanFound \/ ScanOn \/ ScanEnds
  \/ Search \/ Doubled \/ Escaped \/ Compare
  \/ CopyCharacter \/ CopyEnds

Next == Client \/ Running \/ Forget

Spec == Init /\ [][Next]_vars
FairSpec == Spec /\ WF_vars(Running)
-----------------------------------------------------------------------------
(***************************************************************************)
(* Properties.                                                             *)
(***************************************************************************)
\* The characters the next round reads or writes.
accessed ==
  CASE pc = "strnchr" -> {p}
    [] pc = "quote" /\ asked.escape = quote /\ count # 1 -> {p + 1}
    [] pc = "strnstr" /\ count >= Len(asked.s2) -> {s + i - 1 : i \in compared}
    [] pc = "copy" /\ count > 0 -> {s, dest}
    [] OTHER -> {}

\* No function reads or writes outside of a memory that ends in a terminator,
\* also when the scanner of doubled quotes has run past its count and count
\* has wrapped, and when source and destination of a copy overlap.
InBounds == accessed \subseteq Address

FirstOf(addresses) == IF addresses = {} THEN NULL ELSE Min(addresses)
Searched(call) == call.s .. call.s + call.count - 1

\* From left to right: an escape that is not escaped escapes its successor.
EscapedEnd(call) ==
  LET escaped[a \in Searched(call)] ==
        a > call.s /\ before[a - 1] = call.escape /\ ~escaped[a - 1]
  IN FirstOf({a \in Searched(call) : before[a] = quote /\ ~escaped[a]})

\* The end of the first run of quotes of odd length.
DoubledEnd(call) ==
  LET quotes(a, z) == \A i \in a .. z : before[i] = quote
      maximal(a, z) == /\ a - 1 \in Searched(call) => before[a - 1] # quote
                       /\ z + 1 \in Searched(call) => before[z + 1] # quote
  IN FirstOf({z \in Searched(call) : \E a \in call.s .. z :
                quotes(a, z) /\ maximal(a, z) /\ (z - a) % 2 = 0})

\* A run of quotes that starts with the last character of the count, behind
\* other characters, and goes on beyond it.
CutRun(call) ==
  LET last == call.s + call.count - 1
  IN /\ call.count > 1 /\ last < Size
     /\ before[last - 1] # quote /\ before[last] = quote /\ before[last + 1] = quote

CopyRight(call) ==
  LET length == Min({n \in 0 .. Size - call.s : before[call.s + n] = NUL})
      n == Min({call.count, length})
      written == call.dest .. call.dest + Min({call.count, length + 1}) - 1
      untouched == call.dest <= call.s \/ call.dest >= call.s + Min({call.count, length + 1})
  IN untouched =>
       mem = [a \in Address |->
                CASE a \notin written -> before[a]
                  [] a \in written /\ a < call.dest + n -> modifier[before[call.s + a - call.dest]]
                  [] a \in written /\ a >= call.dest + n -> NUL]

\* Every function returns what its name and jstring.h say, whatever path its
\* loops took: the first occurrence within the count, the quote that is not
\* escaped, the modified copy of as much as fits. end_of_quoted_string is not
\* held to it when the count cuts off a run of doubled quotes.
ResultsRight ==
  pc = "idle" /\ asked # Nothing =>
    CASE asked.fn = "strnchr" ->
           result = FirstOf({a \in Searched(asked) : mem[a] = asked.sought})
      [] asked.fn = "strnstr" ->
           result = FirstOf({a \in asked.s .. asked.s + asked.count - Len(asked.s2) :
                              \A i \in DOMAIN asked.s2 : mem[a + i - 1] = asked.s2[i]})
      [] asked.fn = "end_of_quoted_string" ->
           IF asked.escape # quote THEN result = EscapedEnd(asked)
           ELSE CutRun(asked) \/ result = DoubledEnd(asked)
      [] asked.fn = "strncpy_with_modifier" -> result = asked.dest /\ CopyRight(asked)

\* Every call returns, although count may wrap to the largest size_t and a
\* copy onto its own source overwrites the terminator it looks for.
CallsReturn == asked # Nothing ~> pc = "idle"
=============================================================================
