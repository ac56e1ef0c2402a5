------------------------------ MODULE JLogProof ------------------------------
(***************************************************************************)
(* Proofs about JLog, for every set of threads, writers, files and         *)
(* changes: lines stay whole and messages in order, and a call that        *)
(* returned has left its lines where they belong.                          *)
(***************************************************************************)
EXTENDS JLog, SequenceTheorems, TLAPS

Outputs == [fp : File \cup {NULL}, mask : SUBSET Tag, format : Seq(Piece)]
Message == [thread : Thread, number : Nat]
Chunk == [message : Message, output : Nat, p : Nat, piece : Piece \cup {"newline"}]
Call == [logger : Logger, tag : Tag, i : Nat, p : Nat, format : Seq(Piece),
         found : Seq(Outputs), touched : SUBSET Nat]
Returned == [message : Message, logger : Logger, tag : Tag, found : Seq(Outputs),
             touched : SUBSET Nat]

\* Where a thread is between lock and unlock.
Held == {"outputs", "selected", "format", "flush"}

TypeOK ==
  /\ outputs \in [Writer -> Seq(Outputs)]
  /\ changed \in Nat
  /\ pc \in [Thread -> {"idle", "lock"} \cup Held]
  /\ call \in [Thread -> Call \cup {NULL}]
  /\ made \in [Thread -> Nat]
  /\ mutex \in [Writer -> Thread \cup {NULL}]
  /\ buffer \in [File -> Seq(Chunk)]
  /\ file \in [File -> Seq(Chunk)]
  /\ returned \in SUBSET Returned

\* A writer keeps its outputs; clients give them only the settings listed.
Configured ==
  \A w \in Writer :
    /\ DOMAIN outputs[w] = DOMAIN configured[w]
    /\ \A n \in DOMAIN configured[w] :
         /\ outputs[w][n].fp \in Settings(w, n, "fp")
         /\ outputs[w][n].format \in Settings(w, n, "format")

\* The arguments and the loop variables of a running call.
InCall(t) ==
  /\ call[t] \in Call
  /\ writer(t) \in Writer
  /\ call[t].tag \in loggers[call[t].logger].mask
  /\ call[t].i >= 1
  /\ pc[t] \in {"selected", "format", "flush"} => call[t].i \in DOMAIN outputs[writer(t)]
Calls == \A t \in Thread : pc[t] # "idle" => InCall(t)

\* Mutual exclusion: who is past the lock holds the mutex of its writer.
Locked == \A t \in Thread : pc[t] \in Held => mutex[writer(t)] = t

\* Messages are numbered: one that returned is not a running one, and no two
\* calls that returned have the same.
Numbered ==
  /\ \A r \in returned :
       LET t == r.message.thread
       IN  r.message.number <= made[t] /\ (pc[t] # "idle" => r.message.number < made[t])
  /\ \A r, q \in returned : r.message = q.message => r = q

\* Which writer a message goes through.
Through(m, w) ==
  \/ \E r \in returned : r.message = m /\ loggers[r.logger].writer = w
  \/ \E t \in Thread : pc[t] # "idle" /\ m = message(t) /\ writer(t) = w

\* What is in a file was written through a writer that may write there.
Written ==
  \A f \in File : \A a \in DOMAIN Stream(f) :
    \E w \in WritersTo(f) : Through(Stream(f)[a].message, w)

\* How far the running calls are: a thread before the lock has written
\* nothing, one past it only outputs up to i.
Reached ==
  \A t \in Thread, f \in File : \A a \in DOMAIN Stream(f) :
    pc[t] # "idle" /\ Stream(f)[a].message = message(t) =>
      /\ pc[t] \in Held
      /\ Stream(f)[a].output <= call[t].i

\* While a thread holds the mutex no other message of its writer comes after
\* what it wrote.
Latest ==
  \A t \in Thread, f \in File : \A a, b \in DOMAIN Stream(f) :
    /\ pc[t] \in Held /\ a < b
    /\ Stream(f)[a].message = message(t) /\ Through(Stream(f)[b].message, writer(t))
    => Stream(f)[b].message = message(t)

\* Two messages of one writer are in the same order everywhere.
Ordered ==
  \A w \in Writer : \A m, n \in Message :
    m # n /\ Through(m, w) /\ Through(n, w) =>
      \A f, g \in File : ~(Before(f, m, n) /\ Before(g, n, m))

\* One message writes its outputs one after the other.
InTurn ==
  \A f \in File : \A a, b \in DOMAIN Stream(f) :
    a < b /\ Stream(f)[a].message = Stream(f)[b].message
      => Stream(f)[a].output <= Stream(f)[b].output

-----------------------------------------------------------------------------
(***************************************************************************)
(* What the helpers of the model do.                                       *)
(***************************************************************************)
LEMMA StreamType ==
  ASSUME TypeOK, NEW f \in File
  PROVE  /\ Stream(f) \in Seq(Chunk) /\ DOMAIN Stream(f) = 1 .. Len(Stream(f))
         /\ Len(Stream(f)) \in Nat
         /\ \A a \in DOMAIN Stream(f) : Stream(f)[a] \in Chunk
<1>1. file[f] \in Seq(Chunk) /\ buffer[f] \in Seq(Chunk)
  BY DEF TypeOK
<1>2. Stream(f) \in Seq(Chunk)
  BY <1>1, ConcatProperties DEF Stream
<1> HIDE DEF TypeOK
<1>3. DOMAIN Stream(f) = 1 .. Len(Stream(f)) /\ Len(Stream(f)) \in Nat
  BY <1>2, LenProperties
<1> QED BY <1>2, <1>3, ElementOfSeq

\* Appending keeps what was there and adds one element.
LEMMA Appended ==
  ASSUME NEW S, NEW s \in Seq(S), NEW e \in S
  PROVE  /\ Append(s, e) \in Seq(S)
         /\ DOMAIN Append(s, e) = DOMAIN s \cup {Len(s) + 1}
         /\ \A a \in DOMAIN s : Append(s, e)[a] = s[a] /\ a < Len(s) + 1
         /\ Append(s, e)[Len(s) + 1] = e
<1>1. DOMAIN s = 1 .. Len(s) /\ Len(s) \in Nat
  BY LenProperties
<1>2. /\ Append(s, e) \in Seq(S) /\ Len(Append(s, e)) = Len(s) + 1
      /\ \A a \in 1 .. Len(s) : Append(s, e)[a] = s[a]
      /\ Append(s, e)[Len(s) + 1] = e
  BY AppendProperties
<1>3. DOMAIN Append(s, e) = 1 .. Len(s) + 1
  BY <1>1, <1>2, LenProperties
<1> QED BY <1>1, <1>2, <1>3

LEMMA ConcatAppend ==
  ASSUME NEW S, NEW s \in Seq(S), NEW u \in Seq(S), NEW e \in S
  PROVE  s \o Append(u, e) = Append(s \o u, e)
<1>1. Append(u, e) = u \o <<e>> /\ <<e>> \in Seq(S)
  BY AppendIsConcat
<1>2. s \o u \in Seq(S)
  BY ConcatProperties
<1>3. Append(s \o u, e) = (s \o u) \o <<e>>
  BY <1>2, AppendIsConcat
<1>4. (s \o u) \o <<e>> = s \o (u \o <<e>>)
  BY <1>1, ConcatAssociative
<1> QED BY <1>1, <1>3, <1>4

LEMMA ConcatPrefix ==
  ASSUME NEW S, NEW s \in Seq(S), NEW u \in Seq(S)
  PROVE  /\ DOMAIN s \subseteq DOMAIN (s \o u)
         /\ \A a \in DOMAIN s : (s \o u)[a] = s[a]
<1>1. /\ s \o u \in Seq(S) /\ Len(s \o u) = Len(s) + Len(u)
      /\ \A i \in 1 .. Len(s) + Len(u) : (s \o u)[i] = IF i <= Len(s) THEN s[i] ELSE u[i - Len(s)]
  BY ConcatProperties
<1>2. /\ DOMAIN s = 1 .. Len(s) /\ Len(s) \in Nat /\ Len(u) \in Nat
      /\ DOMAIN (s \o u) = 1 .. Len(s) + Len(u)
  BY <1>1, LenProperties
<1> QED BY <1>1, <1>2

\* The output a running call is at is one of its writer's.
LEMMA OutputType ==
  ASSUME TypeOK, Calls, NEW t \in Thread, pc[t] \in {"selected", "format", "flush"}
  PROVE  output(t) \in Outputs
<1>1. InCall(t) /\ writer(t) \in Writer /\ call[t].i \in DOMAIN outputs[writer(t)]
  BY DEF Calls, InCall
<1>2. outputs[writer(t)] \in Seq(Outputs)
  BY <1>1 DEF TypeOK
<1> QED BY <1>1, <1>2, ElementOfSeq, LenProperties DEF output

\* One stdio call appends one chunk to one file.
LEMMA Wrote ==
  ASSUME TypeOK, Calls, NEW t \in Thread, pc[t] = "format", output(t).fp # NULL,
         NEW piece \in Piece \cup {"newline"}, Write(t, piece)
  PROVE  LET c == [message |-> message(t), output |-> call[t].i,
                   p |-> call[t].p, piece |-> piece]
         IN  /\ output(t).fp \in File /\ c \in Chunk
             /\ buffer' \in [File -> Seq(Chunk)] /\ file' = file
             /\ \A f \in File :
                  Stream(f)' = IF f = output(t).fp THEN Append(Stream(f), c) ELSE Stream(f)
<1> DEFINE c == [message |-> message(t), output |-> call[t].i,
                 p |-> call[t].p, piece |-> piece]
<1>1. output(t) \in Outputs /\ output(t).fp \in File
  <2>1. output(t) \in Outputs
    BY OutputType
  <2> QED BY <2>1 DEF Outputs
<1>2. c \in Chunk
  <2>1. call[t].i \in Nat /\ call[t].p \in Nat
    BY DEF Calls, InCall, Call
  <2>2. message(t) \in Message
    BY DEF message, Message, TypeOK
  <2> QED BY <2>1, <2>2 DEF Chunk
<1>3. buffer' = [buffer EXCEPT ![output(t).fp] = Append(@, c)] /\ file' = file
  BY DEF Write
<1>4. buffer' \in [File -> Seq(Chunk)]
  BY <1>1, <1>2, <1>3, AppendProperties DEF TypeOK
<1>5. ASSUME NEW f \in File
      PROVE  Stream(f)' = IF f = output(t).fp THEN Append(Stream(f), c) ELSE Stream(f)
  <2>1. CASE f = output(t).fp
    <3>1. buffer'[f] = Append(buffer[f], c)
      BY <1>3, <2>1 DEF TypeOK
    <3>2. file[f] \o Append(buffer[f], c) = Append(file[f] \o buffer[f], c)
      <4>1. file[f] \in Seq(Chunk) /\ buffer[f] \in Seq(Chunk)
        BY DEF TypeOK
      <4> HIDE DEF c
      <4>2. \A u, v \in Seq(Chunk) : \A e \in Chunk : u \o Append(v, e) = Append(u \o v, e)
        BY ConcatAppend
      <4>3. c \in Chunk
        BY <1>2
      <4> QED BY <4>1, <4>2, <4>3
    <3> QED BY <1>3, <2>1, <3>1, <3>2 DEF Stream
  <2>2. CASE f # output(t).fp
    BY <1>1, <1>3, <2>2 DEF Stream, TypeOK
  <2> QED BY <2>1, <2>2
<1> HIDE DEF c
<1> QED BY <1>1, <1>2, <1>3, <1>4, <1>5 DEF c

\* Flushing moves chunks from a buffer to its file and changes no stream.
LEMMA FlushedTo ==
  ASSUME TypeOK, NEW f \in File, FlushTo(f)
  PROVE  /\ buffer' \in [File -> Seq(Chunk)] /\ file' \in [File -> Seq(Chunk)]
         /\ \A g \in File : Stream(g)' = Stream(g)
         /\ buffer'[f] = <<>>
<1>1. file[f] \in Seq(Chunk) /\ buffer[f] \in Seq(Chunk)
  BY DEF TypeOK
<1>2. file[f] \o buffer[f] \in Seq(Chunk) /\ <<>> \in Seq(Chunk)
  BY <1>1, ConcatProperties, EmptySeq
<1>3. buffer' \in [File -> Seq(Chunk)] /\ file' \in [File -> Seq(Chunk)] /\ buffer'[f] = <<>>
  BY <1>1, <1>2 DEF TypeOK, FlushTo
<1>4. ASSUME NEW g \in File PROVE Stream(g)' = Stream(g)
  <2>1. CASE g = f
    <3>1. file'[f] = file[f] \o buffer[f] /\ buffer'[f] = <<>>
      BY DEF FlushTo, TypeOK
    <3>2. file'[f] \o buffer'[f] = file[f] \o buffer[f]
      BY <1>2, <3>1, ConcatEmptySeq
    <3> QED BY <2>1, <3>2 DEF Stream
  <2>2. CASE g # f
    BY <2>2 DEF FlushTo, TypeOK, Stream
  <2> QED BY <2>1, <2>2
<1> QED BY <1>3, <1>4

LEMMA Flushed ==
  ASSUME TypeOK, NEW fp \in File \cup {NULL}, fflush(fp)
  PROVE  /\ buffer' \in [File -> Seq(Chunk)] /\ file' \in [File -> Seq(Chunk)]
         /\ \A g \in File : Stream(g)' = Stream(g)
         /\ fp \in File => buffer'[fp] = <<>>
<1>1. CASE fp # NULL
  <2>1. fp \in File /\ FlushTo(fp)
    BY <1>1 DEF fflush
  <2> QED BY <2>1, FlushedTo
<1>2. CASE fp = NULL
  <2>1. /\ file' = [f \in File |-> file[f] \o buffer[f]]
        /\ buffer' = [f \in File |-> <<>>]
    BY <1>2 DEF fflush
  <2>2. \A f \in File : file[f] \in Seq(Chunk) /\ buffer[f] \in Seq(Chunk)
    BY DEF TypeOK
  <2>3. \A f \in File : file[f] \o buffer[f] \in Seq(Chunk) /\ <<>> \in Seq(Chunk)
    BY <2>2, ConcatProperties, EmptySeq
  <2>4. ASSUME NEW g \in File PROVE Stream(g)' = Stream(g)
    <3>1. file'[g] \o buffer'[g] = file[g] \o buffer[g]
      BY <2>1, <2>3, ConcatEmptySeq
    <3> QED BY <3>1 DEF Stream
  <2> QED BY <2>1, <2>3, <2>4
<1> QED BY <1>1, <1>2

-----------------------------------------------------------------------------
(***************************************************************************)
(* Types, arguments and mutual exclusion.                                  *)
(***************************************************************************)
Base == TypeOK /\ Configured /\ Calls /\ Locked

LEMMA InitBase == Init => Base
<1> SUFFICES ASSUME Init PROVE Base
  OBVIOUS
<1>1. \A S : <<>> \in Seq(S)
  BY EmptySeq
<1>2. outputs \in [Writer -> Seq(Outputs)]
  BY ConfigurationAssumption DEF Init, Outputs
<1>3. TypeOK
  BY <1>1, <1>2 DEF Init, TypeOK
<1>4. Configured
  BY DEF Init, Configured, Settings
<1>5. Calls /\ Locked
  BY DEF Init, Calls, Locked, Held
<1> QED BY <1>3, <1>4, <1>5 DEF Base

\* A thread that holds its mutex keeps it and goes to l with loop variables k.
Move(t, l, k) ==
  /\ pc[t] \in Held /\ l \in Held /\ k \in Call
  /\ pc' = [pc EXCEPT ![t] = l] /\ call' = [call EXCEPT ![t] = k]
  /\ k.logger = call[t].logger /\ k.tag = call[t].tag
  /\ k.found = call[t].found /\ k.touched = call[t].touched
  /\ k.i >= call[t].i
  /\ l \in {"selected", "format", "flush"} => k.i \in DOMAIN outputs[writer(t)]
  /\ UNCHANGED <<config, made, mutex, ended, returned>>

LEMMA MoveBase ==
  ASSUME Base, NEW t \in Thread, NEW l, NEW k, Move(t, l, k),
         buffer' \in [File -> Seq(Chunk)], file' \in [File -> Seq(Chunk)]
  PROVE  Base'
<1> USE DEF Move, config
<1>0. k.i >= 1
  <2>1. InCall(t)
    BY DEF Base, Calls, Held
  <2> QED BY <2>1 DEF InCall, Call
<1>1. TypeOK'
  BY DEF Base, TypeOK
<1>2. Configured'
  BY DEF Base, Configured
<1>3. pc[t] # "idle"
  BY DEF Held
<1>4. \A u \in Thread : u # t => pc'[u] = pc[u] /\ call'[u] = call[u]
  BY DEF Base, TypeOK
<1>5. pc'[t] = l /\ call'[t] = k
  BY DEF Base, TypeOK
<1>6. \A u \in Thread : writer(u)' = writer(u)
  BY <1>4, <1>5 DEF writer
<1>7. Calls'
  <2> SUFFICES ASSUME NEW u \in Thread, pc'[u] # "idle" PROVE InCall(u)'
    BY DEF Calls
  <2>1. CASE u = t
    <3>1. InCall(t)
      BY <1>3 DEF Base, Calls
    <3> QED BY <1>0, <1>5, <1>6, <2>1, <3>1 DEF InCall
  <2>2. CASE u # t
    <3>1. InCall(u)
      BY <1>4, <2>2 DEF Base, Calls
    <3> QED BY <1>4, <1>6, <2>2, <3>1 DEF InCall
  <2> QED BY <2>1, <2>2
<1>8. Locked'
  <2> SUFFICES ASSUME NEW u \in Thread, pc'[u] \in Held PROVE mutex[writer(u)] = u
    BY <1>6 DEF Locked
  <2> QED BY <1>4 DEF Base, Locked
<1> QED BY <1>1, <1>2, <1>7, <1>8 DEF Base

\* The process ends; nothing but the buffers changes.
LEMMA EndBase ==
  ASSUME Base, NEW cause, End(cause), UNCHANGED <<config, pc, call, made, mutex, returned>>
  PROVE  Base'
<1>1. buffer' \in [File -> Seq(Chunk)] /\ file' = file
  BY EmptySeq DEF End
<1>2. TypeOK'
  BY <1>1 DEF Base, TypeOK, config
<1>3. \A u \in Thread : writer(u)' = writer(u)
  BY DEF writer
<1> QED BY <1>2, <1>3 DEF Base, Configured, Calls, InCall, Locked, config

LEMMA LockBase ==
  ASSUME Base, NEW t \in Thread, Lock(t)
  PROVE  Base'
<1>1. /\ pc[t] = "lock" /\ mutex[writer(t)] = NULL /\ mutex' = [mutex EXCEPT ![writer(t)] = t]
      /\ pc' = [pc EXCEPT ![t] = "outputs"] /\ UNCHANGED <<config, call, made, stdio, returned>>
  BY DEF Lock, Running, Goto
<1>2. InCall(t) /\ writer(t) \in Writer
  BY <1>1 DEF Base, Calls, InCall
<1>3. TypeOK'
  BY <1>1, <1>2 DEF Base, TypeOK, config, stdio, Held
<1>4. Configured'
  BY <1>1 DEF Base, Configured, config
<1>5. \A u \in Thread : writer(u)' = writer(u) /\ call'[u] = call[u]
  BY <1>1 DEF writer
<1>6. \A u \in Thread : u # t => pc'[u] = pc[u]
  BY <1>1 DEF Base, TypeOK
<1>7. pc'[t] = "outputs"
  BY <1>1 DEF Base, TypeOK
<1>8. Calls'
  <2> SUFFICES ASSUME NEW u \in Thread, pc'[u] # "idle" PROVE InCall(u)'
    BY DEF Calls
  <2>1. InCall(u)
    BY <1>2, <1>6 DEF Base, Calls
  <2> QED BY <1>1, <1>5, <1>6, <1>7, <2>1 DEF InCall, config
<1>9. Locked'
  <2> SUFFICES ASSUME NEW u \in Thread, pc'[u] \in Held PROVE mutex'[writer(u)] = u
    BY <1>5 DEF Locked
  <2>1. CASE u = t
    BY <1>1, <1>2, <2>1 DEF Base, TypeOK
  <2>2. CASE u # t
    <3>1. mutex[writer(u)] = u /\ u # NULL
      BY <1>6, <2>2, ConfigurationAssumption DEF Base, Locked
    <3> QED BY <1>1, <1>2, <3>1 DEF Base, TypeOK
  <2> QED BY <2>1, <2>2
<1> QED BY <1>3, <1>4, <1>8, <1>9 DEF Base

\* A thread enters or leaves a call: its pc and call change, and no mutex of
\* another thread.
LEMMA CallBase ==
  ASSUME Base, NEW t \in Thread, NEW l \in {"idle", "lock"}, NEW k \in Call \cup {NULL},
         pc' = [pc EXCEPT ![t] = l], call' = [call EXCEPT ![t] = k],
         l = "lock" => InCall(t)', made' \in [Thread -> Nat],
         mutex' \in [Writer -> Thread \cup {NULL}],
         \A u \in Thread \ {t} : pc[u] \in Held => mutex'[writer(u)] = mutex[writer(u)],
         returned' \in SUBSET Returned, UNCHANGED <<config, stdio>>
  PROVE  Base'
<1>1. TypeOK'
  BY DEF Base, TypeOK, config, stdio
<1>2. Configured'
  BY DEF Base, Configured, config
<1>3. \A u \in Thread : u # t => pc'[u] = pc[u] /\ call'[u] = call[u] /\ writer(u)' = writer(u)
  BY DEF Base, TypeOK, writer
<1>4. pc'[t] = l
  BY DEF Base, TypeOK
<1>5. Calls'
  <2> SUFFICES ASSUME NEW u \in Thread, pc'[u] # "idle" PROVE InCall(u)'
    BY DEF Calls
  <2>1. CASE u = t
    BY <1>4, <2>1
  <2>2. CASE u # t
    <3>1. InCall(u)
      BY <1>3, <2>2 DEF Base, Calls
    <3> QED BY <1>3, <2>2, <3>1 DEF InCall, config
  <2> QED BY <2>1, <2>2
<1>6. Locked'
  BY <1>3, <1>4 DEF Base, Locked, Held
<1> QED BY <1>1, <1>2, <1>5, <1>6 DEF Base

LEMMA JlogBase ==
  ASSUME Base, NEW t \in Thread, NEW l \in Logger, NEW tag \in Tag, jlog(t, l, tag)
  PROVE  Base'
<1>1. /\ pc[t] = "idle" /\ made' = [made EXCEPT ![t] = @ + 1]
      /\ UNCHANGED <<config, mutex, stdio>>
  BY DEF jlog, Running
<1>2. made' \in [Thread -> Nat] /\ made'[t] \in Nat
  BY <1>1 DEF Base, TypeOK
<1>3. CASE tag \in loggers[l].mask /\ loggers[l].writer # NULL
  <2> DEFINE k == [logger |-> l, tag |-> tag, i |-> 1, p |-> 1, format |-> <<>>,
                   found |-> outputs[loggers[l].writer], touched |-> {}]
  <2>1. pc' = [pc EXCEPT ![t] = "lock"] /\ call' = [call EXCEPT ![t] = k] /\ returned' = returned
    BY <1>3 DEF jlog, Goto
  <2>2. loggers[l].writer \in Writer
    BY <1>3, ConfigurationAssumption
  <2>3. k \in Call
    <3>1. outputs[loggers[l].writer] \in Seq(Outputs)
      BY <2>2 DEF Base, TypeOK
    <3>2. <<>> \in Seq(Piece)
      BY EmptySeq
    <3> QED BY <3>1, <3>2 DEF Call
  <2>4. InCall(t)'
    <3>1. pc'[t] = "lock" /\ call'[t] = k
      BY <2>1 DEF Base, TypeOK
    <3> QED BY <1>3, <2>2, <2>3, <3>1 DEF InCall, writer
  <2>5. returned' \in SUBSET Returned /\ mutex' \in [Writer -> Thread \cup {NULL}]
    BY <1>1, <2>1 DEF Base, TypeOK
  <2> HIDE DEF k
  <2> QED BY <1>1, <1>2, <2>1, <2>3, <2>4, <2>5, CallBase
<1>4. CASE ~(tag \in loggers[l].mask /\ loggers[l].writer # NULL)
  <2>1. Return(t, l, tag, <<>>, {})
    BY <1>4 DEF jlog
  <2>2. [message |-> [thread |-> t, number |-> made'[t]], logger |-> l, tag |-> tag,
         found |-> <<>>, touched |-> {}] \in Returned
    <3>1. <<>> \in Seq(Outputs)
      BY EmptySeq
    <3> QED BY <1>2, <3>1 DEF Returned, Message
  <2>3. returned' \in SUBSET Returned
    BY <2>1, <2>2 DEF Return, Base, TypeOK
  <2>4. pc' = [pc EXCEPT ![t] = "idle"] /\ call' = [call EXCEPT ![t] = NULL]
    BY <2>1 DEF Return, Goto
  <2>5. mutex' \in [Writer -> Thread \cup {NULL}] /\ NULL \in Call \cup {NULL}
    BY <1>1 DEF Base, TypeOK
  <2> QED BY <1>1, <1>2, <2>3, <2>4, <2>5, CallBase
<1> QED BY <1>3, <1>4

\* What a call that returns leaves in the history.
LEMMA Returns ==
  ASSUME Base, NEW t \in Thread, Unlock(t)
  PROVE  /\ InCall(t) /\ pc[t] = "outputs" /\ call[t].i > noutput(t)
         /\ pc' = [pc EXCEPT ![t] = "idle"] /\ call' = [call EXCEPT ![t] = NULL]
         /\ mutex' = [mutex EXCEPT ![writer(t)] = NULL]
         /\ UNCHANGED <<config, made, stdio, ended>>
         /\ LET r == [message |-> message(t), logger |-> call[t].logger, tag |-> call[t].tag,
                      found |-> call[t].found, touched |-> call[t].touched]
            IN  r \in Returned /\ returned' = returned \cup {r}
<1>1. /\ pc[t] = "outputs" /\ call[t].i > noutput(t)
      /\ pc' = [pc EXCEPT ![t] = "idle"] /\ call' = [call EXCEPT ![t] = NULL]
      /\ mutex' = [mutex EXCEPT ![writer(t)] = NULL]
      /\ UNCHANGED <<config, made, stdio, ended>>
      /\ returned' = returned \cup
           {[message |-> [thread |-> t, number |-> made'[t]],
             logger |-> call[t].logger, tag |-> call[t].tag,
             found |-> call[t].found, touched |-> call[t].touched]}
  BY DEF Unlock, Running, Return, Goto
<1>2. InCall(t)
  BY <1>1 DEF Base, Calls
<1>3. made'[t] = made[t] /\ made[t] \in Nat
  BY <1>1 DEF Base, TypeOK
<1>4. message(t) = [thread |-> t, number |-> made'[t]] /\ message(t) \in Message
  BY <1>3 DEF message, Message
<1>5. [message |-> message(t), logger |-> call[t].logger, tag |-> call[t].tag,
       found |-> call[t].found, touched |-> call[t].touched] \in Returned
  BY <1>2, <1>4 DEF Returned, InCall, Call
<1> QED BY <1>1, <1>2, <1>4, <1>5

LEMMA UnlockBase ==
  ASSUME Base, NEW t \in Thread, Unlock(t)
  PROVE  Base'
<1>1. /\ InCall(t) /\ pc[t] = "outputs" /\ writer(t) \in Writer
      /\ pc' = [pc EXCEPT ![t] = "idle"] /\ call' = [call EXCEPT ![t] = NULL]
      /\ mutex' = [mutex EXCEPT ![writer(t)] = NULL]
      /\ UNCHANGED <<config, made, stdio, ended>>
  BY Returns DEF InCall
<1>2. returned' \in SUBSET Returned
  BY Returns DEF Base, TypeOK
<1>3. mutex' \in [Writer -> Thread \cup {NULL}] /\ made' \in [Thread -> Nat]
  BY <1>1 DEF Base, TypeOK
<1>4. ASSUME NEW u \in Thread \ {t}, pc[u] \in Held
      PROVE  mutex'[writer(u)] = mutex[writer(u)]
  <2>1. mutex[writer(u)] = u /\ mutex[writer(t)] = t
    BY <1>1, <1>4 DEF Base, Locked, Held
  <2>2. writer(u) \in Writer
    BY <1>4 DEF Base, Calls, InCall, Held
  <2> QED BY <1>1, <2>1, <2>2 DEF Base, TypeOK
<1> QED BY <1>1, <1>2, <1>3, <1>4, CallBase

\* A client changes one field of one output to one of its settings.
LEMMA ChangeTypes ==
  ASSUME Base, NEW c \in changes, SetOutput(c)
  PROVE  LET o == outputs[c.writer][c.n]
             q == outputs'[c.writer][c.n]
         IN  /\ c.writer \in Writer /\ c.n \in DOMAIN configured[c.writer]
             /\ o \in Outputs /\ q \in Outputs
             /\ q.fp \in {o.fp} \cup Settings(c.writer, c.n, "fp")
             /\ q.format \in {o.format} \cup Settings(c.writer, c.n, "format")
             /\ outputs' \in [Writer -> Seq(Outputs)]
             /\ \A w \in Writer : DOMAIN outputs'[w] = DOMAIN outputs[w]
             /\ \A w \in Writer : \A n \in DOMAIN outputs[w] :
                  ~(w = c.writer /\ n = c.n) => outputs'[w][n] = outputs[w][n]
<1> DEFINE w == c.writer
           o == outputs[w][c.n]
           q == [o EXCEPT ![c.field] = c.value]
<1>1. /\ w \in Writer /\ c.n \in DOMAIN configured[w]
      /\ \/ c.field = "fp" /\ c.value \in File \cup {NULL}
         \/ c.field = "mask" /\ c.value \subseteq Tag
         \/ c.field = "format" /\ c.value \in Seq(Piece)
  BY ConfigurationAssumption
<1>2. outputs[w] \in Seq(Outputs) /\ c.n \in DOMAIN outputs[w]
  BY <1>1 DEF Base, TypeOK, Configured
<1>3. o \in Outputs /\ o = [fp |-> o.fp, mask |-> o.mask, format |-> o.format]
  <2>1. o \in Outputs
    BY <1>2, ElementOfSeq, LenProperties
  <2> QED BY <2>1 DEF Outputs
<1>4. /\ q \in Outputs
      /\ c.field # "fp" => q.fp = o.fp
      /\ c.field # "format" => q.format = o.format
      /\ c.field = "fp" => q.fp = c.value
      /\ c.field = "format" => q.format = c.value
  <2> HIDE DEF o
  <2>1. CASE c.field = "fp"
    <3>1. c.value \in File \cup {NULL}
      BY <1>1, <2>1
    <3>2. q = [o EXCEPT !.fp = c.value]
      BY <2>1
    <3> HIDE DEF q
    <3> QED BY <1>3, <2>1, <3>1, <3>2 DEF Outputs
  <2>2. CASE c.field = "mask"
    <3>1. c.value \in SUBSET Tag
      BY <1>1, <2>2
    <3>2. q = [o EXCEPT !.mask = c.value]
      BY <2>2
    <3> HIDE DEF q
    <3> QED BY <1>3, <2>2, <3>1, <3>2 DEF Outputs
  <2>3. CASE c.field = "format"
    <3>1. c.value \in Seq(Piece)
      BY <1>1, <2>3
    <3>2. q = [o EXCEPT !.format = c.value]
      BY <2>3
    <3> HIDE DEF q
    <3> QED BY <1>3, <2>3, <3>1, <3>2 DEF Outputs
  <2> QED BY <1>1, <2>1, <2>2, <2>3
<1>5. outputs' = [outputs EXCEPT ![w] = [outputs[w] EXCEPT ![c.n] = q]]
  BY DEF SetOutput
<1>6. /\ c.field = "fp" => c.value \in Settings(w, c.n, "fp")
      /\ c.field = "format" => c.value \in Settings(w, c.n, "format")
  BY DEF Settings
<1> HIDE DEF q, o, w
<1>7. [outputs[w] EXCEPT ![c.n] = q] \in Seq(Outputs)
  BY <1>2, <1>4, ExceptSeq
<1>8. outputs' \in [Writer -> Seq(Outputs)]
  BY <1>1, <1>5, <1>7 DEF Base, TypeOK
<1>9. outputs'[w] = [outputs[w] EXCEPT ![c.n] = q] /\ outputs'[w][c.n] = q
  BY <1>1, <1>2, <1>5 DEF Base, TypeOK
<1>10. \A v \in Writer : v # w => outputs'[v] = outputs[v]
  BY <1>5 DEF Base, TypeOK
<1>11. DOMAIN outputs'[w] = DOMAIN outputs[w]
       /\ \A n \in DOMAIN outputs[w] : n # c.n => outputs'[w][n] = outputs[w][n]
  BY <1>9
<1>12. q.fp \in {o.fp} \cup Settings(w, c.n, "fp")
       /\ q.format \in {o.format} \cup Settings(w, c.n, "format")
  BY <1>4, <1>6
<1>13. \A v \in Writer : DOMAIN outputs'[v] = DOMAIN outputs[v]
  BY <1>10, <1>11
<1>14. \A v \in Writer : \A n \in DOMAIN outputs[v] :
         ~(v = w /\ n = c.n) => outputs'[v][n] = outputs[v][n]
  BY <1>10, <1>11
<1> QED BY <1>1, <1>3, <1>4, <1>8, <1>9, <1>12, <1>13, <1>14 DEF w, o

\* It leaves the calls where they are.
LEMMA ChangeCalls ==
  ASSUME Base, NEW c \in changes, SetOutput(c)
  PROVE  /\ call' \in [Thread -> Call \cup {NULL}]
         /\ \A t \in Thread : pc[t] # "idle" =>
              /\ call'[t] \in Call
              /\ call'[t] = IF writer(t) = c.writer
                              THEN [call[t] EXCEPT !.touched = @ \cup {c.n}] ELSE call[t]
              /\ call'[t].logger = call[t].logger /\ call'[t].tag = call[t].tag
              /\ call'[t].i = call[t].i /\ call'[t].p = call[t].p
              /\ call'[t].format = call[t].format /\ call'[t].found = call[t].found
              /\ writer(t)' = writer(t)
              /\ call'[t].touched = call[t].touched \cup
                   (IF writer(t) = c.writer THEN {c.n} ELSE {})
         /\ UNCHANGED <<pc, made, mutex, stdio, ended, returned>>
<1>1. call' = [t \in Thread |->
         IF pc[t] # "idle" /\ writer(t) = c.writer
           THEN [call[t] EXCEPT !.touched = @ \cup {c.n}] ELSE call[t]]
      /\ UNCHANGED <<pc, made, mutex, stdio, ended, returned>>
  BY DEF SetOutput
<1>2. c.n \in Nat
  <2>1. outputs[c.writer] \in Seq(Outputs) /\ c.n \in DOMAIN outputs[c.writer]
    BY ChangeTypes DEF Base, TypeOK, Configured
  <2> QED BY <2>1, LenProperties
<1>3. \A k \in Call : [k EXCEPT !.touched = @ \cup {c.n}] \in Call
  BY <1>2 DEF Call
<1>4. call' \in [Thread -> Call \cup {NULL}]
  <2> SUFFICES ASSUME NEW t \in Thread
               PROVE  (IF pc[t] # "idle" /\ writer(t) = c.writer
                         THEN [call[t] EXCEPT !.touched = @ \cup {c.n}] ELSE call[t])
                      \in Call \cup {NULL}
    BY <1>1
  <2> QED BY <1>3 DEF Base, TypeOK, Calls, InCall
<1>5. ASSUME NEW t \in Thread, pc[t] # "idle"
      PROVE  /\ call'[t] \in Call
             /\ call'[t] = IF writer(t) = c.writer
                              THEN [call[t] EXCEPT !.touched = @ \cup {c.n}] ELSE call[t]
             /\ call'[t].logger = call[t].logger /\ call'[t].tag = call[t].tag
             /\ call'[t].i = call[t].i /\ call'[t].p = call[t].p
             /\ call'[t].format = call[t].format /\ call'[t].found = call[t].found
             /\ writer(t)' = writer(t)
             /\ call'[t].touched = call[t].touched \cup
                   (IF writer(t) = c.writer THEN {c.n} ELSE {})
  <2>1. call[t] \in Call
    BY <1>5 DEF Base, Calls, InCall
  <2>2. call'[t] = IF writer(t) = c.writer
                     THEN [call[t] EXCEPT !.touched = @ \cup {c.n}] ELSE call[t]
    BY <1>1, <1>5
  <2> QED BY <1>3, <2>1, <2>2 DEF Call, writer
<1> QED BY <1>1, <1>4, <1>5

LEMMA ChangeBase ==
  ASSUME Base, NEW c \in changes, SetOutput(c)
  PROVE  Base'
<1> DEFINE new == outputs'[c.writer][c.n]
<1>1. /\ c.writer \in Writer /\ c.n \in DOMAIN configured[c.writer]
      /\ new.fp \in {outputs[c.writer][c.n].fp} \cup Settings(c.writer, c.n, "fp")
      /\ new.format \in {outputs[c.writer][c.n].format} \cup Settings(c.writer, c.n, "format")
      /\ outputs' \in [Writer -> Seq(Outputs)]
      /\ \A w \in Writer : DOMAIN outputs'[w] = DOMAIN outputs[w]
      /\ \A w \in Writer : \A n \in DOMAIN outputs[w] :
           ~(w = c.writer /\ n = c.n) => outputs'[w][n] = outputs[w][n]
  BY ChangeTypes
<1>2. /\ call' \in [Thread -> Call \cup {NULL}]
      /\ UNCHANGED <<pc, made, mutex, stdio, ended, returned>>
      /\ \A t \in Thread : pc[t] # "idle" =>
           /\ call'[t] \in Call
           /\ call'[t].logger = call[t].logger /\ call'[t].tag = call[t].tag
           /\ call'[t].i = call[t].i /\ writer(t)' = writer(t)
  BY ChangeCalls
<1>3. changed' \in Nat
  BY DEF SetOutput, Base, TypeOK
<1>4. TypeOK'
  BY <1>1, <1>2, <1>3 DEF Base, TypeOK, stdio
<1>5. Configured'
  <2> SUFFICES ASSUME NEW w \in Writer
               PROVE  /\ DOMAIN outputs'[w] = DOMAIN configured[w]
                      /\ \A n \in DOMAIN configured[w] :
                           /\ outputs'[w][n].fp \in Settings(w, n, "fp")
                           /\ outputs'[w][n].format \in Settings(w, n, "format")
    BY DEF Configured, Settings
  <2>1. DOMAIN outputs'[w] = DOMAIN configured[w]
    BY <1>1 DEF Base, Configured
  <2>2. ASSUME NEW n \in DOMAIN configured[w]
        PROVE  /\ outputs'[w][n].fp \in Settings(w, n, "fp")
               /\ outputs'[w][n].format \in Settings(w, n, "format")
    <3>1. /\ n \in DOMAIN outputs[w]
          /\ outputs[w][n].fp \in Settings(w, n, "fp")
          /\ outputs[w][n].format \in Settings(w, n, "format")
      BY DEF Base, Configured
    <3>2. CASE w = c.writer /\ n = c.n
      BY <1>1, <3>1, <3>2
    <3>3. CASE ~(w = c.writer /\ n = c.n)
      BY <1>1, <3>1, <3>3
    <3> QED BY <3>2, <3>3
  <2> QED BY <2>1, <2>2
<1>6. Calls'
  <2> SUFFICES ASSUME NEW t \in Thread, pc'[t] # "idle" PROVE InCall(t)'
    BY DEF Calls
  <2>1. InCall(t) /\ pc[t] # "idle" /\ pc'[t] = pc[t]
    BY <1>2 DEF Base, Calls
  <2>2. writer(t)' = writer(t) /\ writer(t) \in Writer
    BY <1>2, <2>1 DEF InCall
  <2>3. DOMAIN outputs'[writer(t)] = DOMAIN outputs[writer(t)]
    BY <1>1, <2>2
  <2> QED BY <1>2, <2>1, <2>2, <2>3 DEF InCall
<1>7. Locked'
  BY <1>2 DEF Base, Locked, Held
<1> QED BY <1>4, <1>5, <1>6, <1>7 DEF Base

LEMMA NextOutputMove ==
  ASSUME Base, NEW t \in Thread, pc[t] \in Held, NextOutput(t),
         UNCHANGED <<config, made, mutex, ended, returned>>
  PROVE  \E k : Move(t, "outputs", k) /\ k.i = call[t].i + 1 /\ k.p = 1
<1> DEFINE k == [call[t] EXCEPT !.i = @ + 1, !.p = 1]
<1>1. call[t] \in Call
  BY DEF Base, Calls, InCall, Held
<1>2. /\ k \in Call /\ k.i = call[t].i + 1 /\ k.p = 1 /\ k.i >= call[t].i
      /\ k.logger = call[t].logger /\ k.tag = call[t].tag
      /\ k.found = call[t].found /\ k.touched = call[t].touched
  <2> DEFINE c == call[t]
             j == [c EXCEPT !.i = @ + 1]
  <2>1. j \in Call /\ j.i = c.i + 1 /\ c.i \in Nat
        /\ j.logger = c.logger /\ j.tag = c.tag /\ j.found = c.found /\ j.touched = c.touched
    BY <1>1 DEF Call
  <2>2. k = [j EXCEPT !.p = 1]
    BY <1>1 DEF Call
  <2> HIDE DEF j, k
  <2> QED BY <2>1, <2>2 DEF Call
<1>3. pc' = [pc EXCEPT ![t] = "outputs"] /\ call' = [call EXCEPT ![t] = k]
  BY DEF NextOutput, Goto
<1> HIDE DEF k
<1> QED BY <1>2, <1>3 DEF Move, Held

LEMMA NextPieceMove ==
  ASSUME Base, NEW t \in Thread, pc[t] = "format", NextPiece(t),
         UNCHANGED <<config, pc, made, mutex, ended, returned>>
  PROVE  \E k : Move(t, "format", k) /\ k.i = call[t].i /\ k.format = call[t].format
                /\ k.p = call[t].p + 1
<1> DEFINE k == [call[t] EXCEPT !.p = @ + 1]
<1>1. call[t] \in Call /\ call[t].i \in DOMAIN outputs[writer(t)]
  BY DEF Base, Calls, InCall, Held
<1>2. /\ k \in Call /\ k.i = call[t].i /\ k.i >= call[t].i
      /\ k.logger = call[t].logger /\ k.tag = call[t].tag
      /\ k.found = call[t].found /\ k.touched = call[t].touched
      /\ k.format = call[t].format /\ k.p = call[t].p + 1
  BY <1>1 DEF Call
<1>3. pc' = [pc EXCEPT ![t] = "format"]
  <2>1. DOMAIN pc = Thread /\ pc = [x \in Thread |-> pc[x]]
    BY DEF Base, TypeOK
  <2> QED BY <2>1
<1>4. call' = [call EXCEPT ![t] = k]
  BY DEF NextPiece
<1> HIDE DEF k
<1> QED BY <1>1, <1>2, <1>3, <1>4 DEF Move, Held

\* Entering or leaving an output without changing its call.
LEMMA StayMove ==
  ASSUME Base, NEW t \in Thread, pc[t] \in Held, NEW l \in Held, Goto(t, l),
         call[t].i \in DOMAIN outputs[writer(t)],
         UNCHANGED <<config, call, made, mutex, ended, returned>>
  PROVE  Move(t, l, call[t])
<1>1. call[t] \in Call /\ call[t].i \in Nat
  BY DEF Base, Calls, InCall, Call, Held
<1>2. call' = [call EXCEPT ![t] = call[t]]
  BY DEF Base, TypeOK
<1>3. pc' = [pc EXCEPT ![t] = l] /\ call[t].i >= call[t].i
  BY <1>1 DEF Goto
<1> DEFINE k == call[t]
<1>4. call' = [call EXCEPT ![t] = k] /\ k \in Call
  BY <1>1, <1>2
<1>5. /\ k.logger = call[t].logger /\ k.tag = call[t].tag /\ k.i = call[t].i
      /\ k.found = call[t].found /\ k.touched = call[t].touched
  OBVIOUS
<1>6. k.i >= call[t].i
  BY <1>1, <1>5
<1> HIDE DEF k
<1> SUFFICES Move(t, l, k)
  BY DEF k
<1>7. k.i \in DOMAIN outputs[writer(t)]
  BY <1>5
<1> QED BY <1>3, <1>4, <1>5, <1>6, <1>7 DEF Move

LEMMA IndexInRange ==
  ASSUME Base, NEW t \in Thread, pc[t] # "idle", call[t].i <= noutput(t)
  PROVE  call[t].i \in DOMAIN outputs[writer(t)]
<1>1. call[t].i \in Nat /\ call[t].i >= 1 /\ outputs[writer(t)] \in Seq(Outputs)
  BY DEF Base, Calls, InCall, TypeOK, Call
<1>2. DOMAIN outputs[writer(t)] = 1 .. noutput(t) /\ noutput(t) \in Nat
  BY <1>1, LenProperties DEF noutput
<1> QED BY <1>1, <1>2

LEMMA TestMaskMove ==
  ASSUME Base, NEW t \in Thread, TestMask(t)
  PROVE  /\ UNCHANGED stdio /\ call[t].i \in DOMAIN outputs[writer(t)]
         /\ \/ call[t].tag \in output(t).mask /\ Move(t, "selected", call[t])
            \/ /\ call[t].tag \notin output(t).mask
               /\ \E k : Move(t, "outputs", k) /\ k.i = call[t].i + 1 /\ k.p = 1
<1>1. /\ pc[t] = "outputs" /\ call[t].i <= noutput(t)
      /\ UNCHANGED <<config, made, mutex, stdio, ended, returned>>
  BY DEF TestMask, Running
<1>2. call[t].i \in DOMAIN outputs[writer(t)]
  BY <1>1, IndexInRange
<1>3. CASE call[t].tag \in output(t).mask
  <2>1. Goto(t, "selected") /\ UNCHANGED call
    BY <1>3 DEF TestMask
  <2> QED BY <1>1, <1>2, <1>3, <2>1, StayMove DEF Held
<1>4. CASE call[t].tag \notin output(t).mask
  <2>1. NextOutput(t)
    BY <1>4 DEF TestMask
  <2> QED BY <1>1, <1>2, <1>4, <2>1, NextOutputMove DEF Held
<1> QED BY <1>3, <1>4

LEMMA SkipOutputMove ==
  ASSUME Base, NEW t \in Thread, SkipOutput(t)
  PROVE  UNCHANGED stdio /\ \E k : Move(t, "outputs", k) /\ k.i = call[t].i + 1 /\ k.p = 1
<1>1. /\ pc[t] = "selected" /\ NextOutput(t)
      /\ UNCHANGED <<config, made, mutex, stdio, ended, returned>>
  BY DEF SkipOutput, Running
<1> QED BY <1>1, NextOutputMove DEF Held

LEMMA SelectOutputMove ==
  ASSUME Base, NEW t \in Thread, SelectOutput(t)
  PROVE  /\ UNCHANGED stdio
         /\ \E k : Move(t, "format", k) /\ k.i = call[t].i /\ k.p = call[t].p
                   /\ k.format = output(t).format
<1> DEFINE k == [call[t] EXCEPT !.format = output(t).format]
<1>1. /\ pc[t] = "selected" /\ Goto(t, "format") /\ call' = [call EXCEPT ![t] = k]
      /\ UNCHANGED <<config, made, mutex, stdio, ended, returned>>
  BY DEF SelectOutput, Running
<1>2. call[t] \in Call /\ call[t].i \in DOMAIN outputs[writer(t)]
  BY <1>1 DEF Base, Calls, InCall
<1>3. output(t).format \in Seq(Piece)
  <2>1. output(t) \in Outputs
    BY <1>1, OutputType DEF Base
  <2> QED BY <2>1 DEF Outputs
<1>4. /\ k \in Call /\ k.i = call[t].i /\ k.i >= call[t].i /\ k.p = call[t].p
      /\ k.logger = call[t].logger /\ k.tag = call[t].tag
      /\ k.found = call[t].found /\ k.touched = call[t].touched
      /\ k.format = output(t).format
  BY <1>2, <1>3 DEF Call
<1> HIDE DEF k
<1> QED BY <1>1, <1>2, <1>4 DEF Move, Held, Goto

LEMMA IgnorePieceMove ==
  ASSUME Base, NEW t \in Thread, IgnorePiece(t)
  PROVE  UNCHANGED stdio
         /\ \E k : Move(t, "format", k) /\ k.i = call[t].i /\ k.format = call[t].format
                   /\ k.p = call[t].p + 1
  BY NextPieceMove DEF IgnorePiece, Running

LEMMA FlushMove ==
  ASSUME Base, NEW t \in Thread, Flush(t)
  PROVE  /\ \E k : Move(t, "outputs", k) /\ k.i = call[t].i + 1 /\ k.p = 1
         /\ buffer' \in [File -> Seq(Chunk)] /\ file' \in [File -> Seq(Chunk)]
         /\ \A g \in File : Stream(g)' = Stream(g)
         /\ output(t).fp \in File => buffer'[output(t).fp] = <<>>
<1>1. /\ pc[t] = "flush" /\ fflush(output(t).fp) /\ NextOutput(t)
      /\ UNCHANGED <<config, made, mutex, ended, returned>>
  BY DEF Flush, Running
<1>2. output(t).fp \in File \cup {NULL}
  <2>1. output(t) \in Outputs
    BY <1>1, OutputType DEF Base
  <2> QED BY <2>1 DEF Outputs
<1>3. \E k : Move(t, "outputs", k) /\ k.i = call[t].i + 1 /\ k.p = 1
  BY <1>1, NextOutputMove DEF Held
<1>4. TypeOK
  BY DEF Base
<1> QED BY <1>1, <1>2, <1>3, <1>4, Flushed

\* The chunk a thread writes next.
Next_chunk(t, piece) ==
  [message |-> message(t), output |-> call[t].i, p |-> call[t].p, piece |-> piece]

LEMMA WritePieceMove ==
  ASSUME Base, NEW t \in Thread, WritePiece(t)
  PROVE  /\ \E k : Move(t, "format", k) /\ k.i = call[t].i /\ k.format = call[t].format
                   /\ k.p = call[t].p + 1
         /\ pc[t] = "format" /\ output(t).fp # NULL /\ Write(t, AtPiece(t))
         /\ AtPiece(t) \in Piece \cup {"newline"}
<1>1. /\ pc[t] = "format" /\ output(t).fp # NULL /\ Write(t, AtPiece(t)) /\ NextPiece(t)
      /\ AtPiece(t) \in Printed
      /\ UNCHANGED <<config, pc, made, mutex, ended, returned>>
  BY DEF WritePiece, Running
<1>2. AtPiece(t) \in Piece \cup {"newline"}
  BY <1>1 DEF Piece
<1>3. \E k : Move(t, "format", k) /\ k.i = call[t].i /\ k.format = call[t].format
             /\ k.p = call[t].p + 1
  BY <1>1, NextPieceMove
<1> QED BY <1>1, <1>2, <1>3

LEMMA EndLineMove ==
  ASSUME Base, NEW t \in Thread, EndLine(t)
  PROVE  /\ Move(t, "flush", call[t]) /\ AtEnd(t)
         /\ pc[t] = "format" /\ output(t).fp # NULL /\ Write(t, "newline")
<1>1. /\ pc[t] = "format" /\ AtEnd(t) /\ output(t).fp # NULL /\ Write(t, "newline")
      /\ Goto(t, "flush") /\ UNCHANGED <<config, call, made, mutex, ended, returned>>
  BY DEF EndLine, Running
<1>2. call[t].i \in DOMAIN outputs[writer(t)]
  BY <1>1 DEF Base, Calls, InCall
<1>3. Move(t, "flush", call[t])
  BY <1>1, <1>2, StayMove DEF Held
<1> QED BY <1>1, <1>3

\* A stdio call on behalf of t: one chunk more in one file that its writer
\* may write to.
Writes(t) ==
  \E f \in File, piece \in Piece \cup {"newline"} :
    /\ pc[t] \in Held /\ writer(t) \in WritersTo(f)
    /\ Next_chunk(t, piece) \in Chunk
    /\ \A g \in File :
         Stream(g)' = IF g = f THEN Append(Stream(g), Next_chunk(t, piece)) ELSE Stream(g)

LEMMA WriteWrites ==
  ASSUME Base, NEW t \in Thread, pc[t] = "format", output(t).fp # NULL,
         NEW piece \in Piece \cup {"newline"}, Write(t, piece)
  PROVE  Writes(t) /\ buffer' \in [File -> Seq(Chunk)] /\ file' \in [File -> Seq(Chunk)]
<1> DEFINE c == Next_chunk(t, piece)
<1>1. TypeOK /\ Calls /\ InCall(t)
  BY DEF Base, Calls
<1>2. /\ output(t).fp \in File /\ c \in Chunk
      /\ buffer' \in [File -> Seq(Chunk)] /\ file' = file
      /\ \A f \in File :
           Stream(f)' = IF f = output(t).fp THEN Append(Stream(f), c) ELSE Stream(f)
  BY <1>1, Wrote DEF Next_chunk
<1>3. writer(t) \in WritersTo(output(t).fp)
  <2>1. writer(t) \in Writer /\ call[t].i \in DOMAIN configured[writer(t)]
    BY <1>1 DEF InCall, Base, Configured
  <2>2. output(t).fp \in Settings(writer(t), call[t].i, "fp")
    BY <2>1 DEF Base, Configured, output
  <2> QED BY <2>1, <2>2 DEF WritersTo
<1> HIDE DEF c
<1>4. Writes(t)
  BY <1>2, <1>3 DEF Writes, Held, c
<1> QED BY <1>1, <1>2, <1>4 DEF TypeOK

\* No step breaks the types, the arguments or mutual exclusion.
LEMMA NextBase == Base /\ [Next]_vars => Base'
<1> SUFFICES ASSUME Base, [Next]_vars PROVE Base'
  OBVIOUS
<1>0. buffer \in [File -> Seq(Chunk)] /\ file \in [File -> Seq(Chunk)]
  BY DEF Base, TypeOK
<1>1. ASSUME NEW t \in Thread, Lock(t) PROVE Base'
  BY <1>1, LockBase
<1>2. ASSUME NEW t \in Thread, TestMask(t) PROVE Base'
  BY <1>0, <1>2, TestMaskMove, MoveBase DEF stdio
<1>3. ASSUME NEW t \in Thread, SkipOutput(t) PROVE Base'
  BY <1>0, <1>3, SkipOutputMove, MoveBase DEF stdio
<1>4. ASSUME NEW t \in Thread, SelectOutput(t) PROVE Base'
  BY <1>0, <1>4, SelectOutputMove, MoveBase DEF stdio
<1>5. ASSUME NEW t \in Thread, WritePiece(t) PROVE Base'
  <2>1. /\ pc[t] = "format" /\ output(t).fp # NULL /\ Write(t, AtPiece(t))
        /\ AtPiece(t) \in Piece \cup {"newline"}
        /\ \E k : Move(t, "format", k)
    BY <1>5, WritePieceMove
  <2>2. buffer' \in [File -> Seq(Chunk)] /\ file' \in [File -> Seq(Chunk)]
    BY <2>1, WriteWrites
  <2> QED BY <2>1, <2>2, MoveBase
<1>6. ASSUME NEW t \in Thread, IgnorePiece(t) PROVE Base'
  BY <1>0, <1>6, IgnorePieceMove, MoveBase DEF stdio
<1>7. ASSUME NEW t \in Thread, Abort(t) \/ WriteToNull(t) PROVE Base'
  <2>1. PICK cause : End(cause) /\ UNCHANGED <<config, pc, call, made, mutex, returned>>
    BY <1>7 DEF Abort, WriteToNull
  <2> QED BY <2>1, EndBase
<1>8. ASSUME NEW t \in Thread, EndLine(t) PROVE Base'
  <2>1. /\ pc[t] = "format" /\ output(t).fp # NULL /\ Write(t, "newline")
        /\ Move(t, "flush", call[t])
    BY <1>8, EndLineMove
  <2>2. buffer' \in [File -> Seq(Chunk)] /\ file' \in [File -> Seq(Chunk)]
    BY <2>1, WriteWrites
  <2> QED BY <2>1, <2>2, MoveBase
<1>9. ASSUME NEW t \in Thread, Flush(t) PROVE Base'
  BY <1>9, FlushMove, MoveBase
<1>10. ASSUME NEW t \in Thread, Unlock(t) PROVE Base'
  BY <1>10, UnlockBase
<1>11. ASSUME NEW t \in Thread, NEW l \in Logger, NEW tag \in Tag, jlog(t, l, tag) PROVE Base'
  BY <1>11, JlogBase
<1>12. ASSUME NEW f \in File, BufferFull(f) PROVE Base'
  <2>1. FlushTo(f) /\ UNCHANGED <<config, pc, call, made, mutex, ended, returned>>
    BY <1>12 DEF BufferFull
  <2>2. buffer' \in [File -> Seq(Chunk)] /\ file' \in [File -> Seq(Chunk)]
    BY <2>1, FlushedTo DEF Base
  <2>3. TypeOK'
    BY <2>1, <2>2 DEF Base, TypeOK, config
  <2>4. \A u \in Thread : writer(u)' = writer(u)
    BY <2>1 DEF writer
  <2> QED BY <2>1, <2>3, <2>4 DEF Base, Configured, Calls, InCall, Locked, config
<1>13. ASSUME NEW c \in changes, SetOutput(c) PROVE Base'
  BY <1>13, ChangeBase
<1>14. CASE UNCHANGED vars
  BY <1>14 DEF vars, config, stdio, Base, TypeOK, Configured, Calls, InCall, Locked, writer
<1>15. CASE Next
  <2>1. \/ \E t \in Thread : Step(t) \/ \E l \in Logger, tag \in Tag : jlog(t, l, tag)
        \/ \E f \in File : BufferFull(f)
        \/ \E c \in changes : SetOutput(c)
    BY <1>15 DEF Next
  <2>2. ASSUME NEW t \in Thread, Step(t) PROVE Base'
    BY <2>2, <1>1, <1>2, <1>3, <1>4, <1>5, <1>6, <1>7, <1>8, <1>9, <1>10 DEF Step
  <2> QED BY <2>1, <2>2, <1>11, <1>12, <1>13
<1> QED BY <1>14, <1>15
-----------------------------------------------------------------------------
(***************************************************************************)
(* The order of messages.                                                  *)
(***************************************************************************)
Order == Numbered /\ Written /\ Reached /\ Latest /\ Ordered /\ InTurn

LEMMA MessageType ==
  ASSUME Base, NEW t \in Thread
  PROVE  /\ message(t) \in Message
         /\ \A u \in Thread : message(t) = message(u) => t = u
  BY DEF Base, TypeOK, Message, message

\* A message goes through one writer, and a running one through its caller's.
LEMMA OneWriter ==
  ASSUME Base, Numbered, NEW m, NEW w, NEW v, Through(m, w), Through(m, v)
  PROVE  w = v
<1>1. ASSUME NEW r \in returned, NEW t \in Thread, pc[t] # "idle", r.message = message(t)
      PROVE  FALSE
  <2>1. r.message.thread = t /\ r.message.number = made[t] /\ made[t] \in Nat
    BY <1>1 DEF message, Base, TypeOK
  <2> QED BY <1>1, <2>1 DEF Numbered
<1>2. CASE \E r \in returned : r.message = m /\ loggers[r.logger].writer = w
  BY <1>1, <1>2 DEF Through, Numbered
<1>3. CASE \E t \in Thread : pc[t] # "idle" /\ m = message(t) /\ writer(t) = w
  BY <1>1, <1>3, MessageType DEF Through
<1> QED BY <1>2, <1>3 DEF Through

\* Calls go on or the process ends; no call begins or returns.
GoesOn ==
  /\ UNCHANGED <<made, returned>>
  /\ \A t \in Thread :
       /\ pc[t] = "idle" <=> pc'[t] = "idle"
       /\ pc[t] \in Held => pc'[t] \in Held
       /\ pc[t] # "idle" => writer(t)' = writer(t) /\ call'[t].i >= call[t].i

LEMMA GoesOnThrough ==
  ASSUME GoesOn
  PROVE  /\ \A t \in Thread : message(t)' = message(t)
         /\ \A m, w : Through(m, w)' <=> Through(m, w)
<1>1. \A t \in Thread : message(t)' = message(t)
  BY DEF GoesOn, message
<1> QED BY <1>1 DEF GoesOn, Through

\* Nothing new is written.
NothingNew ==
  \A f \in File : /\ DOMAIN Stream(f)' \subseteq DOMAIN Stream(f)
                  /\ \A a \in DOMAIN Stream(f)' : Stream(f)'[a] = Stream(f)[a]

LEMMA GoesOnOrder ==
  ASSUME Base, Base', Order, GoesOn, NothingNew
  PROVE  Order'
<1>1. \A t \in Thread : message(t)' = message(t)
  BY GoesOnThrough
<1>2. \A m, w : Through(m, w)' <=> Through(m, w)
  BY GoesOnThrough
<1>3. Numbered'
  BY DEF Order, Numbered, GoesOn, Base, TypeOK, Returned, Message
<1>4. Written'
  <2>1. \A f \in File : WritersTo(f)' = WritersTo(f)
    BY DEF WritersTo, Settings
  <2> QED BY <1>2, <2>1 DEF Order, Written, NothingNew
<1>5. Reached'
  <2> SUFFICES ASSUME NEW t \in Thread, NEW f \in File, NEW a \in DOMAIN Stream(f)',
                      pc'[t] # "idle", Stream(f)'[a].message = message(t)
               PROVE  pc'[t] \in Held /\ Stream(f)'[a].output <= call'[t].i
    BY <1>1 DEF Reached
  <2>1. a \in DOMAIN Stream(f) /\ Stream(f)'[a] = Stream(f)[a] /\ Stream(f)[a] \in Chunk
    BY StreamType DEF NothingNew, Base
  <2>2. pc[t] # "idle" /\ call'[t].i >= call[t].i
    BY DEF GoesOn
  <2>3. pc[t] \in Held /\ Stream(f)[a].output <= call[t].i
    BY <2>1, <2>2 DEF Order, Reached
  <2>4. pc'[t] \in Held
    BY <2>3 DEF GoesOn
  <2>5. call[t].i \in Nat /\ call'[t].i \in Nat /\ Stream(f)[a].output \in Nat
    BY <2>1, <2>2, <2>4 DEF Base, Calls, InCall, Call, Chunk, Held
  <2> QED BY <2>1, <2>2, <2>3, <2>4, <2>5
<1>6. Latest'
  <2> SUFFICES ASSUME NEW t \in Thread, NEW f \in File,
                      NEW a \in DOMAIN Stream(f)', NEW b \in DOMAIN Stream(f)',
                      pc'[t] \in Held, a < b, Stream(f)'[a].message = message(t),
                      Through(Stream(f)[b].message, writer(t))'
               PROVE  Stream(f)'[b].message = message(t)
    BY <1>1 DEF Latest
  <2>1. /\ a \in DOMAIN Stream(f) /\ Stream(f)'[a] = Stream(f)[a]
        /\ b \in DOMAIN Stream(f) /\ Stream(f)'[b] = Stream(f)[b]
    BY DEF NothingNew
  <2>2. pc[t] # "idle" /\ writer(t)' = writer(t)
    BY DEF GoesOn, Held
  <2>3. pc[t] \in Held
    BY <2>1, <2>2 DEF Order, Reached
  <2>4. Through(Stream(f)[b].message, writer(t))
    BY <1>2, <2>1, <2>2
  <2> QED BY <2>1, <2>3, <2>4 DEF Order, Latest
<1>7. Ordered'
  <2>1. \A f \in File, m, n \in Message : Before(f, m, n)' => Before(f, m, n)
    BY DEF NothingNew, Before
  <2> QED BY <1>2, <2>1 DEF Order, Ordered
<1>8. InTurn'
  BY DEF NothingNew, Order, InTurn
<1> QED BY <1>3, <1>4, <1>5, <1>6, <1>7, <1>8 DEF Order

\* A chunk written under the mutex comes after all others of its writer.
LEMMA WriteOrder ==
  ASSUME Base, Base', Order, GoesOn, NEW t \in Thread, Writes(t), pc'[t] \in Held
  PROVE  Order'
<1>1. /\ \A u \in Thread : message(u)' = message(u)
      /\ \A m, w : Through(m, w)' <=> Through(m, w)
  BY GoesOnThrough
<1>2. PICK ff \in File, piece \in Piece \cup {"newline"} :
        /\ pc[t] \in Held /\ writer(t) \in WritersTo(ff)
        /\ Next_chunk(t, piece) \in Chunk
        /\ \A g \in File :
             Stream(g)' = IF g = ff THEN Append(Stream(g), Next_chunk(t, piece)) ELSE Stream(g)
  BY DEF Writes
<1> DEFINE c == Next_chunk(t, piece)
           new == Len(Stream(ff)) + 1
<1>3. c.message = message(t) /\ c.output = call[t].i /\ c \in Chunk
  BY <1>2 DEF Next_chunk
<1>4. pc[t] # "idle" /\ InCall(t) /\ Through(message(t), writer(t))
  BY <1>2 DEF Through, Base, Calls, Held
\* What is in the streams now: what was, and the new chunk.
<1>5. /\ new \in DOMAIN Stream(ff)' /\ Stream(ff)'[new] = c
      /\ DOMAIN Stream(ff)' = DOMAIN Stream(ff) \cup {new}
      /\ \A a \in DOMAIN Stream(ff) : Stream(ff)'[a] = Stream(ff)[a] /\ a < new
  <2>1. Stream(ff) \in Seq(Chunk)
    BY StreamType DEF Base
  <2>2. Stream(ff)' = Append(Stream(ff), c)
    BY <1>2
  <2> HIDE DEF c
  <2> QED BY <1>3, <2>1, <2>2, Appended
<1>6. ASSUME NEW f \in File, NEW a \in DOMAIN Stream(f)'
      PROVE  \/ a \in DOMAIN Stream(f) /\ Stream(f)'[a] = Stream(f)[a]
             \/ f = ff /\ a = new /\ Stream(f)'[a] = c
  BY <1>2, <1>5
<1>7. ASSUME NEW f \in File, NEW a \in DOMAIN Stream(f)', NEW b \in DOMAIN Stream(f)', a < b
      PROVE  a \in DOMAIN Stream(f) /\ Stream(f)'[a] = Stream(f)[a]
  <2>1. CASE f = ff
    <3>1. a # new
      <4>1. DOMAIN Stream(ff) \subseteq Nat /\ new \in Nat
        BY StreamType DEF Base
      <4> QED BY <1>5, <1>7, <2>1, <4>1
    <3> QED BY <1>6, <2>1, <3>1
  <2>2. CASE f # ff
    BY <1>6, <2>2
  <2> QED BY <2>1, <2>2
<1> HIDE DEF c, new
\* Only t holds the mutex of its writer.
<1>8. \A u \in Thread : pc[u] \in Held /\ writer(u) = writer(t) => u = t
  BY <1>2 DEF Base, Locked
<1>9. \A u \in Thread : pc'[u] \in Held => pc[u] # "idle" /\ writer(u)' = writer(u)
  BY DEF GoesOn, Held
<1>10. Numbered'
  BY DEF Order, Numbered, GoesOn, Base, TypeOK, Returned, Message
<1>11. Written'
  <2>1. \A f \in File : WritersTo(f)' = WritersTo(f)
    BY DEF WritersTo, Settings
  <2> QED BY <1>1, <1>2, <1>3, <1>4, <1>6, <2>1 DEF Order, Written
<1>12. Reached'
  <2> SUFFICES ASSUME NEW u \in Thread, NEW f \in File, NEW a \in DOMAIN Stream(f)',
                      pc'[u] # "idle", Stream(f)'[a].message = message(u)
               PROVE  pc'[u] \in Held /\ Stream(f)'[a].output <= call'[u].i
    BY <1>1 DEF Reached
  <2>1. pc[u] # "idle" /\ call'[u].i >= call[u].i /\ (pc[u] \in Held => pc'[u] \in Held)
        /\ call[u].i \in Nat /\ call'[u].i \in Nat
    BY DEF GoesOn, Base, Calls, InCall, Call
  <2>2. CASE a \in DOMAIN Stream(f) /\ Stream(f)'[a] = Stream(f)[a]
    <3>1. pc[u] \in Held /\ Stream(f)[a].output <= call[u].i
      BY <2>1, <2>2 DEF Order, Reached
    <3>2. Stream(f)[a].output \in Nat
      BY <2>2, StreamType DEF Base, Chunk
    <3> QED BY <2>1, <2>2, <3>1, <3>2
  <2>3. CASE Stream(f)'[a] = c
    <3>1. u = t
      BY <1>3, <2>3, MessageType
    <3> QED BY <1>2, <1>3, <2>1, <2>3, <3>1
  <2> QED BY <1>6, <2>2, <2>3
<1>13. Latest'
  <2> SUFFICES ASSUME NEW u \in Thread, NEW f \in File,
                      NEW a \in DOMAIN Stream(f)', NEW b \in DOMAIN Stream(f)',
                      pc'[u] \in Held, a < b, Stream(f)'[a].message = message(u),
                      Through(Stream(f)[b].message, writer(u))'
               PROVE  Stream(f)'[b].message = message(u)
    BY <1>1 DEF Latest
  <2>1. a \in DOMAIN Stream(f) /\ Stream(f)'[a] = Stream(f)[a]
    BY <1>7
  <2>2. pc[u] \in Held
    BY <1>9, <2>1 DEF Order, Reached
  <2>3. Through(Stream(f)'[b].message, writer(u))
    BY <1>1, <1>9
  <2>4. CASE b \in DOMAIN Stream(f) /\ Stream(f)'[b] = Stream(f)[b]
    BY <2>1, <2>2, <2>3, <2>4 DEF Order, Latest
  <2>5. CASE Stream(f)'[b] = c
    <3>1. writer(u) = writer(t)
      BY <1>3, <1>4, <2>3, <2>5, OneWriter DEF Order
    <3> QED BY <1>3, <1>8, <2>2, <2>5, <3>1
  <2> QED BY <1>6, <2>4, <2>5
<1>14. Ordered'
  <2> SUFFICES ASSUME NEW w \in Writer, NEW m \in Message, NEW n \in Message, m # n,
                      Through(m, w), Through(n, w), NEW f \in File, NEW g \in File,
                      Before(f, m, n)', Before(g, n, m)'
               PROVE  FALSE
    BY <1>1 DEF Ordered
  <2>1. ASSUME NEW h \in File, NEW x \in Message, NEW y \in Message, Before(h, x, y)'
        PROVE  \/ Before(h, x, y)
               \/ y = message(t) /\ \E a \in DOMAIN Stream(h) : Stream(h)[a].message = x
    <3>1. PICK a \in DOMAIN Stream(h)', b \in DOMAIN Stream(h)' :
            a < b /\ Stream(h)'[a].message = x /\ Stream(h)'[b].message = y
      BY <2>1 DEF Before
    <3> QED BY <1>3, <1>6, <1>7, <3>1 DEF Before
  <2>2. ASSUME NEW h \in File, NEW x \in Message, x # message(t), Through(x, w), Through(message(t), w),
               Before(h, message(t), x)
        PROVE  FALSE
    <3>1. w = writer(t)
      BY <1>4, <2>2, OneWriter DEF Order
    <3> QED BY <1>2, <2>2, <3>1 DEF Order, Latest, Before
  <2>3. CASE Before(f, m, n) /\ Before(g, n, m)
    BY <2>3 DEF Order, Ordered
  <2>4. CASE n = message(t)
    <3>1. Before(g, n, m)
      BY <2>1, <2>4
    <3> QED BY <2>2, <2>4, <3>1
  <2>5. CASE m = message(t)
    <3>1. Before(f, m, n)
      BY <2>1, <2>5
    <3> QED BY <2>2, <2>5, <3>1
  <2> QED BY <2>1, <2>3, <2>4, <2>5
<1>15. InTurn'
  <2> SUFFICES ASSUME NEW f \in File, NEW a \in DOMAIN Stream(f)', NEW b \in DOMAIN Stream(f)',
                      a < b, Stream(f)'[a].message = Stream(f)'[b].message
               PROVE  Stream(f)'[a].output <= Stream(f)'[b].output
    BY DEF InTurn
  <2>1. a \in DOMAIN Stream(f) /\ Stream(f)'[a] = Stream(f)[a]
    BY <1>7
  <2>2. CASE b \in DOMAIN Stream(f) /\ Stream(f)'[b] = Stream(f)[b]
    BY <2>1, <2>2 DEF Order, InTurn
  <2>3. CASE Stream(f)'[b] = c
    BY <1>3, <1>4, <2>1, <2>3 DEF Order, Reached
  <2> QED BY <1>6, <2>2, <2>3
<1> QED BY <1>10, <1>11, <1>12, <1>13, <1>14, <1>15 DEF Order

\* A new call has a message of its own, which is nowhere yet.
LEMMA JlogOrder ==
  ASSUME Base, Base', Order, NEW t \in Thread, NEW l \in Logger, NEW tag \in Tag, jlog(t, l, tag)
  PROVE  Order'
<1> DEFINE m0 == [thread |-> t, number |-> made[t] + 1]
<1>1. /\ pc[t] = "idle" /\ made' = [made EXCEPT ![t] = @ + 1] /\ UNCHANGED stdio
      /\ made[t] \in Nat
  BY DEF jlog, Running, Base, TypeOK
<1>2. \A f \in File : Stream(f)' = Stream(f)
  BY <1>1 DEF Stream, stdio
<1>3. \A u \in Thread : u # t => /\ pc'[u] = pc[u] /\ call'[u] = call[u] /\ made'[u] = made[u]
                                 /\ writer(u)' = writer(u) /\ message(u)' = message(u)
  BY DEF jlog, Goto, Return, Base, TypeOK, writer, message
<1>4. made'[t] = made[t] + 1 /\ message(t)' = m0
  BY <1>1 DEF message, Base, TypeOK
<1>5. \A w : ~Through(m0, w)
  <2> SUFFICES ASSUME NEW w, Through(m0, w) PROVE FALSE
    OBVIOUS
  <2>1. CASE \E r \in returned : r.message = m0
    BY <1>1, <2>1 DEF Order, Numbered
  <2>2. CASE \E u \in Thread : pc[u] # "idle" /\ m0 = message(u)
    BY <1>1, <2>2 DEF message
  <2> QED BY <2>1, <2>2 DEF Through
<1>6. \A f \in File : \A a \in DOMAIN Stream(f) : Stream(f)[a].message # m0
  BY <1>5 DEF Order, Written
<1> HIDE DEF m0
<1>7. /\ \A m, w : Through(m, w)' <=> Through(m, w) \/ (m = m0 /\ w = loggers[l].writer)
      /\ pc'[t] \notin Held
      /\ \A r \in returned' : r \in returned \/ (r.message = m0 /\ pc'[t] = "idle")
      /\ \A r, q \in returned' : r \notin returned /\ q \notin returned => r = q
  <2>1. CASE tag \in loggers[l].mask /\ loggers[l].writer # NULL
    <3>1. pc'[t] = "lock" /\ returned' = returned
      BY <2>1 DEF jlog, Goto, Base, TypeOK
    <3>2. call'[t].logger = l
      BY <2>1 DEF jlog, Base, TypeOK
    <3>3. writer(t)' = loggers[l].writer
      BY <3>2 DEF writer
    <3>4. \A m, w : Through(m, w)' <=> Through(m, w) \/ (m = m0 /\ w = loggers[l].writer)
      <4> SUFFICES ASSUME NEW m, NEW w
                   PROVE  Through(m, w)' <=> Through(m, w) \/ (m = m0 /\ w = loggers[l].writer)
        OBVIOUS
      <4>1. (\E r \in returned' : r.message = m /\ loggers[r.logger].writer = w)
              <=> (\E r \in returned : r.message = m /\ loggers[r.logger].writer = w)
        BY <3>1
      <4>2. (\E u \in Thread : pc'[u] # "idle" /\ m = message(u)' /\ writer(u)' = w)
              <=> \/ \E u \in Thread : pc[u] # "idle" /\ m = message(u) /\ writer(u) = w
                  \/ m = m0 /\ w = loggers[l].writer
        BY <1>1, <1>3, <1>4, <3>1, <3>3
      <4> QED BY <4>1, <4>2 DEF Through
    <3> QED BY <3>1, <3>4 DEF Held
  <2>2. CASE ~(tag \in loggers[l].mask /\ loggers[l].writer # NULL)
    <3> DEFINE r0 == [message |-> [thread |-> t, number |-> made'[t]], logger |-> l, tag |-> tag,
                      found |-> <<>>, touched |-> {}]
    <3>1. Return(t, l, tag, <<>>, {})
      BY <2>2 DEF jlog
    <3>2. pc'[t] = "idle" /\ returned' = returned \cup {r0}
      BY <3>1 DEF Return, Goto, Base, TypeOK
    <3>3. r0.message = m0 /\ r0.logger = l
      BY <1>4 DEF m0
    <3> HIDE DEF r0
    <3>4. \A m, w : Through(m, w)' <=> Through(m, w) \/ (m = m0 /\ w = loggers[l].writer)
      <4> SUFFICES ASSUME NEW m, NEW w
                   PROVE  Through(m, w)' <=> Through(m, w) \/ (m = m0 /\ w = loggers[l].writer)
        OBVIOUS
      <4>1. (\E r \in returned' : r.message = m /\ loggers[r.logger].writer = w)
              <=> \/ \E r \in returned : r.message = m /\ loggers[r.logger].writer = w
                  \/ m = m0 /\ w = loggers[l].writer
        BY <3>2, <3>3
      <4>2. (\E u \in Thread : pc'[u] # "idle" /\ m = message(u)' /\ writer(u)' = w)
              <=> (\E u \in Thread : pc[u] # "idle" /\ m = message(u) /\ writer(u) = w)
        BY <1>1, <1>3, <3>2
      <4> QED BY <4>1, <4>2 DEF Through
    <3> QED BY <3>2, <3>3, <3>4 DEF Held
  <2> QED BY <2>1, <2>2
<1>8. Numbered'
  <2>1. ASSUME NEW r \in returned'
        PROVE  LET u == r.message.thread
               IN  r.message.number <= made'[u] /\ (pc'[u] # "idle" => r.message.number < made'[u])
    <3>1. CASE r \in returned
      <4>1. r.message.thread \in Thread /\ r.message.number \in Nat
        BY <3>1 DEF Base, TypeOK, Returned, Message
      <4> QED BY <1>1, <1>3, <1>4, <3>1, <4>1 DEF Order, Numbered
    <3>2. CASE r.message = m0 /\ pc'[t] = "idle"
      BY <1>1, <1>4, <3>2 DEF m0
    <3> QED BY <1>7, <3>1, <3>2
  <2>2. ASSUME NEW r \in returned', NEW q \in returned', r.message = q.message
        PROVE  r = q
    <3>1. CASE r \in returned /\ q \in returned
      BY <2>2, <3>1 DEF Order, Numbered
    <3>2. \A x \in returned : x.message # m0
      BY <1>5 DEF Through
    <3> QED BY <1>7, <2>2, <3>1, <3>2
  <2> QED BY <2>1, <2>2 DEF Numbered
<1>9. Written'
  <2>1. \A f \in File : WritersTo(f)' = WritersTo(f)
    BY DEF WritersTo, Settings
  <2> QED BY <1>2, <1>7, <2>1 DEF Order, Written
<1>10. Reached'
  BY <1>2, <1>3, <1>4, <1>6 DEF Order, Reached
<1>11. Latest'
  <2> SUFFICES ASSUME NEW u \in Thread, NEW f \in File,
                      NEW a \in DOMAIN Stream(f), NEW b \in DOMAIN Stream(f),
                      pc'[u] \in Held, a < b, Stream(f)[a].message = message(u)',
                      Through(Stream(f)[b].message, writer(u))'
               PROVE  Stream(f)[b].message = message(u)'
    BY <1>2 DEF Latest
  <2>1. u # t
    BY <1>7
  <2>2. Through(Stream(f)[b].message, writer(u))
    BY <1>2, <1>3, <1>6, <1>7, <2>1
  <2> QED BY <1>3, <2>1, <2>2 DEF Order, Latest
<1>12. Ordered'
  <2>1. \A f \in File, m, n \in Message : Before(f, m, n)' <=> Before(f, m, n)
    BY <1>2 DEF Before
  <2>2. \A f \in File, m, n \in Message : Before(f, m, n) => m # m0 /\ n # m0
    BY <1>6 DEF Before
  <2> QED BY <1>7, <2>1, <2>2 DEF Order, Ordered
<1>13. InTurn'
  BY <1>2 DEF Order, InTurn
<1> QED BY <1>8, <1>9, <1>10, <1>11, <1>12, <1>13 DEF Order

\* A call that returns keeps its message and its writer.
LEMMA UnlockOrder ==
  ASSUME Base, Base', Order, NEW t \in Thread, Unlock(t)
  PROVE  Order'
<1> DEFINE r0 == [message |-> message(t), logger |-> call[t].logger, tag |-> call[t].tag,
                  found |-> call[t].found, touched |-> call[t].touched]
<1>1. /\ pc[t] = "outputs" /\ pc' = [pc EXCEPT ![t] = "idle"] /\ call' = [call EXCEPT ![t] = NULL]
      /\ UNCHANGED <<made, stdio>> /\ returned' = returned \cup {r0}
  BY Returns
<1>2. r0.message = message(t) /\ loggers[r0.logger].writer = writer(t)
  BY DEF writer
<1>3. \A f \in File : Stream(f)' = Stream(f)
  BY <1>1 DEF Stream, stdio
<1>4. /\ \A u \in Thread : u # t => pc'[u] = pc[u] /\ call'[u] = call[u] /\ writer(u)' = writer(u)
      /\ pc'[t] = "idle" /\ \A u \in Thread : message(u)' = message(u)
  BY <1>1 DEF Base, TypeOK, writer, message
<1> HIDE DEF r0
<1>5. \A m, w : Through(m, w)' <=> Through(m, w)
  <2> SUFFICES ASSUME NEW m, NEW w PROVE Through(m, w)' <=> Through(m, w)
    OBVIOUS
  <2>1. (\E r \in returned' : r.message = m /\ loggers[r.logger].writer = w)
          <=> \/ \E r \in returned : r.message = m /\ loggers[r.logger].writer = w
              \/ m = message(t) /\ writer(t) = w
    BY <1>1, <1>2
  <2>2. (\E u \in Thread : pc[u] # "idle" /\ m = message(u) /\ writer(u) = w)
          <=> \/ \E u \in Thread : pc'[u] # "idle" /\ m = message(u)' /\ writer(u)' = w
              \/ m = message(t) /\ writer(t) = w
    BY <1>1, <1>4
  <2> QED BY <2>1, <2>2 DEF Through
<1>6. Numbered'
  <2>1. made[t] \in Nat /\ message(t).thread = t /\ message(t).number = made[t]
    BY DEF Base, TypeOK, message
  <2>2. ASSUME NEW r \in returned'
        PROVE  LET u == r.message.thread
               IN  r.message.number <= made'[u] /\ (pc'[u] # "idle" => r.message.number < made'[u])
    <3>1. CASE r \in returned
      <4>1. r.message.thread \in Thread
        BY <3>1 DEF Base, TypeOK, Returned, Message
      <4> QED BY <1>1, <1>4, <3>1, <4>1 DEF Order, Numbered
    <3>2. CASE r = r0
      BY <1>1, <1>2, <1>4, <2>1, <3>2
    <3> QED BY <1>1, <3>1, <3>2
  <2>3. \A r \in returned : r.message # message(t)
    BY <1>1, <2>1 DEF Order, Numbered
  <2>4. \A r, q \in returned' : r.message = q.message => r = q
    BY <1>1, <1>2, <2>3 DEF Order, Numbered
  <2> QED BY <2>2, <2>4 DEF Numbered
<1>7. Written'
  <2>1. \A f \in File : WritersTo(f)' = WritersTo(f)
    BY DEF WritersTo, Settings
  <2> QED BY <1>3, <1>5, <2>1 DEF Order, Written
<1>8. Reached'
  BY <1>3, <1>4 DEF Order, Reached
<1>9. Latest'
  <2> SUFFICES ASSUME NEW u \in Thread, NEW f \in File,
                      NEW a \in DOMAIN Stream(f), NEW b \in DOMAIN Stream(f),
                      pc'[u] \in Held, a < b, Stream(f)[a].message = message(u)',
                      Through(Stream(f)[b].message, writer(u))'
               PROVE  Stream(f)[b].message = message(u)'
    BY <1>3 DEF Latest
  <2>1. u # t
    BY <1>4 DEF Held
  <2>2. Through(Stream(f)[b].message, writer(u))
    BY <1>3, <1>4, <1>5, <2>1
  <2> QED BY <1>4, <2>1, <2>2 DEF Order, Latest
<1>10. Ordered'
  <2>1. \A f \in File, m, n \in Message : Before(f, m, n)' <=> Before(f, m, n)
    BY <1>3 DEF Before
  <2> QED BY <1>5, <2>1 DEF Order, Ordered
<1>11. InTurn'
  BY <1>3 DEF Order, InTurn
<1> QED BY <1>6, <1>7, <1>8, <1>9, <1>10, <1>11 DEF Order

LEMMA MoveGoesOn ==
  ASSUME Base, NEW t \in Thread, NEW l, NEW k, Move(t, l, k)
  PROVE  GoesOn /\ pc'[t] \in Held
<1>1. pc'[t] = l /\ call'[t] = k /\ pc[t] # "idle" /\ l # "idle"
  BY DEF Move, Base, TypeOK, Held
<1>2. \A u \in Thread : u # t => pc'[u] = pc[u] /\ call'[u] = call[u] /\ writer(u)' = writer(u)
  BY DEF Move, Base, TypeOK, writer
<1>3. writer(t)' = writer(t)
  BY <1>1 DEF Move, writer
<1>4. \A u \in Thread : pc[u] # "idle" => call[u].i \in Nat
  BY DEF Base, Calls, InCall, Call
<1> QED BY <1>1, <1>2, <1>3, <1>4 DEF GoesOn, Move

LEMMA SameStreams == UNCHANGED stdio => NothingNew
  BY DEF stdio, NothingNew, Stream

LEMMA EndNew ==
  ASSUME Base, NEW cause, End(cause)
  PROVE  /\ NothingNew
         /\ \A f \in File : Stream(f)' = file[f] /\ buffer'[f] = <<>>
<1> SUFFICES ASSUME NEW f \in File
             PROVE  /\ Stream(f)' = file[f] /\ buffer'[f] = <<>>
                    /\ DOMAIN file[f] \subseteq DOMAIN Stream(f)
                    /\ \A a \in DOMAIN file[f] : Stream(f)[a] = file[f][a]
  BY DEF NothingNew
<1>1. file[f] \in Seq(Chunk) /\ buffer[f] \in Seq(Chunk)
  BY DEF Base, TypeOK
<1>2. file'[f] = file[f] /\ buffer'[f] = <<>>
  BY DEF End
<1>3. Stream(f)' = file[f]
  <2>1. file[f] \o <<>> = file[f]
    BY <1>1, ConcatEmptySeq
  <2> QED BY <1>2, <2>1 DEF Stream
<1>4. /\ DOMAIN file[f] \subseteq DOMAIN Stream(f)
      /\ \A a \in DOMAIN file[f] : Stream(f)[a] = file[f][a]
  BY <1>1, ConcatPrefix DEF Stream
<1> QED BY <1>2, <1>3, <1>4

LEMMA InitOrder == Init => Order
<1> SUFFICES ASSUME Init PROVE Order
  OBVIOUS
<1>1. \A f \in File : DOMAIN Stream(f) = {}
  <2>1. <<>> \in Seq({}) /\ <<>> \o <<>> = <<>> /\ DOMAIN <<>> = {}
    BY EmptySeq, ConcatEmptySeq
  <2> QED BY <2>1 DEF Init, Stream
<1>2. returned = {} /\ \A t \in Thread : pc[t] = "idle"
  BY DEF Init
<1>3. \A f \in File : \A m, n : ~Before(f, m, n)
  BY <1>1 DEF Before
<1> QED BY <1>1, <1>2, <1>3
        DEF Order, Numbered, Written, Reached, Latest, Ordered, InTurn, Held

LEMMA NextOrder == Base /\ Order /\ [Next]_vars => Order'
<1> SUFFICES ASSUME Base, Order, [Next]_vars PROVE Order'
  OBVIOUS
<1>0. Base'
  BY NextBase
\* A step that stays where it is, for those that change no call.
<1>s. (UNCHANGED <<pc, call, made, returned>>) => GoesOn
  <2>1. \A u \in Thread : pc[u] # "idle" => call[u].i \in Nat
    BY DEF Base, Calls, InCall, Call
  <2> QED BY <2>1 DEF GoesOn, writer
<1>m. ASSUME NEW t \in Thread, NEW l, NEW k, Move(t, l, k), UNCHANGED stdio PROVE Order'
  BY <1>0, <1>m, MoveGoesOn, SameStreams, GoesOnOrder
<1>1. ASSUME NEW t \in Thread, Lock(t) PROVE Order'
  <2>1. /\ pc[t] = "lock" /\ pc' = [pc EXCEPT ![t] = "outputs"]
        /\ UNCHANGED <<call, made, stdio, returned>>
    BY <1>1 DEF Lock, Running, Goto
  <2>2. \A u \in Thread : pc[u] # "idle" => call[u].i \in Nat
    BY DEF Base, Calls, InCall, Call
  <2>3. GoesOn
    BY <2>1, <2>2 DEF GoesOn, writer, Held, Base, TypeOK
  <2> QED BY <1>0, <2>1, <2>3, SameStreams, GoesOnOrder
<1>2. ASSUME NEW t \in Thread, TestMask(t) PROVE Order'
  BY <1>2, <1>m, TestMaskMove
<1>3. ASSUME NEW t \in Thread, SkipOutput(t) PROVE Order'
  BY <1>3, <1>m, SkipOutputMove
<1>4. ASSUME NEW t \in Thread, SelectOutput(t) PROVE Order'
  BY <1>4, <1>m, SelectOutputMove
<1>5. ASSUME NEW t \in Thread, WritePiece(t) PROVE Order'
  <2>1. Writes(t)
    BY <1>5, WritePieceMove, WriteWrites
  <2>2. GoesOn /\ pc'[t] \in Held
    BY <1>5, WritePieceMove, MoveGoesOn
  <2> QED BY <1>0, <2>1, <2>2, WriteOrder
<1>6. ASSUME NEW t \in Thread, IgnorePiece(t) PROVE Order'
  BY <1>6, <1>m, IgnorePieceMove
<1>7. ASSUME NEW t \in Thread, Abort(t) \/ WriteToNull(t) PROVE Order'
  <2>1. PICK cause : End(cause) /\ UNCHANGED <<config, pc, call, made, mutex, returned>>
    BY <1>7 DEF Abort, WriteToNull
  <2> QED BY <1>0, <1>s, <2>1, EndNew, GoesOnOrder
<1>8. ASSUME NEW t \in Thread, EndLine(t) PROVE Order'
  <2>1. Writes(t)
    BY <1>8, EndLineMove, WriteWrites
  <2>2. GoesOn /\ pc'[t] \in Held
    BY <1>8, EndLineMove, MoveGoesOn
  <2> QED BY <1>0, <2>1, <2>2, WriteOrder
<1>9. ASSUME NEW t \in Thread, Flush(t) PROVE Order'
  <2>1. GoesOn
    BY <1>9, FlushMove, MoveGoesOn
  <2>2. NothingNew
    BY <1>9, FlushMove DEF NothingNew
  <2> QED BY <1>0, <2>1, <2>2, GoesOnOrder
<1>10. ASSUME NEW t \in Thread, Unlock(t) PROVE Order'
  BY <1>0, <1>10, UnlockOrder
<1>11. ASSUME NEW t \in Thread, NEW l \in Logger, NEW tag \in Tag, jlog(t, l, tag) PROVE Order'
  BY <1>0, <1>11, JlogOrder
<1>12. ASSUME NEW f \in File, BufferFull(f) PROVE Order'
  <2>1. FlushTo(f) /\ UNCHANGED <<config, pc, call, made, mutex, ended, returned>>
    BY <1>12 DEF BufferFull
  <2>2. NothingNew
    BY <2>1, FlushedTo DEF NothingNew, Base
  <2> QED BY <1>0, <1>s, <2>1, <2>2, GoesOnOrder
<1>13. ASSUME NEW c \in changes, SetOutput(c) PROVE Order'
  <2>1. UNCHANGED <<pc, made, stdio, returned>>
    BY <1>13, ChangeCalls
  <2>2. \A u \in Thread : pc[u] # "idle" =>
          writer(u)' = writer(u) /\ call'[u].i = call[u].i /\ call[u].i \in Nat
    BY <1>13, ChangeCalls DEF Base, Calls, InCall, Call
  <2>3. GoesOn
    BY <2>1, <2>2 DEF GoesOn
  <2> QED BY <1>0, <2>1, <2>3, SameStreams, GoesOnOrder
<1>14. CASE UNCHANGED vars
  <2>1. UNCHANGED <<pc, call, made, returned, stdio>>
    BY <1>14 DEF vars
  <2> QED BY <1>0, <1>s, <2>1, SameStreams, GoesOnOrder
<1>15. CASE Next
  <2>1. \/ \E t \in Thread : Step(t) \/ \E l \in Logger, tag \in Tag : jlog(t, l, tag)
        \/ \E f \in File : BufferFull(f)
        \/ \E c \in changes : SetOutput(c)
    BY <1>15 DEF Next
  <2>2. ASSUME NEW t \in Thread, Step(t) PROVE Order'
    BY <2>2, <1>1, <1>2, <1>3, <1>4, <1>5, <1>6, <1>7, <1>8, <1>9, <1>10 DEF Step
  <2> QED BY <2>1, <2>2, <1>11, <1>12, <1>13
<1> QED BY <1>14, <1>15

\* In a file of one writer, whatever comes between two chunks of a line
\* belongs to its message, or the two messages would be in both orders, and to
\* its output, which the message has not left.
LEMMA OrderLinesWhole == Base /\ Order => LinesWhole
<1> SUFFICES ASSUME Base, Order, NEW f \in File, \A v, w \in WritersTo(f) : v = w,
                    NEW a \in DOMAIN Stream(f), NEW b \in DOMAIN Stream(f),
                    NEW d \in DOMAIN Stream(f), a < b, b < d,
                    Stream(f)[a].message = Stream(f)[d].message,
                    Stream(f)[a].output = Stream(f)[d].output
             PROVE  /\ Stream(f)[a].message = Stream(f)[b].message
                    /\ Stream(f)[a].output = Stream(f)[b].output
  BY DEF LinesWhole
<1> DEFINE m == Stream(f)[a].message
           n == Stream(f)[b].message
<1>1. \A e \in DOMAIN Stream(f) : Stream(f)[e] \in Chunk
  BY StreamType DEF Base
<1>2. m \in Message /\ n \in Message
  BY <1>1 DEF Chunk
<1>3. PICK w \in WritersTo(f) : Through(m, w) /\ Through(n, w)
  BY DEF Order, Written
<1>4. w \in Writer
  BY DEF WritersTo
<1>5. Before(f, m, n) /\ Before(f, n, m)
  BY DEF Before
<1>6. m = n
  <2> HIDE DEF m, n
  <2> QED BY <1>2, <1>3, <1>4, <1>5 DEF Order, Ordered
<1>7. Stream(f)[a].output <= Stream(f)[b].output /\ Stream(f)[b].output <= Stream(f)[d].output
  BY <1>6 DEF Order, InTurn
<1>8. Stream(f)[a].output \in Nat /\ Stream(f)[b].output \in Nat
  BY <1>1 DEF Chunk
<1> QED BY <1>6, <1>7, <1>8

LEMMA OrderSameOrder == Base /\ Order => SameOrder
<1> SUFFICES ASSUME Base, Order, NEW r \in returned, NEW q \in returned,
                    r.message # q.message,
                    loggers[r.logger].writer = loggers[q.logger].writer,
                    NEW f \in File, NEW g \in File,
                    Before(f, r.message, q.message), Before(g, q.message, r.message)
             PROVE  FALSE
  BY DEF SameOrder
<1> DEFINE w == loggers[r.logger].writer
<1>1. Through(r.message, w) /\ Through(q.message, w)
  BY DEF Through
<1>2. r.message \in Message /\ q.message \in Message
  BY DEF Base, TypeOK, Returned
<1>3. w \in Writer
  <2>1. PICK a \in DOMAIN Stream(f) : Stream(f)[a].message = r.message
    BY DEF Before
  <2>2. PICK v \in WritersTo(f) : Through(r.message, v)
    BY <2>1 DEF Order, Written
  <2>3. v = w
    BY <1>1, <2>2, OneWriter DEF Order
  <2> QED BY <2>2, <2>3 DEF WritersTo
<1> HIDE DEF w
<1> QED BY <1>1, <1>2, <1>3 DEF Order, Ordered
-----------------------------------------------------------------------------
(***************************************************************************)
(* What was delivered.                                                     *)
(***************************************************************************)
\* What all the files together hold of one message by one output.
Whole(m, n) == UNION {Content(Stream(f), m, n) : f \in File}

\* The pieces of a format before p.
Begun(format, p) ==
  {<<q, format[q]>> : q \in {r \in DOMAIN format : r < p /\ format[r] \in Printed}}

\* An untouched output is as the call found it; its mask let the call in, and
\* its format is the one that is written.
Loop(t) ==
  LET k == call[t] IN
    /\ DOMAIN k.found = DOMAIN outputs[writer(t)] /\ k.touched \subseteq DOMAIN k.found
    /\ \A n \in DOMAIN k.found \ k.touched : outputs[writer(t)][n] = k.found[n]
    /\ pc[t] \in {"lock", "outputs", "selected"} => k.p = 1
    /\ pc[t] = "format" => k.p \in 1 .. Len(k.format) + 1
    /\ pc[t] \in {"format", "flush"} =>
         /\ k.format \in Settings(writer(t), k.i, "format")
         /\ k.i \notin k.touched => k.format = k.found[k.i].format /\ k.found[k.i].fp # NULL
    /\ pc[t] \in {"selected", "format", "flush"} /\ k.i \notin k.touched =>
         k.tag \in k.found[k.i].mask

\* Where the chunks of a running call are: in the file of an untouched output,
\* those of the output it is at only while it goes through the format, up to
\* p, those of untouched outputs before it flushed.
Places(t) ==
  LET k == call[t] IN
    \A f \in File : \A a \in DOMAIN Stream(f) :
      LET n == Stream(f)[a].output IN
        Stream(f)[a].message = message(t) =>
          /\ n = k.i => /\ pc[t] \in {"format", "flush"}
                        /\ pc[t] = "format" => Stream(f)[a].p < k.p
          /\ n \in DOMAIN k.found \ k.touched =>
               f = k.found[n].fp /\ (n < k.i => a <= Len(file[f]))

\* What the files hold of the output a thread is at.
Current(t) ==
  CASE pc[t] = "format" -> Begun(call[t].format, call[t].p)
    [] pc[t] = "flush" -> Line(call[t].format)
    [] OTHER -> {}

\* What they are: one line per output before i, and part of one for i.
Contents(t) ==
  LET k == call[t] IN
    ended = "no" => \A n \in DOMAIN k.found :
      /\ n < k.i =>
           /\ Whole(message(t), n) \in
                {{}} \cup {Line(format) : format \in Settings(writer(t), n, "format")}
           /\ n \notin k.touched =>
                Whole(message(t), n) =
                  IF k.found[n].fp # NULL /\ k.tag \in k.found[n].mask
                    THEN Line(k.found[n].format) ELSE {}
      /\ n = k.i => Whole(message(t), n) = Current(t)
      /\ n > k.i => Whole(message(t), n) = {}

Going(t) == Loop(t) /\ Places(t) /\ Contents(t)

\* What a call leaves when it returns.
Done(r) ==
  LET lg == loggers[r.logger] IN
    IF r.tag \notin lg.mask \/ lg.writer = NULL
      THEN r.touched = {} /\ \A f \in File : \A a \in DOMAIN Stream(f) : Stream(f)[a].message # r.message
      ELSE /\ \A f \in File, n \in DOMAIN r.found \ r.touched :
                LET o == r.found[n] IN
                  /\ Content(Stream(f), r.message, n) =
                       IF o.fp = f /\ r.tag \in o.mask THEN Line(o.format) ELSE {}
                  /\ \A a \in Mine(Stream(f), r.message, n) : a <= Len(file[f])
           /\ ended = "no" => \A n \in r.touched :
                Whole(r.message, n) \in
                  {{}} \cup {Line(format) : format \in Settings(lg.writer, n, "format")}

\* A message writes each place of a format of one output once, in their order.
Ascending ==
  \A f, g \in File : \A a \in DOMAIN Stream(f), b \in DOMAIN Stream(g) :
    LET x == Stream(f)[a]
        y == Stream(g)[b]
    IN  x.message = y.message /\ x.output = y.output =>
          /\ x.p = y.p => f = g /\ a = b
          /\ f = g /\ a < b => x.p < y.p

Progress ==
  /\ \A t \in Thread : pc[t] # "idle" => Going(t)
  /\ \A r \in returned : Done(r)
  /\ Ascending

\* One chunk more.
LEMMA AppendContent ==
  ASSUME NEW s \in Seq(Chunk), NEW c \in Chunk, NEW m, NEW n
  PROVE  /\ Mine(Append(s, c), m, n) = Mine(s, m, n) \cup
              (IF c.message = m /\ c.output = n THEN {Len(s) + 1} ELSE {})
         /\ Content(Append(s, c), m, n) = Content(s, m, n) \cup
              (IF c.message = m /\ c.output = n THEN {<<c.p, c.piece>>} ELSE {})
<1> DEFINE u == Append(s, c)
           new == Len(s) + 1
<1>1. /\ DOMAIN u = DOMAIN s \cup {new} /\ u[new] = c
      /\ \A a \in DOMAIN s : u[a] = s[a] /\ a < new
  BY Appended
<1> HIDE DEF u, new
<1>2. Mine(u, m, n) = Mine(s, m, n) \cup (IF c.message = m /\ c.output = n THEN {new} ELSE {})
  BY <1>1 DEF Mine
<1>3. \A a \in Mine(s, m, n) : u[a] = s[a]
  BY <1>1 DEF Mine
<1>4. Content(u, m, n) = Content(s, m, n) \cup
        (IF c.message = m /\ c.output = n THEN {<<c.p, c.piece>>} ELSE {})
  <2>1. CASE c.message = m /\ c.output = n
    <3>1. Mine(u, m, n) = Mine(s, m, n) \cup {new}
      BY <1>2, <2>1
    <3> QED BY <1>1, <1>3, <2>1, <3>1 DEF Content
  <2>2. CASE ~(c.message = m /\ c.output = n)
    <3>1. Mine(u, m, n) = Mine(s, m, n)
      BY <1>2, <2>2
    <3> QED BY <1>3, <2>2, <3>1 DEF Content
  <2> QED BY <2>1, <2>2
<1> QED BY <1>2, <1>4 DEF u, new

\* A step that writes nothing of message m: what is written of it stays, what
\* is in a buffer unless the process ends.
Keeps(m) ==
  /\ ended' = "no" => ended = "no"
  /\ \A f \in File :
       /\ Len(file[f]) <= Len(file'[f])
       /\ \A a \in DOMAIN Stream(f)' :
            Stream(f)'[a].message = m => a \in DOMAIN Stream(f) /\ Stream(f)'[a] = Stream(f)[a]
       /\ \A a \in DOMAIN Stream(f) :
            a <= Len(file[f]) \/ ended' = "no" =>
              a \in DOMAIN Stream(f)' /\ Stream(f)'[a] = Stream(f)[a]

LEMMA KeepsMine ==
  ASSUME NEW m, Keeps(m), NEW f \in File, NEW n
  PROVE  /\ Mine(Stream(f), m, n)' \subseteq Mine(Stream(f), m, n)
         /\ \A a \in Mine(Stream(f), m, n)' : Stream(f)'[a] = Stream(f)[a]
         /\ (ended' = "no" \/ \A a \in Mine(Stream(f), m, n) : a <= Len(file[f])) =>
              /\ Mine(Stream(f), m, n)' = Mine(Stream(f), m, n)
              /\ Content(Stream(f), m, n)' = Content(Stream(f), m, n)
<1>1. /\ Mine(Stream(f), m, n)' \subseteq Mine(Stream(f), m, n)
      /\ \A a \in Mine(Stream(f), m, n)' : Stream(f)'[a] = Stream(f)[a]
  BY DEF Keeps, Mine
<1>2. ASSUME ended' = "no" \/ \A a \in Mine(Stream(f), m, n) : a <= Len(file[f])
      PROVE  /\ Mine(Stream(f), m, n)' = Mine(Stream(f), m, n)
             /\ Content(Stream(f), m, n)' = Content(Stream(f), m, n)
  <2>1. \A a \in Mine(Stream(f), m, n) : a \in Mine(Stream(f), m, n)'
    BY <1>2 DEF Keeps, Mine
  <2>2. Mine(Stream(f), m, n)' = Mine(Stream(f), m, n)
    BY <1>1, <2>1
  <2> QED BY <1>1, <2>2 DEF Content
<1> QED BY <1>1, <1>2

LEMMA KeepsWhole ==
  ASSUME NEW m, Keeps(m), ended' = "no", NEW n
  PROVE  Whole(m, n)' = Whole(m, n)
<1>1. \A f \in File : Content(Stream(f), m, n)' = Content(Stream(f), m, n)
  BY KeepsMine
<1> QED BY <1>1 DEF Whole

LEMMA FileType ==
  ASSUME Base, NEW f \in File
  PROVE  /\ Len(file[f]) \in Nat /\ Len(file[f]) <= Len(Stream(f))
         /\ DOMAIN Stream(f) \subseteq Nat
<1>1. file[f] \in Seq(Chunk) /\ buffer[f] \in Seq(Chunk)
  BY DEF Base, TypeOK
<1>2. Len(file[f]) \in Nat /\ Len(buffer[f]) \in Nat /\ Len(Stream(f)) = Len(file[f]) + Len(buffer[f])
  BY <1>1, LenProperties, ConcatProperties DEF Stream
<1>3. DOMAIN Stream(f) \subseteq Nat
  BY StreamType DEF Base
<1>4. \A x, y \in Nat : x <= x + y
  OBVIOUS
<1>5. Len(file[f]) <= Len(Stream(f))
  BY <1>2, <1>4
<1> QED BY <1>2, <1>3, <1>5

LEMMA KeepsDone ==
  ASSUME Base, Base', NEW r \in returned, Done(r), Keeps(r.message)
  PROVE  Done(r)'
<1> DEFINE lg == loggers[r.logger]
<1>1. CASE r.tag \notin lg.mask \/ lg.writer = NULL
  <2>1. r.touched = {} /\ \A f \in File : \A a \in DOMAIN Stream(f) : Stream(f)[a].message # r.message
    BY <1>1 DEF Done
  <2>2. \A f \in File : \A a \in DOMAIN Stream(f)' : Stream(f)'[a].message # r.message
    BY <2>1 DEF Keeps
  <2> QED BY <1>1, <2>1, <2>2 DEF Done
<1>2. CASE ~(r.tag \notin lg.mask \/ lg.writer = NULL)
  <2>1. ASSUME NEW f \in File, NEW n \in DOMAIN r.found \ r.touched
        PROVE  LET o == r.found[n] IN
                 /\ Content(Stream(f), r.message, n)' =
                      IF o.fp = f /\ r.tag \in o.mask THEN Line(o.format) ELSE {}
                 /\ \A a \in Mine(Stream(f), r.message, n)' : a <= Len(file'[f])
    <3>1. /\ Content(Stream(f), r.message, n) =
               IF r.found[n].fp = f /\ r.tag \in r.found[n].mask THEN Line(r.found[n].format) ELSE {}
          /\ \A a \in Mine(Stream(f), r.message, n) : a <= Len(file[f])
      BY <1>2 DEF Done
    <3>2. /\ Mine(Stream(f), r.message, n)' = Mine(Stream(f), r.message, n)
          /\ Content(Stream(f), r.message, n)' = Content(Stream(f), r.message, n)
      BY <3>1, KeepsMine
    <3>3. Len(file[f]) \in Nat /\ Len(file'[f]) \in Nat /\ Len(file[f]) <= Len(file'[f])
          /\ DOMAIN Stream(f) \subseteq Nat
      BY FileType DEF Keeps
    <3>4. \A a \in Mine(Stream(f), r.message, n) : a \in Nat
      BY <3>3 DEF Mine
    <3> QED BY <3>1, <3>2, <3>3, <3>4
  <2>2. ASSUME ended' = "no", NEW n \in r.touched
        PROVE  Whole(r.message, n)' \in
                 {{}} \cup {Line(format) : format \in Settings(lg.writer, n, "format")}
    <3>1. ended = "no"
      BY <2>2 DEF Keeps
    <3> QED BY <1>2, <2>2, <3>1, KeepsWhole DEF Done
  <2> QED BY <1>2, <2>1, <2>2 DEF Done, Settings
<1> QED BY <1>1, <1>2

\* What a step of another thread does to a running call.
LEMMA KeepsGoing ==
  ASSUME Base, Base', NEW t \in Thread, pc[t] # "idle", Going(t), Keeps(message(t)),
         pc'[t] = pc[t], call'[t] = call[t], message(t)' = message(t), outputs' = outputs
  PROVE  Going(t)'
<1>1. writer(t)' = writer(t)
  BY DEF writer
<1>2. \A n : Settings(writer(t), n, "format")' = Settings(writer(t), n, "format")
  BY <1>1 DEF Settings
<1>3. Loop(t)'
  BY <1>1, <1>2 DEF Going, Loop
<1>4. Places(t)'
  <2> SUFFICES ASSUME NEW f \in File, NEW a \in DOMAIN Stream(f)',
                      Stream(f)'[a].message = message(t)
               PROVE  LET k == call[t]
                          n == Stream(f)'[a].output IN
                        /\ n = k.i => /\ pc[t] \in {"format", "flush"}
                                      /\ pc[t] = "format" => Stream(f)'[a].p < k.p
                        /\ n \in DOMAIN k.found \ k.touched =>
                             f = k.found[n].fp /\ (n < k.i => a <= Len(file'[f]))
    BY DEF Places
  <2>1. a \in DOMAIN Stream(f) /\ Stream(f)'[a] = Stream(f)[a] /\ Len(file[f]) <= Len(file'[f])
    BY DEF Keeps
  <2>2. a \in Nat /\ Len(file[f]) \in Nat /\ Len(file'[f]) \in Nat
    BY <2>1, FileType
  <2> QED BY <2>1, <2>2 DEF Going, Places
<1>5. Contents(t)'
  <2>1. CASE ended' # "no"
    BY <2>1 DEF Contents
  <2>2. CASE ended' = "no"
    <3>1. ended = "no"
      BY <2>2 DEF Keeps
    <3>2. PICK m : m = message(t)
      OBVIOUS
    <3>3. \A n : Whole(m, n)' = Whole(m, n)
      BY <2>2, <3>2, KeepsWhole
    <3>4. \A n : Whole(message(t), n)' = Whole(message(t), n)
      BY <3>2, <3>3
    <3> QED BY <1>2, <3>1, <3>4 DEF Going, Contents, Current
  <2> QED BY <2>1, <2>2
<1> QED BY <1>3, <1>4, <1>5 DEF Going

LEMMA MoveFacts ==
  ASSUME Base, NEW t \in Thread, NEW l, NEW k, Move(t, l, k)
  PROVE  /\ pc[t] # "idle" /\ pc'[t] = l /\ call'[t] = k /\ k \in Call /\ call[t] \in Call
         /\ writer(t)' = writer(t) /\ outputs' = outputs /\ ended' = ended
         /\ returned' = returned
         /\ \A u \in Thread : message(u)' = message(u)
         /\ \A u \in Thread : u # t => pc'[u] = pc[u] /\ call'[u] = call[u]
         /\ \A n, field : Settings(writer(t), n, field)' = Settings(writer(t), n, field)
<1>1. /\ pc[t] # "idle" /\ pc'[t] = l /\ call'[t] = k /\ k \in Call
      /\ outputs' = outputs /\ ended' = ended /\ returned' = returned /\ made' = made
      /\ \A u \in Thread : u # t => pc'[u] = pc[u] /\ call'[u] = call[u]
  BY DEF Move, Base, TypeOK, config, Held
<1>2. call[t] \in Call
  BY <1>1 DEF Base, Calls, InCall
<1>3. writer(t)' = writer(t)
  BY <1>1 DEF Move, writer
<1>4. \A u \in Thread : message(u)' = message(u)
  BY <1>1 DEF message
<1>5. \A n, field : Settings(writer(t), n, field)' = Settings(writer(t), n, field)
  BY <1>3 DEF Settings
<1> QED BY <1>1, <1>2, <1>3, <1>4, <1>5

\* The streams stay, and files only grow.
Still ==
  \A f \in File : Stream(f)' = Stream(f) /\ Len(file[f]) <= Len(file'[f])

LEMMA StillKeeps ==
  ASSUME Still, ended' = ended, NEW m
  PROVE  Keeps(m)
  BY DEF Still, Keeps

LEMMA StdioStill == ASSUME Base, UNCHANGED stdio PROVE Still
<1>1. \A f \in File : Len(file[f]) \in Nat
  BY FileType
<1> QED BY <1>1 DEF Still, stdio, Stream

LEMMA EndKeeps ==
  ASSUME Base, NEW cause, cause # "no", End(cause), NEW m
  PROVE  Keeps(m)
<1> SUFFICES ASSUME NEW f \in File
             PROVE  /\ Len(file[f]) <= Len(file'[f])
                    /\ \A a \in DOMAIN Stream(f)' :
                         a \in DOMAIN Stream(f) /\ Stream(f)'[a] = Stream(f)[a]
                    /\ \A a \in DOMAIN Stream(f) : a <= Len(file[f]) =>
                         a \in DOMAIN Stream(f)' /\ Stream(f)'[a] = Stream(f)[a]
  BY DEF Keeps, End
<1>1. file[f] \in Seq(Chunk) /\ buffer[f] \in Seq(Chunk) /\ file'[f] = file[f]
  BY DEF Base, TypeOK, End
<1>2. Stream(f)' = file[f]
  BY EndNew
<1>3. /\ DOMAIN file[f] \subseteq DOMAIN Stream(f)
      /\ \A a \in DOMAIN file[f] : Stream(f)[a] = file[f][a]
  BY <1>1, ConcatPrefix DEF Stream
<1>4. DOMAIN file[f] = 1 .. Len(file[f]) /\ Len(file[f]) \in Nat
  BY <1>1, LenProperties
<1>5. DOMAIN Stream(f) = 1 .. Len(Stream(f))
  BY StreamType DEF Base
<1>6. \A a \in DOMAIN Stream(f) : a <= Len(file[f]) => a \in DOMAIN file[f]
  BY <1>4, <1>5
<1> QED BY <1>1, <1>2, <1>3, <1>4, <1>6

\* What one chunk changes.
LEMMA WriteContents ==
  ASSUME Base, NEW t \in Thread, pc[t] = "format", output(t).fp # NULL,
         NEW piece \in Piece \cup {"newline"}, Write(t, piece), ended' = ended, made' = made
  PROVE  /\ output(t).fp \in File /\ file' = file
         /\ \A m : m # message(t) => Keeps(m)
         /\ \A n : Whole(message(t), n)' = Whole(message(t), n) \cup
              (IF n = call[t].i THEN {<<call[t].p, piece>>} ELSE {})
         /\ \A f \in File : \A a \in DOMAIN Stream(f)' :
              \/ a \in DOMAIN Stream(f) /\ Stream(f)'[a] = Stream(f)[a]
              \/ f = output(t).fp /\ a = Len(Stream(f)) + 1 /\ Stream(f)'[a] = Next_chunk(t, piece)
<1>0. /\ output(t).fp \in File /\ Next_chunk(t, piece) \in Chunk /\ file' = file
      /\ \A f \in File : Stream(f)' =
           IF f = output(t).fp THEN Append(Stream(f), Next_chunk(t, piece)) ELSE Stream(f)
  BY Wrote DEF Next_chunk, Base
<1>1. PICK ff \in File, c \in Chunk :
        /\ ff = output(t).fp /\ c = Next_chunk(t, piece)
        /\ \A f \in File : Stream(f)' = IF f = ff THEN Append(Stream(f), c) ELSE Stream(f)
  BY <1>0
<1>2. c.message = message(t) /\ c.output = call[t].i /\ c.p = call[t].p /\ c.piece = piece
  BY <1>1 DEF Next_chunk
<1>3. \A f \in File : Stream(f) \in Seq(Chunk)
  BY StreamType DEF Base
<1>4. /\ DOMAIN Stream(ff)' = DOMAIN Stream(ff) \cup {Len(Stream(ff)) + 1}
      /\ Stream(ff)'[Len(Stream(ff)) + 1] = c
      /\ \A a \in DOMAIN Stream(ff) : Stream(ff)'[a] = Stream(ff)[a]
  <2>1. Stream(ff) \in Seq(Chunk) /\ Stream(ff)' = Append(Stream(ff), c)
    BY <1>1, <1>3
  <2> QED BY <2>1, Appended
<1>5. ASSUME NEW f \in File, NEW a \in DOMAIN Stream(f)'
      PROVE  \/ a \in DOMAIN Stream(f) /\ Stream(f)'[a] = Stream(f)[a]
             \/ f = ff /\ a = Len(Stream(f)) + 1 /\ Stream(f)'[a] = c
  BY <1>1, <1>4
<1>6. ASSUME NEW m, m # message(t) PROVE Keeps(m)
  <2>1. \A f \in File : Len(file[f]) \in Nat
    BY FileType
  <2>2. \A f \in File : \A a \in DOMAIN Stream(f) : a \in DOMAIN Stream(f)' /\ Stream(f)'[a] = Stream(f)[a]
    BY <1>1, <1>4
  <2> QED BY <1>0, <1>2, <1>5, <1>6, <2>1, <2>2 DEF Keeps
<1>7. ASSUME NEW n
      PROVE  Whole(message(t), n)' = Whole(message(t), n) \cup
               (IF n = call[t].i THEN {<<call[t].p, piece>>} ELSE {})
  <2>1. PICK m : m = message(t) /\ m = message(t)'
    BY DEF message
  <2> DEFINE more == IF n = call[t].i THEN {<<call[t].p, piece>>} ELSE {}
  <2>2. Content(Stream(ff), m, n)' = Content(Stream(ff), m, n) \cup more
    <3>1. Content(Append(Stream(ff), c), m, n) = Content(Stream(ff), m, n) \cup
            (IF c.message = m /\ c.output = n THEN {<<c.p, c.piece>>} ELSE {})
      BY <1>1, <1>3, AppendContent
    <3>2. Stream(ff)' = Append(Stream(ff), c)
      BY <1>1
    <3>3. Content(Stream(ff), m, n)' = Content(Append(Stream(ff), c), m, n)
      BY <3>2 DEF Content, Mine
    <3> QED BY <1>2, <2>1, <3>1, <3>3
  <2>3. \A f \in File : f # ff => Content(Stream(f), m, n)' = Content(Stream(f), m, n)
    BY <1>1 DEF Content, Mine
  <2> HIDE DEF more
  <2>4. Whole(m, n)' = Whole(m, n) \cup more
    BY <1>1, <2>2, <2>3 DEF Whole
  <2>5. Whole(message(t), n)' = Whole(m, n)'
    BY <2>1
  <2> QED BY <2>1, <2>4, <2>5 DEF more
<1> QED BY <1>0, <1>1, <1>5, <1>6, <1>7

\* What a running call knows of itself.
LEMMA CallFacts ==
  ASSUME Base, NEW t \in Thread, pc[t] # "idle", Loop(t)
  PROVE  /\ call[t] \in Call /\ call[t].i \in Nat /\ call[t].i >= 1 /\ call[t].p \in Nat
         /\ call[t].found \in Seq(Outputs) /\ DOMAIN call[t].found \subseteq Nat
         /\ \A n \in DOMAIN call[t].found : n >= 1 /\ call[t].found[n] \in Outputs
         /\ pc[t] \in {"selected", "format", "flush"} => call[t].i \in DOMAIN call[t].found
         /\ call[t].i <= noutput(t) => call[t].i \in DOMAIN call[t].found
         /\ call[t].i \in DOMAIN call[t].found \ call[t].touched => output(t) = call[t].found[call[t].i]
<1>1. InCall(t) /\ call[t] \in Call
  BY DEF Base, Calls, InCall
<1>2. /\ call[t].i \in Nat /\ call[t].i >= 1 /\ call[t].p \in Nat /\ call[t].found \in Seq(Outputs)
  BY <1>1 DEF InCall, Call
<1>3. DOMAIN call[t].found \subseteq Nat
      /\ \A n \in DOMAIN call[t].found : n >= 1 /\ call[t].found[n] \in Outputs
  BY <1>2, LenProperties, ElementOfSeq
<1>4. pc[t] \in {"selected", "format", "flush"} => call[t].i \in DOMAIN call[t].found
  BY <1>1 DEF InCall, Loop
<1>5. call[t].i <= noutput(t) => call[t].i \in DOMAIN call[t].found
  BY IndexInRange DEF Loop
<1>6. call[t].i \in DOMAIN call[t].found \ call[t].touched => output(t) = call[t].found[call[t].i]
  BY DEF Loop, output
<1> QED BY <1>1, <1>2, <1>3, <1>4, <1>5, <1>6

\* t goes to the next output, having left this one as it should.
LEMMA AdvanceGoing ==
  ASSUME Base, Base', Reached, NEW t \in Thread, Going(t), NEW k, Move(t, "outputs", k),
         k.i = call[t].i + 1, k.p = 1, Still,
         call[t].i \in DOMAIN call[t].found,
         ended = "no" =>
           /\ Whole(message(t), call[t].i) \in
                {{}} \cup {Line(format) : format \in Settings(writer(t), call[t].i, "format")}
           /\ call[t].i \notin call[t].touched =>
                Whole(message(t), call[t].i) =
                  IF call[t].found[call[t].i].fp # NULL /\ call[t].tag \in call[t].found[call[t].i].mask
                    THEN Line(call[t].found[call[t].i].format) ELSE {},
         \A f \in File : \A a \in DOMAIN Stream(f) :
           /\ Stream(f)[a].message = message(t) /\ Stream(f)[a].output = call[t].i
           /\ call[t].i \notin call[t].touched
           => a <= Len(file'[f])
  PROVE  Going(t)'
<1>1. /\ pc[t] # "idle" /\ pc'[t] = "outputs" /\ call'[t] = k /\ k \in Call /\ call[t] \in Call
      /\ writer(t)' = writer(t) /\ outputs' = outputs /\ ended' = ended /\ message(t)' = message(t)
      /\ \A n, field : Settings(writer(t), n, field)' = Settings(writer(t), n, field)
  BY MoveFacts
<1>2. k.found = call[t].found /\ k.touched = call[t].touched /\ k.tag = call[t].tag
  BY DEF Move
<1>3. /\ call[t].i \in Nat /\ DOMAIN call[t].found \subseteq Nat
      /\ \A n \in DOMAIN call[t].found : n < k.i <=> n < call[t].i \/ n = call[t].i
      /\ \A n \in DOMAIN call[t].found : n >= k.i => n > call[t].i
  BY <1>1, CallFacts DEF Going
<1>4. Loop(t)'
  BY <1>1, <1>2 DEF Going, Loop
<1>5. Places(t)'
  <2> SUFFICES ASSUME NEW f \in File, NEW a \in DOMAIN Stream(f)',
                      Stream(f)'[a].message = message(t)
               PROVE  LET n == Stream(f)'[a].output IN
                        /\ n # k.i
                        /\ n \in DOMAIN k.found \ k.touched =>
                             f = k.found[n].fp /\ (n < k.i => a <= Len(file'[f]))
    BY <1>1 DEF Places
  <2>1. a \in DOMAIN Stream(f) /\ Stream(f)'[a] = Stream(f)[a] /\ Len(file[f]) <= Len(file'[f])
    BY DEF Still
  <2>2. a \in Nat /\ Len(file[f]) \in Nat /\ Len(file'[f]) \in Nat
    BY <2>1, FileType
  <2>3. Stream(f)[a].output <= call[t].i /\ Stream(f)[a].output \in Nat
    <3>1. Stream(f)[a] \in Chunk
      BY <2>1, StreamType DEF Base
    <3> QED BY <1>1, <2>1, <3>1 DEF Reached, Chunk
  <2> DEFINE n == Stream(f)[a].output
  <2>4. n # k.i
    BY <1>3, <2>3
  <2>5. ASSUME n \in DOMAIN k.found \ k.touched PROVE f = k.found[n].fp
    BY <1>2, <2>1, <2>5 DEF Going, Places
  <2>6. ASSUME n \in DOMAIN k.found \ k.touched, n < call[t].i PROVE a <= Len(file'[f])
    <3>1. a <= Len(file[f])
      BY <1>2, <2>1, <2>6 DEF Going, Places
    <3> QED BY <2>1, <2>2, <3>1
  <2>7. ASSUME n \in DOMAIN k.found \ k.touched, n = call[t].i PROVE a <= Len(file'[f])
    BY <1>2, <2>1, <2>7
  <2> QED BY <1>2, <1>3, <2>1, <2>4, <2>5, <2>6, <2>7
<1>6. Contents(t)'
  <2> SUFFICES ASSUME ended' = "no" PROVE Contents(t)'
    BY DEF Contents
  <2>1. PICK m : m = message(t) /\ m = message(t)'
    BY <1>1
  <2>2. \A n : Whole(m, n)' = Whole(m, n)
    BY <1>1, StillKeeps, KeepsWhole
  <2>3. ended = "no" /\ \A n : Whole(message(t), n)' = Whole(message(t), n)
    BY <1>1, <2>1, <2>2
  <2> SUFFICES ASSUME NEW n \in DOMAIN k.found
               PROVE
      /\ n < k.i =>
           /\ Whole(message(t), n) \in
                {{}} \cup {Line(format) : format \in Settings(writer(t), n, "format")}
           /\ n \notin k.touched =>
                Whole(message(t), n) =
                  IF k.found[n].fp # NULL /\ k.tag \in k.found[n].mask
                    THEN Line(k.found[n].format) ELSE {}
      /\ n >= k.i => Whole(message(t), n) = {}
    <3>1. k.i \in Nat /\ \A n \in DOMAIN k.found : n \in Nat
      BY <1>1, <1>2, <1>3 DEF Call
    <3>2. Current(t)' = {}
      BY <1>1 DEF Current
    <3> QED BY <1>1, <2>3, <3>1, <3>2 DEF Contents
  <2>4. CASE n < call[t].i
    BY <1>2, <1>3, <2>3, <2>4 DEF Going, Contents
  <2>5. CASE n = call[t].i
    BY <1>2, <1>3, <2>3, <2>5
  <2>6. CASE n > call[t].i
    BY <1>2, <1>3, <2>3, <2>6 DEF Going, Contents
  <2> QED BY <1>2, <1>3, <2>4, <2>5, <2>6
<1> QED BY <1>4, <1>5, <1>6 DEF Going

\* t stays at its output and writes at most one chunk.
LEMMA SameOutputGoing ==
  ASSUME Base, Base', NEW t \in Thread, Going(t), NEW k,
         pc[t] # "idle", pc'[t] # "idle", pc[t] # "flush", call'[t] = k, k \in Call,
         k.i = call[t].i, k.found = call[t].found, k.touched = call[t].touched, k.tag = call[t].tag,
         writer(t)' = writer(t), message(t)' = message(t), ended' = ended,
         \A n : Settings(writer(t), n, "format")' = Settings(writer(t), n, "format"),
         Loop(t)',
         pc[t] = "format" => /\ pc'[t] \in {"format", "flush"}
                             /\ pc'[t] = "format" => k.p >= call[t].p,
         \A f \in File : Len(file[f]) <= Len(file'[f]),
         \A f \in File : \A a \in DOMAIN Stream(f)' :
           \/ a \in DOMAIN Stream(f) /\ Stream(f)'[a] = Stream(f)[a]
           \/ /\ Stream(f)'[a].output = call[t].i
              /\ pc'[t] \in {"format", "flush"}
              /\ pc'[t] = "format" => Stream(f)'[a].p < k.p
              /\ call[t].i \notin call[t].touched => f = call[t].found[call[t].i].fp,
         ended = "no" => \A n : Whole(message(t), n)' =
                           IF n = call[t].i /\ n \in DOMAIN call[t].found
                             THEN Current(t)' ELSE Whole(message(t), n)
  PROVE  Going(t)'
<1>1. /\ call[t] \in Call /\ call[t].i \in Nat /\ call[t].p \in Nat /\ k.p \in Nat
      /\ DOMAIN call[t].found \subseteq Nat
  BY CallFacts DEF Going, Call
<1>2. Places(t)'
  <2> SUFFICES ASSUME NEW f \in File, NEW a \in DOMAIN Stream(f)',
                      Stream(f)'[a].message = message(t)
               PROVE  LET n == Stream(f)'[a].output IN
                        /\ n = k.i => /\ pc'[t] \in {"format", "flush"}
                                      /\ pc'[t] = "format" => Stream(f)'[a].p < k.p
                        /\ n \in DOMAIN k.found \ k.touched =>
                             f = k.found[n].fp /\ (n < k.i => a <= Len(file'[f]))
    BY DEF Places
  <2>1. CASE a \in DOMAIN Stream(f) /\ Stream(f)'[a] = Stream(f)[a]
    <3> DEFINE n == Stream(f)[a].output
    <3>1. a \in Nat /\ Len(file[f]) \in Nat /\ Len(file'[f]) \in Nat
      BY <2>1, FileType
    <3>2. Stream(f)[a].p \in Nat
      BY <2>1, StreamType DEF Base, Chunk
    <3>3. /\ n = call[t].i => /\ pc[t] \in {"format", "flush"}
                              /\ pc[t] = "format" => Stream(f)[a].p < call[t].p
          /\ n \in DOMAIN call[t].found \ call[t].touched =>
               f = call[t].found[n].fp /\ (n < call[t].i => a <= Len(file[f]))
      BY <2>1 DEF Going, Places
    <3>4. n = call[t].i => pc[t] = "format"
      BY <3>3
    <3>5. n = k.i => /\ pc'[t] \in {"format", "flush"}
                     /\ pc'[t] = "format" => Stream(f)[a].p < k.p
      BY <1>1, <3>2, <3>3, <3>4
    <3>6. n \in DOMAIN k.found \ k.touched =>
             f = k.found[n].fp /\ (n < k.i => a <= Len(file'[f]))
      BY <3>1, <3>3
    <3> QED BY <2>1, <3>5, <3>6
  <2>2. CASE /\ Stream(f)'[a].output = call[t].i
             /\ pc'[t] \in {"format", "flush"}
             /\ pc'[t] = "format" => Stream(f)'[a].p < k.p
             /\ call[t].i \notin call[t].touched => f = call[t].found[call[t].i].fp
    BY <1>1, <2>2
  <2> QED BY <2>1, <2>2
<1>3. Contents(t)'
  <2> SUFFICES ASSUME ended = "no", NEW n \in DOMAIN k.found
               PROVE
      /\ n < k.i =>
           /\ Whole(message(t), n)' \in
                {{}} \cup {Line(format) : format \in Settings(writer(t), n, "format")}
           /\ n \notin k.touched =>
                Whole(message(t), n)' =
                  IF k.found[n].fp # NULL /\ k.tag \in k.found[n].mask
                    THEN Line(k.found[n].format) ELSE {}
      /\ n = k.i => Whole(message(t), n)' = Current(t)'
      /\ n > k.i => Whole(message(t), n)' = {}
    BY DEF Contents
  <2>1. CASE n = k.i
    BY <1>1, <2>1
  <2>2. CASE n # k.i
    <3>1. Whole(message(t), n)' = Whole(message(t), n)
      BY <2>2
    <3> QED BY <2>2, <3>1 DEF Going, Contents
  <2> QED BY <2>1, <2>2
<1> QED BY <1>2, <1>3 DEF Going

\* A step of t that stays at its output and writes nothing.
LEMMA QuietGoing ==
  ASSUME Base, Base', NEW t \in Thread, Going(t), NEW l, NEW k, Move(t, l, k), Still,
         pc[t] # "flush", k.i = call[t].i, Loop(t)',
         pc[t] = "format" => l = "format" /\ k.p >= call[t].p,
         Current(t)' = Current(t)
  PROVE  Going(t)'
<1>1. /\ pc[t] # "idle" /\ pc'[t] = l /\ call'[t] = k /\ k \in Call
      /\ writer(t)' = writer(t) /\ ended' = ended /\ message(t)' = message(t)
      /\ \A n : Settings(writer(t), n, "format")' = Settings(writer(t), n, "format")
  BY MoveFacts
<1>2. /\ k.found = call[t].found /\ k.touched = call[t].touched /\ k.tag = call[t].tag
      /\ l # "idle"
  BY DEF Move, Held
<1>3. /\ \A f \in File : Len(file[f]) <= Len(file'[f])
      /\ \A f \in File : \A a \in DOMAIN Stream(f)' :
           a \in DOMAIN Stream(f) /\ Stream(f)'[a] = Stream(f)[a]
  BY DEF Still
<1>4. ASSUME ended = "no", NEW n
      PROVE  Whole(message(t), n)' = IF n = call[t].i /\ n \in DOMAIN call[t].found
                                       THEN Current(t)' ELSE Whole(message(t), n)
  <2>1. PICK m : m = message(t) /\ m = message(t)'
    BY <1>1
  <2>2. Whole(m, n)' = Whole(m, n)
    BY <1>1, <1>4, StillKeeps, KeepsWhole
  <2>3. Whole(message(t), n)' = Whole(message(t), n)
    BY <2>1, <2>2
  <2> QED BY <1>4, <2>3 DEF Going, Contents
<1> QED BY <1>1, <1>2, <1>3, <1>4, SameOutputGoing

LEMMA LockGoing ==
  ASSUME Base, Base', NEW t \in Thread, Going(t), Lock(t)
  PROVE  Going(t)'
<1>1. /\ pc[t] = "lock" /\ pc'[t] = "outputs" /\ call' = call /\ made' = made
      /\ outputs' = outputs /\ ended' = ended /\ UNCHANGED stdio
  BY DEF Lock, Running, Goto, config, Base, TypeOK
<1>2. writer(t)' = writer(t) /\ message(t)' = message(t)
      /\ \A n : Settings(writer(t), n, "format")' = Settings(writer(t), n, "format")
  BY <1>1 DEF writer, message, Settings
<1>3. Still
  BY <1>1, StdioStill
<1>4. Loop(t)'
  BY <1>1, <1>2 DEF Going, Loop
<1>5. call[t] \in Call
  BY <1>1, CallFacts DEF Going
<1>6. Current(t)' = {} /\ Current(t) = {}
  BY <1>1 DEF Current
<1>7. ASSUME ended = "no", NEW n
      PROVE  Whole(message(t), n)' = IF n = call[t].i /\ n \in DOMAIN call[t].found
                                       THEN Current(t)' ELSE Whole(message(t), n)
  <2>1. PICK m : m = message(t) /\ m = message(t)'
    BY <1>2
  <2>2. Whole(m, n)' = Whole(m, n)
    BY <1>1, <1>3, <1>7, StillKeeps, KeepsWhole
  <2>3. Whole(message(t), n)' = Whole(message(t), n)
    BY <2>1, <2>2
  <2> QED BY <1>6, <1>7, <2>3 DEF Going, Contents
<1> DEFINE k == call[t]
<1>8. call'[t] = k /\ k \in Call
  BY <1>1, <1>5
<1>9. k.i = call[t].i /\ k.found = call[t].found /\ k.touched = call[t].touched /\ k.tag = call[t].tag
  OBVIOUS
<1>10. /\ \A f \in File : Len(file[f]) <= Len(file'[f])
       /\ \A f \in File : \A a \in DOMAIN Stream(f)' :
            a \in DOMAIN Stream(f) /\ Stream(f)'[a] = Stream(f)[a]
  BY <1>3 DEF Still
<1>11. pc[t] # "idle" /\ pc'[t] # "idle" /\ pc[t] # "flush" /\ pc[t] # "format"
  BY <1>1
<1> HIDE DEF k
<1> QED BY <1>1, <1>2, <1>4, <1>7, <1>8, <1>9, <1>10, <1>11, SameOutputGoing

LEMMA TestMaskGoing ==
  ASSUME Base, Base', Reached, NEW t \in Thread, Going(t), TestMask(t)
  PROVE  Going(t)'
<1>1. pc[t] = "outputs" /\ call[t].i <= noutput(t)
  BY DEF TestMask, Running
<1>2. UNCHANGED stdio
  BY TestMaskMove
<1>3. Still
  BY <1>2, StdioStill
<1>4. call[t].i \in DOMAIN call[t].found
  BY <1>1, CallFacts DEF Going
<1>5. call[t].i \notin call[t].touched => output(t) = call[t].found[call[t].i]
  BY <1>1, <1>4, CallFacts DEF Going
<1>6. CASE call[t].tag \in output(t).mask /\ Move(t, "selected", call[t])
  <2>1. pc'[t] = "selected" /\ call'[t] = call[t] /\ writer(t)' = writer(t) /\ outputs' = outputs
    BY <1>6, MoveFacts
  <2>2. Loop(t)'
    BY <1>1, <1>5, <1>6, <2>1 DEF Going, Loop
  <2>3. Current(t)' = Current(t)
    BY <1>1, <2>1 DEF Current
  <2> QED BY <1>1, <1>3, <1>6, <2>2, <2>3, QuietGoing
<1>7. ASSUME NEW k, call[t].tag \notin output(t).mask, Move(t, "outputs", k),
             k.i = call[t].i + 1, k.p = 1
      PROVE  Going(t)'
  <2>1. ended = "no" => Whole(message(t), call[t].i) = {}
    BY <1>1, <1>4 DEF Going, Contents, Current
  <2>2. \A f \in File : \A a \in DOMAIN Stream(f) :
          ~(Stream(f)[a].message = message(t) /\ Stream(f)[a].output = call[t].i)
    BY <1>1 DEF Going, Places
  <2> QED BY <1>3, <1>4, <1>5, <1>7, <2>1, <2>2, AdvanceGoing
<1> QED BY <1>6, <1>7, TestMaskMove

LEMMA SkipOutputGoing ==
  ASSUME Base, Base', Reached, NEW t \in Thread, Going(t), SkipOutput(t)
  PROVE  Going(t)'
<1>1. pc[t] = "selected" /\ output(t).fp = NULL
  BY DEF SkipOutput, Running
<1>2. PICK k : Move(t, "outputs", k) /\ k.i = call[t].i + 1 /\ k.p = 1
  BY SkipOutputMove
<1>3. Still
  BY SkipOutputMove, StdioStill
<1>4. call[t].i \in DOMAIN call[t].found
  BY <1>1, CallFacts DEF Going
<1>5. call[t].i \notin call[t].touched => output(t) = call[t].found[call[t].i]
  BY <1>1, <1>4, CallFacts DEF Going
<1>6. ended = "no" => Whole(message(t), call[t].i) = {}
  BY <1>1, <1>4 DEF Going, Contents, Current
<1>7. \A f \in File : \A a \in DOMAIN Stream(f) :
        ~(Stream(f)[a].message = message(t) /\ Stream(f)[a].output = call[t].i)
  BY <1>1 DEF Going, Places
<1> QED BY <1>1, <1>2, <1>3, <1>4, <1>5, <1>6, <1>7, AdvanceGoing

\* A line grows by the pieces that are printed, and ends with the newline.
LEMMA BegunGrows ==
  ASSUME NEW format \in Seq(Piece), NEW p \in Nat
  PROVE  /\ Begun(format, 1) = {}
         /\ p \in DOMAIN format /\ format[p] \in Printed =>
              Begun(format, p + 1) = Begun(format, p) \cup {<<p, format[p]>>}
         /\ format[p] \notin Printed => Begun(format, p + 1) = Begun(format, p)
         /\ Line(format) = Begun(format, Len(format) + 1) \cup {<<Len(format) + 1, "newline">>}
<1>1. DOMAIN format = 1 .. Len(format) /\ Len(format) \in Nat
  BY LenProperties
<1>2. Begun(format, 1) = {}
  BY <1>1 DEF Begun
<1>3. ASSUME p \in DOMAIN format, format[p] \in Printed
      PROVE  Begun(format, p + 1) = Begun(format, p) \cup {<<p, format[p]>>}
  <2>1. {r \in DOMAIN format : r < p + 1 /\ format[r] \in Printed} =
          {r \in DOMAIN format : r < p /\ format[r] \in Printed} \cup {p}
    BY <1>1, <1>3
  <2> QED BY <2>1 DEF Begun
<1>4. ASSUME format[p] \notin Printed
      PROVE  Begun(format, p + 1) = Begun(format, p)
  <2>1. {r \in DOMAIN format : r < p + 1 /\ format[r] \in Printed} =
          {r \in DOMAIN format : r < p /\ format[r] \in Printed}
    BY <1>1, <1>4
  <2> QED BY <2>1 DEF Begun
<1>5. {r \in DOMAIN format : r < Len(format) + 1 /\ format[r] \in Printed} =
        {q \in DOMAIN format : format[q] \in Printed}
  BY <1>1
<1>6. Line(format) = Begun(format, Len(format) + 1) \cup {<<Len(format) + 1, "newline">>}
  BY <1>5 DEF Begun, Line
<1> QED BY <1>2, <1>3, <1>4, <1>6

LEMMA SelectOutputGoing ==
  ASSUME Base, Base', NEW t \in Thread, Going(t), SelectOutput(t)
  PROVE  Going(t)'
<1>1. pc[t] = "selected" /\ output(t).fp # NULL
  BY DEF SelectOutput, Running
<1>2. PICK k : /\ Move(t, "format", k) /\ k.i = call[t].i /\ k.p = call[t].p
               /\ k.format = output(t).format
  BY SelectOutputMove
<1>3. Still
  BY SelectOutputMove, StdioStill
<1>4. call[t].i \in DOMAIN call[t].found /\ call[t].p = 1
  BY <1>1, CallFacts DEF Going, Loop
<1>5. call[t].i \notin call[t].touched => output(t) = call[t].found[call[t].i]
  BY <1>1, <1>4, CallFacts DEF Going
<1>6. /\ pc'[t] = "format" /\ call'[t] = k /\ k \in Call /\ writer(t)' = writer(t)
      /\ outputs' = outputs /\ k.found = call[t].found /\ k.touched = call[t].touched
      /\ k.tag = call[t].tag
      /\ \A n : Settings(writer(t), n, "format")' = Settings(writer(t), n, "format")
  <2>1. k.found = call[t].found /\ k.touched = call[t].touched /\ k.tag = call[t].tag
    BY <1>2 DEF Move
  <2> QED BY <1>2, <2>1, MoveFacts
<1>7. output(t).format \in Settings(writer(t), call[t].i, "format")
  <2>1. InCall(t)
    BY <1>1 DEF Base, Calls
  <2>2. writer(t) \in Writer /\ call[t].i \in DOMAIN configured[writer(t)]
    BY <1>1, <2>1 DEF InCall, Base, Configured
  <2> QED BY <2>2 DEF Base, Configured, output
<1>8. k.format \in Seq(Piece)
  BY <1>6 DEF Call
<1>9. Loop(t)'
  <2>1. k.p \in 1 .. Len(k.format) + 1
    BY <1>2, <1>4, <1>8, LenProperties
  <2> QED BY <1>1, <1>2, <1>4, <1>5, <1>6, <1>7, <2>1 DEF Going, Loop
<1>10. Current(t)' = Current(t)
  <2>1. Begun(k.format, 1) = {}
    BY <1>8, BegunGrows
  <2>2. Current(t)' = {}
    BY <1>2, <1>4, <1>6, <2>1 DEF Current
  <2> QED BY <1>1, <2>2 DEF Current
<1> QED BY <1>1, <1>2, <1>3, <1>9, <1>10, QuietGoing

LEMMA IgnorePieceGoing ==
  ASSUME Base, Base', NEW t \in Thread, Going(t), IgnorePiece(t)
  PROVE  Going(t)'
<1>1. pc[t] = "format" /\ ~AtEnd(t) /\ AtPiece(t) = "ignored"
  BY DEF IgnorePiece, Running
<1>2. PICK k : /\ Move(t, "format", k) /\ k.i = call[t].i /\ k.p = call[t].p + 1
               /\ k.format = call[t].format
  BY IgnorePieceMove
<1>3. Still
  BY IgnorePieceMove, StdioStill
<1>4. /\ pc'[t] = "format" /\ call'[t] = k /\ writer(t)' = writer(t) /\ call[t] \in Call
      /\ outputs' = outputs /\ k.found = call[t].found /\ k.touched = call[t].touched
      /\ k.tag = call[t].tag
      /\ \A n : Settings(writer(t), n, "format")' = Settings(writer(t), n, "format")
  <2>1. k.found = call[t].found /\ k.touched = call[t].touched /\ k.tag = call[t].tag
    BY <1>2 DEF Move
  <2> QED BY <1>2, <2>1, MoveFacts
<1>5. call[t].format \in Seq(Piece) /\ call[t].p \in Nat /\ Len(call[t].format) \in Nat
  BY <1>4, LenProperties DEF Call
<1>6. call[t].p <= Len(call[t].format)
  BY <1>1, <1>5 DEF AtEnd
<1>7. Loop(t)'
  <2>1. k.p \in 1 .. Len(k.format) + 1
    BY <1>2, <1>5, <1>6
  <2> QED BY <1>1, <1>2, <1>4, <2>1 DEF Going, Loop
<1>8. Current(t)' = Current(t)
  <2>1. call[t].format[call[t].p] \notin Printed
    BY <1>1 DEF AtPiece, Printed
  <2>2. Begun(call[t].format, call[t].p + 1) = Begun(call[t].format, call[t].p)
    BY <1>5, <2>1, BegunGrows
  <2> QED BY <1>1, <1>2, <1>4, <2>2 DEF Current
<1> QED BY <1>1, <1>2, <1>3, <1>5, <1>7, <1>8, QuietGoing

\* A chunk of the format, or the newline at its end.
LEMMA ChunkGoing ==
  ASSUME Base, Base', NEW t \in Thread, Going(t), NEW l \in {"format", "flush"}, NEW k,
         Move(t, l, k), pc[t] = "format", output(t).fp # NULL,
         NEW piece \in Piece \cup {"newline"}, Write(t, piece),
         k.i = call[t].i, k.format = call[t].format,
         l = "format" => k.p = call[t].p + 1 /\ k.p \in 1 .. Len(k.format) + 1,
         Current(t)' = Current(t) \cup {<<call[t].p, piece>>}
  PROVE  Going(t)'
<1>1. /\ pc'[t] = l /\ call'[t] = k /\ k \in Call /\ call[t] \in Call
      /\ writer(t)' = writer(t) /\ outputs' = outputs /\ ended' = ended /\ message(t)' = message(t)
      /\ k.found = call[t].found /\ k.touched = call[t].touched /\ k.tag = call[t].tag
      /\ \A n : Settings(writer(t), n, "format")' = Settings(writer(t), n, "format")
      /\ made' = made
  BY MoveFacts DEF Move
<1>2. /\ output(t).fp \in File /\ file' = file
      /\ \A n : Whole(message(t), n)' = Whole(message(t), n) \cup
           (IF n = call[t].i THEN {<<call[t].p, piece>>} ELSE {})
      /\ \A f \in File : \A a \in DOMAIN Stream(f)' :
           \/ a \in DOMAIN Stream(f) /\ Stream(f)'[a] = Stream(f)[a]
           \/ f = output(t).fp /\ a = Len(Stream(f)) + 1 /\ Stream(f)'[a] = Next_chunk(t, piece)
  BY <1>1, WriteContents
<1>3. /\ call[t].i \in DOMAIN call[t].found /\ call[t].p \in Nat
      /\ call[t].i \notin call[t].touched => output(t) = call[t].found[call[t].i]
  BY CallFacts DEF Going
<1>4. Loop(t)'
  BY <1>1 DEF Going, Loop
<1>5. \A f \in File : Len(file[f]) <= Len(file'[f])
  BY <1>2, FileType
<1>6. ASSUME NEW f \in File, NEW a \in DOMAIN Stream(f)'
      PROVE  \/ a \in DOMAIN Stream(f) /\ Stream(f)'[a] = Stream(f)[a]
             \/ /\ Stream(f)'[a].output = call[t].i
                /\ pc'[t] \in {"format", "flush"}
                /\ pc'[t] = "format" => Stream(f)'[a].p < k.p
                /\ call[t].i \notin call[t].touched => f = call[t].found[call[t].i].fp
  <2>1. CASE f = output(t).fp /\ Stream(f)'[a] = Next_chunk(t, piece)
    <3>1. Stream(f)'[a].output = call[t].i /\ Stream(f)'[a].p = call[t].p
      BY <2>1 DEF Next_chunk
    <3> QED BY <1>1, <1>3, <2>1, <3>1
  <2> QED BY <1>2, <2>1
<1>7. ASSUME ended = "no", NEW n
      PROVE  Whole(message(t), n)' = IF n = call[t].i /\ n \in DOMAIN call[t].found
                                       THEN Current(t)' ELSE Whole(message(t), n)
  <2>1. CASE n = call[t].i
    <3>1. Whole(message(t), n) = Current(t)
      BY <1>3, <1>7, <2>1 DEF Going, Contents
    <3>2. Whole(message(t), n)' = Whole(message(t), n) \cup {<<call[t].p, piece>>}
      BY <1>2, <2>1
    <3>3. n \in DOMAIN call[t].found
      BY <1>3, <2>1
    <3> QED BY <2>1, <3>1, <3>2, <3>3
  <2>2. CASE n # call[t].i
    BY <1>2, <2>2
  <2> QED BY <2>1, <2>2
<1>8. pc[t] # "idle" /\ pc'[t] # "idle" /\ pc[t] # "flush" /\ pc'[t] \in {"format", "flush"}
      /\ (pc'[t] = "format" => k.p >= call[t].p)
  BY <1>1, <1>3
<1> QED BY <1>1, <1>4, <1>5, <1>6, <1>7, <1>8, SameOutputGoing

LEMMA WritePieceGoing ==
  ASSUME Base, Base', NEW t \in Thread, Going(t), WritePiece(t)
  PROVE  Going(t)'
<1>1. /\ pc[t] = "format" /\ ~AtEnd(t) /\ AtPiece(t) \in Printed /\ output(t).fp # NULL
      /\ Write(t, AtPiece(t))
  BY DEF WritePiece, Running
<1>2. PICK k : /\ Move(t, "format", k) /\ k.i = call[t].i /\ k.p = call[t].p + 1
               /\ k.format = call[t].format
  BY WritePieceMove
<1>3. pc'[t] = "format" /\ call'[t] = k /\ call[t] \in Call
  BY <1>2, MoveFacts
<1>4. /\ call[t].format \in Seq(Piece) /\ call[t].p \in Nat /\ Len(call[t].format) \in Nat
      /\ DOMAIN call[t].format = 1 .. Len(call[t].format)
  BY <1>3, LenProperties DEF Call
<1>5. call[t].p <= Len(call[t].format) /\ call[t].p >= 1
  BY <1>1, <1>4 DEF AtEnd, Going, Loop
<1>6. k.p \in 1 .. Len(k.format) + 1
  BY <1>2, <1>4, <1>5
<1>7. Current(t)' = Current(t) \cup {<<call[t].p, AtPiece(t)>>}
  <2>1. call[t].p \in DOMAIN call[t].format
    BY <1>4, <1>5
  <2>2. Begun(call[t].format, call[t].p + 1) =
          Begun(call[t].format, call[t].p) \cup {<<call[t].p, call[t].format[call[t].p]>>}
    BY <1>1, <1>4, <2>1, BegunGrows DEF AtPiece
  <2> QED BY <1>1, <1>2, <1>3, <2>2 DEF Current, AtPiece
<1>8. AtPiece(t) \in Piece \cup {"newline"}
  BY <1>1 DEF Piece
<1> QED BY <1>1, <1>2, <1>6, <1>7, <1>8, ChunkGoing

LEMMA EndLineGoing ==
  ASSUME Base, Base', NEW t \in Thread, Going(t), EndLine(t)
  PROVE  Going(t)'
<1>1. /\ pc[t] = "format" /\ AtEnd(t) /\ output(t).fp # NULL /\ Write(t, "newline")
      /\ Move(t, "flush", call[t])
  BY EndLineMove
<1>2. pc'[t] = "flush" /\ call'[t] = call[t] /\ call[t] \in Call
  BY <1>1, MoveFacts
<1>3. call[t].format \in Seq(Piece) /\ call[t].p \in Nat /\ Len(call[t].format) \in Nat
  BY <1>2, LenProperties DEF Call
<1>4. call[t].p = Len(call[t].format) + 1
  BY <1>1, <1>3 DEF AtEnd, Going, Loop
<1>5. Current(t)' = Current(t) \cup {<<call[t].p, "newline">>}
  <2>1. Line(call[t].format) = Begun(call[t].format, call[t].p) \cup {<<call[t].p, "newline">>}
    BY <1>3, <1>4, BegunGrows
  <2> QED BY <1>1, <1>2, <2>1 DEF Current
<1> DEFINE k == call[t]
<1>6. Move(t, "flush", k) /\ k.i = call[t].i /\ k.format = call[t].format
  BY <1>1
<1> HIDE DEF k
<1> QED BY <1>1, <1>5, <1>6, ChunkGoing

LEMMA FlushGrows ==
  ASSUME Base, NEW fp \in File \cup {NULL}, fflush(fp)
  PROVE  /\ Still
         /\ fp \in File => Len(file'[fp]) = Len(Stream(fp))
<1>1. \A f \in File : Stream(f)' = Stream(f)
  BY Flushed DEF Base
<1>2. \A f \in File : Len(file[f]) \in Nat /\ Len(file[f]) <= Len(Stream(f))
  BY FileType
<1>3. ASSUME NEW f \in File PROVE file'[f] = file[f] \/ file'[f] = Stream(f)
  BY DEF fflush, FlushTo, Stream, Base, TypeOK
<1>4. \A f \in File : Len(file[f]) <= Len(file'[f])
  BY <1>2, <1>3
<1>5. fp \in File => file'[fp] = Stream(fp)
  BY ConfigurationAssumption DEF fflush, FlushTo, Stream, Base, TypeOK
<1> QED BY <1>1, <1>4, <1>5 DEF Still

LEMMA FlushGoing ==
  ASSUME Base, Base', Reached, NEW t \in Thread, Going(t), Flush(t)
  PROVE  Going(t)'
<1>1. pc[t] = "flush" /\ fflush(output(t).fp)
  BY DEF Flush, Running
<1>2. PICK k : Move(t, "outputs", k) /\ k.i = call[t].i + 1 /\ k.p = 1
  BY FlushMove
<1>3. output(t).fp \in File \cup {NULL}
  <2>1. output(t) \in Outputs
    BY <1>1, OutputType DEF Base
  <2> QED BY <2>1 DEF Outputs
<1>4. Still /\ (output(t).fp \in File => Len(file'[output(t).fp]) = Len(Stream(output(t).fp)))
  BY <1>1, <1>3, FlushGrows
<1>5. /\ call[t].i \in DOMAIN call[t].found
      /\ call[t].i \notin call[t].touched => output(t) = call[t].found[call[t].i]
  BY <1>1, CallFacts DEF Going
<1>6. /\ call[t].format \in Settings(writer(t), call[t].i, "format")
      /\ call[t].i \notin call[t].touched =>
           /\ call[t].format = call[t].found[call[t].i].format
           /\ call[t].found[call[t].i].fp # NULL
           /\ call[t].tag \in call[t].found[call[t].i].mask
  BY <1>1 DEF Going, Loop
<1>7. ended = "no" => Whole(message(t), call[t].i) = Line(call[t].format)
  BY <1>1, <1>5 DEF Going, Contents, Current
<1>8. ASSUME NEW f \in File, NEW a \in DOMAIN Stream(f),
             Stream(f)[a].message = message(t), Stream(f)[a].output = call[t].i,
             call[t].i \notin call[t].touched
      PROVE  a <= Len(file'[f])
  <2>1. f = output(t).fp
    BY <1>5, <1>8 DEF Going, Places
  <2>2. a <= Len(Stream(f))
    BY StreamType DEF Base
  <2> QED BY <1>4, <2>1, <2>2
<1> QED BY <1>2, <1>4, <1>5, <1>6, <1>7, <1>8, AdvanceGoing

\* A change touches its output in every running call of the writer.
LEMMA ChangeGoing ==
  ASSUME Base, Base', NEW c \in changes, SetOutput(c), NEW t \in Thread, pc[t] # "idle", Going(t)
  PROVE  Going(t)'
<1>1. /\ UNCHANGED <<pc, made, mutex, stdio, ended, returned>>
      /\ call'[t] \in Call
      /\ call'[t].logger = call[t].logger /\ call'[t].tag = call[t].tag
      /\ call'[t].i = call[t].i /\ call'[t].p = call[t].p
      /\ call'[t].format = call[t].format /\ call'[t].found = call[t].found
      /\ writer(t)' = writer(t)
      /\ call'[t].touched = call[t].touched \cup (IF writer(t) = c.writer THEN {c.n} ELSE {})
  BY ChangeCalls
<1>2. /\ c.writer \in Writer /\ c.n \in DOMAIN configured[c.writer]
      /\ \A w \in Writer : DOMAIN outputs'[w] = DOMAIN outputs[w]
      /\ \A w \in Writer : \A n \in DOMAIN outputs[w] :
           ~(w = c.writer /\ n = c.n) => outputs'[w][n] = outputs[w][n]
  BY ChangeTypes
<1>3. writer(t) \in Writer
  BY DEF Base, Calls, InCall
<1>4. message(t)' = message(t) /\ \A n : Settings(writer(t), n, "format")' = Settings(writer(t), n, "format")
  BY <1>1 DEF message, Settings
<1>5. \A f \in File : Stream(f)' = Stream(f) /\ file'[f] = file[f]
  BY <1>1 DEF stdio, Stream
<1>6. Loop(t)'
  <2> DEFINE k == call[t]
             k2 == call'[t]
  <2>1. /\ DOMAIN k.found = DOMAIN outputs[writer(t)] /\ k.touched \subseteq DOMAIN k.found
        /\ \A n \in DOMAIN k.found \ k.touched : outputs[writer(t)][n] = k.found[n]
    BY DEF Going, Loop
  <2>2. DOMAIN k2.found = DOMAIN outputs'[writer(t)]
    BY <1>1, <1>2, <1>3, <2>1
  <2>3. k2.touched \subseteq DOMAIN k2.found
    <3>1. writer(t) = c.writer => c.n \in DOMAIN outputs[writer(t)]
      BY <1>2 DEF Base, Configured
    <3> QED BY <1>1, <2>1, <3>1
  <2>4. \A n \in DOMAIN k2.found \ k2.touched : outputs'[writer(t)][n] = k2.found[n]
    BY <1>1, <1>2, <1>3, <2>1
  <2> HIDE DEF k, k2
  <2> QED BY <1>1, <1>4, <2>2, <2>3, <2>4 DEF Going, Loop, k, k2
<1>7. Places(t)'
  BY <1>1, <1>4, <1>5 DEF Going, Places
<1>8. Contents(t)'
  <2>1. PICK m : m = message(t) /\ m = message(t)'
    BY <1>4
  <2>2. \A n : Whole(m, n)' = Whole(m, n)
    BY <1>5 DEF Whole, Content, Mine
  <2>3. \A n : Whole(message(t), n)' = Whole(message(t), n)
    BY <2>1, <2>2
  <2>4. Current(t)' = Current(t)
    BY <1>1 DEF Current
  <2> QED BY <1>1, <1>4, <2>3, <2>4 DEF Going, Contents
<1> QED BY <1>6, <1>7, <1>8 DEF Going

\* A call that begins has found the outputs as they are, and written nothing.
LEMMA JlogGoing ==
  ASSUME Base, Base', Order, NEW t \in Thread, NEW l \in Logger, NEW tag \in Tag, jlog(t, l, tag)
  PROVE  /\ pc'[t] # "idle" => Going(t)'
         /\ \A r \in returned' : r \in returned \/ Done(r)'
<1>1. /\ pc[t] = "idle" /\ made' = [made EXCEPT ![t] = @ + 1] /\ UNCHANGED stdio
      /\ made[t] \in Nat /\ outputs' = outputs
  BY DEF jlog, Running, Base, TypeOK, config
<1>2. \A f \in File : Stream(f)' = Stream(f)
  BY <1>1 DEF Stream, stdio
<1>3. PICK m0 : m0 = [thread |-> t, number |-> made[t] + 1]
  OBVIOUS
<1>4. made'[t] = made[t] + 1 /\ message(t)' = m0
  BY <1>1, <1>3 DEF message, Base, TypeOK
<1>5. \A w : ~Through(m0, w)
  <2> SUFFICES ASSUME NEW w, Through(m0, w) PROVE FALSE
    OBVIOUS
  <2>1. CASE \E r \in returned : r.message = m0
    BY <1>1, <1>3, <2>1 DEF Order, Numbered
  <2>2. CASE \E u \in Thread : pc[u] # "idle" /\ m0 = message(u)
    BY <1>1, <1>3, <2>2 DEF message
  <2> QED BY <2>1, <2>2 DEF Through
<1>6. \A f \in File : \A a \in DOMAIN Stream(f) : Stream(f)[a].message # m0
  BY <1>5 DEF Order, Written
<1>7. \A n : Whole(m0, n)' = {}
  BY <1>2, <1>6 DEF Whole, Content, Mine
<1>8. CASE tag \in loggers[l].mask /\ loggers[l].writer # NULL
  <2>1. PICK k : k = [logger |-> l, tag |-> tag, i |-> 1, p |-> 1, format |-> <<>>,
                      found |-> outputs[loggers[l].writer], touched |-> {}]
    OBVIOUS
  <2>2. pc'[t] = "lock" /\ call'[t] = k /\ returned' = returned
    BY <1>8, <2>1 DEF jlog, Goto, Base, TypeOK
  <2>3. writer(t)' = loggers[l].writer
    BY <2>1, <2>2 DEF writer
  <2>4. Loop(t)'
    BY <1>1, <2>1, <2>2, <2>3 DEF Loop
  <2>5. Places(t)'
    BY <1>2, <1>4, <1>6 DEF Places
  <2>6. \A n \in DOMAIN k.found : n \in Nat /\ n >= k.i /\ k.i \in Nat
    <3>1. loggers[l].writer \in Writer
      BY <1>8, ConfigurationAssumption
    <3>2. outputs[loggers[l].writer] \in Seq(Outputs)
      BY <3>1 DEF Base, TypeOK
    <3> QED BY <2>1, <3>2, LenProperties
  <2>7. Contents(t)'
    <3>1. Current(t)' = {}
      BY <2>2 DEF Current
    <3>2. \A n : Whole(message(t), n)' = {}
      BY <1>4, <1>7
    <3> QED BY <2>2, <2>6, <3>1, <3>2 DEF Contents
  <2> QED BY <2>2, <2>4, <2>5, <2>7 DEF Going
<1>9. CASE ~(tag \in loggers[l].mask /\ loggers[l].writer # NULL)
  <2>1. PICK r0 : r0 = [message |-> [thread |-> t, number |-> made'[t]], logger |-> l, tag |-> tag,
                        found |-> <<>>, touched |-> {}]
    OBVIOUS
  <2>2. Return(t, l, tag, <<>>, {})
    BY <1>9 DEF jlog
  <2>3. pc'[t] = "idle" /\ returned' = returned \cup {r0}
    BY <2>1, <2>2 DEF Return, Goto, Base, TypeOK
  <2>4. r0.message = m0 /\ r0.logger = l /\ r0.tag = tag /\ r0.touched = {}
    BY <1>3, <1>4, <2>1
  <2>5. Done(r0)'
    BY <1>2, <1>6, <1>9, <2>4 DEF Done
  <2> QED BY <2>3, <2>5
<1> QED BY <1>8, <1>9

\* A call that returns has been through all outputs.
LEMMA UnlockDone ==
  ASSUME Base, Base', NEW t \in Thread, Going(t), Unlock(t)
  PROVE  \A r \in returned' : r \in returned \/ Done(r)'
<1>1. /\ pc[t] = "outputs" /\ call[t].i > noutput(t) /\ InCall(t)
      /\ UNCHANGED stdio /\ ended' = ended /\ ended = "no"
  BY Returns DEF Unlock, Running
<1>2. PICK r0 : /\ r0 = [message |-> message(t), logger |-> call[t].logger, tag |-> call[t].tag,
                         found |-> call[t].found, touched |-> call[t].touched]
                /\ returned' = returned \cup {r0}
  BY Returns
<1>3. /\ r0.message = message(t) /\ r0.logger = call[t].logger /\ r0.tag = call[t].tag
      /\ r0.found = call[t].found /\ r0.touched = call[t].touched
      /\ loggers[r0.logger].writer = writer(t)
  BY <1>2 DEF writer
<1>4. r0.tag \in loggers[r0.logger].mask /\ loggers[r0.logger].writer # NULL
  BY <1>1, <1>3, ConfigurationAssumption DEF InCall
<1>5. \A f \in File : Stream(f)' = Stream(f) /\ file'[f] = file[f]
  BY <1>1 DEF Stream, stdio
<1>6. DOMAIN r0.found = 1 .. noutput(t) /\ r0.touched \subseteq DOMAIN r0.found
      /\ \A n \in DOMAIN r0.found : n < call[t].i
  <2>1. DOMAIN call[t].found = DOMAIN outputs[writer(t)] /\ outputs[writer(t)] \in Seq(Outputs)
    BY <1>1 DEF Going, Loop, InCall, Base, TypeOK
  <2>2. DOMAIN call[t].found = 1 .. noutput(t) /\ noutput(t) \in Nat
    BY <2>1, LenProperties DEF noutput
  <2>3. call[t].i \in Nat
    BY <1>1 DEF InCall, Call
  <2> QED BY <1>1, <1>3, <2>2, <2>3 DEF Going, Loop
<1>7. \A n \in DOMAIN r0.found :
        /\ Whole(r0.message, n) \in
             {{}} \cup {Line(format) : format \in Settings(writer(t), n, "format")}
        /\ n \notin r0.touched =>
             Whole(r0.message, n) =
               IF r0.found[n].fp # NULL /\ r0.tag \in r0.found[n].mask
                 THEN Line(r0.found[n].format) ELSE {}
  BY <1>1, <1>3, <1>6 DEF Going, Contents
<1>8. ASSUME NEW f \in File, NEW n \in DOMAIN r0.found \ r0.touched
      PROVE  /\ Content(Stream(f), r0.message, n) =
                  IF r0.found[n].fp = f /\ r0.tag \in r0.found[n].mask
                    THEN Line(r0.found[n].format) ELSE {}
             /\ \A a \in Mine(Stream(f), r0.message, n) : a <= Len(file[f])
  <2>1. ASSUME NEW g \in File, NEW a \in Mine(Stream(g), r0.message, n)
        PROVE  g = r0.found[n].fp /\ a <= Len(file[g])
    <3>1. a \in DOMAIN Stream(g) /\ Stream(g)[a].message = message(t) /\ Stream(g)[a].output = n
      BY <1>3, <2>1 DEF Mine
    <3> QED BY <1>3, <1>6, <3>1 DEF Going, Places
  <2>2. \A g \in File : g # r0.found[n].fp => Content(Stream(g), r0.message, n) = {}
    BY <2>1 DEF Content
  <2>3. CASE r0.found[n].fp = f
    <3>1. f # NULL
      BY ConfigurationAssumption
    <3>2. Whole(r0.message, n) = Content(Stream(f), r0.message, n)
      BY <2>2, <2>3 DEF Whole
    <3> QED BY <1>7, <2>1, <2>3, <3>1, <3>2
  <2>4. CASE r0.found[n].fp # f
    BY <2>1, <2>2, <2>4
  <2> QED BY <2>3, <2>4
<1>9. Done(r0)'
  <2>1. \A f \in File : \A n :
          /\ Content(Stream(f), r0.message, n)' = Content(Stream(f), r0.message, n)
          /\ Mine(Stream(f), r0.message, n)' = Mine(Stream(f), r0.message, n)
    BY <1>5 DEF Content, Mine
  <2>2. \A n : Whole(r0.message, n)' = Whole(r0.message, n)
    BY <2>1 DEF Whole
  <2>3. \A n : Settings(writer(t), n, "format") = Settings(loggers[r0.logger].writer, n, "format")
    BY <1>3
  <2>4. \A n \in r0.touched : Whole(r0.message, n)' \in
          {{}} \cup {Line(format) : format \in Settings(loggers[r0.logger].writer, n, "format")}
    BY <1>3, <1>6, <1>7, <2>2
  <2> QED BY <1>4, <1>5, <1>8, <2>1, <2>4 DEF Done, Settings
<1> QED BY <1>2, <1>9

LEMMA NothingAscending ==
  ASSUME Ascending, NothingNew
  PROVE  Ascending'
  BY DEF Ascending, NothingNew

LEMMA WriteAscending ==
  ASSUME Base, Ascending, NEW t \in Thread, pc[t] = "format", Going(t), output(t).fp # NULL,
         NEW piece \in Piece \cup {"newline"}, Write(t, piece), ended' = ended, made' = made
  PROVE  Ascending'
<1>1. \A f \in File : \A a \in DOMAIN Stream(f)' :
        \/ a \in DOMAIN Stream(f) /\ Stream(f)'[a] = Stream(f)[a]
        \/ f = output(t).fp /\ a = Len(Stream(f)) + 1 /\ Stream(f)'[a] = Next_chunk(t, piece)
  BY WriteContents
<1>c. PICK c : c = Next_chunk(t, piece)
  OBVIOUS
<1>2. c = Next_chunk(t, piece) /\ c.message = message(t) /\ c.output = call[t].i /\ c.p = call[t].p
  BY <1>c DEF Next_chunk
<1>3. PICK ff : ff = output(t).fp
  OBVIOUS
<1>4. \A f \in File : \A a \in DOMAIN Stream(f) :
        Stream(f)[a].message = c.message /\ Stream(f)[a].output = c.output => Stream(f)[a].p < c.p
  BY <1>2 DEF Going, Places
<1>5. \A f \in File : \A a \in DOMAIN Stream(f) : Stream(f)[a].p \in Nat /\ a < Len(Stream(f)) + 1
                      /\ a \in Nat /\ Len(Stream(f)) \in Nat
  <2> SUFFICES ASSUME NEW f \in File, NEW a \in DOMAIN Stream(f)
               PROVE  Stream(f)[a].p \in Nat /\ a < Len(Stream(f)) + 1 /\ a \in Nat
                      /\ Len(Stream(f)) \in Nat
    OBVIOUS
  <2>1. Stream(f)[a] \in Chunk /\ a \in 1 .. Len(Stream(f)) /\ Len(Stream(f)) \in Nat
    BY StreamType DEF Base
  <2> QED BY <2>1 DEF Chunk
<1>6. c.p \in Nat
  BY <1>2, CallFacts DEF Going
<1> SUFFICES ASSUME NEW f \in File, NEW g \in File,
                    NEW a \in DOMAIN Stream(f)', NEW b \in DOMAIN Stream(g)',
                    Stream(f)'[a].message = Stream(g)'[b].message,
                    Stream(f)'[a].output = Stream(g)'[b].output
             PROVE  /\ Stream(f)'[a].p = Stream(g)'[b].p => f = g /\ a = b
                    /\ f = g /\ a < b => Stream(f)'[a].p < Stream(g)'[b].p
  BY DEF Ascending
<1> DEFINE Old(h, d) == d \in DOMAIN Stream(h) /\ Stream(h)'[d] = Stream(h)[d]
           Newest(h, d) == h = ff /\ d = Len(Stream(h)) + 1 /\ Stream(h)'[d] = c
<1>7. (Old(f, a) \/ Newest(f, a)) /\ (Old(g, b) \/ Newest(g, b))
  BY <1>1, <1>2, <1>3
<1>8. CASE Old(f, a) /\ Old(g, b)
  BY <1>8 DEF Ascending
<1>9. CASE Old(f, a) /\ Newest(g, b)
  BY <1>4, <1>5, <1>6, <1>9
<1>10. CASE Newest(f, a) /\ Old(g, b)
  BY <1>4, <1>5, <1>6, <1>10
<1>11. CASE Newest(f, a) /\ Newest(g, b)
  BY <1>11, <1>6
<1> QED BY <1>7, <1>8, <1>9, <1>10, <1>11

\* A step of t leaves the other running calls and those that returned alone.
LEMMA OthersProgress ==
  ASSUME Base, Base', Order, Progress, NEW t \in Thread, outputs' = outputs,
         \A u \in Thread : u # t => pc'[u] = pc[u] /\ call'[u] = call[u] /\ message(u)' = message(u),
         \A m : m # message(t) \/ pc[t] = "idle" => Keeps(m),
         pc'[t] # "idle" => Going(t)', Ascending',
         \A r \in returned' : r \in returned \/ Done(r)'
  PROVE  Progress'
<1>1. ASSUME NEW u \in Thread, pc'[u] # "idle" PROVE Going(u)'
  <2>1. CASE u = t
    BY <1>1, <2>1
  <2>2. CASE u # t
    <3>1. pc[u] # "idle" /\ pc'[u] = pc[u] /\ call'[u] = call[u] /\ message(u)' = message(u)
      BY <1>1, <2>2
    <3>2. message(u) # message(t)
      BY <2>2, MessageType
    <3> QED BY <3>1, <3>2, KeepsGoing DEF Progress
  <2> QED BY <2>1, <2>2
<1>2. ASSUME NEW r \in returned PROVE Done(r)'
  <2>1. pc[t] # "idle" => r.message # message(t)
    <3>1. made[t] \in Nat /\ message(t).thread = t /\ message(t).number = made[t]
      BY DEF Base, TypeOK, message
    <3> QED BY <3>1 DEF Order, Numbered
  <2> QED BY <2>1, KeepsDone DEF Progress
<1> QED BY <1>1, <1>2 DEF Progress

\* A step that changes no call and writes nothing.
LEMMA StaysProgress ==
  ASSUME Base, Base', Progress, UNCHANGED <<outputs, pc, call, made, returned>>,
         \A m : Keeps(m), NothingNew
  PROVE  Progress'
<1>1. \A u \in Thread : message(u)' = message(u)
  BY DEF message
<1>2. ASSUME NEW u \in Thread, pc'[u] # "idle" PROVE Going(u)'
  BY <1>1, <1>2, KeepsGoing DEF Progress
<1>3. \A r \in returned : Done(r)'
  BY KeepsDone DEF Progress
<1> QED BY <1>2, <1>3, NothingAscending DEF Progress

\* A step of t inside its call, which keeps the other calls and returns.
LEMMA MoveProgress ==
  ASSUME Base, Base', Order, Progress, NEW t \in Thread, NEW l, NEW k, Move(t, l, k),
         \A m : m # message(t) => Keeps(m), Going(t)', Ascending'
  PROVE  Progress'
<1>1. /\ pc[t] # "idle" /\ outputs' = outputs /\ returned' = returned
      /\ \A u \in Thread : u # t => pc'[u] = pc[u] /\ call'[u] = call[u] /\ message(u)' = message(u)
  BY MoveFacts
<1> QED BY <1>1, OthersProgress

LEMMA StillNew == Still => NothingNew
  BY DEF Still, NothingNew

LEMMA NextProgress == Base /\ Order /\ Progress /\ [Next]_vars => Progress'
<1> SUFFICES ASSUME Base, Order, Progress, [Next]_vars PROVE Progress'
  OBVIOUS
<1>0. Base' /\ Reached
  BY NextBase DEF Order
<1>g. \A t \in Thread : pc[t] # "idle" => Going(t)
  BY DEF Progress
\* A quiet step of t.
<1>q. ASSUME NEW t \in Thread, NEW l, NEW k, Move(t, l, k), Still, Going(t)' PROVE Progress'
  <2>1. ended' = ended
    BY <1>q, MoveFacts
  <2>2. \A m : Keeps(m)
    BY <1>q, <2>1, StillKeeps
  <2>3. Ascending'
    BY <1>q, StillNew, NothingAscending DEF Progress
  <2> QED BY <1>0, <1>q, <2>2, <2>3, MoveProgress
\* A write of t.
<1>w. ASSUME NEW t \in Thread, NEW l, NEW k, Move(t, l, k), pc[t] = "format", output(t).fp # NULL,
             NEW piece \in Piece \cup {"newline"}, Write(t, piece), Going(t)'
      PROVE  Progress'
  <2>1. ended' = ended /\ made' = made
    BY <1>w DEF Move
  <2>2. \A m : m # message(t) => Keeps(m)
    BY <1>w, <2>1, WriteContents
  <2>3. Ascending'
    BY <1>w, <1>g, <2>1, WriteAscending DEF Progress
  <2> QED BY <1>0, <1>w, <2>2, <2>3, MoveProgress
<1>1. ASSUME NEW t \in Thread, Lock(t) PROVE Progress'
  <2>1. /\ pc[t] = "lock" /\ pc' = [pc EXCEPT ![t] = "outputs"]
        /\ UNCHANGED <<call, made, outputs, stdio, ended, returned>>
    BY <1>1 DEF Lock, Running, Goto, config
  <2>2. Still /\ NothingNew
    BY <2>1, StdioStill, StillNew
  <2>3. \A m : Keeps(m)
    BY <2>1, <2>2, StillKeeps
  <2>4. Going(t)'
    BY <1>0, <1>1, <1>g, <2>1, LockGoing
  <2>5. Ascending'
    BY <2>2, NothingAscending DEF Progress
  <2>6. \A u \in Thread : u # t => pc'[u] = pc[u] /\ call'[u] = call[u] /\ message(u)' = message(u)
    BY <2>1 DEF message, Base, TypeOK
  <2> QED BY <1>0, <2>1, <2>3, <2>4, <2>5, <2>6, OthersProgress
<1>2. ASSUME NEW t \in Thread, TestMask(t) PROVE Progress'
  <2>1. pc[t] # "idle"
    BY <1>2 DEF TestMask, Running
  <2>2. Going(t)'
    BY <1>0, <1>2, <1>g, <2>1, TestMaskGoing
  <2>3. UNCHANGED stdio /\ \E l, k : Move(t, l, k)
    BY <1>2, TestMaskMove
  <2> QED BY <1>q, <2>2, <2>3, StdioStill
<1>3. ASSUME NEW t \in Thread, SkipOutput(t) PROVE Progress'
  <2>1. pc[t] # "idle"
    BY <1>3 DEF SkipOutput, Running
  <2>2. Going(t)'
    BY <1>0, <1>3, <1>g, <2>1, SkipOutputGoing
  <2>3. UNCHANGED stdio /\ \E l, k : Move(t, l, k)
    BY <1>3, SkipOutputMove
  <2> QED BY <1>q, <2>2, <2>3, StdioStill
<1>4. ASSUME NEW t \in Thread, SelectOutput(t) PROVE Progress'
  <2>1. pc[t] # "idle"
    BY <1>4 DEF SelectOutput, Running
  <2>2. Going(t)'
    BY <1>0, <1>4, <1>g, <2>1, SelectOutputGoing
  <2>3. UNCHANGED stdio /\ \E l, k : Move(t, l, k)
    BY <1>4, SelectOutputMove
  <2> QED BY <1>q, <2>2, <2>3, StdioStill
<1>5. ASSUME NEW t \in Thread, WritePiece(t) PROVE Progress'
  <2>1. /\ pc[t] = "format" /\ output(t).fp # NULL /\ Write(t, AtPiece(t))
        /\ AtPiece(t) \in Piece \cup {"newline"} /\ \E l, k : Move(t, l, k)
    BY <1>5, WritePieceMove
  <2>2. Going(t)'
    BY <1>0, <1>5, <1>g, <2>1, WritePieceGoing
  <2> QED BY <1>w, <2>1, <2>2
<1>6. ASSUME NEW t \in Thread, IgnorePiece(t) PROVE Progress'
  <2>1. pc[t] # "idle"
    BY <1>6 DEF IgnorePiece, Running
  <2>2. Going(t)'
    BY <1>0, <1>6, <1>g, <2>1, IgnorePieceGoing
  <2>3. UNCHANGED stdio /\ \E l, k : Move(t, l, k)
    BY <1>6, IgnorePieceMove
  <2> QED BY <1>q, <2>2, <2>3, StdioStill
<1>7. ASSUME NEW t \in Thread, Abort(t) \/ WriteToNull(t) PROVE Progress'
  <2>1. PICK cause : cause # "no" /\ End(cause) /\ UNCHANGED <<config, pc, call, made, mutex, returned>>
    BY <1>7 DEF Abort, WriteToNull
  <2>2. \A m : Keeps(m)
    BY <2>1, EndKeeps
  <2>3. NothingNew
    BY <2>1, EndNew
  <2>4. UNCHANGED <<outputs, pc, call, made, returned>>
    BY <2>1 DEF config
  <2> QED BY <1>0, <2>2, <2>3, <2>4, StaysProgress
<1>8. ASSUME NEW t \in Thread, EndLine(t) PROVE Progress'
  <2>1. /\ pc[t] = "format" /\ output(t).fp # NULL /\ Write(t, "newline")
        /\ Move(t, "flush", call[t])
    BY <1>8, EndLineMove
  <2>2. Going(t)'
    BY <1>0, <1>8, <1>g, <2>1, EndLineGoing
  <2> QED BY <1>w, <2>1, <2>2
<1>9. ASSUME NEW t \in Thread, Flush(t) PROVE Progress'
  <2>1. pc[t] = "flush" /\ fflush(output(t).fp) /\ Base /\ TypeOK /\ Calls
    BY <1>9 DEF Flush, Running, Base
  <2>2. Going(t)'
    BY <1>0, <1>9, <1>g, <2>1, FlushGoing
  <2>3. output(t).fp \in File \cup {NULL}
    <3>1. output(t) \in Outputs
      BY <2>1, OutputType
    <3> QED BY <3>1 DEF Outputs
  <2>4. Still
    BY <2>1, <2>3, FlushGrows
  <2>5. \E l, k : Move(t, l, k)
    BY <1>9, FlushMove
  <2> QED BY <1>q, <2>2, <2>4, <2>5
<1>10. ASSUME NEW t \in Thread, Unlock(t) PROVE Progress'
  <2>1. /\ pc[t] = "outputs" /\ pc' = [pc EXCEPT ![t] = "idle"] /\ call' = [call EXCEPT ![t] = NULL]
        /\ UNCHANGED <<config, made, stdio, ended>>
    BY <1>10, Returns
  <2>2. Still /\ NothingNew
    BY <2>1, StdioStill, StillNew
  <2>3. \A m : Keeps(m)
    BY <2>1, <2>2, StillKeeps
  <2>4. pc'[t] = "idle" /\ outputs' = outputs
    BY <2>1 DEF Base, TypeOK, config
  <2>5. Ascending'
    BY <2>2, NothingAscending DEF Progress
  <2>6. \A u \in Thread : u # t => pc'[u] = pc[u] /\ call'[u] = call[u] /\ message(u)' = message(u)
    BY <2>1 DEF message, Base, TypeOK
  <2>7. \A r \in returned' : r \in returned \/ Done(r)'
    BY <1>0, <1>10, <1>g, <2>1, UnlockDone
  <2> QED BY <1>0, <2>3, <2>4, <2>5, <2>6, <2>7, OthersProgress
<1>11. ASSUME NEW t \in Thread, NEW l \in Logger, NEW tag \in Tag, jlog(t, l, tag) PROVE Progress'
  <2>1. /\ pc[t] = "idle" /\ UNCHANGED <<config, stdio, ended>>
        /\ \A u \in Thread : u # t => pc'[u] = pc[u] /\ call'[u] = call[u] /\ message(u)' = message(u)
    BY <1>11 DEF jlog, Running, Goto, Return, Base, TypeOK, message
  <2>2. Still /\ NothingNew
    BY <2>1, StdioStill, StillNew
  <2>3. \A m : Keeps(m)
    BY <2>1, <2>2, StillKeeps
  <2>4. Ascending'
    BY <2>2, NothingAscending DEF Progress
  <2>5. /\ pc'[t] # "idle" => Going(t)'
        /\ \A r \in returned' : r \in returned \/ Done(r)'
    BY <1>0, <1>11, JlogGoing
  <2>6. outputs' = outputs
    BY <2>1 DEF config
  <2> QED BY <1>0, <2>1, <2>3, <2>4, <2>5, <2>6, OthersProgress
<1>12. ASSUME NEW f \in File, BufferFull(f) PROVE Progress'
  <2>1. f # NULL /\ FlushTo(f) /\ UNCHANGED <<config, pc, call, made, mutex, ended, returned>>
    BY <1>12, ConfigurationAssumption DEF BufferFull
  <2>2. fflush(f)
    BY <2>1 DEF fflush
  <2>3. Still
    BY <2>2, FlushGrows
  <2>4. \A m : Keeps(m)
    BY <2>1, <2>3, StillKeeps
  <2>5. UNCHANGED <<outputs, pc, call, made, returned>>
    BY <2>1 DEF config
  <2> QED BY <1>0, <2>3, <2>4, <2>5, StillNew, StaysProgress
<1>13. ASSUME NEW c \in changes, SetOutput(c) PROVE Progress'
  <2>1. UNCHANGED <<pc, made, mutex, stdio, ended, returned>>
    BY <1>13, ChangeCalls
  <2>2. Still
    BY <2>1, StdioStill
  <2>3. \A m : Keeps(m)
    BY <2>1, <2>2, StillKeeps
  <2>4. Ascending'
    BY <2>2, StillNew, NothingAscending DEF Progress
  <2>5. \A u \in Thread : pc'[u] # "idle" => Going(u)'
    BY <1>0, <1>13, <1>g, <2>1, ChangeGoing
  <2>6. \A r \in returned' : Done(r)'
    BY <1>0, <2>1, <2>3, KeepsDone DEF Progress
  <2> QED BY <2>4, <2>5, <2>6 DEF Progress
<1>14. CASE UNCHANGED vars
  <2>1. UNCHANGED <<outputs, pc, call, made, returned, stdio, ended>>
    BY <1>14 DEF vars, config
  <2>2. Still
    BY <2>1, StdioStill
  <2>3. \A m : Keeps(m)
    BY <2>1, <2>2, StillKeeps
  <2> QED BY <1>0, <2>1, <2>2, <2>3, StillNew, StaysProgress
<1>15. CASE Next
  <2>1. \/ \E t \in Thread : Step(t) \/ \E l \in Logger, tag \in Tag : jlog(t, l, tag)
        \/ \E f \in File : BufferFull(f)
        \/ \E c \in changes : SetOutput(c)
    BY <1>15 DEF Next
  <2>2. ASSUME NEW t \in Thread, Step(t) PROVE Progress'
    BY <2>2, <1>1, <1>2, <1>3, <1>4, <1>5, <1>6, <1>7, <1>8, <1>9, <1>10 DEF Step
  <2> QED BY <2>1, <2>2, <1>11, <1>12, <1>13
<1> QED BY <1>14, <1>15

LEMMA InitProgress == Init => Progress
<1> SUFFICES ASSUME Init PROVE Progress
  OBVIOUS
<1>1. \A f \in File : Stream(f) = <<>>
  BY EmptySeq, ConcatEmptySeq DEF Init, Stream
<1>2. \A f \in File : DOMAIN Stream(f) = {}
  BY <1>1
<1> QED BY <1>2 DEF Init, Progress, Ascending

-----------------------------------------------------------------------------
(***************************************************************************)
(* The theorems.                                                           *)
(***************************************************************************)
\* The inductive invariant: types and mutual exclusion, the order of what was
\* written, and how far the running calls are.
IInv == Base /\ Order /\ Progress

LEMMA Invariance == Spec => []IInv
<1>1. Init => IInv
  BY InitBase, InitOrder, InitProgress DEF IInv
<1>2. IInv /\ [Next]_vars => IInv'
  BY NextBase, NextOrder, NextProgress DEF IInv
<1> QED BY <1>1, <1>2, PTL DEF Spec

LEMMA DoneDelivered == IInv => Delivered
<1> SUFFICES ASSUME IInv, NEW r \in returned
             PROVE  LET lg == loggers[r.logger] IN
               IF r.tag \notin lg.mask \/ lg.writer = NULL
                 THEN \A f \in File : \A a \in DOMAIN Stream(f) : Stream(f)[a].message # r.message
                 ELSE \A f \in File, n \in DOMAIN r.found \ r.touched :
                   LET o == r.found[n] IN
                     /\ Content(Stream(f), r.message, n) =
                          IF o.fp = f /\ r.tag \in o.mask THEN Line(o.format) ELSE {}
                     /\ \A a \in Mine(Stream(f), r.message, n) : a <= Len(file[f])
                     /\ \A a, b \in Mine(Stream(f), r.message, n) :
                          a < b => Stream(f)[a].p < Stream(f)[b].p
  BY Zenon DEF Delivered
<1>1. Done(r)
  BY DEF IInv, Progress
<1>2. \A f \in File : \A n : \A a, b \in Mine(Stream(f), r.message, n) :
        a < b => Stream(f)[a].p < Stream(f)[b].p
  BY DEF IInv, Progress, Ascending, Mine
<1> QED BY <1>1, <1>2 DEF Done

LEMMA DonePiecesOnce == IInv => PiecesOnce
<1> SUFFICES ASSUME IInv, ended = "no", NEW r \in returned, NEW n \in r.touched
             PROVE
    /\ UNION {Content(Stream(f), r.message, n) : f \in File} \in
         {{}} \cup {Line(format) : format \in Settings(loggers[r.logger].writer, n, "format")}
    /\ \A f, g \in File : \A a \in Mine(Stream(f), r.message, n), b \in Mine(Stream(g), r.message, n) :
         Stream(f)[a].p = Stream(g)[b].p => f = g /\ a = b
  BY Zenon DEF PiecesOnce
<1>1. Done(r)
  BY DEF IInv, Progress
<1>2. Whole(r.message, n) \in
        {{}} \cup {Line(format) : format \in Settings(loggers[r.logger].writer, n, "format")}
  BY <1>1, Zenon DEF Done
<1>3. \A f, g \in File : \A a \in Mine(Stream(f), r.message, n), b \in Mine(Stream(g), r.message, n) :
        Stream(f)[a].p = Stream(g)[b].p => f = g /\ a = b
  BY DEF IInv, Progress, Ascending, Mine
<1> QED BY <1>2, <1>3 DEF Whole

\* The state of jlog.c keeps its types.
THEOREM TypeInvariant == Spec => []TypeOK
<1>1. IInv => TypeOK
  BY DEF IInv, Base
<1> QED BY <1>1, Invariance, PTL

\* Threads that share a writer never tear each other's lines: in a file that
\* only one writer is ever given, the chunks vjlogprintf writes for one line
\* are next to each other, for any number of threads and calls and whatever
\* clients change meanwhile.
THEOREM LinesStayWhole == Spec => []LinesWhole
<1>1. IInv => LinesWhole
  BY OrderLinesWhole DEF IInv
<1> QED BY <1>1, Invariance, PTL

\* The messages of one writer are in the same order in all the files that
\* vjlogprintf writes to, shared ones included.
THEOREM MessagesInOrder == Spec => []SameOrder
<1>1. IInv => SameOrder
  BY OrderSameOrder DEF IInv
<1> QED BY <1>1, Invariance, PTL

\* When vjlogprintf returns, each output that nobody changed meanwhile has
\* exactly the line its mask and its format call for, in its own file and
\* flushed, and keeps it, even if the process is ended later.
THEOREM LinesDelivered == Spec => []Delivered
<1>1. IInv => Delivered
  BY DoneDelivered
<1> QED BY <1>1, Invariance, PTL

\* Of an output that clients changed during a call, all files together have
\* one whole line of one of its formats, or nothing, and no piece twice.
THEOREM PiecesWrittenOnce == Spec => []PiecesOnce
<1>1. IInv => PiecesOnce
  BY DonePiecesOnce
<1> QED BY <1>1, Invariance, PTL
=============================================================================
