-------------------------------- MODULE JLog --------------------------------
(***************************************************************************)
(* The logger of jlog.c: threads log through loggers, which share writers, *)
(* whose outputs may share files. Every call of a stdio function is a step *)
(* (stdio locks the FILE for one call only); a line takes several, and the *)
(* mutex of the writer is all that holds them together. The outputs of a   *)
(* writer are fields that clients set, while threads log too, without it.  *)
(*                                                                         *)
(* A chunk is what one stdio call writes. Its text is abstracted to the    *)
(* piece of the format it comes from, and it keeps that piece's place p.   *)
(***************************************************************************)
EXTENDS Integers, Sequences

CONSTANTS
  Thread, Writer, File, Tag, Logger,
  NULL,
  configured, \* writer -> its outputs at first: fp or NULL, mask, format
  changes,    \* what clients may set an output to: writer, n, field, value
  loggers,    \* logger -> its mask and its writer or NULL
  MaxCalls,   \* bounds the messages each thread logs
  MaxChanges  \* bounds the changes to outputs

\* What a format is made of. %C, %x and %X are accepted and print nothing;
\* any other unknown conversion, or %d{ with no } or a long format before it,
\* fails an assertion.
Printed == {"literal", "message", "category", "date"}
Piece == Printed \cup {"ignored", "unknown"}

ASSUME ConfigurationAssumption ==
  /\ NULL \notin Thread \cup Writer \cup File
  /\ configured \in [Writer -> Seq([fp : File \cup {NULL}, mask : SUBSET Tag,
                                    format : Seq(Piece)])]
  /\ \A c \in changes :
       /\ c.writer \in Writer /\ c.n \in DOMAIN configured[c.writer]
       /\ \/ c.field = "fp" /\ c.value \in File \cup {NULL}
          \/ c.field = "mask" /\ c.value \subseteq Tag
          \/ c.field = "format" /\ c.value \in Seq(Piece)
  /\ loggers \in [Logger -> [mask : SUBSET Tag, writer : Writer \cup {NULL}]]
  /\ MaxCalls \in [Thread -> Nat] /\ MaxChanges \in Nat

VARIABLES
  outputs, \* the outputs of each writer
  changed, \* how often they were changed
  pc,      \* where each thread is in vjlogprintf
  call,    \* its arguments, its loop variables i and p and the format it
           \* goes through, or NULL; history: the outputs it found when it
           \* started and those changed since
  made,    \* calls it has made, which also numbers its messages
  mutex,   \* per writer: the thread that holds it
  buffer,  \* per file: chunks in the stdio buffer
  file,    \* per file: chunks written
  ended,   \* "no", or what ended the process: an assertion, or no file
  returned \* history: the calls that returned

stdio == <<buffer, file>>
config == <<outputs, changed>>
vars == <<config, pc, call, made, mutex, stdio, ended, returned>>

\* The running call of t.
message(t) == [thread |-> t, number |-> made[t]]
writer(t) == loggers[call[t].logger].writer
noutput(t) == Len(outputs[writer(t)])
output(t) == outputs[writer(t)][call[t].i]

\* Mutant: the format is read again for each piece.
AtPiece_reread(t) == output(t).format[call[t].p]

AtPiece(t) == call[t].format[call[t].p]
AtEnd(t) == call[t].p > Len(call[t].format)

Goto(t, l) == pc' = [pc EXCEPT ![t] = l]
Running(t, l) == ended = "no" /\ pc[t] = l

\* The process is gone, and with it what is in a stdio buffer.
End(cause) == ended' = cause /\ buffer' = [f \in File |-> <<>>] /\ UNCHANGED file

\* One stdio call: a chunk is appended to the buffer of the file that is the
\* output's now.
Write(t, piece) ==
  /\ buffer' = [buffer EXCEPT ![output(t).fp] =
       Append(@, [message |-> message(t), output |-> call[t].i,
                  p |-> call[t].p, piece |-> piece])]
  /\ UNCHANGED file

FlushTo(f) ==
  /\ file' = [file EXCEPT ![f] = @ \o buffer[f]]
  /\ buffer' = [buffer EXCEPT ![f] = <<>>]

Return(t, l, tag, outs, touched) ==
  /\ Goto(t, "idle")
  /\ call' = [call EXCEPT ![t] = NULL]
  /\ returned' = returned \cup {[message |-> [thread |-> t, number |-> made'[t]],
                                 logger |-> l, tag |-> tag,
                                 found |-> outs, touched |-> touched]}

Init ==
  /\ outputs = configured
  /\ changed = 0
  /\ pc = [t \in Thread |-> "idle"]
  /\ call = [t \in Thread |-> NULL]
  /\ made = [t \in Thread |-> 0]
  /\ mutex = [w \in Writer |-> NULL]
  /\ buffer = [f \in File |-> <<>>]
  /\ file = [f \in File |-> <<>>]
  /\ ended = "no"
  /\ returned = {}

\* The macro tests the mask of the logger, vjlogprintf that it has a writer.
jlog(t, l, tag) ==
  /\ Running(t, "idle") /\ made[t] < MaxCalls[t]
  /\ made' = [made EXCEPT ![t] = @ + 1]
  /\ IF tag \in loggers[l].mask /\ loggers[l].writer # NULL
       THEN /\ Goto(t, "lock")
            /\ call' = [call EXCEPT ![t] =
                 [logger |-> l, tag |-> tag, i |-> 1, p |-> 1, format |-> <<>>,
                  found |-> outputs[loggers[l].writer], touched |-> {}]]
            /\ UNCHANGED returned
       ELSE Return(t, l, tag, <<>>, {})
  /\ UNCHANGED <<config, mutex, stdio, ended>>

\* A client sets a field of an output.
SetOutput(c) ==
  /\ ended = "no" /\ changed < MaxChanges
  /\ outputs[c.writer][c.n][c.field] # c.value
  /\ outputs' = [outputs EXCEPT ![c.writer][c.n][c.field] = c.value]
  /\ changed' = changed + 1
  /\ call' = [t \in Thread |->
       IF pc[t] # "idle" /\ writer(t) = c.writer
         THEN [call[t] EXCEPT !.touched = @ \cup {c.n}] ELSE call[t]]
  /\ UNCHANGED <<pc, made, mutex, stdio, ended, returned>>

\* Mutant: without the mutex.
Lock_without_mutex(t) ==
  /\ Running(t, "lock")
  /\ Goto(t, "outputs")
  /\ UNCHANGED <<config, call, made, mutex, stdio, ended, returned>>

Lock(t) ==
  /\ Running(t, "lock") /\ mutex[writer(t)] = NULL
  /\ mutex' = [mutex EXCEPT ![writer(t)] = t]
  /\ Goto(t, "outputs")
  /\ UNCHANGED <<config, call, made, stdio, ended, returned>>

NextOutput(t) ==
  /\ Goto(t, "outputs")
  /\ call' = [call EXCEPT ![t].i = @ + 1, ![t].p = 1]
NextPiece(t) == call' = [call EXCEPT ![t].p = @ + 1]

\* Mutant: the mask of the output is not tested.
TestMask_unmasked(t) ==
  /\ Running(t, "outputs") /\ call[t].i <= noutput(t)
  /\ Goto(t, "selected")
  /\ UNCHANGED <<config, call, made, mutex, stdio, ended, returned>>

TestMask(t) ==
  /\ Running(t, "outputs") /\ call[t].i <= noutput(t)
  /\ IF call[t].tag \in output(t).mask THEN Goto(t, "selected") /\ UNCHANGED call
                                      ELSE NextOutput(t)
  /\ UNCHANGED <<config, made, mutex, stdio, ended, returned>>

SkipOutput(t) ==
  /\ Running(t, "selected") /\ output(t).fp = NULL
  /\ NextOutput(t)
  /\ UNCHANGED <<config, made, mutex, stdio, ended, returned>>

\* The format is read once, the file again for each of its pieces.
SelectOutput(t) ==
  /\ Running(t, "selected") /\ output(t).fp # NULL
  /\ Goto(t, "format")
  /\ call' = [call EXCEPT ![t].format = output(t).format]
  /\ UNCHANGED <<config, made, mutex, stdio, ended, returned>>

WritePiece(t) ==
  /\ Running(t, "format") /\ ~AtEnd(t) /\ AtPiece(t) \in Printed /\ output(t).fp # NULL
  /\ Write(t, AtPiece(t))
  /\ NextPiece(t)
  /\ UNCHANGED <<config, pc, made, mutex, ended, returned>>

IgnorePiece(t) ==
  /\ Running(t, "format") /\ ~AtEnd(t) /\ AtPiece(t) = "ignored"
  /\ NextPiece(t)
  /\ UNCHANGED <<config, pc, made, mutex, stdio, ended, returned>>

\* assert fails with the mutex held.
Abort(t) ==
  /\ Running(t, "format") /\ ~AtEnd(t) /\ AtPiece(t) = "unknown"
  /\ End("assertion")
  /\ UNCHANGED <<config, pc, call, made, mutex, returned>>

\* A client has taken the file away, and stdio writes to NULL.
WriteToNull(t) ==
  /\ Running(t, "format") /\ output(t).fp = NULL
  /\ ~AtEnd(t) => AtPiece(t) \in Printed
  /\ End("no file")
  /\ UNCHANGED <<config, pc, call, made, mutex, returned>>

EndLine(t) ==
  /\ Running(t, "format") /\ AtEnd(t) /\ output(t).fp # NULL
  /\ Write(t, "newline")
  /\ Goto(t, "flush")
  /\ UNCHANGED <<config, call, made, mutex, ended, returned>>

\* fflush(NULL) flushes every file.
fflush(fp) ==
  IF fp # NULL THEN FlushTo(fp)
  ELSE /\ file' = [f \in File |-> file[f] \o buffer[f]]
       /\ buffer' = [f \in File |-> <<>>]

\* Mutant: the mutex is given up after each output.
Flush_unlocks(t) ==
  /\ Running(t, "flush")
  /\ fflush(output(t).fp)
  /\ mutex' = [mutex EXCEPT ![writer(t)] = NULL]
  /\ NextOutput(t)
  /\ UNCHANGED <<config, made, ended, returned>>

Flush(t) ==
  /\ Running(t, "flush")
  /\ fflush(output(t).fp)
  /\ NextOutput(t)
  /\ UNCHANGED <<config, made, mutex, ended, returned>>

\* Mutant: returns with the mutex held.
Unlock_forgotten(t) ==
  /\ Running(t, "outputs") /\ call[t].i > noutput(t)
  /\ UNCHANGED <<config, made, mutex, stdio, ended>>
  /\ Return(t, call[t].logger, call[t].tag, call[t].found, call[t].touched)

Unlock(t) ==
  /\ Running(t, "outputs") /\ call[t].i > noutput(t)
  /\ mutex' = [mutex EXCEPT ![writer(t)] = NULL]
  /\ UNCHANGED <<config, made, stdio, ended>>
  /\ Return(t, call[t].logger, call[t].tag, call[t].found, call[t].touched)

\* stdio writes out a buffer whenever it is full.
BufferFull(f) ==
  /\ ended = "no" /\ buffer[f] # <<>>
  /\ FlushTo(f)
  /\ UNCHANGED <<config, pc, call, made, mutex, ended, returned>>

Step(t) ==
  \/ Lock(t) \/ TestMask(t) \/ SkipOutput(t) \/ SelectOutput(t)
  \/ WritePiece(t) \/ IgnorePiece(t) \/ Abort(t) \/ WriteToNull(t)
  \/ EndLine(t) \/ Flush(t) \/ Unlock(t)

Next ==
  \/ \E t \in Thread :
       \/ Step(t)
       \/ \E l \in Logger, tag \in Tag : jlog(t, l, tag)
  \/ \E f \in File : BufferFull(f)
  \/ \E c \in changes : SetOutput(c)

Spec == Init /\ [][Next]_vars
\* The scheduler runs every thread that can run. The mutex need not be
\* fair: the number of calls is finite.
FairSpec == Spec /\ \A t \in Thread : WF_vars(Step(t))
-----------------------------------------------------------------------------
(***************************************************************************)
(* Properties.                                                             *)
(***************************************************************************)
\* Everything that was written or will be, unless the process aborts.
Stream(f) == file[f] \o buffer[f]

\* The settings an output may have.
Settings(w, n, field) ==
  {configured[w][n][field]} \cup
  {c.value : c \in {d \in changes : d.writer = w /\ d.n = n /\ d.field = field}}

WritersTo(f) ==
  {w \in Writer : \E n \in DOMAIN configured[w] : f \in Settings(w, n, "fp")}

\* Threads that share a writer never tear each other's lines, whatever
\* clients change meanwhile: in a file that one writer writes to, nothing
\* comes between two chunks of a line.
LinesWhole ==
  \A f \in File : (\A v, w \in WritersTo(f) : v = w) =>
    LET s == Stream(f) IN
      \A a, b, c \in DOMAIN s : a < b /\ b < c =>
        LET SameLine(x, y) == s[x].message = s[y].message /\ s[x].output = s[y].output
        IN  SameLine(a, c) => SameLine(a, b)

\* What an output writes for one message: the pieces that are printed, each
\* with its place in the format, and the newline.
Line(format) ==
  {<<p, format[p]>> : p \in {q \in DOMAIN format : format[q] \in Printed}}
    \cup {<<Len(format) + 1, "newline">>}

\* Where in a stream the chunks of one message by one output are, and what
\* they say.
Mine(s, m, n) == {a \in DOMAIN s : s[a].message = m /\ s[a].output = n}
Content(s, m, n) == {<<s[a].p, s[a].piece>> : a \in Mine(s, m, n)}

\* A call that returned, even if the process ended since, has left in each
\* file exactly one line per output that selects its tag, in the order of the
\* format, and nothing for the others, whoever else writes to the file, and
\* nothing is left in a buffer. An output that a client changed meanwhile is
\* not held to it.
Delivered ==
  \A r \in returned :
    LET lg == loggers[r.logger] IN
      IF r.tag \notin lg.mask \/ lg.writer = NULL
        THEN \A f \in File : \A a \in DOMAIN Stream(f) : Stream(f)[a].message # r.message
        ELSE \A f \in File, n \in DOMAIN r.found \ r.touched :
               LET o == r.found[n] IN
                 /\ Content(Stream(f), r.message, n) =
                      IF o.fp = f /\ r.tag \in o.mask THEN Line(o.format) ELSE {}
                 /\ \A a \in Mine(Stream(f), r.message, n) : a <= Len(file[f])
                 /\ \A a, b \in Mine(Stream(f), r.message, n) :
                      a < b => Stream(f)[a].p < Stream(f)[b].p

\* Changing an output during a call may spread its line over several files,
\* but leaves every piece of one format in one place: nothing is written
\* twice, lost, or mixed from two formats, as long as the process lives.
PiecesOnce ==
  ended = "no" => \A r \in returned : \A n \in r.touched :
    /\ UNION {Content(Stream(f), r.message, n) : f \in File} \in
         {{}} \cup {Line(format) : format \in Settings(loggers[r.logger].writer, n, "format")}
    /\ \A f, g \in File : \A a \in Mine(Stream(f), r.message, n), b \in Mine(Stream(g), r.message, n) :
         Stream(f)[a].p = Stream(g)[b].p => f = g /\ a = b

\* Two messages of one writer are in the same order in all its files, those
\* it shares with other writers and those it was given meanwhile included,
\* and never run into each other.
Before(f, m, n) ==
  \E a, b \in DOMAIN Stream(f) :
    a < b /\ Stream(f)[a].message = m /\ Stream(f)[b].message = n

SameOrder ==
  \A r, q \in returned :
    r.message # q.message /\ loggers[r.logger].writer = loggers[q.logger].writer =>
      \A f, g \in File : ~(Before(f, r.message, q.message) /\ Before(g, q.message, r.message))

\* Only an assertion, or a client that takes the file of the very line that
\* is being written, ends the process.
Excused ==
  \/ ended = "assertion"
  \/ ended = "no file" /\ \E t \in Thread : pc[t] = "format" /\ call[t].i \in call[t].touched

\* Every call returns, unless the process ends for a reason of the client's:
\* no thread waits for a mutex for ever, and no line is begun without a file.
CallsReturn == \A t \in Thread : pc[t] # "idle" ~> (pc[t] = "idle" \/ Excused)
=============================================================================
