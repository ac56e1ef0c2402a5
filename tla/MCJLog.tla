------------------------------- MODULE MCJLog -------------------------------
(***************************************************************************)
(* An instance of JLog. Writer w1 has two files. It shares f2 with writer  *)
(* w2, which prints warnings there in a format the code does not know.     *)
(* While threads log, clients take the file of an output away or exchange  *)
(* it for another, and change its format.                                  *)
(***************************************************************************)
EXTENDS JLog, TLC

CONSTANTS t1, t2, w1, w2, f1, f2, f3, everything, second, silent

All == {"info", "warn"}
Output(fp, mask, format) == [fp |-> fp, mask |-> mask, format |-> format]

MCconfigured ==
  w1 :> << Output(f1, All, <<"date", "message">>),
           Output(f2, {"warn"}, <<"ignored", "message">>) >> @@
  w2 :> << Output(f2, {"info"}, <<"message">>),
           Output(f2, {"warn"}, <<"message", "unknown">>) >>

MCMaxCalls == t1 :> 2 @@ t2 :> 1

Change(w, n, field, value) == [writer |-> w, n |-> n, field |-> field, value |-> value]

MCchanges == {
  Change(w1, 1, "fp", NULL), Change(w1, 1, "fp", f3),
  Change(w1, 1, "format", <<"message", "date">>) }

\* silent lets only warnings through and has no writer for them.
MCloggers ==
  everything :> [mask |-> All, writer |-> w1] @@
  second :> [mask |-> All, writer |-> w2] @@
  silent :> [mask |-> {"warn"}, writer |-> NULL]
=============================================================================
