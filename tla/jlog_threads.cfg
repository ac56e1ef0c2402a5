SPECIFICATION FairSpec
CONSTANTS
  t1 = t1
  t2 = t2
  w1 = w1
  w2 = w2
  f1 = f1
  f2 = f2
  f3 = f3
  everything = everything
  second = second
  silent = silent
  Thread = {t1, t2}
  Writer = {w1, w2}
  File = {f1, f2, f3}
  Tag = {"info", "warn"}
  Logger = {everything, second, silent}
  NULL = NULL
  configured <- MCconfigured
  changes <- MCchanges
  loggers <- MCloggers
  MaxCalls <- MCMaxCalls
  MaxChanges = 1
INVARIANTS LinesWhole Delivered PiecesOnce SameOrder
PROPERTIES CallsReturn
CHECK_DEADLOCK FALSE
