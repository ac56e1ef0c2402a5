SPECIFICATION FairSpec
CONSTANTS
  Node = {n1, n2, n3}
  Element = {a, b}
  NULL = NULL
INVARIANTS TwoEnds IteratorGap
PROPERTIES  CallsReturn
