SPECIFICATION Spec
CONSTANTS
  N = 4
  Element <- MCElement
  Odd <- MCOdd
  nbucket = 3
  categorizer <- MCcategorizer
  NULL = NULL
INVARIANTS Sorted Permuted OddFirst
PROPERTIES StaysInside
