SPECIFICATION PrimeSpec
CONSTANTS
  INT_MAX = 63
  LONG_MAX = 8191
  EDOM = 33
  ERANGE = 34
  EINVAL = 22
  ENOMEM = 12
  MaxFibonacci = 20
  Depth = 30
  Longs = {}
  UInts = {}
  Bases = {}
  Remainders = {}
  Moduli = {}
  MaxEquations = 0
  NULL = NULL
  MaxN = 130
  NPRIME = 4
INVARIANT AnswersAsIsprime
