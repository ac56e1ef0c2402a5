SPECIFICATION FairSpec
CONSTANTS
  Node = {1, 2, 3, 4, 5, 6, 7}
  allocate <- MCallocate
  EOT = EOT
  Key <- MCKeyMore
  Value = {v1}
  NULL = NULL
  compar <- MCcompar
  AscendingPuts = TRUE
  CallbackPuts = "any"
INVARIANTS NoLeak
PROPERTIES ImplementsSortedMap CallsReturn
