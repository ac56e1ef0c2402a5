SPECIFICATION Spec
CONSTANTS
  Node = {1, 2, 3, 4, 5}
  allocate <- MCallocate
  EOT = EOT
  Key <- MCKey
  Value = {v1}
  NULL = NULL
  compar <- MCcompar
  AscendingPuts = FALSE
  CallbackPuts = "update"
INVARIANTS SentinelIntact SearchTree LevelsBalanced   PointersLive TraversalInOrder
PROPERTIES NoInsertNoRebalance
