SPECIFICATION Spec
CONSTANTS
  Node = {1, 2, 3}
  allocate <- MCallocate
  EOT = EOT
  Key <- MCKey
  Value = {v1}
  NULL = NULL
  compar <- MCcompar
  AscendingPuts = FALSE
  CallbackPuts = "never"
INVARIANTS NoKeyLost
