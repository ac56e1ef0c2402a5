SPECIFICATION Spec
CONSTANTS
  Key <- MCKey
  Value = {v, NULL}
  NULL = NULL
  Sizes = {0, 1, 3}
  UINT = 32
  MaxNodes = 3
  MaxArrays = 2
 
PROPERTIES ImplementsShadowMap
CHECK_DEADLOCK FALSE
