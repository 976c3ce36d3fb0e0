SPECIFICATION Spec
CONSTANTS
  MaxReplicas = 7
  MaxView = 2
  MaxHash = 14
INVARIANT SafeWithOneHeavy
CHECK_DEADLOCK FALSE
