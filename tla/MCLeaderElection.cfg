SPECIFICATION Spec
CONSTANTS
  MaxReplicas = 7
  MaxView = 2
  MaxHash = 14
INVARIANTS TypeOK SameLeader Proportional SelfCheckExact SafeExceptFour
CHECK_DEADLOCK FALSE
