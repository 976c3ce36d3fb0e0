SPECIFICATION Spec
CONSTANTS
  replica_num = 3
  Leader <- MCLeader
  MaxProcessTxn = 2
  MaxRequests = 4
INVARIANT CallsBack
CHECK_DEADLOCK FALSE
