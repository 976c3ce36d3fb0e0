SPECIFICATION Spec
CONSTANTS
  replica_num = 4
  Leader <- MCLeader
  MaxProcessTxn = 2
  MaxRequests = 4
INVARIANTS TypeOK SlotsAccounted WindowBound NoSlotLeaks CallsBack
CHECK_DEADLOCK FALSE
