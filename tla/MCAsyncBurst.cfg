SPECIFICATION FairSpec
CONSTANTS
    Size <- MCBurst
    HeaderSize = 1
    MaxConnections = 1
PROPERTY BurstIsReceived
CHECK_DEADLOCK FALSE
