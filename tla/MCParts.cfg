SPECIFICATION PartsSpec
CONSTANTS
    MaxBlock = 4
    BATCH_SIZE = 2
    Syncs = {1, 2}
    MaxRows = 4
    MaxFailures = 0
    MaxCrashes = 1
    Size <- MCSize
    HeaderSize = 2
    MaxConnections = 2
    Replica = {1, 2}
    MaxTxns = 3
    VRFLeader <- MCVRFLeader
    total_num = 1
    batch_size = 2
    CacheBlocks = 3
    batchSize = 2
    Workers = 2
    Scans = {1, 2}
    CacheFailures = 1
    MaxRestarts = 1
    Template = "vue"
    MaxOut = 2
    Wallet = {"w"}
    DataClient = {"d"}
    PathClient = {"p1", "p2"}
    Source = {"s1", "s2"}
    NoSource = "none"
    Domain = {"site"}
    Net = {"Mainnet", "Localnet"}
    MaxPending = 2
INVARIANTS
    PartsTypeOK
    BlocksOnce NoGap
    LinkSafe OneSerialOrder
    SessionsHonest DeploysSound KeysSafe ConnectionsSafe
    PagesCurrent
PROPERTY WalletSteps
CHECK_DEADLOCK FALSE
