SPECIFICATION FairSpec
CONSTANTS
    s1 = s1
    s2 = s2
    b1 = b1
    Stream = {s1, s2}
    BlockStream = {b1}
    TxID = {"t1", "t2"}
    Asks <- Lists
    Batches <- Ends
    Leaving = {s1, b1}
    FilterNamespaces <- Filters
    FilterStatus <- Statuses
    Blocks <- Chain
    BufferSize = 1
    MaxActiveTxIDs = 2
    MaxTxIDsPerRequest = 3
    MaxInputs = 3
INVARIANTS
    SlotsExact
    AnsweredOnce
    BlockRun
PROPERTIES
    SlotsReturn
CHECK_DEADLOCK FALSE
