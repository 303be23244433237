SPECIFICATION FairSpec
CONSTANTS
    k1 = k1
    k2 = k2
    Key = {k1}
    NumTx = 3
    NumBatch = 3
    BatchOf <- SingleBatches
    Workloads <- RepeatedReadWorkloads
    Rejected = {}
    Worker = {w1, w2}
    WaitingTxsLimit = 2
    QueueCap = 1
PROPERTIES
    ImplementsConflictOrder
CHECK_DEADLOCK FALSE
