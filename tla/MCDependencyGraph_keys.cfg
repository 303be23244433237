SPECIFICATION FairSpec
CONSTANTS
    k1 = k1
    k2 = k2
    Key = {k1, k2}
    NumTx = 4
    NumBatch = 2
    BatchOf <- PairBatches
    Workloads <- MixedWorkloads
    Rejected = {r1}
    Worker = {w1, w2}
    WaitingTxsLimit = 1
    QueueCap = 1
INVARIANTS
    EdgesExact
PROPERTIES
    ImplementsConflictOrder
    DrainedUnlessWakeupLost
CHECK_DEADLOCK FALSE
