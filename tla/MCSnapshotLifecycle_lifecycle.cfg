SPECIFICATION FairSpec
CONSTANTS
    Workloads <- Lifecycles
    VC = {v1, v2}
    Hasher = {h1}
    HashBatchSize = 1
    MaxBatch = 2
INVARIANTS
    RecordExact
    DigestOfCut
    OutcomesFromOrder
PROPERTIES
    HashedEventually
    DecidedEventually
CHECK_DEADLOCK FALSE
