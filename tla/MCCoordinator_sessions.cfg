SPECIFICATION FairSpec
CONSTANTS
    t1 = t1
    r1 = r1
    r2 = r2
    v1 = v1
    v2 = v2
    Deployments <- All
    VC = {v1, v2}
    QueueCap = 1
INVARIANTS  IdleMeansProcessed
PROPERTIES IdleEventually AnswerEventually
CHECK_DEADLOCK FALSE
