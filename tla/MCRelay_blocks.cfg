SPECIFICATION FairSpec
CONSTANTS
    Blocks <- AllKinds
    WaitingTxsLimit = 3
    QueueCap = 1
    Verdicts = {"committed", "hold", "halt"}
INVARIANTS
    StatusFromOrder
    BarrierAlone
    LastSetIsRecoverable
PROPERTIES AllEmitted
CHECK_DEADLOCK FALSE
