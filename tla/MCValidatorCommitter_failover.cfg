SPECIFICATION FairSpec
CONSTANTS
    VC = {v1, v2}
    Worker = {w1}
    NumTx = 4
    Workloads <- Chains
INVARIANTS
    
    StateSerial
    AnswersDurable
    NoUnreadConflict
PROPERTIES
    AllAnswered
CHECK_DEADLOCK FALSE
