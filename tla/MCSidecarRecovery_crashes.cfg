SPECIFICATION FairSpec
CONSTANTS
  Chains <- TwoChains
  SyncInterval = 3
  QueueSize = 1
  Seeks <- Follow
  Queries <- AnyBlock
  MaxSeeks = 1
  MaxFaults = 2
INVARIANTS LedgerStable StoreNotAhead
PROPERTIES AllStored
CHECK_DEADLOCK FALSE
