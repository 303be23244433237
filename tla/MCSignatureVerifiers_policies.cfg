SPECIFICATION FairSpec
CONSTANTS
  Deployments = {{v1}, {v1, v2}}
  Namespaces = {"n"}
  Chains <- AllChains
  QueueSize = 1
  Parallelism = 1
  BatchSizeCutoff = 2
  MaxFaults = 1
INVARIANTS VerdictsSerial NodesExact PoliciesExact
PROPERTIES AllFinished
CHECK_DEADLOCK FALSE
