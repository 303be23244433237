SPECIFICATION FairSpec
CONSTANTS
  Servers = {s1, s2}
  Endpoints <- Both
  MaxFaults = 2
INVARIANTS NothingLeft
PROPERTIES EndsTogether
CHECK_DEADLOCK FALSE
