SPECIFICATION FairSpec
CONSTANTS
  p1 = p1
  p2 = p2
  p3 = p3
  Party = {p1, p2, p3}
  Faulty = {p2}
  LastNum = 3
  ConfigBlocks = {0, 2}
  Parties <- Lists
  KnownConfigs = {0, 2}
  Starts = {0, 1}
  Levels = {"BFT", "CFT"}
  Damages = {"prev", "signature"}
  QueueSize = 2
  MaxFaults = 1
INVARIANTS OutputRun ConfigExact
PROPERTIES Delivered
CHECK_DEADLOCK FALSE
