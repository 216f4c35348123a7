SPECIFICATION FairSpec
CONSTANTS
  Program = {"agent"}
  QueueCap = 2
  MaxFindings = 2
PROPERTIES ShutdownReturns
CHECK_DEADLOCK FALSE
