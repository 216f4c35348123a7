SPECIFICATION FairSpec
CONSTANTS
  Program = {"loader", "agent"}
  QueueCap = 2
  MaxFindings = 4
INVARIANT GracefulStopDelivers
PROPERTIES EveryFindingSettled LoaderShutdownReturns
CHECK_DEADLOCK FALSE
