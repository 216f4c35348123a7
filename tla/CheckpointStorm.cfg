SPECIFICATION Spec
CONSTANTS
  FireAfter = 2
  CounterMax = 2
  Work <- PhaseWork
  FpiFlood = 1
  None = None
  MaxCheckpoints = 5
INVARIANTS DeltasAreSound FindingsBacked FiresOncePerRun
CHECK_DEADLOCK FALSE
