SPECIFICATION FairStormSpec
CONSTANTS
  FireAfter = 2
  CounterMax = 3
  BackendThreshold = 1
  MaxBackends = 3
  NoFinding = NoFinding
  MaxJudged = 5
PROPERTIES OneFindingPerRun OneFindingPerStorm StormReported
