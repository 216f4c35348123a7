SPECIFICATION CapacitySpec
CONSTANTS
  File = {f1, f2}
  FileSizes = {1, 2}
  OtherUse = {0, 3}
  MountTotal = 7
  FootprintThreshold = 2
  FreeThresholdPct = 29
  MaxSamples = 3
INVARIANTS QuietWalkIsExact TruncationIsHarmless
PROPERTIES OneFindingPerEpisode
CHECK_DEADLOCK FALSE
