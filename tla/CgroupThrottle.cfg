SPECIFICATION Spec
CONSTANTS
  FireAfter = 2
  CounterMax = 3
  IntervalMs = 2
  ThresholdPerSec = 1
  Throttling = {0, 3, 4, 6}
  None = None
  MaxIntervals = 6
INVARIANTS FindingsBacked RateIsTrueWithoutGaps
PROPERTIES ImplementsEpisodeAlarm
CHECK_DEADLOCK FALSE
