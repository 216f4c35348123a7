SPECIFICATION FairSpecH
CONSTANTS
  RingCap = 2
  FireAfter = 2
  CounterMax = 3
  Ops = {"Read", "WriteFlush"}
  Latency = {2, 3}
  NsPerMs = 2
  ThresholdMs = 1
  MaxOffered = 6
  MaxQuiet = 2
INVARIANTS TypeOKH BreachIsMajority NoLostWakeup FindingsBacked FindingEvidence CounterTracksHistory
PROPERTIES EventuallyDrained EventuallyEvaluated ImplementsEpisodeAlarm
CHECK_DEADLOCK FALSE
