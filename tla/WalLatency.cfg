SPECIFICATION WalSpec
CONSTANTS
  RingCap = 1
  Request = {r1, r2}
  Device = {wal, other}
  Sector = {s1, s2}
  DevFilter = wal
  NoDevice = NoDevice
  MaxEntries = 1
  Rwbs <- Kinds
  None = None
  MaxTime = 2
  FireAfter = 2
  CounterMax = 2
  NsPerMs = 1
  ThresholdMs = 1
SYMMETRY Symmetry
INVARIANTS SampleIsOwn MissIsExplained SampleNotStale NoLeak OnlyWalCommits FindingsShowInHistogram FindingsAreTrue
PROPERTY ImplementsFsyncJitter
CHECK_DEADLOCK FALSE
