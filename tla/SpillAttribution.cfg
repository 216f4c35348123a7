SPECIFICATION FairSpec
CONSTANTS
  Postmaster = postmaster
  Backends = {backend}
  Others = {}
  WalDevice = wal
  OtherDevice = data
  None = None
  Off = Off
  Negative = Negative
  PidOptions = {backend, Off, None}
  DevOptions = {data, Off, None}
  SpillPath = {tmp1, tmp2}
  OtherPath = {table}
  NoPath = NoPath
  RingCap = 1
  MaxSyscalls = 3
INVARIANTS ProgramsSeeTheFilter OncePerSpill SpillsAccounted OnlyTheChosenProcess
PROPERTIES EverySpillReported
CHECK_DEADLOCK FALSE
