SPECIFICATION Spec
CONSTANTS
  Postmaster = postmaster
  Backends = {backend}
  Others = {shell}
  WalDevice = wal
  OtherDevice = data
  None = None
  Off = Off
  Negative = Negative
  PidOptions = {backend, None}
  DevOptions = {None}
  SpillPath = {tmp1}
  OtherPath = {table}
  NoPath = NoPath
  RingCap = 2
  MaxSyscalls = 2
INVARIANTS PidTreeWatched
CHECK_DEADLOCK FALSE
