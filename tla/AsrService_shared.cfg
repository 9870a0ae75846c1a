SPECIFICATION FairSpec
CONSTANTS
  Clients = {talk, wechat}
  None = None
  MaxSn = 2
  MaxFrames = 2
  MinFrames = 2
  MallocMayFail = TRUE
  EngineMayFail = TRUE
  BusMayFail = TRUE
  MaxLost = 1
INVARIANTS NothingLost ResultsAreRight
PROPERTIES Answered
CHECK_DEADLOCK FALSE
