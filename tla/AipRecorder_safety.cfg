SPECIFICATION FairSpec
CONSTANTS
  kww = kww
  talk = talk
  Callbacks = {kww, talk}
  MaxMs <- TwoLengths
  FrameMs = {1, 2}
  None = None
  MaxSn = 3
  MaxQueue = 2
  MayFail = TRUE
INVARIANTS SessionsAreSound
PROPERTIES CallbackProtocol SessionsEnd
CHECK_DEADLOCK FALSE
