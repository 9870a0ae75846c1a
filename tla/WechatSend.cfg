SPECIFICATION FairSpec
CONSTANTS
  None = None
  MaxSn = 3
  MaxFrames = 2
  MaxPresses = 4
  MaxFaults = 1
INVARIANTS MessageIsFound MicrophoneIsFree
PROPERTIES MessagesGoOn
CHECK_DEADLOCK FALSE
