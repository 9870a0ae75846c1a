SPECIFICATION FairSpec
CONSTANTS
  None = None
  MaxSn = 3
  MaxFrames = 2
  MaxWakes = 1
  MaxKeys = 1
  MaxFaults = 1
INVARIANTS MicrophoneOff
PROPERTIES StaysQuiet AnswersInTurn TalkGoesOn
CHECK_DEADLOCK FALSE
