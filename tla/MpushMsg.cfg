SPECIFICATION FairSpec
CONSTANTS
  text = text
  list = list
  Messages = {text, list}
  Spoken = {text}
  None = None
  MaxFlaps = 1
  MaxFaults = 1
INVARIANTS MessagesAreKept ConnectedIsBound WaitsForItsTone
PROPERTIES MessagesGoOn Reconnects
CHECK_DEADLOCK FALSE
