SPECIFICATION PlayFairSpec
CONSTANTS
  a = a
  b = b
  list = list
  wechat = wechat
  Null = Null
  Callers <- MCCallers
  Urls <- MCUrls
  Lists <- MCLists
  QueueSize = 2
  MaxPlays = 3
  MaxInputs = 2
  MaxTones = 2
  MayFail = TRUE
INVARIANTS ObjectsAreOwned
PROPERTIES EndsAreOwn ListGoesOn
CHECK_DEADLOCK FALSE
