\* Memos with flaps of the link, power cuts and failures of the flash.
SPECIFICATION Spec
CONSTANTS
  Memo = memo  Other = other  Terminal = terminal  Boot = boot  Nobody = nobody
  Erased = erased  Torn = torn
  Tasks <- MCTasks  Arrays <- MCArrays  NoMemos <- MCNoMemos
  NoUser = nouser  Users = {nouser, user}
  Formal = 100  Test = 200
  MEMO_EVEVT_MAX = 2  MaxRemind = 2  Delays = {0}  Epoch = 10
  MayMix = FALSE MaxTicks = 1  MaxMemos = 3  Bounds <- MCBounds
INVARIANTS MemosAreRight KeptUnlessTold
PROPERTIES SpokenInTime ImplementsStore
CHECK_DEADLOCK FALSE
