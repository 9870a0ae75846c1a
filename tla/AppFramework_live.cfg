SPECIFICATION FairSpec
CONSTANTS
  Apps = {a1, a2, a3}
  Threads = {t1}
  Blocks = {1, 2, 3, 4}
  Events = {"exit"}
  Exit = "exit"
  ToAll = ToAll
  None = None
  MaxSends = 1
  MallocMayFail = FALSE
  Malloc <- FirstFree
PROPERTIES Delivered
CHECK_DEADLOCK FALSE
