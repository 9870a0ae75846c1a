SPECIFICATION PowerFairSpec
CONSTANTS
  SleepSec = 3
  RemindCount = 2
  RemindGap = 1
  Jump = 3
  MaxTime = 5
  MaxJumps = 1
  MaxPlugs = 2
INVARIANTS ToldAgrees
PROPERTIES SleepsForAReason ToldOfCharging
CHECK_DEADLOCK FALSE
