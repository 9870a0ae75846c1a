SPECIFICATION Spec
CONSTANTS
  Apps = {a1, a2}
  Threads = {t1}
  Blocks = {b1, b2, b3, b4}
  Events = {"exit", "work"}
  Exit = "exit"
  ToAll = ToAll
  None = None
  MaxSends = 2
  MallocMayFail = TRUE
  Malloc <- AnyFree
SYMMETRY Symmetry
INVARIANTS TypeOK BlockOwnership NoDanglingApp CopiesAreRight
CHECK_DEADLOCK FALSE
