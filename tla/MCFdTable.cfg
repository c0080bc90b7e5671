SPECIFICATION Spec
CONSTANTS
  MAX_FDS = 2
  TOP = 5
  Limits <- LimitsAll
  MAX_DIRS = 1
  Files = {f}
  Own = 1
  MaxRights = 2
INVARIANTS TableCorrect
PROPERTIES NothingDisturbed ExecHandsOver
