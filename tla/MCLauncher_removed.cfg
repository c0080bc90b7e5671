SPECIFICATION Spec
CONSTANTS
  MaxSignals = 1
  MaxResizes = 0
INVARIANT RemovedWhenKilled
\* A stopped launcher may never be continued.
CHECK_DEADLOCK FALSE
