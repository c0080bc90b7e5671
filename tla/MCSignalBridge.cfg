SPECIFICATION FairSpec
CONSTANTS
  N = 2
  Actions <- ActionsAll
  Masks <- MasksTwo
  Ops = {"sigaction", "sigmask", "suspend", "poll", "read", "wait", "fork", "other"}
  Jumps = {"main"}
  MaxSends = 2
  MaxDepth = 2
CHECK_DEADLOCK FALSE
INVARIANTS NoSleepOnQueued TransferKept NothingLost NotReentered DispositionsAgree SuspendHasCause
PROPERTY SleepEnds
