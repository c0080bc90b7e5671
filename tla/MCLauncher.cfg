SPECIFICATION FairSpec
CONSTANTS
  MaxSignals = 3
  MaxResizes = 1
INVARIANTS TakenBack TerminalKept
PROPERTIES InterruptEnds NoOrphan RawAgain
\* A stopped launcher may never be continued.
CHECK_DEADLOCK FALSE
