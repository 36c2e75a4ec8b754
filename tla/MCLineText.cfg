SPECIFICATION Spec
CONSTANTS
  MaxTokens = 5
  MXLINEBUF = 6
  gdwMax1Line = 4
  gdwEnd1Line = 6
  g_dwBackup = 2
  g_dwForward = 1
  DEF_MAX_LINES = 2
  Inputs <- MCInputs
INVARIANT LineFits
INVARIANT TextKept
INVARIANT FindShown
CHECK_DEADLOCK FALSE
