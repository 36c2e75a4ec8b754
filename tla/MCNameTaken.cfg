SPECIFICATION MatchSpec
CONSTANTS
  MaxBody = 3
  MaxMask = 3
  Turns = 2
  XSwitches <- MCSwitches
  Questions <- MCQuestions
INVARIANT AsteriskUpToLetter
CHECK_DEADLOCK FALSE
