SPECIFICATION Spec
CONSTANTS
  MXINPFS = 3
  MXARGS = 5
  MaxOpen = 6
  MaxFinds = 2
  Values <- MCValues
  Inputs <- MCInputs
  Commands <- MCCommands
INVARIANT TypeOK
INVARIANT ItemsTaken
INVARIANT SlotsAlive
INVARIANT ArgsAlive
INVARIANT HandlesAreInputs
INVARIANT ExitAsWritten
PROPERTY Ends
CHECK_DEADLOCK FALSE
