SPECIFICATION Spec
CONSTANTS
  MaxLen = 6
  Inputs <- MCInputs
INVARIANT CodeFindsShown
INVARIANT ShownLineRight
CHECK_DEADLOCK FALSE
