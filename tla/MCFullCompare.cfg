SPECIFICATION CompareSpec
CONSTANTS
  MaxLen = 4
  Files <- MCFiles
  Finds <- MCFinds
  Options <- MCOptions
INVARIANT FindsAreReal
INVARIANT RealFindsFound
CHECK_DEADLOCK FALSE
