SPECIFICATION Spec
CONSTANTS
  root = root
  sub = sub
  deep = deep
  skip = skip
  f1 = f1
  f2 = f2
  f3 = f3
  f4 = f4
  f5 = f5
  f6 = f6
  Dirs <- MCDirs
  Files <- MCFiles
  Entries <- MCEntries
  MaskLists <- MCMaskLists
  Switches <- MCSwitches
  InExclude <- MCExclude
  InExcludeD <- MCExcludeD
  IsBinary <- MCBinary
  MaxFaults = 3
INVARIANT TypeOK
INVARIANT FilesAccounted
INVARIANT MapIsShut
INVARIANT NothingTwice
INVARIANT AllWantedSearched
INVARIANT OnlyFaultsCost
PROPERTY WalkEnds
CHECK_DEADLOCK FALSE
