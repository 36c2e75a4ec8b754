SPECIFICATION Spec
CONSTANTS
  MaxLen = 5
  FileLists <- MCFileLists
  FindLists <- MCFindLists
  Switches <- MCSwitches
  PcreCompiles <- MCPcreCompiles
  PcreExec <- MCPcreExec
INVARIANT HoldingLinesShown
INVARIANT ShownIsSearched
PROPERTY ReportsInOrder
CHECK_DEADLOCK FALSE
