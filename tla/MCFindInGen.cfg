SPECIFICATION Spec
CONSTANTS
  MaxTokens = 4
  FileLists <- MCFileLists
  FindLists <- MCFindLists
  Switches <- MCSwitches
  PcreCompiles <- MCPcreCompiles
  PcreExec <- MCPcreExec
INVARIANT TypeOK
INVARIANT LinesCounted
INVARIANT ShownLineHoldsFind
INVARIANT FlagsTellFinds
INVARIANT RegexLinesReported
PROPERTY ReportsInOrder
PROPERTY SearchEnds
CHECK_DEADLOCK FALSE
