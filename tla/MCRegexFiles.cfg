SPECIFICATION Spec
CONSTANTS
  MaxTokens = 4
  FileLists <- MCRegexFileLists
  FindLists <- MCOneRegex
  Switches <- MCNoSwitch
  PcreCompiles <- MCPcreCompiles
  PcreExec <- MCPcreExec
INVARIANT RegexInEveryFile
CHECK_DEADLOCK FALSE
