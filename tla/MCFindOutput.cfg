SPECIFICATION Spec
CONSTANTS
  FindCount = 2
  MaxLine = 3
  HitLists <- MCHitLists
  TypeLists <- MCTypeLists
  RegexLists <- MCRegexLists
  Inhibited <- MCInhibited
  Switches <- MCSwitches
INVARIANT NamesHeadLines
INVARIANT LinesInOrder
INVARIANT ShownAsAsked
INVARIANT TypedNeedCompany
INVARIANT TypedShareLine
INVARIANT ExitTellsFinds
CHECK_DEADLOCK FALSE
