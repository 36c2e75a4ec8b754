SPECIFICATION Spec
CONSTANTS
  FindCount = 2
  MaxLine = 3
  HitLists <- MCHitLists
  TypeLists <- MCUntyped
  RegexLists <- MCPlain
  Inhibited <- MCInhibited
  Switches <- MCSwitches
INVARIANT SkipAllInOne
CHECK_DEADLOCK FALSE
