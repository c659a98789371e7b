CONSTANTS
  FpMod = 997
  maxLazyTDFAStates = 3
  Exprs <- Grouped
  Request <- Asked
  Caller = {g1, g2}
  DeadTree = 1
  Byte <- MCByte
  Letter <- MCByte
  Situation <- MCSituation
  TagTree <- MCTagTree
  Configs <- MCConfigs
  TagNull <- MCAccepts
  ContextFree <- MCPlain
  Pattern <- MCPattern
  Program <- MCProgram
  Input <- MCInput
  Find <- MCFind
  Spans <- MCSpans
  Answer <- MCAnswer
  None = None
SPECIFICATION Spec
INVARIANTS
  TypeOK
  Successive
  NothingBetween
  TextAccounted
  GroupsInside
  TransitionsAreFresh
PROPERTIES
  TaggedGrows
  Returns
  Implements
