CONSTANTS
  FpMod = 997
  maxLazyTDFAStates = 50
  Exprs <- Address
  Request <- AskedGroups
  Caller = {g1}
  DeadTree = 1
  Byte <- MCByte
  Letter <- MCByte
  Situation <- MCSituation
  TagTree <- MCTagTree
  Configs <- MCConfigs
  TagNull <- MCAccepts
  ContextFree <- MCPlain
  Pattern <- MCPattern
  Program <- MCProgram
  Input <- MCInput
  Find <- MCFind
  Spans <- MCSpans
  Answer <- MCAnswer
  None = None
SPECIFICATION Spec
INVARIANT SubmatchNilMeansNoMatch
