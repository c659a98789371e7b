CONSTANTS
  FpMod = 5
  maxLazyDFAStates = 4
  FalseTree <- MCFalseTree
  Tree <- MCTree
  Byte <- MCByte
  Minterm <- MCByte
  Context <- MCContext
  Deriv <- MCDeriv
  Null <- MCNull
  Mask <- MCMask
  FP <- MCFP
  Roots <- MCRoots
SPECIFICATION Spec
INVARIANTS
  TypeOK
  IndexIsExact
  StatesDistinct
  DenseSound
  MaskedSound
  MatchBitSound
  CapRespected
  ReadsDerivative
PROPERTIES
  CacheOnlyGrows
  Implements
