CONSTANTS
  FpMod = 997
  maxLazyDFAStates = 5
  Exprs <- Accented
  FalseTree <- MCFalseTree
  Byte <- MCByte
  Tree <- MCTree
  Minterm <- MCByte
  Context <- MCContext
  Deriv <- MCDeriv
  Null <- MCNull
  Mask <- MCMask
  FP <- MCFP
  Compiled <- MCCompiled
  Input <- AccentedTexts
  Texts <- MCTexts
  Spans <- MCSpans
  None = None
  MaxLen <- MCMaxLen
SPECIFICATION Spec
INVARIANT
  NilMeansNoMatch
