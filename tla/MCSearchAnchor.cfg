CONSTANTS
  FpMod = 997
  maxLazyDFAStates = 5
  Exprs <- Anchored
  FalseTree <- MCFalseTree
  Byte <- MCByte
  Tree <- MCTree
  Minterm <- MCByte
  Context <- MCContext
  Deriv <- MCDeriv
  Null <- MCNull
  Mask <- MCMask
  FP <- MCFP
  Compiled <- MCCompiled
  Input <- AnchoredTexts
  Texts <- MCTexts
  Spans <- MCSpans
  None = None
  MaxLen <- MCMaxLen
SPECIFICATION Spec
INVARIANT
  NilMeansNoMatch
