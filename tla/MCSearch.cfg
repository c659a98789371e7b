CONSTANTS
  FpMod = 997
  maxLazyDFAStates = 5
  Exprs <- Mixed
  FalseTree <- MCFalseTree
  Byte <- MCByte
  Tree <- MCTree
  Minterm <- MCByte
  Context <- MCContext
  Deriv <- MCDeriv
  Null <- MCNull
  Mask <- MCMask
  FP <- MCFP
  Compiled <- MCCompiled
  Input <- MixedTexts
  Texts <- MCTexts
  Spans <- MCSpans
  None = None
  MaxLen <- MCMaxLen
SPECIFICATION Spec
INVARIANTS
  TypeOK
  NothingBehind
  AnswerIsMatch
  EndIsKnown
PROPERTIES
  Returns
  Implements
