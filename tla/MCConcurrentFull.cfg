CONSTANTS
  FpMod = 997
  maxLazyDFAStates = 4
  Exprs <- Outgrown
  Question <- OutgrownQuestions
  Goroutine = {g1, g2}
  FalseTree <- MCFalseTree
  Byte <- MCByte
  Tree <- MCTree
  Minterm <- MCByte
  Context <- MCContext
  Deriv <- MCDeriv
  Null <- MCNull
  Mask <- MCMask
  FP <- MCFP
  Compiled <- MCCompiled
  Input <- MCInput
  Spans <- MCSpans
  None = None
  MaxLen <- MCMaxLen
SPECIFICATION Spec
INVARIANT
  Parity
