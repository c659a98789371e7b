SPECIFICATION Spec
CONSTANTS
  FpMod = 1000003
  Rune <- MCRune
  Letter <- MCLetter
  FoldClass <- MCFoldClass
  NormalName <- MCNormalName
  Table <- MCTable
  Keyboard <- MCKeyboard
  Probe <- MCProbe
INVARIANTS
  ReadsAsWritten
  RejectsMalformed
  ClassesDenoteTheirRunes
