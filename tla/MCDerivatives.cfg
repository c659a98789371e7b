CONSTANTS
  FpMod = 7
  Byte <- MCByte
  Terms <- MCTerms
  Words <- MCWords
SPECIFICATION Spec
CHECK_DEADLOCK FALSE
INVARIANTS
  DerivativeIsSound
  AcceptsExactly
  MaskIsEnough
  ReverseIsSound
  StaysCanonical
  MintermsAreSound
  FiltersSkipNoMatch
