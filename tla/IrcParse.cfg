\* Every line of up to six bytes of the six kinds, with either tag scanner.
SPECIFICATION Spec
CONSTANTS
  MaxLen = 6
INVARIANTS
  TypeOK
  CutWithoutLoss
  PrefixPrintsBack
  PanicsOnlyOnUnterminatedTags
\* The functions have returned.
CHECK_DEADLOCK FALSE
