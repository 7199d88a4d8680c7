\* The same lines, up to five bytes, with the scalar tag scanner.
SPECIFICATION Spec
CONSTANTS
  MaxLen = 5
INVARIANTS
  ParseNeverPanics
\* The functions have returned.
CHECK_DEADLOCK FALSE
