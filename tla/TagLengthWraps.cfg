\* Lengths of two bits, as the code has 16: a value of four bytes has length 0.
SPECIFICATION Spec
CONSTANTS
  U16 = 4
  CAP = 2
  SIZE = 2
  LaneBits = 1
  MaxLen = 7
INVARIANT LastValueIsWhatIsLeft
CHECK_DEADLOCK FALSE
