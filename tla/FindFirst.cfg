\* Vectors of two bytes, slices of up to 18: two rounds of the unrolled loop.
SPECIFICATION MCSpec
CONSTANTS
  SIZE = 2
  LaneBits = 1
  MaxLen = 18
  MaxHits = 2
INVARIANTS
  TypeOK
  FindsFirst
  LoadsAreSound
PROPERTY Returns
\* The function has returned.
CHECK_DEADLOCK FALSE
