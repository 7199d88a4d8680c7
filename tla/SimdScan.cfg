\* Every text of up to seven bytes in chunks of two, with room for two tags.
SPECIFICATION Spec
CONSTANTS
  U16 = 16
  CAP = 2
  SIZE = 2
  LaneBits = 4
  MaxLen = 7
INVARIANTS
  TypeOK
  TagsAreSplit
PROPERTY ImplementsSplit
\* The function has returned, or panicked.
CHECK_DEADLOCK FALSE
