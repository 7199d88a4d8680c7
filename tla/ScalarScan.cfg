\* Every text of up to seven bytes, with room for two tags.
SPECIFICATION Spec
CONSTANTS
  U16 = 16
  CAP = 2
  MaxLen = 7
INVARIANTS
  TypeOK
  TagsAreSplit
PROPERTY ImplementsSplit
\* The function has returned, or panicked.
CHECK_DEADLOCK FALSE
