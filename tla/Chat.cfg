\* Two programs in two channels.
SPECIFICATION Spec
CONSTANTS
  Users = {"ann", "bob"}
  Channels = {"tea", "pie"}
  Texts <- MCTexts
  Nonces <- MCNonces
  Bypassing = {"bob"}
  MaxCalls = 4
  PingCost = 2
  MaxValue = 4
INVARIANTS
  TypeOK
  ChatMirrored
  NamesMirrored
  RefusalsKnown
  PongsMatch
  DecodingUndoesEscaping
\* The programs and the server may have nothing left to do.
CHECK_DEADLOCK FALSE
