SPECIFICATION Spec
CONSTANTS
  Unlimited = Unlimited
  MaxTries = 3
  InitialDelay = 1
  DelayMultiplier = 3
  MaxDelay = 4
  Commands = {"JOIN"}
  RawLines = {"RAW"}
  MaxStale = 1
  MaxWire = 5
  AttemptCap = 4
INVARIANTS
  TypeOK
  EstablishedIsHandshaken
  HandshakeSaysNothingElse
  FlushedBeforeWaiting
  TriesAccounting
  GivesUpOnlyWhenExhausted
  RejectedLoginIsNotRetried
  CauseIsLastError
  BackoffSchedule
PROPERTIES
  EstablishedSendsExactly
  KeepsPromise
