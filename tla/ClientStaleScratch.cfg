SPECIFICATION Spec
CONSTANTS
  Unlimited = Unlimited
  MaxTries = 1
  InitialDelay = 1
  DelayMultiplier = 1
  MaxDelay = 1
  Commands = {"JOIN"}
  RawLines = {}
  MaxStale = 1
  MaxWire = 5
  AttemptCap = 2
PROPERTIES
  SendWritesOnlyItsCommand
