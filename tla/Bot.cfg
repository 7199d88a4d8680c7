\* One stream after another, three messages on each, tries without limit.
SPECIFICATION BotFair
CONSTANTS
  Unlimited = Unlimited
  MaxTries = Unlimited
  InitialDelay = 0
  DelayMultiplier = 2
  MaxDelay = 4
  Commands = {"JOIN", "PRIVMSG yo", "PONG", "PONG nonce"}
  RawLines = {}
  MaxStale = 1
  MaxWire = 12
  AttemptCap = 1
  Anon = FALSE
  MaxSent = 2
INVARIANTS
  AnswersInTurn
  ReceivesFromItsServer
\* The bot ends.
CHECK_DEADLOCK FALSE
PROPERTIES
  ComesBack
  ReadsOn
