\* Three things done in a room of two, or one thing announced.
SPECIFICATION Spec
CONSTANTS
  Wide = 65536
  Narrow = 256
  Instants = {1}
  Anybody = Anybody
  Users = {"ann", "bob"}
  Minutes = {0, 10}
  MaxDone = 3
  NoticeCost = 3
INVARIANTS
  TypeOK
  SettingsMirrored
  LogMirrored
  StandingMirrored
  EventsAreTrue
\* The server has done what the bound allows.
CHECK_DEADLOCK FALSE
