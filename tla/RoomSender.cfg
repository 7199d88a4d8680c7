\* One announcement.
SPECIFICATION Spec
CONSTANTS
  Wide = 65536
  Narrow = 256
  Instants = {1}
  Anybody = Anybody
  Users = {"ann", "bob"}
  Minutes = {0, 10}
  MaxDone = 3
  NoticeCost = 3
INVARIANT SenderShownUnlessAnonymous
CHECK_DEADLOCK FALSE
