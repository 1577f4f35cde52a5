SPECIFICATION FairSpec
CONSTANTS
  Sockets = {1, 3}
  Listener = 2
  FdSetSize = 3
  Kinds = {"good", "bad", "other", "blank"}
  Deaf = {1}
  MaxSessions = 2
  MaxLines = 2
CHECK_DEADLOCK FALSE
PROPERTY EveryLineIsHandled
