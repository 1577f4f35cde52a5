SPECIFICATION Spec
CONSTANTS
  Sockets = {1, 3, 4}
  Listener = 2
  FdSetSize = 3
  Kinds = {"good", "bad", "blank"}
  Deaf = {1}
  MaxSessions = 3
  MaxLines = 2
CHECK_DEADLOCK FALSE
INVARIANTS TypeOK LinesArriveWhole BuffersAreOfTheirSocket NoSocketLeft
PROPERTY ImplementsLineLog
