SPECIFICATION FairSpec
CONSTANTS
  Workers = {w1, w2}
  Faults = {"config", "thread", "scan", "bind", "http", "deaf"}
CHECK_DEADLOCK FALSE
INVARIANTS IInv HelperOutlivesThread NothingUsesTheDeleted InterfacesStopFirst StoppedIsOver
PROPERTIES StartCompletes StopCompletes
