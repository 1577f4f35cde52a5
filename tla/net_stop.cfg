SPECIFICATION FairSpec
CONSTANTS
  Workers = {w1, w2}
  Faults = {"bind"}
CHECK_DEADLOCK FALSE
PROPERTY NetStopStops
