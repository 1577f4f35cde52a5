SPECIFICATION FairSpec
CONSTANTS
  p1 = p1
  p2 = p2
  Self = Self
  cpu = cpu
  qbl = qbl
  Producers = {p1}
  Names = {cpu, qbl}
  Internal <- OneInternal
  BulkCount = 2
  SizeMod = 16
  MaxPuts = 2
  MaxBoots = 2
  Faults = {"scan", "index"}
CHECK_DEADLOCK FALSE
INVARIANTS NoOvertaking StopLeavesNothing IInv
PROPERTIES PointsSettle StopEnds ImplementsPointLog HandlesOutliveRequests
