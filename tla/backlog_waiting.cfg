SPECIFICATION Spec
CONSTANTS
  p1 = p1
  p2 = p2
  Self = Self
  cpu = cpu
  qbl = qbl
  Producers = {p1}
  Names = {cpu, qbl}
  Internal <- OneInternal
  BulkCount = 2
  SizeMod = 16
  MaxPuts = 1
  MaxBoots = 1
  Faults = {}
CHECK_DEADLOCK FALSE
INVARIANT BacklogCountsWaiting
