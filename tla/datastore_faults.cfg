SPECIFICATION Spec
CONSTANTS
  p1 = p1
  p2 = p2
  Self = Self
  cpu = cpu
  qbl = qbl
  Producers = {p1, p2}
  Names = {cpu, qbl}
  Internal <- OneInternal
  BulkCount = 2
  SizeMod = 16
  MaxPuts = 1
  MaxBoots = 2
  Faults = {"scan", "cache", "open", "table", "index", "wal", "prepare", "insert"}
CHECK_DEADLOCK FALSE
SYMMETRY ProducerSymmetry
INVARIANTS TypeOK QueueSizeExact ConnectionsHaveTables FailureIsolated OnePlace WritesCountedOnce
