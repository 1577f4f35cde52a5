SPECIFICATION Spec
CONSTANTS
  Workers = {w1, w2}
  Datastore = Datastore
  Batches <- SomeBatches
  MaxPuts = 2
  MaxWrites = 1
  MaxSeconds = 2
SYMMETRY WorkerSymmetry
CHECK_DEADLOCK FALSE
INVARIANTS TypeOK NothingReportedTwice OneTakePerFlag FiguresAreDue
