------------------------ MODULE DatastoreProperties ------------------------
(***************************************************************************)
(* What the datastore gets right, and what its documentation says of it    *)
(* that it does not.                                                       *)
(***************************************************************************)
EXTENDS Datastore

\* Every metric QueueMetric was given.
Accepted == {pt \in Points : pt[2] <= Len(log[pt[1]])}

\* The metrics nobody will look at again.
Settled == Stored \cup failed \cup lost

Up == pc \notin {"down", "stopped"}

-----------------------------------------------------------------------------
\* The type of every variable.  The counter m_QueueSize is a size_t and a
\* batch never outgrows the array m[BULK_COUNT].
TypeOK ==
  /\ log \in [Threads -> Seq(Names)]
  /\ \A t \in Threads : Len(log[t]) <= MaxPuts
  /\ head \in [Threads -> 0 .. MaxPuts]
  /\ adding \subseteq Producers
  /\ queueSize \in 0 .. SizeMod - 1
  /\ backlog \in 0 .. SizeMod - 1
  /\ writeCount \in Nat
  /\ updated \in BOOLEAN
  /\ conns \subseteq Names
  /\ running \in BOOLEAN /\ started \in BOOLEAN /\ open \in BOOLEAN
  /\ pc \in {"down", "start", "loop", "dequeue", "write", "stats",
             "internal", "selfwait", "stopped"} \cup CreateSteps
  /\ draining \in BOOLEAN
  /\ unvisited \subseteq Threads
  /\ batch \in Seq(Points) /\ Len(batch) <= BulkCount
  /\ pos \in Nat \ {0}
  /\ schema \in [Names -> Schemas]
  /\ rows \in [Points -> Nat]
  /\ boots \in 0 .. MaxBoots
  /\ failed \subseteq Points /\ lost \subseteq Points
  /\ faulted \subseteq Names

\* Every metric QueueMetric accepted is in one place only: waiting, a row,
\* dropped by a failed call or lost in a crash.  None is written twice, none
\* vanishes between the queue, the batch and the database, across failures,
\* crashes and restarts.
OnePlace ==
  /\ Accepted = Queued \cup Settled
  /\ LET places == <<InQueue, InBatch, Stored, failed, lost>>
     IN  \A i, j \in 1 .. 5 : i < j => places[i] \cap places[j] = {}
  /\ \A pt \in Points : rows[pt] <= 1

\* The metrics of one thread are dealt with in the order it queued them,
\* whatever batches they travel in and whichever of them fail, so what a
\* crash takes from a thread is the last of what it put.
NoOvertaking ==
  \A t \in Threads : \A j, k \in 1 .. MaxPuts :
    j < k /\ <<t, k>> \in Settled => <<t, j>> \in Settled

\* Until the final drain, m_QueueSize is the number of metrics waiting less
\* the calls of QueueMetric that have yet to count theirs, modulo the width
\* of size_t: every path through the for loop of Process counts out the
\* metric it dealt with, also the failing ones.
QueueSizeExact ==
  Up /\ ~ draining =>
    (queueSize + Cardinality(adding)) % SizeMod = Cardinality(Queued) % SizeMod

\* The drain in Datastore::Stop leaves no metric behind: none arrives after
\* its last look at the queue, since both interfaces are stopped before it.
StopLeavesNothing == pc = "stopped" => Queued = {}

\* A key of m_Store has a database with the METRIC table behind it, and so
\* has every row: neither loading nor creating a database lets a connection
\* without the table into the cache.
ConnectionsHaveTables ==
  conns \cup {NameOf(pt) : pt \in Stored} \subseteq Tables

\* A metric is dropped only when a call failed on the database of its own
\* name, in this process or an earlier one, or a start never loaded it: the
\* failures of one metric cost no other metric its data.
FailureIsolated == \A pt \in failed : NameOf(pt) \in faulted

\* The metrics of its batch that Process has dealt with and not yet reported.
Dealt == IF ~ draining /\ pc \in {"write"} \cup CreateSteps THEN pos - 1 ELSE 0

\* The write count never runs ahead of what was written or dropped: a metric
\* is in it at most once.  And until the drain, the count of a first process
\* (later ones begin at 0) lacks only the batch it is at: every metric is in
\* it, however the batches were cut and whichever of their metrics failed.
WritesCountedOnce ==
  LET written == Cardinality(Stored \cup failed)
  IN  /\ writeCount <= written
      /\ boots = 1 /\ Up /\ ~ draining => writeCount + Dealt = written

\* Datastore::Stop closes the database handles only when no request that
\* could still use one of them is left (Kernel::Stop stops HTTP first).
HandlesOutliveRequests ==
  [][conns' # {} \/ conns = {} \/ pc' = "down" \/ ~ open]_vars

-----------------------------------------------------------------------------
(* The inductive invariant behind the properties above.                    *)

InCreate == pc \in CreateSteps

\* The index i stays inside the batch where it is used, there is a batch
\* only while one is being taken out or written, and only a process that is
\* up has its interfaces open.
LoopInv ==
  /\ pc \notin {"dequeue", "write"} \cup CreateSteps => batch = << >>
  /\ pc = "write" => pos \in 1 .. Len(batch) + 1
  /\ InCreate => pos \in 1 .. Len(batch)
  /\ pc = "internal" => pos \in 1 .. Len(Internal)
  /\ pc \notin {"write", "internal"} \cup CreateSteps => pos = 1
  /\ draining => pc \in {"dequeue", "write", "stopped"} \cup CreateSteps
  /\ pc = "stopped" => draining /\ InQueue = {}
  /\ pc = "down" => InQueue = {}

\* Kernel::Stop's order: interfaces, then the datastore thread.
StopInv ==
  /\ open => Up /\ ~ draining /\ (started \/ pc = "selfwait")
  /\ ~ open => adding = {}
  /\ draining => ~ started

\* The bound on the internal metrics is kept.
RoomInv ==
  /\ Len(log[Self]) + Unsent <= MaxPuts
  /\ updated => RoomForStats

\* A batch holds metrics taken from the queue, each thread's in its order.
BatchInv ==
  /\ \A t \in Threads : head[t] <= Len(log[t])
  /\ \A j \in 1 .. Len(batch) : batch[j][2] <= head[batch[j][1]]
  /\ \A i, j \in 1 .. Len(batch) :
       i < j /\ batch[i][1] = batch[j][1] => batch[i][2] < batch[j][2]

\* What was taken out and is no longer in the batch is settled, once.
PlaceInv ==
  /\ \A pt \in Points : pt[2] <= head[pt[1]] <=> pt \in InBatch \cup Settled
  /\ InBatch \cap Settled = {}
  /\ Stored \cap failed = {} /\ Stored \cap lost = {} /\ failed \cap lost = {}
  /\ \A pt \in Points : rows[pt] <= 1

\* The last look at the queue finds every thread's part of it empty.
DrainInv ==
  draining /\ pc = "dequeue" /\ Len(batch) < BulkCount =>
    \A t \in Threads \ unvisited : head[t] = Len(log[t])

\* Past Start, the one database with the table and neither a connection nor
\* a failed call is the one CreateDatabase is creating.
CacheInv ==
  /\ ConnectionsHaveTables
  /\ pc \in {"down", "start", "stopped"} => conns = {}
  /\ InCreate => NameOf(batch[pos]) \notin conns
  /\ pc \in {"index", "wal", "prepare"} => NameOf(batch[pos]) \in Tables
  /\ pc \notin {"down", "start", "stopped"} =>
       \A n \in Tables \ (conns \cup faulted) :
         pc \in {"index", "wal", "prepare"} /\ n = NameOf(batch[pos])

\* All of it, with the invariants it is inductive with.
IInv ==
  /\ TypeOK /\ LoopInv /\ StopInv /\ RoomInv
  /\ BatchInv /\ PlaceInv /\ NoOvertaking /\ DrainInv
  /\ CacheInv /\ FailureIsolated

-----------------------------------------------------------------------------
\* What became of a metric, as PointLog sees it.
Fate == [pt \in Points |->
           IF pt \notin Accepted THEN "new"
           ELSE IF pt \in failed THEN "failed"
           ELSE IF pt \in lost THEN "lost"
           ELSE IF pt \in Stored THEN "stored"
           ELSE "queued"]

Phase == IF Up THEN "on" ELSE "off"

P == INSTANCE PointLog WITH fate <- Fate, phase <- Phase

\* The datastore implements the promise of PointLog.
ImplementsPointLog == P!Spec

\* Every accepted metric is stored, dropped or lost in the end: the loop of
\* Process, the drain or a crash gets to each.  The exception is a datastore
\* that could not list its directory: its interfaces go on accepting, and the
\* thread waits for its own end in Process and never looks at the queue.
PointsSettle ==
  \A pt \in Points :
    P!Unsettled(pt) ~> ~ P!Unsettled(pt) \/ pc = "selfwait"

\* A datastore thread told to stop stops, unless the process dies, or the
\* thread was told to stop by itself and waits for itself.
StopEnds == Up /\ ~ started ~> ~ Up \/ pc = "selfwait"

-----------------------------------------------------------------------------
\* README.md says of tsdb.internal.queuebacklog that it is the number of
\* metrics enqueued and waiting; Process sets it from m_QueueSize.
BacklogCountsWaiting == backlog <= Cardinality(Accepted)

\* Datastore::Stop says it finishes writing all the data to disk: where no
\* call of SQLite or Windows fails, a clean stop has dropped nothing.
DrainWritesAll == pc = "stopped" => failed = {}
=============================================================================
