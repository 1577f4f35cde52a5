------------------------------ MODULE Datastore ------------------------------
(***************************************************************************)
(* The datastore of SimpleTSDB (src/datastore.cpp): telnet and HTTP threads *)
(* put metrics in a lock-free queue, one datastore thread takes them out in *)
(* batches and inserts each into the SQLite database of its metric name,   *)
(* creating the database when it has no connection to it.  The process may *)
(* crash anywhere, be stopped by the kernel and be started again on the    *)
(* files it left.                                                          *)
(*                                                                         *)
(* The queue is kept as an immutable history per producer (log) with the   *)
(* index of the last element taken (head), which is how ConcurrentQueue    *)
(* keeps it: a FIFO per enqueueing thread, no order between threads.       *)
(* A point is <<t, k>>, the k-th metric thread t enqueued.                 *)
(***************************************************************************)
EXTENDS Naturals, Sequences, FiniteSets

CONSTANTS
  Producers,  \* threads that call QueueMetric: telnet thread, HTTP workers
  Self,       \* the datastore thread, which queues the internal metrics
  Names,      \* metric names; each has one database file
  Internal,   \* the internal metrics, in the order Process queues them
  BulkCount,  \* BULK_COUNT
  SizeMod,    \* size_t counts modulo SizeMod
  Faults,     \* the library calls that may fail
  MaxPuts,    \* bound: metrics one thread enqueues
  MaxBoots    \* bound: times the service is started

Threads == Producers \cup {Self}
Points == Threads \X (1 .. MaxPuts)

\* The SQLite calls of CreateDatabase, in order; also the control points
\* inside it.
CreateSteps == {"open", "table", "index", "wal", "prepare"}

\* How far a database file has got: no file, an empty file, then with the
\* METRIC table, its index, and write-ahead logging.
Schemas == {"none", "file", "table", "index", "wal"}
Tabled == {"table", "index", "wal"}

ASSUME DatastoreAssumption ==
  /\ Self \notin Producers
  /\ Internal \in Seq(Names) /\ Internal # << >>
  /\ BulkCount \in Nat \ {0}
  /\ SizeMod \in Nat \ {0}
  /\ MaxPuts \in Nat
  /\ MaxBoots \in Nat
  /\ Faults \subseteq CreateSteps \cup {"scan", "cache", "insert"}

ASSUME ProducersAssumption == IsFiniteSet(Producers)

VARIABLES
  log,        \* m_MetricQueue: per thread, the names of all it enqueued
  head,       \* m_MetricQueue: per thread, how many were taken out
  adding,     \* producers between enqueue and the fetch_add that counts it
  queueSize,  \* m_QueueSize
  backlog,    \* Statistics::m_QueueBacklog
  writeCount, \* sum of the counts handed to Statistics::AddWriteCount
  updated,    \* Statistics::m_Updated
  conns,      \* the keys of m_Store
  running,    \* Datastore::m_Running
  started,    \* m_Thread->m_Started
  open,       \* are the telnet and HTTP interfaces up?
  pc,         \* where the datastore thread is
  draining,   \* is it in Datastore::Stop?
  unvisited,  \* producers this try_dequeue_bulk has yet to look at
  batch,      \* m[0 .. count-1]
  pos,        \* i, counted from 1
  schema,     \* on disk: per name, how far its file has got
  rows,       \* on disk: per point, rows of METRIC inserted for it
  boots,
  failed,     \* history: points a failed call dropped
  lost,       \* history: points a crash threw away
  faulted     \* history: names a call failed on, or never loaded at start

queueVars == <<log, head, adding, queueSize>>
statsVars == <<backlog, writeCount, updated>>
threadVars == <<running, started, open>>
loopVars == <<draining, unvisited, batch, pos>>
diskVars == <<schema, rows>>
historyVars == <<failed, lost, faulted>>
vars == <<queueVars, statsVars, conns, threadVars, pc, loopVars, diskVars,
          boots, historyVars>>

-----------------------------------------------------------------------------
NameOf(pt) == log[pt[1]][pt[2]]

\* Enqueued and not yet taken out.
InQueue == {pt \in Points : head[pt[1]] < pt[2] /\ pt[2] <= Len(log[pt[1]])}

\* Taken out and not yet dealt with; in the for loop, m[i] onwards.
InBatch == {batch[j] : j \in pos .. Len(batch)}

Queued == InQueue \cup InBatch
Stored == {pt \in Points : rows[pt] > 0}

Min2(a, b) == IF a <= b THEN a ELSE b

\* The files FindFirstFile and FindNextFile list, and those among them in
\* which CacheDatabase finds the METRIC table.
Files == {n \in Names : schema[n] # "none"}
Tables == {n \in Names : schema[n] \in Tabled}

\* The internal metrics Process has begun to queue and not yet queued.
Unsent == IF pc = "internal" THEN Len(Internal) - pos + 1 ELSE 0

\* Room, within the bound, for the internal metrics of one more update.
RoomForStats == Len(log[Self]) + Unsent + Len(Internal) <= MaxPuts

Init ==
  /\ log = [t \in Threads |-> << >>]
  /\ head = [t \in Threads |-> 0]
  /\ adding = {} /\ queueSize = 0
  /\ backlog = 0 /\ writeCount = 0 /\ updated = FALSE
  /\ conns = {}
  /\ running = FALSE /\ started = FALSE /\ open = FALSE
  /\ pc = "down" /\ draining = FALSE
  /\ unvisited = {} /\ batch = << >> /\ pos = 1
  /\ schema = [n \in Names |-> "none"]
  /\ rows = [pt \in Points |-> 0]
  /\ boots = 0
  /\ failed = {} /\ lost = {} /\ faulted = {}

-----------------------------------------------------------------------------
(* The kernel, the interfaces and the statistics thread, as the datastore  *)
(* meets them.                                                             *)

\* What a process holds in memory goes with it, metrics not yet written too.
LoseMemory ==
  /\ lost' = lost \cup Queued
  /\ head' = [t \in Threads |-> Len(log[t])]
  /\ adding' = {} /\ queueSize' = 0
  /\ backlog' = 0 /\ writeCount' = 0
  /\ conns' = {}
  /\ running' = FALSE
  /\ draining' = FALSE /\ unvisited' = {} /\ batch' = << >> /\ pos' = 1
  /\ UNCHANGED <<log, diskVars, failed, faulted>>

\* A new process: constructors, then Kernel::Start.  Nothing initialises
\* Statistics::m_Updated, so it holds any value.
Boot ==
  /\ pc \in {"down", "stopped"}
  /\ boots < MaxBoots
  /\ boots' = boots + 1
  /\ started' = TRUE /\ open' = TRUE
  /\ updated' \in {u \in BOOLEAN : u => RoomForStats}
  /\ pc' = "start"
  /\ LoseMemory

\* The process dies: the files stay as they are.
Crash ==
  /\ pc \notin {"down", "stopped"}
  /\ started' = FALSE /\ open' = FALSE
  /\ updated' = FALSE
  /\ pc' = "down"
  /\ LoseMemory
  /\ UNCHANGED boots

\* QueueMetric, first half: the enqueue.
Enqueue(p, n) ==
  /\ open
  /\ p \notin adding
  /\ Len(log[p]) < MaxPuts
  /\ log' = [log EXCEPT ![p] = Append(@, n)]
  /\ adding' = adding \cup {p}
  /\ UNCHANGED <<head, queueSize, statsVars, conns, threadVars, pc, loopVars,
                 diskVars, boots, historyVars>>

\* QueueMetric, second half: the fetch_add.
AddSize(p) ==
  /\ p \in adding
  /\ adding' = adding \ {p}
  /\ queueSize' = (queueSize + 1) % SizeMod
  /\ UNCHANGED <<log, head, statsVars, conns, threadVars, pc, loopVars,
                 diskVars, boots, historyVars>>

\* Mutant: the interfaces stop without waiting for their threads.
StopNetworkAtOnce ==
  /\ open
  /\ open' = FALSE
  /\ UNCHANGED <<queueVars, statsVars, conns, running, started, pc, loopVars,
                 diskVars, boots, historyVars>>

\* Kernel::Stop first stops both interfaces and waits for their threads, so
\* no call of QueueMetric outlives it.
StopNetwork ==
  /\ open
  /\ adding = {}
  /\ open' = FALSE
  /\ UNCHANGED <<queueVars, statsVars, conns, running, started, pc, loopVars,
                 diskVars, boots, historyVars>>

\* Mutant: the datastore is stopped before the interfaces.
StopThreadFirst ==
  /\ started
  /\ started' = FALSE
  /\ UNCHANGED <<queueVars, statsVars, conns, running, open, pc, loopVars,
                 diskVars, boots, historyVars>>

\* Then Datastore::StopThread lets the thread's loop end.
StopThread ==
  /\ started /\ ~ open
  /\ started' = FALSE
  /\ UNCHANGED <<queueVars, statsVars, conns, running, open, pc, loopVars,
                 diskVars, boots, historyVars>>

\* Statistics::Process publishes a second's figures.
UpdateStats ==
  /\ pc \notin {"down", "stopped"}
  /\ RoomForStats
  /\ updated' = TRUE
  /\ UNCHANGED <<queueVars, backlog, writeCount, conns, threadVars, pc,
                 loopVars, diskVars, boots, historyVars>>

\* A request for /api/stats reads them, and its GetStats clears the flag.
ApiStats ==
  /\ open
  /\ updated' = FALSE
  /\ UNCHANGED <<queueVars, backlog, writeCount, conns, threadVars, pc,
                 loopVars, diskVars, boots, historyVars>>

-----------------------------------------------------------------------------
(* The datastore thread.                                                   *)

\* Mutant: a database without the METRIC table is cached as well.
LoadEveryFile ==
  /\ pc = "start" /\ started
  /\ conns' = Files
  /\ running' = TRUE
  /\ pc' = "loop"
  /\ UNCHANGED <<queueVars, statsVars, started, open, loopVars, diskVars,
                 boots, historyVars>>

\* Mutant: the first database that does not open ends the scan.
LoadUntilBad ==
  /\ pc = "start" /\ started
  /\ \E bad \in SUBSET Files :
       /\ bad # {} => "cache" \in Faults
       /\ conns' = IF bad = {} THEN Tables ELSE {}
       /\ faulted' = faulted \cup bad
  /\ running' = TRUE
  /\ pc' = "loop"
  /\ UNCHANGED <<queueVars, statsVars, started, open, loopVars, diskVars,
                 boots, failed, lost>>

\* Datastore::Start lists the data directory and CacheDatabase opens each
\* file that holds the table; any of them may fail to open.
LoadAll ==
  /\ pc = "start" /\ started
  /\ \E bad \in SUBSET Files :
       /\ bad # {} => "cache" \in Faults
       /\ conns' = Tables \ bad
       /\ faulted' = faulted \cup bad
  /\ running' = TRUE
  /\ pc' = "loop"
  /\ UNCHANGED <<queueVars, statsVars, started, open, loopVars, diskVars,
                 boots, failed, lost>>

\* Datastore::Start cannot list the directory and returns early.
LoadFails ==
  /\ pc = "start" /\ started
  /\ "scan" \in Faults
  /\ faulted' = faulted \cup Files
  /\ pc' = "loop"
  /\ UNCHANGED <<queueVars, statsVars, conns, threadVars, loopVars, diskVars,
                 boots, failed, lost>>

\* Thread::OnStart finds the thread already told to stop and skips Start.
SkipStart ==
  /\ pc = "start" /\ ~ started
  /\ faulted' = faulted \cup Files
  /\ pc' = "loop"
  /\ UNCHANGED <<queueVars, statsVars, conns, threadVars, loopVars, diskVars,
                 boots, failed, lost>>

\* Mutant: the thread does not look at the metrics it queued itself.
DequeueOthers ==
  /\ pc' = "dequeue"
  /\ unvisited' = Producers
  /\ batch' = << >>
  /\ pos' = 1

BeginDequeue ==
  /\ pc' = "dequeue"
  /\ unvisited' = Threads
  /\ batch' = << >>
  /\ pos' = 1

\* Thread::OnProcess calls Process, which reports m_QueueSize.
BeginProcess ==
  /\ pc = "loop" /\ started /\ running
  /\ backlog' = queueSize
  /\ BeginDequeue
  /\ UNCHANGED <<queueVars, writeCount, updated, conns, threadVars, draining,
                 diskVars, boots, historyVars>>

\* Process of a datastore that failed to start calls m_Thread->Stop(), which
\* waits for the end of the very thread that waits.
StopSelf ==
  /\ pc = "loop" /\ started /\ ~ running
  /\ started' = FALSE
  /\ pc' = "selfwait"
  /\ UNCHANGED <<queueVars, statsVars, conns, running, open, loopVars,
                 diskVars, boots, historyVars>>

\* Mutant: Datastore::Stop closes the databases without a drain.
CloseAtOnce ==
  /\ pc = "loop" /\ ~ started
  /\ draining' = TRUE
  /\ conns' = {}
  /\ pc' = "stopped"
  /\ UNCHANGED <<queueVars, statsVars, threadVars, unvisited, batch, pos,
                 diskVars, boots, historyVars>>

\* The thread leaves its loop and Thread::OnStop calls Datastore::Stop.
BeginDrain ==
  /\ pc = "loop" /\ ~ started
  /\ draining' = TRUE
  /\ BeginDequeue
  /\ UNCHANGED <<queueVars, statsVars, conns, threadVars, diskVars, boots,
                 historyVars>>

\* Mutant: try_dequeue_bulk is not told the size of the array m.
VisitUnbounded(t) ==
  /\ pc = "dequeue"
  /\ t \in unvisited
  /\ batch' = batch \o [i \in 1 .. Len(log[t]) - head[t] |-> <<t, head[t] + i>>]
  /\ head' = [head EXCEPT ![t] = Len(log[t])]
  /\ unvisited' = unvisited \ {t}
  /\ UNCHANGED <<log, adding, queueSize, statsVars, conns, threadVars, pc,
                 draining, pos, diskVars, boots, historyVars>>

\* Mutant: the newest metric of a producer comes first.
VisitNewestFirst(t) ==
  /\ pc = "dequeue"
  /\ t \in unvisited
  /\ Len(batch) < BulkCount
  /\ LET n == Min2(Len(log[t]) - head[t], BulkCount - Len(batch))
     IN  /\ batch' = batch \o [i \in 1 .. n |-> <<t, head[t] + n + 1 - i>>]
         /\ head' = [head EXCEPT ![t] = @ + n]
  /\ unvisited' = unvisited \ {t}
  /\ UNCHANGED <<log, adding, queueSize, statsVars, conns, threadVars, pc,
                 draining, pos, diskVars, boots, historyVars>>

\* try_dequeue_bulk looks at one producer and takes all it can hold.
Visit(t) ==
  /\ pc = "dequeue"
  /\ t \in unvisited
  /\ Len(batch) < BulkCount
  /\ LET n == Min2(Len(log[t]) - head[t], BulkCount - Len(batch))
     IN  /\ batch' = batch \o [i \in 1 .. n |-> <<t, head[t] + i>>]
         /\ head' = [head EXCEPT ![t] = @ + n]
  /\ unvisited' = unvisited \ {t}
  /\ UNCHANGED <<log, adding, queueSize, statsVars, conns, threadVars, pc,
                 draining, pos, diskVars, boots, historyVars>>

Dequeued == pc = "dequeue" /\ (unvisited = {} \/ Len(batch) = BulkCount)

\* count > 0: the for loop begins.
BeginBatch ==
  /\ Dequeued /\ batch # << >>
  /\ pc' = "write"
  /\ UNCHANGED <<queueVars, statsVars, conns, threadVars, loopVars, diskVars,
                 boots, historyVars>>

\* Mutant: the loop of Stop goes on where the loop of Process does.
EmptyGoesOn ==
  /\ Dequeued /\ batch = << >>
  /\ pc' = "stats"
  /\ UNCHANGED <<queueVars, statsVars, conns, threadVars, loopVars, diskVars,
                 boots, historyVars>>

\* count = 0 in Process: on to the statistics.
QueueEmpty ==
  /\ Dequeued /\ batch = << >> /\ ~ draining
  /\ pc' = "stats"
  /\ UNCHANGED <<queueVars, statsVars, conns, threadVars, loopVars, diskVars,
                 boots, historyVars>>

\* count = 0 in Stop: close every database; the thread ends.
CloseAll ==
  /\ Dequeued /\ batch = << >> /\ draining
  /\ conns' = {}
  /\ pc' = "stopped"
  /\ UNCHANGED <<queueVars, statsVars, threadVars, loopVars, diskVars, boots,
                 historyVars>>

Current == batch[pos]

\* The end of one turn of the for loop; only Process counts the point out.
NextPoint ==
  /\ pos' = pos + 1
  /\ pc' = "write"
  /\ queueSize' = IF draining THEN queueSize
                  ELSE (queueSize + SizeMod - 1) % SizeMod

\* WriteMetric on the connection found in m_Store.
WriteMetric ==
  /\ pc = "write" /\ pos <= Len(batch)
  /\ NameOf(Current) \in conns
  /\ rows' = [rows EXCEPT ![Current] = @ + 1]
  /\ NextPoint
  /\ UNCHANGED <<log, head, adding, statsVars, conns, threadVars, draining,
                 unvisited, batch, schema, boots, historyVars>>

\* Mutant: the metric is tried again after it was reported as dropped.
WriteFailsAgain ==
  /\ pc = "write" /\ pos <= Len(batch)
  /\ NameOf(Current) \in conns
  /\ "insert" \in Faults
  /\ failed' = failed \cup {Current}
  /\ faulted' = faulted \cup {NameOf(Current)}
  /\ UNCHANGED <<queueVars, statsVars, conns, threadVars, pc, loopVars,
                 diskVars, boots, lost>>

\* WriteMetric when the insert fails: a warning, and the point is dropped.
WriteFails ==
  /\ pc = "write" /\ pos <= Len(batch)
  /\ NameOf(Current) \in conns
  /\ "insert" \in Faults
  /\ failed' = failed \cup {Current}
  /\ faulted' = faulted \cup {NameOf(Current)}
  /\ NextPoint
  /\ UNCHANGED <<log, head, adding, statsVars, conns, threadVars, draining,
                 unvisited, batch, diskVars, boots, lost>>

\* No connection in m_Store: CreateDatabase is called.
BeginCreate ==
  /\ pc = "write" /\ pos <= Len(batch)
  /\ NameOf(Current) \notin conns
  /\ pc' = "open"
  /\ UNCHANGED <<queueVars, statsVars, conns, threadVars, loopVars, diskVars,
                 boots, historyVars>>

CreateStep(from, to) ==
  /\ pc = from
  /\ pc' = to
  /\ UNCHANGED <<queueVars, statsVars, threadVars, loopVars, rows, boots,
                 historyVars>>

\* sqlite3_open_v2 with SQLITE_OPEN_CREATE.
OpenFile ==
  /\ CreateStep("open", "table")
  /\ schema' = [schema EXCEPT ![NameOf(Current)] =
                  IF @ = "none" THEN "file" ELSE @]
  /\ UNCHANGED conns

\* CREATE TABLE without IF NOT EXISTS.
CreateTable ==
  /\ CreateStep("table", "index")
  /\ schema[NameOf(Current)] = "file"
  /\ schema' = [schema EXCEPT ![NameOf(Current)] = "table"]
  /\ UNCHANGED conns

CreateIndex ==
  /\ CreateStep("index", "wal")
  /\ schema' = [schema EXCEPT ![NameOf(Current)] = "index"]
  /\ UNCHANGED conns

EnableWal ==
  /\ CreateStep("wal", "prepare")
  /\ schema' = [schema EXCEPT ![NameOf(Current)] = "wal"]
  /\ UNCHANGED conns

\* The insert statement is prepared and the connection goes into m_Store;
\* the for loop then writes the point to it.
PrepareInsert ==
  /\ CreateStep("prepare", "write")
  /\ conns' = conns \cup {NameOf(Current)}
  /\ UNCHANGED schema

\* Mutant: the for loop continues without the fetch_sub.
CreateFailsUncounted ==
  /\ pc \in CreateSteps \cap Faults
  /\ failed' = failed \cup {Current}
  /\ faulted' = faulted \cup {NameOf(Current)}
  /\ pos' = pos + 1
  /\ pc' = "write"
  /\ UNCHANGED <<queueVars, statsVars, conns, threadVars, draining,
                 unvisited, batch, diskVars, boots, lost>>

\* A call of CreateDatabase fails: it gives up and the point is dropped.
CreateFails ==
  /\ pc \in CreateSteps \cap Faults
  /\ failed' = failed \cup {Current}
  /\ faulted' = faulted \cup {NameOf(Current)}
  /\ NextPoint
  /\ UNCHANGED <<log, head, adding, statsVars, conns, threadVars, draining,
                 unvisited, batch, diskVars, boots, lost>>

\* CREATE TABLE finds the table already there: an error like any other.
TableExists ==
  /\ pc = "table"
  /\ schema[NameOf(Current)] \in Tabled
  /\ failed' = failed \cup {Current}
  /\ NextPoint
  /\ UNCHANGED <<log, head, adding, statsVars, conns, threadVars, draining,
                 unvisited, batch, diskVars, boots, lost, faulted>>

\* Mutant: AddWriteCount is called behind the while loop, where count is 0.
EndBatchUncounted ==
  /\ pc = "write" /\ pos > Len(batch)
  /\ BeginDequeue
  /\ UNCHANGED <<queueVars, statsVars, conns, threadVars, draining, diskVars,
                 boots, historyVars>>

\* The for loop is over; Process, not Stop, reports count as written.
EndBatch ==
  /\ pc = "write" /\ pos > Len(batch)
  /\ writeCount' = IF draining THEN writeCount ELSE writeCount + Len(batch)
  /\ BeginDequeue
  /\ UNCHANGED <<queueVars, backlog, updated, conns, threadVars, draining,
                 diskVars, boots, historyVars>>

\* GetStats(stats, true): the figures are taken only if they are new.
TakeStats ==
  /\ pc = "stats"
  /\ updated' = FALSE
  /\ pc' = IF updated THEN "internal" ELSE "loop"
  /\ UNCHANGED <<queueVars, backlog, writeCount, conns, threadVars, loopVars,
                 diskVars, boots, historyVars>>

\* QueueMetric of the next internal metric, by the datastore thread itself.
QueueInternal ==
  /\ pc = "internal"
  /\ log' = [log EXCEPT ![Self] = Append(@, Internal[pos])]
  /\ queueSize' = (queueSize + 1) % SizeMod
  /\ IF pos < Len(Internal)
     THEN pos' = pos + 1 /\ pc' = pc
     ELSE pos' = 1 /\ pc' = "loop"
  /\ UNCHANGED <<head, adding, statsVars, conns, threadVars, draining,
                 unvisited, batch, diskVars, boots, historyVars>>

-----------------------------------------------------------------------------
Environment ==
  \/ Boot \/ StopNetwork \/ StopThread \/ UpdateStats \/ ApiStats \/ Crash
  \/ \E p \in Producers : AddSize(p) \/ \E n \in Names : Enqueue(p, n)

Work ==
  \/ LoadAll \/ LoadFails \/ SkipStart
  \/ BeginProcess \/ StopSelf \/ BeginDrain
  \/ \E t \in Threads : Visit(t)
  \/ BeginBatch \/ QueueEmpty \/ CloseAll
  \/ WriteMetric \/ WriteFails \/ BeginCreate
  \/ OpenFile \/ CreateTable \/ CreateIndex \/ EnableWal \/ PrepareInsert
  \/ CreateFails \/ TableExists
  \/ EndBatch \/ TakeStats \/ QueueInternal

Next == Environment \/ Work

Spec == Init /\ [][Next]_vars

\* The operating system runs the datastore thread, and a thread inside
\* QueueMetric gets to its fetch_add; nobody has to stop the service.
FairSpec ==
  /\ Spec
  /\ WF_vars(Work)
  /\ \A p \in Producers : WF_vars(AddSize(p))
=============================================================================
