# SimpleTSDB in TLA+

A model of SimpleTSDB, the time-series database in `src/`: the modules in this
directory describe its data path, its queries, its life cycle, its statistics and
its telnet interface, TLC checks them on small instances, and TLAPS proves the
central invariants for every value of the constants. File and line numbers below
refer to the repository.

## The system

SimpleTSDB is one Windows service. Telnet clients and HTTP requests put metrics
into a lock-free queue; one datastore thread takes them out in batches and inserts
each into an SQLite database of its metric name; HTTP requests query those
databases; a statistics thread computes rates once a second, which the datastore
stores as internal metrics of its own.

| Component | State | Operations | Model |
| --- | --- | --- | --- |
| Datastore (`datastore.cpp`) | `m_MetricQueue`, `m_QueueSize`, `m_Store` (name → connection), `m_Running`, the files on disk | `QueueMetric`, `PrepareQuery`, `Start`/`CacheDatabase`, `Process`, `Stop`, `CreateDatabase`, `WriteMetric` | `Datastore` |
| Queue (`thirdparty/moodycamel`) | a FIFO per producer thread | `enqueue`, `try_dequeue_bulk` | in `Datastore` |
| Thread (`thread.cpp`) | `m_Started`, `m_Running`, `m_Handle`, `m_Helper` | `Start`, `Stop`, `OnStart`, `OnProcess`, `OnStop` | `Lifecycle`; the datastore's thread also in `Datastore` |
| Kernel (`kernel.cpp`) | the objects of the service | construction, `Start`, `Stop`, destruction | `Lifecycle` |
| Windows service (`win32service.cpp`) | service status, `g_hStopEvent` | `ServiceMain`, `ServiceControlHandler` | `Lifecycle` |
| Statistics (`stats.cpp`) | counters, `m_Stats`, `m_Updated` | `AddPutCount`, `AddWriteCount`, `GetStats`, `Process` | `Statistics` |
| Telnet (`network.cpp`) | `m_Master`, `m_ClientBuffers` | `Process` (accept, recv, assemble, handle), `Stop` | `Telnet` |
| HTTP (`network.cpp`, civetweb) | the requests being served | `/api/put`, `/api/stats`, `/api/query` | put and stats in `Statistics` and `Datastore`, start and stop in `Lifecycle`, query in `Query` |
| Query, time range, downsampler (`query.cpp`, `utility.cpp`, `resultset.cpp`, `downsampler.cpp`) | the local variables of a request | parsing, the range, filtering, aggregation, downsampling | `TimeSeries`, `Query` |
| Metric parsing (`metric.cpp`) | none that lasts | `Metric(line)`, `IsValid` | `Metric` in `TimeSeries`, used by `Query`; elsewhere a choice between valid and invalid |

How they interact: telnet's thread and civetweb's workers call
`Datastore::QueueMetric` and then `Statistics::AddPutCount`; the datastore thread
calls `SetQueueBacklog`, `AddWriteCount` and `GetStats` and queues the internal
metrics itself; a request for `/api/stats` calls the same `GetStats`. All of that
is shared memory with no lock, ordered by atomics where it is ordered at all. The
kernel starts statistics, datastore, telnet and HTTP in that order and stops them
in the opposite one.

What is hard in it:

* a metric is enqueued before it is counted, and taken out before it is counted
  out; batches are cut across producers; a drain runs while nothing else may;
* any SQLite call may fail between two steps that leave something on disk, and the
  process may die there and start again on what it left;
* a thread runs before its creator has stored its handle; a unit whose `Start`
  failed stops its own thread; a start may fail half way;
* figures and flag of the statistics are read and written without a lock by four
  kinds of thread;
* one telnet thread serves all clients out of one buffer per socket number, and
  the system uses socket numbers again;
* a query finds its database in `m_Store` while the datastore thread may be inserting
  another one there, and reads a table that thread is inserting rows into;
* time ranges are differences without sign, bound to SQL as numbers with sign; a
  request has parts in any order and subqueries of which some cannot be answered.

What makes it correct: no metric is lost, doubled or overtaken except as a failed
call or a crash explains it; the cache of connections agrees with the files; the
backlog counter is exact; a stop leaves neither metric, thread nor socket behind and
ends; statistics are never reported twice; a telnet line is handled whole, once and
in order; an answer is what the range asked for selects from one state of a table, no
subquery costs another its answer or its place, and downsampling counts each result
once. The list of hazards in `PROJECT.json` names the line of each and the properties
that watch it; a hazard no property covers has a note that says why.

## Modules

    PointLog             what is promised of an accepted point, and nothing else
    Datastore            the queue, the datastore thread, SQLite, crash and restart
    DatastoreProperties  its properties, its inductive invariant, the mapping to PointLog
    DatastoreProofs      TLAPS: the invariant and what follows from it
    DatastoreRefinement  TLAPS: Datastore implements PointLog
    MCDatastore          instances for TLC
    Lifecycle, LifecycleProperties, LifecycleProofs
                         ServiceMain, Kernel, Thread, the HTTP server
    Statistics, StatisticsProperties, StatisticsProofs, MCStatistics
                         counters, figures and flag, and everyone who touches them
    LineLog              what is promised to a telnet client, and nothing else
    Telnet, TelnetProperties, TelnetProofs
                         sessions, line assembly, answers nobody reads
    TelnetRefinement     TLAPS: Telnet implements LineLog
    TimeSeries           Metric, ParseTime, Query, Downsampler and what SQLite
                         selects, as operators without state
    TimeSeriesProofs     TLAPS: sorting, sums, windows, what Select and Decimate compute
    Query, QueryProperties, QueryProofs, MCQuery
                         requests for /api/query beside the datastore thread

Each base module also holds the operators named `Mutant:`, changed forms of its
definitions with a plausible bug. Nothing uses them; put in place of the definition
they change, they break the property `PROJECT.json` lists with them.

### Datastore

The queue is a history `log[t]` per producing thread with the index `head[t]` of
what was taken out. This is how `ConcurrentQueue` keeps it: a FIFO per producer and
no order between them. `try_dequeue_bulk` visits the producers one by one (`Visit`),
in any order: moodycamel's order is one of these, so the model has every behaviour
of the queue and some more. A point is `<<t, k>>`, the k-th metric of thread t, so
that "twice" and "in order" can be said.

`QueueMetric` is two steps, `Enqueue` and `AddSize`, because the datastore thread
can come between them (67, 68). The datastore's own `QueueMetric` is one step
(`QueueInternal`): no other thread takes elements out and none looks at the two
halves, except through the counter, which is right before and after.

`Process` is a control variable `pc` that moves through one step per call that
another thread, a failure or a crash can separate: `BeginProcess`, `Visit`,
`BeginBatch`, per metric `WriteMetric` or the five calls of `CreateDatabase`
(`OpenFile`, `CreateTable`, `CreateIndex`, `EnableWal`, `PrepareInsert`), each of
which may fail, then `EndBatch`, `TakeStats` and `QueueInternal`. `Datastore::Stop`
runs the same loop with `draining` set; it neither counts metrics out nor reports
writes, as in the code. `schema` is how far each database file has got and survives
`Crash` and `Boot`; a start caches the files that have the METRIC table. `CREATE
TABLE` has no IF NOT EXISTS, so it fails where the table is already there
(`TableExists`).

The statistics are reduced to the flag the datastore waits for; taking it is one
step here, which `Statistics` justifies (`OneTakePerFlag`). Closing the interfaces
(`StopNetwork`) waits for their threads, which `Lifecycle` justifies
(`InterfacesStopFirst`). `CreateDatabase`'s early return for an empty name (151) is
left out: `Metric` has no empty names (metric.cpp:62, 71).

`writeCount` is the sum of what `AddWriteCount` has been told in this process.
`WritesCountedOnce` compares it with what has been written or dropped: it is never
ahead of that, and until the drain of a first process it lacks only what `Process` has
dealt with of the batch it is at.

### Lifecycle

`main` follows `ServiceMain` through construction, `Kernel::Start`, the wait,
`Kernel::Stop` and the reports; `at` is the place in `StartOrder` or `StopOrder`.
`Thread::Start` is three steps (`CreateThread`, `SetHandle`, `SetRunning`), because the
new thread runs between them. A thread goes through `OnStart`, `BeginProcess`,
`EndProcess`, `LeaveLoop` and `OnStop`; `StopSelf` is `Process` of a unit whose `Start`
failed (network.cpp:180, datastore.cpp:370), which waits for itself. Failures can happen
in the constructor, in each `CreateThread`, in `mg_start` and in the units' `Start`.
Telnet's `Process` may come to a client that does not read (`BlockInSend`: a blocking
`send`, network.cpp:271, 289), and then only the end of that connection lets it go on
(`SendReturns`). A throw from `Kernel::Start` destroys the kernel, hence the same way down
as a stop. Civetweb's workers are requests in `busy`, which `mg_stop` waits for.

`m_Started` and `m_Running` are plain `bool`s read by another thread. The build is
for x86 and every access is separated by a call the compiler cannot see through, so
they are modelled as memory accesses in program order. `Thread::Stop`'s two
assignments are one step: a thread that saw only the first would go once more round
its loop without a call. `Pause` and `Resume` have no caller and are not modelled.

### Statistics

Every access to a counter, a figure or the flag is a step of its own: the two reads
and two resets of `Process` (78-84), the fields of `GetStats`'s `memcpy` one by one in
any order, the test of the flag and its reset. A figure is known by the second it was
computed in; the division by the elapsed time is left out, and what was reported is
kept in a history. `m_Updated` is not initialised by the constructor and starts with
either value. HTTP batches are sequences of good and bad lines; each good line is
queued at once, and the count of the batch is added behind the last one.

### Telnet

A line is sent as its text and its end, and recv may cut the stream after either; the
program appends bytes until the end comes. `select` returns the readable sockets of
`m_Master`, and the for loop visits them by number. Numbers of closed sockets are used
again. `m_Master` has room for `FdSetSize` sockets and ignores one more, as Windows'
`FD_SET` does. An end of line on an empty buffer makes `substr(1)` throw (253) and ends
the process (`HandleBlankLine`); the promises to clients are made short of that. What
makes a `put` valid is a choice (`Kinds`).

A line that is an invalid put is answered by a blocking `send` (271). Where the client
does not read, the answers fill the socket and `send` waits: after an error to a client
in `Deaf` the thread may be in `tpc = "send"`, from which only the end of that
connection (`SendReturns`) takes it. All other clients and a stop wait with it, which
is why `EveryLineIsHandled` makes an exception of a client that never reads and never
goes.

`LineLog` is the same interface without sockets and bytes: clients come, say lines and
go; the service takes the next line of a client it has open, in order, with the outcome
of its kind; it closes a connection only when its client has gone, or all of them at a
stop; and the one line that ends it is a blank one that is next. `Presence`, `Answers`
and `Service` in `TelnetProperties` are the mapping: an answer is known by the number of
its line, read off the bytes that were put together, so that a line taken twice, left out
or mixed with another has no counterpart in `LineLog`.

### TimeSeries and Query

`TimeSeries` has no variables. A line is the sequence of its fields, a number is known
by its text (`Number`), and the text of a request arrives taken apart at its
separators, with what the code tests of it: how many elements, a pair of braces, how
many parts a filter has. `Metric` keeps the wrap of `npos + 1` (metric.cpp:59), through
which a short line is read from its start again. `ParseTime` and `Minus` compute modulo
2^64 (`TimeMod`), `Unsigned` is what `strtoull` makes of a number that does not fit,
`Signed` is the conversion of `sqlite3_bind_int64`, in a range as in a row (`Row`).

`Select` is the statement that `Query` has sql-builder write
(`SelectModel::str`, src/thirdparty/six-ddc/sql-builder/sql.h), which joins the conditions
with spaces and leaves every `and` to its caller. A filter with an empty value (`host==`)
becomes a condition without one (query.cpp:101-111), and a quote in a filter leaves a
literal open; such a statement does not parse (`parses`, `Prepares`), and its subquery is
gone. `Like` says which tags a pattern is part of, the tags of a row being one text, so
that a pattern with a star may reach from one tag into the next. The aggregator is put
into the statement as it came: `Named` are SQLite's aggregate functions by the texts that
name them (`SUM` as well as `sum`), `Scalar` the texts that make `f(value)` some other
expression, as `abs` and no text at all do, and `Column` is what is computed; any other
text fails to prepare (`Accepted`). Values are integers and averages rounded.
`Ascending` is the order of GROUP BY, given by the rank of each number rather than by an
algorithm, so that it can be reasoned about. `Windows` and `Decimate` follow the iterators
of `Downsampler::Decimate`; a timestamp stays signed there, since a `uint64_t` difference
of two that ascend is the same number.

`Query` runs a request on a worker, one step per step another thread can come between:
`BeginRequest`; per part `SetStart`, `SetEnd`, `PassOver`, or `BeginFind` followed by
`Prepare` or `Skip`; `EndParts`; per statement `Execute` or `Drop`; `Respond`.
`m_Store.find` on a worker and `m_Store.insert` on the datastore thread (243, 393) are
ordered by nothing. Both are intervals here: a find that overlaps an insert (`racing`)
may miss a database that is there (`Skip` sets the history `missed`); what else such a
race may do, down to a crash, is not modelled. `Execute` reads its table in one step: the one
index is on TAGS (datastore.cpp), so GROUP BY sorts, and a sorter reads all its rows in the
first `sqlite3_step`, under the mutex of the connection that the datastore's inserts need
as well. Three steps end the process: a request without a query string constructs a
`std::string` of a null pointer (`DieOfNoQuery`, network.cpp:554); `begin()` of an empty
result is dereferenced (`DieOfNoResult`, downsampler.cpp:84); and the response is handed to
`mg_printf` as its format (network.cpp:638), so that a metric name with a conversion
(`Percent`) makes it read an argument nobody passed, after which the process may be gone
(`DieOfFormat`) or not (`Respond`). The datastore thread is reduced to
`BeginInsert`, `EndInsert` and `WriteMetric` of a line that was put over HTTP; the steps
between put and row are those of `Datastore`.

## Runs

| Run | Shows |
| --- | --- |
| `datastore_faults` | every call failing at will, crashes anywhere and two boots: `m_QueueSize` is exact (`QueueSizeExact`), each accepted metric is in exactly one place (`OnePlace`), the write count is neither ahead of the writes nor behind them by more than a batch (`WritesCountedOnce`), cached connections have tables, a failure costs only metrics of its own database (`FailureIsolated`) |
| `datastore_refines` | two metrics per thread over two boots, under fairness: metrics in order (`NoOvertaking`), none left after a stop, every one settled in the end (`PointsSettle`), a stop that ends (`StopEnds`), both unless the datastore could not list its directory and waits for itself, handles that outlive requests, and `PointLog` implemented; also `IInv`, the invariant of the proofs |
| `lifecycle` | from every point at which a start can fail or a stop can arrive: no thread outlives its helper or uses a deleted object, interfaces stop before the datastore, STOPPED means that all is over; start and stop come to their end, unless a unit waits for itself or a telnet client neither reads nor goes |
| `statistics` | nothing is reported twice, a flag is taken at most once, and figures are never older than their flag |
| `telnet` | lines whole and in order, no byte of one connection in the buffer of another, no socket open after a stop, and `LineLog` implemented |
| `telnet_live` | every line of a client that stays is handled |
| `query` | answers are of the range asked for and of one state of the table (`AnswersAreCurrent`, against `Selected`, a definition that shares nothing with the statement of the model but the test of the tags), downsampling loses and doubles nothing and gives no two points one key of the response (`DownsampledAsDocumented`), no subquery that can be answered vanishes (`NoSubqueryVanishes`), and the answers are in the order of the request, by which alone a client can tell two of one metric apart (`AnswersInOrder`) |
| `backlog_waiting` | violated: `m_QueueSize` can wrap, because a metric can be counted out before it is counted in |
| `drain_writes` | violated: a service stopped before its datastore thread has run drains with an empty `m_Store` and drops metrics of databases that exist |
| `net_stop` | violated: a telnet interface that could not bind waits for itself, and the service never stops |
| `query_absolute` | violated: a start that is a Unix timestamp is subtracted from now like a relative one |
| `put_tagless` | violated: a line without tags is stored, with the whole line for its tags |

The last five check what a document or a comment says; the findings in
`PROJECT.json` quote it.

Some more disagreements need no interleaving and no run; a reader of the README of the
repository should know of them:

* A batch over HTTP that ends in a bad line has queued the good ones and is never
  counted as put (network.cpp:530), nor are failed inserts left out of the writes
  (datastore.cpp:401), whatever the table of internal metrics calls these rates
  (README.md:191, 192).
* A telnet line that is no `put` is passed over in silence (network.cpp:255), although
  "an error is written" for an incorrect call (README.md:57).
* In the example of README.md:99 the filter `dc=ny|dc=lon` has three parts between its
  equal signs and is ignored (query.cpp:72), and a value without a star is found in
  every tag it is part of (92).
* A relative time without `-ago` is 0 seconds ago, hence now and a range of nothing; the
  comment at utility.cpp:21 expected everything.

### Bounds

* `MaxPuts` (per thread), `MaxBoots`, `BulkCount = 2`. Two metrics of a thread are what
  order is about; with the internal metric and a second producer a batch of two is cut in
  every way. Two boots let a second process meet every file a first can leave.
  `datastore_faults` has two producers and all faults with one metric each (the producers
  are interchangeable, and the run uses that), `datastore_refines` one producer with two
  metrics and the faults that leave a database half made (`index`) and the datastore
  waiting for itself (`scan`): the first has the interleavings, the second the sequences.
* `SizeMod = 16` stands for 2^64. The counter leaves 0 downwards at most by the number of
  producers, so any width above the number of metrics behaves the same; the theorem
  `SizeExact` is for every width.
* One internal metric stands for three; the proofs are for any non-empty sequence.
* `Lifecycle` is finite by itself; two workers let one request begin while another ends.
* `Statistics`: two seconds (a figure of one beside a figure of the next), two workers (a
  put beside a read), batches that are good, bad at the end and bad from the start.
  Workers are interchangeable, and the run uses that symmetry.
* `Telnet`: three connections, an `fd_set` with room for two of them next to the listener,
  two lines. That is enough for two clients to interleave, one to be left out, a number to
  be used again, and two lines to travel in one recv; the first client is the deaf one.
  The liveness run has two connections and every kind of line.
* `Query`: the clock stands at 100000 and the rows are the edges of the hour before it and
  of a minute from there, a second apart on each side; three of them, of any and in any
  order, fill a window, end one and begin another. One more row has the last `uint64_t`
  for its time, which the table keeps as -1 and a range that begins before the epoch
  finds. `Half = 2^20` stands for 2^63: both are above the clock and below what a start
  two days ago wraps to. The four requests have parts in different orders, one start
  before the epoch, every kind of subquery that cannot be answered (an unknown function,
  no filter, one with an empty value or a quote, no metric), functions by other names
  (`SUM`, `count`, none), a pattern across tags, and downsampling by a minute and of
  everything. Of the two metrics one has a name with a conversion, `%s`. One worker is
  enough for TLC, since workers share nothing but what the datastore thread writes; the
  proofs are for any number.

Deadlock is not checked: a service that has stopped, or whose bounds are used up, may
rest, and that the ones at work do not is what the liveness properties say. `Query` has
no liveness property: a worker waits for nothing but SQLite's mutex.

### Fairness

`Datastore`: weak fairness of the datastore thread (`Work`) and of a thread inside
`QueueMetric`, stated in `FairSpec`, which `datastore_refines` runs. Windows schedules
every runnable thread, and neither waits for anything but the file system. Which of the
outcomes of a call comes about is left open. A datastore that could not list its directory
waits for itself (`pc = "selfwait"`), keeps accepting and never settles; `PointsSettle`
and `StopEnds` name that exception, and the run has the fault. `Lifecycle`: weak fairness
of `ServiceMain`, of each thread, and of the end of a request; nobody has to start or stop
the service, send a request, or read: `SendReturns` has no fairness. `StartCompletes` and
`StopCompletes` name their two exceptions, a unit that waits for itself (`WaitsForItself`;
`net_stop` is the run without it) and a client that holds telnet's `send` for good
(`ClientsLetGo` is their premise). `Telnet`: weak fairness of the telnet thread only: a
client need not read, send or go, and the one that neither reads nor goes is the exception
of `EveryLineIsHandled`.

The while loop of `Datastore::Process` does not look at `m_Started`, so that it comes to
an end because puts do, which the bound on puts takes for granted; in the program it is
the order of `Kernel::Stop`, interfaces first, that ends them.

## Proofs

| Module | Theorem |
| --- | --- |
| `DatastoreProofs` | `Invariance` (`IInv`), `TypeCorrect`, `ExactlyOnce` (`OnePlace`), `InOrder` (`NoOvertaking`), `Drained` (`StopLeavesNothing`), `OnlyTables` (`ConnectionsHaveTables`), `Isolated` (`FailureIsolated`), `HandlesOutlive` (`HandlesOutliveRequests`), `SizeExact` (`QueueSizeExact`), `CountedOnce` (`WritesCountedOnce`) |
| `DatastoreRefinement` | `Refinement`: `Spec => P!Spec` |
| `LifecycleProofs` | `Invariance`, `HelperOutlives`, `NoUseAfterDelete`, `InterfacesFirst`, `Stopped` |
| `StatisticsProofs` | `Invariance`, `TypeCorrect`, `TakenOnce` (`OneTakePerFlag`), `Due` (`FiguresAreDue`), `Counts`, `ReportedAtMostOnce` (`NothingReportedTwice`) |
| `TelnetProofs` | `Invariance`, `TypeCorrect`, `WholeLines` (`LinesArriveWhole`), `OwnBuffers` (`BuffersAreOfTheirSocket`), `NoneLeft` (`NoSocketLeft`) |
| `TelnetRefinement` | `Refinement`: `Spec => L!Spec` |
| `TimeSeriesProofs` | `SelectIsRight`, `DecimateIsRight` |
| `QueryProofs` | `Invariance` (`IInv`), `ValuesInvariance` (`ValuesInv`), `TypeCorrect`, `Current` (`AnswersAreCurrent`), `Downsampling` (`DownsampledAsDocumented`), `Complete` (`NoSubqueryVanishes`), `InOrder` (`AnswersInOrder`) |

Every invariant a run expects to hold is a theorem, and so are both refinements and the
one action property.

They hold for any number of producers, workers, clients, sockets, names, requests and
internal metrics, any batch size and counter width and any set of faults; the only
assumptions are the `ASSUME`s of the base modules: the datastore thread is no producer,
producers, workers of the statistics and sockets are finitely many, the internal metrics
have names, the listener is not a client's socket, 0 is no socket, the clock fits an
`int64_t`, sizes in a request (of times and of downsamplers) are natural numbers, which is
what `strtoull` makes of any text, a metric's name is not empty, `Named` has the four
aggregators under their own names and otherwise leads to one of them or to a count, a
`Scalar` function has a value for each value, and the bounds are numbers.

The properties of the datastore are not inductive. `OnePlace` needs to know that what
was taken out is in the batch from the current index on or settled (`PlaceInv`), that
a batch holds each thread's metrics in their order and none twice (`BatchInv`), and
where the index may be (`LoopInv`). `StopLeavesNothing` needs that during the drain a
producer that was visited stays empty (`DrainInv`), and that in turn needs the stop
order (`StopInv`): no one queues once the interfaces are closed. `FailureIsolated`
needs that a database with a table but no connection is the one being created or one a
call failed on (`CacheInv`), because `CREATE TABLE` fails on it. `IInv` is the
conjunction; there is a lemma per action or group of actions. The refinement maps each
point to its fate; every step is shown to be a step of `PointLog` or to leave fate and
phase alone, and `Settle`'s guard is `NoOvertaking`.

`SizeExact` counts: what waits for the counter is the accepted metrics without the
settled ones, one action adds or removes at most one of each, and the counter follows
modulo its width. The lemmas `Remainder` and `Unique` say that a number below the width
is known by its residue, so that nothing need be assumed about how far the counter runs
below 0; `Balanced` and `Counted` carry the cardinalities through the steps.
`CountedOnce` counts likewise what is written or dropped: `WriteInv` adds to the write
count what Process has dealt with of its batch and not yet reported, which comes to all of
them in a first process until it drains.

`LifecycleProofs`: the heart is `ThreadInv`: the one living thread without a handle is
the one being created, and a thread calls `Process`, and so `Stop` on itself, only when
its handle is set. A `Stop` therefore always waits before it deletes the helper.
`DownInv` says that what the kernel has gone past is over for good, `OrderInv` that the
datastore thread is told to stop only when the kernel gets to it or by itself, in which
case it never drains.

`StatisticsProofs`: `FigureInv` says that the figures are at least as new as the last
flag, which is what setting the flag last achieves; `OneTakePerFlag` is inductive with
the types. `ReportedAtMostOnce` needs the sum over all batches of what is queued and not
yet counted. It is taken as the size of one set, `Held`, with an element per metric, so
that the library's theorems about cardinalities apply: `PutsInv` says that what was
reported, what waits for its report and what is in hand together have happened.

`TelnetProofs`: what is pending of a connection is its buffer, what is left of `buf` and
what is on the wire, one behind the other. `StreamInv` says of that sequence that it is
the end of the stream the client sent: from the first line not yet handled on, line by
line, each text followed by its end. Appending a line, cutting the stream in recv and
moving a byte into the buffer leave it a stream; at an end of line, what is in the
buffer is one text (`LineTaken`), so that the line is whole. `SocketInv` gives a socket
one connection and one buffer, which is why a number that is used again begins with an
empty one. `TelnetRefinement` has a lemma per action `LineLog` sees: `MapsTake` reads off
`LinesArriveWhole` in the next state which line was taken, `MapsTerminate` off the stream
that a blank line is its first, and `Inner` collects the steps that change nothing but
sockets' bytes.

`QueryProofs`: `RangeInv` says that the range computed so far, read with sign, is that
of the last `start` and `end` among the parts processed. Its heart is `SignedMinus`: a
difference without sign, converted, is the difference, as long as both numbers fit an
`int64_t`, wherever it goes through 2^64. `GrowthInv` (databases and rows only come)
makes an answer one of a state no older than the request, and `KeptInv` follows each
subquery from the parts over the prepared ones into the response, given that a statement
that can be answered is one that prepares (`AnswerablePrepares`). `OrderInv` gives each
answer and each prepared statement its place in the request: answers come before what is
prepared, and both before what has yet to be looked at, so that a subquery that is
skipped, dropped or answered leaves the rest in order (`OrderKept`, `OrderPrepared`,
`OrderAnswered`).

`TimeSeriesProofs` is about operators on data of any size. Recursive functions and
`CHOOSE` over sets are led to equations first, and what holds for every size is proved by
descent: `Least` finds in a set of naturals its least member (from the well-foundedness of
`<`), so a counterexample of least size is refuted by a smaller one. `Sorted` shows that
the rank of a number in a finite set is a bijection that ascends (`EveryRank`), which gives
`Ascending` its order; `SumExists` that the fold `SumFunction` is built on has a sum, and
`SumIsInt`, `Extremes` and `Quotient` that `Aggregate` is what `IsAggregate` describes.
`WindowsExist` proves the recursive function of `Windows` to exist, `WindowStarts` and
`WindowsApart` that its values are the first results of the windows and an interval apart,
`WindowHolds` that a result is in the window it begins or falls behind. From these follow
`SelectIsRight` (a statement selects what `Selected` says) and `DecimateIsRight`
(`Downsampled`). `QueryProofs` carries them to the answers: `ValuesInv` says that tables
hold values that were read, that a prepared statement has a column SQLite can make, and that
each answer is the decimation of a series; with `IInv` it gives `Current` and `Downsampling`.

Only model-checked: liveness (`PointsSettle`, `StopEnds`, `StartCompletes`,
`StopCompletes`, `EveryLineIsHandled`), since the prover knows neither fairness nor ENABLED.
The inductive invariants were model-checked before they were proved; `IInv` of the datastore
and of the life cycle still are, in `datastore_refines` and `lifecycle`.

## Not modelled

* `Pause`, `Resume` (no caller), service installation, event log, configuration values
  and logging. Of the configuration two things are worth a note: `hostname` is read from
  a section `stsdb` (kernel.cpp:104) and everything else from `stsdbd`, and the file looked
  for is `stsdbd.conf` (45).
* Inside third-party code: SQLite's pages and transactions (an insert happened or did
  not), the blocks of the queue, civetweb's sockets, the JSON library. They are most of
  the lines of the repository and none of its own logic.
* A read that fails in `sqlite3_step`: `ResultSet::Execute` ends its loop as it does after
  the last row, and the answer is cut short (resultset.cpp:38-50).
* What `mg_printf` puts into a response it takes for a format and survives; the 405
  answers; the texts of `/api/aggregators` and `/api/stats`; the JSON of an answer.
* File names shorter than the extension in the data directory (datastore.cpp:299): names
  have no length here.
* What an unordered find and insert in a `std::map` may do beyond a miss.
* Rounding of doubles, and times in a request whose seconds pass 2^63.

## Plan

Done: datastore with refinement and proofs, life cycle, statistics, telnet with clients
that do not read and its refinement, queries with what selection and downsampling compute;
every safety property proved.

Left:

1. A composition of telnet and HTTP with the datastore: a line that was handled is a metric
   that is accepted, in the order of its client. `LineLog`'s `Take` with the outcome `queued`
   and `PointLog`'s `Accept` are the two steps to join.
2. Names with a length and reads that fail, for datastore.cpp:299 and resultset.cpp:46.
