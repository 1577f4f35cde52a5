-------------------------------- MODULE Query --------------------------------
(***************************************************************************)
(* /api/query (ApiQueryHandler of src/network.cpp): an HTTP worker reads   *)
(* the parts of a request, looks the metric of each subquery up in m_Store *)
(* and prepares its statement, then runs the statements one by one.  The   *)
(* datastore thread meanwhile inserts rows and adds databases to m_Store,  *)
(* and nothing orders its insert in that map with a worker's find.         *)
(*                                                                         *)
(* A statement sorts its rows, so that its first sqlite3_step reads them   *)
(* all, and the connection's mutex keeps the datastore out of that step:   *)
(* one statement sees one state of its table.                              *)
(***************************************************************************)
EXTENDS TimeSeries

CONSTANTS
  Workers,   \* civetweb threads
  Names,     \* metric names
  Percent,   \* those that printf takes to hold a conversion
  Lines,     \* lines that are put
  Requests,  \* query strings: sequences of parts
  Times,     \* what time(nullptr) returns
  MaxRows    \* bound: rows of a table

Parts == UNION {Range(r) : r \in Requests}

\* The clock fits an int64_t, and strtoull reads every size.
ASSUME QueryAssumption ==
  /\ "" \notin Names /\ Percent \subseteq Names
  /\ Times \subseteq 0 .. Half - 1
  /\ Requests \subseteq Seq(Parts)
  /\ \A p \in Parts : p.name \in {"start", "end"} => p.time.size \in Nat
  /\ \A p \in Parts : p.name = "m" /\ p.text.downsampler.parts = 2 =>
       p.text.downsampler.size \in Nat
  /\ MaxRows \in Nat

VARIABLES
  store,    \* the keys of m_Store
  linking,  \* the key m_Store.insert is at work on, if any
  table,    \* per name, the rows of METRIC in the order of insertion
  job,      \* per worker, the request it is at or was at last
  alive     \* FALSE once a worker has taken the process down

vars == <<store, linking, table, job, alive>>

\* The local variables of ApiQueryHandler, and a history: the request, what
\* was in store when it began, and whether a find missed what was there.
Begun(request, time) ==
  [pc |-> "parts", parts |-> request, now |-> time, start |-> 0, end |-> time,
   subqueries |-> << >>, response |-> << >>, racing |-> FALSE,
   asked |-> request, known |-> store, rows |-> table, missed |-> FALSE]

Init ==
  /\ store = {} /\ linking = {}
  /\ table = [n \in Names |-> << >>]
  /\ job = [w \in Workers |-> [Begun(<< >>, 0) EXCEPT !.pc = "idle"]]
  /\ alive = TRUE

At(w, pc) == alive /\ job[w].pc = pc

-----------------------------------------------------------------------------
(* The datastore thread.                                                   *)

\* m_Store.insert begins to change the links of the map.
BeginInsert(n) ==
  /\ linking = {} /\ n \notin store
  /\ linking' = {n}
  /\ job' = [w \in Workers |-> [job[w] EXCEPT !.racing = @ \/ At(w, "find")]]
  /\ UNCHANGED <<store, table, alive>>

EndInsert ==
  /\ linking # {}
  /\ store' = store \cup linking
  /\ linking' = {}
  /\ UNCHANGED <<table, job, alive>>

\* The timestamp is bound as an int64_t, and stays one here until the
\* response prints it: the downsampler subtracts uint64_t in ascending order,
\* which comes to the same.
Row(m) == [m.row EXCEPT !.timestamp = Signed(@)]

\* A line put over HTTP that Metric accepts becomes a row.  (Telnet lets
\* only lines of four fields and more get that far.)
WriteMetric(line) ==
  /\ linking = {}
  /\ LET m == Metric(line)
     IN  /\ m.ok /\ m.name \in store
         /\ Len(table[m.name]) < MaxRows
         /\ table' = [table EXCEPT ![m.name] = Append(@, Row(m))]
  /\ UNCHANGED <<store, linking, job, alive>>

-----------------------------------------------------------------------------
(* A worker.                                                               *)

Continue(w, j) ==
  /\ job' = [job EXCEPT ![w] = j]
  /\ UNCHANGED <<store, linking, table, alive>>

Die == alive' = FALSE /\ UNCHANGED <<store, linking, table, job>>

\* A request without a query string: a std::string is made of a null pointer.
DieOfNoQuery(w) == At(w, "idle") /\ Die

BeginRequest(w, request, time) ==
  /\ At(w, "idle")
  /\ Continue(w, Begun(request, time))

NextPart(w, name) ==
  /\ At(w, "parts") /\ job[w].parts # << >>
  /\ Head(job[w].parts).name = name

Ago(w) == Minus(job[w].now, ParseTime(Head(job[w].parts).time))

SetStart(w) ==
  /\ NextPart(w, "start")
  /\ Continue(w, [job[w] EXCEPT !.start = Ago(w), !.parts = Tail(@)])

\* Mutant: the end of the range is taken for its start.
SetEndAsStart(w) ==
  /\ NextPart(w, "end")
  /\ Continue(w, [job[w] EXCEPT !.start = Ago(w), !.parts = Tail(@)])

SetEnd(w) ==
  /\ NextPart(w, "end")
  /\ Continue(w, [job[w] EXCEPT !.end = Ago(w), !.parts = Tail(@)])

\* A part of any other name is passed over.
PassOver(w) ==
  /\ At(w, "parts") /\ job[w].parts # << >>
  /\ Head(job[w].parts).name \notin {"start", "end", "m"}
  /\ Continue(w, [job[w] EXCEPT !.parts = Tail(@)])

\* m_Store.find in PrepareQuery begins: is an insert under way already?
BeginFind(w) ==
  /\ NextPart(w, "m")
  /\ Continue(w, [job[w] EXCEPT !.pc = "find", !.racing = linking # {}])

Subquery(w) == Query(Head(job[w].parts).text)

\* Mutant: the statement prepared last is the first to run.
PrepareFirst(w) ==
  /\ At(w, "find")
  /\ Subquery(w).metric \in store \cup linking
  /\ Prepares(Subquery(w))
  /\ Continue(w, [job[w] EXCEPT !.pc = "parts", !.parts = Tail(@),
                                !.racing = FALSE,
                                !.subqueries = <<Subquery(w)>> \o @])

\* The metric is there, and SQLite takes the statement.
Prepare(w) ==
  /\ At(w, "find")
  /\ Subquery(w).metric \in store \cup linking
  /\ Prepares(Subquery(w))
  /\ Continue(w, [job[w] EXCEPT !.pc = "parts", !.parts = Tail(@),
                                !.racing = FALSE,
                                !.subqueries = Append(@, Subquery(w))])

\* PrepareQuery returns nullptr, and the subquery is gone: no such metric, a
\* statement that is an error, or links of the map that changed on the way.
Skip(w) ==
  /\ At(w, "find")
  /\ \/ Subquery(w).metric \notin store
     \/ ~ Prepares(Subquery(w))
     \/ job[w].racing
  /\ Continue(w, [job[w] EXCEPT !.pc = "parts", !.parts = Tail(@),
                                !.racing = FALSE,
                                !.missed = @ \/ job[w].racing])

EndParts(w) ==
  /\ At(w, "parts") /\ job[w].parts = << >>
  /\ Continue(w, [job[w] EXCEPT !.pc = "execute"])

AtSubquery(w) == At(w, "execute") /\ job[w].subqueries # << >>

Next1(w) == Head(job[w].subqueries)

Results(w) == Select(Next1(w), Signed(job[w].start), Signed(job[w].end),
                     table[Next1(w).metric])

\* Mutant: a result set that fails ends the loop.
DropAll(w) ==
  /\ AtSubquery(w) /\ ~ Next1(w).statement
  /\ Continue(w, [job[w] EXCEPT !.subqueries = << >>])

\* ResultSet::Execute fails where there is no statement.
Drop(w) ==
  /\ AtSubquery(w) /\ ~ Next1(w).statement
  /\ Continue(w, [job[w] EXCEPT !.subqueries = Tail(@)])

\* ResultSet::Execute, Decimate, and the result in the response.
Execute(w) ==
  /\ AtSubquery(w) /\ Next1(w).statement
  /\ LET ds == Downsampler(Next1(w).downsampler)
         answer == [query |-> Next1(w), results |-> Results(w),
                    dps |-> Decimate(ds, Results(w))]
     IN  /\ ~ DereferencesEnd(ds, Results(w))
         /\ Continue(w, [job[w] EXCEPT !.subqueries = Tail(@),
                                       !.response = Append(@, answer)])

\* begin() of a vector that never held anything is a null pointer.
DieOfNoResult(w) ==
  /\ AtSubquery(w) /\ Next1(w).statement
  /\ DereferencesEnd(Downsampler(Next1(w).downsampler), Results(w))
  /\ Die

AtResponse(w) == At(w, "execute") /\ job[w].subqueries = << >>

Respond(w) ==
  /\ AtResponse(w)
  /\ Continue(w, [job[w] EXCEPT !.pc = "idle"])

\* The response is printed as a format, of which a metric name may make a
\* conversion: mg_printf then takes an argument that nobody passed.
DieOfFormat(w) ==
  /\ AtResponse(w)
  /\ \E k \in DOMAIN job[w].response : job[w].response[k].query.metric \in Percent
  /\ Die

-----------------------------------------------------------------------------
Datastore ==
  /\ alive
  /\ \/ \E n \in Names : BeginInsert(n)
     \/ EndInsert
     \/ \E line \in Lines : WriteMetric(line)

Worker(w) ==
  \/ \E request \in Requests, time \in Times : BeginRequest(w, request, time)
  \/ SetStart(w) \/ SetEnd(w) \/ PassOver(w)
  \/ BeginFind(w) \/ Prepare(w) \/ Skip(w) \/ EndParts(w)
  \/ Drop(w) \/ Execute(w) \/ Respond(w)
  \/ DieOfNoQuery(w) \/ DieOfNoResult(w) \/ DieOfFormat(w)

Next == Datastore \/ \E w \in Workers : Worker(w)

Spec == Init /\ [][Next]_vars
=============================================================================
