-------------------------- MODULE QueryProperties --------------------------
(***************************************************************************)
(* What an answer of /api/query is worth, and what README.md says besides. *)
(***************************************************************************)
EXTENDS Query

CONSTANT Pairs  \* the fields of lines that are key=value

\* The type of what lasts, and the control state of every worker.
TypeOK ==
  /\ store \subseteq Names /\ linking \subseteq Names
  /\ DOMAIN table = Names /\ \A n \in Names : Len(table[n]) <= MaxRows
  /\ \A w \in Workers :
       /\ job[w].pc \in {"idle", "parts", "find", "execute"}
       /\ job[w].start \in 0 .. TimeMod - 1 /\ job[w].end \in 0 .. TimeMod - 1
       /\ job[w].pc = "find" => job[w].parts # << >>
  /\ alive \in BOOLEAN

-----------------------------------------------------------------------------
Seconds(t) == t.size * UnitSeconds(t.unit)

\* <size><unit>-ago, and no longer ago than an int64_t can tell.
Relative(t) == t.unit # "" /\ t.ago /\ Seconds(t) < Half

RelativeOnly(j) == \A i \in DOMAIN j.asked :
  j.asked[i].name \in {"start", "end"} => Relative(j.asked[i].time)

IsLast(parts, name, n, i) ==
  /\ i \in 1 .. n /\ parts[i].name = name
  /\ \A k \in i + 1 .. n : parts[k].name # name

\* The last part of the name among the first n, none being 0.
LastPart(parts, name, n) ==
  IF \A i \in 1 .. n : parts[i].name # name THEN 0
  ELSE CHOOSE i \in 1 .. n : IsLast(parts, name, n, i)

\* The limit of the range README.md describes, once n parts are processed:
\* so long before now as its part says, or the default.  It may lie before
\* the epoch.
Limit(j, name, n, default) ==
  LET i == LastPart(j.asked, name, n)
  IN  IF i = 0 THEN default ELSE j.now - Seconds(j.asked[i].time)

\* A value is what README.md calls it: a sum, the least, the greatest or
\* (as far as integers go) the average of the values.
IsAggregate(method, v, values) ==
  LET all == {values[i] : i \in DOMAIN values}
      count == Cardinality(DOMAIN values)
  IN  CASE method = "sum" -> v = SumFunction(values)
        [] method = "min" -> v \in all /\ \A x \in all : v <= x
        [] method = "max" -> v \in all /\ \A x \in all : x <= v
        [] method = "avg" -> /\ v * count <= SumFunction(values)
                             /\ SumFunction(values) < (v + 1) * count
        [] method = "count" -> v = count

\* The column f(value) of a group: an aggregate of its values, or what f
\* makes of the value of one of its rows, of which SQLite promises no more.
IsColumn(f, v, values) ==
  IF f \in DOMAIN Named THEN IsAggregate(Named[f], v, values)
  ELSE \E i \in DOMAIN values : v = Scalar[f][values[i]]

\* What README.md says a query returns, of the rows of a table: the rows in
\* the range whose tags match are grouped by their time, and every group is
\* one result, in the order of time.
Selected(query, from, to, rows, results) ==
  LET hits == {i \in DOMAIN rows :
                 /\ from <= rows[i].timestamp /\ rows[i].timestamp <= to
                 /\ Matches(rows[i], query.filters)}
      group(p) == {i \in hits : rows[i].timestamp = p.timestamp}
  IN  /\ \A k, l \in DOMAIN results :
           k < l => results[k].timestamp < results[l].timestamp
      /\ \A i \in hits : \E k \in DOMAIN results : i \in group(results[k])
      /\ \A k \in DOMAIN results :
           /\ group(results[k]) # {}
           /\ IsColumn(query.aggregator, results[k].value,
                       [i \in group(results[k]) |-> rows[i].value])

\* Each result of a request in relative times is what its query selects in
\* the range of the request, wherever start and end stand among the parts,
\* although the code computes the range without sign and goes through
\* 2^64; and it is selected from one state of the table, no older than the
\* request.
AnswersAreCurrent == \A w \in Workers : RelativeOnly(job[w]) =>
  LET j == job[w]
      from == Limit(j, "start", Len(j.asked), 0)
      to == Limit(j, "end", Len(j.asked), j.now)
  IN  \A k \in DOMAIN j.response :
        LET a == j.response[k]
            rows == table[a.query.metric]
        IN  \E n \in Len(j.rows[a.query.metric]) .. Len(rows) :
              Selected(a.query, from, to, SubSeq(rows, 1, n), a.results)

\* What downsampling makes of the results: it drops none and counts none
\* twice.  The points are an interval or more apart, each stands for the
\* results of the interval it begins, every result is in one, and the value
\* of a point is the aggregate of these.  Without an interval one point
\* stands for all.
Downsampled(ds, results, dps) ==
  LET window(p) == {i \in DOMAIN results :
                      /\ p.timestamp <= results[i].timestamp
                      /\ \/ ds.interval = 0
                         \/ results[i].timestamp < p.timestamp + ds.interval}
  IN  /\ \A i \in DOMAIN results : \E m \in DOMAIN dps : i \in window(dps[m])
      /\ \A m \in 2 .. Len(dps) :
           /\ ds.interval # 0
           /\ dps[m - 1].timestamp + ds.interval <= dps[m].timestamp
      /\ \A m \in DOMAIN dps :
           /\ \E i \in DOMAIN results : results[i].timestamp = dps[m].timestamp
           /\ IsAggregate(ds.method, dps[m].value,
                          [i \in window(dps[m]) |-> results[i].value])

\* The points of an answer are its results or what downsampling makes of
\* them; and no two have one timestamp, under which the response keeps them:
\* the second would replace the first.
DownsampledAsDocumented ==
  \A w \in Workers : \A k \in DOMAIN job[w].response :
    LET a == job[w].response[k]
        ds == Downsampler(a.query.downsampler)
    IN  /\ IF ds.method = "none" THEN a.dps = a.results
           ELSE Downsampled(ds, a.results, a.dps)
        /\ \A m \in 2 .. Len(a.dps) : a.dps[m - 1].timestamp < a.dps[m].timestamp

\* Can what the request says be answered?  It names a metric and a function
\* SQLite has, and its filters are there, none with an empty value and none
\* with a quote; what has no value or more than one is not a filter.
Answerable(text) ==
  /\ text.elems >= 2 /\ text.braces
  /\ text.aggregator \in Accepted
  /\ text.filters # << >>
  /\ \A i \in DOMAIN text.filters : text.filters[i].parts = 2 =>
       text.filters[i].values # {} /\ ~ text.filters[i].quote

\* A subquery of a metric that was in the cache when its request began is in
\* the response, whatever the others of the request come to and whatever the
\* datastore inserts, unless the map changed under the very search for it.
NoSubqueryVanishes ==
  \A w \in Workers : job[w].pc = "idle" => \A i \in DOMAIN job[w].asked :
    LET part == job[w].asked[i]
    IN  part.name = "m" /\ Answerable(part.text) /\ part.text.metric \in job[w].known =>
          \/ \E k \in DOMAIN job[w].response :
               job[w].response[k].query = Query(part.text)
          \/ job[w].missed

\* at gives each query a part of the request that asks for it, in order.
AskedAt(queries, asked, at) ==
  /\ \A k \in DOMAIN queries :
       asked[at[k]].name = "m" /\ queries[k] = Query(asked[at[k]].text)
  /\ \A k, l \in DOMAIN queries : k < l => at[k] < at[l]

Answered(j) == [k \in DOMAIN j.response |-> j.response[k].query]

\* The answers are those to subqueries of the request, each to another one,
\* in the order of the request, whichever were not prepared or failed: an
\* answer names its metric alone, so its place is all that tells a client
\* which of two subqueries of one metric it is for.
AnswersInOrder ==
  \A w \in Workers :
    \E at \in [DOMAIN job[w].response -> DOMAIN job[w].asked] :
      AskedAt(Answered(job[w]), job[w].asked, at)

-----------------------------------------------------------------------------
(* The inductive invariant behind the properties above.                    *)

\* The parts that have been processed.
Done(j) == Len(j.asked) - Len(j.parts)

IsSeq(s) == s \in Seq(Range(s))

JobFields == {"pc", "parts", "now", "start", "end", "subqueries", "response",
              "racing", "asked", "known", "rows", "missed"}

\* What is left of a request is the end of it, and what a worker is at tells
\* which of its variables are still or again empty.
JobType(j) ==
  /\ DOMAIN j = JobFields
  /\ j.pc \in {"idle", "parts", "find", "execute"}
  /\ IsSeq(j.asked) /\ IsSeq(j.parts) /\ IsSeq(j.subqueries) /\ IsSeq(j.response)
  /\ Len(j.parts) <= Len(j.asked)
  /\ \A i \in 1 .. Len(j.parts) : j.parts[i] = j.asked[Done(j) + i]
  /\ \A i \in 1 .. Len(j.asked) :
       j.asked[i].name \in {"start", "end"} => j.asked[i].time.size \in Nat
  /\ j.now \in 0 .. Half - 1
  /\ j.start \in 0 .. TimeMod - 1 /\ j.end \in 0 .. TimeMod - 1
  /\ j.pc = "find" => j.parts # << >> /\ Head(j.parts).name = "m"
  /\ j.pc \in {"idle", "execute"} => j.parts = << >>
  /\ j.pc = "idle" => j.subqueries = << >>
  /\ j.pc \in {"parts", "find"} => j.response = << >>
  /\ \A k \in DOMAIN j.subqueries : j.subqueries[k].metric \in Names
  /\ \A k \in DOMAIN j.response : j.response[k].query.metric \in Names

\* What was answered is what the statement selected, from one state of its
\* table since the request began.
AnsweredFrom(j, tables) == RelativeOnly(j) =>
  LET from == Limit(j, "start", Len(j.asked), 0)
      to == Limit(j, "end", Len(j.asked), j.now)
  IN  \A k \in DOMAIN j.response :
        LET a == j.response[k]
            rows == tables[a.query.metric]
        IN  \E n \in Len(j.rows[a.query.metric]) .. Len(rows) :
              a.results = Select(a.query, from, to, SubSeq(rows, 1, n))

\* The range is that of the parts processed so far.
RangeInv(j) == RelativeOnly(j) =>
  /\ Signed(j.start) = Limit(j, "start", Done(j), 0)
  /\ Signed(j.end) = Limit(j, "end", Done(j), j.now)

\* Databases and rows only come to what a request found.
GrowthInv(j, metrics, tables) ==
  /\ j.known \subseteq metrics
  /\ \A n \in Names :
       Len(j.rows[n]) \in Nat /\ Len(j.rows[n]) <= Len(tables[n])

\* A subquery that can be answered is prepared or answered.
KeptInv(j) == \A i \in 1 .. Done(j) :
  LET part == j.asked[i]
      q == Query(part.text)
  IN  part.name = "m" /\ Answerable(part.text) /\ part.text.metric \in j.known =>
        \/ \E k \in DOMAIN j.response : j.response[k].query = q
        \/ \E k \in DOMAIN j.subqueries : j.subqueries[k] = q
        \/ j.missed

\* What was answered was asked for before what is prepared, and that before
\* what has yet to be looked at.
OrderInv(j) ==
  \E f \in [DOMAIN j.response -> 1 .. Done(j)],
     g \in [DOMAIN j.subqueries -> 1 .. Done(j)] :
    /\ AskedAt(Answered(j), j.asked, f) /\ AskedAt(j.subqueries, j.asked, g)
    /\ \A k \in DOMAIN j.response, l \in DOMAIN j.subqueries : f[k] < g[l]

JobInv(j, metrics, tables) ==
  /\ JobType(j) /\ RangeInv(j) /\ GrowthInv(j, metrics, tables)
  /\ AnsweredFrom(j, tables) /\ KeptInv(j) /\ OrderInv(j)

StoreInv ==
  /\ store \subseteq Names /\ linking \subseteq Names
  /\ DOMAIN table = Names
  /\ \A n \in Names : IsSeq(table[n]) /\ Len(table[n]) <= MaxRows
  /\ DOMAIN job = Workers
  /\ alive \in BOOLEAN

IInv == StoreInv /\ (\A w \in Workers : JobInv(job[w], store, table))

\* The inductive invariant behind the properties of the values, which holds
\* beside IInv.

IsTable(rows) ==
  \A i \in DOMAIN rows : rows[i].timestamp \in Int /\ rows[i].value \in Values

\* What GROUP BY makes of the rows of a query: values at ascending times.
IsSeries(results) ==
  /\ Len(results) \in Nat /\ DOMAIN results = 1 .. Len(results)
  /\ \A k \in DOMAIN results :
       results[k].timestamp \in Int /\ results[k].value \in Int
  /\ \A k, l \in DOMAIN results :
       k < l => results[k].timestamp < results[l].timestamp

Sized(part) ==
  part.name = "m" /\ part.text.downsampler.parts = 2 =>
    part.text.downsampler.size \in Nat

Prepared(q) ==
  /\ q.statement => q.aggregator \in Accepted
  /\ Downsampler(q.downsampler).interval \in Nat

\* An answer is downsampled from what was selected.
Decimated(a) ==
  LET ds == Downsampler(a.query.downsampler)
  IN  /\ a.query.statement /\ Prepared(a.query)
      /\ IsSeries(a.results)
      /\ ~ DereferencesEnd(ds, a.results)
      /\ a.dps = Decimate(ds, a.results)

ValueInv(j) ==
  /\ \A i \in DOMAIN j.parts : Sized(j.parts[i])
  /\ \A k \in DOMAIN j.subqueries : Prepared(j.subqueries[k])
  /\ \A k \in DOMAIN j.response : Decimated(j.response[k])

ValuesInv ==
  /\ \A n \in Names : IsTable(table[n])
  /\ \A w \in Workers : ValueInv(job[w])

-----------------------------------------------------------------------------
\* README.md says that start may be a Unix timestamp: what is answered is no
\* older than it.
AbsoluteStartIsHonoured ==
  \A w \in Workers : \A k \in DOMAIN job[w].response :
    LET i == LastPart(job[w].asked, "start", Len(job[w].asked))
    IN  i # 0 /\ job[w].asked[i].time.unit = "" =>
          \A p \in ToSet(job[w].response[k].results) :
            job[w].asked[i].time.size <= p.timestamp

\* README.md says that at least one key/value pair is required: the tags of
\* a row are pairs.
RowsHaveTags == \A n \in Names : \A i \in DOMAIN table[n] :
  ToSet(table[n][i].tags) \subseteq Pairs
=============================================================================
