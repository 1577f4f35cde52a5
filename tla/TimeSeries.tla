----------------------------- MODULE TimeSeries -----------------------------
(***************************************************************************)
(* What SimpleTSDB computes without keeping any state: a metric from the   *)
(* line of a put (metric.cpp), a time range and a query from the text of a *)
(* request (utility.cpp, query.cpp), the rows a query selects (SQLite),    *)
(* and their downsampling (downsampler.cpp).                               *)
(*                                                                         *)
(* A line is the sequence of its fields, an empty one where two spaces meet *)
(* or a line begins or ends with one.  A number is known by its text.      *)
(* Values are doubles in the code and integers here, so an average is      *)
(* rounded.                                                                *)
(***************************************************************************)
EXTENDS Integers, SequencesExt

CONSTANTS
  Number,   \* the numbers: a function from their texts
  Like,     \* <<tags, p>>: the tags of a row, as one text, are LIKE '%p%'
  Named,    \* SQLite's aggregate functions by the texts that name them
  Scalar,   \* the texts that make f(value) an expression, and which
  Half      \* an int64_t is less than Half, a uint64_t than twice that

ASSUME TimeSeriesAssumption ==
  /\ Number \in [DOMAIN Number -> Nat]
  /\ Half \in Nat \ {0}

Aggregators == {"avg", "sum", "min", "max"}

\* What a row holds: a value that was read, or the one a metric begins with.
Values == Range(Number) \cup {0}

\* sum and SUM name one function.  No text at all makes a pair of brackets of
\* the call, and abs is a function of one value.
ASSUME FunctionAssumption ==
  /\ \A f \in DOMAIN Named : Named[f] \in Aggregators \cup {"count"}
  /\ \A f \in Aggregators : f \in DOMAIN Named /\ Named[f] = f
  /\ \A f \in DOMAIN Scalar : Scalar[f] \in [Values -> Int]

\* What SQLite can make a column of.
Accepted == DOMAIN Named \cup DOMAIN Scalar

TimeMod == 2 * Half

\* strtoull reads no more than a uint64_t holds.
Unsigned(n) == IF n < TimeMod THEN n ELSE TimeMod - 1

-----------------------------------------------------------------------------
(* Metric(line).                                                           *)

NotAMetric == [ok |-> FALSE]

\* A metric has a name and tags.
MetricOf(name, timestamp, value, tags) ==
  IF name = "" \/ tags = <<"">> THEN NotAMetric
  ELSE [ok |-> TRUE, name |-> name,
        row |-> [timestamp |-> Unsigned(timestamp), value |-> value, tags |-> tags]]

\* The search for the next space starts behind the last one found; where
\* none was found that is the start of the line.  So a line of three fields
\* keeps the value 0 and has itself for its tags, and one of two fields is
\* read from its start again, for the value.
Metric(line) ==
  LET numbers == CASE Len(line) = 1 -> {}
                   [] Len(line) = 2 -> {line[1]}
                   [] Len(line) = 3 -> {line[2]}
                   [] OTHER         -> {line[2], line[3]}
  IN  IF Len(line) <= 1 \/ ~ numbers \subseteq DOMAIN Number THEN NotAMetric
      ELSE CASE Len(line) = 2 -> MetricOf(line[1], 0, Number[line[1]], <<line[2]>>)
             [] Len(line) = 3 -> MetricOf(line[1], Number[line[2]], 0, line)
             [] OTHER -> MetricOf(line[1], Number[line[2]], Number[line[3]],
                                  SubSeq(line, 4, Len(line)))

-----------------------------------------------------------------------------
(* Times: <size><unit>, as in 5m-ago and 5m-avg.                           *)

\* Every unit that is not one of these counts seconds.
UnitSeconds(unit) ==
  CASE unit = "m" -> 60 [] unit = "h" -> 60 * 60 [] unit = "d" -> 60 * 60 * 24
    [] OTHER -> 1

Scaled(t) == (Unsigned(t.size) * UnitSeconds(t.unit)) % TimeMod

\* Something behind the number that lacks "-ago" makes it 0.
ParseTime(t) == IF t.unit = "" \/ t.ago THEN Scaled(t) ELSE 0

\* Mutant: the difference is signed.
MinusSigned(a, b) == a - b

\* Unsigned subtraction, and the conversion of sqlite3_bind_int64.
Minus(a, b) == IF b <= a THEN a - b ELSE TimeMod - (b - a)
Signed(a) == IF a < Half THEN a ELSE a - TimeMod

-----------------------------------------------------------------------------
(* Query and Downsampler: the text of a subquery, taken apart.             *)

\* Without two elements and a pair of braces there is no metric; without a
\* filter there is a metric and no statement.  A filter that is not one key
\* and one value is passed over.  One with an empty value (host==) becomes a
\* condition without an "and" before it, and a quote in a filter leaves a
\* literal of the statement open: such a statement does not parse.
Query(text) ==
  LET named == text.elems >= 2 /\ text.braces
      whole == named /\ text.filters # << >>
      pairs == {f \in ToSet(text.filters) : f.parts = 2}
  IN  [metric |-> IF named THEN text.metric ELSE "",
       statement |-> whole,
       parses |-> \A f \in pairs : f.values # {} /\ ~ f.quote,
       aggregator |-> text.aggregator,
       filters |-> {f.values : f \in pairs},
       downsampler |-> IF whole /\ text.elems >= 3 THEN text.downsampler
                                                   ELSE [parts |-> 0]]

\* sqlite3_prepare_v2 of the text of a query: of an empty one there is no
\* statement, and that is no error.
Prepares(query) ==
  query.statement => query.parses /\ query.aggregator \in Accepted

Downsampler(type) ==
  IF type.parts # 2 THEN [method |-> "none", interval |-> 0]
  ELSE [method |-> IF type.method \in Aggregators THEN type.method ELSE "none",
        interval |-> IF type.unit = "all" THEN 0 ELSE Scaled(type)]

\* Avg, Sum, Min and Max of one value or more; SQLite's are the same, and it
\* counts besides.
Aggregate(method, values) ==
  CASE method = "sum" -> SumFunction(values)
    [] method = "avg" -> SumFunction(values) \div Cardinality(DOMAIN values)
    [] method = "min" -> Min(Range(values))
    [] method = "max" -> Max(Range(values))
    [] method = "count" -> Cardinality(DOMAIN values)

\* The column f(value) of a group of rows: where f is no aggregate function
\* SQLite computes it of one row, the last.
Column(f, values) ==
  IF f \in DOMAIN Named THEN Aggregate(Named[f], values)
  ELSE Scalar[f][values[Max(DOMAIN values)]]

Matches(row, filters) ==
  \A values \in filters : \E p \in values : <<row.tags, p>> \in Like

\* The numbers of a set in ascending order: the k-th has k up to it.
Ascending(S) ==
  [k \in 1 .. Cardinality(S) |->
     CHOOSE x \in S : Cardinality({y \in S : y <= x}) = k]

\* SELECT timestamp, f(value) ... GROUP BY timestamp.
Select(query, from, to, rows) ==
  LET hits == {i \in DOMAIN rows :
                 /\ from <= rows[i].timestamp /\ rows[i].timestamp <= to
                 /\ Matches(rows[i], query.filters)}
      times == Ascending({rows[i].timestamp : i \in hits})
      at(t) == {i \in hits : rows[i].timestamp = t}
  IN  [k \in DOMAIN times |->
         [timestamp |-> times[k],
          value |-> Column(query.aggregator, [i \in at(times[k]) |-> rows[i].value])]]

-----------------------------------------------------------------------------
(* Downsampler::Decimate.                                                  *)

\* Mutant: a point a whole interval away is still in the window.
WindowsClosed(interval, results) ==
  LET start[i \in DOMAIN results] ==
        IF i = 1 THEN 1
        ELSE LET s == start[i - 1]
             IN  IF results[i].timestamp - results[s].timestamp <= interval THEN s ELSE i
  IN  start

\* Per result, the first one of its window: the next one begins with the
\* first result that is an interval or more away.
Windows(interval, results) ==
  LET start[i \in DOMAIN results] ==
        IF i = 1 THEN 1
        ELSE LET s == start[i - 1]
             IN  IF results[i].timestamp - results[s].timestamp < interval THEN s ELSE i
  IN  start

Point(method, results, indices) ==
  [timestamp |-> results[Min(indices)].timestamp,
   value |-> Aggregate(method, [i \in indices |-> results[i].value])]

\* An interval of 0 takes the timestamp of begin(), which an empty result
\* does not have.
DereferencesEnd(ds, results) ==
  ds.method # "none" /\ ds.interval = 0 /\ results = << >>

Decimate(ds, results) ==
  IF ds.method = "none" THEN results
  ELSE IF ds.interval = 0 THEN <<Point(ds.method, results, DOMAIN results)>>
  ELSE LET start == Windows(ds.interval, results)
           heads == Ascending(Range(start))
       IN  [k \in DOMAIN heads |->
              Point(ds.method, results, {i \in DOMAIN results : start[i] = heads[k]})]
=============================================================================
