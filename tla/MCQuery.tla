------------------------------- MODULE MCQuery -------------------------------
(* Instances of Query for TLC.                                             *)
EXTENDS QueryProperties

NumberTexts == [t \in {"", "3600", "2097151", "96399", "96400", "96459", "96460", "3", "5", "8"} |->
  CASE t = "" -> 0 [] t = "3600" -> 3600 [] t = "2097151" -> 2097151 [] t = "96399" -> 96399 [] t = "96400" -> 96400
    [] t = "96459" -> 96459 [] t = "96460" -> 96460
    [] t = "3" -> 3 [] t = "5" -> 5 [] t = "8" -> 8]

TagPairs == {"host=web", "host=web01", "dc=ny"}

TagLists == {<<"host=web">>, <<"host=web01">>, <<"host=web01", "dc=ny">>}

\* A pattern is found in every tag it is a part of, and one with a wildcard
\* also across tags.
Substrings ==
  {<<<<"host=web01", "dc=ny">>, "host=w%ny">>, <<<<"host=web01", "dc=ny">>, "dc=ny">>}
  \cup (TagLists \X {"host=web", "host="})

\* Of the functions by any name some names.
SomeNamed == [f \in Aggregators \cup {"SUM", "count"} |-> IF f = "SUM" THEN "sum" ELSE f]
SomeScalar == [f \in {"", "abs"} |-> [v \in Values |-> v]]

\* On the edges of an hour before 100000, and of a minute from there; and the
\* last uint64_t, which the table has as -1.
GoodLines == {
  <<"cpu", "2097151", "5", "host=web">>,
  <<"cpu", "96399", "3", "host=web">>,
  <<"cpu", "96400", "5", "host=web01", "dc=ny">>,
  <<"cpu", "96459", "8", "host=web">>,
  <<"cpu", "96460", "3", "host=web01">>,
  <<"cpu", "96460", "3", "">>, <<"", "96460", "3", "host=web">>}

AllLines == GoodLines \cup
  {<<"cpu">>, <<"3", "5">>, <<"cpu", "5">>, <<"cpu", "96400", "3">>,
   <<"cpu", "", "3", "host=web">>}

Time(size, unit, ago) == [size |-> size, unit |-> unit, ago |-> ago]
Part(name, time) == [name |-> name, time |-> time]
Start(time) == Part("start", time)
End(time) == Part("end", time)

Filter(parts, values) == [parts |-> parts, values |-> values, quote |-> FALSE]
Sampler(size, unit, method) ==
  [parts |-> 2, size |-> size, unit |-> unit, method |-> method]

M(elems, metric, aggregator, filters, downsampler) ==
  [name |-> "m", text |-> [elems |-> elems, braces |-> TRUE, metric |-> metric,
     aggregator |-> aggregator, filters |-> filters, downsampler |-> downsampler]]

Web == <<Filter(2, {"host=web"})>>
AnyHost == <<Filter(2, {"host="}), Filter(2, {"dc=ny", "host=web"})>>
Repeated == <<Filter(3, {"dc=ny", "host=web"})>>
Across == <<Filter(2, {"host=w%ny"})>>
Empty == <<Filter(2, {"host="}), Filter(2, {})>>
Quoted == <<[Filter(2, {"host=web"}) EXCEPT !.quote = TRUE]>>
Plain == M(2, "cpu", "sum", Web, [parts |-> 0])
Minutes == M(3, "cpu", "max", AnyHost, Sampler(1, "m", "avg"))
All == M(3, "cpu", "avg", Repeated, Sampler(0, "all", "min"))
Counted == M(2, "cpu", "count", Across, [parts |-> 1])
Bare == M(3, "cpu", "", Web, Sampler(1, "h", "SUM"))
Other == M(2, "%s", "SUM", Web, [parts |-> 0])
NoFilter == M(2, "cpu", "sum", << >>, [parts |-> 0])
NoFunction == M(3, "cpu", "med", Web, [parts |-> 1])
NoValue == M(2, "cpu", "sum", Empty, [parts |-> 0])
NoLiteral == M(2, "cpu", "sum", Quoted, [parts |-> 0])
NoMetric == [name |-> "m", text |-> [Plain.text EXCEPT !.braces = FALSE]]

SomeRequests == {
  <<Start(Time(1, "h", TRUE)), Minutes, NoValue, All>>,
  <<Plain, NoMetric, NoFilter, Minutes, Start(Time(2, "d", TRUE))>>,
  <<Part("ms", Time(1, "", TRUE)), End(Time(1, "h", TRUE)), NoFunction, Counted, Bare>>,
  <<NoFilter, NoLiteral, Other>>}

AbsoluteRequests == {<<Start(Time(96400, "", FALSE)), Plain>>}
=============================================================================
