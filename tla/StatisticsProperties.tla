------------------------ MODULE StatisticsProperties ------------------------
(***************************************************************************)
(* What the unlocked statistics still guarantee, and what they do not.     *)
(***************************************************************************)
EXTENDS Statistics

\* The type of every variable.
Typed ==
  /\ counter \in [Counters -> Nat]
  /\ figure \in [Fields -> 0 .. MaxSeconds]
  /\ updated \in BOOLEAN
  /\ spc \in {"sleep", "writes", "backlog", "reset puts", "reset writes", "flag"}
  /\ second \in 0 .. MaxSeconds
  /\ telnet \in BOOLEAN
  /\ where \in [Threads -> {"out", "put", "copy"}]
  /\ lines \in [Workers -> Seq(BOOLEAN)]
  /\ count \in [Workers -> Nat]
  /\ DOMAIN copied \subseteq Fields
  /\ \A f \in DOMAIN copied : copied[f] \in 0 .. MaxSeconds
  /\ happened \in [Counters -> Nat] /\ reported \in [Counters -> Nat]
  /\ flagged \in 0 .. MaxSeconds
  /\ flags \in Nat /\ takes \in Nat /\ due \in 0 .. MaxSeconds

\* And a counter never holds more than has happened within the bounds: no
\* put or write is counted twice.
TypeOK ==
  /\ Typed
  /\ counter["puts"] <= MaxPuts /\ counter["writes"] <= MaxWrites

\* Between the report of a counter and its reset, what the counter holds has
\* already been reported, or will be thrown away.
Spent(c) ==
  CASE c = "puts" -> {"writes", "backlog", "reset puts"}
    [] c = "writes" -> {"backlog", "reset puts", "reset writes"}

Unreported(c) == IF spc \in Spent(c) THEN 0 ELSE counter[c]

ReportedOnce(c) == reported[c] + Unreported(c) <= happened[c]

\* A put or a write that happened once is never reported twice, although
\* each counter is read in one step and reset in another while other threads
\* add to it.  (It may not be reported at all.)
NothingReportedTwice == \A c \in Counters : ReportedOnce(c)

MayTake == IF where[Datastore] = "copy" \/ updated THEN 1 ELSE 0

\* The datastore takes figures at most once for each time m_Updated is set,
\* although the flag is tested before the copy and cleared after it, and
\* requests for /api/stats clear it as well: a second never becomes more
\* internal metrics than it should.
OneTakePerFlag == takes + MayTake <= flags

\* What the datastore copies is no older than the second whose flag it saw:
\* the flag is set after the figures.  (It may be of a later second, and the
\* three figures of different ones.)
FiguresAreDue ==
  \A f \in DOMAIN copied : copied[f] >= due

-----------------------------------------------------------------------------
(* The inductive invariant behind the last two and the writes' half of the *)
(* first.                                                                  *)

\* Process writes the three figures before it sets the flag, so the figures
\* of a second that was flagged are never older.
FigureInv ==
  /\ \A f \in Fields : flagged <= figure[f] /\ figure[f] <= second
  /\ spc \notin {"writes", "backlog"} => \A f \in Fields : figure[f] = second
  /\ spc = "writes" => figure["puts"] = second
  /\ spc = "backlog" => figure["puts"] = second /\ figure["writes"] = second
  /\ due <= flagged /\ flagged <= second
  /\ where[Datastore] # "copy" => copied = None

IInv ==
  /\ Typed /\ FigureInv
  /\ ReportedOnce("writes") /\ OneTakePerFlag /\ FiguresAreDue

=============================================================================
