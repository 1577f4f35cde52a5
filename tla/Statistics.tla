----------------------------- MODULE Statistics -----------------------------
(***************************************************************************)
(* The statistics of SimpleTSDB (src/stats.cpp) with the code that feeds   *)
(* and reads them: the telnet thread and the HTTP workers count puts, the  *)
(* datastore thread counts writes and takes the figures of a new second,   *)
(* requests for /api/stats read them whenever they come.  No lock guards   *)
(* the figures; the flag m_Updated is all that orders them.                *)
(*                                                                         *)
(* A figure is known here by the number of the second it was computed in;  *)
(* the counts it was computed from are kept in a history.                  *)
(***************************************************************************)
EXTENDS Naturals, Sequences, FiniteSets

CONSTANTS
  Workers,    \* civetweb threads
  Datastore,  \* the datastore thread
  Batches,    \* bodies of /api/put: per line, is it a valid metric?
  MaxPuts,    \* bound: metrics queued by the interfaces
  MaxWrites,  \* bound: metrics counted as written
  MaxSeconds  \* bound: seconds that are reported

Counters == {"puts", "writes"}
Fields == Counters \cup {"backlog"}
Threads == Workers \cup {Datastore}

ASSUME StatisticsAssumption ==
  /\ Datastore \notin Workers
  /\ Batches \subseteq Seq(BOOLEAN)
  /\ MaxPuts \in Nat /\ MaxWrites \in Nat /\ MaxSeconds \in Nat

\* num_threads of civetweb.
ASSUME WorkersAssumption == IsFiniteSet(Workers)

VARIABLES
  counter,   \* m_PutCount and m_WriteCount
  figure,    \* m_Stats: per field, the second it stands for
  updated,   \* m_Updated
  spc,       \* where Process is
  second,    \* seconds Process has begun to report
  telnet,    \* is the telnet thread between QueueMetric and AddPutCount?
  where,     \* where each worker and the datastore thread are
  lines,     \* per worker, the lines of its batch still to come
  count,     \* per worker, count of ApiPutHandler
  copied,    \* the fields the datastore's memcpy has copied so far
  happened,  \* history: metrics the interfaces queued, and metrics written
  reported,  \* history: per counter, the sum of what was reported of it
  flagged,   \* history: the last second m_Updated was set for
  flags,     \* history: times m_Updated was set, or held TRUE by chance
  takes,     \* history: times the datastore took figures
  due        \* history: the second the datastore saw the flag of

figureVars == <<figure, spc, second, reported>>
flagVars == <<updated, flagged, flags>>
putVars == <<telnet, lines, count, happened>>
takeVars == <<takes, due>>
vars == <<counter, figureVars, flagVars, putVars, where, copied, takeVars>>

None == [f \in {} |-> 0]

\* Nothing initialises m_Updated: it starts as what the memory happens to
\* hold.
Init ==
  /\ counter = [c \in Counters |-> 0]
  /\ figure = [f \in Fields |-> 0]
  /\ updated \in BOOLEAN
  /\ spc = "sleep" /\ second = 0
  /\ telnet = FALSE
  /\ where = [r \in Threads |-> "out"]
  /\ lines = [w \in Workers |-> << >>] /\ count = [w \in Workers |-> 0]
  /\ copied = None
  /\ happened = [c \in Counters |-> 0] /\ reported = [c \in Counters |-> 0]
  /\ flagged = 0 /\ flags = (IF updated THEN 1 ELSE 0)
  /\ takes = 0 /\ due = 0

-----------------------------------------------------------------------------
(* The statistics thread: Statistics::Process when a second has passed.    *)

\* A counter is read and its rate written to m_Stats.
Report(c) ==
  /\ figure' = [figure EXCEPT ![c] = second']
  /\ reported' = [reported EXCEPT ![c] = @ + counter[c]]
  /\ UNCHANGED <<counter, putVars, where, copied, takeVars>>

\* Mutant: m_Updated is set before the figures are there.
FlagThenReport ==
  /\ spc = "sleep" /\ second < MaxSeconds
  /\ second' = second + 1
  /\ spc' = "writes"
  /\ updated' = TRUE /\ flagged' = second' /\ flags' = flags + 1
  /\ Report("puts")

ReportPuts ==
  /\ spc = "sleep" /\ second < MaxSeconds
  /\ second' = second + 1
  /\ spc' = "writes"
  /\ Report("puts")
  /\ UNCHANGED flagVars

ReportWrites ==
  /\ spc = "writes"
  /\ spc' = "backlog" /\ UNCHANGED second
  /\ Report("writes")
  /\ UNCHANGED flagVars

ReportBacklog ==
  /\ spc = "backlog"
  /\ spc' = "reset puts"
  /\ figure' = [figure EXCEPT !["backlog"] = second]
  /\ UNCHANGED <<counter, second, reported, flagVars, putVars, where, copied,
                 takeVars>>

\* Mutant: the put count is not reset.
KeepPuts ==
  /\ spc = "reset puts"
  /\ spc' = "reset writes"
  /\ UNCHANGED <<counter, figure, second, reported, flagVars, putVars, where,
                 copied, takeVars>>

\* What was added since ReportPuts is thrown away.
ResetPuts ==
  /\ spc = "reset puts"
  /\ spc' = "reset writes"
  /\ counter' = [counter EXCEPT !["puts"] = 0]
  /\ UNCHANGED <<figure, second, reported, flagVars, putVars, where, copied,
                 takeVars>>

ResetWrites ==
  /\ spc = "reset writes"
  /\ spc' = "flag"
  /\ counter' = [counter EXCEPT !["writes"] = 0]
  /\ UNCHANGED <<figure, second, reported, flagVars, putVars, where, copied,
                 takeVars>>

SetUpdated ==
  /\ spc = "flag"
  /\ spc' = "sleep"
  /\ updated' = TRUE /\ flagged' = second /\ flags' = flags + 1
  /\ UNCHANGED <<counter, figure, second, reported, putVars, where, copied,
                 takeVars>>

-----------------------------------------------------------------------------
(* The interfaces: QueueMetric, then AddPutCount.                          *)

TelnetQueues ==
  /\ ~ telnet /\ happened["puts"] < MaxPuts
  /\ telnet' = TRUE
  /\ happened' = [happened EXCEPT !["puts"] = @ + 1]
  /\ UNCHANGED <<counter, figureVars, flagVars, lines, count, where, copied,
                 takeVars>>

TelnetCounts ==
  /\ telnet
  /\ telnet' = FALSE
  /\ counter' = [counter EXCEPT !["puts"] = @ + 1]
  /\ UNCHANGED <<figureVars, flagVars, lines, count, happened, where, copied,
                 takeVars>>

\* ApiPutHandler has read the body of a request.
BeginPut(w, b) ==
  /\ where[w] = "out"
  /\ where' = [where EXCEPT ![w] = "put"]
  /\ lines' = [lines EXCEPT ![w] = b]
  /\ count' = [count EXCEPT ![w] = 0]
  /\ UNCHANGED <<counter, figureVars, flagVars, telnet, happened, copied,
                 takeVars>>

\* Mutant: every line is counted at once, and once more at the end.
QueueAndCountLine(w) ==
  /\ where[w] = "put" /\ lines[w] # << >> /\ Head(lines[w])
  /\ happened["puts"] < MaxPuts
  /\ happened' = [happened EXCEPT !["puts"] = @ + 1]
  /\ counter' = [counter EXCEPT !["puts"] = @ + 1]
  /\ count' = [count EXCEPT ![w] = @ + 1]
  /\ lines' = [lines EXCEPT ![w] = Tail(@)]
  /\ UNCHANGED <<figureVars, flagVars, telnet, where, copied, takeVars>>

\* A valid line is queued and acknowledged.
QueueLine(w) ==
  /\ where[w] = "put" /\ lines[w] # << >> /\ Head(lines[w])
  /\ happened["puts"] < MaxPuts
  /\ happened' = [happened EXCEPT !["puts"] = @ + 1]
  /\ count' = [count EXCEPT ![w] = @ + 1]
  /\ lines' = [lines EXCEPT ![w] = Tail(@)]
  /\ UNCHANGED <<counter, figureVars, flagVars, telnet, where, copied,
                 takeVars>>

\* The first invalid line ends the request with an error.
RejectLine(w) ==
  /\ where[w] = "put" /\ lines[w] # << >> /\ ~ Head(lines[w])
  /\ where' = [where EXCEPT ![w] = "out"]
  /\ lines' = [lines EXCEPT ![w] = << >>]
  /\ UNCHANGED <<counter, figureVars, flagVars, telnet, count, happened, copied,
                 takeVars>>

\* The last line is done: AddPutCount(count).
EndPut(w) ==
  /\ where[w] = "put" /\ lines[w] = << >>
  /\ where' = [where EXCEPT ![w] = "out"]
  /\ counter' = [counter EXCEPT !["puts"] = @ + count[w]]
  /\ UNCHANGED <<figureVars, flagVars, putVars, copied, takeVars>>

-----------------------------------------------------------------------------
(* GetStats, and the datastore thread.                                     *)

\* The datastore thread has written a batch.
AddWriteCount(n) ==
  /\ where[Datastore] = "out" /\ happened["writes"] + n <= MaxWrites
  /\ happened' = [happened EXCEPT !["writes"] = @ + n]
  /\ counter' = [counter EXCEPT !["writes"] = @ + n]
  /\ UNCHANGED <<figureVars, flagVars, telnet, lines, count, where, copied,
                 takeVars>>

\* GetStats(stats, true) goes on only where m_Updated is set.
TestUpdated ==
  /\ where[Datastore] = "out" /\ updated
  /\ where' = [where EXCEPT ![Datastore] = "copy"]
  /\ due' = flagged
  /\ UNCHANGED <<counter, figureVars, flagVars, putVars, copied, takes>>

\* memcpy copies one of the three doubles.
CopyField(f) ==
  /\ where[Datastore] = "copy" /\ f \in Fields \ DOMAIN copied
  /\ copied' = [g \in DOMAIN copied \cup {f} |->
                 IF g = f THEN figure[f] ELSE copied[g]]
  /\ UNCHANGED <<counter, figureVars, flagVars, putVars, where, takeVars>>

\* Mutant: m_Updated stays set.
KeepUpdated ==
  /\ where[Datastore] = "copy" /\ DOMAIN copied = Fields
  /\ where' = [where EXCEPT ![Datastore] = "out"]
  /\ copied' = None
  /\ takes' = takes + 1
  /\ UNCHANGED <<counter, figureVars, flagVars, putVars, due>>

\* GetStats clears m_Updated and returns the figures.
TakeFigures ==
  /\ where[Datastore] = "copy" /\ DOMAIN copied = Fields
  /\ updated' = FALSE
  /\ where' = [where EXCEPT ![Datastore] = "out"]
  /\ copied' = None
  /\ takes' = takes + 1
  /\ UNCHANGED <<counter, figureVars, flagged, flags, putVars, due>>

\* ApiStatsHandler calls GetStats(stats), which does not look at the flag
\* and copies what there is ...
BeginRead(w) ==
  /\ where[w] = "out"
  /\ where' = [where EXCEPT ![w] = "copy"]
  /\ UNCHANGED <<counter, figureVars, flagVars, putVars, copied, takeVars>>

\* ... but clears it all the same.
EndRead(w) ==
  /\ where[w] = "copy"
  /\ updated' = FALSE
  /\ where' = [where EXCEPT ![w] = "out"]
  /\ UNCHANGED <<counter, figureVars, flagged, flags, putVars, copied,
                 takeVars>>

-----------------------------------------------------------------------------
Process ==
  \/ ReportPuts \/ ReportWrites \/ ReportBacklog
  \/ ResetPuts \/ ResetWrites \/ SetUpdated

Next ==
  \/ Process
  \/ TelnetQueues \/ TelnetCounts
  \/ \E w \in Workers :
       \/ \E b \in Batches : BeginPut(w, b)
       \/ QueueLine(w) \/ RejectLine(w) \/ EndPut(w)
       \/ BeginRead(w) \/ EndRead(w)
  \/ \E n \in 1 .. MaxWrites : AddWriteCount(n)
  \/ TestUpdated \/ TakeFigures
  \/ \E f \in Fields : CopyField(f)

Spec == Init /\ [][Next]_vars
=============================================================================
