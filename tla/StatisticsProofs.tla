-------------------------- MODULE StatisticsProofs --------------------------
(***************************************************************************)
(* The statistics for every number of civetweb threads, batches and        *)
(* seconds: what the order of unlocked accesses guarantees by itself.      *)
(*                                                                         *)
(* IInv is shown to be inductive: first that most steps leave most of it   *)
(* alone, then step by step what each of the three kinds of thread does to *)
(* the rest.  Puts are counted last: the metrics of a batch still under    *)
(* way are the sum over all batches, taken as the size of one set.         *)
(***************************************************************************)
EXTENDS StatisticsProperties, SequenceTheorems, FiniteSetTheorems, TLAPS

LEMMA Start == Init => IInv
<1> SUFFICES ASSUME Init PROVE IInv
  OBVIOUS
<1> USE StatisticsAssumption DEF Init
<1>1. Typed
  <2>1. /\ 0 \in Nat /\ 0 \in 0 .. MaxSeconds /\ flags \in Nat
        /\ DOMAIN copied = {}
    BY DEF None
  <2>2. lines \in [Workers -> Seq(BOOLEAN)]
    OBVIOUS
  <2> QED BY <2>1, <2>2 DEF Typed
<1>2. FigureInv
  BY DEF FigureInv
<1>3. ReportedOnce("writes") /\ OneTakePerFlag /\ FiguresAreDue
  BY DEF ReportedOnce, Unreported, Spent, OneTakePerFlag, FiguresAreDue,
     MayTake, Counters, Threads, None
<1> QED BY <1>1, <1>2, <1>3 DEF IInv

\* The numbers among the variables.
LEMMA Numbers ==
  ASSUME IInv
  PROVE  /\ second \in Nat /\ flagged \in Nat /\ due \in Nat
         /\ flags \in Nat /\ takes \in Nat
         /\ \A f \in Fields : figure[f] \in 0 .. MaxSeconds
         /\ counter \in [Counters -> Nat] /\ happened \in [Counters -> Nat]
<1>1. /\ second \in 0 .. MaxSeconds /\ flagged \in 0 .. MaxSeconds
      /\ due \in 0 .. MaxSeconds /\ flags \in Nat /\ takes \in Nat
      /\ figure \in [Fields -> 0 .. MaxSeconds]
      /\ counter \in [Counters -> Nat] /\ happened \in [Counters -> Nat]
  BY Zenon DEF IInv, Typed
<1> QED BY <1>1

\* Where figures, flag and copy stay, so does what holds of them.
LEMMA FiguresStay ==
  ASSUME IInv, UNCHANGED <<figure, spc, second, flagged, copied, due>>,
         where'[Datastore] = where[Datastore]
  PROVE  FigureInv' /\ FiguresAreDue'
BY DEF IInv, FigureInv, FiguresAreDue

\* m_Updated may be cleared by anyone at any time.
LEMMA FlagStays ==
  ASSUME IInv, UNCHANGED <<flags, takes>>, updated' = updated \/ ~ updated',
         where'[Datastore] = where[Datastore]
  PROVE  OneTakePerFlag'
<1>1. MayTake' = 1 => MayTake = 1
  BY DEF MayTake
<1>2. MayTake \in {0, 1} /\ MayTake' \in {0, 1}
  BY DEF MayTake
<1>3. takes + MayTake <= flags /\ takes' = takes /\ flags' = flags
  BY DEF IInv, OneTakePerFlag
<1> QED BY <1>1, <1>2, <1>3, Numbers DEF OneTakePerFlag

\* A step that leaves the write counter alone.
LEMMA WritesStay ==
  ASSUME IInv, spc' = spc, counter'["writes"] = counter["writes"],
         reported' = reported, happened'["writes"] = happened["writes"]
  PROVE  ReportedOnce("writes")'
BY DEF IInv, ReportedOnce, Unreported

\* The interfaces do not touch what the datastore thread is at.
LEMMA OthersStay ==
  ASSUME IInv, NEW w \in Workers, NEW x, where' = [where EXCEPT ![w] = x]
  PROVE  where'[Datastore] = where[Datastore]
BY StatisticsAssumption DEF IInv, Typed, Threads

-----------------------------------------------------------------------------
\* The statistics thread.
LEMMA ProcessKeeps ==
  ASSUME IInv, Process
  PROVE  IInv'
<1> USE StatisticsAssumption DEF IInv, Typed, Fields, Counters, Threads,
    figureVars, flagVars, putVars, takeVars
<1>1. CASE ReportPuts
  <2>1. Typed'
    BY <1>1 DEF ReportPuts, Report
  <2>2. FigureInv'
    BY <1>1 DEF ReportPuts, Report, FigureInv
  <2>3. FiguresAreDue'
    BY <1>1 DEF ReportPuts, Report, FiguresAreDue
  <2>4. ReportedOnce("writes")'
    BY <1>1 DEF ReportPuts, Report, ReportedOnce, Unreported, Spent
  <2>5. OneTakePerFlag'
    BY <1>1, FlagStays DEF ReportPuts, Report
  <2> QED BY <2>1, <2>2, <2>3, <2>4, <2>5
<1>2. CASE ReportWrites
  <2>1. Typed'
    BY <1>2 DEF ReportWrites, Report
  <2>2. FigureInv'
    BY <1>2 DEF ReportWrites, Report, FigureInv
  <2>3. FiguresAreDue'
    BY <1>2 DEF ReportWrites, Report, FiguresAreDue
  <2>4. ReportedOnce("writes")'
    BY <1>2 DEF ReportWrites, Report, ReportedOnce, Unreported, Spent
  <2>5. OneTakePerFlag'
    BY <1>2, FlagStays DEF ReportWrites, Report
  <2> QED BY <2>1, <2>2, <2>3, <2>4, <2>5
<1>3. CASE ReportBacklog
  <2>1. Typed'
    BY <1>3 DEF ReportBacklog
  <2>2. FigureInv'
    <3>1. /\ figure'["puts"] = second /\ figure'["writes"] = second
          /\ figure'["backlog"] = second
      BY <1>3 DEF ReportBacklog, FigureInv
    <3>2. /\ second' = second /\ spc' = "reset puts" /\ flagged' = flagged
          /\ UNCHANGED <<due, where, copied>>
      BY <1>3 DEF ReportBacklog
    <3>3. \A f \in Fields : figure'[f] = second
      BY <3>1
    <3> QED BY <3>2, <3>3 DEF FigureInv
  <2>3. FiguresAreDue'
    BY <1>3 DEF ReportBacklog, FiguresAreDue
  <2>4. ReportedOnce("writes")'
    BY <1>3 DEF ReportBacklog, ReportedOnce, Unreported, Spent
  <2>5. OneTakePerFlag'
    BY <1>3, FlagStays DEF ReportBacklog
  <2> QED BY <2>1, <2>2, <2>3, <2>4, <2>5
<1>4. CASE ResetPuts
  BY <1>4 DEF ResetPuts, FigureInv, FiguresAreDue, ReportedOnce, Unreported,
     Spent, OneTakePerFlag, MayTake
<1>5. CASE ResetWrites
  BY <1>5 DEF ResetWrites, FigureInv, FiguresAreDue, ReportedOnce, Unreported,
     Spent, OneTakePerFlag, MayTake
<1>6. CASE SetUpdated
  <2>1. Typed' /\ FigureInv' /\ FiguresAreDue'
    BY <1>6 DEF SetUpdated, FigureInv, FiguresAreDue
  <2>2. ReportedOnce("writes")'
    BY <1>6 DEF SetUpdated, ReportedOnce, Unreported, Spent
  <2>3. OneTakePerFlag'
    BY <1>6 DEF SetUpdated, OneTakePerFlag, MayTake
  <2> QED BY <2>1, <2>2, <2>3
<1> QED BY <1>1, <1>2, <1>3, <1>4, <1>5, <1>6 DEF Process

\* What is left to show of a step of the interfaces.
LEMMA Elsewhere ==
  ASSUME IInv, Typed', ReportedOnce("writes")',
         UNCHANGED <<figure, spc, second, flagged, copied, due, flags, takes>>,
         updated' = updated \/ ~ updated',
         where'[Datastore] = where[Datastore]
  PROVE  IInv'
BY FiguresStay, FlagStays DEF IInv

\* The interfaces.
LEMMA InterfacesKeep ==
  ASSUME IInv,
         \/ TelnetQueues \/ TelnetCounts
         \/ \E w \in Workers :
              \/ \E b \in Batches : BeginPut(w, b)
              \/ QueueLine(w) \/ RejectLine(w) \/ EndPut(w)
              \/ BeginRead(w) \/ EndRead(w)
  PROVE  IInv'
<1> USE StatisticsAssumption DEF figureVars, flagVars, putVars, takeVars
<1>1. /\ counter \in [Counters -> Nat] /\ happened \in [Counters -> Nat]
      /\ where \in [Threads -> {"out", "put", "copy"}]
      /\ lines \in [Workers -> Seq(BOOLEAN)] /\ count \in [Workers -> Nat]
  BY DEF IInv, Typed
<1>2. CASE TelnetQueues
  <2>1. happened' \in [Counters -> Nat] /\ happened'["writes"] = happened["writes"]
    BY <1>1, <1>2 DEF TelnetQueues, Counters
  <2>2. Typed'
    BY <1>2, <2>1 DEF TelnetQueues, IInv, Typed
  <2>3. ReportedOnce("writes")'
    BY <1>2, <2>1, WritesStay DEF TelnetQueues
  <2> QED BY <1>2, <2>2, <2>3, Elsewhere DEF TelnetQueues
<1>3. CASE TelnetCounts
  <2>1. counter' \in [Counters -> Nat] /\ counter'["writes"] = counter["writes"]
    BY <1>1, <1>3 DEF TelnetCounts, Counters
  <2>2. Typed'
    BY <1>3, <2>1 DEF TelnetCounts, IInv, Typed
  <2>3. ReportedOnce("writes")'
    BY <1>3, <2>1, WritesStay DEF TelnetCounts
  <2> QED BY <1>3, <2>2, <2>3, Elsewhere DEF TelnetCounts
<1>4. ASSUME NEW w \in Workers, NEW b \in Batches, BeginPut(w, b)
      PROVE  IInv'
  <2>1. Typed'
    BY <1>4 DEF BeginPut, IInv, Typed, Threads
  <2>2. ReportedOnce("writes")'
    BY <1>4, WritesStay DEF BeginPut
  <2>3. where'[Datastore] = where[Datastore]
    BY <1>4, OthersStay DEF BeginPut
  <2> QED BY <1>4, <2>1, <2>2, <2>3, Elsewhere DEF BeginPut
<1>5. ASSUME NEW w \in Workers, QueueLine(w) PROVE IInv'
  <2>1. happened' \in [Counters -> Nat] /\ happened'["writes"] = happened["writes"]
    <3>1. happened' = [happened EXCEPT !["puts"] = @ + 1]
      BY <1>5 DEF QueueLine
    <3> QED BY <1>1, <3>1 DEF Counters
  <2>2. lines' \in [Workers -> Seq(BOOLEAN)]
    <3>1. lines[w] \in Seq(BOOLEAN) /\ lines[w] # << >>
      BY <1>1, <1>5 DEF QueueLine
    <3>2. Tail(lines[w]) \in Seq(BOOLEAN)
      BY <3>1, HeadTailProperties
    <3> QED BY <1>1, <1>5, <3>2 DEF QueueLine
  <2>3. count' \in [Workers -> Nat]
    <3>1. count' = [count EXCEPT ![w] = @ + 1]
      BY <1>5 DEF QueueLine
    <3> QED BY <1>1, <3>1
  <2>4. Typed'
    BY <1>5, <2>1, <2>2, <2>3 DEF QueueLine, IInv, Typed
  <2>5. ReportedOnce("writes")'
    BY <1>5, <2>1, WritesStay DEF QueueLine
  <2> QED BY <1>5, <2>4, <2>5, Elsewhere DEF QueueLine
<1>6. ASSUME NEW w \in Workers, RejectLine(w) PROVE IInv'
  <2>1. where' \in [Threads -> {"out", "put", "copy"}]
        /\ lines' \in [Workers -> Seq(BOOLEAN)]
    <3>1. /\ where' = [where EXCEPT ![w] = "out"]
          /\ lines' = [lines EXCEPT ![w] = << >>]
      BY <1>6 DEF RejectLine
    <3>2. << >> \in Seq(BOOLEAN)
      OBVIOUS
    <3> QED BY <1>1, <3>1, <3>2
  <2>2. Typed'
    BY <1>6, <2>1 DEF RejectLine, IInv, Typed
  <2>3. ReportedOnce("writes")'
    BY <1>6, WritesStay DEF RejectLine
  <2>4. where'[Datastore] = where[Datastore]
    BY <1>6, OthersStay DEF RejectLine
  <2> QED BY <1>6, <2>2, <2>3, <2>4, Elsewhere DEF RejectLine
<1>7. ASSUME NEW w \in Workers, EndPut(w) PROVE IInv'
  <2>1. counter' \in [Counters -> Nat] /\ counter'["writes"] = counter["writes"]
    BY <1>1, <1>7 DEF EndPut, Counters
  <2>2. where' \in [Threads -> {"out", "put", "copy"}]
    BY <1>1, <1>7 DEF EndPut
  <2>3. Typed'
    BY <1>7, <2>1, <2>2 DEF EndPut, IInv, Typed
  <2>4. ReportedOnce("writes")'
    BY <1>7, <2>1, WritesStay DEF EndPut
  <2>5. where'[Datastore] = where[Datastore]
    BY <1>7, OthersStay DEF EndPut
  <2> QED BY <1>7, <2>3, <2>4, <2>5, Elsewhere DEF EndPut
<1>8. ASSUME NEW w \in Workers, BeginRead(w) PROVE IInv'
  <2>1. Typed'
    BY <1>8 DEF BeginRead, IInv, Typed, Threads
  <2>2. ReportedOnce("writes")'
    BY <1>8, WritesStay DEF BeginRead
  <2>3. where'[Datastore] = where[Datastore]
    BY <1>8, OthersStay DEF BeginRead
  <2> QED BY <1>8, <2>1, <2>2, <2>3, Elsewhere DEF BeginRead
<1>9. ASSUME NEW w \in Workers, EndRead(w) PROVE IInv'
  <2>1. Typed'
    BY <1>9 DEF EndRead, IInv, Typed, Threads
  <2>2. ReportedOnce("writes")'
    BY <1>9, WritesStay DEF EndRead
  <2>3. where'[Datastore] = where[Datastore]
    BY <1>9, OthersStay DEF EndRead
  <2> QED BY <1>9, <2>1, <2>2, <2>3, Elsewhere DEF EndRead
<1> QED BY <1>2, <1>3, <1>4, <1>5, <1>6, <1>7, <1>8, <1>9

\* The datastore thread.
LEMMA DatastoreKeeps ==
  ASSUME IInv,
         \/ \E n \in 1 .. MaxWrites : AddWriteCount(n)
         \/ TestUpdated \/ TakeFigures
         \/ \E f \in Fields : CopyField(f)
  PROVE  IInv'
<1> USE StatisticsAssumption DEF figureVars, flagVars, putVars, takeVars
<1>1. ASSUME NEW n \in 1 .. MaxWrites, AddWriteCount(n) PROVE IInv'
  <2>1. /\ counter' = [counter EXCEPT !["writes"] = @ + n]
        /\ happened' = [happened EXCEPT !["writes"] = @ + n]
        /\ n \in Nat
    BY <1>1 DEF AddWriteCount
  <2>2. Typed'
    <3>1. counter' \in [Counters -> Nat] /\ happened' \in [Counters -> Nat]
      BY <2>1, Numbers DEF Counters
    <3> QED BY <1>1, <3>1 DEF AddWriteCount, IInv, Typed
  <2>3. ReportedOnce("writes")'
    <3>1. /\ counter'["writes"] = counter["writes"] + n
          /\ happened'["writes"] = happened["writes"] + n
      BY <2>1 DEF IInv, Typed, Counters
    <3>2. UNCHANGED <<spc, reported>>
      BY <1>1 DEF AddWriteCount
    <3>3. /\ counter["writes"] \in Nat /\ happened["writes"] \in Nat
          /\ reported["writes"] \in Nat
      BY DEF IInv, Typed, Counters
    <3> QED BY <2>1, <3>1, <3>2, <3>3 DEF IInv, ReportedOnce, Unreported
  <2> QED BY <1>1, <2>2, <2>3, FiguresStay, FlagStays DEF AddWriteCount, IInv
<1>2. CASE TestUpdated
  <2>1. /\ where[Datastore] = "out" /\ where'[Datastore] = "copy"
        /\ due' = flagged /\ updated /\ updated'
    BY <1>2 DEF TestUpdated, IInv, Typed, Threads
  <2>2. Typed'
    BY <1>2 DEF TestUpdated, IInv, Typed, Threads
  <2>3. FigureInv' /\ FiguresAreDue'
    <3>1. DOMAIN copied' = {}
      BY <1>2, <2>1 DEF TestUpdated, IInv, FigureInv, None
    <3>2. UNCHANGED <<figure, spc, second, flagged>>
      BY <1>2 DEF TestUpdated
    <3>3. due' <= flagged
      BY <2>1, Numbers
    <3> QED BY <2>1, <3>1, <3>2, <3>3 DEF IInv, FigureInv, FiguresAreDue
  <2>4. ReportedOnce("writes")'
    BY <1>2, WritesStay DEF TestUpdated
  <2>5. OneTakePerFlag'
    BY <1>2, <2>1 DEF TestUpdated, IInv, Typed, OneTakePerFlag, MayTake
  <2> QED BY <2>2, <2>3, <2>4, <2>5 DEF IInv
<1>3. CASE TakeFigures
  <2>1. /\ where[Datastore] = "copy" /\ where'[Datastore] = "out"
        /\ ~ updated' /\ takes' = takes + 1 /\ copied' = None
        /\ UNCHANGED <<figure, spc, second, flagged, flags, due>>
    BY <1>3 DEF TakeFigures, IInv, Typed, Threads
  <2>2. Typed'
    <3>1. DOMAIN copied' = {}
      BY <2>1 DEF None
    <3>2. where' \in [Threads -> {"out", "put", "copy"}]
      BY <1>3 DEF TakeFigures, IInv, Typed
    <3>3. takes' \in Nat
      BY <2>1, Numbers
    <3>4. updated' \in BOOLEAN
      BY <1>3 DEF TakeFigures
    <3> QED BY <1>3, <3>1, <3>2, <3>3, <3>4 DEF TakeFigures, IInv, Typed
  <2>3. FigureInv' /\ FiguresAreDue'
    BY <2>1 DEF IInv, FigureInv, FiguresAreDue, None
  <2>4. ReportedOnce("writes")'
    BY <1>3, WritesStay DEF TakeFigures
  <2>5. OneTakePerFlag'
    <3>1. MayTake = 1 /\ MayTake' = 0
      BY <2>1 DEF MayTake
    <3>2. takes + MayTake <= flags
      BY DEF IInv, OneTakePerFlag
    <3> QED BY <2>1, <3>1, <3>2, Numbers DEF OneTakePerFlag
  <2> QED BY <2>2, <2>3, <2>4, <2>5 DEF IInv
<1>4. ASSUME NEW f \in Fields, CopyField(f) PROVE IInv'
  <2>1. /\ where[Datastore] = "copy"
        /\ UNCHANGED <<figure, spc, second, flagged, due, where>>
    BY <1>4 DEF CopyField
  <2>2. /\ DOMAIN copied' = DOMAIN copied \cup {f}
        /\ copied'[f] = figure[f]
        /\ \A g \in DOMAIN copied' \ {f} :
             g \in DOMAIN copied /\ copied'[g] = copied[g]
    <3>1. copied' = [g \in DOMAIN copied \cup {f} |->
                       IF g = f THEN figure[f] ELSE copied[g]]
      BY <1>4 DEF CopyField
    <3> QED BY <3>1
  <2>3. due <= figure[f] /\ figure[f] \in 0 .. MaxSeconds
    <3>1. due <= flagged /\ flagged <= figure[f]
      BY DEF IInv, FigureInv
    <3>2. due \in Nat /\ flagged \in Nat /\ figure[f] \in 0 .. MaxSeconds
      BY Numbers
    <3> QED BY <3>1, <3>2
  <2>4. Typed'
    BY <1>4, <2>2, <2>3 DEF CopyField, IInv, Typed
  <2>5. FigureInv' /\ FiguresAreDue'
    BY <2>1, <2>2, <2>3 DEF IInv, FigureInv, FiguresAreDue
  <2>6. ReportedOnce("writes")' /\ OneTakePerFlag'
    BY <1>4, WritesStay, FlagStays DEF CopyField
  <2> QED BY <2>4, <2>5, <2>6 DEF IInv
<1> QED BY <1>1, <1>2, <1>3, <1>4

-----------------------------------------------------------------------------
\* Every reachable state of the statistics satisfies IInv.
THEOREM Invariance == Spec => []IInv
<1>1. IInv /\ [Next]_vars => IInv'
  <2>1. ASSUME IInv, Next PROVE IInv'
    BY <2>1, ProcessKeeps, InterfacesKeep, DatastoreKeeps DEF Next
  <2>2. ASSUME IInv, UNCHANGED vars PROVE IInv'
    BY <2>2 DEF IInv, Typed, FigureInv, ReportedOnce, Unreported,
       OneTakePerFlag, MayTake, FiguresAreDue, vars, figureVars, flagVars, putVars,
       takeVars
  <2> QED BY <2>1, <2>2
<1> QED BY <1>1, Start, PTL DEF Spec

\* GetStats(stats, true) succeeds at most once per second reported.
THEOREM TakenOnce == Spec => []OneTakePerFlag
BY Invariance, PTL DEF IInv

\* What GetStats copies is at least as new as the flag it saw.
THEOREM Due == Spec => []FiguresAreDue
BY Invariance, PTL DEF IInv

-----------------------------------------------------------------------------
(* Puts: what is queued and not yet counted.                               *)

Slots == Workers \X (1 .. MaxPuts)

\* One element for each metric of a batch that is queued but not counted.
Held == {x \in Slots : where[x[1]] = "put" /\ x[2] <= count[x[1]]}

HeldBy(w) == {w} \X (1 .. count[w])

InHand == Cardinality(Held) + IF telnet THEN 1 ELSE 0

\* All that was reported, waits for its report or is not counted yet has
\* happened, and happened once.
PutsInv ==
  /\ happened["puts"] <= MaxPuts
  /\ \A w \in Workers : count[w] <= happened["puts"]
  /\ counter["puts"] + InHand <= happened["puts"]
  /\ reported["puts"] + Unreported("puts") + InHand <= happened["puts"]

WritesInv == counter["writes"] <= happened["writes"] /\ happened["writes"] <= MaxWrites

LEMMA SlotsFinite == IsFiniteSet(Slots)
<1>1. IsFiniteSet(1 .. MaxPuts)
  BY StatisticsAssumption, FS_Interval
<1> QED BY <1>1, WorkersAssumption, FS_Product DEF Slots

LEMMA HeldFinite ==
  /\ IsFiniteSet(Held) /\ Cardinality(Held) \in Nat /\ InHand \in Nat
  /\ IsFiniteSet(Held') /\ Cardinality(Held') \in Nat /\ InHand' \in Nat
<1>1. Held \subseteq Slots /\ Held' \subseteq Slots
  BY DEF Held, Slots
<1>2. IsFiniteSet(Held) /\ IsFiniteSet(Held')
  BY <1>1, SlotsFinite, FS_Subset
<1>3. Cardinality(Held) \in Nat /\ Cardinality(Held') \in Nat
  BY <1>2, FS_CardinalityType
<1> QED BY <1>2, <1>3 DEF InHand

LEMMA PutNumbers ==
  ASSUME IInv
  PROVE  /\ counter["puts"] \in Nat /\ happened["puts"] \in Nat
         /\ reported["puts"] \in Nat /\ Unreported("puts") \in Nat
         /\ counter["writes"] \in Nat /\ happened["writes"] \in Nat
         /\ \A w \in Workers : count[w] \in Nat
<1>1. /\ counter \in [Counters -> Nat] /\ happened \in [Counters -> Nat]
      /\ reported \in [Counters -> Nat] /\ count \in [Workers -> Nat]
  BY DEF IInv, Typed
<1> QED BY <1>1 DEF Counters, Unreported

\* The statistics thread reads and resets what others count.
LEMMA ProcessCountsPuts ==
  ASSUME IInv, PutsInv, Process
  PROVE  PutsInv'
<1> USE DEF figureVars, flagVars, putVars, takeVars
<1>1. UNCHANGED <<happened, count, telnet, where>>
  BY DEF Process, ReportPuts, ReportWrites, ReportBacklog, ResetPuts,
     ResetWrites, SetUpdated, Report
<1>2. InHand' = InHand
  BY <1>1 DEF InHand, Held
<1>3. /\ counter \in [Counters -> Nat] /\ reported \in [Counters -> Nat]
      /\ counter["puts"] \in Nat /\ reported["puts"] \in Nat
  BY DEF IInv, Typed, Counters
<1> DEFINE sum == reported["puts"] + Unreported("puts")
<1>4. sum' = sum /\ (counter'["puts"] = counter["puts"] \/ counter'["puts"] = 0)
  <2>1. Spent("puts") = {"writes", "backlog", "reset puts"}
    BY DEF Spent
  <2>2. /\ Unreported("puts") = IF spc \in Spent("puts") THEN 0 ELSE counter["puts"]
        /\ Unreported("puts")'
             = IF spc' \in Spent("puts") THEN 0 ELSE counter'["puts"]
    BY DEF Unreported, Spent
  <2>3. CASE ReportPuts
    <3>1. /\ spc = "sleep" /\ spc' = "writes" /\ counter' = counter
          /\ reported'["puts"] = reported["puts"] + counter["puts"]
      BY <1>3, <2>3 DEF ReportPuts, Report, Counters
    <3>2. Unreported("puts") = counter["puts"]
      BY <2>1, <2>2, <3>1
    <3>3. Unreported("puts")' = 0
      BY <2>1, <2>2, <3>1
    <3>4. sum' = sum
      BY <1>3, <3>1, <3>2, <3>3
    <3> QED BY <3>1, <3>4
  <2>4. CASE ReportWrites
    <3>1. /\ spc = "writes" /\ spc' = "backlog" /\ counter' = counter
          /\ reported'["puts"] = reported["puts"]
      BY <1>3, <2>4 DEF ReportWrites, Report, Counters
    <3> QED BY <1>3, <2>1, <2>2, <3>1
  <2>5. CASE ReportBacklog
    BY <1>3, <2>1, <2>2, <2>5 DEF ReportBacklog
  <2>6. CASE ResetPuts
    <3>1. /\ spc = "reset puts" /\ spc' = "reset writes" /\ reported' = reported
          /\ counter'["puts"] = 0
      BY <1>3, <2>6 DEF ResetPuts, Counters
    <3> QED BY <1>3, <2>1, <2>2, <3>1
  <2>7. CASE ResetWrites
    <3>1. /\ spc = "reset writes" /\ spc' = "flag" /\ reported' = reported
          /\ counter'["puts"] = counter["puts"]
      BY <1>3, <2>7 DEF ResetWrites, Counters
    <3> QED BY <1>3, <2>1, <2>2, <3>1
  <2>8. CASE SetUpdated
    BY <1>3, <2>1, <2>2, <2>8 DEF SetUpdated
  <2> QED BY <2>3, <2>4, <2>5, <2>6, <2>7, <2>8 DEF Process
<1>5. counter'["puts"] + InHand' <= happened["puts"]
  BY <1>2, <1>4, PutNumbers, HeldFinite DEF PutsInv
<1> QED BY <1>1, <1>2, <1>4, <1>5 DEF PutsInv

\* Of a step that does not put or count anything.
LEMMA PutsStay ==
  ASSUME IInv, PutsInv,
         UNCHANGED <<happened, telnet, reported, spc>>,
         counter'["puts"] = counter["puts"],
         Held' \subseteq Held, \A w \in Workers : count'[w] <= happened["puts"]
  PROVE  PutsInv'
<1>1. Cardinality(Held') <= Cardinality(Held)
  BY HeldFinite, FS_Subset
<1>2. InHand' <= InHand
  BY <1>1, HeldFinite DEF InHand
<1>3. Unreported("puts")' = Unreported("puts")
  BY DEF Unreported
<1> QED BY <1>2, <1>3, PutNumbers, HeldFinite DEF PutsInv

\* A metric is queued by telnet or in a batch.
LEMMA OneMorePut ==
  ASSUME IInv, PutsInv, happened["puts"] < MaxPuts,
         UNCHANGED <<counter, reported, spc>>,
         happened'["puts"] = happened["puts"] + 1, InHand' = InHand + 1,
         \A w \in Workers : count'[w] <= happened["puts"] + 1
  PROVE  PutsInv'
<1>1. Unreported("puts")' = Unreported("puts")
  BY DEF Unreported
<1>2. happened'["puts"] <= MaxPuts
  BY PutNumbers, StatisticsAssumption
<1>3. counter'["puts"] + InHand' <= happened'["puts"]
  BY PutNumbers, HeldFinite DEF PutsInv
<1>4. reported'["puts"] + Unreported("puts")' + InHand' <= happened'["puts"]
  <2>1. reported["puts"] + Unreported("puts") + InHand <= happened["puts"]
    BY DEF PutsInv
  <2> QED BY <1>1, <2>1, PutNumbers, HeldFinite
<1> QED BY <1>2, <1>3, <1>4 DEF PutsInv

\* What was in hand is counted.
LEMMA PutsCounted ==
  ASSUME IInv, PutsInv, NEW n \in Nat,
         UNCHANGED <<happened, reported, spc, count>>,
         counter'["puts"] = counter["puts"] + n, InHand = InHand' + n
  PROVE  PutsInv'
<1>1. /\ spc \in Spent("puts") => Unreported("puts")' = Unreported("puts")
      /\ spc \notin Spent("puts") => Unreported("puts")' = Unreported("puts") + n
  BY DEF Unreported
<1>2. Unreported("puts")' <= Unreported("puts") + n /\ Unreported("puts")' \in Nat
  BY <1>1, PutNumbers
<1> QED BY <1>2, PutNumbers, HeldFinite DEF PutsInv

LEMMA TelnetPuts ==
  ASSUME IInv, PutsInv, TelnetQueues \/ TelnetCounts
  PROVE  PutsInv'
<1> USE DEF figureVars, flagVars, putVars, takeVars
<1>1. happened \in [Counters -> Nat] /\ counter \in [Counters -> Nat]
  BY DEF IInv, Typed
<1>2. Held' = Held
  BY DEF TelnetQueues, TelnetCounts, Held
<1>3. CASE TelnetQueues
  <2>1. InHand' = InHand + 1
    BY <1>2, <1>3, HeldFinite DEF TelnetQueues, InHand
  <2>2. happened'["puts"] = happened["puts"] + 1
    BY <1>1, <1>3 DEF TelnetQueues, Counters
  <2>3. \A w \in Workers : count'[w] <= happened["puts"] + 1
    BY <1>3, PutNumbers DEF TelnetQueues, PutsInv
  <2> QED BY <1>3, <2>1, <2>2, <2>3, OneMorePut DEF TelnetQueues
<1>4. CASE TelnetCounts
  <2>1. InHand = InHand' + 1
    BY <1>2, <1>4, HeldFinite DEF TelnetCounts, InHand
  <2>2. counter'["puts"] = counter["puts"] + 1
    BY <1>1, <1>4 DEF TelnetCounts, Counters
  <2> QED BY <1>4, <2>1, <2>2, PutsCounted DEF TelnetCounts
<1> QED BY <1>3, <1>4

LEMMA BatchPuts ==
  ASSUME IInv, PutsInv, NEW w \in Workers,
         \/ \E b \in Batches : BeginPut(w, b)
         \/ QueueLine(w) \/ RejectLine(w) \/ EndPut(w)
         \/ BeginRead(w) \/ EndRead(w)
  PROVE  PutsInv'
<1> USE DEF figureVars, flagVars, putVars, takeVars
<1>1. /\ happened \in [Counters -> Nat] /\ counter \in [Counters -> Nat]
      /\ where \in [Threads -> {"out", "put", "copy"}]
      /\ count \in [Workers -> Nat] /\ Workers \subseteq Threads
  BY DEF IInv, Typed, Threads
<1>2. \A x \in Slots : x = <<x[1], x[2]>> /\ x[1] \in Workers /\ x[2] \in 1 .. MaxPuts
  BY DEF Slots
<1>3. \A v \in Workers : count[v] \in Nat /\ count[v] <= MaxPuts
  BY PutNumbers, StatisticsAssumption DEF PutsInv
<1>4. ASSUME NEW b \in Batches, BeginPut(w, b) PROVE PutsInv'
  <2>1. /\ where' = [where EXCEPT ![w] = "put"] /\ count' = [count EXCEPT ![w] = 0]
        /\ UNCHANGED <<happened, telnet, reported, spc, counter>>
    BY <1>4 DEF BeginPut
  <2>2. Held' \subseteq Held
    BY <1>1, <1>2, <2>1 DEF Held
  <2>3. \A v \in Workers : count'[v] <= happened["puts"]
    BY <1>1, <2>1, PutNumbers DEF PutsInv
  <2> QED BY <2>1, <2>2, <2>3, PutsStay
<1>5. CASE QueueLine(w)
  <2>1. /\ count' = [count EXCEPT ![w] = @ + 1] /\ where[w] = "put"
        /\ happened["puts"] < MaxPuts
        /\ happened' = [happened EXCEPT !["puts"] = @ + 1]
        /\ UNCHANGED <<where, telnet, reported, spc, counter>>
    BY <1>5 DEF QueueLine
  <2>2. PICK k : k = count[w] + 1
    OBVIOUS
  <2>3. PICK new : new = <<w, k>>
    OBVIOUS
  <2>4. k \in 1 .. MaxPuts /\ new \in Slots /\ new \notin Held
    <3>1. k \in 1 .. MaxPuts
      BY <1>3, <2>1, <2>2, PutNumbers, StatisticsAssumption DEF PutsInv
    <3>2. ~ (k <= count[w])
      BY <1>3, <2>2
    <3> QED BY <2>3, <3>1, <3>2 DEF Slots, Held
  <2>5. Held' = Held \cup {new}
    <3>1. ASSUME NEW x \in Slots
          PROVE  where'[x[1]] = "put" /\ x[2] <= count'[x[1]]
                   <=> (where[x[1]] = "put" /\ x[2] <= count[x[1]]) \/ x = new
      <4>1. CASE x[1] = w
        <5>1. count'[x[1]] = k /\ count[x[1]] + 1 = k
          BY <1>1, <2>1, <2>2, <4>1
        <5>2. x = new <=> x[2] = k
          BY <1>2, <2>3, <4>1
        <5>3. x[2] \in Nat /\ k \in Nat
          BY <1>2, <2>4
        <5> QED BY <1>3, <2>1, <4>1, <5>1, <5>2, <5>3
      <4>2. CASE x[1] # w
        BY <1>1, <1>2, <2>1, <2>3, <4>2
      <4> QED BY <4>1, <4>2
    <3> QED BY <2>4, <3>1 DEF Held
  <2>6. InHand' = InHand + 1
    <3>1. Cardinality(Held') = Cardinality(Held) + 1
      BY <2>4, <2>5, HeldFinite, FS_AddElement
    <3> QED BY <2>1, <3>1, HeldFinite DEF InHand
  <2>7. happened'["puts"] = happened["puts"] + 1
    BY <1>1, <2>1 DEF Counters
  <2>8. \A v \in Workers : count'[v] <= happened["puts"] + 1
    BY <1>1, <2>1, PutNumbers DEF PutsInv
  <2> QED BY <2>1, <2>6, <2>7, <2>8, OneMorePut
<1>6. CASE RejectLine(w) \/ BeginRead(w) \/ EndRead(w)
  <2>1. PICK y \in {"out", "copy"} : where' = [where EXCEPT ![w] = y]
    BY <1>6 DEF RejectLine, BeginRead, EndRead
  <2>2. UNCHANGED <<happened, telnet, reported, spc, counter, count>>
    BY <1>6 DEF RejectLine, BeginRead, EndRead
  <2>3. Held' \subseteq Held
    BY <1>1, <1>2, <2>1, <2>2 DEF Held
  <2> QED BY <2>2, <2>3, PutsStay DEF PutsInv
<1>7. CASE EndPut(w)
  <2>1. /\ where[w] = "put" /\ where' = [where EXCEPT ![w] = "out"]
        /\ counter' = [counter EXCEPT !["puts"] = @ + count[w]]
        /\ UNCHANGED <<happened, telnet, reported, spc, count>>
    BY <1>7 DEF EndPut
  <2>2. HeldBy(w) \subseteq Held
    <3>1. \A i \in 1 .. count[w] : i \in 1 .. MaxPuts
      BY <1>3, StatisticsAssumption
    <3> QED BY <2>1, <3>1 DEF HeldBy, Held, Slots
  <2>3. Held' = Held \ HeldBy(w)
    <3>1. ASSUME NEW x \in Slots
          PROVE  where'[x[1]] = "put" /\ x[2] <= count'[x[1]]
                   <=> (where[x[1]] = "put" /\ x[2] <= count[x[1]]) /\ x \notin HeldBy(w)
      <4>1. CASE x[1] = w
        <5>1. x \in HeldBy(w) <=> x[2] \in 1 .. count[w]
          BY <1>2, <4>1 DEF HeldBy
        <5>2. x[2] \in Nat /\ x[2] >= 1
          BY <1>2
        <5> QED BY <1>1, <1>3, <2>1, <4>1, <5>1, <5>2
      <4>2. CASE x[1] # w
        <5>1. x \notin HeldBy(w)
          BY <4>2 DEF HeldBy
        <5> QED BY <1>1, <1>2, <2>1, <4>2, <5>1
      <4> QED BY <4>1, <4>2
    <3> QED BY <3>1 DEF Held
  <2>4. Cardinality(HeldBy(w)) = count[w]
    <3>1. IsFiniteSet(1 .. count[w]) /\ Cardinality(1 .. count[w]) = count[w]
      BY <1>3, FS_Interval
    <3>2. IsFiniteSet({w}) /\ Cardinality({w}) = 1
      BY FS_Singleton
    <3>3. Cardinality(HeldBy(w)) = 1 * count[w]
      BY ZenonT(40), <3>1, <3>2, FS_Product DEF HeldBy
    <3> QED BY <1>3, <3>3
  <2>5. Cardinality(Held') = Cardinality(Held) - count[w]
    <3>1. Held \cap HeldBy(w) = HeldBy(w)
      BY <2>2
    <3>2. Cardinality(Held \ HeldBy(w))
            = Cardinality(Held) - Cardinality(Held \cap HeldBy(w))
      BY HeldFinite, FS_Difference
    <3> QED BY <2>3, <2>4, <3>1, <3>2
  <2>6. InHand = InHand' + count[w]
    BY <1>3, <2>1, <2>5, HeldFinite DEF InHand
  <2>7. counter'["puts"] = counter["puts"] + count[w]
    BY <1>1, <2>1 DEF Counters
  <2> QED BY <1>3, <2>1, <2>6, <2>7, PutsCounted
<1> QED BY <1>4, <1>5, <1>6, <1>7

\* The datastore thread counts no puts.
LEMMA DatastorePuts ==
  ASSUME IInv, PutsInv,
         \/ \E n \in 1 .. MaxWrites : AddWriteCount(n)
         \/ TestUpdated \/ TakeFigures
         \/ \E f \in Fields : CopyField(f)
  PROVE  PutsInv'
<1> USE DEF figureVars, flagVars, putVars, takeVars
<1>1. UNCHANGED <<telnet, count, reported, spc>>
  BY DEF AddWriteCount, TestUpdated, TakeFigures, CopyField
<1>2. counter'["puts"] = counter["puts"] /\ happened'["puts"] = happened["puts"]
  <2>1. counter \in [Counters -> Nat] /\ happened \in [Counters -> Nat]
    BY DEF IInv, Typed
  <2> QED BY <2>1 DEF AddWriteCount, TestUpdated, TakeFigures, CopyField, Counters
<1>3. \A w \in Workers : where'[w] = where[w]
  BY StatisticsAssumption DEF AddWriteCount, TestUpdated, TakeFigures, CopyField,
     IInv, Typed, Threads
<1>4. Held' = Held
  BY <1>1, <1>3 DEF Held, Slots
<1>5. InHand' = InHand /\ Unreported("puts")' = Unreported("puts")
  BY <1>1, <1>2, <1>4 DEF InHand, Unreported
<1> QED BY <1>1, <1>2, <1>5 DEF PutsInv

LEMMA WritesBounded ==
  ASSUME IInv, WritesInv, Next
  PROVE  WritesInv'
<1> USE DEF figureVars, flagVars, putVars, takeVars
<1>1. counter \in [Counters -> Nat] /\ happened \in [Counters -> Nat]
  BY DEF IInv, Typed
<1>2. ASSUME NEW n \in 1 .. MaxWrites, AddWriteCount(n) PROVE WritesInv'
  <2>1. /\ counter'["writes"] = counter["writes"] + n
        /\ happened'["writes"] = happened["writes"] + n
        /\ happened["writes"] + n <= MaxWrites
    BY <1>1, <1>2 DEF AddWriteCount, Counters
  <2> QED BY <2>1, PutNumbers DEF WritesInv
<1>3. ASSUME ~ \E n \in 1 .. MaxWrites : AddWriteCount(n) PROVE WritesInv'
  <2>1. /\ happened'["writes"] = happened["writes"]
        /\ counter'["writes"] = counter["writes"] \/ counter'["writes"] = 0
    BY <1>1, <1>3 DEF Next, Process, ReportPuts, ReportWrites, ReportBacklog,
       ResetPuts, ResetWrites, SetUpdated, Report, TelnetQueues, TelnetCounts,
       BeginPut, QueueLine, RejectLine, EndPut, BeginRead, EndRead, TestUpdated,
       TakeFigures, CopyField, Counters
  <2> QED BY <2>1, PutNumbers DEF WritesInv
<1> QED BY <1>2, <1>3

\* Nothing is counted twice: the invariant of both counters.
THEOREM Counts == Spec => [](IInv /\ PutsInv /\ WritesInv)
<1>1. Init => PutsInv /\ WritesInv
  <2> SUFFICES ASSUME Init PROVE PutsInv /\ WritesInv
    OBVIOUS
  <2>1. Held = {}
    <3>1. \A w \in Workers : where[w] = "out"
      BY DEF Init, Threads
    <3> QED BY <3>1 DEF Held, Slots
  <2>2. InHand = 0
    BY <2>1, FS_EmptySet DEF Init, InHand
  <2> QED BY <2>2, StatisticsAssumption
      DEF Init, PutsInv, WritesInv, Unreported, Counters
<1>2. IInv /\ PutsInv /\ WritesInv /\ [Next]_vars => PutsInv' /\ WritesInv'
  <2>1. ASSUME IInv, PutsInv, WritesInv, Next PROVE PutsInv'
    BY <2>1, ProcessCountsPuts, TelnetPuts, BatchPuts, DatastorePuts DEF Next
  <2>2. ASSUME IInv, PutsInv, WritesInv, Next PROVE WritesInv'
    BY <2>2, WritesBounded
  <2>3. ASSUME PutsInv, WritesInv, UNCHANGED vars PROVE PutsInv' /\ WritesInv'
    BY <2>3 DEF vars, figureVars, putVars, PutsInv, WritesInv, InHand, Held, Unreported
  <2> QED BY <2>1, <2>2, <2>3
<1> QED BY <1>1, <1>2, Invariance, PTL DEF Spec

\* No counter outgrows what has happened, and every variable keeps its type.
THEOREM TypeCorrect == Spec => []TypeOK
<1>1. IInv /\ PutsInv /\ WritesInv => TypeOK
  <2> SUFFICES ASSUME IInv, PutsInv, WritesInv PROVE TypeOK
    OBVIOUS
  <2>1. counter["puts"] <= MaxPuts
    BY PutNumbers, HeldFinite, StatisticsAssumption DEF PutsInv
  <2>2. counter["writes"] <= MaxWrites
    BY PutNumbers, StatisticsAssumption DEF WritesInv
  <2> QED BY <2>1, <2>2 DEF TypeOK, IInv
<1> QED BY <1>1, Counts, PTL

\* A put or a write that happened once is reported at most once, for any
\* number of threads that count while the statistics thread reads and resets.
THEOREM ReportedAtMostOnce == Spec => []NothingReportedTwice
<1>1. IInv /\ PutsInv => NothingReportedTwice
  <2> SUFFICES ASSUME IInv, PutsInv PROVE NothingReportedTwice
    OBVIOUS
  <2>1. ReportedOnce("puts")
    BY PutNumbers, HeldFinite DEF PutsInv, ReportedOnce
  <2>2. ReportedOnce("writes")
    BY DEF IInv
  <2> QED BY <2>1, <2>2 DEF NothingReportedTwice, Counters
<1> QED BY <1>1, Counts, PTL
=============================================================================
