--------------------------- MODULE DatastoreProofs ---------------------------
(***************************************************************************)
(* The safety of the datastore for every number of threads and names, every *)
(* batch size and counter width, and every set of calls that may fail.     *)
(*                                                                         *)
(* IInv is shown to be inductive, one lemma per action or group of actions *)
(* that change the same variables; the properties follow from it.          *)
(***************************************************************************)
EXTENDS DatastoreProperties, SequenceTheorems, FiniteSetTheorems, TLAPS

\* The batch and what is left of it are points.
LEMMA BatchPoints ==
  ASSUME TypeOK
  PROVE  /\ \A j \in 1 .. Len(batch) : batch[j] \in Points
         /\ InBatch \subseteq Points
         /\ Queued \subseteq Points
         /\ Settled \subseteq Points \cup failed \cup lost
BY DEF TypeOK, InBatch, Queued, InQueue, Settled, Stored

\* A point taken out has a name, and adding to the queue does not change it.
LEMMA NamesKept ==
  ASSUME TypeOK, NEW t \in Threads, NEW n \in Names,
         log' = [log EXCEPT ![t] = Append(@, n)]
  PROVE  /\ log' \in [Threads -> Seq(Names)]
         /\ \A u \in Threads : Len(log'[u]) = Len(log[u]) + (IF u = t THEN 1 ELSE 0)
         /\ \A pt \in Accepted : pt \in Accepted' /\ NameOf(pt)' = NameOf(pt)
<1>1. Append(log[t], n) \in Seq(Names) /\ Len(Append(log[t], n)) = Len(log[t]) + 1
      /\ \A i \in 1 .. Len(log[t]) : Append(log[t], n)[i] = log[t][i]
  BY AppendProperties DEF TypeOK
<1>2. /\ log' \in [Threads -> Seq(Names)]
      /\ \A u \in Threads : Len(log'[u]) = Len(log[u]) + (IF u = t THEN 1 ELSE 0)
  BY <1>1 DEF TypeOK
<1>3. ASSUME NEW pt \in Accepted PROVE pt \in Accepted' /\ NameOf(pt)' = NameOf(pt)
  <2>1. pt \in Points /\ pt[1] \in Threads /\ pt[2] \in 1 .. Len(log[pt[1]])
    BY DEF Accepted, Points, TypeOK
  <2>2. pt[2] <= Len(log'[pt[1]])
    BY <1>2, <2>1 DEF TypeOK
  <2>3. log'[pt[1]][pt[2]] = log[pt[1]][pt[2]]
    BY <1>1, <2>1 DEF TypeOK
  <2> QED BY <2>1, <2>2, <2>3 DEF Accepted, NameOf
<1> QED BY <1>2, <1>3

\* The metric the for loop is at was accepted, has a name and is not
\* settled.
LEMMA CurrentIsTaken ==
  ASSUME IInv, pos <= Len(batch)
  PROVE  /\ Current \in Points /\ Current \in Accepted
         /\ NameOf(Current) \in Names
         /\ Current \in InBatch /\ Current \notin Settled
<1>1. pos \in 1 .. Len(batch)
  BY DEF IInv, TypeOK
<1>2. Current \in Points /\ Current[1] \in Threads /\ Current[2] \in 1 .. MaxPuts
  BY <1>1, BatchPoints DEF IInv, Current, Points
<1>3. Current[2] <= Len(log[Current[1]])
  BY <1>1, <1>2 DEF IInv, BatchInv, Current, TypeOK
<1>4. NameOf(Current) \in Names
  BY <1>2, <1>3, ElementOfSeq DEF IInv, NameOf, TypeOK
<1>5. Current \in InBatch
  BY <1>1 DEF InBatch, Current
<1>6. Current \notin Settled
  BY <1>5 DEF IInv, PlaceInv
<1> QED BY <1>2, <1>3, <1>4, <1>5, <1>6 DEF Accepted

\* Settling the metric the for loop is at, as a row or as a failure, keeps
\* every metric in one place and the order of its thread.
LEMMA SettleCurrent ==
  ASSUME IInv, pos <= Len(batch), pos' = pos + 1,
         UNCHANGED <<head, batch, lost>>,
         \/ rows' = [rows EXCEPT ![Current] = @ + 1] /\ failed' = failed
         \/ rows' = rows /\ failed' = failed \cup {Current}
  PROVE  PlaceInv' /\ NoOvertaking'
<1> DEFINE c == Current
<1>1. /\ c \in Points /\ c \in InBatch /\ c \notin Settled
      /\ pos \in 1 .. Len(batch) /\ batch \in Seq(Points)
  BY CurrentIsTaken DEF IInv, TypeOK
<1>2. \A j \in pos + 1 .. Len(batch) :
        batch[j] # c /\ (batch[j][1] = c[1] => c[2] < batch[j][2])
  <2>1. \A j \in pos + 1 .. Len(batch) :
         /\ batch[j] \in Points
         /\ (batch[j][1] = c[1] => c[2] < batch[j][2])
    BY <1>1 DEF IInv, BatchInv, Current
  <2> QED BY <2>1, <1>1 DEF Points
<1>3. InBatch' = InBatch \ {c}
  BY <1>1, <1>2 DEF InBatch, Current
<1>4. /\ Settled' = Settled \cup {c}
      /\ \/ Stored' = Stored \cup {c} /\ failed' = failed
         \/ Stored' = Stored /\ failed' = failed \cup {c}
  BY <1>1 DEF IInv, TypeOK, Settled, Stored, Current
<1>5. \A pt \in Points : rows'[pt] <= 1
  <2>1. rows[c] = 0
    BY <1>1 DEF Settled, Stored, IInv, TypeOK
  <2>2. ASSUME NEW pt \in Points PROVE rows'[pt] <= 1
    <3>1. rows \in [Points -> Nat] /\ rows[pt] <= 1
      BY DEF IInv, PlaceInv, TypeOK
    <3> QED BY <3>1, <2>1, <1>1
  <2> QED BY <2>2
<1>6. PlaceInv'
  BY <1>1, <1>3, <1>4, <1>5 DEF IInv, PlaceInv, Settled
<1>7. ASSUME NEW t \in Threads, NEW j \in 1 .. MaxPuts, NEW k \in 1 .. MaxPuts,
             j < k, <<t, k>> \in Settled'
      PROVE  <<t, j>> \in Settled'
  <2>1. CASE <<t, k>> \in Settled
    BY <2>1, <1>4, <1>7 DEF IInv, NoOvertaking
  <2>2. CASE <<t, k>> = c
    <3>1. <<t, j>> \in InBatch \cup Settled
      <4>1. k <= head[t]
        BY <2>2, <1>1 DEF IInv, PlaceInv
      <4>2. <<t, j>> \in Points
        BY DEF Points
      <4>3. j <= head[t]
        BY <4>1, <1>7, DatastoreAssumption DEF IInv, TypeOK
      <4> QED BY <4>2, <4>3 DEF IInv, PlaceInv
    <3>2. <<t, j>> \notin InBatch
      <4>1. SUFFICES ASSUME NEW i \in pos .. Len(batch), batch[i] = <<t, j>> PROVE FALSE
        BY DEF InBatch
      <4>2. i # pos
        BY <4>1, <2>2, <1>7 DEF Current
      <4> QED BY <4>1, <4>2, <1>1, <1>2, <2>2, <1>7
    <3> QED BY <3>1, <3>2, <1>4
  <2> QED BY <2>1, <2>2, <1>4, <1>7
<1> QED BY <1>6, <1>7 DEF NoOvertaking

\* The parts of the invariant a step leaves alone with the variables it
\* reads.
LEMMA Frames ==
  ASSUME IInv
  PROVE  /\ UNCHANGED <<log, head, batch>> => BatchInv'
         /\ UNCHANGED <<head, batch, pos, rows, failed, lost>> =>
              PlaceInv' /\ NoOvertaking'
         /\ UNCHANGED <<log, failed, faulted>> => FailureIsolated'
<1>1. UNCHANGED <<log, head, batch>> => BatchInv'
  BY DEF IInv, BatchInv
<1>2. ASSUME UNCHANGED <<head, batch, pos, rows, failed, lost>>
      PROVE  PlaceInv' /\ NoOvertaking'
  <2>1. InBatch' = InBatch /\ Settled' = Settled /\ Stored' = Stored
    BY <1>2 DEF InBatch, Settled, Stored
  <2> QED BY <1>2, <2>1 DEF IInv, PlaceInv, NoOvertaking
<1>3. UNCHANGED <<log, failed, faulted>> => FailureIsolated'
  BY DEF IInv, FailureIsolated, NameOf
<1> QED BY <1>1, <1>2, <1>3

\* A process that ends loses exactly what was waiting.
LEMMA StepLoseMemory ==
  ASSUME IInv, LoseMemory
  PROVE  /\ head' \in [Threads -> 0 .. MaxPuts]
         /\ lost' \subseteq Points
         /\ InQueue' = {}
         /\ BatchInv' /\ PlaceInv' /\ NoOvertaking'
<1>1. \A t \in Threads : Len(log[t]) \in 0 .. MaxPuts /\ head[t] <= Len(log[t])
  BY DEF IInv, TypeOK, BatchInv
<1>2. head' \in [Threads -> 0 .. MaxPuts] /\ lost' \subseteq Points
  BY <1>1, BatchPoints DEF IInv, LoseMemory, TypeOK
<1>3. BatchInv' /\ InQueue' = {}
  BY <1>1 DEF LoseMemory, BatchInv, InQueue, Points
<1>4. InBatch' = {} /\ Stored' = Stored /\ Settled' = Settled \cup Queued
  BY DEF LoseMemory, InBatch, Stored, Settled, diskVars
<1>5. ASSUME NEW pt \in Points
      PROVE  pt[2] <= head'[pt[1]] <=> pt \in Settled \cup Queued
  <2>1. pt[1] \in Threads /\ pt[2] \in 1 .. MaxPuts
    BY DEF Points
  <2>2. head'[pt[1]] = Len(log[pt[1]]) /\ log[pt[1]] \in Seq(Names)
    BY <2>1 DEF LoseMemory, IInv, TypeOK
  <2>3. head[pt[1]] \in Nat /\ Len(log[pt[1]]) \in Nat /\ head[pt[1]] <= Len(log[pt[1]])
    BY <2>1, <1>1 DEF IInv, TypeOK
  <2>4. pt \in InQueue <=> head[pt[1]] < pt[2] /\ pt[2] <= Len(log[pt[1]])
    BY DEF InQueue
  <2>5. pt[2] <= head[pt[1]] <=> pt \in InBatch \cup Settled
    BY DEF IInv, PlaceInv
  <2> QED BY <2>1, <2>2, <2>3, <2>4, <2>5 DEF Queued
<1>6. Queued \cap Settled = {}
  <2>1. ASSUME NEW pt \in InQueue PROVE pt \notin Settled
    <3>1. pt \in Points /\ pt[1] \in Threads /\ pt[2] \in Nat /\ head[pt[1]] < pt[2]
      BY DEF InQueue, Points
    <3>2. head[pt[1]] \in Nat
      BY <3>1 DEF IInv, TypeOK
    <3> QED BY <3>1, <3>2 DEF IInv, PlaceInv
  <2> QED BY <2>1 DEF Queued, IInv, PlaceInv
<1>7. PlaceInv'
  <2>1. Queued \cap Stored = {} /\ Queued \cap failed = {}
    BY <1>6 DEF Settled
  <2> QED BY <1>4, <1>5, <2>1 DEF PlaceInv, IInv, LoseMemory, diskVars
<1>8. ASSUME NEW t \in Threads, NEW j \in 1 .. MaxPuts, NEW k \in 1 .. MaxPuts,
             j < k, <<t, k>> \in Settled'
      PROVE  <<t, j>> \in Settled'
  <2>1. <<t, j>> \in Points /\ <<t, k>> \in Points
    BY DEF Points
  <2>2. k <= head'[t]
    BY <2>1, <1>4, <1>5, <1>8
  <2>3. j <= head'[t]
    BY <2>2, <1>2, <1>8, DatastoreAssumption
  <2> QED BY <2>1, <2>3, <1>4, <1>5
<1> QED BY <1>2, <1>3, <1>7, <1>8 DEF NoOvertaking

\* What a new process starts from is of the right type.
LEMMA MemoryTyped ==
  ASSUME IInv, LoseMemory
  PROVE  /\ log' \in [Threads -> Seq(Names)]
         /\ \A t \in Threads : Len(log'[t]) <= MaxPuts
         /\ head' \in [Threads -> 0 .. MaxPuts] /\ adding' \subseteq Producers
         /\ queueSize' \in 0 .. SizeMod - 1 /\ backlog' \in 0 .. SizeMod - 1
         /\ writeCount' \in Nat /\ conns' \subseteq Names
         /\ running' \in BOOLEAN /\ draining' \in BOOLEAN
         /\ unvisited' \subseteq Threads
         /\ batch' \in Seq(Points) /\ Len(batch') <= BulkCount
         /\ pos' \in Nat \ {0}
         /\ schema' \in [Names -> Schemas] /\ rows' \in [Points -> Nat]
         /\ failed' \subseteq Points /\ lost' \subseteq Points
         /\ faulted' \subseteq Names
<1> USE DatastoreAssumption DEF IInv, TypeOK
<1>1. head' \in [Threads -> 0 .. MaxPuts] /\ lost' \subseteq Points
  BY StepLoseMemory
<1>2. /\ log' \in [Threads -> Seq(Names)] /\ \A t \in Threads : Len(log'[t]) <= MaxPuts
      /\ schema' \in [Names -> Schemas] /\ rows' \in [Points -> Nat]
  BY DEF LoseMemory, diskVars
<1>3. /\ queueSize' \in 0 .. SizeMod - 1 /\ backlog' \in 0 .. SizeMod - 1
      /\ writeCount' \in Nat /\ pos' \in Nat \ {0}
      /\ batch' \in Seq(Points) /\ Len(batch') <= BulkCount
  BY DEF LoseMemory
<1> QED BY <1>1, <1>2, <1>3 DEF LoseMemory

\* The service is started.
LEMMA StepBoot == ASSUME IInv, Boot PROVE IInv'
<1> USE DatastoreAssumption DEF IInv, Boot, TypeOK, CreateSteps, LoopInv
<1>1. BatchInv' /\ PlaceInv' /\ NoOvertaking'
  BY StepLoseMemory DEF Boot
<1>2. TypeOK' BY MemoryTyped
<1>3. LoopInv' BY StepLoseMemory DEF LoseMemory, InCreate
<1>4. StopInv' BY DEF StopInv, Up, LoseMemory
<1>5. RoomInv' BY DEF RoomInv, Unsent, RoomForStats, Threads, LoseMemory
<1>8. DrainInv' BY DEF DrainInv, LoseMemory
<1>9. CacheInv'
  BY DEF CacheInv, ConnectionsHaveTables, Tables, NameOf, Stored, LoseMemory,
     diskVars
<1>10. FailureIsolated' BY DEF FailureIsolated, NameOf, LoseMemory
<1> QED BY <1>1, <1>2, <1>3, <1>4, <1>5, <1>8, <1>9, <1>10

\* The process dies.
LEMMA StepCrash == ASSUME IInv, Crash PROVE IInv'
<1> USE DatastoreAssumption DEF IInv, Crash, TypeOK, CreateSteps, LoopInv
<1>1. BatchInv' /\ PlaceInv' /\ NoOvertaking'
  BY StepLoseMemory
<1>2. TypeOK' BY MemoryTyped
<1>3. LoopInv' BY StepLoseMemory DEF LoseMemory, InCreate
<1>4. StopInv' BY DEF StopInv, Up, LoseMemory
<1>5. RoomInv' BY DEF RoomInv, Unsent, RoomForStats, Threads, LoseMemory
<1>8. DrainInv' BY DEF DrainInv, LoseMemory
<1>9. CacheInv'
  BY DEF CacheInv, ConnectionsHaveTables, Tables, NameOf, Stored, LoseMemory,
     diskVars
<1>10. FailureIsolated' BY DEF FailureIsolated, NameOf, LoseMemory
<1> QED BY <1>1, <1>2, <1>3, <1>4, <1>5, <1>8, <1>9, <1>10

\* try_dequeue_bulk takes a run of one thread's metrics: the batch grows by
\* the run, in its order, and stays inside m[BULK_COUNT].
LEMMA StepVisit == ASSUME IInv, NEW t \in Threads, Visit(t) PROVE IInv'
<1> DEFINE h == head[t]
           b == Len(batch)
           n == Min2(Len(log[t]) - h, BulkCount - b)
           new == [i \in 1 .. n |-> <<t, h + i>>]
<1> USE DatastoreAssumption
<1>1. /\ h \in Nat /\ Len(log[t]) \in Nat /\ h <= Len(log[t]) /\ Len(log[t]) <= MaxPuts
      /\ batch \in Seq(Points) /\ b = Len(batch) /\ b \in Nat /\ b < BulkCount
      /\ head \in [Threads -> 0 .. MaxPuts] /\ h = head[t]
  BY DEF IInv, TypeOK, BatchInv, Visit
<1>2. /\ n \in Nat /\ n <= Len(log[t]) - h /\ n <= BulkCount - b
      /\ n = Len(log[t]) - h \/ n = BulkCount - b
  BY <1>1 DEF Min2
<1>3. /\ batch' = batch \o new /\ head' = [head EXCEPT ![t] = @ + n]
      /\ UNCHANGED <<log, pos, rows, failed, lost,
                     draining>> /\ pc = "dequeue" /\ pc' = "dequeue"
      /\ unvisited' = unvisited \ {t} /\ pos = 1 /\ pos' = 1
  BY DEF Visit, IInv, LoopInv, CreateSteps, statsVars, threadVars, diskVars,
     historyVars
<1> HIDE DEF n, h, b
<1>4. new \in Seq(Points) /\ Len(new) = n /\ \A i \in 1 .. n : new[i] = <<t, h + i>>
  <2>1. \A i \in 1 .. n : <<t, h + i>> \in Points
    BY <1>1, <1>2 DEF Points
  <2> QED BY <2>1, <1>2
<1> HIDE DEF new
<1>5. /\ batch' \in Seq(Points) /\ Len(batch') = b + n
      /\ \A i \in 1 .. b : batch'[i] = batch[i] /\ batch[i] \in Points
      /\ \A i \in b + 1 .. b + n : batch'[i] = <<t, h + (i - b)>>
  <2>1. /\ batch' \in Seq(Points) /\ Len(batch') = b + n
        /\ \A i \in 1 .. b + n : batch'[i] = IF i <= b THEN batch[i] ELSE new[i - b]
    <3>1. /\ batch \o new \in Seq(Points) /\ Len(batch \o new) = Len(batch) + Len(new)
          /\ \A i \in 1 .. Len(batch) + Len(new) :
               (batch \o new)[i] = IF i <= Len(batch) THEN batch[i] ELSE new[i - Len(batch)]
      BY <1>1, <1>4, ConcatProperties
    <3> QED BY <3>1, <1>1, <1>3, <1>4
  <2>2. \A i \in b + 1 .. b + n : i - b \in 1 .. n /\ ~ i <= b
    BY <1>1, <1>2
  <2>3. \A i \in 1 .. b : i \in 1 .. b + n /\ i <= b /\ batch[i] \in Points
    BY <1>1, <1>2
  <2>4. \A i \in b + 1 .. b + n : i \in 1 .. b + n
    BY <1>1, <1>2
  <2>5. \A i \in 1 .. b : batch'[i] = batch[i] /\ batch[i] \in Points
    BY <2>1, <2>3
  <2>6. \A i \in b + 1 .. b + n : batch'[i] = <<t, h + (i - b)>>
    BY <2>1, <2>2, <2>4, <1>4
  <2> QED BY <2>1, <2>5, <2>6
<1>13. /\ \A u \in Threads : head'[u] = IF u = t THEN h + n ELSE head[u]
      /\ \A u \in Threads : head[u] \in Nat /\ head'[u] \in Nat /\ head[u] <= head'[u]
  BY <1>1, <1>2, <1>3
<1>6. TypeOK'
  <2>1. head' \in [Threads -> 0 .. MaxPuts]
    BY <1>1, <1>2, <1>3
  <2>2. Len(batch') <= BulkCount
    BY <1>1, <1>2, <1>5
  <2> QED BY <2>1, <2>2, <1>3, <1>5 DEF IInv, TypeOK, Visit, statsVars,
             threadVars, diskVars, historyVars
<1>7. BatchInv'
  <2>1. \A u \in Threads : head'[u] <= Len(log[u])
    BY SMTT(30), <1>1, <1>2, <1>13 DEF IInv, BatchInv
  <2>2. \A j \in 1 .. b :
          /\ batch'[j] = batch[j]
          /\ batch[j][1] \in Threads /\ batch[j][2] \in Nat
          /\ batch[j][2] <= head[batch[j][1]]
    BY <1>1, <1>5 DEF IInv, BatchInv, Points
  <2>3. \A j \in b + 1 .. b + n :
          /\ batch'[j][1] = t /\ batch'[j][2] = h + (j - b)
          /\ h < batch'[j][2] /\ batch'[j][2] <= h + n
    BY <1>1, <1>2, <1>5
  <2>4. ASSUME NEW j \in 1 .. b + n PROVE batch'[j][2] <= head'[batch'[j][1]]
    <3>1. CASE j \in 1 .. b
      BY SMTT(30), <3>1, <2>2, <1>13
    <3>2. CASE j \in b + 1 .. b + n
      BY <3>2, <2>3, <1>13
    <3> QED BY <3>1, <3>2, <1>1, <1>2
  <2>5. ASSUME NEW i \in 1 .. b + n, NEW j \in 1 .. b + n, i < j,
               batch'[i][1] = batch'[j][1]
        PROVE  batch'[i][2] < batch'[j][2]
    <3>1. CASE i \in 1 .. b /\ j \in 1 .. b
      <4>1. batch[i][1] = batch[j][1] /\ i < j
        BY <3>1, <2>2, <2>5
      <4> QED BY <4>1, <3>1, <2>2, <1>1 DEF IInv, BatchInv
    <3>2. CASE i \in 1 .. b /\ j \in b + 1 .. b + n
      <4>1. batch'[i][2] <= h
        BY <3>2, <2>2, <2>3, <2>5, <1>1
      <4> QED BY SMTT(30), <4>1, <3>2, <2>2, <2>3, <1>1, <1>2
    <3>3. CASE i \in b + 1 .. b + n /\ j \in b + 1 .. b + n
      BY <3>3, <2>3, <2>5, <1>1, <1>2
    <3> QED BY <3>1, <3>2, <3>3, <2>5, <1>1, <1>2
  <2> QED BY <2>1, <2>4, <2>5, <1>3, <1>5 DEF BatchInv
<1>8. InBatch' = InBatch \cup {<<t, k>> : k \in h + 1 .. h + n}
  <2>1. InBatch = {batch[j] : j \in 1 .. b} /\ InBatch' = {batch'[j] : j \in 1 .. b + n}
    BY <1>1, <1>3, <1>5 DEF InBatch
  <2>2. \A j \in 1 .. b + n : j \in 1 .. b \/ j \in b + 1 .. b + n
    BY <1>1, <1>2
  <2>3. \A j \in b + 1 .. b + n : h + (j - b) \in h + 1 .. h + n
    BY <1>1, <1>2
  <2>4. \A k \in h + 1 .. h + n :
          b + (k - h) \in b + 1 .. b + n /\ h + ((b + (k - h)) - b) = k
    BY <1>1, <1>2
  <2>5. \A j \in b + 1 .. b + n : j \in 1 .. b + n
    BY <1>1, <1>2
  <2>6. \A j \in 1 .. b : j \in 1 .. b + n
    BY <1>1, <1>2
  <2>7. InBatch' \subseteq InBatch \cup {<<t, k>> : k \in h + 1 .. h + n}
    BY <2>1, <2>2, <2>3, <1>5
  <2>8. InBatch \subseteq InBatch'
    BY <2>1, <2>6, <1>5
  <2>9. ASSUME NEW k \in h + 1 .. h + n PROVE <<t, k>> \in InBatch'
    BY <2>1, <2>4, <2>5, <1>5
  <2> QED BY <2>7, <2>8, <2>9
<1>9. PlaceInv'
  <2>1. Settled' = Settled /\ Stored' = Stored
    BY <1>3 DEF Settled, Stored
  <2>2. ASSUME NEW pt \in Points
        PROVE  /\ pt[2] <= head'[pt[1]] <=> pt \in InBatch' \cup Settled
               /\ pt \in InBatch' => pt \notin Settled
    <3>1. pt[1] \in Threads /\ pt[2] \in 1 .. MaxPuts /\ pt = <<pt[1], pt[2]>>
      BY DEF Points
    <3>2. pt[2] <= head[pt[1]] <=> pt \in InBatch \cup Settled
      BY DEF IInv, PlaceInv
    <3>3. ~ (pt \in InBatch /\ pt \in Settled)
      BY DEF IInv, PlaceInv
    <3>4. CASE pt[1] = t
      <4>1. head'[t] = h + n
        BY <1>13
      <4>2. pt \in {<<t, k>> : k \in h + 1 .. h + n} <=> pt[2] \in h + 1 .. h + n
        BY <3>1, <3>4
      <4> QED BY <3>1, <3>2, <3>3, <3>4, <4>1, <4>2, <1>1, <1>2, <1>8
    <3>5. CASE pt[1] # t
      <4>1. head'[pt[1]] = head[pt[1]]
        BY <3>1, <3>5, <1>13
      <4>2. pt \notin {<<t, k>> : k \in h + 1 .. h + n}
        BY <3>1, <3>5
      <4> QED BY <3>2, <3>3, <4>1, <4>2, <1>8
    <3> QED BY <3>4, <3>5
  <2>3. InBatch' \subseteq Points
    BY <1>3, <1>5 DEF InBatch
  <2> QED BY <2>1, <2>2, <2>3, <1>3 DEF IInv, PlaceInv
<1>10. DrainInv'
  <2>1. SUFFICES ASSUME draining', Len(batch') < BulkCount,
                        NEW u \in Threads \ unvisited'
                 PROVE  head'[u] = Len(log[u])
    BY <1>3 DEF DrainInv
  <2>2. CASE u = t
    BY <2>1, <2>2, <1>1, <1>2, <1>5, <1>13
  <2>3. CASE u # t
    BY <2>1, <2>3, <1>1, <1>3, <1>13 DEF IInv, DrainInv
  <2> QED BY <2>2, <2>3
<1>11. LoopInv' /\ StopInv' /\ RoomInv' /\ NoOvertaking'
  BY <1>3 DEF IInv, Visit, LoopInv, InCreate, CreateSteps, StopInv, Up,
     RoomInv, Unsent, RoomForStats, NoOvertaking, Settled, Stored, statsVars,
     threadVars
<1>12. CacheInv' /\ FailureIsolated'
  BY <1>3 DEF IInv, Visit, CacheInv, InCreate, CreateSteps,
     ConnectionsHaveTables, Tables, NameOf, Stored, FailureIsolated, diskVars,
     historyVars
<1> QED BY <1>6, <1>7, <1>9, <1>10, <1>11, <1>12 DEF IInv

\* Steps of the other threads that leave the queue and the datastore thread
\* alone.
LEMMA StepOthers ==
  ASSUME IInv,
         StopNetwork \/ StopThread \/ UpdateStats \/ ApiStats
           \/ \E p \in Producers : AddSize(p)
  PROVE  IInv'
<1> USE DatastoreAssumption
<1>1. UNCHANGED <<log, head, conns, pc, draining, unvisited, batch, pos, schema,
                  rows, boots, failed, lost, faulted, running, backlog,
                  writeCount>>
  BY DEF StopNetwork, StopThread, UpdateStats, ApiStats, AddSize, queueVars,
     statsVars, threadVars, loopVars, diskVars, historyVars
<1>2. BatchInv' /\ PlaceInv' /\ NoOvertaking' /\ FailureIsolated'
  BY <1>1, Frames
<1>3. DrainInv' /\ CacheInv'
  BY <1>1 DEF IInv, DrainInv, CacheInv, InCreate, CreateSteps,
     ConnectionsHaveTables, Tables, NameOf, Stored
<1>4. LoopInv'
  BY <1>1 DEF IInv, LoopInv, InCreate, InQueue
<1>5. TypeOK' /\ StopInv' /\ RoomInv'
  <2> USE <1>1 DEF IInv, TypeOK, StopInv, RoomInv, Up, Unsent, RoomForStats
  <2>1. CASE StopNetwork
    BY <2>1 DEF StopNetwork, queueVars, statsVars
  <2>2. CASE StopThread
    BY <2>2 DEF StopThread, queueVars, statsVars
  <2>3. CASE UpdateStats
    BY <2>3 DEF UpdateStats, queueVars, threadVars
  <2>4. CASE ApiStats
    BY <2>4 DEF ApiStats, queueVars, threadVars
  <2>5. CASE \E p \in Producers : AddSize(p)
    <3>1. /\ adding' \subseteq adding /\ queueSize' = (queueSize + 1) % SizeMod
          /\ UNCHANGED <<updated, started, open>>
      BY <2>5 DEF AddSize, statsVars, threadVars
    <3>2. queueSize' \in 0 .. SizeMod - 1
      BY <3>1
    <3> QED BY <3>1, <3>2
  <2> QED BY <2>1, <2>2, <2>3, <2>4, <2>5
<1> QED BY <1>2, <1>3, <1>4, <1>5 DEF IInv

\* A new metric disturbs nothing: the names of the others stay.
LEMMA StepAppend ==
  ASSUME IInv, NEW t \in Threads, NEW n \in Names,
         log' = [log EXCEPT ![t] = Append(@, n)],
         UNCHANGED <<head, batch, rows, failed, lost, faulted, conns, schema>>
  PROVE  /\ BatchInv' /\ FailureIsolated' /\ ConnectionsHaveTables'
         /\ \A j \in 1 .. Len(batch) : NameOf(batch[j])' = NameOf(batch[j])
<1>1. \A u \in Threads : head[u] <= Len(log'[u])
  BY NamesKept DEF IInv, TypeOK, BatchInv
<1>2. BatchInv'
  BY <1>1 DEF IInv, BatchInv
<1>3. /\ failed \subseteq Accepted /\ Stored \subseteq Accepted
      /\ \A j \in 1 .. Len(batch) : batch[j] \in Accepted
  <2>1. \A pt \in Points : pt[2] <= head[pt[1]] => pt \in Accepted
    BY DEF IInv, TypeOK, BatchInv, Accepted, Points
  <2>2. failed \subseteq Accepted /\ Stored \subseteq Accepted
    BY <2>1 DEF IInv, PlaceInv, TypeOK, Settled, Stored
  <2>3. \A j \in 1 .. Len(batch) : batch[j] \in Accepted
    BY <2>1, BatchPoints DEF IInv, BatchInv
  <2> QED BY <2>2, <2>3
<1>4. FailureIsolated'
  BY <1>3, NamesKept DEF IInv, FailureIsolated
<1>5. ConnectionsHaveTables'
  <2>1. Stored' = Stored /\ Tables' = Tables
    BY DEF Stored, Tables
  <2> QED BY <2>1, <1>3, NamesKept DEF IInv, CacheInv, ConnectionsHaveTables
<1> QED BY <1>2, <1>3, <1>4, <1>5, NamesKept DEF IInv

\* QueueMetric by a telnet or HTTP thread.
LEMMA StepEnqueue ==
  ASSUME IInv, NEW p \in Producers, NEW n \in Names, Enqueue(p, n) PROVE IInv'
<1> USE DatastoreAssumption
<1>1. /\ UNCHANGED <<head, conns, pc, draining, unvisited, batch, pos, schema,
                     rows, boots, updated, failed, lost, faulted, running,
                     started, open, queueSize, backlog, writeCount>>
      /\ log' = [log EXCEPT ![p] = Append(@, n)] /\ adding' = adding \cup {p} /\ open
      /\ Len(log[p]) < MaxPuts
      /\ p \in Threads /\ p # Self /\ Self \in Threads
  BY DEF Enqueue, statsVars, threadVars, loopVars, diskVars, historyVars,
     Threads
<1>2. /\ log' \in [Threads -> Seq(Names)]
      /\ \A u \in Threads : Len(log'[u]) = Len(log[u]) + (IF u = p THEN 1 ELSE 0)
  BY <1>1, NamesKept DEF IInv
<1>3. TypeOK'
  <2>1. \A u \in Threads : Len(log'[u]) <= MaxPuts
    BY <1>1, <1>2 DEF IInv, TypeOK
  <2> QED BY <1>1, <1>2, <2>1 DEF IInv, TypeOK
<1>4. LoopInv' /\ StopInv' /\ DrainInv'
  BY <1>1 DEF IInv, LoopInv, StopInv, InCreate, Up, DrainInv
<1>5. RoomInv'
  BY <1>1 DEF IInv, RoomInv, Unsent, RoomForStats, TypeOK
<1>6. PlaceInv' /\ NoOvertaking'
  BY <1>1, Frames
<1>7. BatchInv' /\ FailureIsolated' /\ ConnectionsHaveTables'
  BY <1>1, StepAppend
<1>8. CacheInv'
  <2>1. InCreate => NameOf(batch[pos])' = NameOf(batch[pos])
    <3>1. InCreate => pos \in 1 .. Len(batch)
      BY DEF IInv, LoopInv
    <3>2. \A j \in 1 .. Len(batch) : NameOf(batch[j])' = NameOf(batch[j])
      BY <1>1, StepAppend
    <3> QED BY <3>1, <3>2, <1>1 DEF NameOf
  <2> QED BY <1>1, <1>7, <2>1 DEF IInv, CacheInv, Tables, InCreate, CreateSteps
<1> QED BY <1>3, <1>4, <1>5, <1>6, <1>7, <1>8 DEF IInv

\* QueueMetric by the datastore thread itself.
LEMMA StepQueueInternal == ASSUME IInv, QueueInternal PROVE IInv'
<1> USE DatastoreAssumption
<1> DEFINE n == Internal[pos]
<1>1. /\ UNCHANGED <<head, conns, draining, unvisited, batch, schema, rows,
                     boots, updated, adding, failed, lost, faulted, running,
                     started, open, backlog, writeCount>>
      /\ log' = [log EXCEPT ![Self] = Append(@, n)]
      /\ pc = "internal" /\ batch = << >> /\ Self \in Threads /\ ~ draining
      /\ queueSize' = (queueSize + 1) % SizeMod
  BY DEF QueueInternal, statsVars, threadVars, diskVars, historyVars, Threads,
     IInv, LoopInv, CreateSteps
<1>2. pos \in 1 .. Len(Internal) /\ Len(Internal) \in Nat
  BY <1>1 DEF IInv, LoopInv
<1>3. n \in Names
  BY <1>2, ElementOfSeq
<1>4. \/ pos < Len(Internal) /\ pos' = pos + 1 /\ pc' = "internal"
      \/ pos = Len(Internal) /\ pos' = 1 /\ pc' = "loop"
  BY <1>1, <1>2 DEF QueueInternal
<1>5. /\ log' \in [Threads -> Seq(Names)]
      /\ \A u \in Threads : Len(log'[u]) = Len(log[u]) + (IF u = Self THEN 1 ELSE 0)
      /\ Len(log[Self]) \in Nat
  BY <1>1, <1>3, NamesKept DEF IInv, TypeOK
<1>6. Len(log[Self]) + 1 <= MaxPuts /\ RoomInv'
  BY SMTT(30), <1>1, <1>2, <1>4, <1>5 DEF IInv, RoomInv, Unsent, RoomForStats
<1>7. TypeOK'
  <2>1. \A u \in Threads : Len(log'[u]) <= MaxPuts
    BY <1>5, <1>6 DEF IInv, TypeOK
  <2> QED BY <1>1, <1>2, <1>4, <1>5, <2>1 DEF IInv, TypeOK
<1>8. LoopInv' /\ StopInv' /\ DrainInv'
  BY <1>1, <1>2, <1>4 DEF IInv, LoopInv, StopInv, InCreate, CreateSteps, Up,
     DrainInv
<1>9. PlaceInv' /\ NoOvertaking'
  <2>1. InBatch = {} /\ InBatch' = {} /\ Settled' = Settled /\ Stored' = Stored
    BY <1>1, <1>2, <1>4 DEF InBatch, Settled, Stored
  <2> QED BY <1>1, <2>1 DEF IInv, PlaceInv, NoOvertaking
<1>10. BatchInv' /\ FailureIsolated' /\ ConnectionsHaveTables'
  BY <1>1, <1>3, StepAppend
<1>11. CacheInv'
  BY <1>1, <1>4, <1>10 DEF IInv, CacheInv, InCreate, CreateSteps, Tables
<1> QED BY <1>6, <1>7, <1>8, <1>9, <1>10, <1>11 DEF IInv

\* The end of Datastore::Start, or its absence.
LEMMA StepStart == ASSUME IInv, LoadAll \/ LoadFails \/ SkipStart PROVE IInv'
<1> USE DatastoreAssumption
<1>1. /\ UNCHANGED <<log, head, adding, queueSize, backlog, writeCount, updated,
                     draining, unvisited, batch, pos, schema, rows, boots,
                     failed, lost, started, open>>
      /\ pc = "start" /\ pc' = "loop" /\ faulted \subseteq faulted'
  BY DEF LoadAll, LoadFails, SkipStart, queueVars, statsVars, threadVars,
     loopVars, diskVars, historyVars
<1>2. /\ conns' \subseteq Tables /\ faulted' \subseteq Names
      /\ Tables \subseteq conns' \cup faulted' /\ running' \in BOOLEAN
  BY DEF LoadAll, LoadFails, SkipStart, IInv, TypeOK, CacheInv,
     ConnectionsHaveTables, Tables, Files, Tabled, threadVars
<1>3. TypeOK'
  BY <1>1, <1>2 DEF IInv, TypeOK, Tables
<1>4. LoopInv' /\ DrainInv'
  BY <1>1 DEF IInv, LoopInv, InCreate, CreateSteps, DrainInv
<1>5. StopInv' /\ RoomInv'
  BY <1>1 DEF IInv, StopInv, Up, RoomInv, Unsent, RoomForStats
<1>6. BatchInv' /\ PlaceInv' /\ NoOvertaking'
  BY <1>1, Frames
<1>7. CacheInv' /\ FailureIsolated'
  BY <1>1, <1>2 DEF IInv, CacheInv, InCreate, CreateSteps,
     ConnectionsHaveTables, Tables, Stored, NameOf, FailureIsolated
<1> QED BY <1>3, <1>4, <1>5, <1>6, <1>7 DEF IInv

\* A call of try_dequeue_bulk begins.
LEMMA StepBeginDequeue ==
  ASSUME IInv, BeginProcess \/ BeginDrain \/ EndBatch PROVE IInv'
<1> USE DatastoreAssumption
<1>1. /\ UNCHANGED <<log, head, adding, queueSize, updated, conns, schema, rows,
                     boots, failed, lost, faulted, running, started, open>>
      /\ pc' = "dequeue" /\ unvisited' = Threads /\ batch' = << >> /\ pos' = 1
      /\ pc = "loop" \/ (pc = "write" /\ pos > Len(batch))
      /\ draining' \in BOOLEAN /\ backlog' \in 0 .. SizeMod - 1 /\ writeCount' \in Nat
      /\ draining' => ~ started
  <2> USE DEF BeginDequeue, queueVars, statsVars, threadVars, diskVars,
          historyVars, IInv, TypeOK, StopInv
  <2>1. CASE BeginProcess
    BY <2>1 DEF BeginProcess
  <2>2. CASE BeginDrain
    BY <2>2 DEF BeginDrain
  <2>3. CASE EndBatch
    BY <2>3 DEF EndBatch
  <2> QED BY <2>1, <2>2, <2>3
<1>2. TypeOK'
  BY <1>1 DEF IInv, TypeOK
<1>3. LoopInv' /\ DrainInv' /\ RoomInv'
  BY <1>1 DEF LoopInv, InCreate, CreateSteps, DrainInv, IInv, RoomInv, Unsent,
     RoomForStats
<1>4. StopInv'
  BY <1>1 DEF IInv, StopInv, Up
<1>5. BatchInv'
  BY <1>1 DEF IInv, BatchInv
<1>6. PlaceInv' /\ NoOvertaking'
  <2>1. InBatch = {}
    BY <1>1 DEF IInv, LoopInv, CreateSteps, InBatch, TypeOK
  <2>2. InBatch' = {} /\ Settled' = Settled /\ Stored' = Stored
    BY <1>1 DEF InBatch, Settled, Stored
  <2> QED BY <1>1, <2>1, <2>2 DEF IInv, PlaceInv, NoOvertaking
<1>7. CacheInv' /\ FailureIsolated'
  BY <1>1 DEF IInv, CacheInv, InCreate, CreateSteps, ConnectionsHaveTables,
     Tables, Stored, NameOf, FailureIsolated
<1> QED BY <1>2, <1>3, <1>4, <1>5, <1>6, <1>7 DEF IInv

\* Steps that only move the datastore thread on.
LEMMA StepMoveOn ==
  ASSUME IInv, StopSelf \/ BeginBatch \/ QueueEmpty \/ BeginCreate \/ TakeStats
  PROVE  IInv'
<1> USE DatastoreAssumption
<1>1. /\ UNCHANGED <<log, head, adding, queueSize, backlog, writeCount, conns,
                     draining, unvisited, batch, pos, schema, rows, boots,
                     failed, lost, faulted, running, open>>
      /\ \/ /\ pc = "loop" /\ pc' = "selfwait" /\ updated' = updated
            /\ started' = FALSE /\ started
         \/ /\ pc = "dequeue" /\ batch # << >> /\ pc' = "write"
            /\ updated' = updated /\ started' = started
         \/ /\ pc = "dequeue" /\ batch = << >> /\ ~ draining /\ pc' = "stats"
            /\ updated' = updated /\ started' = started
         \/ /\ pc = "write" /\ pos <= Len(batch) /\ pc' = "open"
            /\ updated' = updated /\ started' = started
            /\ NameOf(batch[pos]) \notin conns
         \/ /\ pc = "stats" /\ pc' = (IF updated THEN "internal" ELSE "loop")
            /\ updated' = FALSE /\ started' = started
  BY DEF StopSelf, BeginBatch, QueueEmpty, BeginCreate, TakeStats, Dequeued,
     Current, queueVars, statsVars, threadVars, loopVars, diskVars, historyVars
<1>2. TypeOK'
  BY <1>1 DEF IInv, TypeOK, CreateSteps
<1>3. LoopInv'
  BY <1>1, EmptySeq DEF IInv, TypeOK, LoopInv, InCreate, CreateSteps
<1>4. StopInv'
  BY <1>1 DEF IInv, StopInv, LoopInv, CreateSteps, Up
<1>5. RoomInv'
  <2>1. pos = 1 \/ pc # "stats"
    BY DEF IInv, LoopInv, CreateSteps
  <2>2. Len(log[Self]) \in Nat /\ Len(Internal) \in Nat
    BY DEF IInv, TypeOK, Threads
  <2>3. CASE pc = "stats" /\ updated
    <3>1. Len(log[Self]) + Len(Internal) <= MaxPuts
      BY <2>2, <2>3 DEF IInv, RoomInv, RoomForStats, Unsent
    <3> QED BY <1>1, <2>1, <2>2, <2>3, <3>1 DEF RoomInv, RoomForStats, Unsent
  <2>4. CASE ~ (pc = "stats" /\ updated)
    <3>1. Unsent = 0 /\ Unsent' = 0
      BY <1>1, <2>4 DEF Unsent
    <3> QED BY <1>1, <2>4, <3>1 DEF IInv, RoomInv, RoomForStats
  <2> QED BY <2>3, <2>4
<1>6. BatchInv' /\ PlaceInv' /\ NoOvertaking' /\ FailureIsolated'
  BY <1>1, Frames
<1>7. DrainInv' /\ CacheInv'
  BY <1>1 DEF IInv, DrainInv, CacheInv, InCreate, CreateSteps,
     ConnectionsHaveTables, Tables, Stored, NameOf
<1> QED BY <1>2, <1>3, <1>4, <1>5, <1>6, <1>7 DEF IInv

\* The end of Datastore::Stop: its last look found the queue empty.
LEMMA StepCloseAll == ASSUME IInv, CloseAll PROVE IInv'
<1> USE DatastoreAssumption
<1>1. /\ UNCHANGED <<log, head, adding, queueSize, backlog, writeCount, updated,
                     draining, unvisited, batch, pos, schema, rows, boots,
                     failed, lost, faulted, running, started, open>>
      /\ pc = "dequeue" /\ pc' = "stopped" /\ draining /\ batch = << >>
      /\ unvisited = {} /\ conns' = {}
  BY DEF CloseAll, Dequeued, queueVars, statsVars, threadVars, loopVars,
     diskVars, historyVars
<1>2. TypeOK'
  BY <1>1 DEF IInv, TypeOK
<1>3. InQueue' = {}
  <2>1. \A t \in Threads : head[t] = Len(log[t])
    BY <1>1 DEF IInv, DrainInv
  <2>2. \A t \in Threads : head[t] \in Nat
    BY DEF IInv, TypeOK
  <2> QED BY <1>1, <2>1, <2>2 DEF InQueue, Points
<1>4. LoopInv'
  BY <1>1, <1>3 DEF IInv, LoopInv, InCreate, CreateSteps
<1>5. StopInv' /\ RoomInv' /\ DrainInv'
  BY <1>1 DEF IInv, StopInv, Up, RoomInv, Unsent, RoomForStats, DrainInv
<1>6. BatchInv' /\ PlaceInv' /\ NoOvertaking' /\ FailureIsolated'
  BY <1>1, Frames
<1>7. CacheInv'
  BY <1>1 DEF IInv, CacheInv, InCreate, CreateSteps, ConnectionsHaveTables,
     Tables, Stored, NameOf
<1> QED BY <1>2, <1>4, <1>5, <1>6, <1>7 DEF IInv

\* A successful call of CreateDatabase touches only the database of the
\* current metric.
LEMMA StepCreate ==
  ASSUME IInv, OpenFile \/ CreateTable \/ CreateIndex \/ EnableWal \/ PrepareInsert
  PROVE  IInv'
<1> USE DatastoreAssumption
<1> DEFINE n == NameOf(Current)
<1>1. /\ UNCHANGED <<log, head, adding, queueSize, backlog, writeCount, updated,
                     draining, unvisited, batch, pos, rows, boots, failed, lost,
                     faulted, running, started, open>>
      /\ pc \in CreateSteps /\ pc' \in {"table", "index", "wal", "prepare", "write"}
  BY DEF OpenFile, CreateTable, CreateIndex, EnableWal, PrepareInsert,
     CreateStep, CreateSteps, queueVars, statsVars, threadVars, loopVars,
     historyVars
<1>2. /\ pos \in 1 .. Len(batch) /\ batch = batch' /\ n \in Names /\ n' = n
      /\ n = NameOf(batch[pos])
  BY <1>1, CurrentIsTaken DEF IInv, LoopInv, InCreate, Current, NameOf
<1> HIDE DEF n
<1>3. /\ schema' \in [Names -> Schemas] /\ conns' \subseteq Names
      /\ \/ /\ pc = "open" /\ pc' = "table" /\ Tables' = Tables /\ conns' = conns
         \/ /\ pc = "table" /\ pc' = "index" /\ Tables' = Tables \cup {n}
            /\ conns' = conns
         \/ /\ pc \in {"index", "wal"} /\ pc' \in {"wal", "prepare"}
            /\ Tables' = Tables /\ conns' = conns
         \/ /\ pc = "prepare" /\ pc' = "write" /\ Tables' = Tables
            /\ conns' = conns \cup {n}
  <2> USE <1>2 DEF IInv, TypeOK, Tables, Tabled, Schemas, CacheInv
  <2>1. CASE OpenFile
    BY <2>1 DEF OpenFile, CreateStep, n
  <2>2. CASE CreateTable
    BY <2>2 DEF CreateTable, CreateStep, n
  <2>3. CASE CreateIndex
    BY <2>3 DEF CreateIndex, CreateStep, n
  <2>4. CASE EnableWal
    BY <2>4 DEF EnableWal, CreateStep, n
  <2>5. CASE PrepareInsert
    BY <2>5 DEF PrepareInsert, CreateStep, n
  <2> QED BY <2>1, <2>2, <2>3, <2>4, <2>5
<1>4. TypeOK'
  BY <1>1, <1>3 DEF IInv, TypeOK, CreateSteps
<1>5. LoopInv'
  BY <1>1, <1>2 DEF IInv, LoopInv, InCreate, CreateSteps
<1>6. StopInv' /\ RoomInv' /\ DrainInv'
  BY <1>1 DEF IInv, StopInv, Up, RoomInv, Unsent, RoomForStats, DrainInv,
     CreateSteps
<1>7. BatchInv' /\ PlaceInv' /\ NoOvertaking' /\ FailureIsolated'
  BY <1>1, Frames
<1>8. CacheInv'
  <2>1. {NameOf(pt)' : pt \in Stored'} = {NameOf(pt) : pt \in Stored}
    BY <1>1 DEF Stored, NameOf
  <2>2. NameOf(batch[pos])' = n
    BY <1>1, <1>2 DEF NameOf
  <2> QED BY <1>1, <1>2, <1>3, <2>1, <2>2 DEF IInv, CacheInv, InCreate,
             CreateSteps, ConnectionsHaveTables
<1> QED BY <1>4, <1>5, <1>6, <1>7, <1>8 DEF IInv

\* The current metric becomes a row or is dropped.
LEMMA StepSettle ==
  ASSUME IInv, WriteMetric \/ WriteFails \/ CreateFails \/ TableExists
  PROVE  IInv'
<1> USE DatastoreAssumption
<1> DEFINE c == Current
           n == NameOf(Current)
<1>1. /\ UNCHANGED <<log, head, adding, backlog, writeCount, updated, conns,
                     draining, unvisited, batch, schema, boots, lost, running,
                     started, open>>
      /\ pc' = "write" /\ pos' = pos + 1 /\ pc \in {"write"} \cup CreateSteps
      /\ queueSize' = queueSize \/ queueSize' = (queueSize + SizeMod - 1) % SizeMod
  BY DEF WriteMetric, WriteFails, CreateFails, TableExists, NextPoint,
     statsVars, threadVars, diskVars, historyVars, CreateSteps
<1>2. pos \in 1 .. Len(batch)
  BY DEF WriteMetric, WriteFails, CreateFails, TableExists, IInv, LoopInv,
     InCreate, CreateSteps, TypeOK
<1>3. c \in Points /\ c \in Accepted /\ n \in Names /\ c = batch[pos]
  BY <1>2, CurrentIsTaken DEF Current
<1>4. /\ \/ /\ rows' = [rows EXCEPT ![c] = @ + 1] /\ failed' = failed
            /\ faulted' = faulted /\ n \in conns
            /\ pc = "write"
         \/ /\ rows' = rows /\ failed' = failed \cup {c}
            /\ \/ faulted' = faulted \cup {n}
               \/ faulted' = faulted /\ pc = "table" /\ n \in Tables
  BY <1>3 DEF WriteMetric, WriteFails, CreateFails, TableExists, diskVars,
     historyVars, Tables
<1>5. PlaceInv' /\ NoOvertaking'
  BY <1>1, <1>2, <1>4, SettleCurrent
<1> HIDE DEF c, n
<1>6. TypeOK'
  <2>1. /\ rows' \in [Points -> Nat] /\ failed' \subseteq Points
        /\ faulted' \subseteq Names
    BY <1>3, <1>4 DEF IInv, TypeOK
  <2>2. queueSize' \in 0 .. SizeMod - 1 /\ pos' \in Nat \ {0}
    BY <1>1 DEF IInv, TypeOK
  <2> QED BY <1>1, <2>1, <2>2 DEF IInv, TypeOK
<1>7. LoopInv'
  BY <1>1, <1>2 DEF IInv, LoopInv, InCreate, CreateSteps
<1>8. StopInv' /\ RoomInv' /\ DrainInv'
  BY <1>1 DEF IInv, StopInv, Up, RoomInv, Unsent, RoomForStats, DrainInv,
     CreateSteps
<1>9. BatchInv'
  BY <1>1, Frames
<1>10. NameOf(c) = n /\ n = NameOf(batch[pos])
  BY <1>3 DEF c, n
<1>11. Tables' = Tables
  BY <1>1 DEF Tables
<1>12. CacheInv'
  <2>1. \A pt \in Points : NameOf(pt)' = NameOf(pt)
    BY <1>1 DEF NameOf
  <2>2. Stored' = Stored \/ (Stored' = Stored \cup {c} /\ n \in conns)
    BY <1>3, <1>4 DEF Stored, IInv, TypeOK
  <2>3. ConnectionsHaveTables'
    BY <1>1, <1>3, <1>10, <1>11, <2>1, <2>2 DEF IInv, CacheInv, InCreate,
       CreateSteps, ConnectionsHaveTables, Stored
  <2>4. Tables \subseteq conns \cup faulted'
    BY <1>1, <1>4, <1>10 DEF IInv, CacheInv, CreateSteps
  <2> QED BY <1>1, <1>11, <2>3, <2>4 DEF CacheInv, InCreate, CreateSteps
<1>13. FailureIsolated'
  <2>1. n \in faulted' \/ failed' = failed
    BY <1>4, <1>10 DEF IInv, CacheInv, InCreate, CreateSteps
  <2>2. \A pt \in Points : NameOf(pt)' = NameOf(pt)
    BY <1>1 DEF NameOf
  <2> QED BY <1>3, <1>4, <1>10, <2>1, <2>2 DEF IInv, FailureIsolated, TypeOK
<1> QED BY <1>5, <1>6, <1>7, <1>8, <1>9, <1>12, <1>13 DEF IInv

\* Nothing is queued, stored or connected before the first start.
THEOREM InvariantInit == Init => IInv
<1> SUFFICES ASSUME Init PROVE IInv
  OBVIOUS
<1> USE DatastoreAssumption DEF Init
<1>1. InQueue = {} /\ InBatch = {} /\ Stored = {} /\ Settled = {}
  BY DEF InQueue, InBatch, Stored, Settled, Points
<1>2. TypeOK
  <2>1. /\ log \in [Threads -> Seq(Names)] /\ batch \in Seq(Points)
        /\ Len(batch) <= BulkCount /\ \A t \in Threads : Len(log[t]) <= MaxPuts
    OBVIOUS
  <2>2. head \in [Threads -> 0 .. MaxPuts] /\ boots \in 0 .. MaxBoots
    OBVIOUS
  <2>3. schema \in [Names -> Schemas] /\ rows \in [Points -> Nat]
    BY DEF Schemas
  <2>4. /\ queueSize \in 0 .. SizeMod - 1 /\ backlog \in 0 .. SizeMod - 1
        /\ writeCount \in Nat /\ pos \in Nat \ {0}
    OBVIOUS
  <2> HIDE DatastoreAssumption
  <2> QED BY <2>1, <2>2, <2>3, <2>4 DEF TypeOK
<1>3. LoopInv /\ StopInv /\ RoomInv /\ DrainInv
  BY <1>1 DEF LoopInv, InCreate, CreateSteps, StopInv, Up, RoomInv, Unsent,
     RoomForStats, DrainInv, Threads
<1>4. BatchInv /\ PlaceInv /\ NoOvertaking
  BY <1>1 DEF BatchInv, PlaceInv, NoOvertaking, Points
<1>5. CacheInv /\ FailureIsolated
  BY <1>1 DEF CacheInv, InCreate, CreateSteps, ConnectionsHaveTables,
     FailureIsolated
<1> QED BY <1>2, <1>3, <1>4, <1>5 DEF IInv

\* Every step of the datastore and of the threads around it keeps the
\* invariant.
THEOREM InvariantStep == IInv /\ [Next]_vars => IInv'
<1> SUFFICES ASSUME IInv, [Next]_vars PROVE IInv'
  OBVIOUS
<1>1. CASE UNCHANGED vars
  <2> USE <1>1 DEF vars, queueVars, statsVars, threadVars, loopVars, diskVars,
          historyVars, IInv
  <2>1. BatchInv' /\ PlaceInv' /\ NoOvertaking' /\ FailureIsolated'
    BY Frames
  <2>2. TypeOK'
    BY DEF TypeOK
  <2>3. LoopInv' /\ StopInv' /\ RoomInv' /\ DrainInv'
    BY DEF LoopInv, InCreate, InQueue, StopInv, Up, RoomInv, Unsent,
       RoomForStats, DrainInv
  <2>4. CacheInv'
    BY DEF CacheInv, InCreate, ConnectionsHaveTables, Stored, Tables, NameOf
  <2> QED BY <2>1, <2>2, <2>3, <2>4
<1>2. CASE Environment
  BY <1>2, StepBoot, StepCrash, StepOthers, StepEnqueue DEF Environment
<1>3. CASE Work
  BY <1>3, StepStart, StepBeginDequeue, StepVisit, StepMoveOn, StepCloseAll,
     StepSettle, StepCreate,
     StepQueueInternal DEF Work
<1> QED BY <1>1, <1>2, <1>3 DEF Next

\* The inductive invariant holds in every reachable state, for any number of
\* threads, names, batch size and counter width.
THEOREM Invariance == Spec => []IInv
BY InvariantInit, InvariantStep, PTL DEF Spec

\* Batches fit m[BULK_COUNT], m_QueueSize its width, and the rest its type.
THEOREM TypeCorrect == Spec => []TypeOK
BY Invariance, PTL DEF IInv

\* A metric QueueMetric accepted is waiting or settled, never both.
LEMMA Disjoint ==
  ASSUME IInv
  PROVE  /\ InQueue \cap InBatch = {} /\ Queued \cap Settled = {}
         /\ Accepted = Queued \cup Settled
<1>1. ASSUME NEW pt \in Points
      PROVE  /\ pt \in InQueue <=> (~ pt[2] <= head[pt[1]]) /\ pt \in Accepted
             /\ pt[2] <= head[pt[1]] => pt \in Accepted
  <2>1. pt[1] \in Threads /\ pt[2] \in Nat
    BY DEF Points
  <2>2. /\ head[pt[1]] \in Nat /\ Len(log[pt[1]]) \in Nat
        /\ head[pt[1]] <= Len(log[pt[1]])
    BY <2>1 DEF IInv, TypeOK, BatchInv
  <2> QED BY <2>1, <2>2 DEF InQueue, Accepted
<1>2. InQueue \subseteq Points /\ Accepted \subseteq Points
  BY DEF InQueue, Accepted
<1>3. InBatch \subseteq Points /\ Settled \subseteq Points
  BY BatchPoints DEF IInv, TypeOK
<1>4. \A pt \in Points : pt[2] <= head[pt[1]] <=> pt \in InBatch \cup Settled
  BY DEF IInv, PlaceInv
<1>5. InBatch \cap Settled = {}
  BY DEF IInv, PlaceInv
<1> QED BY <1>1, <1>2, <1>3, <1>4, <1>5 DEF Queued

\* QueueMetric, the batches, WriteMetric and restarts neither duplicate a
\* metric nor lose track of one.
THEOREM ExactlyOnce == Spec => []OnePlace
<1>1. IInv => OnePlace
  <2> SUFFICES ASSUME IInv PROVE OnePlace
    OBVIOUS
  <2>1. /\ InQueue \cap InBatch = {}
        /\ InQueue \cap Stored = {} /\ InQueue \cap failed = {}
        /\ InQueue \cap lost = {}
        /\ InBatch \cap Stored = {} /\ InBatch \cap failed = {}
        /\ InBatch \cap lost = {}
    BY Disjoint DEF Queued, Settled
  <2>2. Stored \cap failed = {} /\ Stored \cap lost = {} /\ failed \cap lost = {}
    BY DEF IInv, PlaceInv
  <2> DEFINE places == <<InQueue, InBatch, Stored, failed, lost>>
  <2>3. ASSUME NEW i \in 1 .. 5, NEW j \in 1 .. 5, i < j
        PROVE  places[i] \cap places[j] = {}
    BY <2>1, <2>2, <2>3
  <2> QED BY <2>3, Disjoint DEF OnePlace, IInv, PlaceInv
<1> QED BY <1>1, Invariance, PTL

\* Metrics of one thread are dealt with in the order QueueMetric got them.
THEOREM InOrder == Spec => []NoOvertaking
BY Invariance, PTL DEF IInv

\* Datastore::Stop ends with nothing in m_MetricQueue or in its batch.
THEOREM Drained == Spec => []StopLeavesNothing
<1>1. IInv => StopLeavesNothing
  BY DEF IInv, LoopInv, CreateSteps, StopLeavesNothing, Queued, InBatch
<1> QED BY <1>1, Invariance, PTL

\* m_Store maps names to databases that have the METRIC table only.
THEOREM OnlyTables == Spec => []ConnectionsHaveTables
BY Invariance, PTL DEF IInv, CacheInv

\* A metric is dropped only after a call failed on the database of its name.
THEOREM Isolated == Spec => []FailureIsolated
BY Invariance, PTL DEF IInv

\* Datastore::Stop closes the handles after the interfaces are stopped.
THEOREM HandlesOutlive == Spec => HandlesOutliveRequests
<1>1. IInv /\ [Next]_vars => [conns' # {} \/ conns = {} \/ pc' = "down" \/ ~ open]_vars
  <2> SUFFICES ASSUME IInv, Next, conns # {}, conns' = {}, open
               PROVE  pc' = "down"
    OBVIOUS
  <2>1. pc \notin {"down", "start", "stopped"} /\ ~ draining
    BY DEF IInv, CacheInv, StopInv
  <2>2. CASE Environment
    BY <2>1, <2>2 DEF Environment, Boot, Crash, StopNetwork, StopThread,
       UpdateStats, ApiStats, AddSize, Enqueue
  <2>3. CASE Work
    BY <2>1, <2>3 DEF Work, LoadAll, LoadFails, SkipStart, BeginProcess,
       StopSelf, BeginDrain, Visit, BeginBatch, QueueEmpty, CloseAll,
       WriteMetric, WriteFails, BeginCreate, OpenFile, CreateTable,
       CreateIndex, EnableWal, PrepareInsert, CreateFails, TableExists,
       EndBatch, TakeStats, QueueInternal
  <2> QED BY <2>2, <2>3 DEF Next
<1> QED BY <1>1, Invariance, PTL DEF Spec, HandlesOutliveRequests

-----------------------------------------------------------------------------
(* The counter m_QueueSize.                                                *)

LEMMA Remainder ==
  ASSUME NEW M \in Nat \ {0}, NEW a \in Nat
  PROVE  (a % M) \in 0 .. M - 1 /\ \E k \in Nat : a = k * M + (a % M)
<1>1. a = (a \div M) * M + (a % M) /\ a \div M \in Nat /\ (a % M) \in 0 .. M - 1
  OBVIOUS
<1> QED BY <1>1

LEMMA Unique ==
  ASSUME NEW M \in Nat \ {0}, NEW k \in Nat, NEW r \in 0 .. M - 1
  PROVE  (k * M + r) % M = r
OBVIOUS

LEMMA AfterOne ==
  ASSUME NEW M \in Nat \ {0}, NEW a \in Nat
  PROVE  /\ (a % M) + 1 = M => (a + 1) % M = 0
         /\ (a % M) + 1 # M => (a + 1) % M = (a % M) + 1
<1>1. PICK r : r = a % M
  OBVIOUS
<1>2. r \in 0 .. M - 1
  BY <1>1, Remainder
<1>3. PICK k \in Nat : a = k * M + r
  BY <1>1, Remainder
<1>4. ASSUME r + 1 = M PROVE (a + 1) % M = 0
  <2>1. a + 1 = (k + 1) * M + 0
    BY <1>2, <1>3, <1>4
  <2> QED BY SMTT(30), <2>1, Unique
<1>5. ASSUME r + 1 # M PROVE (a + 1) % M = r + 1
  <2>1. a + 1 = k * M + (r + 1) /\ r + 1 \in 0 .. M - 1
    BY <1>2, <1>3, <1>5
  <2> QED BY <2>1, Unique
<1> QED BY <1>1, <1>4, <1>5

\* Counting on, and back.
LEMMA CountOn ==
  ASSUME NEW M \in Nat \ {0}, NEW a \in Nat, NEW b \in Nat
  PROVE  a % M = b % M <=> (a + 1) % M = (b + 1) % M
<1>1. PICK r : r = a % M
  OBVIOUS
<1>2. PICK s : s = b % M
  OBVIOUS
<1>3. r \in 0 .. M - 1 /\ s \in 0 .. M - 1
  BY <1>1, <1>2, Remainder
<1>4. PICK u : u = (a + 1) % M
  OBVIOUS
<1>5. PICK v : v = (b + 1) % M
  OBVIOUS
<1>6. /\ r + 1 = M => u = 0
      /\ r + 1 # M => u = r + 1
  BY <1>1, <1>4, AfterOne
<1>7. /\ s + 1 = M => v = 0
      /\ s + 1 # M => v = s + 1
  BY <1>2, <1>5, AfterOne
<1>8. r = s <=> u = v
  BY <1>3, <1>6, <1>7
<1> QED BY <1>1, <1>2, <1>4, <1>5, <1>8

LEMMA RemainderOf ==
  ASSUME NEW M \in Nat \ {0}, NEW a \in Nat, NEW b \in Nat
  PROVE  ((a % M) + b) % M = (a + b) % M
<1>1. PICK r : r = a % M
  OBVIOUS
<1>2. r \in 0 .. M - 1
  BY <1>1, Remainder
<1>3. PICK k \in Nat : a = k * M + r
  BY <1>1, Remainder
<1>4. PICK s : s = (r + b) % M
  OBVIOUS
<1>5. r + b \in Nat
  BY <1>2
<1>6. s \in 0 .. M - 1
  BY <1>4, <1>5, Remainder
<1>7. PICK j \in Nat : r + b = j * M + s
  BY <1>4, <1>5, Remainder
<1>8. a + b = (k + j) * M + s
  <2>1. (k + j) * M = k * M + j * M
    OBVIOUS
  <2>2. k * M \in Nat /\ j * M \in Nat
    OBVIOUS
  <2> QED BY <1>2, <1>3, <1>6, <1>7, <2>1, <2>2
<1>9. k + j \in Nat
  OBVIOUS
<1>10. (a + b) % M = s
  BY <1>6, <1>8, <1>9, Unique
<1> QED BY <1>1, <1>4, <1>10

LEMMA Around ==
  ASSUME NEW M \in Nat \ {0}, NEW a \in Nat
  PROVE  (a + M) % M = a % M
<1>1. PICK r : r = a % M
  OBVIOUS
<1>2. r \in 0 .. M - 1
  BY <1>1, Remainder
<1>3. PICK k \in Nat : a = k * M + r
  BY <1>1, Remainder
<1>4. a + M = (k + 1) * M + r
  BY <1>2, <1>3
<1>5. k + 1 \in Nat
  OBVIOUS
<1> QED BY <1>1, <1>2, <1>4, <1>5, Unique

\* Queued and Accepted are finite.
LEMMA Finite ==
  ASSUME IInv
  PROVE  /\ IsFiniteSet(Queued) /\ IsFiniteSet(adding)
         /\ Cardinality(Queued) \in Nat /\ Cardinality(adding) \in Nat
<1>1. IsFiniteSet(Threads)
  BY ProducersAssumption, FS_AddElement DEF Threads
<1>2. IsFiniteSet(1 .. MaxPuts)
  BY DatastoreAssumption, FS_Interval
<1>3. IsFiniteSet(Points)
  BY <1>1, <1>2, FS_Product DEF Points
<1>4. Queued \in SUBSET Points /\ adding \in SUBSET Producers
  BY BatchPoints DEF IInv, TypeOK
<1> QED BY <1>3, <1>4, ProducersAssumption, FS_Subset, FS_CardinalityType

\* What is waiting is what was accepted and is not settled.
Balance == Queued = Accepted \ Settled

LEMMA Balanced == IInv => Balance
BY Disjoint DEF Balance

Counted(size, calls, waiting) == (size + calls) % SizeMod = waiting % SizeMod

Exact == Counted(queueSize, Cardinality(adding), Cardinality(Queued))

\* Another metric waits, and another call has yet to count one.
LEMMA OneEnqueued ==
  ASSUME NEW s \in Nat, NEW c \in Nat, NEW w \in Nat, Counted(s, c, w)
  PROVE  Counted(s, c + 1, w + 1)
<1>1. PICK x \in Nat : x = s + c
  OBVIOUS
<1>2. x % SizeMod = w % SizeMod
  BY <1>1 DEF Counted
<1>3. (x + 1) % SizeMod = (w + 1) % SizeMod
  BY <1>2, CountOn, DatastoreAssumption
<1>4. s + (c + 1) = x + 1
  BY <1>1
<1> QED BY <1>3, <1>4 DEF Counted

\* fetch_add by one.
LEMMA OneAdded ==
  ASSUME NEW s \in Nat, NEW c \in Nat, NEW w \in Nat, Counted(s, c + 1, w)
  PROVE  Counted((s + 1) % SizeMod, c, w)
<1>1. s + 1 \in Nat /\ (s + 1) + c = s + (c + 1)
  OBVIOUS
<1>2. (((s + 1) % SizeMod) + c) % SizeMod = ((s + 1) + c) % SizeMod
  BY <1>1, RemainderOf, DatastoreAssumption
<1> QED BY <1>1, <1>2 DEF Counted

\* fetch_sub by one, which wraps.
LEMMA OneSubtracted ==
  ASSUME NEW s \in Nat, NEW c \in Nat, NEW w \in Nat, Counted(s, c, w + 1)
  PROVE  Counted((s + SizeMod - 1) % SizeMod, c, w)
<1>1. PICK x \in Nat : x = s + SizeMod - 1
  BY DatastoreAssumption
<1>2. ((x % SizeMod) + c) % SizeMod = (x + c) % SizeMod
  BY RemainderOf, DatastoreAssumption
<1>3. x + c \in Nat /\ s + c \in Nat /\ (x + c) + 1 = (s + c) + SizeMod
  BY <1>1, DatastoreAssumption
<1>4. ((x + c) + 1) % SizeMod = (w + 1) % SizeMod
  <2>1. ((s + c) + SizeMod) % SizeMod = (s + c) % SizeMod
    BY <1>3, Around, DatastoreAssumption
  <2> QED BY <1>3, <2>1 DEF Counted
<1>5. (x + c) % SizeMod = w % SizeMod
  BY <1>3, <1>4, CountOn, DatastoreAssumption
<1> QED BY <1>1, <1>2, <1>5 DEF Counted

\* QueueMetric accepts one more point.
LEMMA OneAccepted ==
  ASSUME IInv, NEW t \in Threads, NEW n \in Names, Len(log[t]) < MaxPuts,
         log' = [log EXCEPT ![t] = Append(@, n)],
         UNCHANGED <<rows, failed, lost>>, Balance'
  PROVE  Cardinality(Queued)' = Cardinality(Queued) + 1
<1>1. PICK k : k = Len(log[t]) + 1
  OBVIOUS
<1>2. PICK new : new = <<t, k>>
  OBVIOUS
<1>3. Len(log[t]) \in Nat /\ new \in Points /\ new[1] = t /\ new[2] = k
  BY <1>1, <1>2, DatastoreAssumption DEF IInv, TypeOK, Points
<1>4. \A u \in Threads : Len(log[u]) \in Nat
                         /\ Len(log'[u]) = Len(log[u]) + (IF u = t THEN 1 ELSE 0)
  BY NamesKept DEF IInv, TypeOK
<1>5. Accepted' = Accepted \cup {new} /\ new \notin Accepted
  <2>1. ASSUME NEW pt \in Points
        PROVE  pt[2] <= Len(log'[pt[1]]) <=> pt[2] <= Len(log[pt[1]]) \/ pt = new
    <3>1. pt = <<pt[1], pt[2]>> /\ pt[1] \in Threads /\ pt[2] \in Nat
      BY DEF Points
    <3>2. CASE pt[1] = t
      <4>1. pt = new <=> pt[2] = k
        BY <1>2, <1>3, <3>1, <3>2
      <4>2. Len(log'[pt[1]]) = k /\ Len(log[pt[1]]) + 1 = k
        BY <1>1, <1>4, <3>1, <3>2
      <4> QED BY <1>3, <3>1, <3>2, <4>1, <4>2
    <3>3. CASE pt[1] # t
      BY <1>3, <1>4, <3>1, <3>3
    <3> QED BY <3>2, <3>3
  <2>2. ~ (new[2] <= Len(log[new[1]]))
    BY <1>1, <1>3
  <2> QED BY <1>3, <2>1, <2>2 DEF Accepted
<1>6. Settled' = Settled
  BY DEF Settled, Stored
<1>7. Queued' = Queued \cup {new} /\ new \notin Queued
  BY <1>5, <1>6, Disjoint DEF Balance
<1> QED BY <1>7, Finite, FS_AddElement

\* The for loop of Process deals with one metric.
LEMMA QueuedShrinks ==
  ASSUME IInv, pos <= Len(batch), UNCHANGED <<log, lost>>, Balance',
         \/ rows' = [rows EXCEPT ![Current] = @ + 1] /\ failed' = failed
         \/ rows' = rows /\ failed' = failed \cup {Current}
  PROVE  Queued' = Queued \ {Current} /\ Current \in Queued
<1>1. Current \in Points /\ Current \in Queued
  BY CurrentIsTaken DEF Queued
<1>2. Settled' = Settled \cup {Current}
  <2>1. rows \in [Points -> Nat]
    BY DEF IInv, TypeOK
  <2>2. CASE rows' = [rows EXCEPT ![Current] = @ + 1] /\ failed' = failed
    <3>1. Stored' = Stored \cup {Current}
      BY <1>1, <2>1, <2>2 DEF Stored
    <3> QED BY <2>2, <3>1 DEF Settled
  <2>3. CASE rows' = rows /\ failed' = failed \cup {Current}
    BY <2>3 DEF Settled, Stored
  <2> QED BY <2>2, <2>3
<1>3. Accepted' = Accepted
  BY DEF Accepted
<1>4. Queued' = Queued \ {Current}
  BY <1>2, <1>3, Disjoint DEF Balance
<1> QED BY <1>1, <1>4

LEMMA OneSettled ==
  ASSUME IInv, pos <= Len(batch), UNCHANGED <<log, lost>>, Balance',
         \/ rows' = [rows EXCEPT ![Current] = @ + 1] /\ failed' = failed
         \/ rows' = rows /\ failed' = failed \cup {Current}
  PROVE  Cardinality(Queued) = Cardinality(Queued)' + 1
<1>1. Queued' = Queued \ {Current} /\ Current \in Queued
  BY QueuedShrinks
<1>2. Cardinality(Queued)' = Cardinality(Queued) - 1
  BY <1>1, Finite, FS_RemoveElement
<1> QED BY <1>2, Finite

\* Steps that neither queue nor settle a metric.
LEMMA NothingCounted ==
  ASSUME IInv, QueueSizeExact, Balance',
         UNCHANGED <<log, adding, queueSize, rows, failed, lost>>,
         Up' /\ ~ draining' => Up /\ ~ draining
  PROVE  QueueSizeExact'
<1>1. Accepted' = Accepted /\ Settled' = Settled
  BY DEF Accepted, Settled, Stored
<1>2. Queued' = Queued
  BY <1>1, Balanced DEF Balance
<1> QED BY <1>2 DEF QueueSizeExact

LEMMA EnvironmentCounts ==
  ASSUME IInv, QueueSizeExact, Balance', Environment
  PROVE  QueueSizeExact'
<1>1. /\ queueSize \in Nat
      /\ Cardinality(adding) \in Nat /\ Cardinality(Queued) \in Nat
  BY Finite DEF IInv, TypeOK
<1>2. QueueSizeExact <=> (Up /\ ~ draining => Exact)
  BY DEF QueueSizeExact, Exact, Counted
<1>3. Exact' => QueueSizeExact'
  BY DEF QueueSizeExact, Exact, Counted
<1>4. CASE Boot
  <2>1. InQueue' = {} /\ InBatch' = {}
    <3>1. LoseMemory
      BY <1>4 DEF Boot
    <3>2. InQueue' = {}
      BY <3>1, StepLoseMemory
    <3>3. batch' = << >> /\ pos' = 1
      BY <3>1 DEF LoseMemory
    <3> QED BY <3>2, <3>3 DEF InBatch
  <2>2. Queued' = {} /\ adding' = {} /\ queueSize' = 0
    BY <1>4, <2>1 DEF Boot, LoseMemory, Queued
  <2>3. Cardinality({}) = 0
    BY FS_EmptySet
  <2> QED BY <2>2, <2>3 DEF QueueSizeExact
<1>5. CASE Crash
  BY <1>5 DEF Crash, QueueSizeExact, Up
<1>6. CASE StopNetwork \/ StopThread \/ UpdateStats \/ ApiStats
  <2>1. UNCHANGED <<log, adding, queueSize, rows, failed, lost, pc, draining>>
    BY <1>6 DEF StopNetwork, StopThread, UpdateStats, ApiStats, queueVars, loopVars,
       diskVars, historyVars
  <2> QED BY <2>1, NothingCounted DEF Up
<1>7. ASSUME NEW p \in Producers, AddSize(p) PROVE QueueSizeExact'
  <2>1. /\ adding' = adding \ {p} /\ p \in adding
        /\ queueSize' = (queueSize + 1) % SizeMod
        /\ UNCHANGED <<log, rows, failed, lost, pc, draining>>
    BY <1>7 DEF AddSize, loopVars, diskVars, historyVars
  <2>2. Queued' = Queued
    <3>1. Accepted' = Accepted /\ Settled' = Settled
      BY <2>1 DEF Accepted, Settled, Stored
    <3> QED BY <3>1, Balanced DEF Balance
  <2>3. Cardinality(adding)' = Cardinality(adding) - 1
    BY <2>1, Finite, FS_RemoveElement
  <2>4. Cardinality(adding)' \in Nat
    BY <2>1, Finite, FS_RemoveElement, FS_CardinalityType
  <2>5. PICK c \in Nat : c = Cardinality(adding)'
    BY <2>4
  <2>6. Cardinality(adding) = c + 1
    BY <1>1, <2>3, <2>5
  <2>7. Exact => Exact'
    BY <1>1, <2>1, <2>2, <2>5, <2>6, OneAdded DEF Exact
  <2>8. Up' /\ ~ draining' => Up /\ ~ draining
    BY <2>1 DEF Up
  <2> QED BY <1>2, <2>7, <2>8 DEF QueueSizeExact, Exact, Counted
<1>8. ASSUME NEW p \in Producers, NEW n \in Names, Enqueue(p, n) PROVE QueueSizeExact'
  <2>1. /\ adding' = adding \cup {p} /\ p \notin adding /\ queueSize' = queueSize
        /\ log' = [log EXCEPT ![p] = Append(@, n)] /\ Len(log[p]) < MaxPuts
        /\ UNCHANGED <<rows, failed, lost, pc, draining>>
    BY <1>8 DEF Enqueue, loopVars, diskVars, historyVars
  <2>2. Cardinality(Queued)' = Cardinality(Queued) + 1
    BY <2>1, OneAccepted DEF Threads
  <2>3. Cardinality(adding)' = Cardinality(adding) + 1
    BY <2>1, Finite, FS_AddElement
  <2>4. Exact => Exact'
    BY <1>1, <2>1, <2>2, <2>3, OneEnqueued DEF Exact
  <2>5. Up' /\ ~ draining' => Up /\ ~ draining
    BY <2>1 DEF Up
  <2> QED BY <1>2, <2>4, <2>5 DEF QueueSizeExact, Exact, Counted
<1> QED BY <1>4, <1>5, <1>6, <1>7, <1>8 DEF Environment

LEMMA WorkCounts ==
  ASSUME IInv, QueueSizeExact, Balance', Work
  PROVE  QueueSizeExact'
<1> USE DEF queueVars, threadVars, loopVars, diskVars, historyVars
<1>1. /\ queueSize \in Nat
      /\ Cardinality(adding) \in Nat /\ Cardinality(Queued) \in Nat
  BY Finite DEF IInv, TypeOK
<1>2. QueueSizeExact <=> (Up /\ ~ draining => Exact)
  BY DEF QueueSizeExact, Exact, Counted
<1>3. CASE \/ LoadAll \/ LoadFails \/ SkipStart
           \/ BeginProcess \/ StopSelf \/ BeginDrain
           \/ \E t \in Threads : Visit(t)
           \/ BeginBatch \/ QueueEmpty \/ CloseAll
           \/ BeginCreate \/ EndBatch \/ TakeStats
  <2>1. /\ UNCHANGED <<log, adding, queueSize, rows, failed, lost>>
        /\ draining' = draining \/ draining'
        /\ pc \notin {"down", "stopped"}
    BY <1>3 DEF LoadAll, LoadFails, SkipStart, BeginProcess, StopSelf, BeginDrain,
       Visit, BeginBatch, QueueEmpty, CloseAll, BeginCreate, EndBatch, TakeStats,
       BeginDequeue, Dequeued
  <2> QED BY <2>1, NothingCounted DEF Up
<1>4. CASE OpenFile \/ CreateTable \/ CreateIndex \/ EnableWal \/ PrepareInsert
  <2>1. /\ UNCHANGED <<log, adding, queueSize, rows, failed, lost, draining>>
        /\ pc \notin {"down", "stopped"}
    BY <1>4 DEF OpenFile, CreateTable, CreateIndex, EnableWal, PrepareInsert,
       CreateStep
  <2> QED BY <2>1, NothingCounted DEF Up
<1>5. CASE WriteMetric \/ WriteFails \/ CreateFails \/ TableExists
  <2>1. /\ pos <= Len(batch) /\ UNCHANGED <<log, lost, adding, draining>>
        /\ \/ rows' = [rows EXCEPT ![Current] = @ + 1] /\ failed' = failed
           \/ rows' = rows /\ failed' = failed \cup {Current}
    BY <1>5 DEF WriteMetric, WriteFails, CreateFails, TableExists, IInv, LoopInv,
       InCreate, CreateSteps, TypeOK
  <2>2. /\ pc \notin {"down", "stopped"} /\ NextPoint
    BY <1>5 DEF WriteMetric, WriteFails, CreateFails, TableExists, CreateSteps
  <2>3. Cardinality(Queued) = Cardinality(Queued)' + 1
    BY <2>1, OneSettled
  <2>4. Cardinality(Queued)' \in Nat
    <3>1. Queued' \subseteq Queued
      BY <2>1, QueuedShrinks
    <3> QED BY <3>1, Finite, FS_Subset, FS_CardinalityType
  <2>5. PICK w \in Nat : w = Cardinality(Queued)'
    BY <2>4
  <2>6. ~ draining => queueSize' = (queueSize + SizeMod - 1) % SizeMod
    BY <2>2 DEF NextPoint
  <2>7. Exact => Counted((queueSize + SizeMod - 1) % SizeMod, Cardinality(adding), w)
    BY <1>1, <2>3, <2>5, OneSubtracted DEF Exact
  <2>8. ~ draining /\ Exact => Exact'
    BY <2>1, <2>5, <2>6, <2>7 DEF Exact
  <2>9. Up' /\ ~ draining' => Up /\ ~ draining
    BY <2>1, <2>2 DEF Up
  <2> QED BY <1>2, <2>8, <2>9 DEF QueueSizeExact, Exact, Counted
<1>6. CASE QueueInternal
  <2>1. /\ log' = [log EXCEPT ![Self] = Append(@, Internal[pos])]
        /\ queueSize' = (queueSize + 1) % SizeMod
        /\ UNCHANGED <<adding, rows, failed, lost, draining>>
        /\ pc = "internal"
    BY <1>6 DEF QueueInternal
  <2>2. pos \in 1 .. Len(Internal) /\ Internal[pos] \in Names
    BY <2>1, DatastoreAssumption DEF IInv, LoopInv
  <2>3. Len(log[Self]) < MaxPuts
    <3>1. PICK l : l = Len(log[Self])
      OBVIOUS
    <3>2. l \in Nat /\ Len(Internal) \in Nat /\ MaxPuts \in Nat
      BY <3>1, DatastoreAssumption DEF IInv, TypeOK, Threads
    <3>3. l + (Len(Internal) - pos + 1) <= MaxPuts
      BY <2>1, <3>1 DEF IInv, RoomInv, Unsent
    <3>4. PICK i : i = Len(Internal)
      OBVIOUS
    <3>5. i \in Nat /\ pos \in 1 .. i /\ l + (i - pos + 1) <= MaxPuts
      BY <2>2, <3>2, <3>3, <3>4
    <3>6. l < MaxPuts
      BY <3>2, <3>5
    <3> QED BY <3>1, <3>6
  <2>4. Cardinality(Queued)' = Cardinality(Queued) + 1
    BY <2>1, <2>2, <2>3, OneAccepted DEF Threads
  <2>5. Exact => Exact'
    <3>1. PICK s : s = queueSize
      OBVIOUS
    <3>2. PICK c : c = Cardinality(adding)
      OBVIOUS
    <3>3. PICK w : w = Cardinality(Queued)
      OBVIOUS
    <3>4. s \in Nat /\ c \in Nat /\ w \in Nat
      BY <1>1, <3>1, <3>2, <3>3
    <3>5. Counted(s, c, w) => Counted(s, c + 1, w + 1)
      BY <3>4, OneEnqueued
    <3>6. Counted(s, c + 1, w + 1) => Counted((s + 1) % SizeMod, c, w + 1)
      BY <3>4, OneAdded
    <3> QED BY <2>1, <2>4, <3>1, <3>2, <3>3, <3>5, <3>6 DEF Exact
  <2>6. Up' /\ ~ draining' => Up /\ ~ draining
    BY <2>1 DEF Up
  <2> QED BY <1>2, <2>5, <2>6 DEF QueueSizeExact, Exact, Counted
<1> QED BY <1>3, <1>4, <1>5, <1>6 DEF Work

\* Through every interleaving of QueueMetric's enqueue and fetch_add with the
\* datastore thread's fetch_sub, m_QueueSize counts what waits less the calls
\* that have yet to count theirs, whatever its width.
THEOREM SizeExact == Spec => []QueueSizeExact
<1>1. Init => QueueSizeExact
  BY DEF Init, QueueSizeExact, Up
<1>2. IInv /\ Balance' /\ QueueSizeExact /\ [Next]_vars => QueueSizeExact'
  <2>1. ASSUME IInv, Balance', QueueSizeExact, UNCHANGED vars PROVE QueueSizeExact'
    BY <2>1, NothingCounted DEF vars, queueVars, loopVars, diskVars, historyVars, Up
  <2> QED BY <2>1, EnvironmentCounts, WorkCounts DEF Next
<1> QED BY <1>1, <1>2, Invariance, Balanced, PTL DEF Spec

-----------------------------------------------------------------------------
(* The write count.                                                        *)

Written == Stored \cup failed

\* WritesCountedOnce as it still holds when the batch is reported, and as it
\* begins with the first process.
WriteInv ==
  /\ writeCount + Dealt <= Cardinality(Written)
  /\ boots = 1 /\ Up /\ ~ draining => writeCount + Dealt = Cardinality(Written)
  /\ boots = 0 => pc = "down" /\ Written = {}

LEMMA WrittenFinite ==
  ASSUME IInv
  PROVE  IsFiniteSet(Written) /\ Cardinality(Written) \in Nat
<1>1. IsFiniteSet(Points)
  <2>1. IsFiniteSet(Threads)
    BY ProducersAssumption, FS_AddElement DEF Threads
  <2>2. IsFiniteSet(1 .. MaxPuts)
    BY DatastoreAssumption, FS_Interval
  <2> QED BY <2>1, <2>2, FS_Product DEF Points
<1>2. Written \in SUBSET Points
  BY DEF IInv, TypeOK, Written, Stored
<1> QED BY <1>1, <1>2, FS_Subset, FS_CardinalityType

LEMMA DealtIsNat == ASSUME IInv PROVE Dealt \in Nat /\ writeCount \in Nat
<1>1. ASSUME pc \in {"write"} \cup CreateSteps PROVE pos \in Nat /\ pos >= 1
  <2>1. Len(batch) \in Nat
    BY DEF IInv, TypeOK
  <2> QED BY <1>1, <2>1 DEF IInv, LoopInv, InCreate
<1> QED BY <1>1 DEF Dealt, IInv, TypeOK

\* Steps that settle and report nothing.
LEMMA NothingWritten ==
  ASSUME IInv, WriteInv, UNCHANGED <<writeCount, rows, failed, boots>>,
         Dealt' = Dealt, Up' => Up, draining => draining',
         pc = "down" => pc' = "down"
  PROVE  WriteInv'
<1>1. Written' = Written
  BY DEF Written, Stored
<1> QED BY <1>1, DealtIsNat, WrittenFinite DEF WriteInv

LEMMA EnvironmentReports ==
  ASSUME IInv, WriteInv, Environment
  PROVE  WriteInv'
<1> USE DEF queueVars, statsVars, threadVars, loopVars, diskVars, historyVars
<1>1. CASE Boot \/ Crash
  <2>1. writeCount' = 0 /\ Dealt' = 0 /\ UNCHANGED <<rows, failed>>
    BY <1>1 DEF Boot, Crash, LoseMemory, Dealt, CreateSteps
  <2>2. Written' = Written
    BY <2>1 DEF Written, Stored
  <2>3. boots' # 0 /\ (boots' = 1 /\ Up' => boots = 0)
    BY <1>1 DEF Boot, Crash, Up, IInv, TypeOK, WriteInv
  <2>4. boots = 0 => Cardinality(Written) = 0
    BY FS_EmptySet DEF WriteInv
  <2> QED BY <2>1, <2>2, <2>3, <2>4, WrittenFinite DEF WriteInv
<1>2. CASE \/ StopNetwork \/ StopThread \/ UpdateStats \/ ApiStats
           \/ \E p \in Producers : AddSize(p) \/ \E n \in Names : Enqueue(p, n)
  <2>1. UNCHANGED <<writeCount, rows, failed, boots, draining, pc, pos>>
    BY <1>2 DEF StopNetwork, StopThread, UpdateStats, ApiStats, AddSize, Enqueue
  <2> QED BY <2>1, NothingWritten DEF Dealt, Up
<1> QED BY <1>1, <1>2 DEF Environment

\* One more metric is written or dropped.
LEMMA WrittenGrows ==
  ASSUME IInv, pos <= Len(batch),
         \/ rows' = [rows EXCEPT ![Current] = @ + 1] /\ failed' = failed
         \/ rows' = rows /\ failed' = failed \cup {Current}
  PROVE  Cardinality(Written)' = Cardinality(Written) + 1
<1>1. Current \in Points /\ Current \in InBatch
  BY CurrentIsTaken
<1>2. Current \notin Written
  BY <1>1 DEF IInv, PlaceInv, Settled, Written
<1>3. Written' = Written \cup {Current}
  <2>1. rows \in [Points -> Nat]
    BY DEF IInv, TypeOK
  <2>2. CASE rows' = [rows EXCEPT ![Current] = @ + 1] /\ failed' = failed
    <3>1. Stored' = Stored \cup {Current}
      BY <1>1, <2>1, <2>2 DEF Stored
    <3> QED BY <2>2, <3>1 DEF Written
  <2>3. CASE rows' = rows /\ failed' = failed \cup {Current}
    BY <2>3 DEF Written, Stored
  <2> QED BY <2>2, <2>3
<1> QED BY <1>2, <1>3, WrittenFinite, FS_AddElement

LEMMA WorkReports ==
  ASSUME IInv, WriteInv, Work
  PROVE  WriteInv'
<1> USE DEF queueVars, statsVars, threadVars, loopVars, diskVars, historyVars
<1>1. CASE \/ LoadAll \/ LoadFails \/ SkipStart
           \/ BeginProcess \/ StopSelf \/ BeginDrain
           \/ \E t \in Threads : Visit(t)
           \/ QueueEmpty \/ CloseAll \/ TakeStats \/ QueueInternal
  <2>1. /\ UNCHANGED <<writeCount, rows, failed, boots>>
        /\ pc \notin {"write", "down"} \cup CreateSteps
        /\ pc' \notin {"write"} \cup CreateSteps
        /\ Up /\ (draining => draining')
    BY <1>1 DEF LoadAll, LoadFails, SkipStart, BeginProcess, StopSelf, BeginDrain,
       Visit, QueueEmpty, CloseAll, TakeStats, QueueInternal, BeginDequeue,
       Dequeued, CreateSteps, Up
  <2> QED BY <2>1, NothingWritten DEF Dealt, Up
<1>2. CASE BeginBatch
  <2>1. /\ UNCHANGED <<writeCount, rows, failed, boots, draining, pos>>
        /\ pos = 1 /\ pc = "dequeue" /\ Up
    BY <1>2 DEF BeginBatch, Dequeued, IInv, LoopInv, CreateSteps, Up
  <2>2. Dealt' = 0 /\ Dealt = 0
    BY <2>1 DEF Dealt, CreateSteps
  <2> QED BY <2>1, <2>2, NothingWritten
<1>3. CASE \/ BeginCreate \/ OpenFile \/ CreateTable \/ CreateIndex
           \/ EnableWal \/ PrepareInsert
  <2>1. /\ UNCHANGED <<writeCount, rows, failed, boots, draining, pos>>
        /\ pc \in {"write"} \cup CreateSteps /\ pc' \in {"write"} \cup CreateSteps
    BY <1>3 DEF BeginCreate, OpenFile, CreateTable, CreateIndex, EnableWal,
       PrepareInsert, CreateStep, CreateSteps
  <2> QED BY <2>1, NothingWritten DEF Dealt, Up, CreateSteps
<1>4. CASE WriteMetric \/ WriteFails \/ CreateFails \/ TableExists
  <2>1. /\ pos <= Len(batch) /\ UNCHANGED <<writeCount, draining, boots>>
        /\ \/ rows' = [rows EXCEPT ![Current] = @ + 1] /\ failed' = failed
           \/ rows' = rows /\ failed' = failed \cup {Current}
    BY <1>4 DEF WriteMetric, WriteFails, CreateFails, TableExists, IInv, LoopInv,
       InCreate, CreateSteps, TypeOK
  <2>2. pc \in {"write"} \cup CreateSteps /\ pos' = pos + 1 /\ pc' = "write"
    BY <1>4 DEF WriteMetric, WriteFails, CreateFails, TableExists, CreateSteps,
       NextPoint
  <2>3. Cardinality(Written)' = Cardinality(Written) + 1
    BY <2>1, WrittenGrows
  <2>4. pos \in Nat
    BY DEF IInv, TypeOK
  <2>5. Dealt' = IF draining THEN Dealt ELSE Dealt + 1
    BY <2>1, <2>2, <2>4 DEF Dealt
  <2>6. Up /\ pc # "down"
    BY <2>2 DEF Up, CreateSteps
  <2> QED BY <2>1, <2>3, <2>5, <2>6, DealtIsNat, WrittenFinite DEF WriteInv
<1>5. CASE EndBatch
  <2>1. /\ UNCHANGED <<rows, failed, draining, boots>> /\ Dealt' = 0
        /\ pc = "write" /\ pos > Len(batch) /\ Up
    BY <1>5 DEF EndBatch, BeginDequeue, Dealt, CreateSteps, Up
  <2>2. pos = Len(batch) + 1 /\ Len(batch) \in Nat
    BY <2>1 DEF IInv, LoopInv, TypeOK
  <2>3. Dealt = IF draining THEN 0 ELSE Len(batch)
    BY <2>1, <2>2 DEF Dealt
  <2>4. writeCount' = writeCount + Dealt
    BY <1>5, <2>3, DealtIsNat DEF EndBatch
  <2>5. Written' = Written
    BY <2>1 DEF Written, Stored
  <2> QED BY <2>1, <2>4, <2>5, DealtIsNat, WrittenFinite DEF WriteInv
<1> QED BY <1>1, <1>2, <1>3, <1>4, <1>5 DEF Work

\* AddWriteCount takes the size of a batch whose metrics were dealt with one
\* by one: whatever was cut, failed or crashed, the sum never runs ahead of
\* what is written or dropped, and lacks only the batch at hand.
THEOREM CountedOnce == Spec => []WritesCountedOnce
<1>1. Init => WriteInv
  <2> SUFFICES ASSUME Init PROVE WriteInv
    OBVIOUS
  <2>1. Written = {} /\ writeCount = 0 /\ Dealt = 0 /\ pc = "down"
    BY DEF Init, Written, Stored, Dealt, CreateSteps
  <2> QED BY <2>1, FS_EmptySet DEF WriteInv
<1>2. IInv /\ WriteInv /\ [Next]_vars => WriteInv'
  <2>1. ASSUME IInv, WriteInv, UNCHANGED vars PROVE WriteInv'
    BY <2>1, NothingWritten DEF vars, statsVars, loopVars, diskVars, historyVars,
       Dealt, Up
  <2> QED BY <2>1, EnvironmentReports, WorkReports DEF Next
<1>3. IInv /\ WriteInv => WritesCountedOnce
  BY DealtIsNat, WrittenFinite DEF WriteInv, WritesCountedOnce, Written
<1> QED BY <1>1, <1>2, <1>3, Invariance, PTL DEF Spec
=============================================================================
