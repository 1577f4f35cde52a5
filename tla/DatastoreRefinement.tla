------------------------- MODULE DatastoreRefinement -------------------------
(***************************************************************************)
(* The datastore implements PointLog: its queue, batches, databases and    *)
(* restarts are seen from outside as points that are accepted, settled in  *)
(* each thread's order and lost only by a crash.                           *)
(***************************************************************************)
EXTENDS DatastoreProofs

\* The fates PointLog tells apart, read off the sets of the datastore.
LEMMA FateIs ==
  ASSUME IInv
  PROVE  /\ \A pt \in Points : (Fate[pt] = "queued") <=> pt \in Queued
         /\ \A pt \in Points : (Fate[pt] = "new") <=> pt \notin Accepted
         /\ \A pt \in Points : Fate[pt] = "lost" <=> pt \in lost
<1>1. Queued \cap Settled = {} /\ Accepted = Queued \cup Settled
  BY Disjoint
<1>2. failed \cap lost = {}
  BY DEF IInv, PlaceInv
<1> QED BY <1>1, <1>2 DEF Fate, Settled

\* Steps PointLog does not see.
LEMMA Unseen ==
  ASSUME UNCHANGED <<log, rows, failed, lost>>, Up' = Up
  PROVE  UNCHANGED <<Fate, Phase>>
<1>1. Accepted' = Accepted /\ Stored' = Stored
  BY DEF Accepted, Stored
<1> QED BY <1>1 DEF Fate, Phase

\* QueueMetric is Accept of the thread's next point.
LEMMA MapsAccept ==
  ASSUME IInv, NEW t \in Threads, NEW n \in Names, Up, Up',
         Len(log[t]) < MaxPuts, log' = [log EXCEPT ![t] = Append(@, n)],
         UNCHANGED <<rows, failed, lost>>
  PROVE  P!Next
<1> USE DatastoreAssumption
<1> DEFINE pt == <<t, Len(log[t]) + 1>>
<1>1. /\ \A u \in Threads : Len(log'[u]) = Len(log[u]) + (IF u = t THEN 1 ELSE 0)
      /\ \A u \in Threads : Len(log[u]) \in Nat
  BY NamesKept DEF IInv, TypeOK
<1>2. pt \in Points /\ pt \notin Accepted
  BY <1>1 DEF Points, Accepted
<1>3. Accepted' = Accepted \cup {pt}
  <2>1. ASSUME NEW q \in Points
        PROVE  q \in Accepted' <=> q \in Accepted \/ q = pt
    <3>1. q = <<q[1], q[2]>> /\ q[1] \in Threads /\ q[2] \in Nat
      BY DEF Points
    <3>2. q \in Accepted' <=> q[2] <= Len(log'[q[1]])
      BY DEF Accepted
    <3>3. q \in Accepted <=> q[2] <= Len(log[q[1]])
      BY DEF Accepted
    <3>4. CASE q[1] = t
      <4>1. q = pt <=> q[2] = Len(log[t]) + 1
        BY <3>1, <3>4
      <4>2. Len(log'[t]) = Len(log[t]) + 1 /\ Len(log[t]) \in Nat
        BY <1>1
      <4>3. q[2] <= Len(log[t]) + 1 <=> q[2] <= Len(log[t]) \/ q[2] = Len(log[t]) + 1
        BY <3>1, <4>2
      <4> HIDE DEF pt
      <4> QED BY <3>2, <3>3, <3>4, <4>1, <4>2, <4>3
    <3>5. CASE q[1] # t
      <4>1. q # pt /\ Len(log'[q[1]]) = Len(log[q[1]])
        BY <3>1, <3>5, <1>1
      <4> QED BY <3>2, <3>3, <4>1
    <3> QED BY <3>4, <3>5
  <2>2. Accepted \subseteq Points /\ Accepted' \subseteq Points
    BY DEF Accepted
  <2> QED BY <2>1, <2>2, <1>2
<1>4. pt \notin Settled /\ Stored' = Stored
  BY <1>2, Disjoint DEF Stored
<1>5. Fate' = [Fate EXCEPT ![pt] = "queued"]
  BY <1>2, <1>3, <1>4 DEF Fate, Settled
<1>6. ASSUME NEW q \in Points, q[1] = pt[1], q[2] < pt[2] PROVE Fate[q] # "new"
  <2>1. q \in Accepted
    BY <1>1, <1>6 DEF Points, Accepted
  <2> QED BY <2>1 DEF Fate
<1>7. Fate[pt] = "new" /\ Phase = "on" /\ Phase' = "on"
  BY <1>2 DEF Fate, Phase
<1> HIDE DEF pt
<1>8. P!Accept(pt)
  BY <1>2, <1>5, <1>6, <1>7 DEF P!Accept, P!Earlier, P!Points, Points
<1> QED BY <1>2, <1>8 DEF P!Next, P!Points, Points

\* A turn of the for loop is Settle: no earlier point of the thread is left.
LEMMA MapsSettle ==
  ASSUME IInv, IInv', WriteMetric \/ WriteFails \/ CreateFails \/ TableExists
  PROVE  P!Next
<1> DEFINE c == Current
<1>1. /\ UNCHANGED <<log,
                     lost>> /\ Up /\ Up' /\ pos' = pos + 1 /\ UNCHANGED batch
      /\ pos \in 1 .. Len(batch)
  BY SMTT(30) DEF WriteMetric, WriteFails, CreateFails, TableExists, NextPoint, Up,
     CreateSteps, IInv, LoopInv, InCreate, TypeOK, historyVars
<1>2. c \in Points /\ c \in Accepted /\ c \in Queued /\ c \notin Settled
  BY <1>1, CurrentIsTaken DEF Queued
<1>3. \/ rows' = [rows EXCEPT ![c] = @ + 1] /\ failed' = failed
      \/ rows' = rows /\ failed' = failed \cup {c}
  BY DEF WriteMetric, WriteFails, CreateFails, TableExists, diskVars,
     historyVars
<1>4. Accepted' = Accepted
  BY <1>1 DEF Accepted
<1> HIDE DEF c
<1>5. \/ Stored' = Stored \cup {c} /\ failed' = failed
      \/ Stored' = Stored /\ failed' = failed \cup {c}
  BY SMTT(30), <1>2, <1>3 DEF Stored, IInv, TypeOK
<1>6. \E f \in {"stored", "failed"} : Fate' = [Fate EXCEPT ![c] = f]
  BY <1>1, <1>2, <1>4, <1>5 DEF Fate, Settled
<1>7. ASSUME NEW q \in Points, q[1] = c[1], q[2] < c[2] PROVE q \notin Queued
  <2>1. c \in Settled'
    BY <1>5 DEF Settled
  <2>2. /\ q = <<c[1], q[2]>> /\ c = <<c[1], c[2]>> /\ c[1] \in Threads
        /\ c[2] \in 1 .. MaxPuts /\ q[2] \in 1 .. MaxPuts
    BY <1>2, <1>7 DEF Points
  <2>3. q \in Settled'
    BY <2>1, <2>2, <1>7 DEF IInv, NoOvertaking
  <2>4. q \in Settled
    BY <2>2, <2>3, <1>1, <1>5, <1>7, DatastoreAssumption DEF Settled
  <2> QED BY <2>4, Disjoint
<1>8. /\ Fate[c] = "queued"
      /\ \A q \in Points : q[1] = c[1] /\ q[2] < c[2] => Fate[q] # "queued"
      /\ Phase = "on" /\ Phase' = "on"
  BY <1>1, <1>2, <1>7, FateIs DEF Phase
<1>9. P!Settle(c)
  BY <1>2, <1>6, <1>8 DEF P!Settle, P!Unsettled, P!Earlier, P!Points, Points
<1> QED BY <1>2, <1>9 DEF P!Next, P!Points, Points

\* A crash of the process is Crash.
LEMMA MapsCrash == ASSUME IInv, Crash PROVE P!Next
<1>1. /\ Up /\ ~ Up' /\ UNCHANGED <<log, rows,
                                    failed>> /\ lost' = lost \cup Queued
  BY DEF Crash, LoseMemory, Up, diskVars
<1>2. Accepted' = Accepted /\ Stored' = Stored
  BY <1>1 DEF Accepted, Stored
<1>3. Fate' = [pt \in Points |-> IF Fate[pt] = "queued" THEN "lost" ELSE Fate[pt]]
  <2>1. Accepted = Queued \cup Settled /\ Queued \cap Settled = {}
    BY Disjoint
  <2>2. ASSUME NEW pt \in Points
        PROVE  Fate'[pt] = IF Fate[pt] = "queued" THEN "lost" ELSE Fate[pt]
    BY <1>1, <1>2, <2>1 DEF Fate, Settled
  <2>3. Fate' = [pt \in Points |-> Fate'[pt]]
    BY DEF Fate
  <2> QED BY <2>2, <2>3
<1>4. Phase = "on" /\ Phase' = "off"
  BY <1>1 DEF Phase
<1> QED BY <1>3, <1>4 DEF P!Next, P!Crash, P!Unsettled, P!Points, Points

\* A start is Start: the process before left nothing in the queue.
LEMMA MapsBoot == ASSUME IInv, Boot PROVE P!Next
<1>1. ~ Up /\ Up' /\ UNCHANGED <<log, rows, failed>> /\ lost' = lost \cup Queued
  BY DEF Boot, LoseMemory, Up, diskVars
<1>2. Queued = {}
  BY <1>1 DEF IInv, LoopInv, CreateSteps, Up, Queued, InBatch
<1>3. Accepted' = Accepted /\ Stored' = Stored /\ lost' = lost
  BY <1>1, <1>2 DEF Accepted, Stored
<1>4. Fate' = Fate
  BY <1>1, <1>3 DEF Fate
<1> QED BY <1>1, <1>4 DEF P!Next, P!Start, Phase

\* The end of Datastore::Stop is Stop: nothing is left to settle.
LEMMA MapsStop == ASSUME IInv, IInv', CloseAll PROVE P!Next
<1>1. Up /\ ~ Up' /\ UNCHANGED <<log, rows, failed, lost, head, batch, pos>>
  BY DEF CloseAll, Dequeued, Up, queueVars, loopVars, diskVars, historyVars
<1>2. Queued = {}
  <2>1. Queued' = {}
    BY <1>1 DEF IInv, LoopInv, CreateSteps, Up, Queued, InBatch, CloseAll
  <2> QED BY <1>1, <2>1 DEF Queued, InQueue, InBatch
<1>3. Fate' = Fate
  BY <1>1 DEF Fate, Accepted, Stored
<1>4. \A pt \in Points : Fate[pt] # "queued"
  BY <1>2, FateIs
<1> QED BY <1>1, <1>3, <1>4 DEF P!Next, P!Stop, P!Unsettled, P!Points, Points,
           Phase

\* The datastore implements PointLog.  Every step is a step of PointLog or
\* one it does not see.
THEOREM Refinement == Spec => ImplementsPointLog
<1>1. Init => P!Init
  <2> SUFFICES ASSUME Init PROVE P!Init
    OBVIOUS
  <2>1. Accepted = {}
    BY DEF Init, Accepted, Points
  <2> QED BY <2>1 DEF P!Init, Fate, Phase, P!Points, Points, Up, Init
<1>2. IInv /\ IInv' /\ [Next]_vars => [P!Next]_P!vars
  <2> SUFFICES ASSUME IInv, IInv', [Next]_vars PROVE P!Next \/ UNCHANGED <<Fate, Phase>>
    BY DEF P!vars
  <2> USE DEF queueVars, statsVars, threadVars, loopVars, diskVars, historyVars, Up
  <2>1. CASE UNCHANGED vars
    BY <2>1, Unseen DEF vars
  <2>2. CASE Boot \/ Crash \/ CloseAll
    BY <2>2, MapsBoot, MapsCrash, MapsStop
  <2>3. CASE WriteMetric \/ WriteFails \/ CreateFails \/ TableExists
    BY <2>3, MapsSettle
  <2>4. ASSUME NEW p \in Producers, NEW n \in Names, Enqueue(p, n) PROVE P!Next
    BY <2>4, MapsAccept DEF Enqueue, Threads, IInv, StopInv
  <2>5. CASE QueueInternal
    <3>1. pos \in 1 .. Len(Internal) /\ Len(log[Self]) < MaxPuts /\ Self \in Threads
      <4>1. Len(log'[Self]) <= MaxPuts /\ pos \in 1 .. Len(Internal) /\ Self \in Threads
        BY <2>5 DEF IInv, TypeOK, LoopInv, QueueInternal, Threads
      <4>2. Internal[pos] \in Names
        BY <4>1, DatastoreAssumption, ElementOfSeq
      <4>3. Len(log'[Self]) = Len(log[Self]) + 1 /\ Len(log[Self]) \in Nat
        BY <2>5, <4>1, <4>2, NamesKept DEF IInv, TypeOK, QueueInternal
      <4> QED BY <4>1, <4>3, DatastoreAssumption
    <3>2. Internal[pos] \in Names
      BY <3>1, DatastoreAssumption, ElementOfSeq
    <3>3. Up /\ Up' /\ UNCHANGED <<rows, failed, lost>>
      BY <2>5 DEF QueueInternal
    <3> QED BY <2>5, <3>1, <3>2, <3>3, MapsAccept DEF QueueInternal
  <2>6. CASE \/ StopNetwork \/ StopThread \/ UpdateStats \/ ApiStats
             \/ \E p \in Producers : AddSize(p)
    BY <2>6, Unseen DEF StopNetwork, StopThread, UpdateStats, ApiStats, AddSize
  <2>7. CASE \/ LoadAll \/ LoadFails \/ SkipStart
             \/ BeginProcess \/ StopSelf \/ BeginDrain \/ EndBatch \/ TakeStats
    BY <2>7, Unseen DEF LoadAll, LoadFails, SkipStart, BeginProcess, StopSelf,
       BeginDrain, EndBatch, TakeStats, BeginDequeue
  <2>8. CASE (\E t \in Threads : Visit(t)) \/ BeginBatch \/ QueueEmpty \/ BeginCreate
    BY <2>8, Unseen DEF Visit, BeginBatch, QueueEmpty, BeginCreate, Dequeued
  <2>9. CASE OpenFile \/ CreateTable \/ CreateIndex \/ EnableWal \/ PrepareInsert
    BY <2>9, Unseen DEF OpenFile, CreateTable, CreateIndex, EnableWal,
       PrepareInsert, CreateStep
  <2>10. CASE Environment
    BY <2>2, <2>4, <2>6, <2>10 DEF Environment
  <2>11. CASE Work
    BY <2>2, <2>3, <2>5, <2>7, <2>8, <2>9, <2>11 DEF Work
  <2> QED BY <2>1, <2>10, <2>11 DEF Next
<1> QED BY <1>1, <1>2, Invariance, PTL DEF Spec, ImplementsPointLog, P!Spec
=============================================================================
