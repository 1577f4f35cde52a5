------------------------------ MODULE PointLog ------------------------------
(***************************************************************************)
(* What SimpleTSDB promises about a data point it has accepted, with no    *)
(* queue, thread or file in sight: the points of one thread are settled in *)
(* the order in which the thread handed them over, a point is settled once,*)
(* only a crash may lose a point, and a clean stop leaves none unsettled.  *)
(* Datastore.tla is shown to implement this module.                        *)
(***************************************************************************)
EXTENDS Naturals

CONSTANTS
  Threads,   \* the threads that hand points to the datastore
  MaxPuts    \* bound: points handed over by one thread

\* The k-th point a thread hands over.
Points == Threads \X (1 .. MaxPuts)

VARIABLES
  fate,      \* what became of each point
  phase      \* is a datastore process at work?

vars == <<fate, phase>>

Fates == {"new", "queued", "stored", "failed", "lost"}

TypeOK ==
  /\ fate \in [Points -> Fates]
  /\ phase \in {"on", "off"}

Unsettled(pt) == fate[pt] = "queued"

\* The points the same thread handed over before pt.
Earlier(pt) == {q \in Points : q[1] = pt[1] /\ q[2] < pt[2]}

Init ==
  /\ fate = [pt \in Points |-> "new"]
  /\ phase = "off"

Start ==
  /\ phase = "off"
  /\ phase' = "on"
  /\ UNCHANGED fate

Accept(pt) ==
  /\ phase = "on"
  /\ fate[pt] = "new"
  /\ \A q \in Earlier(pt) : fate[q] # "new"
  /\ fate' = [fate EXCEPT ![pt] = "queued"]
  /\ UNCHANGED phase

\* A point becomes a row, or its database refuses it and a warning is logged.
Settle(pt) ==
  /\ phase = "on"
  /\ Unsettled(pt)
  /\ \A q \in Earlier(pt) : ~ Unsettled(q)
  /\ \E f \in {"stored", "failed"} : fate' = [fate EXCEPT ![pt] = f]
  /\ UNCHANGED phase

Stop ==
  /\ phase = "on"
  /\ \A pt \in Points : ~ Unsettled(pt)
  /\ phase' = "off"
  /\ UNCHANGED fate

Crash ==
  /\ phase = "on"
  /\ phase' = "off"
  /\ fate' = [pt \in Points |-> IF Unsettled(pt) THEN "lost" ELSE fate[pt]]

Next ==
  \/ Start \/ Stop \/ Crash
  \/ \E pt \in Points : Accept(pt) \/ Settle(pt)

Spec == Init /\ [][Next]_vars
=============================================================================
