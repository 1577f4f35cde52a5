------------------------ MODULE LifecycleProperties ------------------------
(***************************************************************************)
(* What the start and the stop of the service guarantee, from wherever a   *)
(* failure or a stop request cuts the start short.                         *)
(***************************************************************************)
EXTENDS Lifecycle

\* The thread of a unit exists and still runs code of this program.
Alive(u) == tpc[u] \notin Gone

\* What each thread calls into besides its own unit: telnet and HTTP queue
\* metrics and count them, the datastore asks for the statistics.
UsedBy(u) == CASE u = "telnet" -> {"telnet", "datastore", "stats"}
               [] u = "datastore" -> {"datastore", "stats"}
               [] u = "stats" -> {"stats"}

-----------------------------------------------------------------------------
\* The type of every variable.
TypeOK ==
  /\ enabled \subseteq Interfaces
  /\ status \in {"start_pending", "running", "stop_pending", "stopped"}
  /\ stopEvent \in BOOLEAN
  /\ main \in {"construct", "start", "created", "handled", "wait", "stop",
               "join", "delete", "report", "ended"}
  /\ at \in 1 .. 4
  /\ started \in [Units -> BOOLEAN] /\ running \in [Units -> BOOLEAN]
  /\ handle \in [Units -> BOOLEAN] /\ helper \in [Units -> BOOLEAN]
  /\ ok \in [Units -> BOOLEAN]
  /\ tpc \in [Units -> {"none", "created", "loop", "process", "send",
                        "selfwait", "stopping", "ended"}]
  /\ http \in {"off", "up", "closing"}
  /\ busy \subseteq Workers
  /\ deleted \subseteq Units

\* No thread outlives its ThreadHelper, on whose Exec it runs: not even one
\* that calls Stop on itself, since Process is not called before m_Handle is
\* set and a set handle makes Stop wait before it deletes the helper.
HelperOutlivesThread == \A u \in Units : Alive(u) => helper[u]

\* No thread and no request is left that could call into an object the
\* kernel has deleted.
NothingUsesTheDeleted ==
  /\ \A u \in Units : Alive(u) => UsedBy(u) \cap deleted = {}
  /\ busy # {} => deleted = {}

\* While an interface may still take metrics, the datastore thread has not
\* begun to drain its queue: telnet and HTTP are stopped, and their threads
\* waited for, before the datastore is told to stop.  Datastore.tla takes
\* this order for granted.
InterfacesStopFirst ==
  Alive("telnet") \/ http # "off" => tpc["datastore"] \notin {"stopping", "ended"}

\* The service reports STOPPED only when no thread is left at work, also
\* after a start that failed half way.
StoppedIsOver ==
  status = "stopped" => http = "off" /\ \A u \in Units : ~ Alive(u)

\* A unit whose Start failed waits for the end of its own thread.
WaitsForItself == \E u \in Units : tpc[u] = "selfwait"

\* A client that does not read holds telnet's thread in send, and with it
\* whoever waits for that thread.  The two properties below are of clients
\* that each read or go at some time.
ClientsLetGo == []<>(tpc["telnet"] # "send")

\* The start comes to an end, wherever it fails: the service runs, or its
\* threads have been stopped again, or a unit waits for itself, or a telnet
\* client that does not read keeps the kernel from taking back the start.
StartCompletes ==
  ClientsLetGo => <>(status \in {"running", "stopped"} \/ WaitsForItself)

\* A service that was asked to stop stops, unless a unit waits for itself or
\* a telnet client that does not read never goes.
StopCompletes ==
  ClientsLetGo => (stopEvent ~> status = "stopped" \/ WaitsForItself)

-----------------------------------------------------------------------------
(* The inductive invariant behind the safety properties above.             *)

\* ServiceMain on its way up, or waiting for a stop.
UpPhase == {"construct", "start", "created", "handled", "wait"}

Over(u) == IF u = "http" THEN http = "off" ELSE tpc[u] \in Gone

\* The one thread without a handle is the one being created; before a thread
\* has its handle it calls no Process, and after a stop it never runs.
ThreadInv ==
  /\ \A u \in Units :
       /\ Alive(u) /\ ~ handle[u] => main = "created" /\ StartOrder[at] = u
       /\ tpc[u] \in {"process", "send", "selfwait"} => handle[u]
       /\ running[u] => handle[u]
       /\ tpc[u] \in {"stopping", "ended"} => ~ started[u]
  /\ main = "handled" => at <= 3 /\ handle[StartOrder[at]]
  /\ main = "join" /\ at > 1 => ~ running[StopOrder[at]]

\* What the kernel has gone past on its way down is over for good.
DownInv ==
  /\ http = "off" => busy = {}
  /\ http = "closing" => main = "join" /\ at = 1
  /\ main \in {"stop", "join"} => \A i \in 1 .. at - 1 : Over(StopOrder[i])
  /\ main \in {"construct", "delete", "report", "ended"} =>
       \A i \in 1 .. 4 : Over(StopOrder[i])

\* The datastore thread is told to stop only once the kernel gets to it,
\* unless by itself, and then it waits for ever.
OrderInv ==
  ~ started["datastore"] /\ tpc["datastore"] \notin {"none", "selfwait"} =>
    /\ main \notin UpPhase
    /\ main = "stop" => at > 3
    /\ main = "join" => at >= 3

DeleteInv ==
  /\ deleted # {} => main \notin UpPhase
  /\ "telnet" \in deleted => Over("telnet") /\ Over("http")
  /\ deleted \cap {"datastore", "stats"} # {} => main \in {"report", "ended"}
  /\ status = "stopped" => main = "ended"

\* All of it, with the invariants it is inductive with.
IInv ==
  /\ TypeOK /\ HelperOutlivesThread
  /\ ThreadInv /\ DownInv /\ OrderInv /\ DeleteInv

-----------------------------------------------------------------------------
\* README.md gives "net stop simpletsdb" as the way to stop the service.
NetStopStops == stopEvent ~> status = "stopped"
=============================================================================
