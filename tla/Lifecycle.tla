------------------------------ MODULE Lifecycle ------------------------------
(***************************************************************************)
(* How the service comes up and goes down: ServiceMain constructs a Kernel, *)
(* the kernel starts the statistics thread, the datastore thread, the      *)
(* telnet thread and the HTTP server, and its destructor stops them in the *)
(* opposite order, from wherever the start got to.  The three threads are  *)
(* objects of class Thread; the HTTP server and its workers are civetweb's. *)
(*                                                                         *)
(* Thread::Stop clears m_Running and m_Started in one step here: a thread  *)
(* that sees only the first goes once more round its loop without a call.  *)
(***************************************************************************)
EXTENDS Naturals, Sequences, FiniteSets

CONSTANTS
  Workers,  \* threads of civetweb that serve requests
  Faults    \* what may fail

Units == {"stats", "datastore", "telnet"}
Interfaces == {"telnet", "http"}

\* Kernel::Start and Kernel::Stop.
StartOrder == <<"stats", "datastore", "telnet", "http">>

\* Mutant: what was started first is stopped first.
StopOrderAsStarted == StartOrder

StopOrder == <<"http", "telnet", "datastore", "stats">>

ASSUME LifecycleAssumption ==
  Faults \subseteq {"config", "thread", "scan", "bind", "http", "deaf"}

VARIABLES
  enabled,    \* the interfaces with a port other than 0
  status,     \* g_CurrentStatus.dwCurrentState
  stopEvent,  \* is g_hStopEvent set?
  main,       \* where ServiceMain is
  at,         \* index of the unit it is starting or stopping
  started,    \* Thread::m_Started
  running,    \* Thread::m_Running
  handle,     \* is Thread::m_Handle set?
  helper,     \* does the ThreadHelper exist?
  ok,         \* did ThreadProc::Start succeed?  (m_Running of the unit)
  tpc,        \* where each unit's thread is
  http,       \* the civetweb context
  busy,       \* workers inside a request handler
  deleted     \* units whose object is gone

serviceVars == <<enabled, status, stopEvent>>
mainVars == <<main, at>>
threadVars == <<started, running, handle, helper>>
unitVars == <<ok, tpc>>
httpVars == <<http, busy>>
vars == <<serviceVars, mainVars, threadVars, unitVars, httpVars, deleted>>

-----------------------------------------------------------------------------
Init ==
  /\ enabled \in SUBSET Interfaces
  /\ status = "start_pending" /\ stopEvent = FALSE
  /\ main = "construct" /\ at = 1
  /\ started = [u \in Units |-> FALSE] /\ running = [u \in Units |-> FALSE]
  /\ handle = [u \in Units |-> FALSE] /\ helper = [u \in Units |-> FALSE]
  /\ ok = [u \in Units |-> FALSE] /\ tpc = [u \in Units |-> "none"]
  /\ http = "off" /\ busy = {}
  /\ deleted = {}

\* What a thread can no longer be expected to do.
Gone == {"none", "ended"}

-----------------------------------------------------------------------------
(* ServiceMain: the way up.                                                *)

\* Kernel::Kernel makes the objects; without a configuration it throws and
\* nothing was started.
Construct ==
  /\ main = "construct"
  /\ main' = "start"
  /\ UNCHANGED <<serviceVars, at, threadVars, unitVars, httpVars, deleted>>

ConstructFails ==
  /\ main = "construct" /\ "config" \in Faults
  /\ main' = "report"
  /\ UNCHANGED <<serviceVars, at, threadVars, unitVars, httpVars, deleted>>

Starting(u) == main = "start" /\ StartOrder[at] = u

\* On to the next unit; after the last one the service reports RUNNING.
NextStart ==
  IF at < Len(StartOrder)
  THEN at' = at + 1 /\ main' = "start" /\ UNCHANGED status
  ELSE at' = at /\ main' = "wait" /\ status' = "running"

\* Kernel::Start throws, and the kernel is destroyed on the way out.
AbortStart == main' = "stop" /\ at' = 1

SkipInterface(u) ==
  /\ Starting(u)
  /\ u \in Interfaces \ enabled
  /\ NextStart
  /\ UNCHANGED <<enabled, stopEvent, threadVars, unitVars, httpVars, deleted>>

\* Mutant: m_Running is set before there is a thread to run.
CreateRunningThread(u) ==
  /\ Starting(u) /\ u \in {"stats", "datastore"} \cup enabled
  /\ helper' = [helper EXCEPT ![u] = TRUE]
  /\ started' = [started EXCEPT ![u] = TRUE]
  /\ running' = [running EXCEPT ![u] = TRUE]
  /\ tpc' = [tpc EXCEPT ![u] = "created"]
  /\ main' = "created"
  /\ UNCHANGED <<serviceVars, at, handle, ok, httpVars, deleted>>

\* Thread::Start up to and with the call of CreateThread.
CreateThread(u) ==
  /\ Starting(u) /\ u \in {"stats", "datastore"} \cup enabled
  /\ helper' = [helper EXCEPT ![u] = TRUE]
  /\ started' = [started EXCEPT ![u] = TRUE]
  /\ tpc' = [tpc EXCEPT ![u] = "created"]
  /\ main' = "created"
  /\ UNCHANGED <<serviceVars, at, running, handle, ok, httpVars, deleted>>

CreateThreadFails(u) ==
  /\ Starting(u) /\ u \in {"stats", "datastore"} \cup enabled
  /\ "thread" \in Faults
  /\ helper' = [helper EXCEPT ![u] = TRUE]
  /\ AbortStart
  /\ UNCHANGED <<serviceVars, started, running, handle, unitVars, httpVars,
                 deleted>>

\* CreateThread has returned; the thread may have been at work for a while.
SetHandle(u) ==
  /\ main = "created" /\ StartOrder[at] = u
  /\ handle' = [handle EXCEPT ![u] = TRUE]
  /\ main' = "handled"
  /\ UNCHANGED <<serviceVars, at, started, running, helper, unitVars, httpVars,
                 deleted>>

\* Only now may the thread call Process.
SetRunning(u) ==
  /\ main = "handled" /\ StartOrder[at] = u
  /\ running' = [running EXCEPT ![u] = TRUE]
  /\ NextStart
  /\ UNCHANGED <<enabled, stopEvent, started, handle, helper, unitVars,
                 httpVars, deleted>>

\* mg_start, which serves requests at once.
StartHttp ==
  /\ Starting("http") /\ "http" \in enabled
  /\ http' = "up"
  /\ NextStart
  /\ UNCHANGED <<enabled, stopEvent, threadVars, unitVars, busy, deleted>>

StartHttpFails ==
  /\ Starting("http") /\ "http" \in enabled
  /\ "http" \in Faults
  /\ AbortStart
  /\ UNCHANGED <<serviceVars, threadVars, unitVars, httpVars, deleted>>

\* The service control manager delivers a stop to a running service.
ServiceControlHandler ==
  /\ status = "running"
  /\ stopEvent' = TRUE
  /\ UNCHANGED <<enabled, status, mainVars, threadVars, unitVars, httpVars,
                 deleted>>

LeaveWait ==
  /\ main = "wait" /\ stopEvent
  /\ AbortStart
  /\ UNCHANGED <<serviceVars, threadVars, unitVars, httpVars, deleted>>

-----------------------------------------------------------------------------
(* ServiceMain: the way down, Kernel::~Kernel.                             *)

Stopping(u) == main = "stop" /\ StopOrder[at] = u

\* Mutant: off by one.
NextStopBeyond ==
  IF at <= Len(StopOrder)
  THEN at' = at + 1 /\ main' = "stop"
  ELSE at' = at /\ main' = "delete"

NextStop ==
  IF at < Len(StopOrder)
  THEN at' = at + 1 /\ main' = "stop"
  ELSE at' = at /\ main' = "delete"

\* Mutant: mg_stop is not waited for.
StopHttpAtOnce ==
  /\ Stopping("http")
  /\ http' = "off"
  /\ NextStop
  /\ UNCHANGED <<serviceVars, threadVars, unitVars, busy, deleted>>

\* mg_stop takes no more requests and waits for those being served.
StopHttp ==
  /\ Stopping("http")
  /\ IF http = "up"
     THEN http' = "closing" /\ main' = "join" /\ UNCHANGED at
     ELSE NextStop /\ UNCHANGED http
  /\ UNCHANGED <<serviceVars, threadVars, unitVars, busy, deleted>>

JoinHttp ==
  /\ main = "join" /\ StopOrder[at] = "http"
  /\ busy = {}
  /\ http' = "off"
  /\ NextStop
  /\ UNCHANGED <<serviceVars, threadVars, unitVars, busy, deleted>>

\* StopTelnetInterface deletes the telnet object as soon as it has stopped.
Release(u) ==
  /\ helper' = [helper EXCEPT ![u] = FALSE]
  /\ deleted' = deleted \cup ({u} \cap {"telnet"})
  /\ NextStop

\* Mutant: Thread::Stop leaves m_Started alone.
StopRunningOnly(u) ==
  /\ Stopping(u)
  /\ running' = [running EXCEPT ![u] = FALSE]
  /\ IF handle[u]
     THEN main' = "join" /\ UNCHANGED <<at, helper, deleted>>
     ELSE Release(u)
  /\ UNCHANGED <<serviceVars, started, handle, unitVars, httpVars>>

\* Thread::Stop by ServiceMain's thread, up to the wait.
StopUnit(u) ==
  /\ Stopping(u)
  /\ running' = [running EXCEPT ![u] = FALSE]
  /\ started' = [started EXCEPT ![u] = FALSE]
  /\ IF handle[u]
     THEN main' = "join" /\ UNCHANGED <<at, helper, deleted>>
     ELSE Release(u)
  /\ UNCHANGED <<serviceVars, handle, unitVars, httpVars>>

\* Mutant: the wait for the thread runs into a time limit.
JoinUnitInTime(u) ==
  /\ main = "join" /\ StopOrder[at] = u
  /\ handle' = [handle EXCEPT ![u] = FALSE]
  /\ Release(u)
  /\ UNCHANGED <<serviceVars, started, running, unitVars, httpVars>>

\* The wait is over: the thread has ended.
JoinUnit(u) ==
  /\ main = "join" /\ StopOrder[at] = u
  /\ tpc[u] = "ended"
  /\ handle' = [handle EXCEPT ![u] = FALSE]
  /\ Release(u)
  /\ UNCHANGED <<serviceVars, started, running, unitVars, httpVars>>

\* The rest of ~Kernel; then ServiceMain reports.
DeleteUnits ==
  /\ main = "delete"
  /\ deleted' = deleted \cup {"datastore", "stats"}
  /\ main' = "report"
  /\ UNCHANGED <<serviceVars, at, threadVars, unitVars, httpVars>>

ReportStopping ==
  /\ main = "report" /\ status # "stop_pending"
  /\ status' = "stop_pending"
  /\ UNCHANGED <<enabled, stopEvent, mainVars, threadVars, unitVars, httpVars,
                 deleted>>

ReportStopped ==
  /\ main = "report" /\ status = "stop_pending"
  /\ status' = "stopped" /\ main' = "ended"
  /\ UNCHANGED <<enabled, stopEvent, at, threadVars, unitVars, httpVars,
                 deleted>>

-----------------------------------------------------------------------------
(* A thread: OnStart, OnProcess, OnStop.                                   *)

\* What may keep a unit's Start from setting the unit's m_Running.
StartFault == [stats |-> "none", datastore |-> "scan", telnet |-> "bind"]

\* OnStart calls Start, unless the thread was told to stop before it ran.
OnStart(u) ==
  /\ tpc[u] = "created"
  /\ tpc' = [tpc EXCEPT ![u] = "loop"]
  /\ \E success \in BOOLEAN :
       /\ ~ success => ~ started[u] \/ StartFault[u] \in Faults
       /\ success => started[u]
       /\ ok' = [ok EXCEPT ![u] = success]
  /\ UNCHANGED <<serviceVars, mainVars, threadVars, httpVars, deleted>>

BeginProcess(u) ==
  /\ tpc[u] = "loop"
  /\ started[u] /\ running[u]
  /\ tpc' = [tpc EXCEPT ![u] = "process"]
  /\ UNCHANGED <<serviceVars, mainVars, threadVars, ok, httpVars, deleted>>

EndProcess(u) ==
  /\ tpc[u] = "process" /\ ok[u]
  /\ tpc' = [tpc EXCEPT ![u] = "loop"]
  /\ UNCHANGED <<serviceVars, mainVars, threadVars, ok, httpVars, deleted>>

\* Telnet's Process answers a bad line with a blocking send.  A client that
\* does not read holds it for as long as it likes to stay.
BlockInSend(u) ==
  /\ u = "telnet" /\ "deaf" \in Faults
  /\ tpc[u] = "process" /\ ok[u]
  /\ tpc' = [tpc EXCEPT ![u] = "send"]
  /\ UNCHANGED <<serviceVars, mainVars, threadVars, ok, httpVars, deleted>>

\* The client reads or goes, and Process comes to its end.
SendReturns(u) ==
  /\ tpc[u] = "send"
  /\ tpc' = [tpc EXCEPT ![u] = "loop"]
  /\ UNCHANGED <<serviceVars, mainVars, threadVars, ok, httpVars, deleted>>

\* Process of a unit whose Start failed: m_Thread->Stop() on its own thread,
\* which waits for itself where the handle is set.
StopSelf(u) ==
  /\ tpc[u] = "process" /\ ~ ok[u]
  /\ running' = [running EXCEPT ![u] = FALSE]
  /\ started' = [started EXCEPT ![u] = FALSE]
  /\ IF handle[u]
     THEN tpc' = [tpc EXCEPT ![u] = "selfwait"] /\ UNCHANGED helper
     ELSE /\ tpc' = [tpc EXCEPT ![u] = "loop"]
          /\ helper' = [helper EXCEPT ![u] = FALSE]
  /\ UNCHANGED <<serviceVars, mainVars, handle, ok, httpVars, deleted>>

LeaveLoop(u) ==
  /\ tpc[u] = "loop" /\ ~ started[u]
  /\ tpc' = [tpc EXCEPT ![u] = "stopping"]
  /\ UNCHANGED <<serviceVars, mainVars, threadVars, ok, httpVars, deleted>>

\* ThreadProc::Stop: the drain of the datastore, the sockets of telnet.
OnStop(u) ==
  /\ tpc[u] = "stopping"
  /\ tpc' = [tpc EXCEPT ![u] = "ended"]
  /\ UNCHANGED <<serviceVars, mainVars, threadVars, ok, httpVars, deleted>>

\* A worker of civetweb takes up a request, and answers it.
BeginRequest(w) ==
  /\ http = "up" /\ w \notin busy
  /\ busy' = busy \cup {w}
  /\ UNCHANGED <<serviceVars, mainVars, threadVars, unitVars, http, deleted>>

EndRequest(w) ==
  /\ w \in busy
  /\ busy' = busy \ {w}
  /\ UNCHANGED <<serviceVars, mainVars, threadVars, unitVars, http, deleted>>

-----------------------------------------------------------------------------
ServiceMain ==
  \/ Construct \/ ConstructFails \/ StartHttp \/ StartHttpFails
  \/ \E i \in Interfaces : SkipInterface(i)
  \/ \E u \in Units : CreateThread(u) \/ CreateThreadFails(u)
                        \/ SetHandle(u) \/ SetRunning(u)
                        \/ StopUnit(u) \/ JoinUnit(u)
  \/ LeaveWait \/ StopHttp \/ JoinHttp
  \/ DeleteUnits \/ ReportStopping \/ ReportStopped

ThreadEntry(u) ==
  \/ OnStart(u) \/ BeginProcess(u) \/ EndProcess(u) \/ BlockInSend(u)
  \/ StopSelf(u)
  \/ LeaveLoop(u) \/ OnStop(u)

Next ==
  \/ ServiceMain \/ ServiceControlHandler
  \/ \E u \in Units : ThreadEntry(u) \/ SendReturns(u)
  \/ \E w \in Workers : BeginRequest(w) \/ EndRequest(w)

Spec == Init /\ [][Next]_vars

\* Every thread is scheduled, and a request handler returns; but nobody makes
\* a client read.
FairSpec ==
  /\ Spec
  /\ WF_vars(ServiceMain)
  /\ \A u \in Units : WF_vars(ThreadEntry(u))
  /\ \A w \in Workers : WF_vars(EndRequest(w))
=============================================================================
