-------------------------- MODULE LifecycleProofs --------------------------
(***************************************************************************)
(* The start and the stop of the service, for every number of request      *)
(* threads and every set of steps that may fail: no thread outlives what   *)
(* it runs on, and STOPPED means that nothing is left at work.             *)
(*                                                                         *)
(* IInv is shown to be inductive, first under the steps of ServiceMain on  *)
(* its way up, then on its way down, then under those of the threads.      *)
(***************************************************************************)
EXTENDS LifecycleProperties, TLAPS

\* The units by their place in the two orders.
LEMMA Orders ==
  /\ Len(StartOrder) = 4 /\ Len(StopOrder) = 4
  /\ StartOrder[1] = "stats" /\ StartOrder[2] = "datastore"
  /\ StartOrder[3] = "telnet" /\ StartOrder[4] = "http"
  /\ StopOrder[1] = "http" /\ StopOrder[2] = "telnet"
  /\ StopOrder[3] = "datastore" /\ StopOrder[4] = "stats"
BY DEF StartOrder, StopOrder

LEMMA Start == Init => IInv
<1> SUFFICES ASSUME Init PROVE IInv
  OBVIOUS
<1>1. TypeOK
  <2>1. \A f \in [Units -> {FALSE}] : f \in [Units -> BOOLEAN]
    OBVIOUS
  <2>2. tpc \in [Units -> {"none"}]
    BY DEF Init
  <2>3. at \in 1 .. 4
    BY DEF Init
  <2> QED BY <2>1, <2>2, <2>3 DEF Init, TypeOK
<1>2. HelperOutlivesThread /\ ThreadInv
  BY DEF Init, HelperOutlivesThread, ThreadInv, Alive, Gone
<1>3. DownInv
  BY Orders DEF Init, DownInv, Over, Gone, Units
<1>4. OrderInv /\ DeleteInv
  BY DEF Init, OrderInv, DeleteInv, UpPhase, Units
<1> QED BY <1>1, <1>2, <1>3, <1>4 DEF IInv

\* Steps on the way up that leave the threads alone.
LEMMA UpKeeps ==
  ASSUME IInv,
         \/ Construct \/ ConstructFails \/ StartHttp \/ StartHttpFails
         \/ LeaveWait \/ \E i \in Interfaces : SkipInterface(i)
  PROVE  IInv'
<1> USE Orders DEF IInv, TypeOK, HelperOutlivesThread, ThreadInv, DownInv,
    OrderInv, DeleteInv, Alive, Over, Gone, UpPhase, Units, Interfaces,
    serviceVars, mainVars, threadVars, unitVars, httpVars
<1>1. CASE Construct \/ ConstructFails
  <2>1. TypeOK'
    BY <1>1 DEF Construct, ConstructFails
  <2>2. HelperOutlivesThread'
    BY <1>1 DEF Construct, ConstructFails
  <2>3. ThreadInv'
    BY <1>1 DEF Construct, ConstructFails
  <2>4. DownInv'
    BY <1>1 DEF Construct, ConstructFails
  <2>5. OrderInv'
    BY <1>1 DEF Construct, ConstructFails
  <2>6. DeleteInv'
    BY <1>1 DEF Construct, ConstructFails
  <2> QED BY <2>1, <2>2, <2>3, <2>4, <2>5, <2>6 DEF IInv
<1>2. CASE StartHttp \/ StartHttpFails
  <2>1. TypeOK'
    <3>1. CASE StartHttp
      BY <1>2, <3>1 DEF StartHttp, Starting, NextStart
    <3>2. CASE StartHttpFails
      BY <1>2, <3>2 DEF StartHttpFails, Starting, AbortStart
    <3> QED BY <1>2, <3>1, <3>2
  <2>2. HelperOutlivesThread'
    BY <1>2 DEF StartHttp, StartHttpFails, Starting, NextStart, AbortStart
  <2>3. ThreadInv'
    BY <1>2 DEF StartHttp, StartHttpFails, Starting, NextStart, AbortStart
  <2>4. DownInv'
    BY <1>2 DEF StartHttp, StartHttpFails, Starting, NextStart, AbortStart
  <2>5. OrderInv'
    BY <1>2 DEF StartHttp, StartHttpFails, Starting, NextStart, AbortStart
  <2>6. DeleteInv'
    BY <1>2 DEF StartHttp, StartHttpFails, Starting, NextStart, AbortStart
  <2> QED BY <2>1, <2>2, <2>3, <2>4, <2>5, <2>6 DEF IInv
<1>3. CASE LeaveWait
  BY <1>3 DEF LeaveWait, AbortStart
<1>4. ASSUME NEW i \in Interfaces, SkipInterface(i) PROVE IInv'
  BY <1>4 DEF SkipInterface, Starting, NextStart
<1> QED BY <1>1, <1>2, <1>3, <1>4

\* Thread::Start.
LEMMA CreateKeeps ==
  ASSUME IInv, NEW u \in Units,
         CreateThread(u) \/ CreateThreadFails(u) \/ SetHandle(u) \/ SetRunning(u)
  PROVE  IInv'
<1> USE Orders DEF IInv, TypeOK, HelperOutlivesThread, ThreadInv, DownInv,
    OrderInv, DeleteInv, Alive, Over, Gone, UpPhase, Units, Interfaces,
    serviceVars, mainVars, threadVars, unitVars, httpVars
<1>1. CASE CreateThread(u)
  BY <1>1 DEF CreateThread, Starting
<1>2. CASE CreateThreadFails(u)
  BY <1>2 DEF CreateThreadFails, Starting, AbortStart
<1>3. CASE SetHandle(u)
  BY <1>3 DEF SetHandle
<1>4. CASE SetRunning(u)
  BY <1>4 DEF SetRunning, NextStart
<1> QED BY <1>1, <1>2, <1>3, <1>4

\* Kernel::Stop and the rest of ServiceMain.
LEMMA DownKeeps ==
  ASSUME IInv,
         \/ StopHttp \/ JoinHttp \/ DeleteUnits
         \/ ReportStopping \/ ReportStopped \/ ServiceControlHandler
         \/ \E u \in Units : StopUnit(u) \/ JoinUnit(u)
  PROVE  IInv'
<1> USE Orders DEF IInv, TypeOK, HelperOutlivesThread, ThreadInv, DownInv,
    OrderInv, DeleteInv, Alive, Over, Gone, UpPhase, Units, Interfaces,
    serviceVars, mainVars, threadVars, unitVars, httpVars
<1>1. CASE StopHttp
  <2>1. TypeOK'
    BY <1>1 DEF StopHttp, Stopping, NextStop
  <2>2. HelperOutlivesThread'
    BY <1>1 DEF StopHttp, Stopping, NextStop
  <2>3. ThreadInv'
    BY <1>1 DEF StopHttp, Stopping, NextStop
  <2>4. DownInv'
    <3>1. at = 1
      BY <1>1 DEF StopHttp, Stopping
    <3>2. CASE http = "up"
      BY <1>1, <3>1, <3>2 DEF StopHttp
    <3>3. CASE http # "up"
      <4>1. http = "off" /\ UNCHANGED <<http, busy, tpc>>
        BY <1>1, <3>1, <3>3 DEF StopHttp, Stopping
      <4>2. at' = 2 /\ main' = "stop"
        BY <1>1, <3>1, <3>3 DEF StopHttp, NextStop
      <4> QED BY <4>1, <4>2
    <3> QED BY <3>2, <3>3
  <2>5. OrderInv'
    BY <1>1 DEF StopHttp, Stopping, NextStop
  <2>6. DeleteInv'
    BY <1>1 DEF StopHttp, Stopping, NextStop
  <2> QED BY <2>1, <2>2, <2>3, <2>4, <2>5, <2>6 DEF IInv
<1>2. CASE JoinHttp
  BY <1>2 DEF JoinHttp, NextStop
<1>3. CASE DeleteUnits
  BY <1>3 DEF DeleteUnits
<1>4. CASE ReportStopping \/ ReportStopped \/ ServiceControlHandler
  <2>1. TypeOK'
    BY <1>4 DEF ReportStopping, ReportStopped, ServiceControlHandler
  <2>2. HelperOutlivesThread'
    BY <1>4 DEF ReportStopping, ReportStopped, ServiceControlHandler
  <2>3. ThreadInv'
    BY <1>4 DEF ReportStopping, ReportStopped, ServiceControlHandler
  <2>4. DownInv'
    BY <1>4 DEF ReportStopping, ReportStopped, ServiceControlHandler
  <2>5. OrderInv'
    BY <1>4 DEF ReportStopping, ReportStopped, ServiceControlHandler
  <2>6. DeleteInv'
    BY <1>4 DEF ReportStopping, ReportStopped, ServiceControlHandler
  <2> QED BY <2>1, <2>2, <2>3, <2>4, <2>5, <2>6 DEF IInv
<1>5. ASSUME NEW u \in Units, StopUnit(u) PROVE IInv'
  <2>1. TypeOK'
    <3>1. CASE handle[u]
      BY <1>5, <3>1 DEF StopUnit, Stopping
    <3>2. CASE ~ handle[u]
      <4>1. /\ deleted' = deleted \cup ({u} \cap {"telnet"})
            /\ helper' = [helper EXCEPT ![u] = FALSE]
        BY <1>5, <3>2 DEF StopUnit, Release
      <4>2. deleted' \subseteq Units
        BY <4>1
      <4>3. helper' \in [Units -> BOOLEAN]
        BY <4>1
      <4>4. at' \in 1 .. 4 /\ main' \in {"stop", "delete"}
        BY <1>5, <3>2 DEF StopUnit, Stopping, Release, NextStop
      <4> QED BY <1>5, <3>2, <4>2, <4>3, <4>4 DEF StopUnit
    <3> QED BY <3>1, <3>2
  <2>2. HelperOutlivesThread'
    BY <1>5 DEF StopUnit, Stopping, Release, NextStop
  <2>3. ThreadInv'
    BY <1>5 DEF StopUnit, Stopping, Release, NextStop
  <2>4. DownInv'
    BY <1>5 DEF StopUnit, Stopping, Release, NextStop
  <2>5. OrderInv'
    BY <1>5 DEF StopUnit, Stopping, Release, NextStop
  <2>6. DeleteInv'
    BY <1>5 DEF StopUnit, Stopping, Release, NextStop
  <2> QED BY <2>1, <2>2, <2>3, <2>4, <2>5, <2>6 DEF IInv
<1>6. ASSUME NEW u \in Units, JoinUnit(u) PROVE IInv'
  BY <1>6 DEF JoinUnit, Release, NextStop
<1> QED BY <1>1, <1>2, <1>3, <1>4, <1>5, <1>6

\* The threads of the units and of civetweb.
LEMMA ThreadsKeep ==
  ASSUME IInv,
         \/ \E u \in Units : ThreadEntry(u) \/ SendReturns(u)
         \/ \E w \in Workers : BeginRequest(w) \/ EndRequest(w)
  PROVE  IInv'
<1> USE Orders DEF IInv, TypeOK, HelperOutlivesThread, ThreadInv, DownInv,
    OrderInv, DeleteInv, Alive, Over, Gone, UpPhase, Units, Interfaces,
    serviceVars, mainVars, threadVars, unitVars, httpVars
<1>1. ASSUME NEW u \in Units, OnStart(u) PROVE IInv'
  BY <1>1 DEF OnStart
<1>2. ASSUME NEW u \in Units, BeginProcess(u) \/ EndProcess(u) PROVE IInv'
  <2>1. TypeOK'
    <3>1. CASE BeginProcess(u)
      BY <1>2, <3>1 DEF BeginProcess
    <3>2. CASE EndProcess(u)
      BY <1>2, <3>2 DEF EndProcess
    <3> QED BY <1>2, <3>1, <3>2
  <2>2. HelperOutlivesThread'
    BY <1>2 DEF BeginProcess, EndProcess
  <2>3. ThreadInv'
    BY <1>2 DEF BeginProcess, EndProcess
  <2>4. DownInv'
    BY <1>2 DEF BeginProcess, EndProcess
  <2>5. OrderInv'
    BY <1>2 DEF BeginProcess, EndProcess
  <2>6. DeleteInv'
    BY <1>2 DEF BeginProcess, EndProcess
  <2> QED BY <2>1, <2>2, <2>3, <2>4, <2>5, <2>6 DEF IInv
<1>3. ASSUME NEW u \in Units, StopSelf(u) PROVE IInv'
  BY <1>3 DEF StopSelf
<1>4. ASSUME NEW u \in Units, LeaveLoop(u) \/ OnStop(u) PROVE IInv'
  <2>1. TypeOK'
    <3>1. CASE LeaveLoop(u)
      BY <1>4, <3>1 DEF LeaveLoop
    <3>2. CASE OnStop(u)
      BY <1>4, <3>2 DEF OnStop
    <3> QED BY <1>4, <3>1, <3>2
  <2>2. HelperOutlivesThread'
    BY <1>4 DEF LeaveLoop, OnStop
  <2>3. ThreadInv'
    BY <1>4 DEF LeaveLoop, OnStop
  <2>4. DownInv'
    BY <1>4 DEF LeaveLoop, OnStop
  <2>5. OrderInv'
    BY <1>4 DEF LeaveLoop, OnStop
  <2>6. DeleteInv'
    BY <1>4 DEF LeaveLoop, OnStop
  <2> QED BY <2>1, <2>2, <2>3, <2>4, <2>5, <2>6 DEF IInv
<1>5. ASSUME NEW w \in Workers, BeginRequest(w) \/ EndRequest(w) PROVE IInv'
  <2>1. TypeOK'
    BY ZenonT(40), <1>5 DEF BeginRequest, EndRequest
  <2>2. HelperOutlivesThread'
    BY <1>5 DEF BeginRequest, EndRequest
  <2>3. ThreadInv'
    BY <1>5 DEF BeginRequest, EndRequest
  <2>4. DownInv'
    BY <1>5 DEF BeginRequest, EndRequest
  <2>5. OrderInv'
    BY <1>5 DEF BeginRequest, EndRequest
  <2>6. DeleteInv'
    BY <1>5 DEF BeginRequest, EndRequest
  <2> QED BY <2>1, <2>2, <2>3, <2>4, <2>5, <2>6 DEF IInv
<1>6. ASSUME NEW u \in Units, BlockInSend(u) \/ SendReturns(u) PROVE IInv'
  <2>1. TypeOK'
    <3>1. CASE BlockInSend(u)
      BY <1>6, <3>1 DEF BlockInSend
    <3>2. CASE SendReturns(u)
      BY <1>6, <3>2 DEF SendReturns
    <3> QED BY <1>6, <3>1, <3>2
  <2>2. HelperOutlivesThread'
    BY <1>6 DEF BlockInSend, SendReturns
  <2>3. ThreadInv'
    BY <1>6 DEF BlockInSend, SendReturns
  <2>4. DownInv'
    BY <1>6 DEF BlockInSend, SendReturns
  <2>5. OrderInv'
    BY <1>6 DEF BlockInSend, SendReturns
  <2>6. DeleteInv'
    BY <1>6 DEF BlockInSend, SendReturns
  <2> QED BY <2>1, <2>2, <2>3, <2>4, <2>5, <2>6 DEF IInv
<1> QED BY <1>1, <1>2, <1>3, <1>4, <1>5, <1>6 DEF ThreadEntry

\* Every reachable state of the service's life cycle satisfies IInv.
THEOREM Invariance == Spec => []IInv
<1>1. IInv /\ [Next]_vars => IInv'
  <2>1. ASSUME IInv, Next PROVE IInv'
    BY <2>1, UpKeeps, CreateKeeps, DownKeeps, ThreadsKeep DEF Next, ServiceMain
  <2>2. ASSUME IInv, UNCHANGED vars PROVE IInv'
    BY <2>2 DEF IInv, TypeOK, HelperOutlivesThread, ThreadInv, DownInv,
       OrderInv, DeleteInv, Alive, Over, vars, serviceVars, mainVars,
       threadVars, unitVars, httpVars
  <2> QED BY <2>1, <2>2
<1> QED BY <1>1, Start, PTL DEF Spec

\* The ThreadHelper a thread runs on is deleted after the thread has ended.
THEOREM HelperOutlives == Spec => []HelperOutlivesThread
BY Invariance, PTL DEF IInv

\* ~Kernel deletes a unit when no thread or request can call into it.
THEOREM NoUseAfterDelete == Spec => []NothingUsesTheDeleted
<1>1. IInv => NothingUsesTheDeleted
  BY Orders DEF IInv, TypeOK, DownInv, DeleteInv, NothingUsesTheDeleted,
     UsedBy, Alive, Over, Units
<1> QED BY <1>1, Invariance, PTL

\* Kernel::Stop waits for both interfaces before it stops the datastore.
THEOREM InterfacesFirst == Spec => []InterfacesStopFirst
<1>1. IInv => InterfacesStopFirst
  BY Orders DEF IInv, TypeOK, ThreadInv, DownInv, OrderInv,
     InterfacesStopFirst, Alive, Over, Gone, UpPhase, Units
<1> QED BY <1>1, Invariance, PTL

\* ServiceMain reports SERVICE_STOPPED when every thread has ended.
THEOREM Stopped == Spec => []StoppedIsOver
<1>1. IInv => StoppedIsOver
  BY Orders DEF IInv, TypeOK, DownInv, DeleteInv, StoppedIsOver, Alive, Over,
     Units
<1> QED BY <1>1, Invariance, PTL
=============================================================================
