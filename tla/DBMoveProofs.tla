---------------------------- MODULE DBMoveProofs ----------------------------
(***************************************************************************)
(* Theorems about DBMove, for any set of tasks, any faults and any number  *)
(* of requests, attempts and restarts.                                     *)
(***************************************************************************)
EXTENDS DBMove, FiniteSetTheorems, TLAPS

(***************************************************************************)
(* Types.                                                                  *)
(***************************************************************************)
LEMMA ReportUpdates ==
  ASSUME NEW r \in Report
  PROVE  /\ [r EXCEPT !.waiting = FALSE] \in Report
         /\ [r EXCEPT !.pc = "write"] \in Report
BY DEF Report

USE DEF Terminal, Active, Status, Row, MainPosts, WorkerPc, Container, Op,
        Request, Watcher, DispatcherState, Reported, Report

LEMMA RowUpdates ==
  ASSUME NEW row \in Row, NEW now \in Nat, NEW status \in Status
  PROVE  /\ QueuedRow(row, now) \in Row
         /\ CancelledRow(row) \in Row
         /\ ClaimedRow(row) \in Row
         /\ FailedRow(row) \in Row
         /\ SucceededRow(row) \in Row
         /\ ReportedRow(row, status) \in Row
BY DEF QueuedRow, CancelledRow, ClaimedRow, FailedRow, SucceededRow, ReportedRow

LEMMA ContainerUpdates ==
  ASSUME NEW c \in Container, NEW code \in {0, 1}
  PROVE  /\ NoContainer(c) \in Container
         /\ FreshContainer(c) \in Container
         /\ ExitedContainer(c, code) \in Container
         /\ NoContainer(c).run = c.run
         /\ FreshContainer(c).run = c.run + 1
         /\ ExitedContainer(c, code).run = c.run
BY DEF NoContainer, FreshContainer, ExitedContainer

LEMMA AfterReportType ==
  ASSUME NEW c \in Container, NEW status \in Reported
  PROVE  AfterReport(c, status) \in Container /\ AfterReport(c, status).run = c.run
BY DEF AfterReport, ExitedContainer

LEMMA InitType == Init => TypeOK
BY DEF Init, PlatformInit, ApiInit, RunnerInit, DispatcherInit, WorkerInit,
       TypeOK, PlatformTypeOK, ApiTypeOK, RunnerTypeOK, DispatcherTypeOK,
       WorkerTypeOK, NewRow

LEMMA UpdateTaskType ==
  ASSUME PlatformTypeOK, NEW t \in Task, NEW row \in Row, UpdateTask(t, row)
  PROVE  tasks' \in [Task -> Row]
BY DEF PlatformTypeOK, UpdateTask

LEMMA ApiType == TypeOK /\ ApiAction => TypeOK'
<1> SUFFICES ASSUME TypeOK, ApiAction PROVE TypeOK'
  OBVIOUS
<1> USE ClicksAssumption, MaxFaultsAssumption
    DEF TypeOK, PlatformTypeOK, ApiTypeOK
<1>1. PlatformTypeOK' /\ ApiTypeOK'
  <2>1. ASSUME NEW t \in Task, StartCheck(t) PROVE PlatformTypeOK' /\ ApiTypeOK'
    BY <2>1 DEF StartCheck, Admit
  <2>2. ASSUME NEW t \in Task, CancelCheck(t) PROVE PlatformTypeOK' /\ ApiTypeOK'
    BY <2>2 DEF CancelCheck, Admit
  <2>3. ASSUME NEW t \in Task, RetryCheck(t) PROVE PlatformTypeOK' /\ ApiTypeOK'
    BY <2>3 DEF RetryCheck, Admit
  <2>4. ASSUME NEW q \in requests, QueueWrite(q) PROVE PlatformTypeOK' /\ ApiTypeOK'
    <3>1. tasks[q.task] \in Row /\ q.now \in Nat /\ q.task \in Task
      OBVIOUS
    <3>2. QueuedRow(tasks[q.task], q.now) \in Row
      BY <3>1 DEF QueuedRow
    <3> QED
      BY <2>4, <3>1, <3>2, UpdateTaskType DEF QueueWrite
  <2>5. ASSUME NEW q \in requests, CancelWrite(q) PROVE PlatformTypeOK' /\ ApiTypeOK'
    BY <2>5, RowUpdates, UpdateTaskType DEF CancelWrite
  <2>6. ASSUME NEW q \in requests, CancelRemove(q) PROVE PlatformTypeOK' /\ ApiTypeOK'
    BY <2>6, ContainerUpdates DEF CancelRemove
  <2>7. ASSUME NEW q \in requests, CancelRemoveEnv(q) PROVE PlatformTypeOK' /\ ApiTypeOK'
    BY <2>7 DEF CancelRemoveEnv
  <2>8. ASSUME NEW q \in requests, RequestAborted(q) PROVE PlatformTypeOK' /\ ApiTypeOK'
    BY <2>8 DEF RequestAborted, Fault
  <2>9. ASSUME NEW q \in requests, CancelRemoveFails(q) PROVE PlatformTypeOK' /\ ApiTypeOK'
    <3>1. [q EXCEPT !.pc = "removeEnv"] \in Request
      <4>1. q \in Request
        OBVIOUS
      <4> QED
        BY ONLY <4>1, SMTT(30) DEF Request
    <3>2. /\ requests' = (requests \ {q}) \cup {[q EXCEPT !.pc = "removeEnv"]}
          /\ faults' = faults + 1
          /\ UNCHANGED <<clicks, clock, queueings, tasks, containers, envFiles>>
      BY <2>9 DEF CancelRemoveFails, Fault
    <3>3. PICK x \in Request : requests' = (requests \ {q}) \cup {x}
      <4> HIDE DEF Request
      <4> QED
        BY <3>1, <3>2, Zenon
    <3>4. PlatformTypeOK'
      BY <3>2
    <3>5. requests' \subseteq Request
      BY <3>3
    <3> QED
      BY <3>2, <3>4, <3>5
  <2> HIDE DEF PlatformTypeOK, ApiTypeOK, TypeOK
  <2> QED
    BY <2>1, <2>2, <2>3, <2>4, <2>5, <2>6, <2>7, <2>8, <2>9
       DEF ApiAction, ApiNext, RequestStep
<1>2. /\ RunnerTypeOK' /\ DispatcherTypeOK' /\ WorkerTypeOK'
      /\ restarts' \in Nat /\ unread' \subseteq Task
  BY DEF ApiAction, RunnerTypeOK, DispatcherTypeOK, WorkerTypeOK, workerVars
<1> QED
  BY <1>1, <1>2

LEMMA RunnerType == TypeOK /\ RunnerAction => TypeOK'
<1> SUFFICES ASSUME TypeOK, RunnerAction PROVE TypeOK'
  OBVIOUS
<1> USE MaxFaultsAssumption DEF TypeOK, PlatformTypeOK, RunnerTypeOK
<1>1. PlatformTypeOK' /\ RunnerTypeOK'
  <2>1. ASSUME NEW w \in watchers, NEW pc \in {"gone", "exited", "fail", "failed", "succeed", "exit0"}
        PROVE  (Move(w, pc) \/ Stop(w)) => RunnerTypeOK'
    BY <2>1 DEF Move, Stop
  <2>2. ASSUME NEW w \in watchers, WatcherFault(w) PROVE PlatformTypeOK' /\ RunnerTypeOK'
    BY <2>1, <2>2 DEF WatcherFault, PollHiccup, ExitCodeHiccup, WatchExpires, WatcherAborted, Fault
  <2>3. ASSUME NEW w \in watchers, MarkFailed(w) \/ MarkSuccess(w)
        PROVE  PlatformTypeOK' /\ RunnerTypeOK'
    BY <2>1, <2>3, RowUpdates, UpdateTaskType DEF MarkFailed, MarkSuccess
  <2>4. ASSUME NEW w \in watchers,
               PollGone(w) \/ PollExited(w) \/ ReadExitCode(w) \/ CheckGone(w)
                 \/ CheckStillActive(w) \/ CheckExit0(w)
        PROVE  PlatformTypeOK' /\ RunnerTypeOK'
    BY <2>1, <2>4 DEF PollGone, PollExited, ReadExitCode, CheckGone,
         CheckStillActive, CheckExit0, platformVars
  <2> HIDE DEF PlatformTypeOK, RunnerTypeOK, TypeOK
  <2> QED
    BY <2>2, <2>3, <2>4 DEF RunnerAction, RunnerNext, WatcherStep
<1>2. ApiTypeOK' /\ DispatcherTypeOK' /\ WorkerTypeOK' /\ restarts' \in Nat
  BY DEF RunnerAction, ApiTypeOK, apiVars, DispatcherTypeOK, WorkerTypeOK, workerVars
<1>3. unread' \subseteq Task
  <2>1. \A w \in watchers : w.task \in Task
    OBVIOUS
  <2> QED
    BY <2>1 DEF RunnerAction, ObserveReads
<1> QED
  BY <1>1, <1>2, <1>3

LEMMA DispatcherType == TypeOK /\ DispatcherAction => TypeOK'
<1> SUFFICES ASSUME TypeOK, DispatcherAction PROVE TypeOK'
  OBVIOUS
<1>1. PlatformTypeOK' /\ RunnerTypeOK' /\ DispatcherTypeOK'
  <2> USE MaxFaultsAssumption, NoTaskAssumption
      DEF TypeOK, PlatformTypeOK, RunnerTypeOK, DispatcherTypeOK, At, GoTo,
          GoIdle, GoNext, platformVars
  <2>1. ASSUME CountActive PROVE PlatformTypeOK' /\ RunnerTypeOK' /\ DispatcherTypeOK'
    <3>1. Cardinality(ActiveTasks) \in Nat
      BY TaskAssumption, FS_Subset, FS_CardinalityType DEF ActiveTasks
    <3> QED
      BY <2>1, <3>1 DEF CountActive
  <2>2. ASSUME PickNext PROVE PlatformTypeOK' /\ RunnerTypeOK' /\ DispatcherTypeOK'
    BY <2>2 DEF PickNext, Queue
  <2>3. ASSUME Return PROVE PlatformTypeOK' /\ RunnerTypeOK' /\ DispatcherTypeOK'
    BY <2>3 DEF Return
  <2>4. ASSUME Claim PROVE PlatformTypeOK' /\ RunnerTypeOK' /\ DispatcherTypeOK'
    BY <2>4, RowUpdates, UpdateTaskType DEF Claim
  <2>5. ASSUME Reload PROVE PlatformTypeOK' /\ RunnerTypeOK' /\ DispatcherTypeOK'
    BY <2>5 DEF Reload
  <2>6. ASSUME WriteEnvFile PROVE PlatformTypeOK' /\ RunnerTypeOK' /\ DispatcherTypeOK'
    BY <2>6 DEF WriteEnvFile
  <2>7. ASSUME StartWorker PROVE PlatformTypeOK' /\ RunnerTypeOK' /\ DispatcherTypeOK'
    <3> DEFINE t == disp.task
               w == [task |-> t, run |-> containers[t].run + 1, pc |-> "poll"]
    <3>1. t \in Task /\ FreshContainer(containers[t]) \in Container
      BY <2>7, ContainerUpdates DEF StartWorker
    <3>2. w \in Watcher
      BY <3>1
    <3>3. /\ containers' = [containers EXCEPT ![t] = FreshContainer(containers[t])]
          /\ watchers' = watchers \cup {w}
      BY <2>7 DEF StartWorker, RunContainer
    <3> QED
      BY <2>7, <3>1, <3>2, <3>3 DEF StartWorker
  <2>8. ASSUME StartRefused PROVE PlatformTypeOK' /\ RunnerTypeOK' /\ DispatcherTypeOK'
    BY <2>8 DEF StartRefused
  <2>9. ASSUME FailTask PROVE PlatformTypeOK' /\ RunnerTypeOK' /\ DispatcherTypeOK'
    BY <2>9, RowUpdates, UpdateTaskType DEF FailTask
  <2>10. ASSUME SecretsFail \/ StartFails \/ DispatcherAborted
         PROVE  PlatformTypeOK' /\ RunnerTypeOK' /\ DispatcherTypeOK'
    <3>1. CASE SecretsFail
      BY <3>1 DEF SecretsFail, Fault
    <3>2. CASE StartFails
      BY <3>2 DEF StartFails, Fault
    <3>3. CASE DispatcherAborted
      <4>1. At("fail") => DispatcherTypeOK'
        BY <3>3 DEF DispatcherAborted
      <4>2. ~At("fail") => DispatcherTypeOK'
        BY <3>3 DEF DispatcherAborted
      <4> QED
        BY <3>3, <4>1, <4>2 DEF DispatcherAborted, Fault
    <3> QED
      BY <2>10, <3>1, <3>2, <3>3
  <2> HIDE DEF PlatformTypeOK, RunnerTypeOK, DispatcherTypeOK, TypeOK
  <2> QED
    BY <2>1, <2>2, <2>3, <2>4, <2>5, <2>6, <2>7, <2>8, <2>9, <2>10
       DEF DispatcherAction, DispatcherNext, DispatcherStep
<1>2. /\ ApiTypeOK' /\ WorkerTypeOK' /\ restarts' \in Nat
      /\ unread' \subseteq Task
  BY DEF TypeOK, DispatcherAction, ApiTypeOK, apiVars, WorkerTypeOK, workerVars
<1> QED
  BY <1>1, <1>2 DEF TypeOK

LEMMA WorkerType == TypeOK /\ WorkerAction => TypeOK'
<1> SUFFICES ASSUME TypeOK, WorkerAction PROVE TypeOK'
  OBVIOUS
<1>1. PlatformTypeOK' /\ WorkerTypeOK'
  <2> USE MaxFaultsAssumption, MaxAttemptsAssumption
      DEF TypeOK, PlatformTypeOK, WorkerTypeOK
  <2>1. ASSUME NEW t \in Task, NEW status \in Reported, NEW try \in Nat,
               Send(t, status, try)
        PROVE  reports' \subseteq Report
    <3>1. [task |-> t, run |-> containers[t].run, status |-> status, try |-> try,
           pc |-> "read", waiting |-> TRUE] \in Report
      OBVIOUS
    <3> QED
      BY <2>1, <3>1 DEF Send
  <2>2. ASSUME NEW t \in Task, NEW status \in MainPosts, MainReports(t, status)
        PROVE  /\ reports' \subseteq Report /\ containers' \in [Task -> Container]
               /\ UNCHANGED <<tasks, envFiles>>
    <3>1. reports' \subseteq Report
      BY <2>1, <2>2 DEF MainReports
    <3>2. containers' \in [Task -> Container]
      <4>1. containers[t] \in Container /\ status \in WorkerPc
        OBVIOUS
      <4>2. [containers[t] EXCEPT !.pc = status, !.try = 1] \in Container
        BY <4>1
      <4> QED
        BY <2>2, <4>2 DEF MainReports
    <3> QED
      BY <2>2, <3>1, <3>2 DEF MainReports
  <2>3. ASSUME NEW t \in Task, Boot(t) \/ FetchFails(t) PROVE PlatformTypeOK' /\ WorkerTypeOK'
    BY <2>2, <2>3 DEF Boot, FetchFails, Fault
  <2>4. ASSUME NEW t \in Task, Preflight(t) PROVE PlatformTypeOK' /\ WorkerTypeOK'
    BY <2>2, <2>4 DEF Preflight
  <2>5. ASSUME NEW t \in Task, Migrate(t) PROVE PlatformTypeOK' /\ WorkerTypeOK'
    BY <2>2, <2>5 DEF Migrate
  <2>6. ASSUME NEW t \in Task, Retry(t) PROVE PlatformTypeOK' /\ WorkerTypeOK'
    <3>1. containers[t] \in Container /\ containers[t].pc \in Reported
      BY <2>6 DEF Retry
    <3>2. CASE containers[t].try < MaxAttempts
      BY <2>1, <2>6, <3>1, <3>2 DEF Retry
    <3>3. CASE ~(containers[t].try < MaxAttempts)
      BY <2>6, <3>1, <3>3, AfterReportType DEF Retry
    <3> QED
      BY <3>2, <3>3
  <2>7. ASSUME NEW t \in Task, Sigterm(t) PROVE PlatformTypeOK' /\ WorkerTypeOK'
    <3>1. reports' \subseteq Report
      BY <2>1, <2>7 DEF Sigterm
    <3>2. containers' \in [Task -> Container]
      <4>1. containers[t] \in Container
        OBVIOUS
      <4>2. [containers[t] EXCEPT !.stop = 1] \in Container
        BY <4>1
      <4>3. containers' = [containers EXCEPT ![t] = [containers[t] EXCEPT !.stop = 1]]
        BY <2>7 DEF Sigterm
      <4> QED
        BY <4>2, <4>3
    <3> QED
      BY <2>7, <3>1, <3>2 DEF Sigterm, Fault
  <2>8. ASSUME NEW t \in Task, RetryStop(t) PROVE PlatformTypeOK' /\ WorkerTypeOK'
    <3>1. containers[t] \in Container
      OBVIOUS
    <3>2. CASE containers[t].stop < MaxAttempts
      BY <2>1, <2>8, <3>1, <3>2 DEF RetryStop
    <3>3. CASE ~(containers[t].stop < MaxAttempts)
      BY <2>8, <3>1, <3>3, AfterReportType DEF RetryStop
    <3> QED
      BY <3>2, <3>3
  <2>9. ASSUME NEW t \in Task, Crash(t) PROVE PlatformTypeOK' /\ WorkerTypeOK'
    <3>1. ExitedContainer(containers[t], 1) \in Container
      BY ContainerUpdates
    <3> QED
      BY <2>9, <3>1 DEF Crash, Fault
  <2>10. ASSUME NEW r \in reports, Answer(r)
         PROVE  reports' \subseteq Report /\ containers' \in [Task -> Container]
    BY <2>10, AfterReportType DEF Answer
  <2>11. ASSUME NEW r \in reports, ReportRead(r) PROVE PlatformTypeOK' /\ WorkerTypeOK'
    <3>1. [r EXCEPT !.pc = "write"] \in Report
      OBVIOUS
    <3> QED
      BY <2>10, <2>11, <3>1 DEF ReportRead
  <2>12. ASSUME NEW r \in reports, ReportWrite(r) PROVE PlatformTypeOK' /\ WorkerTypeOK'
    <3>1. ReportedRow(tasks[r.task], r.status) \in Row
      <4>1. tasks[r.task] \in Row /\ r.status \in Status
        OBVIOUS
      <4> QED
        BY <4>1, RowUpdates
    <3> QED
      BY <2>10, <2>12, <3>1, UpdateTaskType DEF ReportWrite
  <2>13. ASSUME NEW r \in reports, ReportFails(r) \/ ReportTimesOut(r) \/ ReportDropped(r)
         PROVE  PlatformTypeOK' /\ WorkerTypeOK'
    <3>1. CASE ReportFails(r) \/ ReportDropped(r)
      BY <3>1 DEF ReportFails, ReportDropped, Fault, platformVars
    <3>2. CASE ReportTimesOut(r)
      <4>1. r \in Report
        OBVIOUS
      <4>2. [r EXCEPT !.waiting = FALSE] \in Report
        BY <4>1, ReportUpdates
      <4>3. PICK x \in Report : reports' = (reports \ {r}) \cup {x}
        <5> HIDE DEF Report
        <5> QED
          BY <3>2, <4>2, Zenon DEF ReportTimesOut
      <4> QED
        BY <3>2, <4>3 DEF ReportTimesOut, Fault
    <3> QED
      BY <2>13, <3>1, <3>2
  <2> HIDE DEF PlatformTypeOK, WorkerTypeOK, TypeOK
  <2> QED
    BY <2>3, <2>4, <2>5, <2>6, <2>7, <2>8, <2>9, <2>11, <2>12, <2>13
       DEF WorkerAction, WorkerNext, ProcessStep, ReportStep
<1>2. /\ ApiTypeOK' /\ RunnerTypeOK' /\ DispatcherTypeOK'
      /\ restarts' \in Nat /\ unread' \subseteq Task
  BY DEF TypeOK, WorkerAction, ApiTypeOK, apiVars, RunnerTypeOK, DispatcherTypeOK
<1> QED
  BY <1>1, <1>2 DEF TypeOK

LEMMA NextType == TypeOK /\ [Next]_vars => TypeOK'
<1> SUFFICES ASSUME TypeOK, [Next]_vars PROVE TypeOK'
  OBVIOUS
<1>1. CASE DaemonAction
  <2>1. PICK t \in Task : Reap(t)
    BY <1>1 DEF DaemonAction
  <2>2. NoContainer(containers[t]) \in Container
    BY ContainerUpdates DEF TypeOK, PlatformTypeOK
  <2> QED
    BY <1>1, <2>1, <2>2
     DEF DaemonAction, Reap, TypeOK, PlatformTypeOK, ApiTypeOK, apiVars,
         RunnerTypeOK, DispatcherTypeOK, WorkerTypeOK, workerVars
<1>2. CASE Restart
  BY <1>2 DEF Restart, GoIdle, TypeOK, PlatformTypeOK, platformVars, ApiTypeOK,
         RunnerTypeOK, DispatcherTypeOK, WorkerTypeOK
<1>3. CASE UNCHANGED vars
  BY <1>3 DEF vars, TypeOK, PlatformTypeOK, platformVars, ApiTypeOK, apiVars,
         RunnerTypeOK, DispatcherTypeOK, WorkerTypeOK, workerVars
<1> QED
  BY <1>1, <1>2, <1>3, ApiType, RunnerType, DispatcherType, WorkerType DEF Next

\* Every variable keeps its type.
THEOREM TypeCorrect == Spec => []TypeOK
BY InitType, NextType, PTL DEF Spec

(***************************************************************************)
(* Who writes a row, and what.                                             *)
(***************************************************************************)
RowWritten(t) ==
  \/ tasks'[t] = tasks[t]
  \/ \E q \in requests : q.task = t /\ QueueWrite(q)
                           /\ tasks'[t] = QueuedRow(tasks[t], q.now)
  \/ tasks'[t] = CancelledRow(tasks[t])
  \/ \E w \in watchers :
       /\ w.task = t
       /\ \/ tasks'[t] = FailedRow(tasks[t])
          \/ w.pc = "succeed" /\ tasks'[t] = SucceededRow(tasks[t])
  \/ disp.task = t /\ Claim /\ tasks'[t] = ClaimedRow(tasks[t])
  \/ disp.task = t /\ FailTask /\ tasks'[t] = FailedRow(tasks[t])
  \/ \E r \in reports : r.task = t /\ tasks'[t] = ReportedRow(tasks[t], r.status)

LEMMA RowWriters ==
  ASSUME TypeOK, [Next]_vars, NEW t \in Task
  PROVE  RowWritten(t)
<1>1. tasks \in [Task -> Row] /\ requests \subseteq Request /\ reports \subseteq Report
  BY DEF TypeOK, PlatformTypeOK, ApiTypeOK, WorkerTypeOK
<1> USE <1>1
<1>2. CASE ApiAction
  <2>1. ASSUME NEW q \in requests, QueueWrite(q) PROVE RowWritten(t)
    BY <2>1 DEF QueueWrite, UpdateTask, RowWritten
  <2>2. ASSUME NEW q \in requests, CancelWrite(q) PROVE RowWritten(t)
    BY <2>2 DEF CancelWrite, UpdateTask, RowWritten
  <2>3. CASE UNCHANGED tasks
    BY <2>3 DEF RowWritten
  <2> QED
    BY <1>2, <2>1, <2>2, <2>3
       DEF ApiAction, ApiNext, StartCheck, CancelCheck, RetryCheck, Admit, RequestStep,
           CancelRemove, CancelRemoveEnv, RequestAborted, CancelRemoveFails
<1>3. CASE RunnerAction
  <2>1. ASSUME NEW w \in watchers, MarkFailed(w) \/ MarkSuccess(w) PROVE RowWritten(t)
    BY <2>1 DEF MarkFailed, MarkSuccess, UpdateTask, RowWritten
  <2>2. CASE UNCHANGED tasks
    BY <2>2 DEF RowWritten
  <2> QED
    BY <1>3, <2>1, <2>2
       DEF RunnerAction, RunnerNext, WatcherStep, WatcherFault, PollGone, PollExited,
           ReadExitCode, CheckGone, CheckStillActive, CheckExit0, PollHiccup,
           ExitCodeHiccup, WatchExpires, WatcherAborted, platformVars
<1>4. CASE DispatcherAction
  <2>1. CASE Claim
    BY <2>1 DEF Claim, UpdateTask, RowWritten
  <2>2. CASE FailTask
    BY <2>2 DEF FailTask, UpdateTask, RowWritten
  <2>3. CASE UNCHANGED tasks
    BY <2>3 DEF RowWritten
  <2> QED
    BY <1>4, <2>1, <2>2, <2>3
       DEF DispatcherAction, DispatcherNext, DispatcherStep, CountActive, PickNext,
           Return, Reload, WriteEnvFile, StartWorker, StartRefused, SecretsFail,
           StartFails, DispatcherAborted, platformVars
<1>5. CASE WorkerAction
  <2>1. ASSUME NEW r \in reports, ReportWrite(r) PROVE RowWritten(t)
    BY <2>1 DEF ReportWrite, UpdateTask, RowWritten
  <2>2. CASE UNCHANGED tasks
    BY <2>2 DEF RowWritten
  <2> QED
    BY <1>5, <2>1, <2>2
       DEF WorkerAction, WorkerNext, ProcessStep, ReportStep, Boot, Preflight, Migrate,
           MainReports, Retry, RetryStop, FetchFails, Sigterm, Crash, ReportRead,
           ReportFails, ReportTimesOut, ReportDropped, platformVars
<1>6. CASE UNCHANGED tasks
  BY <1>6 DEF RowWritten
<1> QED
  BY <1>2, <1>3, <1>4, <1>5, <1>6
     DEF Next, DaemonAction, Reap, Restart, vars, platformVars

(***************************************************************************)
(* Terminal rows are complete: no strengthening is needed, since a status  *)
(* and the columns that go with it are written by one UPDATE.              *)
(***************************************************************************)

\* A terminal row has a finished_at and a FAILED one an error message, after
\* any interleaving of the writers.
THEOREM TerminalRowsCorrect == Spec => []TerminalRowsComplete
<1>1. Init => TerminalRowsComplete
  BY DEF Init, PlatformInit, NewRow, TerminalRowsComplete
<1>2. TypeOK /\ TerminalRowsComplete /\ [Next]_vars => TerminalRowsComplete'
  <2> SUFFICES ASSUME TypeOK, TerminalRowsComplete, [Next]_vars, NEW t \in Task
               PROVE  /\ tasks'[t].status \in Terminal => tasks'[t].finished
                      /\ tasks'[t].status = "FAILED" => tasks'[t].error
    BY DEF TerminalRowsComplete
  <2>1. tasks[t] \in Row /\ tasks'[t] \in Row
    BY NextType DEF TypeOK, PlatformTypeOK
  <2> QED
    <3> DEFINE row == tasks[t]
               Complete(x) == /\ x.status \in Terminal => x.finished
                              /\ x.status = "FAILED" => x.error
    <3>1. Complete(row)
      BY DEF TerminalRowsComplete
    <3>2. ASSUME NEW now \in Nat PROVE Complete(QueuedRow(row, now))
      BY DEF QueuedRow
    <3>3. Complete(CancelledRow(row))
      BY <2>1, <3>1 DEF CancelledRow
    <3>4. Complete(FailedRow(row)) /\ Complete(SucceededRow(row))
      BY <2>1, <3>1 DEF FailedRow, SucceededRow
    <3>5. Complete(ClaimedRow(row))
      BY <2>1, <3>1 DEF ClaimedRow
    <3>6. ASSUME NEW status \in Reported PROVE Complete(ReportedRow(row, status))
      BY <2>1, <3>1 DEF ReportedRow
    <3>7. /\ \A q \in requests : q.now \in Nat
          /\ \A r \in reports : r.status \in Reported
      BY DEF TypeOK, ApiTypeOK, WorkerTypeOK
    <3> HIDE DEF Complete
    <3>8. Complete(tasks'[t])
      BY <3>1, <3>2, <3>3, <3>4, <3>5, <3>6, <3>7, RowWriters DEF RowWritten
    <3> QED
      BY <3>8 DEF Complete
<1> QED
  BY <1>1, <1>2, TypeCorrect, PTL DEF Spec

(***************************************************************************)
(* Nothing runs unqueued.  The strengthening follows the writers: whoever  *)
(* may write a row other than by Cancel knows that it has been queued.     *)
(***************************************************************************)
QueuedInv ==
  /\ NothingRunsUnqueued
  /\ \A t \in Task : Running(t) => containers[t].run # 0
  /\ \A w \in watchers : tasks[w.task].queued # 0
  /\ \A r \in reports : tasks[r.task].queued # 0
  /\ \A q \in requests : q.op \in {"start", "retry"} => q.now # 0
  /\ disp.pc \in {"claim", "reload", "env", "run", "fail"}
       => tasks[disp.task].queued # 0

\* No writer empties queued_at, and none but Cancel writes an unqueued row.
LEMMA QueuedRows ==
  ASSUME TypeOK, QueuedInv, [Next]_vars, NEW t \in Task
  PROVE  /\ tasks[t].queued # 0 => tasks'[t].queued # 0
         /\ tasks'[t].status \in Active \cup {"SUCCESS", "FAILED"}
              => tasks'[t].queued # 0
<1>1. tasks[t] \in Row
  BY DEF TypeOK, PlatformTypeOK
<1>2. /\ tasks[t].queued = 0 => tasks[t].status \notin Active \cup {"SUCCESS", "FAILED"}
      /\ \A w \in watchers : w.task = t => tasks[t].queued # 0
      /\ \A r \in reports : r.task = t => tasks[t].queued # 0
      /\ Claim \/ FailTask => tasks[disp.task].queued # 0
  BY DEF QueuedInv, NothingRunsUnqueued, Claim, FailTask, At
<1>3. CASE tasks'[t] = tasks[t]
  BY <1>2, <1>3
<1>4. CASE \E q \in requests : QueueWrite(q) /\ tasks'[t] = QueuedRow(tasks[t], q.now)
  BY <1>4 DEF QueueWrite, QueuedRow, QueuedInv
<1>5. CASE tasks'[t] = CancelledRow(tasks[t])
  BY <1>1, <1>5 DEF CancelledRow
<1>6. CASE /\ tasks[t].queued # 0
           /\ \/ tasks'[t] \in {FailedRow(tasks[t]), SucceededRow(tasks[t]), ClaimedRow(tasks[t])}
              \/ \E r \in reports : tasks'[t] = ReportedRow(tasks[t], r.status)
  BY <1>1, <1>6 DEF FailedRow, SucceededRow, ClaimedRow, ReportedRow
<1> QED
  BY <1>2, <1>3, <1>4, <1>5, <1>6, RowWriters DEF RowWritten

(***************************************************************************)
(* What happens to containers and watchers.                                *)
(***************************************************************************)

\* Only StartWorker gives a task's name to a new container; every other step
\* keeps the run count and starts nothing.
LEMMA ContainerRuns ==
  ASSUME TypeOK, [Next]_vars, NEW t \in Task
  PROVE  \/ /\ containers'[t].run = containers[t].run
            /\ Running(t)' => Running(t)
         \/ /\ StartWorker /\ disp.task = t
            /\ containers'[t].run = containers[t].run + 1
<1> DEFINE Kept == /\ containers'[t].run = containers[t].run
                   /\ Running(t)' => Running(t)
<1> SUFFICES Kept \/ (/\ StartWorker /\ disp.task = t
                      /\ containers'[t].run = containers[t].run + 1)
  OBVIOUS
<1>1. containers \in [Task -> Container] /\ reports \subseteq Report
  BY DEF TypeOK, PlatformTypeOK, WorkerTypeOK
<1>2. CASE UNCHANGED containers
  BY <1>2 DEF Running
<1>3. CASE ApiAction
  <2>1. ASSUME NEW q \in requests, CancelRemove(q) PROVE Kept
    BY <1>1, <2>1 DEF CancelRemove, NoContainer, Running
  <2> QED
    BY <1>2, <1>3, <2>1
       DEF ApiAction, ApiNext, StartCheck, CancelCheck, RetryCheck, Admit, RequestStep,
           QueueWrite, CancelWrite, CancelRemoveEnv, RequestAborted, CancelRemoveFails
<1>4. CASE RunnerAction
  BY <1>2, <1>4
     DEF RunnerAction, RunnerNext, WatcherStep, WatcherFault, PollGone, PollExited,
         ReadExitCode, CheckGone, CheckStillActive, CheckExit0, PollHiccup,
         ExitCodeHiccup, WatchExpires, WatcherAborted, MarkFailed, MarkSuccess, platformVars
<1>5. CASE DispatcherAction
  <2>1. CASE StartWorker
    BY <1>1, <2>1 DEF StartWorker, RunContainer, FreshContainer, Running
  <2> QED
    BY <1>2, <1>5, <2>1
       DEF DispatcherAction, DispatcherNext, DispatcherStep, CountActive, PickNext,
           Return, Claim, Reload, WriteEnvFile, StartRefused, FailTask, SecretsFail,
           StartFails, DispatcherAborted, platformVars
<1>6. CASE WorkerAction
  <2>1. ASSUME NEW u \in Task, NEW status \in Reported, Running(u),
               containers' = [containers EXCEPT ![u] = AfterReport(@, status)]
        PROVE  Kept
    <3>1. AfterReport(containers[u], status).run = containers[u].run
      BY <1>1, AfterReportType
    <3> QED
      BY <1>1, <2>1, <3>1 DEF Running
  <2>2. ASSUME NEW u \in Task, NEW status \in MainPosts, MainReports(u, status)
        PROVE  Kept
    BY <1>1, <2>2 DEF MainReports, Running
  <2>3. ASSUME NEW u \in Task, Boot(u) \/ FetchFails(u) \/ Preflight(u) \/ Migrate(u)
        PROVE  Kept
    BY <2>2, <2>3 DEF Boot, FetchFails, Preflight, Migrate
  <2>4. ASSUME NEW u \in Task, Retry(u) PROVE Kept
    <3>1. CASE containers[u].try < MaxAttempts
      BY <1>1, <2>4, <3>1 DEF Retry, Running
    <3>2. CASE ~(containers[u].try < MaxAttempts)
      BY <1>1, <2>1, <2>4, <3>2 DEF Retry
    <3> QED
      BY <3>1, <3>2
  <2>5. ASSUME NEW u \in Task, RetryStop(u) PROVE Kept
    <3>1. CASE containers[u].stop < MaxAttempts
      BY <1>1, <2>5, <3>1 DEF RetryStop, Running
    <3>2. CASE ~(containers[u].stop < MaxAttempts)
      BY <1>1, <2>1, <2>5, <3>2 DEF RetryStop
    <3> QED
      BY <3>1, <3>2
  <2>6. ASSUME NEW u \in Task, Sigterm(u) \/ Crash(u) PROVE Kept
    BY <1>1, <2>6 DEF Sigterm, Crash, ExitedContainer, Running
  <2>7. ASSUME NEW r \in reports, Answer(r) PROVE Kept
    <3>1. CASE IsAwaited(r)
      BY <1>1, <2>1, <2>7, <3>1 DEF Answer, IsAwaited
    <3>2. CASE ~IsAwaited(r)
      BY <2>7, <3>2 DEF Answer, Running
    <3> QED
      BY <3>1, <3>2
  <2>8. ASSUME NEW r \in reports,
               ReportStep(r) \/ ReportFails(r) \/ ReportTimesOut(r) \/ ReportDropped(r)
        PROVE  Kept
    BY <2>7, <2>8
       DEF ReportStep, ReportRead, ReportWrite, ReportFails, ReportTimesOut,
           ReportDropped, platformVars, Running
  <2> HIDE DEF Kept
  <2> QED
    BY <1>6, <2>3, <2>4, <2>5, <2>6, <2>8 DEF WorkerAction, WorkerNext, ProcessStep
<1>7. CASE DaemonAction
  BY <1>1, <1>7 DEF DaemonAction, Reap, NoContainer, Running
<1> QED
  BY <1>2, <1>3, <1>4, <1>5, <1>6, <1>7 DEF Next, Restart, vars, platformVars

\* Watchers and reports belong to tasks that had one already, or that the
\* dispatcher has in hand, or whose container is running.
LEMMA Successors ==
  ASSUME TypeOK, [Next]_vars
  PROVE  /\ \A x \in watchers' :
           (\E w \in watchers : w.task = x.task) \/ (StartWorker /\ disp.task = x.task)
         /\ \A x \in reports' :
           (\E r \in reports : r.task = x.task) \/ (x.task \in Task /\ Running(x.task))
<1>1. \A x \in watchers' :
           (\E w \in watchers : w.task = x.task) \/ (StartWorker /\ disp.task = x.task)
  <2> DEFINE OK == \A x \in watchers' :
           (\E w \in watchers : w.task = x.task) \/ (StartWorker /\ disp.task = x.task)
  <2>1. ASSUME watchers' \subseteq watchers PROVE OK
    BY <2>1
  <2>2. ASSUME NEW w \in watchers, NEW pc, Move(w, pc) PROVE OK
    <3>1. w \in Watcher
      BY DEF TypeOK, RunnerTypeOK
    <3> QED
      BY <2>2, <3>1 DEF Move
  <2>3. ASSUME StartWorker PROVE OK
    BY <2>3 DEF StartWorker, RunContainer
  <2>4. ASSUME RunnerAction PROVE OK
    <3>1. PICK w \in watchers : Stop(w) \/ (\E pc : Move(w, pc))
      BY <2>4
         DEF RunnerAction, RunnerNext, WatcherStep, WatcherFault, PollGone, PollExited,
             ReadExitCode, CheckGone, CheckStillActive, CheckExit0, PollHiccup,
             ExitCodeHiccup, WatchExpires, WatcherAborted, MarkFailed, MarkSuccess
    <3>2. Stop(w) => OK
      BY <2>1 DEF Stop
    <3> HIDE DEF OK
    <3> QED
      BY <2>2, <3>1, <3>2
  <2> HIDE DEF OK
  <2>5. OK
    BY <2>1, <2>3, <2>4
       DEF Next, ApiAction, DispatcherAction, DispatcherNext, DispatcherStep,
           CountActive, PickNext, Return, Claim, Reload, WriteEnvFile, StartRefused,
           FailTask, SecretsFail, StartFails, DispatcherAborted, WorkerAction,
           DaemonAction, Restart, vars
  <2> QED
    BY <2>5 DEF OK
<1>2. \A x \in reports' :
           (\E r \in reports : r.task = x.task) \/ (x.task \in Task /\ Running(x.task))
  <2> DEFINE OK == \A x \in reports' :
           (\E r \in reports : r.task = x.task) \/ (x.task \in Task /\ Running(x.task))
  <2>1. ASSUME reports' \subseteq reports PROVE OK
    BY <2>1
  <2>2. ASSUME NEW t \in Task, NEW status, NEW try, Running(t), Send(t, status, try)
        PROVE  OK
    BY <2>2 DEF Send
  <2>3. ASSUME NEW t \in Task,
               ProcessStep(t) \/ FetchFails(t) \/ Sigterm(t) \/ Crash(t)
        PROVE  OK
    <3> HIDE DEF OK
    <3> QED
      BY <2>1, <2>2, <2>3
         DEF ProcessStep, Boot, Preflight, Migrate, Retry, RetryStop, FetchFails,
             Sigterm, Crash, MainAt, MainReports
  <2>4. ASSUME NEW r \in reports,
               ReportStep(r) \/ ReportFails(r) \/ ReportTimesOut(r) \/ ReportDropped(r)
        PROVE  OK
    <3>1. r \in Report
      BY DEF TypeOK, WorkerTypeOK
    <3>2. \/ reports' = reports \ {r}
          \/ reports' = (reports \ {r}) \cup {[r EXCEPT !.pc = "write"]}
          \/ reports' = (reports \ {r}) \cup {[r EXCEPT !.waiting = FALSE]}
      BY <2>4 DEF ReportStep, ReportRead, ReportWrite, ReportFails, ReportTimesOut,
                  ReportDropped, Answer
    <3> QED
      BY <3>1, <3>2
  <2> HIDE DEF OK
  <2>5. OK
    BY <2>1, <2>3, <2>4
       DEF Next, ApiAction, apiVars, RunnerAction, DispatcherAction, WorkerAction,
           WorkerNext, DaemonAction, Restart, vars, workerVars
  <2> QED
    BY <2>5 DEF OK
<1> QED
  BY <1>1, <1>2

\* The dispatcher takes a task from the queue and keeps it until it is done.
InHand == {"claim", "reload", "env", "run", "fail"}

DispatcherMoved ==
  \/ disp' = disp
  \/ disp'.pc \in {"idle", "next"}
  \/ PickNext
  \/ Claim /\ disp'.pc = "reload" /\ disp'.task = disp.task
  \/ disp.pc = "reload" /\ disp'.pc = "env" /\ disp'.task = disp.task
  \/ disp.pc = "env" /\ disp'.pc = "run" /\ disp'.task = disp.task
  \/ disp.pc \in InHand /\ disp'.pc = "fail" /\ disp'.task = disp.task

LEMMA DispatcherMoves ==
  ASSUME TypeOK, [Next]_vars
  PROVE  DispatcherMoved
<1> USE DEF InHand, DispatcherMoved
<1>1. disp \in DispatcherState
  BY DEF TypeOK, DispatcherTypeOK
<1>2. CASE UNCHANGED disp
  BY <1>2
<1>3. /\ \A pc : GoTo(pc) => disp'.pc = pc /\ disp'.task = disp.task
      /\ GoNext => disp'.pc = "next"
      /\ GoIdle => disp'.pc = "idle"
  <2>1. ASSUME NEW pc, GoTo(pc) PROVE disp'.pc = pc /\ disp'.task = disp.task
    BY <1>1, <2>1 DEF GoTo
  <2>2. GoNext => disp'.pc = "next"
    BY <1>1 DEF GoNext
  <2>3. GoIdle => disp'.pc = "idle"
    BY DEF GoIdle
  <2> QED
    BY <2>1, <2>2, <2>3
<1>4. CASE DispatcherAction
  <2>1. CASE CountActive
    BY <1>1, <2>1 DEF CountActive
  <2>2. CASE StartWorker
    BY <2>2 DEF StartWorker
  <2>3. CASE Return \/ FailTask \/ DispatcherAborted
    BY <1>3, <2>3 DEF Return, FailTask, DispatcherAborted
  <2>4. CASE Claim \/ Reload \/ WriteEnvFile \/ StartRefused
    BY <1>3, <2>4 DEF Claim, Reload, WriteEnvFile, StartRefused, At
  <2>5. CASE SecretsFail \/ StartFails
    BY <1>3, <2>5 DEF SecretsFail, StartFails, At
  <2> QED
    BY <1>4, <2>1, <2>2, <2>3, <2>4, <2>5
       DEF DispatcherAction, DispatcherNext, DispatcherStep
<1>5. CASE Restart
  BY <1>3, <1>5 DEF Restart
<1> HIDE DEF DispatcherMoved
<1> QED
  BY <1>2, <1>4, <1>5
     DEF Next, ApiAction, RunnerAction, WorkerAction, DaemonAction, vars

LEMMA RequestTimes ==
  ASSUME TypeOK, [Next]_vars, NEW x \in requests', x.op \in {"start", "retry"}
  PROVE  (\E q \in requests : q.op = x.op /\ q.now = x.now) \/ x.now # 0
<1> DEFINE OK == (\E q \in requests : q.op = x.op /\ q.now = x.now) \/ x.now # 0
<1>1. clock \in Nat /\ requests \subseteq Request
  BY DEF TypeOK, ApiTypeOK
<1>2. ASSUME requests' \subseteq requests PROVE OK
  BY <1>2
<1>3. ASSUME NEW t \in Task, StartCheck(t) \/ CancelCheck(t) \/ RetryCheck(t) PROVE OK
  BY <1>1, <1>3 DEF StartCheck, CancelCheck, RetryCheck, Admit
<1>4. ASSUME NEW q \in requests, CancelWrite(q) \/ CancelRemove(q) \/ CancelRemoveFails(q)
      PROVE  OK
  BY <1>1, <1>4 DEF CancelWrite, CancelRemove, CancelRemoveFails
<1> HIDE DEF OK
<1>5. OK
  BY <1>2, <1>3, <1>4
     DEF Next, ApiAction, ApiNext, RequestStep, QueueWrite, CancelRemoveEnv,
         RequestAborted, RunnerAction, DispatcherAction, WorkerAction, DaemonAction,
         Restart, apiVars, vars
<1> QED
  BY <1>5 DEF OK

LEMMA QueuedStep == TypeOK /\ QueuedInv /\ [Next]_vars => QueuedInv'
<1> SUFFICES ASSUME TypeOK, QueuedInv, [Next]_vars PROVE QueuedInv'
  OBVIOUS
<1>1. TypeOK'
  BY NextType
<1>2. StartWorker => disp.task \in Task /\ tasks[disp.task].queued # 0
  BY DEF StartWorker, At, QueuedInv, TypeOK, DispatcherTypeOK
<1>3. NothingRunsUnqueued'
  BY <1>2, QueuedRows, ContainerRuns DEF NothingRunsUnqueued, QueuedInv
<1>4. (\A t \in Task : Running(t) => containers[t].run # 0)'
  BY ContainerRuns DEF QueuedInv, TypeOK, PlatformTypeOK
<1>5. (\A w \in watchers : tasks[w.task].queued # 0)'
  <2> SUFFICES ASSUME NEW x \in watchers' PROVE tasks'[x.task].queued # 0
    OBVIOUS
  <2>1. x.task \in Task
    BY <1>1 DEF TypeOK, RunnerTypeOK
  <2>2. tasks[x.task].queued # 0
    BY <1>2, Successors DEF QueuedInv
  <2> QED
    BY <2>1, <2>2, QueuedRows
<1>6. (\A r \in reports : tasks[r.task].queued # 0)'
  <2> SUFFICES ASSUME NEW x \in reports' PROVE tasks'[x.task].queued # 0
    OBVIOUS
  <2>1. x.task \in Task
    BY <1>1 DEF TypeOK, WorkerTypeOK
  <2>2. tasks[x.task].queued # 0
    BY Successors DEF QueuedInv, NothingRunsUnqueued
  <2> QED
    BY <2>1, <2>2, QueuedRows
<1>7. (\A q \in requests : q.op \in {"start", "retry"} => q.now # 0)'
  BY RequestTimes DEF QueuedInv
<1>8. (disp.pc \in InHand => tasks[disp.task].queued # 0)'
  <2> SUFFICES ASSUME disp'.pc \in InHand PROVE tasks'[disp'.task].queued # 0
    OBVIOUS
  <2>1. disp'.task \in Task
    BY <1>1 DEF TypeOK, DispatcherTypeOK, InHand
  <2>2. tasks[disp'.task].queued # 0
    BY <2>1, DispatcherMoves
       DEF DispatcherMoved, Claim, At, QueuedInv, InHand, PickNext, Queue, IsQueued, TypeOK, DispatcherTypeOK
  <2> QED
    BY <2>1, <2>2, QueuedRows
<1> QED
  BY <1>3, <1>4, <1>5, <1>6, <1>7, <1>8 DEF QueuedInv, InHand

\* Nothing but a queued task gets a worker or a status that only work gives.
THEOREM NothingRunsUnqueuedCorrect == Spec => []NothingRunsUnqueued
<1>1. Init => QueuedInv
  BY DEF Init, PlatformInit, ApiInit, RunnerInit, DispatcherInit, WorkerInit, NewRow,
         QueuedInv, NothingRunsUnqueued, Running
<1>2. QueuedInv => NothingRunsUnqueued
  BY DEF QueuedInv
<1> QED
  BY <1>1, <1>2, QueuedStep, TypeCorrect, PTL DEF Spec

(***************************************************************************)
(* Launches.  A queueing is a token.  It lies in the row while the row is  *)
(* queued, moves to the dispatcher when it picks and claims the task, and  *)
(* is spent by docker run.  A Start that overtakes the claim puts a second *)
(* token in the row.                                                       *)
(***************************************************************************)
Held(t) == disp.task = t /\ disp.pc \in {"claim", "reload", "env", "run"}
Claimed(t) == disp.task = t /\ disp.pc \in {"reload", "env", "run"}

LaunchInv ==
  \A t \in Task :
    /\ containers[t].run <= queueings[t]
    /\ IsQueued(tasks[t]) \/ Held(t) => containers[t].run + 1 <= queueings[t]
    /\ IsQueued(tasks[t]) /\ Claimed(t) => containers[t].run + 2 <= queueings[t]

\* A task is queued by QueueWrite and by nothing else.
LEMMA Queueing ==
  ASSUME TypeOK, [Next]_vars, NEW t \in Task
  PROVE  \/ /\ queueings'[t] = queueings[t]
            /\ IsQueued(tasks'[t]) => IsQueued(tasks[t])
         \/ /\ \E q \in requests : QueueWrite(q) /\ UNCHANGED disp
            /\ queueings'[t] = queueings[t] + 1
<1>1. /\ tasks[t] \in Row /\ queueings \in [Task -> Nat]
      /\ \A q \in requests : q.task \in Task
      /\ \A r \in reports : r.status \in Reported
  BY DEF TypeOK, PlatformTypeOK, ApiTypeOK, WorkerTypeOK
<1>2. CASE \E q \in requests : q.task = t /\ QueueWrite(q)
  <2>1. PICK q \in requests : q.task = t /\ QueueWrite(q)
    BY <1>2
  <2>2. queueings'[t] = queueings[t] + 1
    BY <1>1, <2>1 DEF QueueWrite
  <2>3. queueings' # queueings
    BY <1>1, <2>2
  <2>4. UNCHANGED disp
    BY <2>3
       DEF Next, ApiAction, RunnerAction, DispatcherAction, WorkerAction,
           DaemonAction, Restart, apiVars, vars
  <2> QED
    BY <2>1, <2>2, <2>4
<1>3. CASE ~ \E q \in requests : q.task = t /\ QueueWrite(q)
  <2>1. queueings'[t] = queueings[t]
    BY <1>1, <1>3
       DEF Next, ApiAction, ApiNext, RequestStep, StartCheck, CancelCheck, RetryCheck,
           Admit, CancelWrite, CancelRemove, CancelRemoveEnv, RequestAborted,
           CancelRemoveFails, QueueWrite, RunnerAction, DispatcherAction, WorkerAction,
           DaemonAction, Restart, apiVars, vars
  <2>2. IsQueued(tasks'[t]) => IsQueued(tasks[t])
    <3>1. ~IsQueued(CancelledRow(tasks[t])) /\ ~IsQueued(ClaimedRow(tasks[t]))
          /\ ~IsQueued(FailedRow(tasks[t])) /\ ~IsQueued(SucceededRow(tasks[t]))
      BY <1>1 DEF IsQueued, CancelledRow, ClaimedRow, FailedRow, SucceededRow
    <3>2. \A r \in reports : ~IsQueued(ReportedRow(tasks[t], r.status))
      BY <1>1 DEF IsQueued, ReportedRow
    <3> QED
      BY <1>3, <3>1, <3>2, RowWriters DEF RowWritten
  <2> QED
    BY <2>1, <2>2
<1> QED
  BY <1>2, <1>3

LEMMA LaunchStep == TypeOK /\ LaunchInv /\ [Next]_vars => LaunchInv'
<1> SUFFICES ASSUME TypeOK, LaunchInv, [Next]_vars, NEW t \in Task
             PROVE  /\ containers'[t].run <= queueings'[t]
                    /\ IsQueued(tasks'[t]) \/ Held(t)'
                         => containers'[t].run + 1 <= queueings'[t]
                    /\ IsQueued(tasks'[t]) /\ Claimed(t)'
                         => containers'[t].run + 2 <= queueings'[t]
  BY DEF LaunchInv
<1>1. /\ containers[t].run \in Nat /\ queueings[t] \in Nat
      /\ containers[t].run <= queueings[t]
      /\ IsQueued(tasks[t]) \/ Held(t) => containers[t].run + 1 <= queueings[t]
      /\ IsQueued(tasks[t]) /\ Claimed(t) => containers[t].run + 2 <= queueings[t]
  BY DEF LaunchInv, TypeOK, PlatformTypeOK, ApiTypeOK
<1>2. CASE StartWorker /\ disp.task = t
  <2>1. Claimed(t) /\ Held(t) /\ disp'.pc = "next" /\ UNCHANGED tasks
    BY <1>2 DEF StartWorker, Claimed, Held, At
  <2>2. ~Held(t)' /\ ~Claimed(t)'
    BY <2>1 DEF Claimed, Held
  <2>3. queueings'[t] = queueings[t]
    BY <1>2, <2>1, Queueing DEF Claimed
  <2>4. containers'[t].run \in {containers[t].run, containers[t].run + 1}
    BY ContainerRuns
  <2>5. IsQueued(tasks'[t]) = IsQueued(tasks[t])
    BY <2>1
  <2> HIDE DEF Held, Claimed
  <2> QED
    BY <1>1, <2>1, <2>2, <2>3, <2>4, <2>5
<1>3. CASE ~(StartWorker /\ disp.task = t)
  <2>1. containers'[t].run = containers[t].run
    BY <1>3, ContainerRuns
  <2>2. CASE UNCHANGED disp /\ queueings'[t] = queueings[t] + 1
    BY <1>1, <2>1, <2>2 DEF Held, Claimed
  <2>3. CASE /\ queueings'[t] = queueings[t]
             /\ IsQueued(tasks'[t]) => IsQueued(tasks[t])
    <3>1. Held(t)' => Held(t) \/ IsQueued(tasks[t])
      BY DispatcherMoves
         DEF DispatcherMoved, Held, PickNext, Queue, Claim, At, TypeOK, DispatcherTypeOK
    <3>2. Claimed(t)' => Claimed(t) \/ ~IsQueued(tasks'[t])
      <4>1. CASE Claim /\ disp'.task = disp.task
        <5>1. disp.task \in Task /\ tasks \in [Task -> Row]
          BY <4>1 DEF Claim, At, TypeOK, DispatcherTypeOK, PlatformTypeOK
        <5>2. ~IsQueued(tasks'[disp.task])
          BY <4>1, <5>1 DEF Claim, UpdateTask, ClaimedRow, IsQueued
        <5> QED
          BY <4>1, <5>2 DEF Claimed
      <4>2. CASE PickNext
        BY <4>2 DEF PickNext, Claimed, TypeOK, DispatcherTypeOK
      <4>3. CASE ~Claim /\ ~PickNext
        BY <4>3, DispatcherMoves DEF DispatcherMoved, Claimed
      <4> QED
        BY <4>1, <4>2, <4>3, DispatcherMoves DEF DispatcherMoved, Claimed
    <3> QED
      BY <1>1, <2>1, <2>3, <3>1, <3>2
  <2> QED
    BY <2>2, <2>3, Queueing
<1> QED
  BY <1>2, <1>3

LEMMA LaunchInit == Init => LaunchInv
BY DEF Init, PlatformInit, ApiInit, DispatcherInit, NewRow, LaunchInv, IsQueued, Held,
       Claimed

\* docker run succeeds at most once for each Start or Retry.
THEOREM LaunchesCorrect == Spec => []LaunchesWithinQueueings
<1>1. LaunchInv => LaunchesWithinQueueings
  BY DEF LaunchInv, LaunchesWithinQueueings
<1> QED
  BY <1>1, LaunchInit, LaunchStep, TypeCorrect, PTL DEF Spec

\* A running container's own watcher is polling it.
THEOREM RunningIsWatchedCorrect == Spec => []RunningIsWatched
<1>1. Init => RunningIsWatched
  BY DEF Init, PlatformInit, RunningIsWatched, Running
<1>2. TypeOK /\ RunningIsWatched /\ [Next]_vars => RunningIsWatched'
  <2> DEFINE Clear == restarts = 0 /\ FaultKinds \cap {"inspect", "expiry"} = {}
             Poller(t) == [task |-> t, run |-> containers[t].run, pc |-> "poll"]
  <2> SUFFICES ASSUME TypeOK, RunningIsWatched, [Next]_vars, Clear',
                      NEW t \in Task, Running(t)'
               PROVE  Poller(t)' \in watchers'
    BY DEF RunningIsWatched
  <2>1. Clear /\ ~Restart
    BY DEF Next, ApiAction, RunnerAction, DispatcherAction, WorkerAction, DaemonAction,
           Restart, vars, TypeOK
  <2>2. CASE StartWorker /\ disp.task = t
    BY <2>2 DEF StartWorker, RunContainer, FreshContainer, TypeOK, PlatformTypeOK
  <2>3. CASE ~(StartWorker /\ disp.task = t)
    <3>1. Running(t) /\ Poller(t)' = Poller(t)
      BY <2>3, ContainerRuns
    <3>2. Poller(t) \in watchers
      BY <2>1, <3>1 DEF RunningIsWatched
    <3>3. ASSUME NEW w \in watchers, WatcherStep(w) \/ WatcherFault(w)
          PROVE  Poller(t) \in watchers'
      <4>1. CASE w = Poller(t)
        <5>1. w.pc = "poll" /\ w.task = t
          BY <4>1
        <5> QED
          BY <2>1, <3>1, <3>3, <5>1
             DEF WatcherStep, WatcherFault, PollGone, PollExited, ReadExitCode,
                 CheckGone, CheckStillActive, MarkFailed, CheckExit0, MarkSuccess,
                 PollHiccup, ExitCodeHiccup, WatchExpires, WatcherAborted, Fault, Running
      <4>2. CASE w # Poller(t)
        <5>1. Stop(w) \/ (\E pc : Move(w, pc))
          BY <3>3
             DEF WatcherStep, WatcherFault, PollGone, PollExited, ReadExitCode,
                 CheckGone, CheckStillActive, MarkFailed, CheckExit0, MarkSuccess,
                 PollHiccup, ExitCodeHiccup, WatchExpires, WatcherAborted
        <5> HIDE DEF Poller
        <5> QED
          BY <3>2, <4>2, <5>1 DEF Stop, Move
      <4> QED
        BY <4>1, <4>2
    <3>4. CASE watchers \subseteq watchers'
      BY <3>1, <3>2, <3>4
    <3>5. Poller(t) \in watchers'
      <4> HIDE DEF Poller
      <4> QED
        BY <2>1, <3>2, <3>3, <3>4
           DEF Next, ApiAction, RunnerAction, RunnerNext, DispatcherAction,
               DispatcherNext, DispatcherStep, CountActive, PickNext, Return, Claim,
               Reload, WriteEnvFile, StartWorker, RunContainer, StartRefused, FailTask,
               SecretsFail, StartFails, DispatcherAborted, WorkerAction, DaemonAction,
               vars
    <3> QED
      BY <3>1, <3>5
  <2> QED
    BY <2>2, <2>3
<1> QED
  BY <1>1, <1>2, TypeCorrect, PTL DEF Spec

(***************************************************************************)
(* Lost slots.  A task is marked when its active row is in no hand that    *)
(* will settle it, or may come to be so: a late report may make the row    *)
(* active again, its worker has lost an attempt of its last report, or got *)
(* SIGTERM.  A step of one backend marks no task, except that a fault may  *)
(* mark the one that it happens to.  So there are no more marked tasks     *)
(* than faults.                                                            *)
(***************************************************************************)

\* Tasks of which nobody has asked for a cancel.
Mine(t) == clicks[t]["cancel"] = 0

\* An active row that nobody will settle; the dispatcher settles the row of the
\* task in hand only while it is PREPARING.
Lost ==
  {t \in ActiveTasks :
     /\ Mine(t) /\ ~Running(t)
     /\ \A w \in watchers : w.task # t
     /\ disp.task # t \/ tasks[t].status = "RUNNING"}

\* A handler that may make a row active although its worker has gone on.
Late == {r \in reports : Mine(r.task) /\ r.status \in Active /\ ~IsAwaited(r)}

\* A worker that has lost an attempt of its last report ...
Spent ==
  {t \in Task :
     /\ Mine(t) /\ Running(t) /\ containers[t].pc \in {"SUCCESS", "FAILED"}
     /\ containers[t].try > 1 \/ ~Awaiting(t, containers[t].pc)}

\* ... and one that got SIGTERM.
Stopped == {t \in Task : Mine(t) /\ Running(t) /\ containers[t].stop # 0}

Marked == Lost \cup {r.task : r \in Late} \cup Spent \cup Stopped

\* The account: as long as the backend has not restarted, there are no more of
\* them than faults.
MarkedWithinFaults ==
  restarts = 0 => IsFiniteSet(Marked) /\ Cardinality(Marked) <= faults

\* A step marks nothing, or a fault marks one task.
Pays ==
  \/ Marked' \subseteq Marked
  \/ faults' = faults + 1 /\ \E t : Marked' \subseteq Marked \cup {t}

\* A step that pays leaves the account in balance.
LEMMA Paid ==
  ASSUME TypeOK, TypeOK', MarkedWithinFaults, restarts = 0, faults <= faults', Pays
  PROVE  IsFiniteSet(Marked') /\ Cardinality(Marked') <= faults'
<1>1. /\ faults \in Nat /\ faults' \in Nat
      /\ IsFiniteSet(Marked) /\ Cardinality(Marked) \in Nat /\ Cardinality(Marked) <= faults
  BY FS_CardinalityType DEF TypeOK, PlatformTypeOK, MarkedWithinFaults
<1>2. CASE Marked' \subseteq Marked
  <2>1. IsFiniteSet(Marked') /\ Cardinality(Marked') <= Cardinality(Marked)
    BY <1>1, <1>2, FS_Subset
  <2>2. Cardinality(Marked') \in Nat
    BY <2>1, FS_CardinalityType
  <2> QED
    BY <1>1, <2>1, <2>2
<1>3. ASSUME faults' = faults + 1, NEW t, Marked' \subseteq Marked \cup {t}
      PROVE  IsFiniteSet(Marked') /\ Cardinality(Marked') <= faults'
  <2>1. /\ IsFiniteSet(Marked \cup {t})
        /\ Cardinality(Marked \cup {t}) \in {Cardinality(Marked), Cardinality(Marked) + 1}
    BY <1>1, FS_AddElement
  <2>2. IsFiniteSet(Marked') /\ Cardinality(Marked') <= Cardinality(Marked \cup {t})
    BY <1>3, <2>1, FS_Subset
  <2>3. Cardinality(Marked') \in Nat
    BY <2>2, FS_CardinalityType
  <2> QED
    BY <1>1, <1>3, <2>1, <2>2, <2>3
<1> QED
  BY <1>2, <1>3 DEF Pays

\* What becomes of the four sets: nothing is new ...
LEMMA Kept ==
  ASSUME Lost' \subseteq Lost, Late' \subseteq Late, Spent' \subseteq Spent,
         Stopped' \subseteq Stopped
  PROVE  Pays
BY DEF Pays, Marked

\* ... or only one task is, which was marked before, or suffers a fault.
LEMMA Turns ==
  ASSUME NEW t,
         Lost' \subseteq Lost \cup {t}, \A r \in Late' : r \in Late \/ r.task = t,
         Spent' \subseteq Spent \cup {t}, Stopped' \subseteq Stopped \cup {t},
         t \in Marked \/ faults' = faults + 1
  PROVE  Pays
<1>1. Marked' \subseteq Marked \cup {t}
  BY DEF Marked
<1> QED
  BY <1>1 DEF Pays

(***************************************************************************)
(* The places the account relies on: a cancel in flight has been counted,  *)
(* an idle dispatcher has no task in hand, and the worker waits for one    *)
(* report of a status at most, the one its main or its SIGTERM thread is   *)
(* at.                                                                     *)
(***************************************************************************)

\* A cancel that was asked for stays so.
LEMMA MineShrinks ==
  ASSUME TypeOK, [Next]_vars, NEW t \in Task
  PROVE  Mine(t)' => Mine(t)
<1> USE DEF Mine
<1>1. clicks \in [Task -> [Op -> Nat]]
  BY DEF TypeOK, ApiTypeOK
<1>2. CASE UNCHANGED clicks
  BY <1>2
<1>3. ASSUME NEW u \in Task, NEW op \in Op, NEW now, Admit(u, op, now) PROVE Mine(t)' => Mine(t)
  <2>1. clicks' = [clicks EXCEPT ![u][op] = @ + 1]
    BY <1>3 DEF Admit
  <2> QED
    BY <1>1, <2>1
<1> HIDE DEF Mine
<1> QED
  BY <1>2, <1>3
     DEF Next, ApiAction, ApiNext, StartCheck, CancelCheck, RetryCheck, RequestStep,
         QueueWrite, CancelWrite, CancelRemove, CancelRemoveEnv, RequestAborted,
         CancelRemoveFails, RunnerAction, DispatcherAction, WorkerAction, DaemonAction,
         Restart, vars, apiVars

\* Only a counted cancel is in flight.
LEMMA CancelsCount ==
  ASSUME TypeOK, [Next]_vars, \A q \in requests : q.op = "cancel" => ~Mine(q.task)
  PROVE  \A q \in requests' : q.op = "cancel" => ~Mine(q.task)'
<1> DEFINE OK == \A q \in requests' : q.op = "cancel" => ~Mine(q.task)'
<1>1. requests \subseteq Request /\ clicks \in [Task -> [Op -> Nat]]
  BY DEF TypeOK, ApiTypeOK
<1>2. \A q \in requests : q.op = "cancel" => ~Mine(q.task)'
  BY <1>1, MineShrinks
<1>3. ASSUME requests' \subseteq requests PROVE OK
  BY <1>2, <1>3
<1>4. ASSUME NEW t \in Task, StartCheck(t) \/ RetryCheck(t) PROVE OK
  BY <1>2, <1>4 DEF StartCheck, RetryCheck, Admit
<1>5. ASSUME NEW t \in Task, CancelCheck(t) PROVE OK
  <2>1. ~Mine(t)'
    BY <1>1, <1>5 DEF CancelCheck, Admit, Mine
  <2> QED
    BY <1>2, <1>5, <2>1 DEF CancelCheck, Admit
<1>6. ASSUME NEW q \in requests, NEW pc, requests' = (requests \ {q}) \cup {[q EXCEPT !.pc = pc]} PROVE OK
  BY <1>1, <1>2, <1>6
<1> HIDE DEF OK
<1>7. OK
  BY <1>3, <1>4, <1>5, <1>6
     DEF Next, ApiAction, ApiNext, RequestStep, QueueWrite, CancelWrite, CancelRemove, CancelRemoveEnv,
         RequestAborted, CancelRemoveFails, RunnerAction, DispatcherAction, WorkerAction, DaemonAction,
         Restart, apiVars, vars
<1> QED
  BY <1>7 DEF OK

\* The dispatcher lets go of the task when it is done with it.
LEMMA EmptyHanded ==
  ASSUME TypeOK, [Next]_vars, disp.pc \in {"idle", "next"} => disp.task = NoTask
  PROVE  disp'.pc \in {"idle", "next"} => disp'.task = NoTask
<1> DEFINE OK == disp'.pc \in {"idle", "next"} => disp'.task = NoTask
<1>1. disp \in DispatcherState
  BY DEF TypeOK, DispatcherTypeOK
<1>2. CASE UNCHANGED disp
  BY <1>2
<1>3. GoIdle \/ GoNext => OK
  <2>1. GoIdle => disp'.task = NoTask
    BY DEF GoIdle
  <2>2. GoNext => disp'.task = NoTask
    BY <1>1 DEF GoNext
  <2> QED
    BY <2>1, <2>2
<1>4. ASSUME NEW pc \in {"env", "reload", "run", "fail"}, GoTo(pc) PROVE OK
  <2>1. disp'.pc = pc
    BY <1>1, <1>4 DEF GoTo
  <2> QED
    BY <2>1
<1>5. CASE CountActive \/ PickNext \/ StartWorker
  <2>1. CASE CountActive
    <3>1. disp'.task = disp.task
      BY <1>1, <2>1 DEF CountActive
    <3> QED
      BY <2>1, <3>1 DEF CountActive, At
  <2>2. CASE PickNext
    <3>1. disp'.pc = "claim"
      BY <1>1, <2>2 DEF PickNext
    <3> QED
      BY <3>1
  <2>3. CASE StartWorker
    BY <2>3 DEF StartWorker
  <2> QED
    BY <1>5, <2>1, <2>2, <2>3
<1>6. CASE Return \/ FailTask \/ Reload \/ DispatcherAborted
  BY <1>3, <1>4, <1>6 DEF Return, FailTask, Reload, DispatcherAborted
<1>7. CASE Claim \/ WriteEnvFile \/ StartRefused \/ SecretsFail \/ StartFails
  BY <1>4, <1>7 DEF Claim, WriteEnvFile, StartRefused, SecretsFail, StartFails
<1> HIDE DEF OK
<1>8. OK
  BY <1>2, <1>3, <1>5, <1>6, <1>7
     DEF OK, Next, ApiAction, RunnerAction, WorkerAction, DaemonAction, Restart, vars,
         DispatcherAction, DispatcherNext, DispatcherStep
<1> QED
  BY <1>8 DEF OK

\* Every report that is waited for is the worker's current one.
Fits(r) ==
  \/ r.status = containers[r.task].pc
  \/ r.status = "CANCELLED" /\ containers[r.task].stop # 0

ReportsFit ==
  /\ \A r \in reports : r.run <= containers[r.task].run
  /\ \A r \in reports : IsAwaited(r) => Fits(r)
  /\ \A r, s \in reports :
       r.task = s.task /\ r.status = s.status /\ IsAwaited(r) /\ IsAwaited(s) => r = s

\* A step after which fewer reports are awaited, in the same places.
LEMMA FewerAwaited ==
  ASSUME TypeOK, TypeOK', ReportsFit,
         \A t \in Task : containers[t].run <= containers'[t].run,
         \A s \in reports : s \in reports' /\ IsAwaited(s)' => IsAwaited(s) /\ Fits(s)',
         \/ reports' \subseteq reports
         \/ \E r \in reports : \E x \in Report :
              /\ reports' \subseteq (reports \ {r}) \cup {x}
              /\ x.task = r.task /\ x.run = r.run /\ x.status = r.status
              /\ IsAwaited(x)' => IsAwaited(r) /\ Fits(x)'
  PROVE  ReportsFit'
<1>1. /\ reports \subseteq Report /\ reports' \subseteq Report
      /\ containers \in [Task -> Container] /\ containers' \in [Task -> Container]
  BY DEF TypeOK, WorkerTypeOK, PlatformTypeOK
<1>2. ASSUME NEW s \in reports PROVE s.run <= containers'[s.task].run
  <2>1. /\ s.run \in Nat /\ containers[s.task].run \in Nat /\ containers'[s.task].run \in Nat
        /\ s.task \in Task
    BY <1>1
  <2>2. s.run <= containers[s.task].run /\ containers[s.task].run <= containers'[s.task].run
    BY <2>1 DEF ReportsFit
  <2> QED
    BY <2>1, <2>2
<1>3. \A s, z \in reports :
       s.task = z.task /\ s.status = z.status /\ IsAwaited(s) /\ IsAwaited(z) => s = z
  BY DEF ReportsFit
<1>4. CASE reports' \subseteq reports
  BY <1>2, <1>3, <1>4 DEF ReportsFit
<1>5. ASSUME NEW r \in reports, NEW x \in Report,
             reports' \subseteq (reports \ {r}) \cup {x},
             x.task = r.task, x.run = r.run, x.status = r.status,
             IsAwaited(x)' => IsAwaited(r) /\ Fits(x)'
      PROVE  ReportsFit'
  <2>1. \A s \in reports' : s.run <= containers'[s.task].run
    BY <1>2, <1>5
  <2>2. ASSUME NEW s \in reports', IsAwaited(s)' PROVE Fits(s)'
    BY <1>5, <2>2
  <2>3. ASSUME NEW s \in reports', NEW z \in reports',
               s.task = z.task, s.status = z.status, IsAwaited(s)', IsAwaited(z)'
        PROVE  s = z
    BY <1>3, <1>5, <2>3
  <2> QED
    BY <2>1, <2>2, <2>3 DEF ReportsFit
<1> QED
  BY <1>4, <1>5

\* The worker of t sends a report of a status none of its reports is awaited for.
LEMMA FreshReport ==
  ASSUME TypeOK, TypeOK', ReportsFit, NEW t \in Task, Running(t), Running(t)',
         NEW status \in Reported, NEW try \in Nat, Send(t, status, try),
         ~Awaiting(t, status),
         \A u \in Task : u # t => containers'[u] = containers[u],
         containers'[t].run = containers[t].run,
         \/ /\ containers'[t].pc = status /\ containers'[t].stop = containers[t].stop
            /\ containers[t].pc = status \/ containers[t].pc \notin MainPosts
         \/ /\ status = "CANCELLED" /\ containers'[t].stop # 0
            /\ containers'[t].pc = containers[t].pc
  PROVE  ReportsFit'
<1>1. /\ reports \subseteq Report /\ reports' \subseteq Report
      /\ containers \in [Task -> Container] /\ containers' \in [Task -> Container]
  BY DEF TypeOK, WorkerTypeOK, PlatformTypeOK
<1> DEFINE x == [task |-> t, run |-> containers[t].run, status |-> status, try |-> try,
                 pc |-> "read", waiting |-> TRUE]
<1>2. /\ x \in Report /\ reports' = reports \cup {x} /\ IsAwaited(x)'
      /\ x.task = t /\ x.run = containers[t].run /\ x.status = status
  BY <1>1 DEF Send, IsAwaited
<1> HIDE DEF x
<1>3. \A s \in reports : IsAwaited(s)' <=> IsAwaited(s)
  BY <1>1 DEF IsAwaited, Running
<1>4. \A s \in reports : s.task = t /\ IsAwaited(s) => s.status # status
  BY DEF Awaiting
<1>5. \A s \in reports' : s.run <= containers'[s.task].run
  BY <1>1, <1>2 DEF ReportsFit
<1>6. ASSUME NEW s \in reports', IsAwaited(s)'
      PROVE  Fits(s)'
  <2>1. CASE s = x
    BY <1>2, <2>1 DEF Fits
  <2>2. CASE s \in reports /\ s.task = t
    BY <1>1, <1>3, <1>4, <1>6, <2>2 DEF ReportsFit, Fits
  <2>3. CASE s \in reports /\ s.task # t
    BY <1>1, <1>3, <1>6, <2>3 DEF ReportsFit, Fits
  <2> QED
    BY <1>2, <2>1, <2>2, <2>3
<1>7. ASSUME NEW s \in reports', NEW z \in reports',
             s.task = z.task, s.status = z.status, IsAwaited(s)', IsAwaited(z)'
      PROVE  s = z
  BY <1>2, <1>3, <1>4, <1>7 DEF ReportsFit
<1> QED
  BY <1>5, <1>6, <1>7 DEF ReportsFit

\* What a container becomes without a running worker.
LEMMA StoppedContainers ==
  ASSUME NEW c \in Container, NEW code \in {0, 1}, NEW status \in Reported
  PROVE  /\ NoContainer(c).state = "none" /\ NoContainer(c).run = c.run
         /\ ExitedContainer(c, code).state = "exited" /\ ExitedContainer(c, code).run = c.run
         /\ status \in {"PREPARING", "RUNNING"} =>
              /\ AfterReport(c, status).state = c.state /\ AfterReport(c, status).run = c.run
              /\ AfterReport(c, status).stop = c.stop
              /\ AfterReport(c, status).pc \in {"preflight", "migrate"}
         /\ status \notin {"PREPARING", "RUNNING"} =>
              /\ AfterReport(c, status).state = "exited" /\ AfterReport(c, status).run = c.run
BY DEF NoContainer, ExitedContainer, AfterReport

\* Nobody waits for a report of a container that has ended, or is not yet there.
LEMMA NotRunningFits ==
  ASSUME TypeOK, TypeOK', ReportsFit, NEW t \in Task, NEW c \in Container,
         containers' = [containers EXCEPT ![t] = c],
         \/ c.state # "running" /\ c.run = containers[t].run
         \/ c.run = containers[t].run + 1,
         reports' \subseteq reports
  PROVE  ReportsFit'
<1>1. /\ reports \subseteq Report /\ containers \in [Task -> Container]
  BY DEF TypeOK, WorkerTypeOK, PlatformTypeOK
<1>2. \A u \in Task : containers[u].run <= containers'[u].run
  BY <1>1
<1>3. ASSUME NEW s \in reports, IsAwaited(s)' PROVE IsAwaited(s) /\ Fits(s)'
  <2>1. s.task # t
    <3>1. s.run <= containers[s.task].run /\ s.run \in Nat /\ s.task \in Task
      BY <1>1 DEF ReportsFit
    <3> QED
      BY <1>1, <1>3, <3>1 DEF IsAwaited, Running
  <2>2. s.task \in Task /\ containers'[s.task] = containers[s.task]
    BY <1>1, <2>1
  <2> QED
    BY <1>3, <2>2 DEF ReportsFit, Fits, IsAwaited, Running
<1> QED
  BY <1>2, <1>3, FewerAwaited

\* Nor does a step on one report let anybody wait for more.
LEMMA SameContainersFit ==
  ASSUME TypeOK, TypeOK', ReportsFit, UNCHANGED containers,
         \/ reports' \subseteq reports
         \/ \E r \in reports : \E x \in Report :
              /\ reports' \subseteq (reports \ {r}) \cup {x}
              /\ x.task = r.task /\ x.run = r.run /\ x.status = r.status
              /\ x.waiting => r.waiting
  PROVE  ReportsFit'
<1>1. /\ reports \subseteq Report /\ containers \in [Task -> Container]
  BY DEF TypeOK, WorkerTypeOK, PlatformTypeOK
<1>2. \A u \in Task : containers[u].run <= containers'[u].run
  BY <1>1
<1>3. \A s \in reports : IsAwaited(s)' => IsAwaited(s) /\ Fits(s)'
  BY DEF ReportsFit, IsAwaited, Running, Fits
<1>4. ASSUME NEW r \in reports, NEW x \in Report,
             x.task = r.task, x.run = r.run, x.status = r.status, x.waiting => r.waiting,
             IsAwaited(x)'
      PROVE  IsAwaited(r) /\ Fits(x)'
  BY <1>4 DEF ReportsFit, IsAwaited, Running, Fits
<1> QED
  BY <1>2, <1>3, <1>4, FewerAwaited

\* The worker of t turns from a report that nobody waits for any more.
LEMMA TurnsFit ==
  ASSUME TypeOK, TypeOK', ReportsFit, NEW t \in Task, NEW status \in Reported, Running(t),
         containers' = [containers EXCEPT ![t] = AfterReport(@, status)],
         reports' \subseteq reports,
         status \in {"PREPARING", "RUNNING"} => containers[t].pc = status,
         \A r \in reports' : r.task = t /\ r.status = status => ~IsAwaited(r)
  PROVE  ReportsFit'
<1>1. /\ reports \subseteq Report /\ containers \in [Task -> Container]
  BY DEF TypeOK, WorkerTypeOK, PlatformTypeOK
<1>2. AfterReport(containers[t], status) \in Container
  BY <1>1, AfterReportType
<1>3. CASE status \notin {"PREPARING", "RUNNING"}
  <2> DEFINE c == AfterReport(containers[t], status)
  <2>1. c \in Container /\ c.state # "running" /\ c.run = containers[t].run
    BY <1>1, <1>2, <1>3, StoppedContainers
  <2>2. containers' = [containers EXCEPT ![t] = c]
    OBVIOUS
  <2> HIDE DEF c
  <2> QED
    BY <2>1, <2>2, NotRunningFits
<1>4. CASE status \in {"PREPARING", "RUNNING"}
  <2> DEFINE c == AfterReport(containers[t], status)
  <2>1. /\ c \in Container /\ c.state = containers[t].state /\ c.run = containers[t].run
        /\ c.stop = containers[t].stop /\ containers' = [containers EXCEPT ![t] = c]
    BY <1>1, <1>2, <1>4, StoppedContainers
  <2> HIDE DEF c
  <2>2. \A u \in Task : containers[u].run <= containers'[u].run
    BY <1>1, <2>1
  <2>3. ASSUME NEW s \in reports, s \in reports', IsAwaited(s)' PROVE IsAwaited(s) /\ Fits(s)'
    <3>1. IsAwaited(s)
      BY <1>1, <2>1, <2>3 DEF IsAwaited, Running
    <3>2. CASE s.task # t
      BY <1>1, <2>1, <3>1, <3>2 DEF ReportsFit, Fits
    <3>3. CASE s.task = t
      <4>1. s.status = "CANCELLED" /\ containers[t].stop # 0
        BY <1>4, <2>3, <3>1, <3>3 DEF ReportsFit, Fits
      <4> QED
        BY <1>1, <2>1, <3>1, <3>3, <4>1 DEF Fits
    <3> QED
      BY <3>1, <3>2, <3>3
  <2> QED
    BY <2>2, <2>3, FewerAwaited
<1> QED
  BY <1>3, <1>4

\* The steps of the handlers and of the workers.
LEMMA ReportStepFits ==
  ASSUME TypeOK, TypeOK', ReportsFit, NEW r \in reports,
         ReportStep(r) \/ ReportFails(r) \/ ReportTimesOut(r) \/ ReportDropped(r)
  PROVE  ReportsFit'
<1>1. /\ reports \subseteq Report /\ containers \in [Task -> Container]
      /\ r \in Report /\ r.task \in Task /\ r.status \in Reported
  BY DEF TypeOK, WorkerTypeOK, PlatformTypeOK
<1>2. /\ [r EXCEPT !.pc = "write"] \in Report /\ [r EXCEPT !.waiting = FALSE] \in Report
  BY <1>1, ReportUpdates
<1>3. ASSUME Answer(r) PROVE ReportsFit'
  <2>1. CASE IsAwaited(r)
    <3>1. /\ Running(r.task) /\ reports' \subseteq reports /\ r \notin reports'
          /\ containers' = [containers EXCEPT ![r.task] = AfterReport(@, r.status)]
      BY <1>3, <2>1 DEF Answer, IsAwaited
    <3>2. r.status \in {"PREPARING", "RUNNING"} => containers[r.task].pc = r.status
      BY <2>1 DEF ReportsFit, Fits
    <3>3. \A s \in reports' : s.task = r.task /\ s.status = r.status => ~IsAwaited(s)
      BY <2>1, <3>1 DEF ReportsFit
    <3> QED
      BY <1>1, <3>1, <3>2, <3>3, TurnsFit
  <2>2. CASE ~IsAwaited(r)
    BY <1>3, <2>2, SameContainersFit DEF Answer
  <2> QED
    BY <2>1, <2>2
<1>4. CASE ReportRead(r)
  <2>1. CASE Answer(r)
    BY <1>3, <2>1
  <2>2. CASE /\ reports' = (reports \ {r}) \cup {[r EXCEPT !.pc = "write"]}
             /\ UNCHANGED containers
    <3> DEFINE x == [r EXCEPT !.pc = "write"]
    <3>1. /\ x \in Report /\ reports' \subseteq (reports \ {r}) \cup {x}
          /\ x.task = r.task /\ x.run = r.run /\ x.status = r.status /\ x.waiting => r.waiting
      BY <1>1, <1>2, <2>2
    <3> HIDE DEF x
    <3> QED
      BY <2>2, <3>1, SameContainersFit
  <2> QED
    BY <1>4, <2>1, <2>2 DEF ReportRead
<1>5. CASE ReportWrite(r)
  BY <1>3, <1>5 DEF ReportWrite
<1>6. CASE ReportFails(r) \/ ReportDropped(r)
  BY <1>6, SameContainersFit DEF ReportFails, ReportDropped, platformVars
<1>7. CASE ReportTimesOut(r)
  <2> DEFINE x == [r EXCEPT !.waiting = FALSE]
  <2>1. /\ x \in Report /\ reports' \subseteq (reports \ {r}) \cup {x}
        /\ x.task = r.task /\ x.run = r.run /\ x.status = r.status /\ x.waiting => r.waiting
    BY <1>1, <1>2, <1>7 DEF ReportTimesOut
  <2> HIDE DEF x
  <2> QED
    BY <1>7, <2>1, SameContainersFit DEF ReportTimesOut
<1> QED
  BY <1>4, <1>5, <1>6, <1>7 DEF ReportStep

LEMMA ProcessFits ==
  ASSUME TypeOK, TypeOK', ReportsFit, NEW t \in Task,
         ProcessStep(t) \/ FetchFails(t) \/ Sigterm(t) \/ Crash(t)
  PROVE  ReportsFit'
<1>1. /\ reports \subseteq Report /\ containers \in [Task -> Container]
      /\ containers[t] \in Container
  BY DEF TypeOK, WorkerTypeOK, PlatformTypeOK
<1>2. ASSUME NEW status \in MainPosts, MainReports(t, status), Running(t),
             containers[t].pc \in {"boot", "preflight", "migrate"}
      PROVE  ReportsFit'
  <2>1. ~Awaiting(t, status)
    BY <1>2 DEF Awaiting, ReportsFit, Fits
  <2>2. /\ Send(t, status, 1) /\ \A u \in Task : u # t => containers'[u] = containers[u]
        /\ containers'[t] = [containers[t] EXCEPT !.pc = status, !.try = 1]
    BY <1>1, <1>2 DEF MainReports
  <2>3. /\ containers'[t].run = containers[t].run /\ containers'[t].pc = status
        /\ containers'[t].stop = containers[t].stop /\ Running(t)'
        /\ containers[t].pc \notin MainPosts
    BY <1>1, <1>2, <2>2 DEF Running
  <2> QED
    BY <1>2, <2>1, <2>2, <2>3, FreshReport
<1>3. CASE Boot(t) \/ FetchFails(t) \/ Preflight(t) \/ Migrate(t)
  BY <1>2, <1>3 DEF Boot, FetchFails, Preflight, Migrate, MainAt
<1>4. CASE Retry(t)
  <2>1. CASE containers[t].try < MaxAttempts
    <3>1. /\ Send(t, containers[t].pc, containers[t].try + 1)
          /\ \A u \in Task : u # t => containers'[u] = containers[u]
          /\ containers'[t] = [containers[t] EXCEPT !.try = @ + 1]
          /\ Running(t) /\ ~Awaiting(t, containers[t].pc) /\ containers[t].pc \in MainPosts
      BY <1>1, <1>4, <2>1 DEF Retry
    <3>2. /\ containers'[t].run = containers[t].run /\ containers'[t].pc = containers[t].pc
          /\ containers'[t].stop = containers[t].stop /\ Running(t)'
      BY <1>1, <3>1 DEF Running
    <3>3. containers[t].try + 1 \in Nat /\ containers[t].pc \in Reported
      BY <1>1, <3>1
    <3> QED
      BY <3>1, <3>2, <3>3, FreshReport
  <2>2. CASE ~(containers[t].try < MaxAttempts)
    <3>1. /\ containers' = [containers EXCEPT ![t] = AfterReport(@, containers[t].pc)]
          /\ reports' \subseteq reports
          /\ Running(t) /\ ~Awaiting(t, containers[t].pc) /\ containers[t].pc \in Reported
      BY <1>1, <1>4, <2>2 DEF Retry
    <3>2. \A r \in reports' : r.task = t /\ r.status = containers[t].pc => ~IsAwaited(r)
      BY <3>1 DEF Awaiting
    <3> QED
      BY <3>1, <3>2, TurnsFit
  <2> QED
    BY <2>1, <2>2
<1>5. ASSUME NEW n \in Nat, n # 0, Running(t), ~Awaiting(t, "CANCELLED"), Send(t, "CANCELLED", n),
             containers' = [containers EXCEPT ![t].stop = n]
      PROVE  ReportsFit'
  <2>1. /\ \A u \in Task : u # t => containers'[u] = containers[u]
        /\ containers'[t] = [containers[t] EXCEPT !.stop = n]
    BY <1>1, <1>5
  <2>2. /\ containers'[t].run = containers[t].run /\ containers'[t].pc = containers[t].pc
        /\ containers'[t].stop = n /\ Running(t)'
    BY <1>1, <1>5, <2>1 DEF Running
  <2> QED
    BY <1>5, <2>1, <2>2, FreshReport
<1>6. CASE Sigterm(t)
  <2>1. ~Awaiting(t, "CANCELLED")
    BY <1>1, <1>6 DEF Sigterm, Awaiting, ReportsFit, Fits
  <2>2. /\ Running(t) /\ Send(t, "CANCELLED", 1) /\ 1 \in Nat /\ 1 # 0
        /\ containers' = [containers EXCEPT ![t].stop = 1]
    BY <1>6 DEF Sigterm
  <2> QED
    BY ONLY <1>5, <2>1, <2>2
<1>7. CASE RetryStop(t)
  <2>1. CASE containers[t].stop < MaxAttempts
    <3>1. containers[t].stop + 1 \in Nat /\ containers[t].stop + 1 # 0
      BY <1>1
    <3>2. containers' = [containers EXCEPT ![t].stop = containers[t].stop + 1]
      BY <1>1, <1>7, <2>1 DEF RetryStop
    <3> QED
      BY <1>5, <1>7, <2>1, <3>1, <3>2 DEF RetryStop
  <2>2. CASE ~(containers[t].stop < MaxAttempts)
    <3>1. /\ containers' = [containers EXCEPT ![t] = AfterReport(@, "CANCELLED")]
          /\ reports' \subseteq reports /\ Running(t) /\ ~Awaiting(t, "CANCELLED")
      BY <1>7, <2>2 DEF RetryStop
    <3>2. \A r \in reports' : r.task = t /\ r.status = "CANCELLED" => ~IsAwaited(r)
      BY <3>1 DEF Awaiting
    <3> QED
      BY <3>1, <3>2, TurnsFit
  <2> QED
    BY <2>1, <2>2
<1>8. CASE Crash(t)
  <2> DEFINE c == ExitedContainer(containers[t], 1)
  <2>1. c \in Container /\ c.state # "running" /\ c.run = containers[t].run
    BY <1>1, ContainerUpdates DEF ExitedContainer
  <2>2. containers' = [containers EXCEPT ![t] = c] /\ reports' \subseteq reports
    BY <1>8 DEF Crash
  <2> HIDE DEF c
  <2> QED
    BY <2>1, <2>2, NotRunningFits
<1> QED
  BY <1>3, <1>4, <1>6, <1>7, <1>8 DEF ProcessStep

\* No step breaks it.
LEMMA FitStep == TypeOK /\ ReportsFit /\ [Next]_vars => ReportsFit'
<1> SUFFICES ASSUME TypeOK, ReportsFit, [Next]_vars PROVE ReportsFit'
  OBVIOUS
<1>1. /\ TypeOK' /\ containers \in [Task -> Container] /\ requests \subseteq Request
  BY NextType DEF TypeOK, PlatformTypeOK, ApiTypeOK
<1>2. CASE UNCHANGED containers /\ reports' \subseteq reports
  BY <1>1, <1>2, SameContainersFit
<1>3. ASSUME NEW t \in Task, containers' = [containers EXCEPT ![t] = NoContainer(@)],
             UNCHANGED reports
      PROVE  ReportsFit'
  <2> DEFINE c == NoContainer(containers[t])
  <2>1. c \in Container /\ c.state # "running" /\ c.run = containers[t].run
    BY <1>1, ContainerUpdates DEF NoContainer
  <2>2. containers' = [containers EXCEPT ![t] = c]
    BY <1>3
  <2> HIDE DEF c
  <2> QED
    BY <1>1, <1>3, <2>1, <2>2, NotRunningFits
<1>4. CASE ApiAction
  <2>1. UNCHANGED reports
    BY <1>4 DEF ApiAction, workerVars
  <2>2. ASSUME NEW q \in requests, CancelRemove(q) PROVE ReportsFit'
    BY <1>1, <1>3, <2>1, <2>2 DEF CancelRemove
  <2> QED
    BY <1>2, <1>4, <2>1, <2>2
       DEF ApiAction, ApiNext, StartCheck, CancelCheck, RetryCheck, Admit, RequestStep,
           QueueWrite, CancelWrite, CancelRemoveEnv, RequestAborted, CancelRemoveFails
<1>5. CASE RunnerAction
  BY <1>2, <1>5
     DEF RunnerAction, RunnerNext, WatcherStep, WatcherFault, PollGone, PollExited,
         ReadExitCode, CheckGone, CheckStillActive, CheckExit0, PollHiccup,
         ExitCodeHiccup, WatchExpires, WatcherAborted, MarkFailed, MarkSuccess, platformVars, workerVars
<1>6. CASE DispatcherAction
  <2>1. UNCHANGED reports
    BY <1>6 DEF DispatcherAction, workerVars
  <2>2. CASE StartWorker
    <3> DEFINE c == FreshContainer(containers[disp.task])
    <3>1. disp.task \in Task
      BY <2>2 DEF StartWorker, At, TypeOK, DispatcherTypeOK
    <3>2. c \in Container /\ c.run = containers[disp.task].run + 1
      BY <1>1, <3>1, ContainerUpdates
    <3>3. containers' = [containers EXCEPT ![disp.task] = c]
      BY <2>2 DEF StartWorker, RunContainer
    <3> HIDE DEF c
    <3> QED
      BY <1>1, <2>1, <3>1, <3>2, <3>3, NotRunningFits
  <2> QED
    BY <1>2, <1>6, <2>1, <2>2
       DEF DispatcherAction, DispatcherNext, DispatcherStep, CountActive, PickNext,
           Return, Claim, Reload, WriteEnvFile, StartRefused, FailTask, SecretsFail,
           StartFails, DispatcherAborted, platformVars
<1>7. CASE WorkerAction
  BY <1>1, <1>7, ProcessFits, ReportStepFits DEF WorkerAction, WorkerNext
<1>8. CASE DaemonAction
  BY <1>1, <1>3, <1>8 DEF DaemonAction, Reap, workerVars
<1>9. CASE Restart \/ UNCHANGED vars
  BY <1>2, <1>9 DEF Restart, vars, platformVars, workerVars
<1> QED
  BY <1>4, <1>5, <1>6, <1>7, <1>8, <1>9 DEF Next

\* The three together.
SlotInv ==
  /\ \A q \in requests : q.op = "cancel" => ~Mine(q.task)
  /\ disp.pc \in {"idle", "next"} => disp.task = NoTask
  /\ ReportsFit

(***************************************************************************)
(* Who pays: each component's steps in turn.                               *)
(***************************************************************************)

\* A step that leaves the workers alone.
LEMMA WorkersAlone ==
  ASSUME TypeOK, [Next]_vars, UNCHANGED <<containers, reports>>
  PROVE  Late' \subseteq Late /\ Spent' \subseteq Spent /\ Stopped' \subseteq Stopped
<1>1. \A r \in reports : r.task \in Task
  BY DEF TypeOK, WorkerTypeOK
<1>2. \A t \in Task : Mine(t)' => Mine(t)
  BY MineShrinks
<1>3. /\ \A t \in Task : Running(t)' <=> Running(t)
      /\ \A r \in reports : IsAwaited(r)' <=> IsAwaited(r)
      /\ \A t \in Task : \A s : Awaiting(t, s)' <=> Awaiting(t, s)
  BY DEF Running, IsAwaited, Awaiting
<1>4. Late' \subseteq Late
  BY <1>1, <1>2, <1>3 DEF Late
<1>5. Spent' \subseteq Spent
  BY <1>2, <1>3 DEF Spent
<1>6. Stopped' \subseteq Stopped
  BY <1>2, <1>3 DEF Stopped
<1> QED
  BY <1>4, <1>5, <1>6

\* A row is lost when it is in none of these hands, and was in one before.
LEMMA RowLost ==
  ASSUME TypeOK, [Next]_vars, NEW t \in Lost', t \notin Lost
  PROVE  /\ t \in Task /\ tasks'[t].status \in Active /\ Mine(t)
         /\ \/ Running(t) /\ ~Running(t)'
            \/ /\ ~Running(t)
               /\ \/ tasks[t].status \notin Active
                  \/ (\E w \in watchers : w.task = t) /\ \A w \in watchers' : w.task # t
                  \/ /\ disp.task = t /\ tasks[t].status = "PREPARING"
                     /\ disp'.task # t \/ tasks'[t].status = "RUNNING"
<1>1. /\ t \in Task /\ tasks'[t].status \in Active /\ Mine(t) /\ ~Running(t)'
      /\ \A w \in watchers' : w.task # t
      /\ disp'.task # t \/ tasks'[t].status = "RUNNING"
  BY MineShrinks DEF Lost, ActiveTasks
<1> QED
  BY <1>1 DEF Lost, ActiveTasks

\* The reports that are late when the worker of t ends.
Orphans(t) == {r \in reports : r.task = t /\ r.status \in Active /\ IsAwaited(r)}

\* There is one at most, and none when the main thread is past its report.
LEMMA OneOrphan ==
  ASSUME ReportsFit, NEW t \in Task
  PROVE  /\ \E y : Orphans(t) \subseteq {y}
         /\ containers[t].pc \notin Active => Orphans(t) = {}
<1>1. \A r, s \in Orphans(t) : r = s /\ r.status = containers[t].pc
  BY DEF Orphans, ReportsFit, Fits
<1>2. \E y : Orphans(t) \subseteq {y}
  <2>1. CASE Orphans(t) = {}
    BY <2>1
  <2>2. CASE Orphans(t) # {}
    <3>1. PICK y : y \in Orphans(t)
      BY <2>2
    <3>2. Orphans(t) \subseteq {y}
      BY <1>1, <3>1
    <3> QED
      BY <3>2
  <2> QED
    BY <2>1, <2>2
<1>3. containers[t].pc \notin Active => Orphans(t) = {}
  <2> SUFFICES ASSUME NEW r \in Orphans(t) PROVE containers[t].pc \in Active
    OBVIOUS
  <2> QED
    BY <1>1 DEF Orphans
<1> QED
  BY <1>2, <1>3

\* What does not happen to t and its reports leaves its marks as they are.
LEMMA OthersAlone ==
  ASSUME TypeOK, [Next]_vars, NEW t \in Task, NEW u \in Task, u # t,
         \A v \in Task : v # t => containers'[v] = containers[v],
         \A r \in reports : r.task # t => r \in reports',
         \A r \in reports' : r.task # t => r \in reports
  PROVE  /\ Mine(u)' => Mine(u)
         /\ Running(u)' <=> Running(u)
         /\ \A s \in Reported : Awaiting(u, s)' <=> Awaiting(u, s)
         /\ \A r : r.task = u => (IsAwaited(r)' <=> IsAwaited(r))
<1>1. Mine(u)' => Mine(u)
  BY MineShrinks
<1>2. Running(u)' <=> Running(u)
  BY DEF Running
<1>3. ASSUME NEW r, r.task = u PROVE IsAwaited(r)' <=> IsAwaited(r)
  BY <1>2, <1>3 DEF IsAwaited, Running
<1>4. ASSUME NEW s \in Reported PROVE Awaiting(u, s)' <=> Awaiting(u, s)
  BY <1>3, <1>4 DEF Awaiting
<1> QED
  BY <1>1, <1>2, <1>3, <1>4

\* The worker of t ends: its marks go, and a report it waited for is late.
LEMMA WorkerEnds ==
  ASSUME TypeOK, [Next]_vars, NEW t \in Task,
         \A v \in Task : v # t => containers'[v] = containers[v],
         ~Running(t)',
         reports' \subseteq reports,
         \A r \in reports : r.task # t => r \in reports'
  PROVE  /\ Late' \subseteq Late \cup (Orphans(t) \cap reports')
         /\ ~Mine(t) => Late' \subseteq Late
         /\ Spent' \subseteq Spent \ {t}
         /\ Stopped' \subseteq Stopped \ {t}
<1>1. \A r \in reports : r.task \in Task
  BY DEF TypeOK, WorkerTypeOK
<1>2. Mine(t)' => Mine(t)
  BY MineShrinks
<1> DEFINE Same(u) == /\ Mine(u)' => Mine(u)
                      /\ Running(u)' <=> Running(u)
                      /\ \A s \in Reported : Awaiting(u, s)' <=> Awaiting(u, s)
                      /\ \A r : r.task = u => (IsAwaited(r)' <=> IsAwaited(r))
<1>3. \A u \in Task : u # t => Same(u)
  BY OthersAlone
<1>4. ASSUME NEW r \in Late' PROVE r \in Late \/ (Mine(t) /\ r \in Orphans(t) /\ r \in reports')
  <2>1. r \in reports /\ r \in reports' /\ Mine(r.task)' /\ r.status \in Active /\ ~IsAwaited(r)'
    BY <1>4 DEF Late
  <2>2. CASE r.task # t
    BY <1>1, <1>3, <2>1, <2>2 DEF Late
  <2>3. CASE r.task = t
    BY <1>2, <2>1, <2>3 DEF Late, Orphans
  <2> QED
    BY <2>2, <2>3
<1>5. ASSUME NEW u \in Spent' PROVE u \in Spent /\ u # t
  <2>1. u \in Task /\ u # t /\ containers'[u] = containers[u]
    BY <1>5 DEF Spent
  <2>2. Same(u)
    BY <1>3, <2>1
  <2> QED
    BY <1>5, <2>1, <2>2 DEF Spent
<1>6. ASSUME NEW u \in Stopped' PROVE u \in Stopped /\ u # t
  <2>1. u \in Task /\ u # t /\ containers'[u] = containers[u]
    BY <1>6 DEF Stopped
  <2> QED
    BY <1>3, <1>6, <2>1 DEF Stopped
<1> QED
  BY <1>4, <1>5, <1>6

\* The status that each UPDATE writes.
LEMMA StatusesWritten ==
  ASSUME NEW row \in Row
  PROVE  /\ \A now : QueuedRow(row, now).status = "PENDING"
         /\ CancelledRow(row).status = "CANCELLED" /\ ClaimedRow(row).status = "PREPARING"
         /\ FailedRow(row).status = "FAILED" /\ SucceededRow(row).status = "SUCCESS"
         /\ \A status : ReportedRow(row, status).status = status
BY DEF QueuedRow, CancelledRow, ClaimedRow, FailedRow, SucceededRow, ReportedRow

\* A cancel takes rows out of the account, and so does a requeued task.
LEMMA ApiPays == TypeOK /\ SlotInv /\ ApiAction => Pays
<1> SUFFICES ASSUME TypeOK, SlotInv, ApiAction PROVE Pays
  OBVIOUS
<1>1. /\ [Next]_vars /\ UNCHANGED <<reports, watchers, disp>>
      /\ tasks \in [Task -> Row] /\ requests \subseteq Request
      /\ containers \in [Task -> Container]
  BY DEF Next, ApiAction, workerVars, TypeOK, PlatformTypeOK, ApiTypeOK
<1>2. \A t \in Task : tasks'[t] = tasks[t] \/ tasks'[t].status \notin Active
  <2>1. ASSUME NEW q \in requests, QueueWrite(q) \/ CancelWrite(q), NEW t \in Task
        PROVE  tasks'[t] = tasks[t] \/ tasks'[t].status \notin Active
    <3>1. CASE t # q.task
      BY <1>1, <2>1, <3>1 DEF QueueWrite, CancelWrite, UpdateTask
    <3>2. CASE t = q.task
      <4>1. tasks'[t] = QueuedRow(tasks[t], q.now) \/ tasks'[t] = CancelledRow(tasks[t])
        BY <1>1, <2>1, <3>2 DEF QueueWrite, CancelWrite, UpdateTask
      <4> QED
        BY <1>1, <4>1, StatusesWritten
    <3> QED
      BY <3>1, <3>2
  <2>2. CASE UNCHANGED tasks
    BY <2>2
  <2> QED
    BY <2>1, <2>2
       DEF ApiAction, ApiNext, StartCheck, CancelCheck, RetryCheck, Admit, RequestStep,
           CancelRemove, CancelRemoveEnv, RequestAborted, CancelRemoveFails
<1>3. CASE UNCHANGED containers
  <2>1. Lost' \subseteq Lost
    BY <1>1, <1>2, <1>3, RowLost DEF Running
  <2> QED
    BY <1>1, <1>3, <2>1, WorkersAlone, Kept
<1>4. ASSUME NEW q \in requests, CancelRemove(q) PROVE Pays
  <2>1. /\ q.task \in Task /\ ~Mine(q.task) /\ UNCHANGED tasks
        /\ \A u \in Task : u # q.task => containers'[u] = containers[u]
        /\ ~Running(q.task)'
    BY <1>1, <1>4 DEF CancelRemove, SlotInv, NoContainer, Running
  <2>2. Lost' \subseteq Lost
    BY <1>1, <2>1, RowLost DEF Running
  <2>3. /\ Late' \subseteq Late /\ Spent' \subseteq Spent /\ Stopped' \subseteq Stopped
    BY <1>1, <2>1, WorkerEnds
  <2> QED
    BY <2>2, <2>3, Kept
<1> QED
  BY <1>3, <1>4
     DEF ApiAction, ApiNext, StartCheck, CancelCheck, RetryCheck, Admit, RequestStep,
         QueueWrite, CancelWrite, CancelRemoveEnv, RequestAborted, CancelRemoveFails

\* The daemon removes what has already ended.
LEMMA ReapPays == TypeOK /\ SlotInv /\ DaemonAction => Pays
<1> SUFFICES ASSUME TypeOK, SlotInv, DaemonAction PROVE Pays
  OBVIOUS
<1>1. /\ [Next]_vars /\ UNCHANGED <<tasks, reports, watchers, disp>>
      /\ containers \in [Task -> Container]
  BY DEF Next, DaemonAction, Reap, workerVars, TypeOK, PlatformTypeOK
<1>2. PICK t \in Task : Reap(t)
  BY DEF DaemonAction
<1>3. /\ \A u \in Task : u # t => containers'[u] = containers[u]
      /\ ~Running(t)' /\ ~Running(t)
  BY <1>1, <1>2 DEF Reap, NoContainer, Running
<1>4. Lost' \subseteq Lost
  BY <1>1, <1>3, RowLost DEF Running
<1>5. Orphans(t) = {}
  BY <1>3 DEF Orphans, IsAwaited
<1>6. /\ Late' \subseteq Late /\ Spent' \subseteq Spent /\ Stopped' \subseteq Stopped
  BY <1>1, <1>3, <1>5, WorkerEnds
<1> QED
  BY <1>4, <1>6, Kept

\* A watcher settles its row before it ends, or a fault ends it.
LEMMA RunnerPays == TypeOK /\ SlotInv /\ RunnerAction => Pays
<1> SUFFICES ASSUME TypeOK, SlotInv, RunnerAction PROVE Pays
  OBVIOUS
<1>1. /\ [Next]_vars /\ UNCHANGED <<reports, disp>>
      /\ tasks \in [Task -> Row] /\ watchers \subseteq Watcher
  BY DEF Next, RunnerAction, workerVars, TypeOK, PlatformTypeOK, RunnerTypeOK
<1>2. PICK w \in watchers : WatcherStep(w) \/ WatcherFault(w)
  BY DEF RunnerAction, RunnerNext
<1>3. w \in Watcher /\ w.task \in Task /\ UNCHANGED containers
  BY <1>1, <1>2
     DEF WatcherStep, WatcherFault, PollGone, PollExited, ReadExitCode, CheckGone,
         CheckStillActive, MarkFailed, CheckExit0, MarkSuccess, PollHiccup,
         ExitCodeHiccup, WatchExpires, WatcherAborted, platformVars
<1>4. /\ Late' \subseteq Late /\ Spent' \subseteq Spent /\ Stopped' \subseteq Stopped
  BY <1>1, <1>3, WorkersAlone
<1>5. ASSUME UNCHANGED tasks, NEW pc, Move(w, pc) PROVE Pays
  <2>1. \A t \in Task : (\E x \in watchers : x.task = t) => \E x \in watchers' : x.task = t
    <3>1. [w EXCEPT !.pc = pc].task = w.task
      BY <1>3
    <3> QED
      BY <1>5, <3>1 DEF Move
  <2>2. Lost' \subseteq Lost
    BY <1>1, <1>3, <1>5, <2>1, RowLost DEF Running
  <2> QED
    BY <1>4, <2>2, Kept
<1>6. ASSUME Stop(w), \A t \in Task : t # w.task => tasks'[t] = tasks[t] PROVE Lost' \subseteq Lost \cup {w.task}
  <2>1. \A t \in Task : t # w.task /\ (\E x \in watchers : x.task = t) => \E x \in watchers' : x.task = t
    BY <1>6 DEF Stop
  <2> QED
    BY <1>1, <1>3, <1>6, <2>1, RowLost DEF Running
<1>7. ASSUME Stop(w), tasks'[w.task].status \notin Active,
             \A t \in Task : t # w.task => tasks'[t] = tasks[t]
      PROVE  Pays
  <2>1. Lost' \subseteq Lost
    BY <1>6, <1>7 DEF Lost, ActiveTasks
  <2> QED
    BY <1>4, <2>1, Kept
<1>8. CASE WatchExpires(w) \/ WatcherAborted(w)
  <2>1. Lost' \subseteq Lost \cup {w.task} /\ faults' = faults + 1
    BY <1>6, <1>8 DEF WatchExpires, WatcherAborted, Fault
  <2> QED
    BY <1>4, <2>1, Turns
<1>9. CASE \/ PollGone(w) \/ PollExited(w) \/ PollHiccup(w)
           \/ ReadExitCode(w) \/ ExitCodeHiccup(w)
  BY <1>5, <1>9 DEF PollGone, PollExited, PollHiccup, ReadExitCode, ExitCodeHiccup, platformVars
<1>10. CASE CheckGone(w) \/ CheckStillActive(w) \/ CheckExit0(w)
  BY <1>5, <1>7, <1>10 DEF CheckGone, CheckStillActive, CheckExit0, StillActive, platformVars
<1>11. CASE MarkFailed(w) \/ MarkSuccess(w)
  <2>1. /\ tasks'[w.task].status \notin Active /\ Stop(w)
        /\ \A t \in Task : t # w.task => tasks'[t] = tasks[t]
    <3>1. /\ Stop(w) /\ tasks'[w.task] \in {FailedRow(tasks[w.task]), SucceededRow(tasks[w.task])}
          /\ \A t \in Task : t # w.task => tasks'[t] = tasks[t]
      BY <1>1, <1>3, <1>11 DEF MarkFailed, MarkSuccess, UpdateTask
    <3> QED
      BY <1>1, <1>3, <3>1, StatusesWritten
  <2> QED
    BY <1>7, <2>1
<1> QED
  BY <1>2, <1>8, <1>9, <1>10, <1>11 DEF WatcherStep, WatcherFault

\* The dispatcher settles its row or hands it to a watcher and a worker.
LEMMA DispatcherPays == TypeOK /\ SlotInv /\ DispatcherAction => Pays
<1> SUFFICES ASSUME TypeOK, SlotInv, DispatcherAction PROVE Pays
  OBVIOUS
<1>1. /\ [Next]_vars /\ UNCHANGED reports
      /\ tasks \in [Task -> Row] /\ containers \in [Task -> Container]
      /\ disp \in DispatcherState /\ NoTask \notin Task
      /\ \A r \in reports : r.task \in Task
  BY NoTaskAssumption
     DEF Next, DispatcherAction, workerVars, TypeOK, PlatformTypeOK, DispatcherTypeOK,
         WorkerTypeOK
<1>2. disp.pc \in {"idle", "next"} => disp.task \notin Task
  BY <1>1 DEF SlotInv
<1>3. ASSUME UNCHANGED <<containers, watchers>>, NEW t \in Lost', t \notin Lost,
             tasks'[t] = tasks[t]
      PROVE  disp.task = t /\ disp'.task # t /\ tasks[t].status = "PREPARING"
  BY <1>1, <1>3, RowLost DEF Running
<1>4. ASSUME UNCHANGED <<containers, watchers>>, Lost' \subseteq Lost PROVE Pays
  BY <1>1, <1>4, WorkersAlone, Kept
<1>5. ASSUME UNCHANGED <<tasks, containers, watchers>>, NEW pc, GoTo(pc) PROVE Pays
  <2>1. disp'.task = disp.task
    BY <1>1, <1>5 DEF GoTo
  <2> QED
    BY <1>3, <1>4, <1>5, <2>1
<1>6. CASE CountActive \/ PickNext \/ Return
  <2>1. UNCHANGED <<tasks, containers, watchers>> /\ disp.task \notin Task
    BY <1>2, <1>6 DEF CountActive, PickNext, Return, At, platformVars
  <2>2. Lost' \subseteq Task
    BY DEF Lost, ActiveTasks
  <2> QED
    BY <1>3, <1>4, <2>1, <2>2
<1>7. CASE Claim
  <2>1. /\ UNCHANGED <<containers, watchers>> /\ disp'.task = disp.task
        /\ \A t \in Task : t # disp.task => tasks'[t] = tasks[t]
    BY <1>1, <1>7 DEF Claim, UpdateTask, GoTo
  <2>2. disp.task \in Task => tasks'[disp.task].status = "PREPARING"
    BY <1>1, <1>7, StatusesWritten DEF Claim, UpdateTask
  <2>3. disp.task \notin Lost' /\ Lost' \subseteq Task
    BY <2>1, <2>2 DEF Lost, ActiveTasks
  <2> QED
    BY <1>3, <1>4, <2>1, <2>3
<1>8. CASE Reload
  <2>1. UNCHANGED <<tasks, containers, watchers>>
    BY <1>8 DEF Reload, platformVars
  <2>2. CASE tasks[disp.task].status = "PREPARING"
    BY <1>5, <1>8, <2>1, <2>2 DEF Reload
  <2>3. CASE tasks[disp.task].status # "PREPARING"
    BY <1>3, <1>4, <2>1, <2>3
  <2> QED
    BY <2>2, <2>3
<1>9. CASE WriteEnvFile \/ StartRefused \/ SecretsFail \/ StartFails
  BY <1>5, <1>9 DEF WriteEnvFile, StartRefused, SecretsFail, StartFails
<1>10. CASE FailTask
  <2>1. /\ UNCHANGED <<containers, watchers>>
        /\ \A t \in Task : t # disp.task => tasks'[t] = tasks[t]
    BY <1>1, <1>10 DEF FailTask, UpdateTask
  <2>2. disp.task \in Task => tasks'[disp.task].status = "FAILED"
    BY <1>1, <1>10, StatusesWritten DEF FailTask, UpdateTask
  <2>3. disp.task \notin Lost' /\ Lost' \subseteq Task
    BY <2>2 DEF Lost, ActiveTasks
  <2> QED
    BY <1>3, <1>4, <2>1, <2>3
<1>11. CASE DispatcherAborted
  <2>1. UNCHANGED <<tasks, containers, watchers>> /\ faults' = faults + 1
    BY <1>11 DEF DispatcherAborted, Fault
  <2>2. Lost' \subseteq Lost \cup {disp.task}
    BY <1>3, <2>1
  <2> QED
    BY <1>1, <2>1, <2>2, WorkersAlone, Turns
<1>12. CASE StartWorker
  <2>0. PICK t \in Task : t = disp.task
    BY <1>12 DEF StartWorker, At, TypeOK, DispatcherTypeOK
  <2>1. containers[t] \in Container
    BY <1>1
  <2>2. /\ UNCHANGED tasks /\ watchers \subseteq watchers' /\ disp'.task = NoTask
        /\ containers[t].state = "none"
        /\ containers' = [containers EXCEPT ![t] = FreshContainer(containers[t])]
    BY <1>12, <2>0 DEF StartWorker, CanRun, RunContainer
  <2>3. containers'[t] = FreshContainer(containers[t])
    BY <1>1, <2>1, <2>2
  <2>4. \A u \in Task : u # t => containers'[u] = containers[u]
    BY <1>1, <2>2
  <2>a. /\ containers'[t].state = "running" /\ containers'[t].pc = "boot"
        /\ containers'[t].stop = 0
    BY <2>1, <2>3 DEF FreshContainer
  <2>b. ~Running(t) /\ Running(t)'
    BY <2>2, <2>a DEF Running
  <2>5. \A u \in Task : u # t =>
          /\ Mine(u)' => Mine(u)
          /\ Running(u)' <=> Running(u)
          /\ \A s \in Reported : Awaiting(u, s)' <=> Awaiting(u, s)
          /\ \A r : r.task = u => (IsAwaited(r)' <=> IsAwaited(r))
    BY <1>1, <2>1, <2>4, OthersAlone
  <2>6. Lost' \subseteq Lost
    <3> SUFFICES ASSUME NEW u \in Lost' PROVE u \in Lost
      OBVIOUS
    <3>1. u \in Task /\ u # t
      <4>1. u \in Task /\ ~Running(u)'
        BY DEF Lost, ActiveTasks
      <4> QED
        BY <2>b, <4>1
    <3>2. ~(disp.task = u) /\ tasks'[u] = tasks[u]
      BY <2>0, <2>2, <3>1
    <3> QED
      BY <1>1, <2>2, <2>5, <3>1, <3>2, RowLost
  <2>7. Late' \subseteq Late
    <3> SUFFICES ASSUME NEW r \in Late' PROVE r \in Late
      OBVIOUS
    <3>1. r \in reports /\ r.task \in Task /\ Mine(r.task)' /\ r.status \in Active /\ ~IsAwaited(r)'
      BY <1>1 DEF Late
    <3>2. Mine(r.task)
      BY <1>1, <3>1, MineShrinks
    <3>3. ~IsAwaited(r)
      BY <2>4, <2>5, <2>a, <2>b, <3>1 DEF IsAwaited
    <3> QED
      BY <3>1, <3>2, <3>3 DEF Late
  <2>8. Spent' \subseteq Spent
    <3> SUFFICES ASSUME NEW u \in Spent' PROVE u \in Spent
      OBVIOUS
    <3>1. u \in Task /\ u # t
      BY <2>4, <2>a, <2>b DEF Spent
    <3> QED
      BY <2>4, <2>5, <2>a, <2>b, <3>1 DEF Spent
  <2>9. Stopped' \subseteq Stopped
    <3> SUFFICES ASSUME NEW u \in Stopped' PROVE u \in Stopped
      OBVIOUS
    <3>1. u \in Task /\ u # t
      BY <2>4, <2>a, <2>b DEF Stopped
    <3> QED
      BY <2>4, <2>5, <2>a, <2>b, <3>1 DEF Stopped
  <2> QED
    BY <2>6, <2>7, <2>8, <2>9, Kept
<1> QED
  BY <1>6, <1>7, <1>8, <1>9, <1>10, <1>11, <1>12
     DEF DispatcherAction, DispatcherNext, DispatcherStep

\* The worker of t sends a report: only its own marks may be new.
LEMMA ReportSent ==
  ASSUME TypeOK, [Next]_vars, UNCHANGED <<tasks, watchers, disp>>,
         NEW t \in Task, Running(t), Running(t)',
         containers'[t].run = containers[t].run,
         \A v \in Task : v # t => containers'[v] = containers[v],
         NEW status \in Reported, NEW try, Send(t, status, try)
  PROVE  /\ Lost' \subseteq Lost /\ Late' \subseteq Late
         /\ Spent' \subseteq Spent \cup {t} /\ Stopped' \subseteq Stopped \cup {t}
         /\ Mine(t)' => Mine(t)
         /\ \A s \in Reported : Awaiting(t, s) => Awaiting(t, s)'
         /\ Awaiting(t, status)'
<1> DEFINE x == [task |-> t, run |-> containers[t].run, status |-> status, try |-> try,
                 pc |-> "read", waiting |-> TRUE]
<1>1. /\ \A r \in reports : r.task \in Task
      /\ reports' = reports \cup {x} /\ x.task = t /\ x.status = status
      /\ x.waiting /\ x.run = containers[t].run
  BY DEF TypeOK, WorkerTypeOK, Send, IsAwaited
<1> HIDE DEF x
<1> DEFINE Same(u) == /\ Mine(u)' => Mine(u)
                      /\ Running(u)' <=> Running(u)
                      /\ \A s \in Reported : Awaiting(u, s)' <=> Awaiting(u, s)
                      /\ \A r : r.task = u => (IsAwaited(r)' <=> IsAwaited(r))
<1>2. \A u \in Task : u # t => Same(u)
  BY <1>1, OthersAlone
<1>3. Mine(t)' => Mine(t)
  BY MineShrinks
<1>4. \A r : r.task = t => (IsAwaited(r)' <=> IsAwaited(r))
  BY DEF IsAwaited, Running
<1>5. (\A s \in Reported : Awaiting(t, s) => Awaiting(t, s)') /\ Awaiting(t, status)'
  <2>1. ASSUME NEW s \in Reported, Awaiting(t, s) PROVE Awaiting(t, s)'
    <3>1. PICK r \in reports : r.task = t /\ r.status = s /\ IsAwaited(r)
      BY <2>1 DEF Awaiting
    <3>2. r \in reports' /\ IsAwaited(r)'
      BY <1>1, <1>4, <3>1
    <3> QED
      BY <3>1, <3>2 DEF Awaiting
  <2>2. Awaiting(t, status)'
    BY <1>1 DEF Awaiting, IsAwaited, Running
  <2> QED
    BY <2>1, <2>2
<1>6. Lost' \subseteq Lost
  BY <1>2, RowLost
<1>7. ASSUME NEW r \in Late' PROVE r \in Late
  <2>1. r \in reports' /\ Mine(r.task)' /\ r.status \in Active /\ ~IsAwaited(r)'
    BY <1>7 DEF Late
  <2>2. r \in reports /\ r.task \in Task
    BY <1>1, <2>1 DEF IsAwaited, Running
  <2>3. Mine(r.task) /\ ~IsAwaited(r)
    BY <1>2, <1>3, <1>4, <2>1, <2>2
  <2> QED
    BY <2>1, <2>2, <2>3 DEF Late
<1>8. ASSUME NEW u \in Spent', u # t PROVE u \in Spent
  <2>1. u \in Task /\ containers'[u] = containers[u]
    BY <1>8 DEF Spent
  <2>2. Same(u)
    BY <1>2, <1>8, <2>1
  <2> QED
    BY <1>8, <2>1, <2>2 DEF Spent
<1>9. ASSUME NEW u \in Stopped', u # t PROVE u \in Stopped
  <2>1. u \in Task /\ containers'[u] = containers[u]
    BY <1>9 DEF Stopped
  <2> QED
    BY <1>2, <1>9, <2>1 DEF Stopped
<1> QED
  BY <1>3, <1>5, <1>6, <1>7, <1>8, <1>9

\* What marks one task after a step.
LEMMA MarksOf ==
  ASSUME NEW t \in Task
  PROVE  /\ t \in Spent' =>
              /\ Mine(t)' /\ Running(t)' /\ containers'[t].pc \in {"SUCCESS", "FAILED"}
              /\ containers'[t].try > 1 \/ ~Awaiting(t, containers[t].pc)'
         /\ t \in Stopped' => Mine(t)' /\ Running(t)' /\ containers'[t].stop # 0
<1>1. t \in Stopped' => Mine(t)' /\ Running(t)' /\ containers'[t].stop # 0
  BY DEF Stopped, Mine, Running
<1>3. t \in Spent' =>
              /\ Mine(t)' /\ Running(t)' /\ containers'[t].pc \in {"SUCCESS", "FAILED"}
              /\ containers'[t].try > 1 \/ ~Awaiting(t, containers[t].pc)'
  BY DEF Spent, Mine, Running, Awaiting
<1> QED
  BY <1>1, <1>3

\* The worker of t ends and leaves an active row: what that costs.
LEMMA RowAbandoned ==
  ASSUME TypeOK, [Next]_vars, UNCHANGED <<tasks, watchers, disp>>, NEW t \in Task,
         \A v \in Task : v # t => containers'[v] = containers[v]
  PROVE  Lost' \subseteq Lost \cup {t} /\ (~Mine(t) => Lost' \subseteq Lost)
BY RowLost DEF Running

\* A worker goes on after its report was answered or given up.
LEMMA GoesOn ==
  ASSUME TypeOK, [Next]_vars, UNCHANGED <<watchers, disp>>, NEW t \in Task,
         \A v \in Task : v # t => tasks'[v] = tasks[v],
         reports' \subseteq reports,
         \A r \in reports : r.task # t \/ r.status = "CANCELLED" => r \in reports',
         Running(t), Running(t)',
         containers'[t].run = containers[t].run, containers'[t].stop = containers[t].stop,
         containers'[t].pc \notin {"SUCCESS", "FAILED"},
         \A v \in Task : v # t => containers'[v] = containers[v]
  PROVE  Pays
<1>1. \A r \in reports : r.task \in Task
  BY DEF TypeOK, WorkerTypeOK
<1>2. \A u \in Task : (Mine(u)' => Mine(u)) /\ (Running(u)' <=> Running(u))
  BY MineShrinks DEF Running
<1>3. /\ \A r \in reports : IsAwaited(r)' <=> IsAwaited(r)
      /\ \A u \in Task : \A s \in Reported :
           u # t \/ s = "CANCELLED" => (Awaiting(u, s) => Awaiting(u, s)')
  <2>1. \A r \in reports : IsAwaited(r)' <=> IsAwaited(r)
    BY <1>1 DEF IsAwaited, Running
  <2>2. ASSUME NEW u \in Task, NEW s \in Reported, u # t \/ s = "CANCELLED", Awaiting(u, s)
        PROVE  Awaiting(u, s)'
    <3>1. PICK r \in reports : r.task = u /\ r.status = s /\ IsAwaited(r)
      BY <2>2 DEF Awaiting
    <3>2. r \in reports' /\ IsAwaited(r)'
      BY <2>1, <2>2, <3>1
    <3> QED
      BY <3>1, <3>2 DEF Awaiting
  <2> QED
    BY <2>1, <2>2
<1>4. Lost' \subseteq Lost
  BY <1>2, RowLost
<1>5. Late' \subseteq Late
  BY <1>1, <1>2, <1>3 DEF Late
<1>6. ASSUME NEW u \in Spent' PROVE u \in Spent
  <2>1. u \in Task /\ containers'[u] = containers[u] /\ u # t
    BY <1>6 DEF Spent
  <2> QED
    BY <1>2, <1>3, <1>6, <2>1 DEF Spent
<1>7. ASSUME NEW u \in Stopped' PROVE u \in Stopped
  <2>1. u \in Task /\ containers'[u].stop = containers[u].stop
    BY <1>7 DEF Stopped
  <2> QED
    BY <1>2, <1>7, <2>1 DEF Stopped
<1> QED
  BY <1>4, <1>5, <1>6, <1>7, Kept

\* A worker that gives up a report has lost an attempt before.
LEMMA ProcessPays ==
  ASSUME TypeOK, SlotInv, WorkerAction, NEW t \in Task,
         ProcessStep(t) \/ FetchFails(t) \/ Sigterm(t) \/ Crash(t)
  PROVE  Pays
<1>1. /\ [Next]_vars /\ UNCHANGED <<tasks, watchers, disp>> /\ ReportsFit
      /\ containers \in [Task -> Container] /\ containers[t] \in Container
  <2>1. UNCHANGED tasks
    BY DEF ProcessStep, Boot, FetchFails, Preflight, Migrate, MainReports, Retry, RetryStop,
           Sigterm, Crash
  <2> QED
    BY <2>1 DEF Next, WorkerAction, TypeOK, PlatformTypeOK, SlotInv
<1>2. ASSUME NEW status \in MainPosts, MainReports(t, status), Running(t) PROVE Pays
  <2>1. /\ containers'[t].run = containers[t].run /\ containers'[t].pc = status
        /\ containers'[t].try = 1 /\ containers'[t].stop = containers[t].stop
        /\ Running(t)' /\ Send(t, status, 1)
        /\ \A v \in Task : v # t => containers'[v] = containers[v]
    BY <1>1, <1>2 DEF MainReports, Running
  <2>2. /\ Lost' \subseteq Lost /\ Late' \subseteq Late
        /\ Spent' \subseteq Spent \cup {t} /\ Stopped' \subseteq Stopped \cup {t}
        /\ Mine(t)' => Mine(t)
        /\ \A s \in Reported : Awaiting(t, s) => Awaiting(t, s)'
        /\ Awaiting(t, status)'
    BY <1>1, <1>2, <2>1, ReportSent
  <2>3. t \notin Spent'
    BY <2>1, <2>2, MarksOf DEF Spent
  <2>4. t \in Stopped' => t \in Stopped
    BY <1>2, <2>1, <2>2, MarksOf DEF Stopped
  <2> QED
    <3>1. /\ Spent' \subseteq Spent /\ Stopped' \subseteq Stopped
      BY <2>2, <2>3, <2>4
    <3> QED
      BY <2>2, <3>1, Kept
<1>3. CASE Boot(t) \/ FetchFails(t) \/ Preflight(t) \/ Migrate(t)
  BY <1>2, <1>3 DEF Boot, FetchFails, Preflight, Migrate, MainAt
<1>4. CASE Retry(t) /\ containers[t].try < MaxAttempts
  <2>1. /\ Send(t, containers[t].pc, containers[t].try + 1) /\ containers[t].pc \in Reported
        /\ containers'[t].run = containers[t].run /\ containers'[t].pc = containers[t].pc
        /\ containers'[t].stop = containers[t].stop
        /\ Running(t) /\ Running(t)' /\ ~Awaiting(t, containers[t].pc)
        /\ \A v \in Task : v # t => containers'[v] = containers[v]
    BY <1>1, <1>4 DEF Retry, Running
  <2>2. /\ Lost' \subseteq Lost /\ Late' \subseteq Late
        /\ Spent' \subseteq Spent \cup {t} /\ Stopped' \subseteq Stopped \cup {t}
        /\ Mine(t)' => Mine(t)
        /\ \A s \in Reported : Awaiting(t, s) => Awaiting(t, s)'
    BY <1>1, <2>1, ReportSent
  <2>3. t \in Spent' => t \in Spent
    BY <2>1, <2>2, MarksOf DEF Spent
  <2>4. t \in Stopped' => t \in Stopped
    BY <2>1, <2>2, MarksOf DEF Stopped
  <2> QED
    <3>1. /\ Spent' \subseteq Spent /\ Stopped' \subseteq Stopped
      BY <2>2, <2>3, <2>4
    <3> QED
      BY <2>2, <3>1, Kept
<1>5. CASE Retry(t) /\ ~(containers[t].try < MaxAttempts)
  <2>1. /\ Running(t) /\ containers[t].pc \in MainPosts /\ ~Awaiting(t, containers[t].pc)
        /\ UNCHANGED reports
        /\ containers'[t] = AfterReport(containers[t], containers[t].pc)
        /\ \A v \in Task : v # t => containers'[v] = containers[v]
    BY <1>1, <1>5 DEF Retry
  <2>2. CASE containers[t].pc \in Active
    <3>1. /\ containers'[t].run = containers[t].run /\ containers'[t].stop = containers[t].stop
          /\ containers'[t].pc \notin {"SUCCESS", "FAILED"} /\ Running(t)'
      BY <1>1, <2>1, <2>2, StoppedContainers DEF Running
    <3> QED
      BY <1>1, <2>1, <3>1, GoesOn
  <2>3. CASE containers[t].pc \notin Active
    <3>1. ~Running(t)'
      BY <1>1, <2>1, <2>3, StoppedContainers DEF Running
    <3>2. Orphans(t) = {}
      BY <1>1, <2>3, OneOrphan
    <3>3. /\ Late' \subseteq Late /\ Spent' \subseteq Spent \ {t} /\ Stopped' \subseteq Stopped
        BY <1>1, <2>1, <3>1, <3>2, WorkerEnds
    <3>4. Lost' \subseteq Lost \cup {t} /\ (~Mine(t) => Lost' \subseteq Lost)
      BY <1>1, <2>1, RowAbandoned
    <3>5. Mine(t) => t \in Spent
      BY <2>1, <2>3 DEF Spent
    <3>6. CASE Mine(t)
      BY <3>3, <3>4, <3>5, <3>6, Turns DEF Marked
    <3>7. CASE ~Mine(t)
      BY <3>3, <3>4, <3>7, Kept
    <3> QED
      BY <3>6, <3>7
  <2> QED
    BY <2>2, <2>3
<1>6. CASE Sigterm(t)
  <2>1. /\ Send(t, "CANCELLED", 1) /\ faults' = faults + 1
        /\ containers'[t].run = containers[t].run /\ containers'[t].pc = containers[t].pc
        /\ containers'[t].try = containers[t].try /\ containers'[t].stop = 1
        /\ Running(t) /\ Running(t)'
        /\ \A v \in Task : v # t => containers'[v] = containers[v]
    BY <1>1, <1>6 DEF Sigterm, Running, Fault
  <2>2. /\ Lost' \subseteq Lost /\ Late' \subseteq Late
        /\ Spent' \subseteq Spent \cup {t} /\ Stopped' \subseteq Stopped \cup {t}
        /\ Mine(t)' => Mine(t)
        /\ \A s \in Reported : Awaiting(t, s) => Awaiting(t, s)'
        /\ Awaiting(t, "CANCELLED")'
    BY <1>1, <2>1, ReportSent
  <2>3. t \in Spent' => t \in Spent
    <3>1. containers'[t].pc \in {"SUCCESS", "FAILED"} /\ ~Awaiting(t, containers[t].pc)' =>
            ~Awaiting(t, containers[t].pc)
      BY <2>1, <2>2
    <3> QED
      BY <2>1, <2>2, <3>1, MarksOf DEF Spent
  <2> QED
    BY <2>1, <2>2, <2>3, Turns
<1>7. CASE RetryStop(t) /\ containers[t].stop < MaxAttempts
  <2>1. /\ Send(t, "CANCELLED", containers[t].stop + 1)
        /\ containers'[t].run = containers[t].run /\ containers'[t].pc = containers[t].pc
        /\ containers'[t].try = containers[t].try /\ containers[t].stop # 0
        /\ Running(t) /\ Running(t)' /\ ~Awaiting(t, "CANCELLED")
        /\ \A v \in Task : v # t => containers'[v] = containers[v]
    BY <1>1, <1>7 DEF RetryStop, Running
  <2>2. /\ Lost' \subseteq Lost /\ Late' \subseteq Late
        /\ Spent' \subseteq Spent \cup {t} /\ Stopped' \subseteq Stopped \cup {t}
        /\ Mine(t)' => Mine(t)
        /\ \A s \in Reported : Awaiting(t, s) => Awaiting(t, s)'
    BY <1>1, <2>1, ReportSent
  <2>3. t \in Spent' => t \in Spent
    <3>1. containers'[t].pc \in {"SUCCESS", "FAILED"} /\ ~Awaiting(t, containers[t].pc)' =>
            ~Awaiting(t, containers[t].pc)
      BY <2>1, <2>2
    <3> QED
      BY <2>1, <2>2, <3>1, MarksOf DEF Spent
  <2>4. t \in Stopped' => t \in Stopped
    BY <2>1, <2>2, MarksOf DEF Stopped
  <2> QED
    <3>1. /\ Spent' \subseteq Spent /\ Stopped' \subseteq Stopped
      BY <2>2, <2>3, <2>4
    <3> QED
      BY <2>2, <3>1, Kept
<1>9. ASSUME ~Running(t)', UNCHANGED reports,
             \A v \in Task : v # t => containers'[v] = containers[v],
             t \in Marked \/ faults' = faults + 1
      PROVE  Pays
  <2>1. /\ \A r \in Late' : r \in Late \/ r.task = t
        /\ Spent' \subseteq Spent /\ Stopped' \subseteq Stopped
    <3>1. /\ Late' \subseteq Late \cup Orphans(t)
          /\ Spent' \subseteq Spent \ {t} /\ Stopped' \subseteq Stopped \ {t}
      BY <1>1, <1>9, WorkerEnds
    <3> QED
      BY <3>1 DEF Orphans
  <2>2. Lost' \subseteq Lost \cup {t}
    BY <1>1, <1>9, RowAbandoned
  <2> QED
    BY <1>9, <2>1, <2>2, Turns
<1>8. CASE RetryStop(t) /\ ~(containers[t].stop < MaxAttempts)
  <2>1. /\ Running(t) /\ containers[t].stop # 0 /\ UNCHANGED reports
        /\ containers'[t] = AfterReport(containers[t], "CANCELLED")
        /\ \A v \in Task : v # t => containers'[v] = containers[v]
    BY <1>1, <1>8 DEF RetryStop
  <2>2. ~Running(t)'
    BY <1>1, <2>1, StoppedContainers DEF Running
  <2>3. CASE Mine(t)
    <3>1. t \in Marked
      BY <2>1, <2>3 DEF Stopped, Marked
    <3> QED
      BY <1>9, <2>1, <2>2, <3>1
  <2>4. CASE ~Mine(t)
    BY <1>1, <2>1, <2>2, <2>4, WorkerEnds, RowAbandoned, Kept
  <2> QED
    BY <2>3, <2>4
<1>10. CASE Crash(t)
  <2>1. /\ UNCHANGED reports /\ faults' = faults + 1
        /\ containers'[t] = ExitedContainer(containers[t], 1)
        /\ \A v \in Task : v # t => containers'[v] = containers[v]
    BY <1>1, <1>10 DEF Crash, Fault
  <2>2. ~Running(t)'
    BY <2>1 DEF ExitedContainer, Running
  <2> QED
    BY <1>9, <2>1, <2>2
<1> QED
  BY <1>3, <1>4, <1>5, <1>6, <1>7, <1>8, <1>10 DEF ProcessStep

\* A step on one report that leaves the containers alone.
LEMMA OneReport ==
  ASSUME TypeOK, [Next]_vars, UNCHANGED containers, NEW r \in reports,
         reports \ {r} \subseteq reports'
  PROVE  /\ \A s : IsAwaited(s)' <=> IsAwaited(s)
         /\ \A s \in Late' : s \in reports' /\ (s \in Late \/ s \notin reports)
         /\ Stopped' \subseteq Stopped /\ Spent' \subseteq Spent \cup {r.task}
         /\ (IsAwaited(r) => \E x \in reports' : /\ x.task = r.task /\ x.run = r.run
                                                 /\ x.status = r.status /\ x.waiting)
            => Spent' \subseteq Spent
<1>1. /\ \A s \in reports : s.task \in Task
      /\ \A u \in Task : Mine(u)' => Mine(u)
      /\ \A s : IsAwaited(s)' <=> IsAwaited(s)
      /\ \A u : Running(u)' <=> Running(u)
  BY MineShrinks DEF TypeOK, WorkerTypeOK, IsAwaited, Running
<1>2. ASSUME NEW u \in Task, NEW s \in Reported, Awaiting(u, s),
             u # r.task \/ s # r.status
      PROVE  Awaiting(u, s)'
  <2>1. PICK z \in reports : z.task = u /\ z.status = s /\ IsAwaited(z)
    BY <1>2 DEF Awaiting
  <2>2. z \in reports' /\ IsAwaited(z)'
    BY <1>1, <1>2, <2>1
  <2> QED
    BY <2>1, <2>2 DEF Awaiting
<1>3. ASSUME NEW u \in Task, NEW s \in Reported, Awaiting(u, s),
             IsAwaited(r) => \E x \in reports' : /\ x.task = r.task /\ x.run = r.run
                                                /\ x.status = r.status /\ x.waiting
      PROVE  Awaiting(u, s)'
  <2>1. PICK z \in reports : z.task = u /\ z.status = s /\ IsAwaited(z)
    BY <1>3 DEF Awaiting
  <2>2. CASE z # r
    <3>1. z \in reports' /\ IsAwaited(z)'
      BY <1>1, <2>1, <2>2
    <3> QED
      BY <2>1, <3>1 DEF Awaiting
  <2>3. CASE z = r
    <3>1. IsAwaited(r)
      BY <2>1, <2>3
    <3>2. PICK x \in reports' : /\ x.task = r.task /\ x.run = r.run /\ x.status = r.status
                                /\ x.waiting
      BY <1>3, <3>1
    <3>3. IsAwaited(x)'
      BY <3>1, <3>2 DEF IsAwaited, Running
    <3> QED
      BY <2>1, <2>3, <3>2, <3>3 DEF Awaiting
  <2> QED
    BY <2>2, <2>3
<1>4. ASSUME NEW s \in Late' PROVE s \in reports' /\ (s \in Late \/ s \notin reports)
  <2>1. s \in reports' /\ Mine(s.task)' /\ s.status \in Active /\ ~IsAwaited(s)'
    BY <1>4 DEF Late
  <2> QED
    BY <1>1, <2>1 DEF Late
<1>5. ASSUME NEW u \in Stopped' PROVE u \in Stopped
  BY <1>1, <1>5 DEF Stopped
<1>6. ASSUME NEW u \in Spent', u \notin Spent
      PROVE  /\ u \in Task /\ containers[u].pc \in {"SUCCESS", "FAILED"}
             /\ Awaiting(u, containers[u].pc) /\ ~Awaiting(u, containers[u].pc)'
  <2>1. u \in Task
    BY <1>6 DEF Spent
  <2> QED
    BY <1>1, <1>6, <2>1, MarksOf DEF Spent
<1>8. \A u \in Spent' : u \notin Spent => u = r.task
  <2> SUFFICES ASSUME NEW u \in Spent', u \notin Spent, u # r.task PROVE FALSE
    OBVIOUS
  <2>1. PICK pc \in {"SUCCESS", "FAILED"} : pc = containers[u].pc
    BY <1>6
  <2>2. u \in Task /\ Awaiting(u, pc) /\ ~Awaiting(u, pc)'
    BY <1>6, <2>1
  <2> QED
    BY <1>2, <2>2
<1>10. ASSUME IsAwaited(r) => \E x \in reports' : /\ x.task = r.task /\ x.run = r.run
                                                 /\ x.status = r.status /\ x.waiting
       PROVE  Spent' \subseteq Spent
  <2>1. ASSUME NEW u \in Spent', u \notin Spent PROVE FALSE
    <3>1. PICK pc \in {"SUCCESS", "FAILED"} : pc = containers[u].pc
      BY <1>6, <2>1
    <3>2. u \in Task /\ Awaiting(u, pc) /\ ~Awaiting(u, pc)'
      BY <1>6, <2>1, <3>1
    <3> QED
      BY <1>3, <1>10, <3>2
  <2> QED
    BY <2>1
<1> QED
  BY <1>1, <1>4, <1>5, <1>8, <1>10

\* The handler of r has ended and its worker, if any, did not hear of it.
LEMMA ReportGone ==
  ASSUME TypeOK, [Next]_vars, UNCHANGED <<containers, watchers, disp>>, NEW r \in reports,
         reports' = reports \ {r}
  PROVE  /\ Late' \subseteq Late /\ Stopped' \subseteq Stopped
         /\ Spent' \subseteq Spent \cup {r.task}
         /\ ~IsAwaited(r) => Spent' \subseteq Spent
         /\ UNCHANGED tasks => Lost' \subseteq Lost
<1>1. UNCHANGED tasks => Lost' \subseteq Lost
  BY RowLost DEF Running
<1>2. /\ \A s \in Late' : s \in reports' /\ (s \in Late \/ s \notin reports)
      /\ reports \ {r} \subseteq reports'
  BY OneReport
<1> QED
  BY <1>1, <1>2, OneReport

\* An answer nobody waits for may strand the row that its handler wrote.
LEMMA AnswerPays ==
  ASSUME TypeOK, SlotInv, WorkerAction, NEW r \in reports, Answer(r),
         \A u \in Task : u # r.task => tasks'[u] = tasks[u],
         \/ UNCHANGED tasks /\ IsRefused(r)
         \/ tasks'[r.task].status = r.status
  PROVE  Pays
<1>1. /\ [Next]_vars /\ UNCHANGED <<watchers, disp>> /\ ReportsFit
      /\ containers \in [Task -> Container] /\ reports' = reports \ {r}
      /\ r \in Report /\ r.task \in Task /\ containers[r.task] \in Container
      /\ \A s \in reports : s.task \in Task
  BY DEF Next, WorkerAction, TypeOK, PlatformTypeOK, WorkerTypeOK, SlotInv, Answer
<1>a. PICK t \in Task : t = r.task
  BY <1>1
<1>2. CASE ~IsAwaited(r)
  <2>1. UNCHANGED containers
    BY <1>2 DEF Answer
  <2>2. /\ Late' \subseteq Late /\ Stopped' \subseteq Stopped /\ Spent' \subseteq Spent
        /\ UNCHANGED tasks => Lost' \subseteq Lost
    BY <1>1, <1>2, <2>1, ReportGone
  <2>3. Lost' \subseteq Lost \cup {t} /\ (~Mine(t) => Lost' \subseteq Lost)
    BY <1>1, <1>a, <2>1, RowLost DEF Running
  <2>4. CASE Lost' \subseteq Lost
    BY <2>2, <2>4, Kept
  <2>5. CASE ~(Lost' \subseteq Lost)
    <3>1. tasks'[t].status \in Active
      BY <2>3, <2>5 DEF Lost, ActiveTasks
    <3>2. Mine(t) /\ r.status \in Active
      BY <1>a, <2>2, <2>3, <2>5, <3>1
    <3>3. t \in Marked
      BY <1>1, <1>a, <1>2, <3>2 DEF Late, Marked
    <3> QED
      BY <2>2, <2>3, <3>3, Turns
  <2> QED
    BY <2>4, <2>5
<1>3. CASE IsAwaited(r)
  <2>1. /\ Running(t) /\ Fits(r) /\ containers'[t] = AfterReport(containers[t], r.status)
        /\ \A u \in Task : u # t => containers'[u] = containers[u]
    BY <1>1, <1>a, <1>3 DEF ReportsFit, Answer, IsAwaited
  <2>2. CASE r.status \in Active
    <3>1. /\ containers'[t].run = containers[t].run /\ containers'[t].stop = containers[t].stop
          /\ containers'[t].pc \notin {"SUCCESS", "FAILED"} /\ Running(t)'
      BY <1>1, <1>a, <2>1, <2>2, StoppedContainers DEF Running
    <3>2. /\ reports' \subseteq reports
          /\ \A s \in reports : s.task # t \/ s.status = "CANCELLED" => s \in reports'
      BY <1>1, <1>a, <2>2
    <3> QED
      BY <1>1, <1>a, <2>1, <3>1, <3>2, GoesOn
  <2>3. CASE r.status \notin Active
    <3>1. ~Running(t)'
      BY <1>1, <1>a, <2>1, <2>3, StoppedContainers DEF Running
    <3>2. /\ reports' \subseteq reports /\ \A s \in reports : s.task # t => s \in reports'
      BY <1>1, <1>a
    <3>3. /\ Late' \subseteq Late \cup Orphans(t) /\ (~Mine(t) => Late' \subseteq Late)
          /\ Spent' \subseteq Spent /\ Stopped' \subseteq Stopped \ {t}
        BY <1>1, <1>a, <2>1, <3>1, <3>2, WorkerEnds
    <3>4. Lost' \subseteq Lost
      <4>1. tasks'[t].status \notin Active
        BY <1>1, <1>a, <2>3 DEF IsRefused
      <4>2. t \notin Lost'
        BY <4>1 DEF Lost, ActiveTasks
      <4> QED
        BY <1>1, <1>a, <2>1, <4>2, RowLost DEF Running
    <3>5. CASE r.status = "CANCELLED"
      <4>1. Mine(t) => t \in Marked
        BY <1>1, <1>a, <2>1, <3>5 DEF Stopped, Marked, Fits
      <4>2. \A s \in Late' : s \in Late \/ s.task = t
        BY <3>3 DEF Orphans
      <4>3. CASE Mine(t)
        BY <3>3, <3>4, <4>1, <4>2, <4>3, Turns
      <4>4. CASE ~Mine(t)
        BY <3>3, <3>4, <4>4, Kept
      <4> QED
        BY <4>3, <4>4
    <3>6. CASE r.status # "CANCELLED"
      <4>1. Orphans(t) = {}
        BY <1>1, <1>a, <2>1, <2>3, <3>6, OneOrphan DEF Fits
      <4> QED
        BY <3>3, <3>4, <4>1, Kept
    <3> QED
      BY <3>5, <3>6
  <2> QED
    BY <2>2, <2>3
<1> QED
  BY <1>2, <1>3

\* The handler's reads, its failures and its timeouts.
LEMMA HandlerPays ==
  ASSUME TypeOK, SlotInv, WorkerAction, NEW r \in reports,
         ReportStep(r) \/ ReportFails(r) \/ ReportTimesOut(r) \/ ReportDropped(r)
  PROVE  Pays
<1>1. /\ [Next]_vars /\ UNCHANGED <<watchers, disp>>
      /\ tasks \in [Task -> Row] /\ r \in Report /\ r.task \in Task
      /\ [r EXCEPT !.pc = "write"] \in Report /\ [r EXCEPT !.waiting = FALSE] \in Report
  BY ReportUpdates DEF Next, WorkerAction, TypeOK, PlatformTypeOK, WorkerTypeOK
<1>2. CASE ReportRead(r) /\ IsRefused(r)
  BY <1>2, AnswerPays DEF ReportRead
<1>3. CASE ReportRead(r) /\ ~IsRefused(r)
  <2> DEFINE x == [r EXCEPT !.pc = "write"]
  <2>1. /\ UNCHANGED <<tasks, containers>> /\ reports' = (reports \ {r}) \cup {x} /\ x # r
        /\ x.task = r.task /\ x.run = r.run /\ x.status = r.status /\ x.waiting = r.waiting
    BY <1>1, <1>3 DEF ReportRead
  <2> HIDE DEF x
  <2>2. IsAwaited(x) <=> IsAwaited(r)
    BY <2>1 DEF IsAwaited
  <2>3. IsAwaited(r) => \E z \in reports' : /\ z.task = r.task /\ z.run = r.run
                                            /\ z.status = r.status /\ z.waiting
    BY <2>1 DEF IsAwaited
  <2>4. /\ \A s : IsAwaited(s)' <=> IsAwaited(s)
        /\ \A s \in Late' : s \in reports' /\ (s \in Late \/ s \notin reports)
        /\ Stopped' \subseteq Stopped /\ Spent' \subseteq Spent
    BY <1>1, <2>1, <2>3, OneReport
  <2>5. Lost' \subseteq Lost
    BY <1>1, <2>1, RowLost DEF Running
  <2>6. CASE r \in Late
    <3>1. \A s \in Late' : s \in Late \/ s.task = r.task
      BY <2>1, <2>4
    <3>2. r.task \in Marked
      BY <2>6 DEF Marked
    <3> QED
      BY <2>4, <2>5, <3>1, <3>2, Turns
  <2>7. CASE r \notin Late
    <3>1. x \in Late' => Mine(r.task)' /\ r.status \in Active /\ ~IsAwaited(r)
      BY <2>1, <2>2, <2>4 DEF Late, Mine
    <3>2. x \notin Late'
      BY <1>1, <2>7, <3>1, MineShrinks DEF Late
    <3>3. Late' \subseteq Late
      BY <2>1, <2>4, <3>2
    <3> QED
      BY <2>4, <2>5, <3>3, Kept
  <2> QED
    BY <2>6, <2>7
<1>4. CASE ReportWrite(r)
  <2>1. /\ tasks'[r.task] = ReportedRow(tasks[r.task], r.status)
        /\ \A u \in Task : u # r.task => tasks'[u] = tasks[u]
    BY <1>1, <1>4 DEF ReportWrite, UpdateTask
  <2>2. tasks'[r.task].status = r.status
    BY <1>1, <2>1, StatusesWritten
  <2> QED
    BY <1>4, <2>1, <2>2, AnswerPays DEF ReportWrite
<1>5. CASE ReportFails(r) \/ ReportDropped(r)
  <2>1. /\ UNCHANGED <<tasks, containers>> /\ reports' = reports \ {r}
        /\ ~IsAwaited(r) \/ faults' = faults + 1
    BY <1>5 DEF ReportFails, ReportDropped, Fault, platformVars
  <2>2. /\ Late' \subseteq Late /\ Stopped' \subseteq Stopped /\ Lost' \subseteq Lost
        /\ Spent' \subseteq Spent \cup {r.task} /\ (~IsAwaited(r) => Spent' \subseteq Spent)
    BY <1>1, <2>1, ReportGone
  <2>3. CASE ~IsAwaited(r)
    BY <2>2, <2>3, Kept
  <2>4. CASE IsAwaited(r)
    BY <2>1, <2>2, <2>4, Turns
  <2> QED
    BY <2>3, <2>4
<1>6. CASE ReportTimesOut(r)
  <2> DEFINE x == [r EXCEPT !.waiting = FALSE]
  <2>1. /\ UNCHANGED <<tasks, containers>> /\ reports' = (reports \ {r}) \cup {x}
        /\ x.task = r.task /\ x.status = r.status /\ faults' = faults + 1 /\ IsAwaited(r)
    BY <1>1, <1>6 DEF ReportTimesOut, Fault
  <2> HIDE DEF x
  <2>2. /\ \A s \in Late' : s \in Late \/ s.task = r.task
        /\ Stopped' \subseteq Stopped /\ Spent' \subseteq Spent \cup {r.task}
    <3>1. /\ \A s \in Late' : s \in reports' /\ (s \in Late \/ s \notin reports)
          /\ Stopped' \subseteq Stopped /\ Spent' \subseteq Spent \cup {r.task}
      BY <1>1, <2>1, OneReport
    <3> QED
      BY <2>1, <3>1
  <2>3. Lost' \subseteq Lost
    BY <1>1, <2>1, RowLost DEF Running
  <2> QED
    BY <2>1, <2>2, <2>3, Turns
<1> QED
  BY <1>2, <1>3, <1>4, <1>5, <1>6 DEF ReportStep

\* Every step of one backend pays.
LEMMA StepPays == TypeOK /\ SlotInv /\ [Next]_vars /\ ~Restart => Pays
<1> SUFFICES ASSUME TypeOK, SlotInv, [Next]_vars, ~Restart PROVE Pays
  OBVIOUS
<1>1. CASE WorkerAction
  BY <1>1, ProcessPays, HandlerPays DEF WorkerAction, WorkerNext
<1>2. CASE UNCHANGED vars
  <2>1. UNCHANGED <<containers, reports, tasks, watchers, disp>>
    BY <1>2 DEF vars, platformVars, workerVars
  <2>2. Lost' \subseteq Lost
    BY <2>1, RowLost DEF Running
  <2> QED
    BY <2>1, <2>2, WorkersAlone, Kept
<1> QED
  BY <1>1, <1>2, ApiPays, RunnerPays, DispatcherPays, ReapPays DEF Next

\* Faults are never forgotten, and a restart is not undone.
LEMMA RestartsCount ==
  ASSUME TypeOK, [Next]_vars
  PROVE  /\ faults <= faults'
         /\ restarts' = 0 => restarts = 0 /\ ~Restart
<1>1. faults \in Nat /\ restarts \in Nat
  BY DEF TypeOK, PlatformTypeOK
<1>2. faults' \in {faults, faults + 1}
  BY DEF Next, ApiAction, RunnerAction, DispatcherAction, WorkerAction, DaemonAction, Restart,
         ApiNext, StartCheck, CancelCheck, RetryCheck, Admit, RequestStep, QueueWrite,
         CancelWrite, CancelRemove, CancelRemoveEnv, RequestAborted, CancelRemoveFails,
         RunnerNext, WatcherStep, WatcherFault, PollGone, PollExited, ReadExitCode, CheckGone,
         CheckStillActive, MarkFailed, CheckExit0, MarkSuccess, PollHiccup, ExitCodeHiccup, WatchExpires,
         WatcherAborted, DispatcherNext, DispatcherStep, CountActive, PickNext, Return, Claim,
         Reload, WriteEnvFile, StartWorker, StartRefused, FailTask, SecretsFail, StartFails,
         DispatcherAborted, WorkerNext, ProcessStep, Boot, FetchFails, Preflight, Migrate,
         MainReports, Retry, RetryStop, Sigterm, Crash, ReportStep, ReportRead, ReportWrite,
         ReportFails, ReportTimesOut, ReportDropped, Reap, Fault, platformVars, vars
<1>3. Restart \/ UNCHANGED restarts
  BY DEF Next, ApiAction, RunnerAction, DispatcherAction, WorkerAction, DaemonAction, vars
<1>4. Restart => restarts' = restarts + 1
  BY DEF Restart
<1> QED
  BY <1>1, <1>2, <1>3, <1>4

\* While the backend has not restarted, no more slots are lost to tasks that
\* nobody cancelled than there were faults: failed calls, lost answers, crashed
\* or terminated workers.
THEOREM StrandedCorrect == Spec => []StrandedWithinFaults
<1> DEFINE Inv == TypeOK /\ SlotInv /\ MarkedWithinFaults
<1>1. Init => Inv
  <2> SUFFICES ASSUME Init PROVE Inv
    OBVIOUS
  <2>1. TypeOK
    BY InitType
  <2>2. SlotInv
    BY DEF Init, ApiInit, DispatcherInit, WorkerInit, SlotInv, ReportsFit
  <2>3. Marked = {}
    <3>1. Late = {} /\ \A t \in Task : ~Running(t) /\ tasks[t].status = "PENDING"
      BY DEF Init, PlatformInit, WorkerInit, NewRow, Running, Late
    <3>2. Lost = {} /\ Spent = {} /\ Stopped = {}
      BY <3>1 DEF Lost, ActiveTasks, Active, Spent, Stopped
    <3> QED
      BY <3>1, <3>2 DEF Marked
  <2>4. MarkedWithinFaults
    <3>1. faults = 0
      BY DEF Init, PlatformInit
    <3> QED
      BY <2>3, <3>1, FS_EmptySet DEF MarkedWithinFaults
  <2> QED
    BY <2>1, <2>2, <2>4
<1>2. Inv /\ [Next]_vars => Inv'
  <2> SUFFICES ASSUME TypeOK, SlotInv, MarkedWithinFaults, [Next]_vars PROVE Inv'
    OBVIOUS
  <2>1. TypeOK'
    BY NextType
  <2>2. SlotInv'
    BY CancelsCount, EmptyHanded, FitStep DEF SlotInv
  <2>3. MarkedWithinFaults'
    <3> SUFFICES ASSUME restarts' = 0
                 PROVE  IsFiniteSet(Marked') /\ Cardinality(Marked') <= faults'
      BY DEF MarkedWithinFaults
    <3>1. restarts = 0 /\ ~Restart /\ faults <= faults'
      BY RestartsCount
    <3>2. Pays
      BY <3>1, StepPays
    <3> QED
      BY <2>1, <3>1, <3>2, Paid
  <2> QED
    BY <2>1, <2>2, <2>3
<1>3. Inv => StrandedWithinFaults
  <2> SUFFICES ASSUME TypeOK, MarkedWithinFaults, restarts = 0
               PROVE  Cardinality({t \in Stranded : clicks[t]["cancel"] = 0}) <= faults
    BY DEF StrandedWithinFaults
  <2> DEFINE S == {t \in Stranded : clicks[t]["cancel"] = 0}
  <2>1. S \subseteq Marked
    BY DEF Stranded, Lost, Mine, Marked
  <2>2. IsFiniteSet(Marked) /\ Cardinality(Marked) <= faults
    BY DEF MarkedWithinFaults
  <2>3. IsFiniteSet(S) /\ Cardinality(S) <= Cardinality(Marked)
    BY <2>1, <2>2, FS_Subset
  <2>4. Cardinality(S) \in Nat /\ Cardinality(Marked) \in Nat /\ faults \in Nat
    BY <2>2, <2>3, FS_CardinalityType DEF TypeOK, PlatformTypeOK
  <2> QED
    BY <2>2, <2>3, <2>4
<1> QED
  BY <1>1, <1>2, <1>3, PTL DEF Spec

(***************************************************************************)
(* Success.  It starts with a Migrate that finished, which is remembered   *)
(* in migrated, and goes on as a report or as an exit code 0; or a watcher *)
(* that has not read an exit code makes it up, which is remembered too.    *)
(***************************************************************************)
Succeeds(c) == c.pc = "SUCCESS" \/ (c.state = "exited" /\ c.code = 0)

SuccessInv ==
  /\ SuccessIsWitnessed
  /\ \A t \in Task : Succeeds(containers[t]) => t \in migrated
  /\ \A r \in reports : r.status = "SUCCESS" => r.task \in migrated
  /\ \A w \in watchers : w.pc \in {"exit0", "succeed"} => w.task \in migrated \cup unread

\* What has been observed stays observed.
LEMMA WitnessesStay ==
  ASSUME [Next]_vars
  PROVE  migrated \subseteq migrated' /\ unread \subseteq unread'
<1>1. ASSUME NEW t \in Task,
             ProcessStep(t) \/ FetchFails(t) \/ Sigterm(t) \/ Crash(t)
      PROVE  migrated \subseteq migrated'
  BY <1>1 DEF ProcessStep, Boot, Preflight, Migrate, Retry, RetryStop, FetchFails,
              Sigterm, Crash
<1>2. ASSUME NEW r \in reports,
             ReportStep(r) \/ ReportFails(r) \/ ReportTimesOut(r) \/ ReportDropped(r)
      PROVE  migrated \subseteq migrated'
  BY <1>2 DEF ReportStep, ReportRead, ReportWrite, ReportFails, ReportTimesOut,
              ReportDropped
<1>3. CASE WorkerAction
  BY <1>1, <1>2, <1>3 DEF WorkerAction, WorkerNext
<1>4. CASE RunnerAction
  BY <1>4 DEF RunnerAction, ObserveReads, workerVars
<1>5. CASE ~WorkerAction /\ ~RunnerAction
  BY <1>5 DEF Next, ApiAction, DispatcherAction, DaemonAction, Restart, vars, workerVars
<1> QED
  BY <1>3, <1>4, <1>5

\* A container gets to reporting success by finishing Migrate, and to exit
\* code 0 by the answer to that report or by giving it up.
LEMMA ContainersSucceed ==
  ASSUME TypeOK, SuccessInv, [Next]_vars, NEW t \in Task, Succeeds(containers'[t])
  PROVE  t \in migrated'
<1> DEFINE Earned == Succeeds(containers'[t]) => t \in migrated \cup migrated'
<1> SUFFICES Earned
  BY WitnessesStay
<1>1. /\ containers \in [Task -> Container] /\ reports \subseteq Report
      /\ Succeeds(containers[t]) => t \in migrated
      /\ \A r \in reports : r.status = "SUCCESS" => r.task \in migrated
  BY DEF TypeOK, PlatformTypeOK, WorkerTypeOK, SuccessInv
<1>2. CASE UNCHANGED containers
  BY <1>1, <1>2
<1>3. ASSUME NEW u \in Task,
             containers' = [containers EXCEPT ![u] = NoContainer(@)]
                \/ containers' = [containers EXCEPT ![u] = FreshContainer(@)]
                \/ containers' = [containers EXCEPT ![u] = ExitedContainer(@, 1)]
      PROVE  Earned
  BY <1>1, <1>3 DEF NoContainer, FreshContainer, ExitedContainer, Succeeds
<1>4. ASSUME NEW u \in Task, NEW status \in Reported,
             status = "SUCCESS" => u \in migrated, Running(u),
             containers' = [containers EXCEPT ![u] = AfterReport(@, status)]
      PROVE  Earned
  <2>1. Succeeds(AfterReport(containers[u], status)) => status = "SUCCESS"
    BY <1>1, <1>4 DEF AfterReport, ExitedContainer, Succeeds, Running
  <2> QED
    BY <1>1, <1>4, <2>1
<1>5. CASE WorkerAction
  <2>1. ASSUME NEW u \in Task, NEW status \in MainPosts, MainReports(u, status), Running(u),
               status = "SUCCESS" => u \in migrated'
        PROVE  Earned
    BY <1>1, <2>1 DEF MainReports, Succeeds, Running
  <2>2. ASSUME NEW u \in Task, Boot(u) \/ FetchFails(u) \/ Preflight(u) \/ Migrate(u)
        PROVE  Earned
    <3>1. Running(u)
      BY <2>2 DEF Boot, FetchFails, Preflight, Migrate, MainAt
    <3>2. PICK status \in MainPosts :
            MainReports(u, status) /\ (status = "SUCCESS" => u \in migrated')
      BY <2>2 DEF Boot, FetchFails, Preflight, Migrate
    <3> QED
      BY <2>1, <3>1, <3>2
  <2>3. ASSUME NEW u \in Task, Retry(u) \/ RetryStop(u) PROVE Earned
    <3>1. containers[u].pc = "SUCCESS" => u \in migrated
      BY <1>1 DEF SuccessInv, Succeeds
    <3>2. CASE containers' = [containers EXCEPT ![u].try = @ + 1]
               \/ containers' = [containers EXCEPT ![u].stop = @ + 1]
      BY <1>1, <3>2 DEF Succeeds
    <3>3. CASE Retry(u) /\ containers' = [containers EXCEPT ![u] = AfterReport(@, containers[u].pc)]
      BY <1>4, <3>1, <3>3 DEF Retry
    <3>4. CASE RetryStop(u) /\ containers' = [containers EXCEPT ![u] = AfterReport(@, "CANCELLED")]
      <4>1. Running(u) /\ "CANCELLED" \in Reported /\ "CANCELLED" # "SUCCESS"
        BY <3>4 DEF RetryStop
      <4> HIDE DEF Earned, Reported
      <4> QED
        BY <1>4, <3>4, <4>1
    <3> HIDE DEF Earned
    <3> QED
      BY <2>3, <3>2, <3>3, <3>4 DEF Retry, RetryStop
  <2>4. ASSUME NEW u \in Task, Sigterm(u) PROVE Earned
    BY <1>1, <2>4 DEF Sigterm, Succeeds
  <2>5. ASSUME NEW u \in Task, Crash(u) PROVE Earned
    BY <1>3, <2>5 DEF Crash
  <2>6. ASSUME NEW r \in reports, Answer(r) PROVE Earned
    BY <1>1, <1>2, <1>4, <2>6 DEF Answer, IsAwaited
  <2>7. ASSUME NEW r \in reports,
               ReportStep(r) \/ ReportFails(r) \/ ReportTimesOut(r) \/ ReportDropped(r)
        PROVE  Earned
    BY <1>1, <1>2, <2>6, <2>7
       DEF ReportStep, ReportRead, ReportWrite, ReportFails, ReportTimesOut,
           ReportDropped, platformVars
  <2> HIDE DEF Earned
  <2> QED
    BY <1>5, <2>2, <2>3, <2>4, <2>5, <2>7 DEF WorkerAction, WorkerNext, ProcessStep
<1>6. CASE \E u \in Task : StartWorker \/ Reap(u)
  BY <1>3, <1>6 DEF StartWorker, RunContainer, Reap, At, TypeOK, DispatcherTypeOK
<1>7. ASSUME NEW q \in requests, CancelRemove(q) PROVE Earned
  BY <1>2, <1>3, <1>7 DEF CancelRemove, TypeOK, ApiTypeOK
<1> HIDE DEF Earned
<1> QED
  BY <1>2, <1>5, <1>6, <1>7
     DEF Next, ApiAction, ApiNext, RequestStep, StartCheck, CancelCheck, RetryCheck,
         Admit, QueueWrite, CancelWrite, CancelRemoveEnv, RequestAborted,
         CancelRemoveFails, RunnerAction, RunnerNext, WatcherStep, WatcherFault,
         PollGone, PollExited, ReadExitCode, CheckGone, CheckStillActive, CheckExit0,
         PollHiccup, ExitCodeHiccup, WatchExpires, WatcherAborted, MarkFailed, MarkSuccess,
         DispatcherAction, DispatcherNext, DispatcherStep, CountActive, PickNext,
         Return, Claim, Reload, WriteEnvFile, StartRefused, FailTask, SecretsFail,
         StartFails, DispatcherAborted, DaemonAction, Restart, platformVars, vars

\* A report of success is sent by a worker that is at that report.
LEMMA ReportsSucceed ==
  ASSUME TypeOK, SuccessInv, [Next]_vars, NEW x \in reports', x.status = "SUCCESS"
  PROVE  x.task \in migrated'
<1> DEFINE OK == \A y \in reports' : y.status = "SUCCESS" => y.task \in migrated \cup migrated'
<1> SUFFICES OK
  BY WitnessesStay
<1>1. /\ reports \subseteq Report
      /\ \A r \in reports : r.status = "SUCCESS" => r.task \in migrated
  BY DEF TypeOK, WorkerTypeOK, SuccessInv
<1>2. CASE reports' \subseteq reports
  BY <1>1, <1>2
<1>3. ASSUME NEW t \in Task, NEW status, NEW try, Send(t, status, try),
             status = "SUCCESS" => t \in migrated \cup migrated'
      PROVE  OK
  BY <1>1, <1>3 DEF Send
<1>4. ASSUME NEW t \in Task, Retry(t) PROVE OK
  <2>1. containers[t].pc = "SUCCESS" => t \in migrated
    BY DEF SuccessInv, Succeeds
  <2> QED
    BY <1>2, <1>3, <1>4, <2>1 DEF Retry
<1>5. ASSUME NEW t \in Task,
             ProcessStep(t) \/ FetchFails(t) \/ Sigterm(t) \/ Crash(t)
      PROVE  OK
  <2> HIDE DEF OK
  <2> QED
    BY <1>2, <1>3, <1>4, <1>5
       DEF ProcessStep, Boot, Preflight, Migrate, MainReports, RetryStop, FetchFails,
           Sigterm, Crash
<1>6. ASSUME NEW r \in reports,
             ReportStep(r) \/ ReportFails(r) \/ ReportTimesOut(r) \/ ReportDropped(r)
      PROVE  OK
  <2>1. r \in Report
    BY <1>1
  <2>2. \/ reports' = reports \ {r}
        \/ reports' = (reports \ {r}) \cup {[r EXCEPT !.pc = "write"]}
        \/ reports' = (reports \ {r}) \cup {[r EXCEPT !.waiting = FALSE]}
    BY <1>6 DEF ReportStep, ReportRead, ReportWrite, ReportFails, ReportTimesOut,
                ReportDropped, Answer
  <2> QED
    BY <1>1, <2>1, <2>2
<1> HIDE DEF OK
<1> QED
  BY <1>2, <1>5, <1>6
     DEF Next, ApiAction, apiVars, RunnerAction, DispatcherAction, WorkerAction,
         WorkerNext, DaemonAction, Restart, vars, workerVars

\* A watcher takes the exit code for 0 when it is, or when it could not read it.
LEMMA WatchersSucceed ==
  ASSUME TypeOK, SuccessInv, [Next]_vars,
         NEW x \in watchers', x.pc \in {"exit0", "succeed"}
  PROVE  x.task \in migrated' \cup unread'
<1> DEFINE Mark(y) == y.pc \in {"exit0", "succeed"}
           OK == \A y \in watchers' : Mark(y) => y.task \in migrated \cup unread \cup unread'
<1> SUFFICES OK
  BY WitnessesStay
<1>1. /\ watchers \subseteq Watcher
      /\ \A w \in watchers : Mark(w) => w.task \in migrated \cup unread
  BY DEF TypeOK, RunnerTypeOK, SuccessInv
<1>2. CASE watchers' \subseteq watchers
  BY <1>1, <1>2
<1>3. ASSUME NEW w \in watchers, NEW pc, Move(w, pc),
             pc \in {"exit0", "succeed"} => w.task \in migrated \cup unread \cup unread'
      PROVE  OK
  <2>1. w \in Watcher
    BY <1>1
  <2> QED
    BY <1>1, <1>3, <2>1 DEF Move
<1>4. ASSUME NEW w \in watchers, ReadExitCode(w), RunnerAction PROVE OK
  <2>1. w \in Watcher /\ w.task \in Task /\ containers[w.task] \in Container
    BY <1>1 DEF TypeOK, PlatformTypeOK
  <2>2. CASE containers[w.task].code # 0
    BY <1>3, <1>4, <2>2 DEF ReadExitCode
  <2>3. CASE containers[w.task].code = 0 /\ containers[w.task].state = "exited"
    <3>1. w.task \in migrated
      BY <2>1, <2>3 DEF SuccessInv, Succeeds
    <3> QED
      BY <1>3, <1>4, <2>3, <3>1 DEF ReadExitCode
  <2>4. CASE containers[w.task].code = 0 /\ containers[w.task].state # "exited"
    <3>1. w.pc = "exited" /\ watchers' = (watchers \ {w}) \cup {[w EXCEPT !.pc = "exit0"]}
      BY <1>4, <2>4 DEF ReadExitCode, Move
    <3>2. w \notin watchers'
      BY <2>1, <3>1
    <3>3. w.task \in unread'
      BY <1>4, <2>4, <3>1, <3>2 DEF RunnerAction, ObserveReads
    <3> QED
      BY <1>3, <1>4, <2>4, <3>3 DEF ReadExitCode
  <2> QED
    BY <2>2, <2>3, <2>4
<1>8. ASSUME NEW w \in watchers, ExitCodeHiccup(w), RunnerAction PROVE OK
  <2>1. w \in Watcher /\ w.task \in Task /\ faults \in Nat
    BY <1>1 DEF TypeOK, PlatformTypeOK
  <2>2. /\ w.pc = "exited" /\ faults' # faults
        /\ watchers' = (watchers \ {w}) \cup {[w EXCEPT !.pc = "exit0"]}
    BY <1>8, <2>1 DEF ExitCodeHiccup, Fault, Move
  <2>3. w \notin watchers'
    BY <2>1, <2>2
  <2>4. w.task \in unread'
    BY <1>8, <2>2, <2>3 DEF RunnerAction, ObserveReads
  <2> QED
    BY <1>3, <1>8, <2>4 DEF ExitCodeHiccup
<1>5. ASSUME NEW w \in watchers, CheckExit0(w) PROVE OK
  <2>1. w.task \in migrated \cup unread
    BY <1>5 DEF CheckExit0, SuccessInv
  <2> QED
    BY <1>2, <1>3, <1>5, <2>1 DEF CheckExit0, Stop
<1>6. CASE RunnerAction
  <2> HIDE DEF OK
  <2> QED
    BY <1>2, <1>3, <1>4, <1>5, <1>6, <1>8
       DEF RunnerAction, RunnerNext, WatcherStep, WatcherFault, PollGone, PollExited,
           CheckGone, CheckStillActive, PollHiccup, WatchExpires, WatcherAborted,
           MarkFailed, MarkSuccess, Stop
<1>7. CASE StartWorker
  BY <1>1, <1>7 DEF StartWorker, RunContainer
<1> HIDE DEF OK
<1> QED
  BY <1>2, <1>6, <1>7
     DEF Next, ApiAction, DispatcherAction, DispatcherNext, DispatcherStep,
         CountActive, PickNext, Return, Claim, Reload, WriteEnvFile, StartRefused,
         FailTask, SecretsFail, StartFails, DispatcherAborted, WorkerAction,
         DaemonAction, Restart, platformVars, vars

\* SUCCESS is written by such a report or such a watcher.
LEMMA RowsSucceed ==
  ASSUME TypeOK, SuccessInv, [Next]_vars, NEW t \in Task, tasks'[t].status = "SUCCESS"
  PROVE  t \in migrated \cup unread
<1>1. tasks[t] \in Row
  BY DEF TypeOK, PlatformTypeOK
<1>2. /\ tasks[t].status = "SUCCESS" => t \in migrated \cup unread
      /\ \A w \in watchers : w.pc = "succeed" => w.task \in migrated \cup unread
      /\ \A r \in reports : r.status = "SUCCESS" => r.task \in migrated
  BY DEF SuccessInv, SuccessIsWitnessed
<1>3. /\ \A now : QueuedRow(tasks[t], now).status # "SUCCESS"
      /\ CancelledRow(tasks[t]).status # "SUCCESS"
      /\ FailedRow(tasks[t]).status # "SUCCESS"
      /\ ClaimedRow(tasks[t]).status # "SUCCESS"
      /\ \A r \in reports : ReportedRow(tasks[t], r.status).status = "SUCCESS"
                              => r.status = "SUCCESS"
  BY <1>1 DEF QueuedRow, CancelledRow, FailedRow, ClaimedRow, ReportedRow
<1> QED
  BY <1>2, <1>3, RowWriters DEF RowWritten

\* A SUCCESS row has a finished migration of the task behind it, whatever is
\* cancelled, retried, restarted or lost, unless a watcher has gone by an exit
\* code that it could not read.
THEOREM SuccessWitnessed == Spec => []SuccessIsWitnessed
<1>1. Init => SuccessInv
  BY DEF Init, PlatformInit, NewRow, RunnerInit, WorkerInit, SuccessInv,
         SuccessIsWitnessed, Succeeds
<1>2. TypeOK /\ SuccessInv /\ [Next]_vars => SuccessInv'
  <2> SUFFICES ASSUME TypeOK, SuccessInv, [Next]_vars PROVE SuccessInv'
    OBVIOUS
  <2>1. SuccessIsWitnessed'
    BY RowsSucceed, WitnessesStay DEF SuccessIsWitnessed
  <2> QED
    BY <2>1, ContainersSucceed, ReportsSucceed, WatchersSucceed DEF SuccessInv
<1>3. SuccessInv => SuccessIsWitnessed
  BY DEF SuccessInv
<1> QED
  BY <1>1, <1>2, <1>3, TypeCorrect, PTL DEF Spec

(***************************************************************************)
(* Refinement.  Queue maps to QueueWrite, Launch to StartWorker, and every *)
(* other step changes neither count.                                       *)
(***************************************************************************)

\* The installation implements the ledger of queueings and launches.
THEOREM LedgerRefined == Spec => ImplementsLedger
<1>1. Init => Ledger!Init
  BY DEF Init, PlatformInit, ApiInit, Ledger!Init
<1>2. TypeOK /\ TypeOK' /\ LaunchInv /\ [Next]_vars => [Ledger!Next]_(Ledger!vars)
  <2> SUFFICES ASSUME TypeOK, TypeOK', LaunchInv, [Next]_vars
               PROVE  [Ledger!Next]_(Ledger!vars)
    OBVIOUS
  <2> DEFINE launched == [t \in Task |-> containers[t].run]
  <2>1. /\ containers \in [Task -> Container] /\ containers' \in [Task -> Container]
        /\ queueings \in [Task -> Nat] /\ queueings' \in [Task -> Nat]
        /\ requests \subseteq Request
    BY DEF TypeOK, PlatformTypeOK, ApiTypeOK
  <2>2. CASE StartWorker
    <3>1. disp.task \in Task /\ disp' # disp
      BY <2>2 DEF StartWorker, At, TypeOK, DispatcherTypeOK
    <3>2. \A t \in Task : queueings'[t] = queueings[t]
      BY <3>1, Queueing
    <3>3. UNCHANGED queueings
      BY <2>1, <3>2
    <3>4. containers' = [containers EXCEPT ![disp.task] = FreshContainer(@)]
      BY <2>2 DEF StartWorker, RunContainer
    <3>5. launched' = [launched EXCEPT ![disp.task] = @ + 1]
      BY <2>1, <3>1, <3>4 DEF FreshContainer
    <3>6. launched[disp.task] < queueings[disp.task]
      <4>1. Held(disp.task)
        BY <2>2 DEF StartWorker, At, Held
      <4>2. containers[disp.task].run \in Nat /\ queueings[disp.task] \in Nat
        BY <2>1, <3>1
      <4>3. containers[disp.task].run + 1 <= queueings[disp.task]
        BY <3>1, <4>1 DEF LaunchInv
      <4> QED
        BY <3>1, <4>2, <4>3
    <3> QED
      BY <3>1, <3>3, <3>5, <3>6 DEF Ledger!Next, Ledger!Launch
  <2>3. CASE ~StartWorker
    <3>1. UNCHANGED launched
      BY <2>1, <2>3, ContainerRuns
    <3>2. ASSUME NEW q \in requests, QueueWrite(q) PROVE Ledger!Next
      <4>1. q.task \in Task /\ queueings' = [queueings EXCEPT ![q.task] = @ + 1]
        BY <2>1, <3>2 DEF QueueWrite
      <4> QED
        BY <3>1, <4>1 DEF Ledger!Next, Ledger!Queue
    <3>3. CASE ~ \E q \in requests : QueueWrite(q)
      <4>1. \A t \in Task : queueings'[t] = queueings[t]
        BY <3>3, Queueing
      <4>2. UNCHANGED queueings
        BY <2>1, <4>1
      <4> QED
        BY <3>1, <4>2 DEF Ledger!vars
    <3> QED
      BY <3>2, <3>3
  <2> QED
    BY <2>2, <2>3
<1> QED
  BY <1>1, <1>2, LaunchInit, LaunchStep, TypeCorrect, PTL DEF Spec, ImplementsLedger, Ledger!Spec
=============================================================================
