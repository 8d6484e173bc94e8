----------------------------- MODULE CalmProofs -----------------------------
(***************************************************************************)
(* Proofs about DBMove as long as every task is started at most once and   *)
(* nobody cancels or retries one, while calls of the database and of       *)
(* docker fail, decryption and the fetch of a worker fail, and the backend *)
(* restarts, for any number of tasks, restarts and attempts.  What the     *)
(* concurrency limit, a SUCCESS, a lost slot and the life cycle mean then  *)
(* is proved here; cancels, retries, lost answers, killed workers and      *)
(* inspects that fail each break at least one of these.                    *)
(***************************************************************************)
EXTENDS DBMoveProofs

Calm ==
  /\ FaultKinds \subseteq {"docker", "secrets", "fetch", "db"}
  /\ \A t \in Task : /\ Clicks[t]["start"] <= 1
                     /\ Clicks[t]["cancel"] = 0 /\ Clicks[t]["retry"] = 0

(***************************************************************************)
(* What holds between the parts of a calm installation.                    *)
(***************************************************************************)

\* A task has one request, before it is queued.
Requested ==
  /\ \A t \in Task : queueings[t] <= clicks[t]["start"] /\ clicks[t]["start"] <= 1
  /\ \A t \in Task : tasks[t].queued # 0 => queueings[t] # 0
  /\ \A q \in requests : /\ q.op = "start" /\ q.pc = "write"
                         /\ clicks[q.task]["start"] = 1 /\ queueings[q.task] = 0
  /\ \A q, x \in requests : q.task = x.task => q = x

\* Only an active row has a running worker, and nothing is ever cancelled.
Rows ==
  \A t \in Task :
    /\ tasks[t].status # "CANCELLED"
    /\ Running(t) => tasks[t].status \in Active
    /\ containers[t].run = 0 => containers[t].state = "none"
    /\ containers[t].stop = 0

\* What the dispatcher has in hand, nobody else touches.
InHands ==
  /\ disp.pc = "claim" => tasks[disp.task].status = "PENDING"
  /\ disp.pc \in {"reload", "env", "run"} => tasks[disp.task].status = "PREPARING"
  /\ disp.pc = "fail" => /\ tasks[disp.task].status \in {"PENDING", "PREPARING"}
                         /\ containers[disp.task].run = 0
  /\ disp.pc = "run" => disp.task \in envFiles
  /\ disp.pc \in {"idle", "next"} => disp.task = NoTask

\* A report is the one that its worker is waiting for.
Awaited ==
  /\ \A r \in reports : /\ Running(r.task) /\ containers[r.task].run = r.run
                        /\ containers[r.task].pc = r.status /\ r.waiting = TRUE
  /\ \A r, x \in reports : r.task = x.task => r = x

\* A watcher that has seen its worker end is not deceived by a later one.
Watched ==
  \A w \in watchers : /\ containers[w.task].run # 0
                      /\ w.pc # "poll" => ~Running(w.task)

CalmInv == Requested /\ Rows /\ InHands /\ Awaited /\ Watched

Known == TypeOK /\ QueuedInv /\ LaunchInv /\ CalmInv

(***************************************************************************)
(* The steps that are left.                                                *)
(***************************************************************************)

CalmApi ==
  /\ (\E t \in Task : StartCheck(t)) \/ (\E q \in requests : QueueWrite(q))
  /\ UNCHANGED <<containers, envFiles, faults, watchers, disp, workerVars, restarts>>

CalmRunner ==
  /\ \E w \in watchers : WatcherStep(w) \/ WatcherAborted(w)
  /\ UNCHANGED <<containers, envFiles, apiVars, disp, workerVars, restarts>>

CalmDispatcher ==
  /\ \/ CountActive \/ PickNext \/ Return \/ Claim \/ Reload \/ WriteEnvFile
     \/ StartWorker \/ FailTask \/ SecretsFail \/ StartFails \/ DispatcherAborted
  /\ UNCHANGED <<apiVars, workerVars, restarts>>

CalmWorker ==
  /\ \/ \E t \in Task : Boot(t) \/ Preflight(t) \/ Migrate(t) \/ Retry(t) \/ FetchFails(t)
     \/ \E r \in reports : ReportRead(r) \/ ReportWrite(r) \/ ReportFails(r)
  /\ UNCHANGED <<apiVars, envFiles, watchers, disp, restarts>>

USE DEF Terminal, Active, Status, Row, MainPosts, WorkerPc, Container, Op,
        Request, Watcher, DispatcherState, Reported, Report

LEMMA CalmTypes ==
  ASSUME TypeOK
  PROVE  /\ tasks \in [Task -> Row] /\ containers \in [Task -> Container]
         /\ envFiles \subseteq Task /\ faults \in Nat
         /\ requests \subseteq Request /\ clicks \in [Task -> [Op -> Nat]]
         /\ queueings \in [Task -> Nat] /\ watchers \subseteq Watcher
         /\ disp \in DispatcherState /\ reports \subseteq Report
         /\ migrated \subseteq Task /\ restarts \in Nat
         /\ disp.pc \in {"claim", "reload", "env", "run", "fail"} => disp.task \in Task
  BY DEF TypeOK, PlatformTypeOK, ApiTypeOK, RunnerTypeOK, DispatcherTypeOK, WorkerTypeOK

\* A task has at most one container, and none before the dispatcher runs it.
LEMMA OneRun ==
  ASSUME Known, NEW t \in Task
  PROVE  /\ containers[t].run \in {0, 1}
         /\ tasks[t].status = "PENDING" => containers[t].run = 0 /\ ~Running(t)
         /\ disp.task = t => containers[t].run = 0 /\ ~Running(t)
         /\ queueings[t] = 0 => /\ containers[t].run = 0 /\ ~Running(t) /\ disp.task # t
                                /\ tasks[t].status = "PENDING" /\ tasks[t].queued = 0
  <1>0. /\ containers[t] \in Container /\ tasks[t] \in Row
        /\ queueings[t] \in Nat /\ clicks[t]["start"] \in Nat /\ disp \in DispatcherState
    BY CalmTypes DEF Known
  <1>1. /\ containers[t].run <= queueings[t]
        /\ IsQueued(tasks[t]) \/ Held(t) => containers[t].run + 1 <= queueings[t]
        /\ queueings[t] <= 1
    BY <1>0 DEF Known, LaunchInv, CalmInv, Requested
  <1>2. containers[t].run = 0 => ~Running(t)
    BY DEF Known, CalmInv, Rows, Running
  <1>3. tasks[t].queued = 0 => containers[t].run = 0 /\ tasks[t].status = "PENDING"
    BY <1>0 DEF Known, QueuedInv, NothingRunsUnqueued, CalmInv, Rows
  <1>4. tasks[t].status = "PENDING" => containers[t].run = 0
    BY <1>0, <1>1, <1>3 DEF IsQueued
  <1>5. disp.task = t => containers[t].run = 0 /\ tasks[t].queued # 0
    BY <1>0, <1>1, NoTaskAssumption DEF Held, Known, CalmInv, InHands, QueuedInv
  <1>6. queueings[t] = 0 => tasks[t].queued = 0
    BY DEF Known, CalmInv, Requested
  <1> QED
    BY <1>0, <1>1, <1>2, <1>3, <1>4, <1>5, <1>6

LEMMA CalmSteps ==
  ASSUME Calm, Known, [Next]_vars
  PROVE  \/ CalmApi \/ CalmRunner \/ CalmDispatcher \/ CalmWorker
         \/ DaemonAction \/ Restart \/ UNCHANGED vars
  <1>0. \A kind : Fault(kind) => kind \in {"docker", "secrets", "fetch", "db"}
    BY DEF Fault, Calm
  <1>1. CASE ApiAction
    <2>1. ASSUME NEW t \in Task PROVE ~CancelCheck(t) /\ ~RetryCheck(t)
      <3>1. clicks[t]["cancel"] \in Nat /\ clicks[t]["retry"] \in Nat
        BY CalmTypes DEF Known
      <3>2. Clicks[t]["cancel"] = 0 /\ Clicks[t]["retry"] = 0
        BY DEF Calm
      <3> QED
        BY <3>1, <3>2 DEF CancelCheck, RetryCheck, Admit
    <2>2. ASSUME NEW q \in requests
          PROVE  /\ ~CancelWrite(q) /\ ~CancelRemove(q) /\ ~CancelRemoveEnv(q)
                 /\ ~CancelRemoveFails(q) /\ ~RequestAborted(q)
      <3>1. q.op = "start"
        BY DEF Known, CalmInv, Requested
      <3> QED
        BY <1>0, <3>1 DEF CancelWrite, CancelRemove, CancelRemoveEnv, CancelRemoveFails,
                          RequestAborted
    <2> QED
      BY <1>1, <2>1, <2>2
         DEF ApiAction, ApiNext, RequestStep, CalmApi, StartCheck, QueueWrite, Admit
  <1>2. CASE RunnerAction
    <2>1. ASSUME NEW w \in watchers
          PROVE  ~PollHiccup(w) /\ ~WatchExpires(w) /\ ~ExitCodeHiccup(w)
      BY <1>0 DEF PollHiccup, WatchExpires, ExitCodeHiccup
    <2>2. ASSUME NEW w \in watchers, WatcherStep(w) \/ WatcherAborted(w)
          PROVE  UNCHANGED <<containers, envFiles>>
      BY <2>2 DEF WatcherStep, WatcherAborted, PollGone, PollExited, ReadExitCode,
                  CheckGone, CheckStillActive, MarkFailed, CheckExit0, MarkSuccess,
                  platformVars
    <2> QED
      BY <1>2, <2>1, <2>2 DEF RunnerAction, RunnerNext, WatcherFault, CalmRunner
  <1>3. CASE DispatcherAction
    <2>1. ~StartRefused
      <3> SUFFICES ASSUME StartRefused PROVE FALSE
        OBVIOUS
      <3>1. disp.pc = "run" /\ ~CanRun(disp.task)
        BY DEF StartRefused, At
      <3>2. disp.task \in Task /\ disp.task \in envFiles
        BY <3>1, CalmTypes DEF Known, CalmInv, InHands
      <3>3. containers[disp.task].state = "none"
        BY <3>2, OneRun DEF Known, CalmInv, Rows
      <3> QED
        BY <3>1, <3>2, <3>3 DEF CanRun
    <2> QED
      BY <1>3, <2>1 DEF DispatcherAction, DispatcherNext, DispatcherStep, CalmDispatcher
  <1>4. CASE WorkerAction
    <2>1. ASSUME NEW t \in Task PROVE ~RetryStop(t) /\ ~Sigterm(t) /\ ~Crash(t)
      BY <1>0 DEF RetryStop, Sigterm, Crash, Known, CalmInv, Rows
    <2>2. ASSUME NEW r \in reports PROVE ~ReportTimesOut(r) /\ ~ReportDropped(r)
      BY <1>0 DEF ReportTimesOut, ReportDropped, IsAwaited, Known, CalmInv, Awaited
    <2>3. UNCHANGED envFiles
      BY <1>4 DEF WorkerAction, WorkerNext, ProcessStep, Boot, Preflight, Migrate, Retry,
                  RetryStop, FetchFails, Sigterm, Crash, MainReports, ReportStep,
                  ReportRead, ReportWrite, ReportFails, ReportTimesOut, ReportDropped,
                  platformVars
    <2> QED
      BY <1>4, <2>1, <2>2, <2>3
         DEF WorkerAction, WorkerNext, ProcessStep, ReportStep, CalmWorker
  <1> QED
    BY <1>1, <1>2, <1>3, <1>4 DEF Next

\* One container is replaced.
OneContainer(t, c) ==
  /\ c \in Container /\ containers' = [containers EXCEPT ![t] = c]
  /\ c.run = containers[t].run /\ c.stop = 0

\* What a worker that is at one place may report there.
Follows(from, to) ==
  \/ from = to \/ to = "FAILED"
  \/ <<from, to>> \in
       {<<"boot", "PREPARING">>, <<"preflight", "RUNNING">>, <<"migrate", "SUCCESS">>}

\* The worker of t starts on a report ...
Sends(t) ==
  /\ Running(t) /\ \A r \in reports : r.task # t
  /\ \E c \in Container, status \in MainPosts, try \in Nat :
       /\ OneContainer(t, c) /\ c.state = "running" /\ c.pc = status /\ c.try = try
       /\ try = 1 \/ (try = containers[t].try + 1 /\ status = containers[t].pc)
       /\ reports' = reports \cup
            {[task |-> t, run |-> containers[t].run, status |-> status, try |-> try,
              pc |-> "read", waiting |-> TRUE]}
       /\ status = "SUCCESS" => t \in migrated' \/ containers[t].pc = "SUCCESS"
       /\ Follows(containers[t].pc, status)
  /\ faults' \in {faults, faults + 1} /\ migrated \subseteq migrated'
  /\ tasks' = tasks

\* ... or gives it up.
GivesUp(t) ==
  /\ Running(t) /\ containers[t].pc \in MainPosts /\ \A r \in reports : r.task # t
  /\ containers[t].try >= MaxAttempts
  /\ OneContainer(t, AfterReport(containers[t], containers[t].pc))
  /\ UNCHANGED <<tasks, reports, faults, migrated>>

\* The handler has read an active row ...
Reads(r) ==
  /\ reports' = (reports \ {r}) \cup {[r EXCEPT !.pc = "write"]}
  /\ UNCHANGED <<tasks, containers, faults, migrated>>

\* ... and answers when it has written it.
Writes(r) ==
  /\ tasks' = [tasks EXCEPT ![r.task] = ReportedRow(tasks[r.task], r.status)]
  /\ reports' = reports \ {r}
  /\ OneContainer(r.task, AfterReport(containers[r.task], r.status))
  /\ UNCHANGED <<faults, migrated>>

Loses(r) ==
  /\ reports' = reports \ {r} /\ faults' = faults + 1
  /\ UNCHANGED <<tasks, containers, migrated>>

LEMMA AfterReportStop ==
  ASSUME NEW c \in Container, NEW status \in Reported, c.stop = 0
  PROVE  AfterReport(c, status).stop = 0
  BY DEF AfterReport, ExitedContainer

\* What a worker awaits is its own report.
LEMMA ReportFacts ==
  ASSUME Known, NEW r \in reports
  PROVE  /\ r \in Report /\ r.task \in Task /\ containers[r.task] \in Container
         /\ Running(r.task) /\ containers[r.task].pc = r.status /\ r.waiting = TRUE
         /\ IsAwaited(r) /\ r.status \in MainPosts
         /\ tasks[r.task].status \in Active /\ ~IsRefused(r)
         /\ containers[r.task].stop = 0
  <1>1. /\ r \in Report /\ r.task \in Task /\ containers[r.task] \in Container
    BY CalmTypes DEF Known
  <1>2. Running(r.task) /\ containers[r.task].pc = r.status /\ r.waiting = TRUE
        /\ containers[r.task].run = r.run
    BY DEF Known, CalmInv, Awaited
  <1>3. tasks[r.task].status \in Active /\ containers[r.task].stop = 0
    BY <1>1, <1>2 DEF Known, CalmInv, Rows
  <1> QED
    BY <1>1, <1>2, <1>3 DEF IsAwaited, IsRefused

LEMMA SendsCase ==
  ASSUME Known, NEW t \in Task, NEW status \in MainPosts, Running(t),
         containers[t].pc \notin MainPosts, MainReports(t, status),
         faults' \in {faults, faults + 1}, migrated \subseteq migrated',
         status = "SUCCESS" => t \in migrated', Follows(containers[t].pc, status)
  PROVE  Sends(t)
  <1>1. containers \in [Task -> Container] /\ containers[t] \in Container
    BY CalmTypes DEF Known
  <1>2. PICK c : c = [containers[t] EXCEPT !.pc = status, !.try = 1]
    OBVIOUS
  <1>3. c \in Container /\ c.run = containers[t].run /\ c.stop = containers[t].stop
        /\ c.state = containers[t].state /\ c.pc = status /\ c.try = 1
    BY <1>1, <1>2
  <1>4. containers' = [containers EXCEPT ![t] = c] /\ tasks' = tasks
    BY <1>1, <1>2 DEF MainReports
  <1>5. \A r \in reports : r.task # t
    <2> SUFFICES ASSUME NEW r \in reports, r.task = t PROVE FALSE
      OBVIOUS
    <2>1. containers[r.task].pc = r.status /\ r.status \in MainPosts
      BY ReportFacts
    <2> QED
      BY <2>1
  <1>6. containers[t].stop = 0
    BY DEF Known, CalmInv, Rows
  <1>7. reports' = reports \cup
          {[task |-> t, run |-> containers[t].run, status |-> status, try |-> 1,
            pc |-> "read", waiting |-> TRUE]}
    BY DEF MainReports, Send
  <1>8. OneContainer(t, c) /\ c.state = "running"
    BY <1>3, <1>4, <1>6 DEF OneContainer, Running
  <1> QED
    BY <1>3, <1>4, <1>5, <1>7, <1>8 DEF Sends

LEMMA WorkerCases ==
  ASSUME Calm, Known, CalmWorker
  PROVE  \/ \E t \in Task : Sends(t) \/ GivesUp(t)
         \/ \E r \in reports : Reads(r) \/ Writes(r) \/ Loses(r)
  <1>0. /\ containers \in [Task -> Container] /\ faults \in Nat
        /\ \A t \in Task : containers[t].stop = 0
    BY CalmTypes DEF Known, CalmInv, Rows
  <1>1. ASSUME NEW t \in Task, Boot(t)
        PROVE  Sends(t)
    BY <1>1, SendsCase DEF Boot, MainAt, Follows
  <1>2. ASSUME NEW t \in Task, FetchFails(t)
        PROVE  Sends(t)
    BY <1>2, SendsCase DEF FetchFails, MainAt, Fault, Follows
  <1>3. ASSUME NEW t \in Task, Preflight(t)
        PROVE  Sends(t)
    BY <1>3, SendsCase DEF Preflight, MainAt, Follows
  <1>4. ASSUME NEW t \in Task, Migrate(t)
        PROVE  Sends(t)
    BY <1>4, SendsCase DEF Migrate, MainAt, Follows
  <1>5. ASSUME NEW t \in Task, Retry(t)
        PROVE  Sends(t) \/ GivesUp(t)
    <2>1. Running(t) /\ containers[t].pc \in MainPosts /\ ~Awaiting(t, containers[t].pc)
          /\ UNCHANGED <<tasks, faults, migrated>> /\ containers[t] \in Container
      BY <1>0, <1>5 DEF Retry
    <2>2. \A r \in reports : r.task # t
      <3> SUFFICES ASSUME NEW r \in reports, r.task = t PROVE FALSE
        OBVIOUS
      <3>1. containers[r.task].pc = r.status /\ IsAwaited(r)
        BY ReportFacts
      <3> QED
        BY <2>1, <3>1 DEF Awaiting
    <2>3. CASE containers[t].try < MaxAttempts
      <3>1. PICK c : c = [containers[t] EXCEPT !.try = containers[t].try + 1]
        OBVIOUS
      <3>2. c \in Container /\ c.run = containers[t].run /\ c.stop = containers[t].stop
            /\ c.state = containers[t].state /\ c.pc = containers[t].pc
            /\ c.try = containers[t].try + 1
        BY <2>1, <3>1
      <3>3. containers' = [containers EXCEPT ![t] = c]
        BY <1>0, <1>5, <2>3, <3>1 DEF Retry
      <3>4. reports' = reports \cup
              {[task |-> t, run |-> containers[t].run, status |-> containers[t].pc,
                try |-> containers[t].try + 1, pc |-> "read", waiting |-> TRUE]}
        BY <1>5, <2>3 DEF Retry, Send
      <3>5. OneContainer(t, c) /\ c.state = "running"
        BY <1>0, <2>1, <3>2, <3>3 DEF OneContainer, Running
      <3>6. containers[t].try + 1 \in Nat
        BY <2>1
      <3> QED
        <4>1. PICK status : status = containers[t].pc
          OBVIOUS
        <4>2. PICK try : try = containers[t].try + 1
          OBVIOUS
        <4>3. /\ OneContainer(t, c) /\ c.state = "running" /\ c.pc = status /\ c.try = try
              /\ status \in MainPosts /\ try \in Nat /\ c \in Container
              /\ (try = containers[t].try + 1 /\ status = containers[t].pc)
              /\ status = "SUCCESS" => t \in migrated' \/ containers[t].pc = "SUCCESS"
              /\ Follows(containers[t].pc, status)
          BY <2>1, <3>2, <3>5, <3>6, <4>1, <4>2 DEF Follows
        <4>4. reports' = reports \cup
              {[task |-> t, run |-> containers[t].run, status |-> status, try |-> try,
                pc |-> "read", waiting |-> TRUE]}
          BY <3>4, <4>1, <4>2
        <4>5. faults' \in {faults, faults + 1} /\ migrated \subseteq migrated' /\ tasks' = tasks
          BY <2>1
        <4> HIDE DEF Container, MainPosts
        <4> QED
          BY <2>1, <2>2, <4>3, <4>4, <4>5 DEF Sends
    <2>4. CASE ~(containers[t].try < MaxAttempts)
      <3>1. containers' = [containers EXCEPT ![t] = AfterReport(containers[t], containers[t].pc)]
            /\ reports' = reports
        BY <1>0, <1>5, <2>4 DEF Retry
      <3>2. containers[t].try >= MaxAttempts
        BY <2>1, <2>4, MaxAttemptsAssumption
      <3> QED
        BY <1>0, <2>1, <2>2, <3>1, <3>2, AfterReportType, AfterReportStop
           DEF GivesUp, OneContainer
    <2> QED
      BY <2>3, <2>4
  <1>6. ASSUME NEW r \in reports, ReportRead(r)
        PROVE  Reads(r)
    BY <1>6, ReportFacts DEF ReportRead, Reads
  <1>7. ASSUME NEW r \in reports, ReportWrite(r)
        PROVE  Writes(r)
    <2>1. /\ containers[r.task] \in Container /\ r.status \in Reported
          /\ containers[r.task].stop = 0 /\ IsAwaited(r) /\ r.task \in Task
      BY ReportFacts
    <2>2. containers' = [containers EXCEPT ![r.task] = AfterReport(containers[r.task], r.status)]
      BY <1>0, <1>7, <2>1 DEF ReportWrite, Answer
    <2>3. OneContainer(r.task, AfterReport(containers[r.task], r.status))
      BY <2>1, <2>2, AfterReportType, AfterReportStop DEF OneContainer
    <2> QED
      BY <1>7, <2>3 DEF ReportWrite, UpdateTask, Answer, Writes
  <1>8. ASSUME NEW r \in reports, ReportFails(r)
        PROVE  Loses(r)
    BY <1>8 DEF ReportFails, Fault, Loses
  <1> QED
    BY <1>1, <1>2, <1>3, <1>4, <1>5, <1>6, <1>7, <1>8 DEF CalmWorker

(***************************************************************************)
(* Who writes a row, and what happens to a container, in a calm step.      *)
(***************************************************************************)
RowMoved(t) ==
  \/ tasks'[t] = tasks[t]
  \/ /\ \E q \in requests : q.task = t /\ QueueWrite(q)
     /\ tasks'[t].status = "PENDING"
  \/ /\ tasks'[t].queued = tasks[t].queued
     /\ \/ disp.task = t /\ Claim /\ tasks'[t].status = "PREPARING"
        \/ disp.task = t /\ FailTask /\ tasks'[t].status = "FAILED"
        \/ \E w \in watchers :
             /\ w.task = t
             /\ \/ w.pc = "fail" /\ tasks'[t].status = "FAILED"
                \/ w.pc = "succeed" /\ tasks'[t].status = "SUCCESS"
        \/ \E r \in reports : r.task = t /\ Writes(r) /\ tasks'[t].status = r.status

LEMMA CalmRows ==
  ASSUME Calm, Known, [Next]_vars, NEW t \in Task
  PROVE  RowMoved(t)
  <1>0. tasks \in [Task -> Row] /\ tasks[t] \in Row
    BY CalmTypes DEF Known
  <1>1. CASE UNCHANGED tasks
    BY <1>1 DEF RowMoved
  <1>2. ASSUME NEW q \in requests, QueueWrite(q)
        PROVE  RowMoved(t)
    BY <1>0, <1>2 DEF QueueWrite, UpdateTask, QueuedRow, RowMoved
  <1>3. ASSUME NEW w \in watchers, MarkFailed(w) \/ MarkSuccess(w)
        PROVE  RowMoved(t)
    <2>1. CASE w.task = t
      <3>1. \/ w.pc = "fail" /\ tasks'[t] = FailedRow(tasks[t])
            \/ w.pc = "succeed" /\ tasks'[t] = SucceededRow(tasks[t])
        BY <1>0, <1>3, <2>1 DEF MarkFailed, MarkSuccess, UpdateTask
      <3>2. /\ FailedRow(tasks[t]).status = "FAILED" /\ SucceededRow(tasks[t]).status = "SUCCESS"
            /\ FailedRow(tasks[t]).queued = tasks[t].queued
            /\ SucceededRow(tasks[t]).queued = tasks[t].queued
        BY <1>0 DEF FailedRow, SucceededRow
      <3> QED
        BY <2>1, <3>1, <3>2 DEF RowMoved
    <2>2. CASE w.task # t
      BY <1>0, <1>3, <2>2 DEF MarkFailed, MarkSuccess, UpdateTask, RowMoved
    <2> QED
      BY <2>1, <2>2
  <1>4. CASE Claim
    BY <1>0, <1>4 DEF Claim, UpdateTask, ClaimedRow, RowMoved
  <1>5. CASE FailTask
    BY <1>0, <1>5 DEF FailTask, UpdateTask, FailedRow, RowMoved
  <1>6. ASSUME NEW r \in reports, Writes(r)
        PROVE  RowMoved(t)
    <2>1. CASE r.task = t
      <3>1. tasks'[t] = ReportedRow(tasks[t], r.status)
        BY <1>0, <1>6, <2>1 DEF Writes
      <3>2. tasks'[t].queued = tasks[t].queued /\ tasks'[t].status = r.status
        BY <1>0, <3>1 DEF ReportedRow
      <3> QED
        BY <1>6, <2>1, <3>2 DEF RowMoved
    <2>2. CASE r.task # t
      BY <1>0, <1>6, <2>2 DEF Writes, RowMoved
    <2> QED
      BY <2>1, <2>2
  <1>7. CASE CalmApi
    BY <1>1, <1>2, <1>7 DEF CalmApi, StartCheck, Admit
  <1>8. CASE CalmRunner
    BY <1>1, <1>3, <1>8
       DEF CalmRunner, WatcherStep, WatcherAborted, PollGone, PollExited, ReadExitCode,
           CheckGone, CheckStillActive, CheckExit0, platformVars
  <1>9. CASE CalmDispatcher
    BY <1>1, <1>4, <1>5, <1>9
       DEF CalmDispatcher, CountActive, PickNext, Return, Reload, WriteEnvFile,
           StartWorker, SecretsFail, StartFails, DispatcherAborted, platformVars
  <1>10. CASE CalmWorker
    BY <1>1, <1>6, <1>10, WorkerCases DEF Sends, GivesUp, Reads, Loses
  <1> QED
    BY <1>1, <1>7, <1>8, <1>9, <1>10, CalmSteps
       DEF DaemonAction, Reap, Restart, vars, platformVars

ContainerMoved(t) ==
  \/ containers'[t] = containers[t]
  \/ /\ StartWorker /\ disp.task = t /\ UNCHANGED tasks
     /\ containers[t].state = "none" /\ containers'[t] = FreshContainer(containers[t])
  \/ containers[t].state = "exited" /\ containers'[t] = NoContainer(containers[t])
  \/ /\ Running(t) /\ CalmWorker
     /\ containers'[t] \in Container /\ containers'[t].stop = 0
     /\ containers'[t].run = containers[t].run

LEMMA CalmContainers ==
  ASSUME Calm, Known, [Next]_vars, NEW t \in Task
  PROVE  ContainerMoved(t)
  <1>0. containers \in [Task -> Container] /\ containers[t] \in Container
    BY CalmTypes DEF Known
  <1>1. CASE UNCHANGED containers
    BY <1>1 DEF ContainerMoved
  <1>2. CASE StartWorker
    BY <1>0, <1>2 DEF StartWorker, RunContainer, CanRun, ContainerMoved
  <1>3. CASE DaemonAction
    BY <1>0, <1>3 DEF DaemonAction, Reap, ContainerMoved
  <1>4. CASE CalmWorker
    <2>1. ASSUME NEW u \in Task, NEW c \in Container, OneContainer(u, c), Running(u)
          PROVE  ContainerMoved(t)
      BY <1>0, <1>4, <2>1 DEF OneContainer, ContainerMoved
    <2>2. ASSUME NEW u \in Task, GivesUp(u)
          PROVE  ContainerMoved(t)
      <3>1. AfterReport(containers[u], containers[u].pc) \in Container
        BY <1>0, <2>2, AfterReportType DEF GivesUp
      <3> QED
        BY <2>1, <2>2, <3>1 DEF GivesUp
    <2>3. ASSUME NEW r \in reports, Writes(r)
          PROVE  ContainerMoved(t)
      <3>1. /\ AfterReport(containers[r.task], r.status) \in Container
            /\ Running(r.task) /\ r.task \in Task
        BY AfterReportType, ReportFacts
      <3> QED
        BY <2>1, <2>3, <3>1 DEF Writes
    <2> QED
      BY <1>1, <1>4, <2>1, <2>2, <2>3, WorkerCases DEF Sends, Reads, Loses
  <1> QED
    BY <1>1, <1>2, <1>3, <1>4, CalmSteps
       DEF CalmApi, CalmRunner, CalmDispatcher, Restart, vars, platformVars,
           CountActive, PickNext, Return, Claim, Reload, WriteEnvFile, FailTask,
           SecretsFail, StartFails, DispatcherAborted

(***************************************************************************)
(* The parts of CalmInv.                                                   *)
(***************************************************************************)
LEMMA RequestedStep ==
  ASSUME Calm, Known, [Next]_vars
  PROVE  Requested'
  <1>0. /\ clicks \in [Task -> [Op -> Nat]] /\ queueings \in [Task -> Nat]
        /\ requests \subseteq Request /\ Requested
    BY CalmTypes DEF Known, CalmInv
  <1>1. ASSUME NEW t \in Task
        PROVE  \/ tasks'[t].queued # 0 => tasks[t].queued # 0
               \/ \E q \in requests : q.task = t /\ QueueWrite(q)
    BY CalmRows DEF RowMoved
  <1>2. CASE \A q \in requests : ~QueueWrite(q)
    <2>1. CASE UNCHANGED <<clicks, queueings>> /\ requests' \subseteq requests
      BY <1>0, <1>1, <1>2, <2>1 DEF Requested
    <2>2. ASSUME NEW t \in Task, StartCheck(t)
          PROVE  Requested'
      <3>1. clicks[t]["start"] = 0 /\ clicks[t]["start"] \in Nat
        <4>1. clicks[t]["start"] \in Nat
          BY <1>0
        <4>2. clicks[t]["start"] < Clicks[t]["start"] /\ Clicks[t]["start"] <= 1
          BY <2>2 DEF StartCheck, Admit, Calm
        <4>3. Clicks[t]["start"] \in Nat
          BY ClicksAssumption
        <4> QED
          BY <4>1, <4>2, <4>3
      <3>2. clicks'[t]["start"] = 1 /\ \A u \in Task : u # t => clicks'[u] = clicks[u]
        BY <1>0, <2>2, <3>1 DEF StartCheck, Admit
      <3>3. queueings[t] = 0 /\ \A q \in requests : q.task # t
        BY <1>0, <3>1 DEF Requested
      <3>4. /\ queueings' = queueings /\ tasks' = tasks
            /\ requests' = requests \cup
                 {[task |-> t, op |-> "start", n |-> clicks[t]["start"], pc |-> "write",
                   now |-> clock + 1]}
        BY <2>2 DEF StartCheck, Admit
      <3>5. PICK x : /\ requests' = requests \cup {x}
                     /\ x.task = t /\ x.op = "start" /\ x.pc = "write"
        <4>1. PICK x : x = [task |-> t, op |-> "start", n |-> clicks[t]["start"],
                            pc |-> "write", now |-> clock + 1]
          OBVIOUS
        <4>2. requests' = requests \cup {x}
          BY <3>4, <4>1
        <4>3. x.task = t /\ x.op = "start" /\ x.pc = "write"
          BY <4>1
        <4> QED
          BY <4>2, <4>3
      <3>6. \A u \in Task : queueings[u] <= clicks'[u]["start"] /\ clicks'[u]["start"] <= 1
        BY <1>0, <3>2, <3>3 DEF Requested
      <3>7. \A q \in requests' : /\ q.op = "start" /\ q.pc = "write"
                                 /\ clicks'[q.task]["start"] = 1 /\ queueings[q.task] = 0
        BY <1>0, <3>2, <3>3, <3>5 DEF Requested
      <3>8. \A q, x1 \in requests' : q.task = x1.task => q = x1
        BY <1>0, <3>3, <3>5 DEF Requested
      <3>9. \A u \in Task : tasks[u].queued # 0 => queueings[u] # 0
        BY <1>0 DEF Requested
      <3> QED
        BY <3>4, <3>6, <3>7, <3>8, <3>9 DEF Requested
    <2> QED
      BY <1>2, <2>1, <2>2, CalmSteps
         DEF CalmApi, CalmRunner, CalmDispatcher, CalmWorker, DaemonAction, Restart,
             apiVars, vars
  <1>3. ASSUME NEW q \in requests, QueueWrite(q)
        PROVE  Requested'
    <2>1. /\ q.task \in Task /\ queueings[q.task] = 0 /\ clicks[q.task]["start"] = 1
          /\ clicks' = clicks /\ requests' = requests \ {q}
          /\ queueings'[q.task] = 1 /\ \A u \in Task : u # q.task => queueings'[u] = queueings[u]
      BY <1>0, <1>3 DEF QueueWrite, Requested
    <2>2. \A u \in Task : u # q.task => tasks'[u] = tasks[u]
      BY <1>3, <2>1, CalmTypes DEF QueueWrite, UpdateTask, Known
    <2>3. \A x \in requests' : x.task # q.task /\ x.task \in Task /\ x \in requests
      BY <1>0, <2>1 DEF Requested
    <2> QED
      BY <1>0, <2>1, <2>2, <2>3 DEF Requested
  <1> QED
    BY <1>2, <1>3

\* Nothing is written to the row that the dispatcher has in hand but by it.
LEMMA HeldRow ==
  ASSUME Calm, Known, [Next]_vars, disp.task \in Task, ~Claim, ~FailTask
  PROVE  tasks'[disp.task].status = tasks[disp.task].status
  <1>1. containers[disp.task].run = 0 /\ ~Running(disp.task) /\ queueings[disp.task] # 0
    BY OneRun
  <1>2. \A q \in requests : queueings[q.task] = 0
    BY DEF Known, CalmInv, Requested
  <1>3. \A w \in watchers : containers[w.task].run # 0
    BY DEF Known, CalmInv, Watched
  <1>4. \A r \in reports : Running(r.task)
    BY DEF Known, CalmInv, Awaited
  <1> QED
    BY <1>1, <1>2, <1>3, <1>4, CalmRows DEF RowMoved

LEMMA RowsStep ==
  ASSUME Calm, Known, [Next]_vars
  PROVE  Rows'
  <1> SUFFICES ASSUME NEW t \in Task
               PROVE  /\ tasks'[t].status # "CANCELLED"
                      /\ Running(t)' => tasks'[t].status \in Active
                      /\ containers'[t].run = 0 => containers'[t].state = "none"
                      /\ containers'[t].stop = 0
    BY DEF Rows
  <1>0. /\ tasks[t].status # "CANCELLED"
        /\ Running(t) => tasks[t].status \in Active
        /\ containers[t].run = 0 => containers[t].state = "none" /\ ~Running(t)
        /\ containers[t].stop = 0 /\ containers[t] \in Container
        /\ containers \in [Task -> Container]
    BY CalmTypes DEF Known, CalmInv, Rows, Running
  <1>1. tasks'[t].status # "CANCELLED"
    <2>1. \A r \in reports : r.status # "CANCELLED"
      <3> SUFFICES ASSUME NEW r \in reports PROVE r.status # "CANCELLED"
        OBVIOUS
      <3>1. r.status \in MainPosts
        BY ReportFacts
      <3> QED
        BY <3>1
    <2> QED
      BY <1>0, <2>1, CalmRows DEF RowMoved
  <1>2. Running(t)' => tasks'[t].status \in Active
    <2> SUFFICES ASSUME Running(t)' PROVE tasks'[t].status \in Active
      OBVIOUS
    <2>1. CASE StartWorker /\ disp.task = t
      <3>1. tasks' = tasks /\ tasks[t].status = "PREPARING"
        BY <2>1 DEF StartWorker, At, Known, CalmInv, InHands
      <3> QED
        BY <3>1
    <2>2. CASE ~(StartWorker /\ disp.task = t)
      <3>1. Running(t)
        BY <2>2, ContainerRuns DEF Known
      <3>2. disp.task # t /\ queueings[t] # 0
        BY <3>1, OneRun
      <3>3. \A q \in requests : q.task # t
        BY <3>2 DEF Known, CalmInv, Requested
      <3>4. \A w \in watchers : w.task = t => w.pc = "poll"
        BY <3>1 DEF Known, CalmInv, Watched
      <3>5. ASSUME NEW r \in reports, r.task = t, Writes(r)
            PROVE  r.status \in Active
        <4>1. r.status \in MainPosts
          BY ReportFacts
        <4>2. containers'[t] = AfterReport(containers[t], r.status)
          BY <1>0, <3>5 DEF Writes, OneContainer
        <4> QED
          BY <4>1, <4>2 DEF AfterReport, ExitedContainer, Running
      <3> QED
        BY <1>0, <3>1, <3>2, <3>3, <3>4, <3>5, CalmRows DEF RowMoved
    <2> QED
      BY <2>1, <2>2
  <1>3. /\ containers'[t].run = 0 => containers'[t].state = "none"
        /\ containers'[t].stop = 0
    <2>1. CASE containers'[t] = containers[t]
      BY <1>0, <2>1
    <2>2. CASE containers'[t] = FreshContainer(containers[t])
      BY <1>0, <2>2 DEF FreshContainer
    <2>3. CASE containers'[t] = NoContainer(containers[t])
      BY <1>0, <2>3 DEF NoContainer
    <2>4. CASE Running(t) /\ containers'[t].stop = 0 /\ containers'[t].run = containers[t].run
      BY <1>0, <2>4
    <2> QED
      BY <2>1, <2>2, <2>3, <2>4, CalmContainers DEF ContainerMoved
  <1> QED
    BY <1>1, <1>2, <1>3

LEMMA DispatcherGoes ==
  ASSUME disp \in DispatcherState
  PROVE  /\ GoNext => disp'.pc = "next" /\ disp'.task = NoTask /\ disp'.active = disp.active
         /\ GoIdle => disp'.pc = "idle" /\ disp'.task = NoTask /\ disp'.active = 0
         /\ \A pc : GoTo(pc) => /\ disp'.pc = pc /\ disp'.task = disp.task
                               /\ disp'.active = disp.active
  <1>1. GoNext => disp'.pc = "next" /\ disp'.task = NoTask /\ disp'.active = disp.active
    BY DEF GoNext
  <1>2. GoIdle => disp'.pc = "idle" /\ disp'.task = NoTask /\ disp'.active = 0
    BY DEF GoIdle
  <1>3. ASSUME NEW pc, GoTo(pc)
        PROVE  disp'.pc = pc /\ disp'.task = disp.task /\ disp'.active = disp.active
    BY <1>3 DEF GoTo
  <1> QED
    BY <1>1, <1>2, <1>3

LEMMA InHandsStep ==
  ASSUME Calm, Known, [Next]_vars
  PROVE  InHands'
  <1>0. /\ disp \in DispatcherState /\ InHands
        /\ disp.pc \in InHand => disp.task \in Task
    BY CalmTypes DEF Known, CalmInv, InHand
  <1>1. CASE disp' = disp
    <2>1. ~Claim /\ ~FailTask /\ ~StartWorker
      <3>1. ~Claim
        BY <1>0, <1>1 DEF Claim, GoTo, At
      <3>2. ~FailTask
        BY <1>0, <1>1 DEF FailTask, GoNext, At
      <3>3. ~StartWorker
        BY <1>1 DEF StartWorker, At
      <3> QED
        BY <3>1, <3>2, <3>3
    <2>2. disp.pc \in InHand =>
            /\ tasks'[disp.task].status = tasks[disp.task].status
            /\ containers'[disp.task].run = containers[disp.task].run
      BY <1>0, <2>1, HeldRow, ContainerRuns DEF Known
    <2>3. disp.pc = "run" => disp.task \in envFiles'
      <3>1. CASE UNCHANGED envFiles
        BY <1>0, <3>1 DEF InHands
      <3>2. CASE CalmDispatcher
        BY <1>0, <1>1, <2>1, <3>1, <3>2
           DEF CalmDispatcher, CountActive, PickNext, Return, Reload, WriteEnvFile,
               SecretsFail, StartFails, DispatcherAborted, platformVars, At, GoTo, GoNext,
               GoIdle
      <3> QED
        BY <3>1, <3>2, CalmSteps
           DEF CalmApi, CalmRunner, CalmWorker, DaemonAction, Reap, Restart, platformVars, vars
    <2> QED
      BY <1>0, <1>1, <2>2, <2>3 DEF InHands, InHand
  <1>2. CASE Restart
    BY <1>2 DEF Restart, GoIdle, InHands
  <1>3. CASE CalmDispatcher
    <2>1. CASE CountActive \/ Return \/ FailTask \/ DispatcherAborted
      <3>1. GoNext \/ GoIdle => disp'.pc \in {"idle", "next"} /\ disp'.task = NoTask
        BY <1>0, DispatcherGoes
      <3>2. CountActive => disp'.pc \in {"idle", "next"} /\ disp'.task = NoTask
        BY <1>0 DEF CountActive, InHands, At
      <3>3. disp'.pc \in {"idle", "next"} /\ disp'.task = NoTask
        BY <2>1, <3>1, <3>2 DEF Return, FailTask, DispatcherAborted
      <3> QED
        BY <3>3 DEF InHands
    <2>2. CASE StartWorker
      BY <2>2 DEF StartWorker, InHands
    <2>3. CASE PickNext
      BY <1>0, <2>3 DEF PickNext, InHands, Queue, IsQueued, platformVars
    <2>4. CASE Claim
      <3>1. disp.task \in Task /\ disp'.pc = "reload" /\ disp'.task = disp.task
        BY <1>0, <2>4 DEF Claim, At, GoTo, InHand
      <3>2. tasks'[disp.task].status = "PREPARING"
        BY <2>4, <3>1, CalmTypes DEF Claim, UpdateTask, ClaimedRow, Known
      <3> QED
        BY <3>1, <3>2 DEF InHands
    <2>5. CASE Reload
      BY <1>0, <2>5 DEF Reload, At, GoTo, GoNext, InHands, platformVars
    <2>6. CASE WriteEnvFile
      BY <1>0, <2>6 DEF WriteEnvFile, At, GoTo, InHands
    <2>7. CASE SecretsFail \/ StartFails
      <3>1. /\ disp.pc \in {"claim", "env", "run"} /\ disp'.pc = "fail"
            /\ disp'.task = disp.task /\ UNCHANGED <<tasks, containers>>
        BY <1>0, <2>7 DEF SecretsFail, StartFails, At, GoTo
      <3>2. containers[disp.task].run = 0
        BY <1>0, <3>1, OneRun DEF InHand
      <3> QED
        BY <1>0, <3>1, <3>2 DEF InHands
    <2> QED
      BY <1>3, <2>1, <2>2, <2>3, <2>4, <2>5, <2>6, <2>7 DEF CalmDispatcher
  <1> QED
    BY <1>1, <1>2, <1>3, CalmSteps DEF CalmApi, CalmRunner, CalmWorker, DaemonAction, vars

LEMMA WatchedStep ==
  ASSUME Calm, Known, [Next]_vars
  PROVE  Watched'
  <1>0. watchers \subseteq Watcher /\ containers \in [Task -> Container] /\ Watched
    BY CalmTypes DEF Known, CalmInv
  <1> SUFFICES ASSUME NEW w \in watchers'
               PROVE  /\ containers'[w.task].run # 0
                      /\ w.pc # "poll" => ~Running(w.task)'
    BY DEF Watched
  <1>1. CASE StartWorker
    <2>1. /\ disp.task \in Task /\ containers[disp.task].run = 0
          /\ containers' = [containers EXCEPT ![disp.task] = FreshContainer(containers[disp.task])]
      BY <1>1, CalmTypes, OneRun DEF StartWorker, At, RunContainer, Known
    <2>2. CASE w \in watchers
      <3>1. w.task # disp.task /\ w.task \in Task
        BY <1>0, <2>1, <2>2 DEF Watched
      <3> QED
        BY <1>0, <2>1, <2>2, <3>1 DEF Watched, Running
    <2>3. CASE w \notin watchers
      <3>1. w.task = disp.task /\ w.pc = "poll"
        BY <1>1, <2>3 DEF StartWorker, RunContainer
      <3>2. containers'[w.task].run = containers[disp.task].run + 1
        BY <1>0, <2>1, <3>1 DEF FreshContainer
      <3> QED
        BY <1>0, <2>1, <3>1, <3>2
    <2> QED
      BY <2>2, <2>3
  <1>2. CASE ~StartWorker
    <2>1. ASSUME NEW t \in Task
          PROVE  containers'[t].run = containers[t].run /\ (Running(t)' => Running(t))
      BY <1>2, ContainerRuns DEF Known
    <2>2. CASE w \in watchers
      BY <1>0, <2>1, <2>2 DEF Watched
    <2>3. CASE w \notin watchers
      <3>1. PICK x \in watchers : WatcherStep(x) \/ WatcherAborted(x)
        BY <1>2, <2>3, CalmSteps
           DEF CalmApi, CalmRunner, CalmDispatcher, CalmWorker, DaemonAction, Restart, vars,
               CountActive, PickNext, Return, Claim, Reload, WriteEnvFile, FailTask,
               SecretsFail, StartFails, DispatcherAborted
      <3>2. w.task = x.task /\ (x.pc = "poll" => containers[x.task].state # "running")
        <4>1. \E pc : w = [x EXCEPT !.pc = pc]
          BY <2>3, <3>1 DEF WatcherStep, WatcherAborted, PollGone, PollExited, ReadExitCode,
               CheckGone, CheckStillActive, MarkFailed, CheckExit0, MarkSuccess, Move, Stop
        <4>2. x.pc = "poll" => containers[x.task].state # "running"
          BY <3>1 DEF WatcherStep, WatcherAborted, PollGone, PollExited, ReadExitCode,
               CheckGone, CheckStillActive, MarkFailed, CheckExit0, MarkSuccess
        <4>3. w.task = x.task
          BY <1>0, <4>1
        <4> QED
          BY <4>2, <4>3
      <3> QED
        BY <1>0, <2>1, <3>1, <3>2 DEF Watched, Running
    <2> QED
      BY <2>2, <2>3
  <1> QED
    BY <1>1, <1>2

LEMMA AwaitedStep ==
  ASSUME Calm, Known, [Next]_vars
  PROVE  Awaited'
  <1> DEFINE Own(r) == /\ Running(r.task) /\ containers[r.task].run = r.run
                       /\ containers[r.task].pc = r.status /\ r.waiting = TRUE
  <1>0. /\ reports \subseteq Report /\ containers \in [Task -> Container]
        /\ \A r \in reports : r.task \in Task /\ Own(r)
        /\ \A r, x \in reports : r.task = x.task => r = x
    BY CalmTypes DEF Known, CalmInv, Awaited
  <1> SUFFICES /\ \A r \in reports' : Own(r)'
               /\ \A r, x \in reports' : r.task = x.task => r = x
    BY DEF Awaited
  <1>1. CASE CalmWorker
    <2>1. ASSUME NEW t \in Task, Sends(t)
          PROVE  /\ \A r \in reports' : Own(r)'
                 /\ \A r, x \in reports' : r.task = x.task => r = x
      <3>1. PICK c \in Container, status \in MainPosts, try \in Nat :
              /\ OneContainer(t, c) /\ c.state = "running" /\ c.pc = status
              /\ reports' = reports \cup
                   {[task |-> t, run |-> containers[t].run, status |-> status, try |-> try,
                     pc |-> "read", waiting |-> TRUE]}
        BY <2>1 DEF Sends
      <3>2. PICK x : x = [task |-> t, run |-> containers[t].run, status |-> status,
                          try |-> try, pc |-> "read", waiting |-> TRUE]
        OBVIOUS
      <3>3. /\ reports' = reports \cup {x} /\ x.task = t /\ x.run = containers[t].run
            /\ x.status = status /\ x.waiting = TRUE
        BY <3>1, <3>2
      <3>4. /\ containers'[t] = c /\ c.run = containers[t].run
            /\ \A u \in Task : u # t => containers'[u] = containers[u]
        BY <1>0, <3>1 DEF OneContainer
      <3>5. \A r \in reports : r.task # t
        BY <2>1 DEF Sends
      <3>6. Own(x)'
        BY <3>1, <3>3, <3>4 DEF Running
      <3>7. \A r \in reports : Own(r)'
        BY <1>0, <3>4, <3>5 DEF Running
      <3> QED
        BY <1>0, <3>3, <3>5, <3>6, <3>7
    <2>2. ASSUME NEW t \in Task, GivesUp(t)
          PROVE  \A r \in reports' : r \in reports /\ Own(r)'
      BY <1>0, <2>2 DEF GivesUp, OneContainer, Running
    <2>3. ASSUME NEW r \in reports, Reads(r)
          PROVE  /\ \A x \in reports' : Own(x)'
                 /\ \A x, y \in reports' : x.task = y.task => x = y
      <3>1. PICK x : x = [r EXCEPT !.pc = "write"]
        OBVIOUS
      <3>2. /\ x.task = r.task /\ x.run = r.run /\ x.status = r.status
            /\ x.waiting = r.waiting
        BY <1>0, <3>1
      <3>3. reports' = (reports \ {r}) \cup {x} /\ containers' = containers
        BY <2>3, <3>1 DEF Reads
      <3> QED
        BY <1>0, <3>2, <3>3 DEF Running
    <2>4. ASSUME NEW r \in reports, Writes(r)
          PROVE  \A x \in reports' : x \in reports /\ Own(x)'
      BY <1>0, <2>4 DEF Writes, OneContainer, Running
    <2>5. ASSUME NEW r \in reports, Loses(r)
          PROVE  \A x \in reports' : x \in reports /\ Own(x)'
      BY <1>0, <2>5 DEF Loses, Running
    <2> HIDE DEF Own
    <2> QED
      BY <1>0, <1>1, <2>1, <2>2, <2>3, <2>4, <2>5, WorkerCases
  <1>2. CASE ~CalmWorker
    <2>1. reports' \subseteq reports
      BY <1>2, CalmSteps
         DEF CalmApi, CalmRunner, CalmDispatcher, DaemonAction, Restart, workerVars, vars
    <2>2. ASSUME NEW r \in reports'
          PROVE  Own(r)'
      <3>1. r \in reports /\ r.task \in Task /\ Own(r)
        BY <1>0, <2>1
      <3>2. containers[r.task].state = "running" /\ containers[r.task] \in Container
        BY <1>0, <3>1 DEF Running
      <3>3. containers'[r.task] = containers[r.task]
        BY <1>2, <3>1, <3>2, CalmContainers DEF ContainerMoved
      <3> QED
        BY <3>1, <3>3 DEF Running
    <2> QED
      BY <1>0, <2>1, <2>2
  <1> QED
    BY <1>1, <1>2

LEMMA CalmInit == Init => CalmInv
  <1> SUFFICES ASSUME Init PROVE CalmInv
    OBVIOUS
  <1>1. Requested
    BY DEF Init, PlatformInit, ApiInit, NewRow, Requested
  <1>2. Rows
    BY DEF Init, PlatformInit, NewRow, Rows, Running
  <1>3. InHands
    BY DEF Init, DispatcherInit, InHands
  <1>4. Awaited /\ Watched
    BY DEF Init, RunnerInit, WorkerInit, Awaited, Watched
  <1> QED
    BY <1>1, <1>2, <1>3, <1>4 DEF CalmInv

LEMMA KnownInit == Init => Known
  <1>1. Init => QueuedInv
    BY DEF Init, PlatformInit, ApiInit, RunnerInit, DispatcherInit, WorkerInit, NewRow,
           QueuedInv, NothingRunsUnqueued, Running
  <1> QED
    BY <1>1, InitType, CalmInit, LaunchInit DEF Known

LEMMA KnownStep ==
  ASSUME Calm, Known, [Next]_vars
  PROVE  Known'
  <1>1. TypeOK' /\ QueuedInv' /\ LaunchInv'
    BY NextType, QueuedStep, LaunchStep DEF Known
  <1>2. CalmInv'
    BY RequestedStep, RowsStep, InHandsStep, AwaitedStep, WatchedStep DEF CalmInv
  <1> QED
    BY <1>1, <1>2 DEF Known

(***************************************************************************)
(* The limit on active tasks.  The dispatcher counts the active rows once  *)
(* and then counts the workers it starts, and nobody else activates a row. *)
(* Its count falls short by a task that it has claimed and not started, as *)
(* long as that row stays active: one call failed before it came to that,  *)
(* and a second one when it could not mark the row FAILED.                 *)
(***************************************************************************)
Others == ActiveTasks \ {disp.task}

LimitInv ==
  /\ 2 * Cardinality(ActiveTasks) <= 2 * MaxConcurrent + faults
  /\ disp.pc # "idle" => 2 * Cardinality(Others) <= 2 * disp.active + faults
  /\ disp.pc = "fail" /\ disp.task \in ActiveTasks =>
       2 * Cardinality(Others) + 1 <= 2 * disp.active + faults
  /\ disp.pc \in InHand => disp.active < MaxConcurrent

LEMMA TaskSets ==
  ASSUME NEW S \in SUBSET Task
  PROVE  /\ IsFiniteSet(S) /\ Cardinality(S) \in Nat
         /\ \A R \in SUBSET S : IsFiniteSet(R) /\ Cardinality(R) <= Cardinality(S)
         /\ \A t \in Task : /\ t \notin S => Cardinality(S \cup {t}) = Cardinality(S) + 1
                           /\ t \in S => Cardinality(S) = Cardinality(S \ {t}) + 1
  <1>1. IsFiniteSet(S) /\ Cardinality(S) \in Nat
    BY TaskAssumption, FS_Subset, FS_CardinalityType
  <1>2. \A R \in SUBSET S : IsFiniteSet(R) /\ Cardinality(R) <= Cardinality(S)
    BY <1>1, FS_Subset
  <1>3. \A t \in Task : t \notin S => Cardinality(S \cup {t}) = Cardinality(S) + 1
    BY <1>1, FS_AddElement
  <1>4. ASSUME NEW t \in S
        PROVE  Cardinality(S) = Cardinality(S \ {t}) + 1
    <2>1. IsFiniteSet(S \ {t}) /\ S = (S \ {t}) \cup {t} /\ t \notin S \ {t}
      BY <1>1, FS_Subset
    <2> QED
      BY <2>1, FS_AddElement
  <1> QED
    BY <1>1, <1>2, <1>3, <1>4

\* Only the claim activates a row.
LEMMA ActiveMoves ==
  ASSUME Calm, Known, [Next]_vars
  PROVE  /\ ~Claim => ActiveTasks' \subseteq ActiveTasks
         /\ Claim => /\ disp.task \in Task \ ActiveTasks
                     /\ ActiveTasks' = ActiveTasks \cup {disp.task}
  <1>1. ASSUME ~Claim, NEW t \in Task, tasks'[t].status \in Active
        PROVE  tasks[t].status \in Active
    <2>1. \A r \in reports : tasks[r.task].status \in Active
      BY ReportFacts
    <2> QED
      BY <1>1, <2>1, CalmRows DEF RowMoved
  <1>2. CASE Claim
    <2>1. disp.task \in Task /\ tasks[disp.task].status = "PENDING" /\ tasks \in [Task -> Row]
      BY <1>2, CalmTypes DEF Claim, At, Known, CalmInv, InHands
    <2>2. /\ tasks'[disp.task].status = "PREPARING"
          /\ \A t \in Task : t # disp.task => tasks'[t] = tasks[t]
      BY <1>2, <2>1 DEF Claim, UpdateTask, ClaimedRow
    <2> QED
      BY <1>2, <2>1, <2>2 DEF ActiveTasks
  <1> QED
    BY <1>1, <1>2 DEF ActiveTasks

LEMMA FaultsMove ==
  ASSUME Calm, Known, [Next]_vars
  PROVE  faults \in Nat /\ faults' \in Nat /\ faults <= faults' /\ faults' <= faults + 1
  <1>1. faults \in Nat
    BY CalmTypes DEF Known
  <1>2. faults' = faults \/ faults' = faults + 1
    <2>1. CASE CalmWorker
      BY <2>1, WorkerCases DEF Sends, GivesUp, Reads, Writes, Loses
    <2>2. CASE ~CalmWorker
      BY <2>2, CalmSteps
         DEF CalmApi, CalmRunner, CalmDispatcher, DaemonAction, Reap, Restart, vars,
             platformVars, WatcherStep, WatcherAborted, PollGone, PollExited, ReadExitCode,
             CheckGone, CheckStillActive, MarkFailed, CheckExit0, MarkSuccess, CountActive,
             PickNext, Return, Claim, Reload, WriteEnvFile, StartWorker, FailTask,
             SecretsFail, StartFails, DispatcherAborted, Fault
    <2> QED
      BY <2>1, <2>2
  <1> QED
    BY <1>1, <1>2

LEMMA LimitStep ==
  ASSUME Calm, Known, LimitInv, [Next]_vars
  PROVE  LimitInv'
  <1>0. /\ disp \in DispatcherState /\ InHands
        /\ disp.pc \in InHand => disp.task \in Task
        /\ NoTask \notin Task
    BY CalmTypes, NoTaskAssumption DEF Known, CalmInv, InHand
  <1>1. /\ faults \in Nat /\ faults' \in Nat /\ faults <= faults' /\ MaxConcurrent \in Nat
        /\ disp.active \in Nat
    BY <1>0, FaultsMove, MaxConcurrentAssumption
  <1>2. ActiveTasks \in SUBSET Task /\ Others \in SUBSET ActiveTasks /\ Others \in SUBSET Task
    BY DEF ActiveTasks, Others
  <1>3. Cardinality(ActiveTasks) \in Nat /\ Cardinality(Others) \in Nat
    BY <1>2, TaskSets
  <1>4. /\ disp.task \notin ActiveTasks => Others = ActiveTasks
        /\ disp.task \in ActiveTasks => Cardinality(ActiveTasks) = Cardinality(Others) + 1
    BY <1>2, TaskSets DEF Others
  <1>5. ~Claim => /\ ActiveTasks' \in SUBSET ActiveTasks /\ Cardinality(ActiveTasks') \in Nat
                  /\ Cardinality(ActiveTasks') <= Cardinality(ActiveTasks)
    <2> SUFFICES ASSUME ~Claim
                 PROVE  /\ ActiveTasks' \in SUBSET ActiveTasks /\ Cardinality(ActiveTasks') \in Nat
                        /\ Cardinality(ActiveTasks') <= Cardinality(ActiveTasks)
      OBVIOUS
    <2>1. ActiveTasks' \in SUBSET ActiveTasks /\ ActiveTasks' \in SUBSET Task
      BY <1>2, ActiveMoves
    <2> QED
      BY <1>2, <2>1, TaskSets
  <1>6. ~Claim => 2 * Cardinality(ActiveTasks') <= 2 * MaxConcurrent + faults'
    BY <1>1, <1>3, <1>5 DEF LimitInv
  <1>7. CASE disp' = disp \/ Restart
    <2>1. CASE Restart
      <3>1. disp'.pc = "idle" /\ ~Claim
        BY <1>0, <2>1, DispatcherGoes DEF Restart, Claim, At, GoTo
      <3> QED
        BY <1>6, <3>1 DEF LimitInv, InHand
    <2>2. CASE disp' = disp
      <3>1. ~Claim
        BY <1>0, <2>2, DispatcherGoes DEF Claim, At
      <3>2. Others' \in SUBSET Others
        BY <1>5, <2>2, <3>1 DEF Others
      <3>3. Cardinality(Others') \in Nat /\ Cardinality(Others') <= Cardinality(Others)
        BY <1>2, <3>2, TaskSets
      <3>4. disp.task \in ActiveTasks' => disp.task \in ActiveTasks
        BY <1>5, <3>1
      <3> QED
        BY <1>1, <1>3, <1>6, <2>2, <3>1, <3>3, <3>4 DEF LimitInv
    <2> QED
      BY <1>7, <2>1, <2>2
  <1>8. CASE CalmDispatcher
    <2>1. CASE CountActive
      <3>1. /\ disp'.pc = "next" /\ disp'.active = Cardinality(ActiveTasks)
            /\ disp'.task = NoTask /\ ~Claim
        BY <1>0, <2>1 DEF CountActive, At, InHands, Claim
      <3>2. Others' = ActiveTasks'
        BY <1>0, <1>2, <1>5, <3>1 DEF Others
      <3> QED
        BY <1>1, <1>3, <1>5, <1>6, <3>1, <3>2 DEF LimitInv, InHand
    <2>2. CASE PickNext
      <3>1. PICK t \in Queue : disp' = [disp EXCEPT !.pc = "claim", !.task = t]
        BY <2>2 DEF PickNext
      <3>2. /\ disp.pc = "next" /\ disp'.pc = "claim" /\ disp'.active = disp.active /\ disp'.task = t
            /\ disp.active < MaxConcurrent /\ ~Claim /\ disp.task = NoTask
            /\ UNCHANGED <<tasks, faults>>
        BY <1>0, <2>2, <3>1 DEF PickNext, At, InHands, Claim, platformVars
      <3>3. t \notin ActiveTasks /\ ActiveTasks' = ActiveTasks
        BY <3>2 DEF Queue, IsQueued, ActiveTasks
      <3>4. Others' = ActiveTasks /\ Others = ActiveTasks
        BY <1>0, <1>2, <3>2, <3>3 DEF Others
      <3> QED
        BY <1>1, <1>3, <1>6, <3>2, <3>4 DEF LimitInv, InHand
    <2>3. CASE Return \/ (DispatcherAborted /\ disp.pc # "fail")
      <3>1. disp'.pc = "idle" /\ ~Claim
        BY <1>0, <2>3, DispatcherGoes DEF Return, DispatcherAborted, At, Claim
      <3> QED
        BY <1>6, <3>1 DEF LimitInv, InHand
    <2>4. CASE Claim
      <3>1. /\ disp.pc = "claim" /\ disp'.pc = "reload" /\ disp'.task = disp.task
            /\ disp'.active = disp.active /\ faults' = faults
        BY <1>0, <2>4, DispatcherGoes DEF Claim, At
      <3>2. /\ disp.task \in Task \ ActiveTasks
            /\ ActiveTasks' = ActiveTasks \cup {disp.task}
        BY <2>4, ActiveMoves
      <3>3. Others' = ActiveTasks /\ Others = ActiveTasks
        BY <3>1, <3>2 DEF Others
      <3>4. Cardinality(ActiveTasks') = Cardinality(ActiveTasks) + 1
        BY <1>2, <3>2, TaskSets
      <3>5. /\ 2 * Cardinality(ActiveTasks) <= 2 * disp.active + faults
            /\ disp.active < MaxConcurrent
        BY <3>1, <3>3 DEF LimitInv, InHand
      <3>6. 2 * Cardinality(ActiveTasks') <= 2 * MaxConcurrent + faults'
        BY <1>1, <1>3, <3>1, <3>4, <3>5
      <3> QED
        BY <1>1, <3>1, <3>3, <3>5, <3>6 DEF LimitInv
    <2>5. CASE Reload \/ WriteEnvFile
      <3>1. /\ disp.pc \in {"reload", "env"} /\ disp'.pc \in {"env", "run"} /\ disp'.task = disp.task
            /\ disp'.active = disp.active /\ UNCHANGED <<tasks, faults>> /\ ~Claim
        <4>1. Reload => tasks[disp.task].status = "PREPARING"
          BY <1>0 DEF Reload, At, InHands
        <4> QED
          BY <1>0, <2>5, <4>1, DispatcherGoes DEF Reload, WriteEnvFile, At, Claim, platformVars
      <3>2. Others' = Others
        BY <3>1 DEF Others, ActiveTasks
      <3> QED
        BY <1>1, <1>3, <1>6, <3>1, <3>2 DEF LimitInv, InHand
    <2>6. CASE StartWorker
      <3>1. /\ disp.pc = "run" /\ disp'.pc = "next" /\ disp'.task = NoTask
            /\ disp'.active = disp.active + 1 /\ ~Claim
        BY <2>6 DEF StartWorker, At, Claim
      <3>2. Others' = ActiveTasks'
        BY <1>0, <1>2, <1>5, <3>1 DEF Others
      <3>3. Cardinality(ActiveTasks) <= Cardinality(Others) + 1
        BY <1>3, <1>4
      <3>4. 2 * Cardinality(Others') <= 2 * disp'.active + faults'
        BY <1>1, <1>3, <1>5, <3>1, <3>2, <3>3 DEF LimitInv
      <3> QED
        BY <1>6, <3>1, <3>4 DEF LimitInv, InHand
    <2>7. CASE SecretsFail \/ StartFails
      <3>1. /\ disp.pc \in {"claim", "env", "run"} /\ disp'.pc = "fail" /\ disp'.task = disp.task
            /\ disp'.active = disp.active /\ UNCHANGED tasks /\ ~Claim /\ faults' = faults + 1
        BY <1>0, <2>7, DispatcherGoes DEF SecretsFail, StartFails, At, Claim, Fault
      <3>2. Others' = Others
        BY <3>1 DEF Others, ActiveTasks
      <3> QED
        BY <1>1, <1>3, <1>6, <3>1, <3>2 DEF LimitInv, InHand
    <2>8. CASE FailTask \/ (DispatcherAborted /\ disp.pc = "fail")
      <3>1. /\ disp.pc = "fail" /\ disp'.pc = "next" /\ disp'.task = NoTask
            /\ disp'.active = disp.active /\ ~Claim
        BY <1>0, <2>8, DispatcherGoes DEF FailTask, DispatcherAborted, At, Claim
      <3>2. Others' = ActiveTasks'
        BY <1>0, <1>2, <1>5, <3>1 DEF Others
      <3>3. 2 * Cardinality(ActiveTasks') <= 2 * disp.active + faults'
        <4>1. CASE FailTask
          <5>1. disp.task \notin ActiveTasks'
            <6>1. tasks'[disp.task].status = "FAILED"
              BY <1>0, <3>1, <4>1, CalmTypes DEF FailTask, UpdateTask, FailedRow, Known, InHand
            <6> QED
              BY <6>1 DEF ActiveTasks
          <5>2. ActiveTasks' \in SUBSET Others
            BY <1>5, <3>1, <5>1 DEF Others
          <5>3. Cardinality(ActiveTasks') <= Cardinality(Others)
            BY <1>2, <5>2, TaskSets
          <5> QED
            BY <1>1, <1>3, <1>5, <3>1, <5>3 DEF LimitInv
        <4>2. CASE DispatcherAborted
          <5>1. faults' = faults + 1
            BY <4>2 DEF DispatcherAborted, Fault
          <5>2. CASE disp.task \in ActiveTasks
            <6>1. 2 * Cardinality(Others) + 1 <= 2 * disp.active + faults
              BY <3>1, <5>2 DEF LimitInv
            <6> QED
              BY <1>1, <1>3, <1>4, <1>5, <3>1, <5>1, <5>2, <6>1
          <5>3. CASE disp.task \notin ActiveTasks
            <6>1. 2 * Cardinality(ActiveTasks) <= 2 * disp.active + faults
              BY <1>4, <3>1, <5>3 DEF LimitInv
            <6> QED
              BY <1>1, <1>3, <1>5, <3>1, <5>1, <6>1
          <5> QED
            BY <5>2, <5>3
        <4> QED
          BY <2>8, <4>1, <4>2
      <3> QED
        BY <1>6, <3>1, <3>2, <3>3 DEF LimitInv, InHand
    <2> QED
      BY <1>8, <2>1, <2>2, <2>3, <2>4, <2>5, <2>6, <2>7, <2>8 DEF CalmDispatcher
  <1> QED
    BY <1>7, <1>8, CalmSteps DEF CalmApi, CalmRunner, CalmWorker, DaemonAction, vars

LEMMA LimitInit == Init => LimitInv
  <1> SUFFICES ASSUME Init PROVE LimitInv
    OBVIOUS
  <1>1. ActiveTasks = {} /\ faults = 0 /\ disp.pc = "idle"
    BY DEF Init, PlatformInit, DispatcherInit, ActiveTasks, NewRow
  <1>2. Cardinality(ActiveTasks) = 0
    BY <1>1, FS_EmptySet
  <1> QED
    BY <1>1, <1>2, MaxConcurrentAssumption DEF LimitInv, InHand

InBudget == faults <= MaxFaults

LEMMA FaultsBounded ==
  ASSUME Known, [Next]_vars, InBudget
  PROVE  InBudget'
  <1> SUFFICES faults' <= MaxFaults
    BY DEF InBudget
  <1> USE DEF InBudget
  <1>1. faults \in Nat /\ MaxFaults \in Nat
    BY CalmTypes, MaxFaultsAssumption DEF Known
  <1>2. ASSUME NEW kind, Fault(kind) PROVE faults' <= MaxFaults
    BY <1>1, <1>2 DEF Fault
  <1>3. CASE faults' = faults
    BY <1>3
  <1>4. CASE ApiAction
    BY <1>2, <1>3, <1>4
       DEF ApiAction, ApiNext, StartCheck, CancelCheck, RetryCheck, Admit, RequestStep,
           QueueWrite, CancelWrite, CancelRemove, CancelRemoveEnv, RequestAborted,
           CancelRemoveFails
  <1>5. CASE RunnerAction
    BY <1>2, <1>3, <1>5
       DEF RunnerAction, RunnerNext, WatcherStep, WatcherFault, PollGone, PollExited,
           ReadExitCode, CheckGone, CheckStillActive, CheckExit0, MarkFailed, MarkSuccess,
           PollHiccup, ExitCodeHiccup, WatchExpires, WatcherAborted, platformVars
  <1>6. CASE DispatcherAction
    BY <1>2, <1>3, <1>6
       DEF DispatcherAction, DispatcherNext, DispatcherStep, CountActive, PickNext, Return,
           Claim, Reload, WriteEnvFile, StartWorker, StartRefused, FailTask, SecretsFail,
           StartFails, DispatcherAborted, platformVars
  <1>7. CASE WorkerAction
    BY <1>2, <1>3, <1>7
       DEF WorkerAction, WorkerNext, ProcessStep, ReportStep, Boot, Preflight, Migrate,
           MainReports, Retry, RetryStop, FetchFails, Sigterm, Crash, ReportRead,
           ReportWrite, ReportFails, ReportTimesOut, ReportDropped, platformVars
  <1> QED
    BY <1>3, <1>4, <1>5, <1>6, <1>7 DEF Next, DaemonAction, Reap, Restart, vars, platformVars

\* A slot over the limit costs two failed calls, whatever the number of tasks
\* and however often the backend restarts.
THEOREM SlotsCostFaults ==
  ASSUME Calm
  PROVE  Spec => [](2 * Cardinality(ActiveTasks) <= 2 * MaxConcurrent + faults)
  <1>2. Known /\ LimitInv /\ [Next]_vars => Known' /\ LimitInv'
    BY KnownStep, LimitStep
  <1>3. LimitInv => 2 * Cardinality(ActiveTasks) <= 2 * MaxConcurrent + faults
    BY DEF LimitInv
  <1> QED
    BY <1>2, <1>3, LimitInit, KnownInit, PTL DEF Spec

\* README: migrations beyond the limit wait in the queue.  One failed call
\* does not break this.
THEOREM LimitCorrect ==
  ASSUME Calm, MaxFaults <= 1
  PROVE  Spec => []ActiveWithinLimit
  <1>1. Known /\ LimitInv /\ InBudget /\ [Next]_vars
          => Known' /\ LimitInv' /\ InBudget'
    BY KnownStep, LimitStep, FaultsBounded
  <1>2. Init => InBudget
    BY MaxFaultsAssumption DEF Init, PlatformInit, InBudget
  <1>3. Known /\ LimitInv /\ InBudget => ActiveWithinLimit
    <2> SUFFICES ASSUME Known, LimitInv, InBudget PROVE ActiveWithinLimit
      OBVIOUS
    <2>1. /\ faults \in Nat /\ MaxConcurrent \in Nat /\ MaxFaults \in Nat
          /\ Cardinality(ActiveTasks) \in Nat
      BY CalmTypes, TaskSets, MaxConcurrentAssumption, MaxFaultsAssumption DEF Known, ActiveTasks
    <2> QED
      BY <2>1 DEF LimitInv, ActiveWithinLimit, InBudget
  <1> QED
    BY <1>1, <1>2, <1>3, LimitInit, KnownInit, PTL DEF Spec

(***************************************************************************)
(* What a SUCCESS means.  A watcher marks a task SUCCESS when its worker   *)
(* exited with 0 and the row is not terminal: when the worker has given up *)
(* its last report.  As long as fewer calls fail than a report has         *)
(* attempts, no worker of a watched container gives up: a report in flight *)
(* aside, each attempt so far has cost a fault.                            *)
(***************************************************************************)
Patient == MaxFaults < MaxAttempts

Promised ==
  \A t \in Task : Running(t) /\ containers[t].pc = "SUCCESS" => t \in migrated

Attended ==
  \A w \in watchers : /\ Running(w.task) \/ tasks[w.task].status \in Terminal
                      /\ w.pc \notin {"fail", "succeed"}

Trying ==
  \A w \in watchers : Running(w.task) =>
    \/ containers[w.task].try <= faults
    \/ /\ containers[w.task].try <= faults + 1
       /\ \E r \in reports : r.task = w.task

SettledInv == SuccessIsReal /\ Promised /\ Attended /\ Trying

\* A worker that is watched does not give up.
LEMMA NoGivingUp ==
  ASSUME Patient, Known, InBudget, Trying, NEW w \in watchers
  PROVE  ~GivesUp(w.task)
  <1> SUFFICES ASSUME GivesUp(w.task) PROVE FALSE
    OBVIOUS
  <1>1. /\ w.task \in Task /\ containers[w.task].try \in Nat /\ faults \in Nat
        /\ MaxFaults \in Nat /\ MaxAttempts \in Nat
    BY CalmTypes, MaxFaultsAssumption, MaxAttemptsAssumption DEF Known
  <1>2. Running(w.task) /\ containers[w.task].try >= MaxAttempts /\ \A r \in reports : r.task # w.task
    BY DEF GivesUp
  <1>3. containers[w.task].try <= faults
    BY <1>2 DEF Trying
  <1> QED
    BY <1>1, <1>2, <1>3 DEF Patient, InBudget

\* A watcher lives on, moves, or is started with its container.
LEMMA WatcherOrigin ==
  ASSUME Calm, Known, [Next]_vars, NEW w \in watchers'
  PROVE  \/ w \in watchers
         \/ \E x \in watchers : /\ x.task = w.task /\ WatcherStep(x) /\ Move(x, w.pc) /\ ~Stop(x)
                               /\ UNCHANGED <<tasks, containers, faults, reports>>
         \/ StartWorker /\ disp.task = w.task /\ w.pc = "poll"
  <1> SUFFICES ASSUME w \notin watchers
               PROVE  \/ \E x \in watchers :
                           /\ x.task = w.task /\ WatcherStep(x) /\ Move(x, w.pc) /\ ~Stop(x)
                           /\ UNCHANGED <<tasks, containers, faults, reports>>
                      \/ StartWorker /\ disp.task = w.task /\ w.pc = "poll"
    OBVIOUS
  <1>0. watchers \subseteq Watcher
    BY CalmTypes DEF Known
  <1>1. CASE StartWorker
    <2>1. w = [task |-> disp.task, run |-> containers[disp.task].run + 1, pc |-> "poll"]
      BY <1>1 DEF StartWorker, RunContainer
    <2> QED
      BY <1>1, <2>1
  <1>2. CASE ~StartWorker
    <2>1. PICK x \in watchers : (WatcherStep(x) \/ WatcherAborted(x)) /\ CalmRunner
      BY <1>2, CalmSteps
         DEF CalmApi, CalmRunner, CalmDispatcher, CalmWorker, DaemonAction, Restart, vars,
             CountActive, PickNext, Return, Claim, Reload, WriteEnvFile, FailTask,
             SecretsFail, StartFails, DispatcherAborted
    <2>2. ~Stop(x)
      BY DEF Stop
    <2>3. PICK pc : Move(x, pc) /\ UNCHANGED <<tasks, containers, faults>> /\ WatcherStep(x)
      BY <2>1, <2>2
         DEF WatcherStep, WatcherAborted, PollGone, PollExited, ReadExitCode,
             CheckGone, CheckStillActive, MarkFailed, CheckExit0, MarkSuccess, platformVars
    <2>4. PICK y : y = [x EXCEPT !.pc = pc]
      OBVIOUS
    <2>5. w = y /\ y.task = x.task /\ y.pc = pc
      BY <1>0, <2>3, <2>4 DEF Move
    <2>6. UNCHANGED reports
      BY <2>1 DEF CalmRunner, workerVars
    <2> QED
      BY <2>2, <2>3, <2>5, <2>6
  <1> QED
    BY <1>1, <1>2

LEMMA MigratedGrows ==
  ASSUME Calm, Known, [Next]_vars
  PROVE  migrated \subseteq migrated'
  <1>1. CASE CalmWorker
    BY <1>1, WorkerCases DEF Sends, GivesUp, Reads, Writes, Loses
  <1>2. CASE ~CalmWorker
    BY <1>2, CalmSteps DEF CalmApi, CalmRunner, CalmDispatcher, DaemonAction, Restart,
                           vars, workerVars
  <1> QED
    BY <1>1, <1>2

LEMMA SuccessStep ==
  ASSUME Calm, Known, SettledInv, [Next]_vars
  PROVE  SuccessIsReal'
  <1> SUFFICES ASSUME NEW t \in Task, tasks'[t].status = "SUCCESS"
               PROVE  t \in migrated'
    BY DEF SuccessIsReal
  <1>1. migrated \subseteq migrated'
    BY MigratedGrows
  <1>2. \A w \in watchers : w.pc # "succeed"
    BY DEF SettledInv, Attended
  <1>3. \A r \in reports : r.task = t /\ r.status = "SUCCESS" => t \in migrated
    BY DEF SettledInv, Promised, Known, CalmInv, Awaited
  <1> QED
    BY <1>1, <1>2, <1>3, CalmRows DEF RowMoved, SettledInv, SuccessIsReal

LEMMA PromisedStep ==
  ASSUME Calm, Known, SettledInv, [Next]_vars
  PROVE  Promised'
  <1> SUFFICES ASSUME NEW t \in Task, Running(t)', containers'[t].pc = "SUCCESS"
               PROVE  t \in migrated'
    BY DEF Promised
  <1>0. /\ migrated \subseteq migrated' /\ containers \in [Task -> Container]
        /\ Running(t) /\ containers[t].pc = "SUCCESS" => t \in migrated
    BY CalmTypes, MigratedGrows DEF Known, SettledInv, Promised
  <1>1. CASE containers'[t] = containers[t]
    BY <1>0, <1>1 DEF Running
  <1>2. containers'[t] # FreshContainer(containers[t]) /\ containers'[t] # NoContainer(containers[t])
    BY DEF FreshContainer, NoContainer, Running
  <1>3. CASE Running(t) /\ CalmWorker
    <2>1. ASSUME NEW status \in Reported, containers'[t] = AfterReport(containers[t], status)
          PROVE  FALSE
      <3>1. containers[t] \in Container
        BY <1>0
      <3>2. AfterReport(containers[t], status).pc # "SUCCESS"
        BY <3>1 DEF AfterReport, ExitedContainer
      <3> QED
        BY <2>1, <3>2
    <2>2. ASSUME NEW u \in Task, Sends(u)
          PROVE  t \in migrated'
      BY <1>0, <1>1, <1>3, <2>2 DEF Sends, OneContainer
    <2>3. ASSUME NEW u \in Task, GivesUp(u)
          PROVE  t \in migrated'
      BY <1>0, <1>1, <2>1, <2>3 DEF GivesUp, OneContainer
    <2>4. ASSUME NEW r \in reports, Reads(r) \/ Writes(r) \/ Loses(r)
          PROVE  t \in migrated'
      <3>1. r.status \in Reported
        BY ReportFacts
      <3> QED
        BY <1>0, <1>1, <2>1, <2>4, <3>1 DEF Reads, Writes, Loses, OneContainer
    <2> QED
      BY <1>3, <2>2, <2>3, <2>4, WorkerCases
  <1> QED
    BY <1>1, <1>2, <1>3, CalmContainers DEF ContainerMoved

LEMMA AttendedStep ==
  ASSUME Calm, Patient, Known, InBudget, SettledInv, [Next]_vars
  PROVE  Attended'
  <1> SUFFICES ASSUME NEW w \in watchers'
               PROVE  /\ Running(w.task)' \/ tasks'[w.task].status \in Terminal
                      /\ w.pc \notin {"fail", "succeed"}
    BY DEF Attended
  <1>0. /\ watchers \subseteq Watcher /\ containers \in [Task -> Container] /\ Attended
        /\ tasks \in [Task -> Row] /\ reports \subseteq Report
    BY CalmTypes DEF Known, SettledInv
  <1>1. CASE StartWorker /\ disp.task = w.task /\ w.pc = "poll"
    <2>1. containers'[w.task] = FreshContainer(containers[w.task])
      BY <1>0, <1>1, CalmTypes DEF StartWorker, RunContainer, At, Known
    <2> QED
      BY <1>1, <2>1 DEF FreshContainer, Running
  <1>2. ASSUME NEW x \in watchers, x.task = w.task, WatcherStep(x), Move(x, w.pc), ~Stop(x),
               UNCHANGED <<tasks, containers, faults, reports>>
        PROVE  /\ Running(w.task)' \/ tasks'[w.task].status \in Terminal
               /\ w.pc \notin {"fail", "succeed"}
    <2>1. Running(w.task) \/ tasks[w.task].status \in Terminal
      BY <1>0, <1>2 DEF Attended
    <2>2. x.pc # "poll" => tasks[x.task].status \in Terminal
      BY <1>0, <1>2 DEF Attended, Known, CalmInv, Watched
    <2>3. PICK pc : /\ Move(x, pc) /\ pc \notin {"fail", "succeed"}
      <3>1. ASSUME x.pc = "poll" PROVE \E pc : Move(x, pc) /\ pc \notin {"fail", "succeed"}
        BY <1>2, <3>1
           DEF WatcherStep, PollGone, PollExited, ReadExitCode, CheckGone, CheckStillActive,
               MarkFailed, CheckExit0, MarkSuccess
      <3>2. ASSUME x.pc # "poll" PROVE \E pc : Move(x, pc) /\ pc \notin {"fail", "succeed"}
        <4>1. ~StillActive(tasks[x.task])
          BY <2>2, <3>2 DEF StillActive
        <4> QED
          BY <1>0, <1>2, <2>2, <3>2, <4>1
             DEF Attended, WatcherStep, PollGone, PollExited, ReadExitCode, CheckGone,
                 CheckStillActive, MarkFailed, CheckExit0, MarkSuccess
      <3> QED
        BY <3>1, <3>2
    <2>4. w.pc \notin {"fail", "succeed"}
      <3>1. PICK y, z : y = [x EXCEPT !.pc = pc] /\ z = [x EXCEPT !.pc = w.pc]
        OBVIOUS
      <3>2. y.pc = pc /\ z.pc = w.pc
        BY <1>0, <3>1
      <3>3. (watchers \ {x}) \cup {y} = (watchers \ {x}) \cup {z}
        BY <1>2, <2>3, <3>1 DEF Move
      <3>4. z = y \/ z \in watchers
        BY <3>3
      <3> QED
        BY <1>0, <2>3, <3>2, <3>4 DEF Attended
    <2> QED
      BY <1>2, <2>1, <2>4 DEF Running
  <1>3. CASE w \in watchers
    <2> SUFFICES Running(w.task)' \/ tasks'[w.task].status \in Terminal
      BY <1>0, <1>3 DEF Attended
    <2>0. w.task \in Task /\ containers[w.task].run # 0
      BY <1>0, <1>3 DEF Known, CalmInv, Watched
    <2>1. CASE Running(w.task)
      <3>1. CASE containers'[w.task] = containers[w.task]
        BY <2>1, <3>1 DEF Running
      <3>2. CASE CalmWorker
        <4>1. ASSUME NEW u \in Task, Sends(u)
              PROVE  Running(w.task)'
          BY <1>0, <2>0, <2>1, <4>1 DEF Sends, OneContainer, Running
        <4>2. ASSUME NEW u \in Task, GivesUp(u)
              PROVE  Running(w.task)'
          <5>1. u # w.task
            BY <1>3, <4>2, NoGivingUp DEF SettledInv
          <5> QED
            BY <1>0, <2>0, <2>1, <4>2, <5>1 DEF GivesUp, OneContainer, Running
        <4>3. ASSUME NEW r \in reports, Reads(r) \/ Loses(r)
              PROVE  Running(w.task)'
          BY <2>1, <4>3 DEF Reads, Loses, Running
        <4>4. ASSUME NEW r \in reports, Writes(r)
              PROVE  Running(w.task)' \/ tasks'[w.task].status \in Terminal
          <5>1. CASE r.task # w.task
            BY <1>0, <2>0, <2>1, <4>4, <5>1 DEF Writes, OneContainer, Running
          <5>2. CASE r.task = w.task
            <6>1. r.status \in MainPosts /\ containers[w.task] \in Container /\ tasks[w.task] \in Row
              <7>1. r.status \in MainPosts
                BY ReportFacts
              <7> QED
                BY <1>0, <2>0, <7>1
            <6>2. /\ containers'[w.task] = AfterReport(containers[w.task], r.status)
                  /\ tasks'[w.task] = ReportedRow(tasks[w.task], r.status)
              BY <1>0, <2>0, <4>4, <5>2 DEF Writes, OneContainer
            <6>3. tasks'[w.task].status = r.status
              BY <6>1, <6>2 DEF ReportedRow
            <6>4. r.status \in {"PREPARING", "RUNNING"} => containers'[w.task].state = "running"
              BY <2>1, <6>1, <6>2 DEF AfterReport, Running
            <6> QED
              BY <6>1, <6>3, <6>4 DEF Running
          <5> QED
            BY <5>1, <5>2
        <4> QED
          BY <3>2, <4>1, <4>2, <4>3, <4>4, WorkerCases
      <3>3. containers[w.task].state = "running"
        BY <2>1 DEF Running
      <3> QED
        BY <2>0, <3>1, <3>2, <3>3, CalmContainers DEF ContainerMoved
    <2>2. CASE tasks[w.task].status \in Terminal
      <3>1. disp.task # w.task
        BY <2>0, OneRun
      <3>2. \A q \in requests : q.task # w.task
        <4>1. queueings[w.task] # 0
          BY <2>0, OneRun
        <4> QED
          BY <4>1 DEF Known, CalmInv, Requested
      <3>3. \A x \in watchers : x.pc \notin {"fail", "succeed"}
        BY <1>0 DEF Attended
      <3>4. \A r \in reports : r.task # w.task
        <4> SUFFICES ASSUME NEW r \in reports, r.task = w.task PROVE FALSE
          OBVIOUS
        <4>1. tasks[r.task].status \in Active
          BY ReportFacts
        <4> QED
          BY <2>2, <4>1
      <3>5. tasks'[w.task] = tasks[w.task]
        BY <2>0, <3>1, <3>2, <3>3, <3>4, CalmRows DEF RowMoved
      <3> QED
        BY <2>2, <3>5
    <2> QED
      BY <1>0, <1>3, <2>1, <2>2 DEF Attended
  <1> QED
    BY <1>1, <1>2, <1>3, WatcherOrigin

LEMMA TryingStep ==
  ASSUME Calm, Patient, Known, InBudget, SettledInv, [Next]_vars
  PROVE  Trying'
  <1> DEFINE Tried(t) == \/ containers[t].try <= faults
                         \/ /\ containers[t].try <= faults + 1
                            /\ \E r \in reports : r.task = t
  <1> SUFFICES ASSUME NEW w \in watchers', Running(w.task)'
               PROVE  Tried(w.task)'
    BY DEF Trying
  <1>0. /\ watchers \subseteq Watcher /\ containers \in [Task -> Container] /\ Trying
        /\ reports \subseteq Report
    BY CalmTypes DEF Known, SettledInv
  <1>5. PICK n \in Nat : n = faults'
    BY FaultsMove
  <1>6. faults \in Nat /\ faults <= n /\ n <= faults + 1
    BY <1>5, FaultsMove
  <1>7. ASSUME NEW t \in Task, containers'[t].try <= n
        PROVE  Tried(t)'
    BY <1>5, <1>7
  <1>8. ASSUME NEW t \in Task, containers'[t].try <= n + 1, \E r \in reports' : r.task = t
        PROVE  Tried(t)'
    BY <1>5, <1>8
  <1>1. CASE StartWorker /\ disp.task = w.task /\ w.pc = "poll"
    <2>1. containers'[w.task] = FreshContainer(containers[w.task])
      BY <1>0, <1>1, CalmTypes DEF StartWorker, RunContainer, At, Known
    <2>2. containers'[w.task].try = 0
      BY <2>1 DEF FreshContainer
    <2>3. w.task \in Task /\ 0 <= n
      BY <1>1, CalmTypes DEF StartWorker, At, Known
    <2> QED
      BY <1>7, <2>2, <2>3
  <1>2. CASE \E x \in watchers : x.task = w.task /\ UNCHANGED <<containers, faults, reports>>
    <2>1. PICK x \in watchers : x.task = w.task /\ UNCHANGED <<containers, faults, reports>>
      BY <1>2
    <2>2. Tried(x.task)
      BY <1>0, <2>1 DEF Trying, Running
    <2> QED
      BY <2>1, <2>2
  <1>3. CASE w \in watchers /\ ~(StartWorker /\ disp.task = w.task)
    <2>0. w.task \in Task /\ containers[w.task] \in Container
      BY <1>0, <1>3
    <2>1. Running(w.task) /\ Tried(w.task)
      <3>1. Running(w.task)
        BY <1>3, <2>0, ContainerRuns DEF Known
      <3> QED
        BY <1>0, <1>3, <3>1 DEF Trying
    <2>2. CASE CalmWorker
      <3>1. ASSUME NEW u \in Task, Sends(u), u = w.task
            PROVE  Tried(w.task)'
        <4>1. PICK c \in Container, status \in MainPosts, try \in Nat :
                /\ OneContainer(u, c) /\ c.try = try
                /\ try = 1 \/ try = containers[u].try + 1
                /\ reports' = reports \cup
                     {[task |-> u, run |-> containers[u].run, status |-> status, try |-> try,
                       pc |-> "read", waiting |-> TRUE]}
          BY <3>1 DEF Sends
        <4>2. \A r \in reports : r.task # u
          BY <3>1 DEF Sends
        <4>3. containers[u].try <= faults
          BY <2>1, <3>1, <4>2
        <4>4. containers'[u].try = try /\ containers[u].try \in Nat
          BY <1>0, <2>0, <3>1, <4>1 DEF OneContainer
        <4>5. PICK x : x = [task |-> u, run |-> containers[u].run, status |-> status,
                            try |-> try, pc |-> "read", waiting |-> TRUE]
          OBVIOUS
        <4>6. x \in reports' /\ x.task = u
          BY <4>1, <4>5
        <4>7. try <= n + 1
          <5>1. CASE try = 1
            BY <5>1
          <5>2. CASE try = containers[u].try + 1
            BY <1>6, <4>3, <4>4, <5>2
          <5> QED
            BY <4>1, <5>1, <5>2
        <4> QED
          BY <1>8, <3>1, <4>4, <4>6, <4>7
      <3>2. ASSUME NEW u \in Task, Sends(u), u # w.task
            PROVE  Tried(w.task)'
        <4>1. containers'[w.task] = containers[w.task] /\ reports \subseteq reports'
          BY <1>0, <2>0, <3>2 DEF Sends, OneContainer
        <4>2. containers[w.task].try <= faults => containers'[w.task].try <= n
          BY <1>6, <2>0, <4>1
        <4>3. containers[w.task].try <= faults + 1 => containers'[w.task].try <= n + 1
          BY <1>6, <2>0, <4>1
        <4> QED
          BY <2>0, <2>1, <4>1, <4>2, <4>3, <1>7, <1>8
      <3>3. ASSUME NEW u \in Task, GivesUp(u)
            PROVE  Tried(w.task)'
        <4>1. u # w.task
          BY <1>3, <3>3, NoGivingUp DEF SettledInv
        <4> QED
          BY <1>0, <2>0, <2>1, <3>3, <4>1 DEF GivesUp, OneContainer
      <3>4. ASSUME NEW r \in reports, Reads(r)
            PROVE  Tried(w.task)'
        <4>1. PICK x : x = [r EXCEPT !.pc = "write"]
          OBVIOUS
        <4>2. x.task = r.task /\ reports' = (reports \ {r}) \cup {x}
          BY <1>0, <3>4, <4>1 DEF Reads
        <4>3. UNCHANGED <<containers, faults>>
          BY <3>4 DEF Reads
        <4> QED
          BY <2>1, <4>2, <4>3
      <3>5. ASSUME NEW r \in reports, Writes(r)
            PROVE  Tried(w.task)'
        <4>1. CASE r.task = w.task
          <5>1. /\ containers'[w.task] = AfterReport(containers[w.task], r.status)
                /\ r.status \in Reported
            BY <1>0, <2>0, <3>5, <4>1 DEF Writes, OneContainer
          <5>2. AfterReport(containers[w.task], r.status).try = 0
            BY <2>0, <5>1 DEF AfterReport, ExitedContainer
          <5>3. 0 <= n
            OBVIOUS
          <5> QED
            BY <1>7, <2>0, <5>1, <5>2, <5>3
        <4>2. CASE r.task # w.task
          <5>1. /\ containers'[w.task] = containers[w.task] /\ UNCHANGED faults
                /\ reports' = reports \ {r}
            BY <1>0, <2>0, <3>5, <4>2 DEF Writes, OneContainer
          <5>2. \A x \in reports : x.task = w.task => x \in reports'
            BY <4>2, <5>1
          <5> QED
            BY <2>1, <5>1, <5>2
        <4> QED
          BY <4>1, <4>2
      <3>6. ASSUME NEW r \in reports, Loses(r)
            PROVE  Tried(w.task)'
        <4>1. faults' = faults + 1 /\ containers' = containers /\ containers[w.task].try \in Nat
          BY <2>0, <3>6 DEF Loses
        <4> QED
          <5>1. containers'[w.task].try <= faults + 1 /\ n = faults + 1
            BY <1>5, <1>6, <2>0, <2>1, <4>1
          <5> QED
            BY <1>7, <2>0, <5>1
      <3> QED
        BY <2>2, <3>1, <3>2, <3>3, <3>4, <3>5, <3>6, WorkerCases
    <2>3. CASE ~CalmWorker
      <3>1. UNCHANGED reports
        <4>1. ~Restart
          BY <1>3 DEF Restart
        <4> QED
          BY <2>3, <4>1, CalmSteps
             DEF CalmApi, CalmRunner, CalmDispatcher, DaemonAction, workerVars, vars
      <3>2. containers'[w.task] = containers[w.task]
        <4>1. containers[w.task].state = "running"
          BY <2>1 DEF Running
        <4> QED
          BY <1>3, <2>0, <2>3, <4>1, CalmContainers DEF ContainerMoved
      <3>3. containers[w.task].try <= faults => containers'[w.task].try <= n
        BY <1>6, <2>0, <3>2
      <3>4. containers[w.task].try <= faults + 1 => containers'[w.task].try <= n + 1
        BY <1>6, <2>0, <3>2
      <3> QED
        BY <1>7, <1>8, <2>0, <2>1, <3>1, <3>3, <3>4
    <2> QED
      BY <2>2, <2>3
  <1>4. CASE w \in watchers /\ StartWorker /\ disp.task = w.task
    <2>1. containers[w.task].run # 0 /\ w.task \in Task
      BY <1>0, <1>4 DEF Known, CalmInv, Watched
    <2> QED
      BY <1>4, <2>1, OneRun
  <1> QED
    BY <1>1, <1>2, <1>3, <1>4, WatcherOrigin

LEMMA SettledInit == Init => SettledInv /\ InBudget
  <1> SUFFICES ASSUME Init PROVE SettledInv /\ InBudget
    OBVIOUS
  <1>1. SuccessIsReal /\ Promised /\ InBudget
    BY MaxFaultsAssumption DEF Init, PlatformInit, NewRow, SuccessIsReal, Promised, Running, InBudget
  <1>2. Attended /\ Trying
    BY DEF Init, RunnerInit, Attended, Trying
  <1> QED
    BY <1>1, <1>2 DEF SettledInv

\* A task is SUCCESS only when one of its workers has finished Migrate, as
\* long as fewer calls fail than a report has attempts.
THEOREM SuccessCorrect ==
  ASSUME Calm, Patient
  PROVE  Spec => []SuccessIsReal
  <1>2. Known /\ InBudget /\ SettledInv /\ [Next]_vars => Known' /\ InBudget' /\ SettledInv'
    BY KnownStep, FaultsBounded, SuccessStep, PromisedStep, AttendedStep, TryingStep DEF SettledInv
  <1>3. SettledInv => SuccessIsReal
    BY DEF SettledInv
  <1> QED
    BY <1>2, <1>3, KnownInit, SettledInit, PTL DEF Spec

(***************************************************************************)
(* The life cycle.  A restart drops the handlers of all reports in flight, *)
(* so that each attempt so far has cost a fault or a restart; as long as   *)
(* there are fewer of both than a report has attempts, every report is     *)
(* stored before the worker goes on, and the row tells where it is.        *)
(***************************************************************************)
Steadfast == MaxFaults + MaxRestarts < MaxAttempts

Told(t) ==
  Running(t) =>
    /\ containers[t].pc \in {"boot", "PREPARING", "preflight", "RUNNING"} =>
         tasks[t].status = "PREPARING"
    /\ containers[t].pc \in {"migrate", "SUCCESS"} => tasks[t].status = "RUNNING"

Tried(t) ==
  Running(t) =>
    \/ containers[t].try <= faults + restarts
    \/ /\ containers[t].try <= faults + restarts + 1
       /\ \E r \in reports : r.task = t

InTurns == restarts <= MaxRestarts

LifeInv == \A t \in Task : Told(t) /\ Tried(t)

LEMMA SteadfastIsPatient ==
  ASSUME Steadfast
  PROVE  Patient
  BY MaxFaultsAssumption, MaxAttemptsAssumption, MaxRestartsAssumption DEF Steadfast, Patient

LEMMA RestartsMove ==
  ASSUME Calm, Known, [Next]_vars
  PROVE  /\ restarts \in Nat
         /\ restarts' = restarts \/ (Restart /\ restarts' = restarts + 1)
         /\ InTurns => InTurns'
  <1>1. restarts \in Nat /\ MaxRestarts \in Nat
    BY CalmTypes, MaxRestartsAssumption DEF Known
  <1>2. restarts' = restarts \/ (Restart /\ restarts' = restarts + 1 /\ restarts < MaxRestarts)
    BY CalmSteps
       DEF CalmApi, CalmRunner, CalmDispatcher, CalmWorker, DaemonAction, Restart, vars
  <1>3. restarts < MaxRestarts => restarts + 1 <= MaxRestarts
    BY <1>1
  <1> QED
    BY <1>1, <1>2, <1>3 DEF InTurns

LEMMA NoWorkerGivesUp ==
  ASSUME Steadfast, Known, InBudget, InTurns, NEW t \in Task, Tried(t)
  PROVE  ~GivesUp(t)
  <1> SUFFICES ASSUME GivesUp(t) PROVE FALSE
    OBVIOUS
  <1>1. /\ containers[t].try \in Nat /\ faults \in Nat /\ restarts \in Nat
        /\ MaxFaults \in Nat /\ MaxAttempts \in Nat /\ MaxRestarts \in Nat
    BY CalmTypes, MaxFaultsAssumption, MaxAttemptsAssumption, MaxRestartsAssumption DEF Known
  <1>2. Running(t) /\ containers[t].try >= MaxAttempts /\ \A r \in reports : r.task # t
    BY DEF GivesUp
  <1>3. containers[t].try <= faults + restarts
    BY <1>2 DEF Tried
  <1> QED
    BY <1>1, <1>2, <1>3 DEF Steadfast, InBudget, InTurns

\* What a step does to a row whose worker is running.
LEMMA ToldStep ==
  ASSUME Calm, Steadfast, Known, InBudget, InTurns, SettledInv, LifeInv, [Next]_vars,
         NEW t \in Task
  PROVE  Told(t)'
  <1> SUFFICES ASSUME Running(t)'
               PROVE  /\ containers'[t].pc \in {"boot", "PREPARING", "preflight", "RUNNING"} =>
                           tasks'[t].status = "PREPARING"
                      /\ containers'[t].pc \in {"migrate", "SUCCESS"} =>
                           tasks'[t].status = "RUNNING"
    BY DEF Told
  <1>0. /\ containers \in [Task -> Container] /\ containers[t] \in Container
        /\ tasks \in [Task -> Row] /\ tasks[t] \in Row /\ Told(t) /\ Tried(t)
    BY CalmTypes DEF Known, LifeInv
  <1>1. CASE containers'[t] = containers[t] /\ tasks'[t] = tasks[t]
    BY <1>0, <1>1 DEF Told, Running
  <1>2. ASSUME NEW r \in reports, Writes(r), r.task = t
        PROVE  /\ containers'[t].pc \in {"boot", "PREPARING", "preflight", "RUNNING"} =>
                    tasks'[t].status = "PREPARING"
               /\ containers'[t].pc \in {"migrate", "SUCCESS"} =>
                    tasks'[t].status = "RUNNING"
    <2>1. r.status \in MainPosts
      BY ReportFacts
    <2>2. /\ containers'[t] = AfterReport(containers[t], r.status)
          /\ tasks'[t] = ReportedRow(tasks[t], r.status)
      BY <1>0, <1>2 DEF Writes, OneContainer
    <2>3. tasks'[t].status = r.status
      BY <1>0, <2>2 DEF ReportedRow
    <2>4. r.status \in {"SUCCESS", "FAILED"} => containers'[t].pc = "off"
      BY <1>0, <2>2 DEF AfterReport, ExitedContainer
    <2>5. r.status = "PREPARING" => containers'[t].pc = "preflight"
      BY <1>0, <2>2 DEF AfterReport
    <2>6. r.status = "RUNNING" => containers'[t].pc = "migrate"
      BY <1>0, <2>2 DEF AfterReport
    <2> QED
      BY <2>1, <2>3, <2>4, <2>5, <2>6
  <1>3. CASE CalmWorker
    <2>1. ASSUME NEW u \in Task, Sends(u)
          PROVE  /\ containers'[t].pc \in {"boot", "PREPARING", "preflight", "RUNNING"} =>
                      tasks'[t].status = "PREPARING"
                 /\ containers'[t].pc \in {"migrate", "SUCCESS"} =>
                      tasks'[t].status = "RUNNING"
      <3>1. PICK c \in Container, status \in MainPosts :
              /\ OneContainer(u, c) /\ c.pc = status /\ Follows(containers[u].pc, status)
        BY <2>1 DEF Sends
      <3>2. tasks' = tasks /\ Running(u)
        BY <2>1 DEF Sends
      <3>3. CASE u = t
        <4>1. containers'[t].pc = status
          BY <1>0, <3>1, <3>3 DEF OneContainer
        <4> QED
          BY <1>0, <3>1, <3>2, <3>3, <4>1 DEF Told, Follows
      <3>4. CASE u # t
        BY <1>0, <1>1, <3>1, <3>2, <3>4 DEF OneContainer
      <3> QED
        BY <3>3, <3>4
    <2>2. ASSUME NEW u \in Task, GivesUp(u)
          PROVE  containers'[t] = containers[t] /\ tasks'[t] = tasks[t]
      <3>1. u # t
        BY <1>0, <2>2, NoWorkerGivesUp
      <3> QED
        BY <1>0, <2>2, <3>1 DEF GivesUp, OneContainer
    <2>3. ASSUME NEW r \in reports, Reads(r) \/ Loses(r)
          PROVE  containers'[t] = containers[t] /\ tasks'[t] = tasks[t]
      BY <2>3 DEF Reads, Loses
    <2>4. ASSUME NEW r \in reports, Writes(r), r.task # t
          PROVE  containers'[t] = containers[t] /\ tasks'[t] = tasks[t]
      BY <1>0, <2>4 DEF Writes, OneContainer
    <2> QED
      BY <1>1, <1>2, <1>3, <2>1, <2>2, <2>3, <2>4, WorkerCases
  <1>4. CASE StartWorker /\ disp.task = t /\ UNCHANGED tasks
             /\ containers'[t] = FreshContainer(containers[t])
    <2>1. tasks[t].status = "PREPARING"
      BY <1>4 DEF StartWorker, At, Known, CalmInv, InHands
    <2>2. containers'[t].pc = "boot"
      BY <1>4 DEF FreshContainer
    <2> QED
      BY <1>4, <2>1, <2>2
  <1>5. CASE containers'[t] = NoContainer(containers[t])
    BY <1>5 DEF NoContainer, Running
  <1>6. CASE containers'[t] = containers[t]
    <2>1. Running(t)
      BY <1>6 DEF Running
    <2>2. disp.task # t /\ queueings[t] # 0
      BY <2>1, OneRun
    <2>3. \A q \in requests : q.task # t
      BY <2>2 DEF Known, CalmInv, Requested
    <2>4. \A w \in watchers : w.pc \notin {"fail", "succeed"}
      BY DEF SettledInv, Attended
    <2>5. tasks'[t] = tasks[t] \/ \E r \in reports : r.task = t /\ Writes(r)
      BY <2>2, <2>3, <2>4, CalmRows DEF RowMoved
    <2> QED
      BY <1>1, <1>2, <1>6, <2>5
  <1> QED
    BY <1>3, <1>4, <1>5, <1>6, CalmContainers DEF ContainerMoved

\* What a step does to the attempts of a worker's report.
LEMMA TriedStep ==
  ASSUME Calm, Steadfast, Known, InBudget, InTurns, LifeInv, [Next]_vars, NEW t \in Task
  PROVE  Tried(t)'
  <1> SUFFICES ASSUME Running(t)'
               PROVE  \/ containers'[t].try <= faults' + restarts'
                      \/ /\ containers'[t].try <= faults' + restarts' + 1
                         /\ \E r \in reports' : r.task = t
    BY DEF Tried
  <1>0. /\ containers \in [Task -> Container] /\ containers[t] \in Container
        /\ containers[t].try \in Nat /\ reports \subseteq Report /\ Tried(t)
    BY CalmTypes DEF Known, LifeInv
  <1>1. PICK n \in Nat : n = faults + restarts
    BY CalmTypes DEF Known
  <1>2. PICK m \in Nat : m = faults' + restarts'
    BY FaultsMove, RestartsMove
  <1>3. /\ faults \in Nat /\ restarts \in Nat
        /\ Running(t) => \/ containers[t].try <= n
                         \/ containers[t].try <= n + 1 /\ \E r \in reports : r.task = t
    BY <1>0, <1>1, CalmTypes DEF Known, Tried
  <1>4. n <= m
    BY <1>1, <1>2, <1>3, FaultsMove, RestartsMove
  <1>5. ASSUME NEW k \in Nat, containers'[t].try = k,
               k <= m \/ (k <= m + 1 /\ \E r \in reports' : r.task = t)
        PROVE  \/ containers'[t].try <= faults' + restarts'
               \/ /\ containers'[t].try <= faults' + restarts' + 1
                  /\ \E r \in reports' : r.task = t
    BY <1>2, <1>5
  <1> DEFINE Goal ==
        \E k \in Nat : /\ containers'[t].try = k
                       /\ k <= m \/ (k <= m + 1 /\ \E r \in reports' : r.task = t)
  <1> SUFFICES Goal
    BY <1>5
  <1>6. CASE containers'[t] = containers[t] /\ ((\E r \in reports : r.task = t) => \E r \in reports' : r.task = t)
    <2>1. Running(t)
      BY <1>6 DEF Running
    <2>2. PICK k \in Nat : k = containers[t].try
      BY <1>0
    <2>3. k <= n \/ (k <= n + 1 /\ \E r \in reports : r.task = t)
      BY <1>3, <2>1, <2>2
    <2>4. k <= m \/ (k <= m + 1 /\ \E r \in reports : r.task = t)
      BY <1>4, <2>3
    <2> QED
      BY <1>6, <2>2, <2>4
  <1>7. CASE containers'[t].try = 0
    <2>1. 0 <= m
      OBVIOUS
    <2> QED
      BY <1>7, <2>1
  <1>8. CASE containers'[t] = containers[t] /\ m = n + 1
    <2>1. Running(t)
      BY <1>8 DEF Running
    <2>2. PICK k \in Nat : k = containers[t].try
      BY <1>0
    <2>3. k <= n + 1
      BY <1>3, <2>1, <2>2
    <2> QED
      BY <1>8, <2>2, <2>3
  <1>9. CASE CalmWorker
    <2>1. ASSUME NEW u \in Task, Sends(u), u = t
          PROVE  Goal
      <3>1. PICK c \in Container, status \in MainPosts, try \in Nat :
              /\ OneContainer(u, c) /\ c.try = try
              /\ try = 1 \/ try = containers[u].try + 1
              /\ reports' = reports \cup
                   {[task |-> u, run |-> containers[u].run, status |-> status, try |-> try,
                     pc |-> "read", waiting |-> TRUE]}
        BY <2>1 DEF Sends
      <3>2. Running(t) /\ \A r \in reports : r.task # t
        BY <2>1 DEF Sends
      <3>3. containers[t].try <= n
        BY <1>3, <3>2
      <3>4. containers'[t].try = try
        BY <1>0, <2>1, <3>1 DEF OneContainer
      <3>5. PICK x : x = [task |-> u, run |-> containers[u].run, status |-> status,
                          try |-> try, pc |-> "read", waiting |-> TRUE]
        OBVIOUS
      <3>6. x \in reports' /\ x.task = t
        BY <2>1, <3>1, <3>5
      <3>7. PICK k \in Nat : k = containers[t].try
        BY <1>0
      <3>8. try = 1 \/ try = k + 1
        BY <2>1, <3>1, <3>7
      <3>9. try <= m + 1
        BY <1>4, <3>3, <3>7, <3>8
      <3> QED
        BY <3>4, <3>6, <3>9
    <2>2. ASSUME NEW u \in Task, Sends(u), u # t
          PROVE  containers'[t] = containers[t] /\ reports \subseteq reports'
      BY <1>0, <2>2 DEF Sends, OneContainer
    <2>3. ASSUME NEW u \in Task, GivesUp(u)
          PROVE  containers'[t] = containers[t] /\ reports' = reports
      <3>1. u # t
        BY <1>0, <2>3, NoWorkerGivesUp
      <3> QED
        BY <1>0, <2>3, <3>1 DEF GivesUp, OneContainer
    <2>4. ASSUME NEW r \in reports, Reads(r)
          PROVE  Goal
      <3>1. PICK x : x = [r EXCEPT !.pc = "write"]
        OBVIOUS
      <3>2. x.task = r.task /\ reports' = (reports \ {r}) \cup {x} /\ containers' = containers
        BY <1>0, <2>4, <3>1 DEF Reads
      <3>3. (\E y \in reports : y.task = t) => \E y \in reports' : y.task = t
        BY <3>2
      <3> QED
        BY <1>6, <3>2, <3>3
    <2>5. ASSUME NEW r \in reports, Writes(r), r.task = t
          PROVE  containers'[t].try = 0
      <3>1. /\ containers'[t] = AfterReport(containers[t], r.status) /\ r.status \in Reported
        BY <1>0, <2>5 DEF Writes, OneContainer
      <3> QED
        BY <1>0, <3>1 DEF AfterReport, ExitedContainer
    <2>6. ASSUME NEW r \in reports, Writes(r), r.task # t
          PROVE  Goal
      <3>1. containers'[t] = containers[t] /\ reports' = reports \ {r}
        BY <1>0, <2>6 DEF Writes, OneContainer
      <3>2. (\E y \in reports : y.task = t) => \E y \in reports' : y.task = t
        BY <2>6, <3>1
      <3> QED
        BY <1>6, <3>1, <3>2
    <2>7. ASSUME NEW r \in reports, Loses(r)
          PROVE  containers'[t] = containers[t] /\ m = n + 1
      <3>1. faults' = faults + 1 /\ containers' = containers /\ restarts' = restarts
        BY <1>9, <2>7 DEF Loses, CalmWorker
      <3>2. m = (faults + 1) + restarts
        BY <1>2, <3>1
      <3>3. m = n + 1
        BY <1>1, <1>3, <3>2
      <3> QED
        BY <3>1, <3>3
    <2> QED
      BY <1>6, <1>7, <1>8, <1>9, <2>1, <2>2, <2>3, <2>4, <2>5, <2>6, <2>7, WorkerCases
  <1>10. CASE ~CalmWorker
    <2>1. \/ containers'[t] = containers[t]
          \/ containers'[t] = FreshContainer(containers[t])
          \/ containers'[t] = NoContainer(containers[t])
      BY <1>10, CalmContainers DEF ContainerMoved
    <2>2. containers'[t] = containers[t] \/ containers'[t].try = 0
      BY <2>1 DEF FreshContainer, NoContainer
    <2>3. CASE ~Restart
      <3>1. UNCHANGED reports
        BY <1>10, <2>3, CalmSteps
           DEF CalmApi, CalmRunner, CalmDispatcher, DaemonAction, workerVars, vars
      <3> QED
        BY <1>6, <1>7, <2>2, <3>1
    <2>4. CASE Restart
      <3>1. restarts' = restarts + 1 /\ faults' = faults
        BY <2>4 DEF Restart, platformVars
      <3>2. m = faults + (restarts + 1)
        BY <1>2, <3>1
      <3>3. m = n + 1
        BY <1>1, <1>3, <3>2
      <3> QED
        BY <1>7, <1>8, <2>2, <3>3
    <2> QED
      BY <2>3, <2>4
  <1> QED
    BY <1>9, <1>10

LEMMA LegalStep ==
  ASSUME Calm, Known, SettledInv, LifeInv, [Next]_vars, NEW t \in Task
  PROVE  LegalTransition(tasks[t].status, tasks'[t].status)
  <1>1. CASE tasks'[t] = tasks[t]
    BY <1>1 DEF LegalTransition
  <1>2. ASSUME NEW q \in requests, q.task = t, tasks'[t].status = "PENDING"
        PROVE  LegalTransition(tasks[t].status, tasks'[t].status)
    <2>1. queueings[t] = 0
      BY <1>2 DEF Known, CalmInv, Requested
    <2>2. tasks[t].status = "PENDING"
      BY <2>1, OneRun
    <2> QED
      BY <1>2, <2>2 DEF LegalTransition
  <1>3. CASE disp.task = t /\ Claim /\ tasks'[t].status = "PREPARING"
    BY <1>3 DEF Claim, At, Known, CalmInv, InHands, LegalTransition
  <1>4. CASE disp.task = t /\ FailTask /\ tasks'[t].status = "FAILED"
    BY <1>4 DEF FailTask, At, Known, CalmInv, InHands, LegalTransition
  <1>5. \A w \in watchers : w.pc \notin {"fail", "succeed"}
    BY DEF SettledInv, Attended
  <1>6. ASSUME NEW r \in reports, r.task = t, tasks'[t].status = r.status
        PROVE  LegalTransition(tasks[t].status, tasks'[t].status)
    <2>1. /\ Running(t) /\ containers[t].pc = r.status /\ r.status \in MainPosts
          /\ tasks[t].status \in Active
      BY <1>6, ReportFacts
    <2>2. Told(t)
      BY DEF LifeInv
    <2> QED
      BY <1>6, <2>1, <2>2 DEF Told, LegalTransition
  <1> QED
    BY <1>1, <1>2, <1>3, <1>4, <1>5, <1>6, CalmRows DEF RowMoved

\* The life cycle of the documents: over interleavings, failed calls and
\* restarts, no writer takes a status backwards or past RUNNING, as long as
\* there are fewer of both than a report has attempts.
THEOREM LifeCycleCorrect ==
  ASSUME Calm, Steadfast
  PROVE  Spec => StatusMovesForward
  <1> DEFINE IInv == Known /\ InBudget /\ InTurns /\ SettledInv /\ LifeInv
             Forward == \A t \in Task : LegalTransition(tasks[t].status, tasks'[t].status)
  <1>1. Init => IInv
    <2> SUFFICES ASSUME Init PROVE IInv
      OBVIOUS
    <2>1. InTurns
      BY MaxRestartsAssumption DEF Init, InTurns
    <2>2. LifeInv
      BY DEF Init, PlatformInit, LifeInv, Told, Tried, Running
    <2> QED
      BY <2>1, <2>2, KnownInit, SettledInit
  <1>2. IInv /\ [Next]_vars => IInv' /\ Forward
    <2> SUFFICES ASSUME IInv, [Next]_vars PROVE IInv' /\ Forward
      OBVIOUS
    <2>1. Known' /\ InBudget' /\ InTurns'
      BY KnownStep, FaultsBounded, RestartsMove
    <2>2. SettledInv'
      BY SteadfastIsPatient, SuccessStep, PromisedStep, AttendedStep, TryingStep DEF SettledInv
    <2>3. LifeInv'
      BY ToldStep, TriedStep DEF LifeInv
    <2> QED
      BY <2>1, <2>2, <2>3, LegalStep
  <1> QED
    BY <1>1, <1>2, PTL DEF Spec, StatusMovesForward
=============================================================================
