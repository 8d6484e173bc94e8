---------------------------- MODULE RunnersProofs ----------------------------
(***************************************************************************)
(* Theorems about Runners, for any set of tasks and any number and order   *)
(* of requests and faults: what holds of the Kubernetes runner and of the  *)
(* local one.                                                              *)
(***************************************************************************)
EXTENDS Runners, TLAPS

USE MaxEventsAssumption

(***************************************************************************)
(* Types.                                                                  *)
(***************************************************************************)
LEMMA RowUpdates ==
  ASSUME NEW row \in Row
  PROVE  /\ CancelledRow(row) \in Row /\ CancelledRow(row).status = "CANCELLED"
         /\ ClaimedRow(row) \in Row /\ ClaimedRow(row).status = "PREPARING"
         /\ FailedRow(row) \in Row /\ FailedRow(row).status = "FAILED"
         /\ SucceededRow(row) \in Row /\ SucceededRow(row).status = "SUCCESS"
BY DEF Row, Status, Active, Terminal, CancelledRow, ClaimedRow, FailedRow, SucceededRow

LEMMA QueuedUpdate ==
  ASSUME NEW row \in Row, NEW now \in Nat
  PROVE  QueuedRow(row, now) \in Row /\ QueuedRow(row, now).status = "PENDING"
BY DEF Row, Status, QueuedRow

LEMMA ReportedUpdate ==
  ASSUME NEW row \in Row, NEW status \in Posts
  PROVE  ReportedRow(row, status) \in Row /\ ReportedRow(row, status).status = status
BY DEF Posts, Row, Status, Active, Terminal, ReportedRow

LEMMA UpdateTask ==
  ASSUME BaseTypeOK, NEW t \in Task, NEW row \in Row, Update(t, row)
  PROVE  /\ tasks' \in [Task -> Row] /\ tasks'[t] = row
         /\ \A u \in Task \ {t} : tasks'[u] = tasks[u]
BY DEF BaseTypeOK, Update

LEMMA StarterTypes ==
  ASSUME BaseTypeOK
  PROVE  /\ Idle.pc = "idle" /\ Idle \in Starter
         /\ starter.pc = "idle" => starter = Idle
         /\ starter.pc # "idle" =>
              /\ starter.task \in Task /\ starter.n \in Nat
              /\ starter \in [pc: {"claim", "reload", "start", "job", "fail"}, task: Task, n: Nat]
BY DEF BaseTypeOK, Starter, Idle

LEMMA StarterMoves ==
  ASSUME NEW pc \in {"reload", "start", "job", "fail"},
         NEW s \in [pc: {"claim", "reload", "start", "job", "fail"}, task: Task, n: Nat]
  PROVE  /\ [s EXCEPT !.pc = pc] \in Starter
         /\ [s EXCEPT !.pc = pc].task = s.task /\ [s EXCEPT !.pc = pc].pc = pc
BY DEF Starter

WorkerPcs == {"waiting", "stuck", "boot", "migrate", "exit0", "exit1"} \cup Posts

LEMMA WorkerMoves ==
  ASSUME NEW w \in Worker, NEW pc \in WorkerPcs
  PROVE  /\ [w EXCEPT !.pc = pc] \in Worker
         /\ [w EXCEPT !.pc = pc].task = w.task /\ [w EXCEPT !.pc = pc].pc = pc
BY DEF Worker, WorkerPcs

LEMMA WorkersMove ==
  ASSUME BaseTypeOK, NEW w \in workers, NEW pc \in WorkerPcs, Becomes(w, pc)
  PROVE  workers' \subseteq Worker
<1>1. [w EXCEPT !.pc = pc] \in Worker
  BY WorkerMoves DEF BaseTypeOK
<1> QED
  BY <1>1 DEF Becomes, BaseTypeOK

LEMMA WorkerTypes ==
  ASSUME BaseTypeOK, NEW w \in workers
  PROVE  w \in Worker /\ w.task \in Task /\ w.pc \in WorkerPcs
BY DEF BaseTypeOK, Worker, WorkerPcs

LEMMA SentReport ==
  ASSUME BaseTypeOK, NEW w \in workers, NEW status \in Posts, Send(w, status)
  PROVE  reports' \subseteq Report
<1>1. [task |-> w.task, n |-> w.n, status |-> status, pc |-> "read", late |-> 0] \in Report
  BY DEF BaseTypeOK, Worker, Report
<1> QED
  BY <1>1 DEF Send, BaseTypeOK

LEMMA ReportTypes ==
  ASSUME BaseTypeOK, NEW r \in reports
  PROVE  /\ r \in Report /\ r.task \in Task /\ r.status \in Posts
         /\ AfterReport(r.status) \in WorkerPcs
BY DEF BaseTypeOK, Report, Posts, WorkerPcs, AfterReport

LEMMA ReportMoves ==
  ASSUME NEW r \in Report, NEW late \in Nat
  PROVE  /\ [r EXCEPT !.pc = "write"] \in Report /\ [r EXCEPT !.late = late] \in Report
         /\ [r EXCEPT !.pc = "write"].task = r.task /\ [r EXCEPT !.late = late].task = r.task
         /\ [r EXCEPT !.pc = "write"].status = r.status
         /\ [r EXCEPT !.late = late].status = r.status
BY DEF Report

LEMMA EventTypes ==
  ASSUME BaseTypeOK, NEW kind, Event(kind)
  PROVE  happened' \subseteq EventKinds /\ events' \in Nat
BY DEF BaseTypeOK, Event

LEMMA AnswerTypes ==
  ASSUME BaseTypeOK, NEW r \in reports, Answer(r)
  PROVE  workers' \subseteq Worker /\ reports' \subseteq Report
<1>1. \A w \in workers : [w EXCEPT !.pc = AfterReport(r.status)] \in Worker
  BY WorkerTypes, WorkerMoves, ReportTypes
<1> QED
  BY <1>1 DEF Answer, BaseTypeOK

\* The base's steps, and the part of a cancel that is in the base.
BaseStep == BaseNext \/ \E q \in requests : CancelWrite(q)

LEMMA RequestTypes ==
  ASSUME BaseTypeOK, NEW t \in Task, NEW op \in {"queue", "cancel"}, Admit(t, op)
  PROVE  BaseTypeOK'
<1>1. [task |-> t, op |-> op, n |-> events + 1] \in Request
  BY DEF BaseTypeOK, Request
<1>2. happened' \subseteq EventKinds /\ events' \in Nat
  BY EventTypes DEF Admit
<1> QED
  BY <1>1, <1>2 DEF Admit, BaseTypeOK, observed

LEMMA WriteTypes ==
  ASSUME BaseTypeOK, NEW q \in requests, QueueWrite(q) \/ CancelWrite(q)
  PROVE  BaseTypeOK'
<1>1. q.task \in Task /\ tasks[q.task] \in Row /\ queueings[q.task] + 1 \in Nat
  BY DEF BaseTypeOK, Request
<1>2. \E row \in Row : Update(q.task, row)
  BY <1>1, RowUpdates, QueuedUpdate DEF QueueWrite, CancelWrite
<1>3. tasks' \in [Task -> Row]
  BY <1>1, <1>2, UpdateTask
<1>4. queueings' \in [Task -> Nat]
  BY <1>1 DEF QueueWrite, CancelWrite, observed, BaseTypeOK
<1> QED
  BY <1>3, <1>4 DEF QueueWrite, CancelWrite, BaseTypeOK, observed, budget

LEMMA DispatcherTypes ==
  ASSUME BaseTypeOK, StarterStep \/ StartFails
  PROVE  BaseTypeOK'
<1> SUFFICES BaseTypeOK'
  OBVIOUS
<1> USE DEF handlers, observed, budget
<1>1. ASSUME NEW t \in Task, Pick(t)
      PROVE  BaseTypeOK'
  <2>1. [pc |-> "claim", task |-> t, n |-> queueings[t]] \in Starter
    BY DEF BaseTypeOK, Starter
  <2> QED
    BY <1>1, <2>1 DEF Pick, BaseTypeOK
<1>2. ASSUME Claim \/ FailTask
      PROVE  BaseTypeOK'
  <2>1. starter.task \in Task /\ starter' \in Starter
    BY <1>2, StarterTypes, StarterMoves DEF Claim, FailTask
  <2>2. \E row \in Row : Update(starter.task, row)
    BY <1>2, <2>1, RowUpdates DEF Claim, FailTask, BaseTypeOK
  <2>3. tasks' \in [Task -> Row]
    <3>1. PICK t \in Task : t = starter.task
      BY <2>1
    <3> QED
      BY <2>2, <3>1, UpdateTask
  <2> QED
    BY <1>2, <2>1, <2>3 DEF Claim, FailTask, BaseTypeOK
<1>3. CASE Reload
  BY <1>3, StarterTypes, StarterMoves DEF Reload, BaseTypeOK
<1>4. CASE StartFails
  BY <1>4, StarterTypes, StarterMoves, EventTypes DEF StartFails, BaseTypeOK
<1> QED
  BY <1>1, <1>2, <1>3, <1>4 DEF StarterStep

LEMMA WorkerStepTypes ==
  ASSUME BaseTypeOK, NEW w \in workers, WorkerStep(w) \/ Dies(w)
  PROVE  BaseTypeOK'
<1> SUFFICES BaseTypeOK'
  OBVIOUS
<1> USE DEF handlers, observed, budget
<1>1. w.task \in Task /\ w.pc \in WorkerPcs
  BY WorkerTypes
<1>2. CASE EndsPhase(w)
  <2>1. PICK status \in {PhaseEnd(w.pc), "FAILED"} :
          /\ Becomes(w, status) /\ Send(w, status)
          /\ migrated' = IF status = "SUCCESS" THEN migrated \cup {w.task} ELSE migrated
    BY <1>2 DEF EndsPhase
  <2>2. status \in Posts /\ status \in WorkerPcs
    BY DEF PhaseEnd, Posts, WorkerPcs
  <2>3. workers' \subseteq Worker /\ reports' \subseteq Report
    BY <2>1, <2>2, WorkersMove, SentReport
  <2> QED
    BY <1>1, <1>2, <2>1, <2>3 DEF EndsPhase, BaseTypeOK
<1>3. CASE Resends(w)
  <2>1. reports' \subseteq Report
    BY <1>3, SentReport DEF Resends, Unanswered
  <2> QED
    BY <1>3, <2>1 DEF Resends, BaseTypeOK
<1>4. CASE GivesUp(w)
  <2>1. AfterReport(w.pc) \in WorkerPcs
    BY DEF AfterReport, WorkerPcs
  <2>2. workers' \subseteq Worker
    BY <1>4, <2>1, WorkersMove DEF GivesUp
  <2> QED
    BY <1>4, <2>2 DEF GivesUp, BaseTypeOK
<1>5. CASE Dies(w)
  <2>1. workers' \subseteq Worker
    BY <1>5, WorkersMove DEF Dies, WorkerPcs
  <2>2. happened' \subseteq EventKinds /\ events' \in Nat
    BY <1>5, EventTypes DEF Dies
  <2> QED
    BY <1>5, <2>1, <2>2 DEF Dies, BaseTypeOK
<1> QED
  BY <1>2, <1>3, <1>4, <1>5 DEF WorkerStep

LEMMA HandlerTypes ==
  ASSUME BaseTypeOK, NEW r \in reports,
         ReportStep(r) \/ ReportLost(r) \/ ReportTimesOut(r) \/ ReportDropped(r)
  PROVE  BaseTypeOK'
<1> SUFFICES BaseTypeOK'
  OBVIOUS
<1> USE DEF handlers, observed, budget
<1>1. r \in Report /\ r.task \in Task /\ r.status \in Posts
  BY ReportTypes
<1>2. CASE ReportRead(r)
  <2>1. CASE Answer(r)
    BY <1>2, <2>1, AnswerTypes DEF ReportRead, BaseTypeOK
  <2>2. CASE reports' = (reports \ {r}) \cup {[r EXCEPT !.pc = "write"]} /\ UNCHANGED workers
    <3>1. [r EXCEPT !.pc = "write"] \in Report
      BY <1>1, ReportMoves
    <3> QED
      BY <1>2, <2>2, <3>1 DEF ReportRead, BaseTypeOK
  <2> QED
    BY <1>2, <2>1, <2>2 DEF ReportRead
<1>3. CASE ReportWrite(r)
  <2>1. ReportedRow(tasks[r.task], r.status) \in Row
    BY <1>1, ReportedUpdate DEF BaseTypeOK
  <2>2. tasks' \in [Task -> Row]
    BY <1>1, <1>3, <2>1, UpdateTask DEF ReportWrite
  <2> QED
    BY <1>3, <2>2, AnswerTypes DEF ReportWrite, BaseTypeOK
<1>4. CASE ReportLost(r)
  BY <1>4, EventTypes DEF ReportLost, BaseTypeOK
<1>5. CASE ReportTimesOut(r)
  <2>1. [r EXCEPT !.late = events + 1] \in Report
    <3>1. events + 1 \in Nat
      BY DEF BaseTypeOK
    <3> QED
      BY <1>1, <3>1, ReportMoves
  <2> QED
    BY <1>5, <2>1, EventTypes DEF ReportTimesOut, BaseTypeOK
<1>6. CASE ReportDropped(r)
  BY <1>6 DEF ReportDropped, BaseTypeOK
<1> QED
  BY <1>2, <1>3, <1>4, <1>5, <1>6 DEF ReportStep

LEMMA BaseTypes ==
  ASSUME BaseTypeOK, BaseStep
  PROVE  BaseTypeOK'
BY RequestTypes, WriteTypes, DispatcherTypes, WorkerStepTypes, HandlerTypes
   DEF BaseStep, BaseNext, QueueCheck, CancelCheck

LEMMA WatcherMoves ==
  ASSUME NEW w \in Watcher,
         NEW pc \in {"gone", "check", "fail", "succeeded", "mark", "job", "secret"}
  PROVE  /\ [w EXCEPT !.pc = pc] \in Watcher
         /\ [w EXCEPT !.pc = pc].task = w.task /\ [w EXCEPT !.pc = pc].pc = pc
BY DEF Watcher

LEMMA WatchersMove ==
  ASSUME watchers \subseteq Watcher, NEW w \in watchers,
         NEW pc \in {"gone", "check", "fail", "succeeded", "mark", "job", "secret"},
         Move(w, pc)
  PROVE  watchers' \subseteq Watcher
<1>1. [w EXCEPT !.pc = pc] \in Watcher
  BY WatcherMoves
<1> QED
  BY <1>1 DEF Move

LEMMA JobMoves ==
  ASSUME NEW f \in [Task -> Job], NEW t \in Task,
         NEW state \in {"none", "active", "succeeded", "failed"}
  PROVE  /\ [f EXCEPT ![t].state = state] \in [Task -> Job]
         /\ [f EXCEPT ![t].state = state][t].state = state
         /\ \A u \in Task \ {t} : [f EXCEPT ![t].state = state][u] = f[u]
BY DEF Job

LEMMA Deletions ==
  ASSUME BaseTypeOK, KubernetesTypeOK, NEW t \in Task
  PROVE  /\ DeleteJob(t) => jobs' \in [Task -> Job]
         /\ TryDeleteJob(t) =>
              jobs' \in [Task -> Job] /\ happened' \subseteq EventKinds /\ events' \in Nat
         /\ TryDeleteSecret(t) =>
              secrets' \subseteq Task /\ happened' \subseteq EventKinds /\ events' \in Nat
<1>1. DeleteJob(t) => jobs' \in [Task -> Job]
  BY DEF DeleteJob, KubernetesTypeOK, Job
<1>2. ASSUME TryDeleteJob(t) \/ TryDeleteSecret(t)
      PROVE  happened' \subseteq EventKinds /\ events' \in Nat
  BY <1>2, EventTypes DEF TryDeleteJob, TryDeleteSecret, budget, BaseTypeOK
<1>3. TryDeleteJob(t) => jobs' \in [Task -> Job]
  BY <1>1 DEF TryDeleteJob, KubernetesTypeOK
<1>4. TryDeleteSecret(t) => secrets' \subseteq Task
  BY DEF TryDeleteSecret, DeleteSecret, KubernetesTypeOK
<1> QED
  BY <1>1, <1>2, <1>3, <1>4

LEMMA CleanupTypes ==
  ASSUME KubernetesTypeOK, NEW q \in cancels
  PROVE  q.task \in Task /\ [q EXCEPT !.pc = "secret"] \in Cleanup
BY DEF KubernetesTypeOK, Cleanup

LEMMA KubernetesTypes ==
  ASSUME BaseTypeOK, KubernetesTypeOK, KubernetesNext
  PROVE  BaseTypeOK' /\ KubernetesTypeOK'
<1> DEFINE Goal == BaseTypeOK' /\ KubernetesTypeOK'
<1> USE DEF kubernetesVars, handlers, observed, budget
<1>1. ASSUME BaseNext, UNCHANGED kubernetesVars
      PROVE  Goal
  BY <1>1, BaseTypes DEF BaseStep, KubernetesTypeOK
<1>2. ASSUME NEW q \in requests, CancelTask(q)
      PROVE  Goal
  <2>1. BaseTypeOK'
    BY <1>2, BaseTypes DEF CancelTask, BaseStep
  <2>2. [task |-> q.task, n |-> q.n, pc |-> "job"] \in Cleanup
    BY DEF BaseTypeOK, Request, Cleanup
  <2> QED
    BY <1>2, <2>1, <2>2 DEF CancelTask, KubernetesTypeOK
<1>3. ASSUME NEW q \in cancels, CleanupStep(q)
      PROVE  Goal
  <2>1. q.task \in Task /\ [q EXCEPT !.pc = "secret"] \in Cleanup
    BY CleanupTypes
  <2>2. CASE CancelJob(q)
    BY <2>1, <2>2, Deletions DEF CancelJob, KubernetesTypeOK, BaseTypeOK
  <2>3. CASE CancelSecret(q)
    BY <2>1, <2>3, Deletions DEF CancelSecret, KubernetesTypeOK, BaseTypeOK
  <2> QED
    BY <1>3, <2>2, <2>3 DEF CleanupStep
<1>4. ASSUME CreateSecret
      PROVE  Goal
  <2>1. starter.task \in Task /\ starter' \in Starter
    BY <1>4, StarterTypes, StarterMoves DEF CreateSecret
  <2> QED
    BY <1>4, <2>1 DEF CreateSecret, KubernetesTypeOK, BaseTypeOK
<1>5. ASSUME CreateJob
      PROVE  Goal
  <2>1. PICK t \in Task, n \in Nat : t = starter.task /\ n = starter.n
    BY <1>5, StarterTypes DEF CreateJob
  <2>2. NewWatcher \in Watcher
    BY <2>1 DEF NewWatcher, Watcher
  <2>3. CASE UNCHANGED <<jobs, workers, observed>>
    BY <1>5, <2>2, <2>3, StarterTypes DEF CreateJob, KubernetesTypeOK, BaseTypeOK
  <2>4. CASE /\ jobs' = [jobs EXCEPT ![starter.task] = [state |-> "active", uid |-> starter.n]]
             /\ Launch("waiting")
    <3>1. /\ [state |-> "active", uid |-> n] \in Job
          /\ [task |-> t, n |-> n, pc |-> "waiting"] \in Worker
      BY DEF Job, Worker
    <3>2. jobs' \in [Task -> Job] /\ workers' \subseteq Worker
      BY <2>1, <2>4, <3>1 DEF Launch, KubernetesTypeOK, BaseTypeOK
    <3>3. launched' \in [Task -> Nat]
      BY <2>1, <2>4 DEF Launch, BaseTypeOK
    <3> QED
      BY <1>5, <2>2, <2>4, <3>2, <3>3, StarterTypes
         DEF CreateJob, Launch, KubernetesTypeOK, BaseTypeOK
  <2> QED
    BY <1>5, <2>3, <2>4 DEF CreateJob
<1>6. ASSUME Restart
      PROVE  Goal
  BY <1>6, EventTypes, StarterTypes DEF Restart, Replaced, KubernetesTypeOK, BaseTypeOK
<1>7. ASSUME NEW p \in workers, PodStarts(p) \/ PodStuck(p) \/ PodRemoved(p)
      PROVE  Goal
  <2>1. workers' \subseteq Worker
    BY <1>7, WorkersMove DEF PodStarts, PodStuck, PodRemoved, WorkerPcs, BaseTypeOK
  <2>2. happened' \subseteq EventKinds /\ events' \in Nat
    BY <1>7, EventTypes DEF PodStarts, PodStuck, PodRemoved, BaseTypeOK
  <2> QED
    BY <1>7, <2>1, <2>2 DEF PodStarts, PodStuck, PodRemoved, KubernetesTypeOK, BaseTypeOK
<1>8. ASSUME NEW p \in workers, JobFinishes(p)
      PROVE  Goal
  <2>1. PICK t \in Task, state \in {"none", "active", "succeeded", "failed"} :
          t = p.task /\ state = IF p.pc = "exit0" THEN "succeeded" ELSE "failed"
    BY WorkerTypes
  <2>2. jobs' = [jobs EXCEPT ![t].state = state]
    BY <1>8, <2>1 DEF JobFinishes
  <2>3. jobs' \in [Task -> Job]
    BY <2>2, JobMoves DEF KubernetesTypeOK
  <2> QED
    BY <1>8, <2>3 DEF JobFinishes, KubernetesTypeOK, BaseTypeOK
<1>9. ASSUME NEW p \in workers, PodStops(p)
      PROVE  Goal
  <2>1. workers' \subseteq Worker
    BY <1>9, WorkersMove DEF PodStops, WorkerPcs, Posts
  <2>2. reports' \subseteq Report
    BY <1>9, SentReport DEF PodStops, Posts
  <2>3. happened' \subseteq EventKinds /\ events' \in Nat
    BY <1>9, EventTypes DEF PodStops, BaseTypeOK
  <2> QED
    BY <1>9, <2>1, <2>2, <2>3 DEF PodStops, KubernetesTypeOK, BaseTypeOK
<1>10. ASSUME NEW t \in Task, TTLExpires(t)
       PROVE  Goal
  BY <1>10, Deletions, EventTypes DEF TTLExpires, KubernetesTypeOK, BaseTypeOK
<1>11. ASSUME NEW w \in watchers,
              \/ Poll(w) \/ CheckGone(w) \/ CheckStillActive(w) \/ CheckSucceeded(w)
              \/ MarkFailed(w) \/ MarkSuccess(w) \/ WatcherSkips(w)
       PROVE  Goal
  <2>1. w \in Watcher /\ w.task \in Task
    BY DEF KubernetesTypeOK, Watcher
  <2>2. \E pc \in {"gone", "check", "fail", "succeeded", "mark", "job", "secret"} : Move(w, pc)
    BY <1>11, <2>1 DEF Poll, CheckGone, CheckStillActive, CheckSucceeded, MarkFailed, MarkSuccess,
       WatcherSkips, KubernetesTypeOK, Job
  <2>3. watchers' \subseteq Watcher
    BY <2>2, WatchersMove DEF KubernetesTypeOK
  <2>4. tasks' \in [Task -> Row]
    BY <1>11, <2>1, RowUpdates, UpdateTask DEF Poll, CheckGone, CheckStillActive, CheckSucceeded,
       MarkFailed, MarkSuccess, WatcherSkips, BaseTypeOK, baseVars
  <2>5. happened' \subseteq EventKinds /\ events' \in Nat
    BY <1>11, EventTypes DEF Poll, CheckGone, CheckStillActive, CheckSucceeded, MarkFailed,
       MarkSuccess, WatcherSkips, BaseTypeOK, baseVars
  <2> QED
    BY <1>11, <2>3, <2>4, <2>5 DEF Poll, CheckGone, CheckStillActive, CheckSucceeded, MarkFailed,
       MarkSuccess, WatcherSkips, KubernetesTypeOK, BaseTypeOK, baseVars
<1>12. ASSUME NEW w \in watchers, CleanJob(w) \/ CleanSecret(w) \/ WatchExpires(w)
       PROVE  Goal
  <2>1. w.task \in Task
    BY DEF KubernetesTypeOK, Watcher
  <2>2. CASE CleanJob(w)
    <3>1. watchers' \subseteq Watcher
      BY <2>2, WatchersMove DEF CleanJob, KubernetesTypeOK
    <3> QED
      BY <2>1, <2>2, <3>1, Deletions DEF CleanJob, KubernetesTypeOK, BaseTypeOK
  <2>3. CASE CleanSecret(w)
    BY <2>1, <2>3, Deletions DEF CleanSecret, KubernetesTypeOK, BaseTypeOK
  <2>4. CASE WatchExpires(w)
    BY <2>4, EventTypes DEF WatchExpires, KubernetesTypeOK, BaseTypeOK
  <2> QED
    BY <1>12, <2>2, <2>3, <2>4
<1> QED
  BY <1>1, <1>2, <1>3, <1>4, <1>5, <1>6, <1>7, <1>8, <1>9, <1>10, <1>11, <1>12
     DEF KubernetesNext, PodStep, WatcherStep

LEMMA WaiterMoves ==
  ASSUME NEW g \in Waiter, NEW pc \in {"exit0", "exit1", "mark", "fail"}
  PROVE  /\ [g EXCEPT !.pc = pc] \in Waiter
         /\ [g EXCEPT !.pc = pc].task = g.task /\ [g EXCEPT !.pc = pc].pc = pc
BY DEF Waiter

LEMMA LocalTypes ==
  ASSUME BaseTypeOK, LocalTypeOK, LocalNext
  PROVE  BaseTypeOK' /\ LocalTypeOK'
<1> DEFINE Goal == BaseTypeOK' /\ LocalTypeOK'
<1> USE DEF handlers, observed, budget
<1>1. ASSUME BaseStep, UNCHANGED waiters
      PROVE  Goal
  BY <1>1, BaseTypes DEF LocalTypeOK
<1>2. ASSUME StartProcess
      PROVE  Goal
  <2>1. PICK t \in Task, n \in Nat : t = starter.task /\ n = starter.n
    BY <1>2, StarterTypes DEF StartProcess
  <2>2. /\ [task |-> t, n |-> n, pc |-> "boot"] \in Worker
        /\ [task |-> t, n |-> n, pc |-> "wait"] \in Waiter
    BY DEF Worker, Waiter
  <2>3. launched' \in [Task -> Nat]
    BY <1>2, <2>1 DEF StartProcess, Launch, BaseTypeOK
  <2> QED
    BY <1>2, <2>1, <2>2, <2>3, StarterTypes DEF StartProcess, Launch, LocalTypeOK, BaseTypeOK
<1>3. ASSUME Shutdown \/ Crash
      PROVE  Goal
  BY <1>3, EventTypes, StarterTypes DEF Shutdown, Crash, Replaced, LocalTypeOK, BaseTypeOK
<1>4. ASSUME NEW g \in waiters, WaiterStep(g) \/ WaiterSkips(g)
      PROVE  Goal
  <2>1. g \in Waiter /\ g.task \in Task
    BY DEF LocalTypeOK, Waiter
  <2>2. \/ \E pc \in {"exit0", "exit1", "mark", "fail"} : Proceeds(g, pc)
        \/ waiters' = waiters \ {g}
    BY <1>4 DEF WaiterStep, Waited, ReadsRow, Settles, WaiterSkips
  <2>3. waiters' \subseteq Waiter
    BY <2>1, <2>2, WaiterMoves DEF Proceeds, LocalTypeOK
  <2>4. tasks' \in [Task -> Row]
    BY <1>4, <2>1, RowUpdates, UpdateTask DEF WaiterStep, Waited, ReadsRow, Settles, WaiterSkips,
       BaseTypeOK, baseVars
  <2>5. happened' \subseteq EventKinds /\ events' \in Nat
    BY <1>4, EventTypes DEF WaiterStep, Waited, ReadsRow, Settles, WaiterSkips, BaseTypeOK, baseVars
  <2>6. workers' \subseteq workers
    BY <1>4 DEF WaiterStep, Waited, ReadsRow, Settles, WaiterSkips, baseVars
  <2> QED
    BY <1>4, <2>3, <2>4, <2>5, <2>6 DEF WaiterStep, Waited, ReadsRow, Settles, WaiterSkips,
       LocalTypeOK, BaseTypeOK, baseVars
<1> QED
  BY <1>1, <1>2, <1>3, <1>4 DEF LocalNext, BaseStep, CancelRow

\* Rows, workers, handlers, requests, the cluster and the goroutines keep their
\* forms under either runner, whatever fails.
THEOREM RunnersTypes == Spec => []TypeOK
<1>1. Init => TypeOK
  BY DEF Init, BaseInit, KubernetesInit, LocalInit, TypeOK, BaseTypeOK, KubernetesTypeOK,
     LocalTypeOK, NewRow, Row, Status, Job, Starter
<1>2. TypeOK /\ [Next]_vars => TypeOK'
  <2> SUFFICES ASSUME TypeOK, [Next]_vars PROVE TypeOK'
    OBVIOUS
  <2>1. CASE InKubernetes(KubernetesNext)
    BY <2>1, KubernetesTypes DEF InKubernetes, TypeOK, LocalTypeOK
  <2>2. CASE InLocal(LocalNext)
    BY <2>2, LocalTypes DEF InLocal, TypeOK, KubernetesTypeOK, kubernetesVars
  <2>3. CASE UNCHANGED vars
    BY <2>3 DEF vars, baseVars, kubernetesVars, handlers, observed, budget, TypeOK, BaseTypeOK,
       KubernetesTypeOK, LocalTypeOK
  <2> QED
    BY <2>1, <2>2, <2>3 DEF Next
<1> QED
  BY <1>1, <1>2, PTL DEF Spec

(***************************************************************************)
(* SUCCESS is real.  Whoever may still write it knows of a worker that has *)
(* finished Migrate: the worker itself and its report, a Job that          *)
(* succeeded, a watcher that has seen such a Job, a goroutine whose        *)
(* process exited with 0.                                                  *)
(***************************************************************************)
WorkersReal == \A w \in workers : w.pc \in {"SUCCESS", "exit0"} => w.task \in migrated
ReportsReal == \A r \in reports : r.status = "SUCCESS" => r.task \in migrated

JobsReal == \A t \in Task : jobs[t].state = "succeeded" => t \in migrated
WatchersReal == \A w \in watchers : w.pc \in {"succeeded", "mark"} => w.task \in migrated
WaitersReal == \A g \in waiters : g.pc \in {"exit0", "mark"} => g.task \in migrated

BaseReal == SuccessIsReal /\ WorkersReal /\ ReportsReal

\* Of a task whose row was written, or not.
LEMMA RowsStayReal ==
  ASSUME BaseTypeOK, SuccessIsReal, migrated \subseteq migrated', NEW u \in Task,
         NEW row \in Row, Update(u, row), row.status = "SUCCESS" => u \in migrated'
  PROVE  SuccessIsReal'
BY UpdateTask DEF SuccessIsReal

LEMMA BecomesReal ==
  ASSUME BaseTypeOK, WorkersReal, migrated \subseteq migrated', NEW w \in workers,
         NEW pc \in WorkerPcs, Becomes(w, pc), pc \in {"SUCCESS", "exit0"} => w.task \in migrated'
  PROVE  WorkersReal'
<1>1. [w EXCEPT !.pc = pc].task = w.task /\ [w EXCEPT !.pc = pc].pc = pc
  BY WorkerTypes, WorkerMoves
<1> QED
  BY <1>1 DEF Becomes, WorkersReal

LEMMA SendReal ==
  ASSUME ReportsReal, migrated \subseteq migrated', NEW w, NEW status,
         Send(w, status), status = "SUCCESS" => w.task \in migrated'
  PROVE  ReportsReal'
BY DEF Send, ReportsReal

LEMMA AnswerReal ==
  ASSUME BaseTypeOK, WorkersReal, ReportsReal, NEW r \in reports, Answer(r), migrated' = migrated
  PROVE  WorkersReal' /\ ReportsReal'
<1>1. ReportsReal'
  BY DEF Answer, ReportsReal
<1>2. ASSUME NEW w \in workers'
      PROVE  w.pc \in {"SUCCESS", "exit0"} => w.task \in migrated
  <2>1. PICK v \in workers :
          w = IF Awaits(v, r) THEN [v EXCEPT !.pc = AfterReport(r.status)] ELSE v
    BY <1>2 DEF Answer
  <2>2. CASE Awaits(v, r)
    <3>1. w.task = v.task /\ w.pc = AfterReport(r.status)
      BY <2>1, <2>2, WorkerTypes, WorkerMoves, ReportTypes
    <3>2. w.pc \in {"SUCCESS", "exit0"} => r.status = "SUCCESS"
      BY <3>1 DEF AfterReport
    <3> QED
      BY <2>2, <3>1, <3>2 DEF Awaits, ReportsReal
  <2>3. CASE ~Awaits(v, r)
    BY <2>1, <2>3 DEF WorkersReal
  <2> QED
    BY <2>2, <2>3
<1> QED
  BY <1>1, <1>2 DEF WorkersReal

LEMMA BaseStaysReal ==
  ASSUME BaseTypeOK, BaseReal, BaseStep
  PROVE  BaseReal' /\ migrated \subseteq migrated'
<1> DEFINE Goal == BaseReal' /\ migrated \subseteq migrated'
<1> USE DEF handlers, observed, BaseReal
<1>1. ASSUME UNCHANGED <<tasks, workers, reports, migrated>>
      PROVE  Goal
  BY <1>1 DEF SuccessIsReal, WorkersReal, ReportsReal
<1>2. ASSUME NEW t \in Task, NEW row \in Row, Update(t, row), row.status # "SUCCESS",
             UNCHANGED <<workers, reports, migrated>>
      PROVE  Goal
  BY <1>2, RowsStayReal DEF WorkersReal, ReportsReal
<1>3. ASSUME NEW t \in Task, QueueCheck(t) \/ CancelCheck(t)
      PROVE  Goal
  BY <1>1, <1>3 DEF QueueCheck, CancelCheck, Admit
<1>4. ASSUME NEW q \in requests, QueueWrite(q) \/ CancelWrite(q)
      PROVE  Goal
  <2>1. q.task \in Task /\ tasks[q.task] \in Row /\ queueings[q.task] + 1 \in Nat
    BY DEF BaseTypeOK, Request
  <2>2. \E row \in Row : Update(q.task, row) /\ row.status # "SUCCESS"
    BY <1>4, <2>1, RowUpdates, QueuedUpdate DEF QueueWrite, CancelWrite
  <2> QED
    BY <1>2, <1>4, <2>1, <2>2 DEF QueueWrite, CancelWrite
<1>5. ASSUME StarterStep \/ StartFails
      PROVE  Goal
  <2>1. CASE Claim \/ FailTask
    <3>1. PICK t \in Task : t = starter.task
      BY <2>1, StarterTypes DEF Claim, FailTask
    <3>2. \E row \in Row : Update(t, row) /\ row.status # "SUCCESS"
      BY <2>1, <3>1, RowUpdates DEF Claim, FailTask, BaseTypeOK
    <3> QED
      BY <1>2, <2>1, <3>2 DEF Claim, FailTask
  <2>2. CASE ~(Claim \/ FailTask)
    BY <1>1, <1>5, <2>2 DEF StarterStep, Pick, Reload, StartFails
  <2> QED
    BY <2>1, <2>2
<1>6. ASSUME NEW w \in workers, EndsPhase(w)
      PROVE  Goal
  <2>1. PICK status \in {PhaseEnd(w.pc), "FAILED"} :
          /\ Becomes(w, status) /\ Send(w, status)
          /\ migrated' = IF status = "SUCCESS" THEN migrated \cup {w.task} ELSE migrated
    BY <1>6 DEF EndsPhase
  <2>2. status \in WorkerPcs /\ status # "exit0"
    BY DEF PhaseEnd, Posts, WorkerPcs
  <2>3. WorkersReal' /\ ReportsReal'
    BY <2>1, <2>2, BecomesReal, SendReal
  <2>4. SuccessIsReal'
    BY <1>6, <2>1 DEF EndsPhase, SuccessIsReal
  <2> QED
    BY <2>1, <2>3, <2>4
<1>7. ASSUME NEW w \in workers, Resends(w)
      PROVE  Goal
  <2>1. ReportsReal'
    BY <1>7, SendReal DEF Resends, WorkersReal
  <2> QED
    BY <1>7, <2>1 DEF Resends, SuccessIsReal, WorkersReal
<1>8. ASSUME NEW w \in workers, GivesUp(w) \/ Dies(w)
      PROVE  Goal
  <2>1. \E pc \in WorkerPcs :
          Becomes(w, pc) /\ (pc \in {"SUCCESS", "exit0"} => w.task \in migrated)
    <3>1. CASE GivesUp(w)
      <4>1. AfterReport(w.pc) \in WorkerPcs
        BY DEF AfterReport, WorkerPcs
      <4>2. AfterReport(w.pc) \in {"SUCCESS", "exit0"} => w.pc = "SUCCESS"
        BY DEF AfterReport
      <4> QED
        BY <3>1, <4>1, <4>2 DEF GivesUp, WorkersReal
    <3>2. CASE Dies(w)
      BY <3>2 DEF Dies, WorkerPcs
    <3> QED
      BY <1>8, <3>1, <3>2
  <2>2. UNCHANGED <<tasks, reports, migrated>>
    BY <1>8 DEF GivesUp, Dies
  <2>3. WorkersReal'
    BY <2>1, <2>2, BecomesReal
  <2> QED
    BY <2>2, <2>3 DEF SuccessIsReal, ReportsReal
<1>9. ASSUME NEW r \in reports, ReportRead(r)
      PROVE  Goal
  <2>1. CASE Answer(r)
    BY <1>9, <2>1, AnswerReal DEF ReportRead, SuccessIsReal
  <2>2. CASE reports' = (reports \ {r}) \cup {[r EXCEPT !.pc = "write"]} /\ UNCHANGED workers
    <3>1. [r EXCEPT !.pc = "write"].task = r.task /\ [r EXCEPT !.pc = "write"].status = r.status
      <4>1. r \in Report /\ 0 \in Nat
        BY ReportTypes
      <4> QED
        BY ONLY <4>1 DEF Report
    <3>2. ReportsReal'
      BY <1>9, <2>2, <3>1 DEF ReportRead, ReportsReal
    <3> QED
      BY <1>9, <2>2, <3>2 DEF ReportRead, SuccessIsReal, WorkersReal
  <2> QED
    BY <1>9, <2>1, <2>2 DEF ReportRead
<1>10. ASSUME NEW r \in reports, ReportWrite(r)
       PROVE  Goal
  <2>1. /\ r.task \in Task
        /\ ReportedRow(tasks[r.task], r.status) \in Row
        /\ ReportedRow(tasks[r.task], r.status).status = r.status
    BY ReportTypes, ReportedUpdate DEF BaseTypeOK
  <2>2. r.status = "SUCCESS" => r.task \in migrated
    BY DEF ReportsReal
  <2>3. migrated' = migrated
    BY <1>10 DEF ReportWrite
  <2>4. SuccessIsReal'
    BY <1>10, <2>1, <2>2, <2>3, RowsStayReal DEF ReportWrite
  <2> QED
    BY <1>10, <2>3, <2>4, AnswerReal DEF ReportWrite
<1>11. ASSUME NEW r \in reports, ReportLost(r) \/ ReportTimesOut(r) \/ ReportDropped(r)
       PROVE  Goal
  <2>1. [r EXCEPT !.late = events + 1].task = r.task
        /\ [r EXCEPT !.late = events + 1].status = r.status
    <3>1. events + 1 \in Nat
      BY DEF BaseTypeOK
    <3> QED
      BY <3>1, ReportTypes, ReportMoves
  <2>2. ReportsReal'
    BY <1>11, <2>1 DEF ReportLost, ReportTimesOut, ReportDropped, ReportsReal
  <2> QED
    BY <1>11, <2>2 DEF ReportLost, ReportTimesOut, ReportDropped, SuccessIsReal, WorkersReal
<1> QED
  BY <1>3, <1>4, <1>5, <1>6, <1>7, <1>8, <1>9, <1>10, <1>11
     DEF BaseStep, BaseNext, WorkerStep, ReportStep

LEMMA DeletedJobs ==
  ASSUME BaseTypeOK, KubernetesTypeOK, NEW t \in Task
  PROVE  DeleteJob(t) \/ TryDeleteJob(t) =>
           \A u \in Task : jobs'[u].state = "succeeded" => jobs[u].state = "succeeded"
BY DEF DeleteJob, TryDeleteJob, KubernetesTypeOK, Job

LEMMA WatcherReal ==
  ASSUME KubernetesTypeOK, WatchersReal, migrated' = migrated, NEW w \in watchers,
         NEW pc \in {"gone", "check", "fail", "succeeded", "mark", "job", "secret"},
         Move(w, pc), pc \in {"succeeded", "mark"} => w.task \in migrated
  PROVE  WatchersReal'
<1>1. [w EXCEPT !.pc = pc].task = w.task /\ [w EXCEPT !.pc = pc].pc = pc
  BY WatcherMoves DEF KubernetesTypeOK
<1> QED
  BY <1>1 DEF Move, WatchersReal

LEMMA KubernetesReal ==
  ASSUME BaseTypeOK, KubernetesTypeOK, BaseReal, JobsReal, WatchersReal, KubernetesNext
  PROVE  BaseReal' /\ JobsReal' /\ WatchersReal' /\ migrated \subseteq migrated'
<1> DEFINE Goal == BaseReal' /\ JobsReal' /\ WatchersReal' /\ migrated \subseteq migrated'
<1> USE DEF kubernetesVars, handlers, observed
<1>1. ASSUME UNCHANGED <<tasks, workers, reports, migrated>>
      PROVE  BaseReal'
  BY <1>1 DEF BaseReal, SuccessIsReal, WorkersReal, ReportsReal
<1>2. ASSUME BaseStep, UNCHANGED <<jobs, watchers>>
      PROVE  Goal
  BY <1>2, BaseStaysReal DEF JobsReal, WatchersReal
<1>3. ASSUME NEW q \in cancels, CleanupStep(q)
      PROVE  Goal
  <2>1. \A u \in Task : jobs'[u].state = "succeeded" => jobs[u].state = "succeeded"
    BY <1>3, CleanupTypes, DeletedJobs DEF CleanupStep, CancelJob, CancelSecret
  <2>2. UNCHANGED <<tasks, workers, reports, migrated, watchers>>
    BY <1>3 DEF CleanupStep, CancelJob, CancelSecret
  <2> QED
    BY <1>1, <2>1, <2>2 DEF JobsReal, WatchersReal
<1>4. ASSUME CreateSecret
      PROVE  Goal
  BY <1>1, <1>4 DEF CreateSecret, JobsReal, WatchersReal
<1>5. ASSUME CreateJob
      PROVE  Goal
  <2>1. PICK t \in Task : t = starter.task
    BY <1>5, StarterTypes DEF CreateJob
  <2>2. \A u \in Task : jobs'[u].state = "succeeded" => jobs[u].state = "succeeded"
    BY <1>5, <2>1 DEF CreateJob, KubernetesTypeOK
  <2>3. \A w \in workers' : w \in workers \/ w.pc = "waiting"
    BY <1>5 DEF CreateJob, Launch
  <2>4. \A w \in watchers' : w \in watchers \/ w.pc = "poll"
    BY <1>5 DEF CreateJob, NewWatcher
  <2>5. UNCHANGED <<tasks, reports, migrated>>
    BY <1>5 DEF CreateJob, Launch
  <2> QED
    BY <2>2, <2>3, <2>4, <2>5
       DEF BaseReal, SuccessIsReal, WorkersReal, ReportsReal, JobsReal, WatchersReal
<1>6. ASSUME Restart
      PROVE  Goal
  BY <1>6 DEF Restart, Replaced, BaseReal, SuccessIsReal, WorkersReal, ReportsReal, JobsReal,
     WatchersReal
<1>7. ASSUME NEW p \in workers, PodStarts(p) \/ PodStuck(p) \/ PodRemoved(p)
      PROVE  Goal
  <2>1. WorkersReal'
    <3>1. CASE PodRemoved(p)
      BY <3>1 DEF PodRemoved, BaseReal, WorkersReal
    <3>2. CASE PodStarts(p) \/ PodStuck(p)
      BY <3>2, BecomesReal DEF PodStarts, PodStuck, WorkerPcs, BaseReal
    <3> QED
      BY <1>7, <3>1, <3>2
  <2>2. UNCHANGED <<tasks, reports, migrated, jobs, watchers>>
    BY <1>7 DEF PodStarts, PodStuck, PodRemoved
  <2> QED
    BY <2>1, <2>2 DEF BaseReal, SuccessIsReal, ReportsReal, JobsReal, WatchersReal
<1>8. ASSUME NEW p \in workers, JobFinishes(p)
      PROVE  Goal
  <2>1. PICK t \in Task, state \in {"none", "active", "succeeded", "failed"} :
          t = p.task /\ state = IF p.pc = "exit0" THEN "succeeded" ELSE "failed"
    BY WorkerTypes
  <2>2. jobs' = [jobs EXCEPT ![t].state = state]
    BY <1>8, <2>1 DEF JobFinishes
  <2>3. \A u \in Task : jobs'[u].state = "succeeded" =>
          jobs[u].state = "succeeded" \/ (u = p.task /\ p.pc = "exit0")
    BY <2>1, <2>2, JobMoves DEF KubernetesTypeOK
  <2>4. UNCHANGED <<tasks, reports, migrated, watchers>> /\ workers' \subseteq workers
    BY <1>8 DEF JobFinishes
  <2> QED
    BY <2>3, <2>4 DEF BaseReal, SuccessIsReal, WorkersReal, ReportsReal, JobsReal, WatchersReal
<1>9. ASSUME NEW p \in workers, PodStops(p)
      PROVE  Goal
  <2>1. WorkersReal'
    BY <1>9, BecomesReal DEF PodStops, WorkerPcs, Posts, BaseReal
  <2>2. ReportsReal'
    <3>1. Send(p, "CANCELLED") /\ migrated' = migrated
      BY <1>9 DEF PodStops
    <3> QED
      BY <3>1 DEF Send, BaseReal, ReportsReal
  <2> QED
    BY <1>9, <2>1, <2>2 DEF PodStops, BaseReal, SuccessIsReal, JobsReal, WatchersReal
<1>10. ASSUME NEW t \in Task, TTLExpires(t)
       PROVE  Goal
  BY <1>1, <1>10, DeletedJobs DEF TTLExpires, JobsReal, WatchersReal
<1>11. ASSUME NEW w \in watchers, Poll(w)
       PROVE  Goal
  <2>1. w.task \in Task
    BY DEF KubernetesTypeOK, Watcher
  <2>2. \/ Move(w, "gone") \/ Move(w, "check")
        \/ Move(w, "succeeded") /\ jobs[w.task].state = "succeeded"
    BY <1>11, <2>1 DEF Poll, KubernetesTypeOK, Job
  <2>3. WatchersReal'
    BY <1>11, <2>1, <2>2, WatcherReal DEF Poll, baseVars, JobsReal
  <2> QED
    BY <1>1, <1>11, <2>3 DEF Poll, baseVars, JobsReal
<1>12. ASSUME NEW w \in watchers, CheckGone(w) \/ CheckStillActive(w) \/ CheckSucceeded(w)
       PROVE  Goal
  <2>1. \/ \E pc \in {"job", "check", "fail"} : Move(w, pc)
        \/ Move(w, "mark") /\ w.pc = "succeeded"
    BY <1>12 DEF CheckGone, CheckStillActive, CheckSucceeded
  <2>2. UNCHANGED <<tasks, workers, reports, migrated, jobs>>
    BY <1>12 DEF CheckGone, CheckStillActive, CheckSucceeded, baseVars
  <2>3. WatchersReal'
    BY <2>1, <2>2, WatcherReal DEF WatchersReal
  <2> QED
    BY <1>1, <2>2, <2>3 DEF JobsReal
<1>13. ASSUME NEW w \in watchers, MarkFailed(w) \/ MarkSuccess(w)
       PROVE  Goal
  <2>1. w.task \in Task /\ tasks[w.task] \in Row
    BY DEF KubernetesTypeOK, Watcher, BaseTypeOK
  <2>2. \E row \in Row :
          Update(w.task, row) /\ (row.status = "SUCCESS" => w.task \in migrated)
    BY <1>13, <2>1, RowUpdates DEF MarkFailed, MarkSuccess, WatchersReal
  <2>3. UNCHANGED <<workers, reports, migrated, jobs>>
    BY <1>13 DEF MarkFailed, MarkSuccess
  <2>4. SuccessIsReal'
    BY <2>1, <2>2, <2>3, RowsStayReal DEF BaseReal
  <2>5. WatchersReal'
    BY <1>13, <2>3, WatcherReal DEF MarkFailed, MarkSuccess
  <2> QED
    BY <2>3, <2>4, <2>5 DEF BaseReal, WorkersReal, ReportsReal, JobsReal
<1>14. ASSUME NEW w \in watchers, WatcherSkips(w) \/ CleanJob(w)
       PROVE  Goal
  <2>1. WatchersReal'
    BY <1>14, WatcherReal DEF WatcherSkips, CleanJob
  <2>2. \A u \in Task : jobs'[u].state = "succeeded" => jobs[u].state = "succeeded"
    BY <1>14, DeletedJobs DEF WatcherSkips, CleanJob, KubernetesTypeOK, Watcher
  <2> QED
    BY <1>1, <1>14, <2>1, <2>2 DEF WatcherSkips, CleanJob, JobsReal
<1>15. ASSUME NEW w \in watchers, CleanSecret(w) \/ WatchExpires(w)
       PROVE  Goal
  BY <1>1, <1>15 DEF CleanSecret, WatchExpires, JobsReal, WatchersReal
<1> QED
  BY <1>2, <1>3, <1>4, <1>5, <1>6, <1>7, <1>8, <1>9, <1>10, <1>11, <1>12, <1>13, <1>14, <1>15
     DEF KubernetesNext, BaseStep, CancelTask, PodStep, WatcherStep

LEMMA LocalReal ==
  ASSUME BaseTypeOK, LocalTypeOK, BaseReal, WaitersReal, LocalNext
  PROVE  BaseReal' /\ WaitersReal' /\ migrated \subseteq migrated'
<1> DEFINE Goal == BaseReal' /\ WaitersReal' /\ migrated \subseteq migrated'
<1> USE DEF handlers, observed
<1>1. ASSUME BaseStep, UNCHANGED waiters
      PROVE  Goal
  BY <1>1, BaseStaysReal DEF WaitersReal
<1>2. ASSUME StartProcess
      PROVE  Goal
  BY <1>2 DEF StartProcess, Launch, BaseReal, SuccessIsReal, WorkersReal, ReportsReal, WaitersReal
<1>3. ASSUME Shutdown \/ Crash
      PROVE  Goal
  BY <1>3 DEF Shutdown, Crash, Replaced, BaseReal, SuccessIsReal, WorkersReal, ReportsReal,
     WaitersReal
<1>4. ASSUME NEW g \in waiters, NEW pc \in {"exit0", "exit1", "mark", "fail"}, Proceeds(g, pc),
             migrated' = migrated, pc \in {"exit0", "mark"} => g.task \in migrated
      PROVE  WaitersReal'
  <2>1. [g EXCEPT !.pc = pc].task = g.task /\ [g EXCEPT !.pc = pc].pc = pc
    BY WaiterMoves DEF LocalTypeOK
  <2> QED
    BY <1>4, <2>1 DEF Proceeds, WaitersReal
<1>5. ASSUME NEW g \in waiters, Waited(g)
      PROVE  Goal
  <2>1. PICK p \in workers :
          /\ p.task = g.task /\ p.n = g.n /\ p.pc \in {"exit0", "exit1"}
          /\ Proceeds(g, p.pc)
          /\ workers' = workers \ {p}
    BY <1>5 DEF Waited
  <2>2. UNCHANGED <<tasks, reports, migrated>>
    BY <1>5 DEF Waited
  <2>3. WaitersReal'
    BY <1>4, <2>1, <2>2 DEF BaseReal, WorkersReal
  <2> QED
    BY <2>1, <2>2, <2>3 DEF BaseReal, SuccessIsReal, WorkersReal, ReportsReal
<1>6. ASSUME NEW g \in waiters, ReadsRow(g)
      PROVE  Goal
  <2>1. \/ waiters' = waiters \ {g}
        \/ Proceeds(g, "fail")
        \/ Proceeds(g, "mark") /\ g.pc = "exit0"
    BY <1>6 DEF ReadsRow
  <2>2. WaitersReal'
    BY <1>4, <1>6, <2>1 DEF ReadsRow, baseVars, WaitersReal
  <2> QED
    BY <1>6, <2>2 DEF ReadsRow, baseVars, BaseReal, SuccessIsReal, WorkersReal, ReportsReal
<1>7. ASSUME NEW g \in waiters, Settles(g)
      PROVE  Goal
  <2>1. g.task \in Task /\ tasks[g.task] \in Row
    BY DEF LocalTypeOK, Waiter, BaseTypeOK
  <2>2. \E row \in Row :
          Update(g.task, row) /\ (row.status = "SUCCESS" => g.task \in migrated)
    BY <1>7, <2>1, RowUpdates DEF Settles, WaitersReal
  <2>3. UNCHANGED <<workers, reports, migrated>> /\ waiters' \subseteq waiters
    BY <1>7 DEF Settles
  <2>4. SuccessIsReal'
    BY <2>1, <2>2, <2>3, RowsStayReal DEF BaseReal
  <2> QED
    BY <2>3, <2>4 DEF BaseReal, WorkersReal, ReportsReal, WaitersReal
<1>8. ASSUME NEW g \in waiters, WaiterSkips(g)
      PROVE  Goal
  BY <1>8 DEF WaiterSkips, BaseReal, SuccessIsReal, WorkersReal, ReportsReal, WaitersReal
<1> QED
  BY <1>1, <1>2, <1>3, <1>5, <1>6, <1>7, <1>8 DEF LocalNext, BaseStep, CancelRow, WaiterStep

RealInv == BaseReal /\ JobsReal /\ WatchersReal /\ WaitersReal

LEMMA RealInvariant == Spec => []RealInv
<1>1. Init => RealInv
  BY DEF Init, BaseInit, KubernetesInit, LocalInit, NewRow, RealInv, BaseReal, SuccessIsReal,
     WorkersReal, ReportsReal, JobsReal, WatchersReal, WaitersReal
<1>2. TypeOK /\ RealInv /\ [Next]_vars => RealInv'
  <2> SUFFICES ASSUME TypeOK, RealInv, [Next]_vars PROVE RealInv'
    OBVIOUS
  <2>1. CASE InKubernetes(KubernetesNext)
    BY <2>1, KubernetesReal DEF InKubernetes, TypeOK, RealInv, WaitersReal
  <2>2. CASE InLocal(LocalNext)
    BY <2>2, LocalReal DEF InLocal, TypeOK, RealInv, kubernetesVars, JobsReal, WatchersReal
  <2>3. CASE UNCHANGED vars
    BY <2>3 DEF vars, baseVars, kubernetesVars, handlers, observed, RealInv, BaseReal,
       SuccessIsReal, WorkersReal, ReportsReal, JobsReal, WatchersReal, WaitersReal
  <2> QED
    BY <2>1, <2>2, <2>3 DEF Next
<1> QED
  BY <1>1, <1>2, RunnersTypes, PTL DEF Spec

\* Whatever dies, is lost, late or refused, with either runner: SUCCESS is said
\* only of a task of which a worker has finished Migrate.
THEOREM SuccessesAreReal == Spec => []SuccessIsReal
<1>1. RealInv => SuccessIsReal
  BY DEF RealInv, BaseReal
<1> QED
  BY <1>1, RealInvariant, PTL

(***************************************************************************)
(* The ledger.  A pod is created by a Start that finds no Job, a process   *)
(* by every Start that is not refused; a Start comes of a queued row, and  *)
(* a row is queued by a request: what is on its way is counted with what   *)
(* was launched.  Between Pick and the claim the row and the starter stand *)
(* for the same queueing.                                                  *)
(***************************************************************************)
One(b) == IF b THEN 1 ELSE 0
Waits(t) == IsQueued(tasks[t]) \/ (starter.pc = "claim" /\ starter.task = t)
Starting(t) == starter.pc \in {"reload", "start", "job"} /\ starter.task = t

LaunchesCounted ==
  \A t \in Task : launched[t] + One(Waits(t)) + One(Starting(t)) <= queueings[t]

\* A step that queues nothing, starts nothing and launches nothing ...
Uneventful ==
  /\ UNCHANGED <<queueings, launched>>
  /\ \A t \in Task : (Waits(t)' => Waits(t)) /\ (Starting(t)' => Starting(t))

\* ... the one that queues, which may find the task queued or claimed ...
Queueing(u) ==
  /\ queueings' = [queueings EXCEPT ![u] = @ + 1]
  /\ UNCHANGED <<starter, launched>>
  /\ \A t \in Task \ {u} : tasks'[t] = tasks[t]

\* ... the claim ...
Claiming ==
  /\ starter.pc = "claim" /\ starter.task \in Task
  /\ starter'.pc = "reload" /\ starter'.task = starter.task
  /\ tasks'[starter.task].status = "PREPARING"
  /\ \A t \in Task \ {starter.task} : tasks'[t] = tasks[t]
  /\ UNCHANGED <<queueings, launched>>

\* ... and the one that launches.
Launching ==
  /\ starter.pc \in {"start", "job"} /\ starter.task \in Task
  /\ launched' = [launched EXCEPT ![starter.task] = @ + 1]
  /\ starter' = Idle /\ UNCHANGED <<tasks, queueings>>

LEMMA CountsKept ==
  ASSUME BaseTypeOK, LaunchesCounted,
         Uneventful \/ Claiming \/ Launching \/ \E u \in Task : Queueing(u)
  PROVE  LaunchesCounted'
<1> SUFFICES ASSUME NEW t \in Task
             PROVE  launched'[t] + One(Waits(t))' + One(Starting(t))' <= queueings'[t]
  BY DEF LaunchesCounted
<1>1. /\ launched \in [Task -> Nat] /\ launched[t] \in Nat
      /\ queueings \in [Task -> Nat] /\ queueings[t] \in Nat
  BY DEF BaseTypeOK
<1>2. launched[t] + One(Waits(t)) + One(Starting(t)) <= queueings[t]
  BY DEF LaunchesCounted
<1>3. CASE Uneventful
  <2>1. /\ launched'[t] = launched[t] /\ queueings'[t] = queueings[t]
        /\ (Waits(t)' => Waits(t)) /\ (Starting(t)' => Starting(t))
    BY <1>3 DEF Uneventful
  <2> HIDE DEF Waits, Starting
  <2> QED
    BY <1>1, <1>2, <2>1 DEF One
<1>4. CASE Claiming
  <2>1. launched'[t] = launched[t] /\ queueings'[t] = queueings[t]
    BY <1>4 DEF Claiming
  <2>2. \/ Waits(t) /\ ~Waits(t)' /\ ~Starting(t)
        \/ (Waits(t)' => Waits(t)) /\ ~Starting(t)'
    BY <1>4 DEF Claiming, Waits, Starting, IsQueued
  <2> HIDE DEF Waits, Starting
  <2> QED
    BY <1>1, <1>2, <2>1, <2>2 DEF One
<1>5. CASE Launching
  <2>1. queueings'[t] = queueings[t] /\ (Waits(t)' => Waits(t)) /\ ~Starting(t)'
    BY <1>5 DEF Launching, Waits, Starting, Idle
  <2>2. launched'[t] = launched[t] \/ (launched'[t] = launched[t] + 1 /\ Starting(t))
    BY <1>1, <1>5 DEF Launching, Starting
  <2> HIDE DEF Waits, Starting
  <2> QED
    BY <1>1, <1>2, <2>1, <2>2 DEF One
<1>6. ASSUME NEW u \in Task, Queueing(u)
      PROVE  launched'[t] + One(Waits(t))' + One(Starting(t))' <= queueings'[t]
  <2>1. launched'[t] = launched[t] /\ (Starting(t)' <=> Starting(t))
    BY <1>6 DEF Queueing, Starting
  <2>2. \/ queueings'[t] = queueings[t] + 1
        \/ queueings'[t] = queueings[t] /\ (Waits(t)' <=> Waits(t))
    BY <1>1, <1>6 DEF Queueing, Waits
  <2> HIDE DEF Waits, Starting
  <2> QED
    BY <1>1, <1>2, <2>1, <2>2 DEF One
<1> QED
  BY <1>3, <1>4, <1>5, <1>6

\* Whoever writes a row but a Start or a Retry takes it out of the queue.
LEMMA WrittenRow ==
  ASSUME BaseTypeOK, NEW t \in Task, NEW row \in Row, Update(t, row), row.status # "PENDING",
         UNCHANGED <<queueings, launched>>,
         starter' = starter \/ starter' = Idle
  PROVE  Uneventful
<1>1. tasks'[t].status # "PENDING" /\ \A u \in Task \ {t} : tasks'[u] = tasks[u]
  BY UpdateTask
<1>2. ASSUME NEW u \in Task
      PROVE  IsQueued(tasks[u])' => IsQueued(tasks[u])
  BY <1>1, <1>2 DEF IsQueued
<1> QED
  BY <1>2 DEF Uneventful, Waits, Starting, Idle

LEMMA QuietStep ==
  ASSUME UNCHANGED <<tasks, queueings, launched>>,
         starter' = starter \/ starter' = Idle
  PROVE  Uneventful
BY DEF Uneventful, Waits, Starting, Idle

LEMMA BaseCounts ==
  ASSUME BaseTypeOK, BaseStep
  PROVE  Uneventful \/ Claiming \/ \E u \in Task : Queueing(u)
<1> SUFFICES ASSUME ~Uneventful PROVE Claiming \/ \E u \in Task : Queueing(u)
  OBVIOUS
<1> USE DEF handlers, observed
<1>1. ASSUME NEW t \in Task, QueueCheck(t) \/ CancelCheck(t)
      PROVE  FALSE
  BY <1>1, QuietStep DEF QueueCheck, CancelCheck, Admit
<1>2. ASSUME NEW q \in requests, QueueWrite(q)
      PROVE  \E u \in Task : Queueing(u)
  <2>1. q.task \in Task /\ tasks[q.task] \in Row /\ queueings[q.task] + 1 \in Nat
    BY DEF BaseTypeOK, Request
  <2>2. \A t \in Task \ {q.task} : tasks'[t] = tasks[t]
    BY <1>2, <2>1, QueuedUpdate, UpdateTask DEF QueueWrite
  <2> QED
    BY <1>2, <2>1, <2>2 DEF QueueWrite, Queueing
<1>3. ASSUME NEW q \in requests, CancelWrite(q)
      PROVE  FALSE
  <2>1. q.task \in Task /\ tasks[q.task] \in Row
    BY DEF BaseTypeOK, Request
  <2>2. \E row \in Row : Update(q.task, row) /\ row.status # "PENDING"
    BY <1>3, <2>1, RowUpdates DEF CancelWrite
  <2> QED
    BY <1>3, <2>1, <2>2, WrittenRow DEF CancelWrite
<1>4. ASSUME NEW t \in Task, Pick(t)
      PROVE  FALSE
  <2>1. starter' = [pc |-> "claim", task |-> t, n |-> queueings[t]]
    BY <1>4 DEF Pick
  <2>2. starter'.pc = "claim" /\ starter'.task = t
    BY <2>1
  <2>3. IsQueued(tasks[t]) /\ UNCHANGED <<tasks, queueings, launched>>
    BY <1>4 DEF Pick
  <2> QED
    BY <2>2, <2>3 DEF Uneventful, Waits, Starting
<1>5. ASSUME Claim
      PROVE  Claiming
  <2>1. PICK t \in Task : t = starter.task
    BY <1>5, StarterTypes DEF Claim
  <2>2. tasks'[t].status = "PREPARING" /\ \A u \in Task \ {t} : tasks'[u] = tasks[u]
    BY <1>5, <2>1, RowUpdates, UpdateTask DEF Claim, BaseTypeOK
  <2>3. starter'.pc = "reload" /\ starter'.task = t
    BY <1>5, <2>1, StarterTypes, StarterMoves DEF Claim
  <2> QED
    BY <1>5, <2>1, <2>2, <2>3 DEF Claim, Claiming
<1>6. ASSUME Reload
      PROVE  FALSE
  <2>1. starter' = Idle \/ (starter'.pc = "start" /\ starter'.task = starter.task)
    BY <1>6, StarterTypes, StarterMoves DEF Reload
  <2> QED
    BY <1>6, <2>1 DEF Reload, Uneventful, Waits, Starting, Idle
<1>7. ASSUME StartFails
      PROVE  FALSE
  <2>1. starter'.pc = "fail"
    BY <1>7, StarterTypes, StarterMoves DEF StartFails
  <2> QED
    BY <1>7, <2>1 DEF StartFails, Uneventful, Waits, Starting
<1>8. ASSUME FailTask
      PROVE  FALSE
  <2>1. PICK t \in Task : t = starter.task
    BY <1>8, StarterTypes DEF FailTask
  <2>2. \E row \in Row : Update(t, row) /\ row.status # "PENDING"
    BY <1>8, <2>1, RowUpdates DEF FailTask, BaseTypeOK
  <2> QED
    BY <1>8, <2>2, WrittenRow DEF FailTask
<1>9. ASSUME NEW w \in workers, WorkerStep(w) \/ Dies(w)
      PROVE  FALSE
  BY <1>9, QuietStep DEF WorkerStep, EndsPhase, Resends, GivesUp, Dies
<1>10. ASSUME NEW r \in reports, ReportWrite(r)
       PROVE  FALSE
  <2>1. r.task \in Task /\ r.status # "PENDING"
    BY ReportTypes DEF Posts
  <2>2. /\ ReportedRow(tasks[r.task], r.status) \in Row
        /\ ReportedRow(tasks[r.task], r.status).status = r.status
    BY ReportTypes, ReportedUpdate DEF BaseTypeOK
  <2> QED
    BY <1>10, <2>1, <2>2, WrittenRow DEF ReportWrite
<1>11. ASSUME NEW r \in reports,
              ReportRead(r) \/ ReportLost(r) \/ ReportTimesOut(r) \/ ReportDropped(r)
       PROVE  FALSE
  BY <1>11, QuietStep DEF ReportRead, ReportLost, ReportTimesOut, ReportDropped
<1> QED
  BY <1>1, <1>2, <1>3, <1>4, <1>5, <1>6, <1>7, <1>8, <1>9, <1>10, <1>11
     DEF BaseStep, BaseNext, StarterStep, ReportStep

LEMMA KubernetesCounts ==
  ASSUME TypeOK, KubernetesNext
  PROVE  Uneventful \/ Claiming \/ Launching \/ \E u \in Task : Queueing(u)
<1> SUFFICES ASSUME ~Uneventful PROVE Claiming \/ Launching \/ \E u \in Task : Queueing(u)
  OBVIOUS
<1> USE DEF kubernetesVars, handlers, observed, TypeOK
<1>1. CASE BaseStep
  BY <1>1, BaseCounts
<1>2. ASSUME CreateSecret
      PROVE  FALSE
  <2>1. starter'.task = starter.task /\ starter'.pc = "job"
    BY <1>2, StarterTypes, StarterMoves DEF CreateSecret
  <2> QED
    BY <1>2, <2>1 DEF CreateSecret, Uneventful, Waits, Starting
<1>3. ASSUME CreateJob
      PROVE  Launching
  <2>1. CASE Launch("waiting")
    BY <1>3, <2>1, StarterTypes DEF CreateJob, Launch, Launching
  <2>2. CASE UNCHANGED <<jobs, workers, observed>>
    BY <1>3, <2>2, QuietStep DEF CreateJob
  <2> QED
    BY <1>3, <2>1, <2>2 DEF CreateJob
<1>4. ASSUME NEW w \in watchers, MarkFailed(w) \/ MarkSuccess(w)
      PROVE  FALSE
  <2>1. w.task \in Task /\ tasks[w.task] \in Row
    BY DEF KubernetesTypeOK, Watcher, BaseTypeOK
  <2>2. \E row \in Row : Update(w.task, row) /\ row.status # "PENDING"
    BY <1>4, <2>1, RowUpdates DEF MarkFailed, MarkSuccess
  <2> QED
    BY <1>4, <2>1, <2>2, WrittenRow DEF MarkFailed, MarkSuccess
<1>5. ASSUME NEW w \in watchers,
             \/ Poll(w) \/ CheckGone(w) \/ CheckStillActive(w) \/ CheckSucceeded(w)
             \/ CleanJob(w) \/ CleanSecret(w) \/ WatcherSkips(w) \/ WatchExpires(w)
      PROVE  FALSE
  BY <1>5, QuietStep DEF Poll, CheckGone, CheckStillActive, CheckSucceeded, CleanJob, CleanSecret,
     WatcherSkips, WatchExpires, baseVars
<1>6. ASSUME NEW p \in workers, PodStep(p) \/ PodStuck(p)
      PROVE  FALSE
  BY <1>6, QuietStep DEF PodStep, PodStarts, JobFinishes, PodStops, PodRemoved, PodStuck
<1>7. ASSUME \/ Restart
             \/ \E q \in cancels : CleanupStep(q)
             \/ \E t \in Task : TTLExpires(t)
      PROVE  FALSE
  BY <1>7, QuietStep DEF Restart, Replaced, CleanupStep, CancelJob, CancelSecret, TTLExpires
<1> QED
  BY <1>1, <1>2, <1>3, <1>4, <1>5, <1>6, <1>7 DEF KubernetesNext, BaseStep, CancelTask, WatcherStep

LEMMA LocalCounts ==
  ASSUME TypeOK, LocalNext
  PROVE  Uneventful \/ Claiming \/ Launching \/ \E u \in Task : Queueing(u)
<1> SUFFICES ASSUME ~Uneventful PROVE Claiming \/ Launching \/ \E u \in Task : Queueing(u)
  OBVIOUS
<1> USE DEF handlers, observed, TypeOK
<1>1. CASE BaseStep
  BY <1>1, BaseCounts
<1>2. ASSUME StartProcess
      PROVE  Launching
  BY <1>2, StarterTypes DEF StartProcess, Launch, Launching
<1>3. ASSUME NEW g \in waiters, Settles(g)
      PROVE  FALSE
  <2>1. g.task \in Task /\ tasks[g.task] \in Row
    BY DEF LocalTypeOK, Waiter, BaseTypeOK
  <2>2. \E row \in Row : Update(g.task, row) /\ row.status # "PENDING"
    BY <1>3, <2>1, RowUpdates DEF Settles
  <2> QED
    BY <1>3, <2>1, <2>2, WrittenRow DEF Settles
<1>4. ASSUME NEW g \in waiters, Waited(g) \/ ReadsRow(g) \/ WaiterSkips(g)
      PROVE  FALSE
  BY <1>4, QuietStep DEF Waited, ReadsRow, WaiterSkips, baseVars
<1>5. ASSUME Shutdown \/ Crash
      PROVE  FALSE
  BY <1>5, QuietStep DEF Shutdown, Crash, Replaced
<1> QED
  BY <1>1, <1>2, <1>3, <1>4, <1>5 DEF LocalNext, BaseStep, CancelRow, WaiterStep

LEMMA Counts ==
  ASSUME TypeOK, [Next]_vars
  PROVE  Uneventful \/ Claiming \/ Launching \/ \E u \in Task : Queueing(u)
<1>1. CASE UNCHANGED vars
  BY <1>1, QuietStep DEF vars, baseVars, observed
<1> QED
  BY <1>1, KubernetesCounts, LocalCounts DEF Next, InKubernetes, InLocal

\* Deletions by name, AlreadyExists, shutdowns, crashes, refused calls, late
\* handlers and overlapping Starts may bring it about that a task gets fewer
\* pods or processes than it was queued, never more: with either runner, the
\* installation implements the ledger of queueings and launches.
THEOREM RunnersKeepLedger == Spec => ImplementsLedger
<1>1. Init => LaunchesCounted
  <2> SUFFICES ASSUME Init, NEW t \in Task
               PROVE  launched[t] + One(Waits(t)) + One(Starting(t)) <= queueings[t]
    BY DEF LaunchesCounted
  <2>1. ~Waits(t) /\ ~Starting(t) /\ launched[t] = 0 /\ queueings[t] = 0
    BY DEF Init, BaseInit, NewRow, Idle, Waits, IsQueued, Starting
  <2> QED
    BY <2>1 DEF One
<1>2. TypeOK /\ LaunchesCounted /\ [Next]_vars => LaunchesCounted'
  BY Counts, CountsKept DEF TypeOK
<1>3. Init => Ledger!Init
  BY DEF Init, BaseInit, Ledger!Init
<1>4. TypeOK /\ LaunchesCounted /\ [Next]_vars => [Ledger!Next]_(Ledger!vars)
  <2> SUFFICES ASSUME TypeOK, LaunchesCounted, [Next]_vars
               PROVE  [Ledger!Next]_(Ledger!vars)
    OBVIOUS
  <2>1. CASE UNCHANGED <<queueings, launched>>
    BY <2>1 DEF Ledger!vars
  <2>2. ASSUME NEW u \in Task, Queueing(u)
        PROVE  Ledger!Next
    BY <2>2 DEF Queueing, Ledger!Next, Ledger!Queue
  <2>3. CASE Launching
    <3>1. PICK u \in Task : u = starter.task
      BY <2>3 DEF Launching
    <3>2. Starting(u) /\ launched' = [launched EXCEPT ![u] = @ + 1] /\ queueings' = queueings
      BY <2>3, <3>1 DEF Launching, Starting
    <3>3. launched[u] \in Nat /\ queueings[u] \in Nat
      BY DEF TypeOK, BaseTypeOK
    <3>4. launched[u] + One(Waits(u)) + One(Starting(u)) <= queueings[u]
      BY DEF LaunchesCounted
    <3>5. launched[u] < queueings[u]
      <4> HIDE DEF Waits, Starting
      <4> QED
        BY <3>2, <3>3, <3>4 DEF One
    <3> QED
      BY <3>2, <3>5 DEF Ledger!Next, Ledger!Launch
  <2> QED
    BY <2>1, <2>2, <2>3, Counts DEF Uneventful, Claiming
<1> QED
  BY <1>1, <1>2, <1>3, <1>4, RunnersTypes, PTL DEF Spec, ImplementsLedger, Ledger!Spec
=============================================================================
