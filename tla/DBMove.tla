------------------------------- MODULE DBMove -------------------------------
(***************************************************************************)
(* A DBMove installation in Docker mode: the migration service, the        *)
(* dispatcher and the watchers of one backend process, the workers it      *)
(* starts and the status reports they send back, and restarts of the       *)
(* backend.  The components share the task table and the Docker daemon and *)
(* nothing else; no two database calls of one handler are a transaction.   *)
(***************************************************************************)
EXTENDS TaskApi, Dispatcher, Worker

CONSTANT
  MaxRestarts  \* bound: restarts of the backend

ASSUME MaxRestartsAssumption == MaxRestarts \in Nat

VARIABLES
  restarts,    \* how often the backend has restarted
  unread       \* observation: tasks a watcher of which went by an exit code
               \* that it had not read

vars == <<platformVars, apiVars, watchers, disp, workerVars, restarts, unread>>

Init ==
  /\ PlatformInit /\ ApiInit /\ RunnerInit /\ DispatcherInit /\ WorkerInit
  /\ restarts = 0 /\ unread = {}

\* Faulty variant: the new process queues the active tasks again.
RestartRequeues ==
  /\ restarts < MaxRestarts
  /\ restarts' = restarts + 1
  /\ requests' = {} /\ reports' = {} /\ watchers' = {}
  /\ GoIdle
  /\ tasks' = [t \in Task |-> IF tasks[t].status \in Active
                             THEN [tasks[t] EXCEPT !.status = "PENDING"]
                             ELSE tasks[t]]
  /\ UNCHANGED <<containers, envFiles, faults, clicks, clock, queueings, migrated, unread>>

(***************************************************************************)
(* The backend process ends, by a crash or by SIGTERM, and a new one       *)
(* starts.  Its handlers, its dispatcher and its watchers are gone; the    *)
(* table, the containers and the env files stay, and nothing in main       *)
(* looks at them.                                                          *)
(***************************************************************************)
Restart ==
  /\ restarts < MaxRestarts
  /\ restarts' = restarts + 1
  /\ requests' = {} /\ reports' = {} /\ watchers' = {}
  /\ GoIdle
  /\ UNCHANGED <<platformVars, clicks, clock, queueings, migrated, unread>>

\* A watcher that leaves "exited" has read the code, unless no exited container
\* has the name any more, or docker inspect fails.
ObserveReads ==
  unread' = unread \cup
    {w.task : w \in {x \in watchers \ watchers' :
       x.pc = "exited" /\ (containers[x.task].state # "exited" \/ faults' # faults)}}

ApiAction == ApiNext /\ UNCHANGED <<watchers, disp, workerVars, restarts, unread>>
RunnerAction ==
  RunnerNext /\ ObserveReads /\ UNCHANGED <<apiVars, disp, workerVars, restarts>>
DispatcherAction == DispatcherNext /\ UNCHANGED <<apiVars, workerVars, restarts, unread>>
WorkerAction == WorkerNext /\ UNCHANGED <<apiVars, watchers, disp, restarts, unread>>
DaemonAction ==
  /\ \E t \in Task : Reap(t)
  /\ UNCHANGED <<apiVars, watchers, disp, workerVars, restarts, unread>>

Next ==
  \/ ApiAction \/ RunnerAction \/ DispatcherAction \/ WorkerAction
  \/ DaemonAction \/ Restart

Spec == Init /\ [][Next]_vars

(***************************************************************************)
(* Fairness.  Every goroutine and every worker keeps running, and the      *)
(* daemon reaps what exited; users, faults and restarts owe nothing.       *)
(***************************************************************************)
Fairness ==
  /\ WF_vars(DispatcherStep /\ UNCHANGED <<apiVars, workerVars, restarts, unread>>)
  /\ \A t \in Task :
       /\ WF_vars(\E w \in watchers : w.task = t /\ WatcherStep(w)
                    /\ ObserveReads /\ UNCHANGED <<apiVars, disp, workerVars, restarts>>)
       /\ WF_vars(\E q \in requests : q.task = t /\ RequestStep(q)
                    /\ UNCHANGED <<watchers, disp, workerVars, restarts, unread>>)
       /\ WF_vars(ProcessStep(t) /\ UNCHANGED <<apiVars, watchers, disp, restarts, unread>>)
       /\ WF_vars(\E r \in reports : r.task = t /\ ReportStep(r)
                    /\ UNCHANGED <<apiVars, watchers, disp, restarts, unread>>)
       /\ WF_vars(Reap(t) /\ UNCHANGED <<apiVars, watchers, disp, workerVars, restarts,
                                       unread>>)

FairSpec == Spec /\ Fairness

\* The types of all variables.
TypeOK ==
  /\ PlatformTypeOK /\ ApiTypeOK /\ RunnerTypeOK /\ DispatcherTypeOK
  /\ WorkerTypeOK /\ restarts \in Nat /\ unread \subseteq Task

(***************************************************************************)
(* Safety.                                                                 *)
(***************************************************************************)

\* A task that no user has started does not leave PENDING, except to be
\* cancelled, and never gets a worker: whatever the dispatcher, a watcher or
\* a late report writes, it writes to a task that has been queued.
NothingRunsUnqueued ==
  \A t \in Task :
    (tasks[t].status \in Active \cup {"SUCCESS", "FAILED"} \/ containers[t].run # 0)
      => tasks[t].queued # 0

\* docker run succeeds at most once for each Start or Retry of the task, over
\* restarts of the backend, failed database calls and late reports.
LaunchesWithinQueueings ==
  \A t \in Task : containers[t].run <= queueings[t]

\* The same as a refinement: the installation implements the ledger.
Ledger == INSTANCE LaunchLedger
            WITH queued <- queueings,
                 launched <- [t \in Task |-> containers[t].run]
ImplementsLedger == Ledger!Spec

\* A row whose status is terminal has a finished_at, and a FAILED one says
\* why, although status and message come from writers that race.
TerminalRowsComplete ==
  \A t \in Task :
    /\ tasks[t].status \in Terminal => tasks[t].finished
    /\ tasks[t].status = "FAILED" => tasks[t].error

\* While the backend has not restarted, and unless inspect fails or a
\* watcher expires, the watcher of a running container is still polling: one
\* that lives on from an earlier run does not stand in for it.
RunningIsWatched ==
  restarts = 0 /\ FaultKinds \cap {"inspect", "expiry"} = {}
    => \A t \in Task : Running(t) =>
         [task |-> t, run |-> containers[t].run, pc |-> "poll"] \in watchers

\* README: migrations beyond the limit wait in the queue.
ActiveWithinLimit == Cardinality(ActiveTasks) <= MaxConcurrent

\* PRD section 26, with the failures before RUNNING: no writer takes a
\* status backwards or out of a terminal one.
LegalTransition(from, to) ==
  \/ from = to
  \/ from = "PENDING" /\ to \in {"PREPARING", "FAILED"}
  \/ from = "PREPARING" /\ to \in {"RUNNING", "FAILED"}
  \/ from = "RUNNING" /\ to \in {"SUCCESS", "FAILED"}

StatusMovesForward ==
  [][\A t \in Task : LegalTransition(tasks[t].status, tasks'[t].status)]_vars

\* The status handler's comment: terminal states are final.  Its UPDATE leaves
\* a row alone that is terminal by then.
ReportsLeaveTerminal ==
  [][\A r \in reports :
       ReportWrite(r) /\ tasks[r.task].status \in Terminal
         => tasks'[r.task].status = tasks[r.task].status]_vars

\* A task is SUCCESS only when one of its workers has finished Migrate.
SuccessIsReal ==
  \A t \in Task : tasks[t].status = "SUCCESS" => t \in migrated

\* Or, over cancels, retries, restarts and any fault, when a watcher went by an
\* exit code that it had not read: no other report, old watcher or exit turns
\* a failed run into a SUCCESS.
SuccessIsWitnessed ==
  \A t \in Task : tasks[t].status = "SUCCESS" => t \in migrated \cup unread

\* The rows that hold a slot although nothing works on them: no worker runs,
\* no watcher lives, and the dispatcher has another task in hand.
Stranded ==
  {t \in ActiveTasks :
     /\ ~Running(t) /\ disp.task # t
     /\ \A w \in watchers : w.task # t}

\* While the backend has not restarted, a slot is only lost to a fault: an
\* active row is the dispatcher's, a watcher's, a running worker's or that of a
\* report to come, and each of them settles it before it lets go.  A cancel
\* does not: the task may be claimed or reported again after it, so tasks
\* with one are left out.
StrandedWithinFaults ==
  restarts = 0 => Cardinality({t \in Stranded : clicks[t]["cancel"] = 0}) <= faults

(***************************************************************************)
(* Liveness.                                                               *)
(***************************************************************************)

\* The comment on Watcher: the row of a worker that died without reporting a
\* terminal status is reconciled.
DeadWorkerReconciled ==
  \A t \in Task :
    t \in ActiveTasks /\ containers[t].run # 0 /\ ~Running(t) /\ disp.task # t
      ~> t \notin ActiveTasks \/ Running(t)

\* The premise of the next two: no handler of a status report is between its
\* read of the row and its UPDATE when its worker is gone.  Such a handler puts
\* RUNNING back into a row that a watcher has settled, and nobody settles it
\* again: the row stays active, and a slot of the limit is lost.
NoLateWrite == [](\A r \in reports : r.pc = "write" => IsAwaited(r))

\* Then a queued task does not wait forever, whatever start fails and whatever
\* worker dies before it in the queue.
QueueDrains == NoLateWrite => \A t \in Task : IsQueued(tasks[t]) ~> ~IsQueued(tasks[t])

\* And then the comment on Watcher is right, while the backend does not restart.
DeadWorkerSettles == NoLateWrite => DeadWorkerReconciled
=============================================================================
