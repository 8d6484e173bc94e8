----------------------------- MODULE RunnerBase -----------------------------
(***************************************************************************)
(* What the Kubernetes runner and the local runner have around them: the   *)
(* task rows, the users who queue and cancel, the dispatcher, the workers  *)
(* and the handlers of their status reports.  A handler reads the row and  *)
(* then updates it by id, with anything in between.  Of the dispatcher     *)
(* there is what it does with one task (Dispatcher has its count and the   *)
(* order of the queue), of a worker's attempts to report whether the last  *)
(* one was answered (Worker counts them), and of its statuses not the      *)
(* PREPARING that the claim has written already.                           *)
(***************************************************************************)
EXTENDS MigrationTask, FiniteSets

CONSTANTS
  Task,         \* ids of the tasks
  EventKinds,   \* "queue", "cancel" and the kinds of fault that may happen
  MaxEvents     \* bound: how many requests and faults in all

ASSUME MaxEventsAssumption == MaxEvents \in Nat

VARIABLES
  tasks,        \* migration_tasks: task -> row
  starter,      \* the dispatcher: the task in hand, and the call it is at
  workers,      \* the worker processes, in a pod or not
  requests,     \* admitted Starts, Retries and cancels, before their UPDATE
  reports,      \* the status handlers in flight
  queueings,    \* observation: task -> how often it was queued
  launched,     \* observation: task -> Jobs created or processes started for it
  migrated,     \* observation: tasks of which a worker has finished Migrate
  happened,     \* observation: the kinds of event that there were
  events        \* how many there were

handlers == <<requests, reports>>
observed == <<queueings, launched, migrated>>
budget == <<happened, events>>
baseVars == <<tasks, starter, workers, handlers, observed, budget>>

\* A worker is known by its task and the number of the Start that made it.
Posts == {"RUNNING", "SUCCESS", "FAILED", "CANCELLED"}
Worker == [task: Task, n: Nat,
           pc: {"waiting", "stuck", "boot", "migrate", "exit0", "exit1"}
                 \cup Posts]

\* "late" is 0 as long as the worker waits for the answer.
Report == [task: Task, n: Nat, status: Posts, pc: {"read", "write"}, late: Nat]
Request == [task: Task, op: {"queue", "cancel"}, n: Nat]

Idle == [pc |-> "idle"]
Starter == {Idle} \cup
  [pc: {"claim", "reload", "start", "job", "fail"}, task: Task, n: Nat]

\* An admitted request, or a fault.
Event(kind) ==
  /\ kind \in EventKinds /\ events < MaxEvents
  /\ events' = events + 1 /\ happened' = happened \cup {kind}

Update(t, row) == tasks' = [tasks EXCEPT ![t] = row]

BaseInit ==
  /\ tasks = [t \in Task |-> NewRow]
  /\ starter = Idle
  /\ workers = {} /\ requests = {} /\ reports = {}
  /\ queueings = [t \in Task |-> 0] /\ launched = [t \in Task |-> 0]
  /\ migrated = {} /\ happened = {} /\ events = 0

(***************************************************************************)
(* The users.  A request whose UPDATE fails is one that never comes to it. *)
(***************************************************************************)

Admit(t, op) ==
  /\ Event(op)
  /\ requests' = requests \cup {[task |-> t, op |-> op, n |-> events + 1]}
  /\ UNCHANGED <<tasks, starter, workers, reports, observed>>

\* Start takes a PENDING row, queued or not, and a CANCELLED one; Retry a
\* FAILED one.
QueueCheck(t) == tasks[t].status \in {"PENDING", "CANCELLED", "FAILED"} /\ Admit(t, "queue")

QueueWrite(q) ==
  /\ q.op = "queue"
  /\ Update(q.task, QueuedRow(tasks[q.task], queueings[q.task] + 1))
  /\ queueings' = [queueings EXCEPT ![q.task] = @ + 1]
  /\ requests' = requests \ {q}
  /\ UNCHANGED <<starter, workers, reports, launched, migrated, budget>>

CancelCheck(t) == StillActive(tasks[t]) /\ Admit(t, "cancel")

\* Cancel, up to the call of the runner.
CancelWrite(q) ==
  /\ q.op = "cancel"
  /\ Update(q.task, CancelledRow(tasks[q.task]))
  /\ requests' = requests \ {q}
  /\ UNCHANGED <<starter, workers, reports, observed, budget>>

(***************************************************************************)
(* The dispatcher, around the runner's Start.                              *)
(***************************************************************************)

Pick(t) ==
  /\ starter = Idle /\ IsQueued(tasks[t])
  /\ starter' = [pc |-> "claim", task |-> t, n |-> queueings[t]]
  /\ UNCHANGED <<tasks, workers, handlers, observed, budget>>

\* The claim does not look at the row's status; the reload after it does.
Claim ==
  /\ starter.pc = "claim"
  /\ Update(starter.task, ClaimedRow(tasks[starter.task]))
  /\ starter' = [starter EXCEPT !.pc = "reload"]
  /\ UNCHANGED <<workers, handlers, observed, budget>>

Reload ==
  /\ starter.pc = "reload"
  /\ starter' = IF tasks[starter.task].status = "PREPARING"
                THEN [starter EXCEPT !.pc = "start"] ELSE Idle
  /\ UNCHANGED <<tasks, workers, handlers, observed, budget>>

\* A Start that has made a worker for its task.
Launch(pc) ==
  /\ workers' = workers \cup
       {[task |-> starter.task, n |-> starter.n, pc |-> pc]}
  /\ launched' = [launched EXCEPT ![starter.task] = @ + 1]
  /\ UNCHANGED <<queueings, migrated>>

\* The runner's Start fails.
StartFails ==
  /\ starter.pc \in {"start", "job"}
  /\ Event("api")
  /\ starter' = [starter EXCEPT !.pc = "fail"]
  /\ UNCHANGED <<tasks, workers, handlers, observed>>

FailTask ==
  /\ starter.pc = "fail"
  /\ Update(starter.task, FailedRow(tasks[starter.task]))
  /\ starter' = Idle
  /\ UNCHANGED <<workers, handlers, observed, budget>>

\* For a faulty variant of each runner: the new process queues the active
\* tasks again.
ReplacedRequeues(kind) ==
  /\ Event(kind)
  /\ starter' = Idle /\ requests' = {} /\ reports' = {}
  /\ tasks' = [t \in Task |-> IF tasks[t].status \in Active
                             THEN [tasks[t] EXCEPT !.status = "PENDING"]
                             ELSE tasks[t]]
  /\ UNCHANGED observed

\* A new backend process; main looks at no row that is there.
Replaced(kind) ==
  /\ Event(kind)
  /\ starter' = Idle /\ requests' = {} /\ reports' = {}
  /\ UNCHANGED <<tasks, observed>>

(***************************************************************************)
(* The workers, once their container or process has started.               *)
(***************************************************************************)
Works(w) == w.pc \in {"boot", "migrate"} \cup Posts

Becomes(w, pc) == workers' = (workers \ {w}) \cup {[w EXCEPT !.pc = pc]}

Send(w, status) ==
  reports' = reports \cup
    {[task |-> w.task, n |-> w.n, status |-> status, pc |-> "read", late |-> 0]}

\* Whose answer the worker waits for.
Awaits(w, r) == r.task = w.task /\ r.n = w.n /\ r.status = w.pc /\ r.late = 0

IsAwaited(r) == \E w \in workers : Awaits(w, r)
InFlight(w) == \E r \in reports : Awaits(w, r)

AfterReport(status) ==
  CASE status = "RUNNING" -> "migrate"
    [] status = "SUCCESS" -> "exit0"
    [] OTHER -> "exit1"

\* What the main thread reports once it is done with its phase, unless it fails.
PhaseEnd(pc) == IF pc = "boot" THEN "RUNNING" ELSE "SUCCESS"

EndsPhase(w) ==
  /\ w.pc \in {"boot", "migrate"}
  /\ \E status \in {PhaseEnd(w.pc), "FAILED"} :
       /\ Becomes(w, status) /\ Send(w, status)
       /\ migrated' = IF status = "SUCCESS" THEN migrated \cup {w.task} ELSE migrated
  /\ UNCHANGED <<tasks, starter, requests, queueings, launched, budget>>

\* No attempt of its report is in flight any more: another one, or no more.
Unanswered(w) == w.pc \in Posts /\ ~InFlight(w)

Resends(w) ==
  /\ Unanswered(w)
  /\ Send(w, w.pc)
  /\ UNCHANGED <<tasks, starter, workers, requests, observed, budget>>

GivesUp(w) ==
  /\ Unanswered(w)
  /\ Becomes(w, AfterReport(w.pc))
  /\ UNCHANGED <<tasks, starter, handlers, observed, budget>>

\* It is killed.  A handler of its last report runs on, and is then a late one.
Dies(w) ==
  /\ Works(w)
  /\ Event(IF InFlight(w) THEN "late" ELSE "crash")
  /\ Becomes(w, "exit1")
  /\ UNCHANGED <<tasks, starter, handlers, observed>>

WorkerStep(w) == EndsPhase(w) \/ Resends(w) \/ GivesUp(w)

(***************************************************************************)
(* The status handler.                                                     *)
(***************************************************************************)
Answer(r) ==
  /\ reports' = reports \ {r}
  /\ workers' = {IF Awaits(w, r) THEN [w EXCEPT !.pc = AfterReport(r.status)] ELSE w :
                   w \in workers}

IsRefused(r) == tasks[r.task].status \in Terminal /\ tasks[r.task].status # r.status

ReportRead(r) ==
  /\ r.pc = "read"
  /\ IF IsRefused(r)
     THEN Answer(r)
     ELSE reports' = (reports \ {r}) \cup {[r EXCEPT !.pc = "write"]} /\ UNCHANGED workers
  /\ UNCHANGED <<tasks, starter, requests, observed, budget>>

\* Faulty variant: the row gets a status that the backend does not know.
WriteUnknown(r) ==
  /\ r.pc = "write"
  /\ Update(r.task, [tasks[r.task] EXCEPT !.status = "EXITED"])
  /\ Answer(r)
  /\ UNCHANGED <<starter, requests, observed, budget>>

ReportWrite(r) ==
  /\ r.pc = "write"
  /\ Update(r.task, ReportedRow(tasks[r.task], r.status))
  /\ Answer(r)
  /\ UNCHANGED <<starter, requests, observed, budget>>

\* The call is lost, or a database call of the handler fails.
ReportLost(r) ==
  /\ Event("report")
  /\ reports' = reports \ {r}
  /\ UNCHANGED <<tasks, starter, workers, requests, observed>>

\* The worker stops waiting; the handler runs on.
ReportTimesOut(r) ==
  /\ IsAwaited(r)
  /\ Event("late")
  /\ reports' = (reports \ {r}) \cup {[r EXCEPT !.late = events + 1]}
  /\ UNCHANGED <<tasks, starter, workers, requests, observed>>

\* The handler notices that its client is gone and its context cancelled.
ReportDropped(r) ==
  /\ ~IsAwaited(r)
  /\ reports' = reports \ {r}
  /\ UNCHANGED <<tasks, starter, workers, requests, observed, budget>>

ReportStep(r) == ReportRead(r) \/ ReportWrite(r)

StarterStep == (\E t \in Task : Pick(t)) \/ Claim \/ Reload \/ FailTask

\* What happens in the same way with either runner.
BaseNext ==
  \/ \E t \in Task : QueueCheck(t) \/ CancelCheck(t)
  \/ \E q \in requests : QueueWrite(q)
  \/ StarterStep \/ StartFails
  \/ \E w \in workers : WorkerStep(w) \/ Dies(w)
  \/ \E r \in reports :
       ReportStep(r) \/ ReportLost(r) \/ ReportTimesOut(r) \/ ReportDropped(r)

BaseTypeOK ==
  /\ tasks \in [Task -> Row] /\ starter \in Starter
  /\ workers \subseteq Worker /\ requests \subseteq Request /\ reports \subseteq Report
  /\ queueings \in [Task -> Nat] /\ launched \in [Task -> Nat]
  /\ migrated \subseteq Task /\ happened \subseteq EventKinds /\ events \in Nat

\* PRD section 64: after the worker the status is right.  SUCCESS is only said
\* of a task of which a worker has finished Migrate, whatever dies or is lost.
SuccessIsReal == \A t \in Task : tasks[t].status = "SUCCESS" => t \in migrated

\* What the liveness properties tolerate, until the task is queued for the
\* second time: dying workers, lost reports and refused calls of Start.  They do
\* not tolerate a report that is handled when its worker is gone, a pod that
\* cannot start, or a refused deletion.
Undisturbed(t) == queueings[t] <= 1 /\ happened \subseteq {"queue", "api", "crash", "report", "ttl"}

\* PRD section 64: the row of a task whose worker has died, has failed or could
\* not report leaves the active statuses, if nothing else comes in between.
JobSettles ==
  \A t \in Task :
    tasks[t].status \in Active /\ Undisturbed(t)
      ~> tasks[t].status \notin Active \/ ~Undisturbed(t)
=============================================================================
