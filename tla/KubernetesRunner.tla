-------------------------- MODULE KubernetesRunner --------------------------
(***************************************************************************)
(* The Kubernetes runner: a Secret and a Job for each task, known by names *)
(* that are made of the task's id, and a watcher goroutine for each Start. *)
(* Start takes AlreadyExists for success, and every watcher, as well as a  *)
(* cancel, deletes the Job and then the Secret by name, whoever made them. *)
(*                                                                         *)
(* The cluster creates a pod for a Job, starts it when its Secret is       *)
(* there, kills it some time after its Job is gone, and removes a finished *)
(* Job after its TTL.                                                      *)
(***************************************************************************)
EXTENDS RunnerBase

VARIABLES
  jobs,         \* task -> the Job of that name; its uid is the Start that made it
  secrets,      \* tasks whose Secret exists
  watchers,     \* the live watcher goroutines
  cancels       \* Cleanup calls of cancel requests

kubernetesVars == <<jobs, secrets, watchers, cancels>>

Job == [state: {"none", "active", "succeeded", "failed"}, uid: Nat]
Watcher == [task: Task, n: Nat,
            pc: {"poll", "gone", "check", "fail", "succeeded", "mark",
                 "job", "secret"}]
Cleanup == [task: Task, n: Nat, pc: {"job", "secret"}]

DeleteJob(t) == jobs' = [jobs EXCEPT ![t].state = "none"]
DeleteSecret(t) == secrets' = secrets \ {t}

\* The error of either Delete is dropped.
TryDeleteJob(t) ==
  \/ DeleteJob(t) /\ UNCHANGED budget
  \/ Event("delete") /\ UNCHANGED jobs

TryDeleteSecret(t) ==
  \/ DeleteSecret(t) /\ UNCHANGED budget
  \/ Event("delete") /\ UNCHANGED secrets

KubernetesInit ==
  /\ jobs = [t \in Task |-> [state |-> "none", uid |-> 0]]
  /\ secrets = {} /\ watchers = {} /\ cancels = {}

(***************************************************************************)
(* Cancel.                                                                 *)
(***************************************************************************)

CancelTask(q) ==
  /\ CancelWrite(q)
  /\ cancels' = cancels \cup {[task |-> q.task, n |-> q.n, pc |-> "job"]}
  /\ UNCHANGED <<jobs, secrets, watchers>>

CancelJob(q) ==
  /\ q.pc = "job"
  /\ TryDeleteJob(q.task)
  /\ cancels' = (cancels \ {q}) \cup {[q EXCEPT !.pc = "secret"]}
  /\ UNCHANGED <<tasks, starter, workers, handlers, observed, secrets, watchers>>

CancelSecret(q) ==
  /\ q.pc = "secret"
  /\ TryDeleteSecret(q.task)
  /\ cancels' = cancels \ {q}
  /\ UNCHANGED <<tasks, starter, workers, handlers, observed, jobs, watchers>>

(***************************************************************************)
(* Start.                                                                  *)
(***************************************************************************)

\* A Secret that is there stays as it is.
CreateSecret ==
  /\ starter.pc = "start"
  /\ secrets' = secrets \cup {starter.task}
  /\ starter' = [starter EXCEPT !.pc = "job"]
  /\ UNCHANGED <<tasks, workers, handlers, observed, budget, jobs, watchers, cancels>>

NewWatcher == [task |-> starter.task, n |-> starter.n, pc |-> "poll"]

\* A Job that is there counts as started; it gets no pod of its own.
CreateJob ==
  /\ starter.pc = "job"
  /\ IF jobs[starter.task].state = "none"
     THEN /\ jobs' = [jobs EXCEPT ![starter.task] = [state |-> "active", uid |-> starter.n]]
          /\ Launch("waiting")
     ELSE UNCHANGED <<jobs, workers, observed>>
  /\ watchers' = watchers \cup {NewWatcher}
  /\ starter' = Idle
  /\ UNCHANGED <<tasks, handlers, budget, secrets, cancels>>

(***************************************************************************)
(* The cluster.  The pod of a Job is there with the Job.                   *)
(***************************************************************************)
Owned(p) == jobs[p.task].uid = p.n /\ jobs[p.task].state = "active"

\* The container starts once its Secret is there.
PodStarts(p) ==
  /\ p.pc = "waiting" /\ p.task \in secrets
  /\ Becomes(p, "boot")
  /\ UNCHANGED <<tasks, starter, handlers, observed, budget, kubernetesVars>>

\* It cannot be scheduled, or its image cannot be pulled; nothing gives it up.
PodStuck(p) ==
  /\ p.pc = "waiting"
  /\ Event("stuck")
  /\ Becomes(p, "stuck")
  /\ UNCHANGED <<tasks, starter, handlers, observed, kubernetesVars>>

\* The Job controller sees the outcome.
JobFinishes(p) ==
  /\ p.pc \in {"exit0", "exit1"} /\ Owned(p)
  /\ jobs' = [jobs EXCEPT ![p.task].state = IF p.pc = "exit0" THEN "succeeded" ELSE "failed"]
  /\ workers' = workers \ {p}
  /\ UNCHANGED <<tasks, starter, handlers, observed, budget, secrets, watchers, cancels>>

\* The Job is gone: its pod gets SIGTERM, and the worker reports CANCELLED ...
PodStops(p) ==
  /\ ~Owned(p) /\ Works(p) /\ p.pc # "CANCELLED"
  /\ Becomes(p, "CANCELLED")
  /\ Send(p, "CANCELLED")
  /\ IF InFlight(p) THEN Event("late") ELSE UNCHANGED budget
  /\ UNCHANGED <<tasks, starter, requests, observed, kubernetesVars>>

\* ... until the pod's grace period is over.
PodRemoved(p) ==
  /\ ~Owned(p) /\ ~Works(p)
  /\ workers' = workers \ {p}
  /\ UNCHANGED <<tasks, starter, handlers, observed, budget, kubernetesVars>>

TTLExpires(t) ==
  /\ jobs[t].state \in {"succeeded", "failed"}
  /\ Event("ttl")
  /\ DeleteJob(t)
  /\ UNCHANGED <<tasks, starter, workers, handlers, observed, secrets, watchers, cancels>>

(***************************************************************************)
(* watch.                                                                  *)
(***************************************************************************)

Move(w, pc) == watchers' = (watchers \ {w}) \cup {[w EXCEPT !.pc = pc]}

Poll(w) ==
  /\ w.pc = "poll" /\ jobs[w.task].state # "active"
  /\ Move(w, CASE jobs[w.task].state = "none" -> "gone"
               [] jobs[w.task].state = "succeeded" -> "succeeded"
               [] jobs[w.task].state = "failed" -> "check")
  /\ UNCHANGED <<baseVars, jobs, secrets, cancels>>

CheckGone(w) ==
  /\ w.pc = "gone"
  /\ Move(w, IF tasks[w.task].status \in Terminal THEN "job" ELSE "check")
  /\ UNCHANGED <<baseVars, jobs, secrets, cancels>>

\* Faulty variant: a RUNNING row is left alone.
CheckRunning(w) ==
  /\ w.pc = "check"
  /\ Move(w, IF tasks[w.task].status = "RUNNING" THEN "job" ELSE "fail")
  /\ UNCHANGED <<baseVars, jobs, secrets, cancels>>

\* MarkFailedIfStillActive.
CheckStillActive(w) ==
  /\ w.pc = "check"
  /\ Move(w, IF StillActive(tasks[w.task]) THEN "fail" ELSE "job")
  /\ UNCHANGED <<baseVars, jobs, secrets, cancels>>

MarkFailed(w) ==
  /\ w.pc = "fail"
  /\ Update(w.task, FailedRow(tasks[w.task]))
  /\ Move(w, "job")
  /\ UNCHANGED <<starter, workers, handlers, observed, budget, jobs, secrets, cancels>>

CheckSucceeded(w) ==
  /\ w.pc = "succeeded"
  /\ Move(w, IF tasks[w.task].status \in Terminal THEN "job" ELSE "mark")
  /\ UNCHANGED <<baseVars, jobs, secrets, cancels>>

MarkSuccess(w) ==
  /\ w.pc = "mark"
  /\ Update(w.task, SucceededRow(tasks[w.task]))
  /\ Move(w, "job")
  /\ UNCHANGED <<starter, workers, handlers, observed, budget, jobs, secrets, cancels>>

\* The errors of the database are ignored: cleanup comes all the same.
WatcherSkips(w) ==
  /\ w.pc \in {"gone", "check", "fail", "succeeded", "mark"}
  /\ Event("db")
  /\ Move(w, "job")
  /\ UNCHANGED <<tasks, starter, workers, handlers, observed, jobs, secrets, cancels>>

CleanJob(w) ==
  /\ w.pc = "job"
  /\ TryDeleteJob(w.task)
  /\ Move(w, "secret")
  /\ UNCHANGED <<tasks, starter, workers, handlers, observed, secrets, cancels>>

\* Faulty variant: the Secret is left.
KeepSecret(w) ==
  /\ w.pc = "secret"
  /\ watchers' = watchers \ {w}
  /\ UNCHANGED <<baseVars, jobs, secrets, cancels>>

CleanSecret(w) ==
  /\ w.pc = "secret"
  /\ TryDeleteSecret(w.task)
  /\ watchers' = watchers \ {w}
  /\ UNCHANGED <<tasks, starter, workers, handlers, observed, jobs, cancels>>

\* After 48 hours the watcher gives up.
WatchExpires(w) ==
  /\ w.pc = "poll"
  /\ Event("expiry")
  /\ watchers' = watchers \ {w}
  /\ UNCHANGED <<tasks, starter, workers, handlers, observed, jobs, secrets, cancels>>

\* Faulty variant: the new process queues the active tasks again.
RestartRequeues ==
  /\ ReplacedRequeues("restart")
  /\ watchers' = {} /\ cancels' = {}
  /\ UNCHANGED <<workers, jobs, secrets>>

\* The backend restarts; the cluster goes on.
Restart ==
  /\ Replaced("restart")
  /\ watchers' = {} /\ cancels' = {}
  /\ UNCHANGED <<workers, jobs, secrets>>

WatcherStep(w) ==
  \/ Poll(w) \/ CheckGone(w) \/ CheckStillActive(w) \/ MarkFailed(w)
  \/ CheckSucceeded(w) \/ MarkSuccess(w) \/ CleanJob(w) \/ CleanSecret(w)

CleanupStep(q) == CancelJob(q) \/ CancelSecret(q)

KubernetesStarterStep ==
  CreateSecret \/ CreateJob \/ (StarterStep /\ UNCHANGED kubernetesVars)

PodStep(p) == PodStarts(p) \/ JobFinishes(p) \/ PodStops(p) \/ PodRemoved(p)

KubernetesNext ==
  \/ BaseNext /\ UNCHANGED kubernetesVars
  \/ \E q \in requests : CancelTask(q)
  \/ \E q \in cancels : CleanupStep(q)
  \/ CreateSecret \/ CreateJob \/ Restart
  \/ \E p \in workers : PodStep(p) \/ PodStuck(p)
  \/ \E t \in Task : TTLExpires(t)
  \/ \E w \in watchers : WatcherStep(w) \/ WatcherSkips(w) \/ WatchExpires(w)

KubernetesTypeOK ==
  /\ jobs \in [Task -> Job] /\ secrets \subseteq Task
  /\ watchers \subseteq Watcher /\ cancels \subseteq Cleanup

\* README: Secrets are cleaned up after the end of the task, once Start has
\* created its Job, whatever the worker and its reports come to.
SecretsCleaned ==
  \A t \in Task :
    tasks[t].status \in Terminal /\ t \in secrets /\ jobs[t].uid > 0 /\ Undisturbed(t)
      ~> t \notin secrets \/ ~Undisturbed(t)
=============================================================================
