------------------------------- MODULE Worker -------------------------------
(***************************************************************************)
(* The worker process of a container, and the backend's handler of its     *)
(* status reports.  The main thread fetches its configuration, reports     *)
(* PREPARING, checks the databases, reports RUNNING, migrates, reports the *)
(* outcome and exits.  A report is tried MaxAttempts times and then given  *)
(* up: Status returns nothing and the worker goes on.  SIGTERM starts a    *)
(* second thread that reports CANCELLED and ends the process.              *)
(*                                                                         *)
(* The handler reads the row, ignores the report when the row is terminal  *)
(* with another status, and updates the row by id.  An attempt that times  *)
(* out, or whose worker dies, leaves its handler running.                  *)
(***************************************************************************)
EXTENDS Platform

CONSTANT
  MaxAttempts  \* attempts of a status report (5 in the code)

ASSUME MaxAttemptsAssumption == MaxAttempts \in Nat \ {0}

VARIABLES
  reports,     \* the status handlers in flight
  migrated     \* observation: tasks a worker of which has finished Migrate

workerVars == <<reports, migrated>>

Reported == MainPosts \cup {"CANCELLED"}

Report == [task: Task, run: Nat, status: Reported, try: Nat,
           pc: {"read", "write"}, waiting: BOOLEAN]

WorkerInit == reports = {} /\ migrated = {}

WorkerTypeOK == reports \subseteq Report /\ migrated \subseteq Task

\* The worker that sent the report is alive and waits for the answer.
IsAwaited(r) ==
  r.waiting /\ Running(r.task) /\ containers[r.task].run = r.run

Awaiting(t, status) ==
  \E r \in reports : r.task = t /\ r.status = status /\ IsAwaited(r)

Send(t, status, try) ==
  reports' = reports \cup
    {[task |-> t, run |-> containers[t].run, status |-> status, try |-> try,
      pc |-> "read", waiting |-> TRUE]}

\* Faulty variant: a worker that fails exits with 0.
AfterReportExits0(c, status) ==
  IF status \in {"PREPARING", "RUNNING"}
  THEN [c EXCEPT !.pc = IF status = "PREPARING" THEN "preflight" ELSE "migrate",
                 !.try = 0]
  ELSE ExitedContainer(c, 0)

\* The worker after its report of this status was answered or given up.
AfterReport(c, status) ==
  IF status \in {"PREPARING", "RUNNING"}
  THEN [c EXCEPT !.pc = IF status = "PREPARING" THEN "preflight" ELSE "migrate",
                 !.try = 0]
  ELSE ExitedContainer(c, IF status = "SUCCESS" THEN 0 ELSE 1)

MainAt(t, pc) == Running(t) /\ containers[t].pc = pc

\* The main thread turns to reporting a status.
MainReports(t, status) ==
  /\ containers' = [containers EXCEPT ![t] = [@ EXCEPT !.pc = status, !.try = 1]]
  /\ Send(t, status, 1)
  /\ UNCHANGED <<tasks, envFiles>>

\* fetchTask answers whatever the row's status is.
Boot(t) ==
  /\ MainAt(t, "boot")
  /\ MainReports(t, "PREPARING")
  /\ UNCHANGED <<faults, migrated>>

FetchFails(t) ==
  /\ MainAt(t, "boot")
  /\ Fault("fetch")
  /\ MainReports(t, "FAILED")
  /\ UNCHANGED migrated

Preflight(t) ==
  /\ MainAt(t, "preflight")
  /\ \E outcome \in {"RUNNING", "FAILED"} : MainReports(t, outcome)
  /\ UNCHANGED <<faults, migrated>>

Migrate(t) ==
  /\ MainAt(t, "migrate")
  /\ \/ MainReports(t, "SUCCESS") /\ migrated' = migrated \cup {t}
     \/ MainReports(t, "FAILED") /\ UNCHANGED migrated
  /\ UNCHANGED faults

\* postRetry after an attempt that brought no answer: again, or give up.
Retry(t) ==
  LET c == containers[t] IN
  /\ Running(t) /\ c.pc \in MainPosts /\ ~Awaiting(t, c.pc)
  /\ IF c.try < MaxAttempts
     THEN /\ containers' = [containers EXCEPT ![t].try = @ + 1]
          /\ Send(t, c.pc, c.try + 1)
     ELSE /\ containers' = [containers EXCEPT ![t] = AfterReport(@, c.pc)]
          /\ UNCHANGED reports
  /\ UNCHANGED <<tasks, envFiles, faults, migrated>>

\* The operator stops the container or the host shuts down.
Sigterm(t) ==
  /\ Running(t) /\ containers[t].stop = 0
  /\ Fault("sigterm")
  /\ containers' = [containers EXCEPT ![t].stop = 1]
  /\ Send(t, "CANCELLED", 1)
  /\ UNCHANGED <<tasks, envFiles, migrated>>

RetryStop(t) ==
  LET c == containers[t] IN
  /\ Running(t) /\ c.stop # 0 /\ ~Awaiting(t, "CANCELLED")
  /\ IF c.stop < MaxAttempts
     THEN /\ containers' = [containers EXCEPT ![t].stop = @ + 1]
          /\ Send(t, "CANCELLED", c.stop + 1)
     ELSE /\ containers' = [containers EXCEPT ![t] = AfterReport(@, "CANCELLED")]
          /\ UNCHANGED reports
  /\ UNCHANGED <<tasks, envFiles, faults, migrated>>

\* The process is killed, also before its first report and while a handler of
\* its report is at work.
Crash(t) ==
  /\ Running(t)
  /\ Fault("crash")
  /\ containers' = [containers EXCEPT ![t] = ExitedContainer(@, 1)]
  /\ UNCHANGED <<tasks, envFiles, reports, migrated>>

(***************************************************************************)
(* The handler of POST /internal/tasks/:id/status.                         *)
(***************************************************************************)

\* The answer reaches the worker if it still waits for it.
Answer(r) ==
  /\ reports' = reports \ {r}
  /\ containers' = IF IsAwaited(r)
                   THEN [containers EXCEPT ![r.task] = AfterReport(@, r.status)]
                   ELSE containers

\* "Terminal states are final".
IsRefused(r) == tasks[r.task].status \in Terminal /\ tasks[r.task].status # r.status

ReportRead(r) ==
  /\ r.pc = "read"
  /\ IF IsRefused(r)
     THEN Answer(r)
     ELSE /\ reports' = (reports \ {r}) \cup {[r EXCEPT !.pc = "write"]}
          /\ UNCHANGED containers
  /\ UNCHANGED <<tasks, envFiles, faults, migrated>>

ReportWrite(r) ==
  /\ r.pc = "write"
  /\ UpdateTask(r.task, ReportedRow(tasks[r.task], r.status))
  /\ Answer(r)
  /\ UNCHANGED <<envFiles, faults, migrated>>

\* A database call of the handler fails; the worker gets a 500.
ReportFails(r) ==
  /\ Fault("db")
  /\ reports' = reports \ {r}
  /\ UNCHANGED <<tasks, containers, envFiles, migrated>>

\* The worker stops waiting, or the answer is lost; the handler runs on.
ReportTimesOut(r) ==
  /\ IsAwaited(r)
  /\ Fault("timeout")
  /\ reports' = (reports \ {r}) \cup {[r EXCEPT !.waiting = FALSE]}
  /\ UNCHANGED <<tasks, containers, envFiles, migrated>>

\* The handler notices that its client is gone and its context cancelled.
ReportDropped(r) ==
  /\ ~IsAwaited(r)
  /\ reports' = reports \ {r}
  /\ UNCHANGED <<platformVars, migrated>>

ReportStep(r) == ReportRead(r) \/ ReportWrite(r)

ProcessStep(t) ==
  Boot(t) \/ Preflight(t) \/ Migrate(t) \/ Retry(t) \/ RetryStop(t)

WorkerNext ==
  \/ \E t \in Task :
       ProcessStep(t) \/ FetchFails(t) \/ Sigterm(t) \/ Crash(t)
  \/ \E r \in reports :
       ReportStep(r) \/ ReportFails(r) \/ ReportTimesOut(r) \/ ReportDropped(r)
=============================================================================
