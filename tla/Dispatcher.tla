----------------------------- MODULE Dispatcher -----------------------------
(***************************************************************************)
(* The dispatcher: one goroutine that, every second, counts the active     *)
(* rows once and then claims and starts queued tasks, oldest first, until  *)
(* its own count reaches the limit or the queue is empty.                  *)
(***************************************************************************)
EXTENDS DockerRunner

CONSTANTS
  MaxConcurrent, \* the limit on active tasks
  NoTask         \* the dispatcher has no task in hand

ASSUME MaxConcurrentAssumption == MaxConcurrent \in Nat
ASSUME NoTaskAssumption == NoTask \notin Task

VARIABLE
  disp           \* where dispatchOnce is, its count, and the task in hand

DispatcherState ==
  [pc: {"idle", "next", "claim", "reload", "env", "run", "fail"},
   active: Nat, task: Task \cup {NoTask}]

DispatcherInit == disp = [pc |-> "idle", active |-> 0, task |-> NoTask]

DispatcherTypeOK ==
  /\ disp \in DispatcherState
  /\ disp.pc \in {"claim", "reload", "env", "run", "fail"} => disp.task \in Task

ActiveTasks == {t \in Task : tasks[t].status \in Active}

\* NextPendingTask's candidates.
Queue == {t \in Task : IsQueued(tasks[t])}

At(pc) == disp.pc = pc
\* Faulty variant: the task in hand is forgotten.
GoToEmptyHanded(pc) == disp' = [disp EXCEPT !.pc = pc, !.task = NoTask]

GoTo(pc) == disp' = [disp EXCEPT !.pc = pc]
GoIdle == disp' = [pc |-> "idle", active |-> 0, task |-> NoTask]
GoNext == disp' = [disp EXCEPT !.pc = "next", !.task = NoTask]

CountActive ==
  /\ At("idle")
  /\ disp' = [disp EXCEPT !.pc = "next", !.active = Cardinality(ActiveTasks)]
  /\ UNCHANGED <<platformVars, watchers>>

\* Faulty variant: one task too many.
PickOneMore ==
  /\ At("next")
  /\ disp.active <= MaxConcurrent
  /\ \E t \in Queue :
       /\ \A u \in Queue : tasks[t].queued <= tasks[u].queued
       /\ disp' = [disp EXCEPT !.pc = "claim", !.task = t]
  /\ UNCHANGED <<platformVars, watchers>>

\* The loop condition holds and the queue is not empty.
PickNext ==
  /\ At("next")
  /\ disp.active < MaxConcurrent
  /\ \E t \in Queue :
       /\ \A u \in Queue : tasks[t].queued <= tasks[u].queued
       /\ disp' = [disp EXCEPT !.pc = "claim", !.task = t]
  /\ UNCHANGED <<platformVars, watchers>>

Return ==
  /\ At("next")
  /\ disp.active >= MaxConcurrent \/ Queue = {}
  /\ GoIdle
  /\ UNCHANGED <<platformVars, watchers>>

\* secretsFor: a password cannot be decrypted or a connection not be read.
SecretsFail ==
  /\ At("claim")
  /\ Fault("secrets")
  /\ GoTo("fail")
  /\ UNCHANGED <<tasks, containers, envFiles, watchers>>

\* The claim is an UPDATE by id: it does not look at the row's status.
Claim ==
  /\ At("claim")
  /\ UpdateTask(disp.task, ClaimedRow(tasks[disp.task]))
  /\ GoTo("reload")
  /\ UNCHANGED <<containers, envFiles, faults, watchers>>

\* Faulty variant: it looks at the row that it has read before the claim.
ReloadStale ==
  /\ At("reload")
  /\ GoNext
  /\ UNCHANGED <<platformVars, watchers>>

Reload ==
  /\ At("reload")
  /\ IF tasks[disp.task].status = "PREPARING" THEN GoTo("env") ELSE GoNext
  /\ UNCHANGED <<platformVars, watchers>>

\* DockerRunner.Start writes the env file ...
WriteEnvFile ==
  /\ At("env")
  /\ envFiles' = envFiles \cup {disp.task}
  /\ GoTo("run")
  /\ UNCHANGED <<tasks, containers, faults, watchers>>

\* ... runs the container, and removes the file when it returns.
StartWorker ==
  /\ At("run")
  /\ CanRun(disp.task)
  /\ RunContainer(disp.task)
  /\ envFiles' = envFiles \ {disp.task}
  /\ disp' = [pc |-> "next", active |-> disp.active + 1, task |-> NoTask]
  /\ UNCHANGED <<tasks, faults>>

StartRefused ==
  /\ At("run")
  /\ ~CanRun(disp.task)
  /\ envFiles' = envFiles \ {disp.task}
  /\ GoTo("fail")
  /\ UNCHANGED <<tasks, containers, faults, watchers>>

\* The env file cannot be written, or docker run fails for another reason.
StartFails ==
  /\ \/ At("env") /\ UNCHANGED envFiles
     \/ At("run") /\ envFiles' = envFiles \ {disp.task}
  /\ Fault("docker")
  /\ GoTo("fail")
  /\ UNCHANGED <<tasks, containers, watchers>>

\* Faulty variant: the claimed row is left as it is.
SkipTask ==
  /\ At("fail")
  /\ GoNext
  /\ UNCHANGED <<platformVars, watchers>>

\* The UPDATE to FAILED after secretsFor or Start failed.
FailTask ==
  /\ At("fail")
  /\ UpdateTask(disp.task, FailedRow(tasks[disp.task]))
  /\ GoNext
  /\ UNCHANGED <<containers, envFiles, faults, watchers>>

\* A database call fails: dispatchOnce returns, except that the error of the
\* UPDATE to FAILED is dropped.
DispatcherAborted ==
  /\ disp.pc \in {"next", "claim", "reload", "fail"}
  /\ Fault("db")
  /\ IF At("fail") THEN GoNext ELSE GoIdle
  /\ UNCHANGED <<tasks, containers, envFiles, watchers>>

DispatcherStep ==
  \/ CountActive \/ PickNext \/ Return \/ Claim \/ Reload
  \/ WriteEnvFile \/ StartWorker \/ StartRefused \/ FailTask

DispatcherNext ==
  DispatcherStep \/ SecretsFail \/ StartFails \/ DispatcherAborted
=============================================================================
