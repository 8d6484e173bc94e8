---------------------------- MODULE DockerRunner ----------------------------
(***************************************************************************)
(* The Docker runner: docker run under the task's container name, and the  *)
(* watcher goroutine that every successful docker run leaves behind, which *)
(* polls the container by name and settles the row when the worker has     *)
(* gone without reporting.                                                 *)
(***************************************************************************)
EXTENDS Platform

VARIABLE
  watchers     \* the live watcher goroutines

Watcher == [task: Task, run: Nat,
            pc: {"poll", "gone", "exited", "fail", "failed", "succeed", "exit0"}]

RunnerInit == watchers = {}
RunnerTypeOK == watchers \subseteq Watcher

Move(w, pc) == watchers' = (watchers \ {w}) \cup {[w EXCEPT !.pc = pc]}
Stop(w) == watchers' = watchers \ {w}

\* docker run: the name must be free and the env file must still be there.
CanRun(t) == containers[t].state = "none" /\ t \in envFiles

\* Faulty variant: no watcher is started.
RunUnwatched(t) ==
  /\ containers' = [containers EXCEPT ![t] = FreshContainer(@)]
  /\ UNCHANGED watchers

RunContainer(t) ==
  /\ containers' = [containers EXCEPT ![t] = FreshContainer(@)]
  /\ watchers' = watchers \cup
       {[task |-> t, run |-> containers[t].run + 1, pc |-> "poll"]}

(***************************************************************************)
(* watch.  A poll that finds the container running waits for the next one. *)
(***************************************************************************)

\* The first docker inspect fails: there is no container of that name.
PollGone(w) ==
  /\ w.pc = "poll"
  /\ containers[w.task].state = "none"
  /\ Move(w, "gone")
  /\ UNCHANGED platformVars

\* The first docker inspect fails although the container is there.
PollHiccup(w) ==
  /\ w.pc = "poll"
  /\ Fault("inspect")
  /\ Move(w, "gone")
  /\ UNCHANGED <<tasks, containers, envFiles>>

PollExited(w) ==
  /\ w.pc = "poll"
  /\ containers[w.task].state = "exited"
  /\ Move(w, "exited")
  /\ UNCHANGED platformVars

\* After 24 hours the watcher gives up.
WatchExpires(w) ==
  /\ w.pc = "poll"
  /\ Fault("expiry")
  /\ Stop(w)
  /\ UNCHANGED <<tasks, containers, envFiles>>

\* The second docker inspect asks for the exit code.  It answers 0 for a
\* running container, and when there is none its failure is taken for 0 ...
ReadExitCode(w) ==
  /\ w.pc = "exited"
  /\ Move(w, IF containers[w.task].code = 0 THEN "exit0" ELSE "failed")
  /\ UNCHANGED platformVars

\* ... as it is when the container is still there.
ExitCodeHiccup(w) ==
  /\ w.pc = "exited"
  /\ Fault("inspect")
  /\ Move(w, "exit0")
  /\ UNCHANGED <<tasks, containers, envFiles>>

\* No container: leave a terminal row alone, otherwise mark it FAILED.
CheckGone(w) ==
  /\ w.pc = "gone"
  /\ IF tasks[w.task].status \in Terminal THEN Stop(w) ELSE Move(w, "failed")
  /\ UNCHANGED platformVars

\* Faulty variant: only RUNNING is active.
CheckRunning(w) ==
  /\ w.pc = "failed"
  /\ IF tasks[w.task].status = "RUNNING" THEN Move(w, "fail") ELSE Stop(w)
  /\ UNCHANGED platformVars

\* MarkFailedIfStillActive reads the row ...
CheckStillActive(w) ==
  /\ w.pc = "failed"
  /\ IF StillActive(tasks[w.task]) THEN Move(w, "fail") ELSE Stop(w)
  /\ UNCHANGED platformVars

\* Faulty variant: the dead task goes back to the queue.
MarkPending(w) ==
  /\ w.pc = "fail"
  /\ UpdateTask(w.task, [tasks[w.task] EXCEPT !.status = "PENDING"])
  /\ Stop(w)
  /\ UNCHANGED <<containers, envFiles, faults>>

\* ... and updates it.
MarkFailed(w) ==
  /\ w.pc = "fail"
  /\ UpdateTask(w.task, FailedRow(tasks[w.task]))
  /\ Stop(w)
  /\ UNCHANGED <<containers, envFiles, faults>>

\* Faulty variant: the terminal check is missing.
TakeExit0(w) ==
  /\ w.pc = "exit0"
  /\ Move(w, "succeed")
  /\ UNCHANGED platformVars

\* Exit code 0: the worker should have reported; if not, it succeeded.
CheckExit0(w) ==
  /\ w.pc = "exit0"
  /\ IF tasks[w.task].status \in Terminal THEN Stop(w) ELSE Move(w, "succeed")
  /\ UNCHANGED platformVars

MarkSuccess(w) ==
  /\ w.pc = "succeed"
  /\ UpdateTask(w.task, SucceededRow(tasks[w.task]))
  /\ Stop(w)
  /\ UNCHANGED <<containers, envFiles, faults>>

\* A database call of the watcher fails: it returns without trying again.
WatcherAborted(w) ==
  /\ w.pc \notin {"poll", "exited"}
  /\ Fault("db")
  /\ Stop(w)
  /\ UNCHANGED <<tasks, containers, envFiles>>

WatcherStep(w) ==
  \/ PollGone(w) \/ PollExited(w) \/ ReadExitCode(w)
  \/ CheckGone(w) \/ CheckStillActive(w) \/ MarkFailed(w)
  \/ CheckExit0(w) \/ MarkSuccess(w)

WatcherFault(w) ==
  PollHiccup(w) \/ WatchExpires(w) \/ ExitCodeHiccup(w) \/ WatcherAborted(w)

RunnerNext == \E w \in watchers : WatcherStep(w) \/ WatcherFault(w)
=============================================================================
