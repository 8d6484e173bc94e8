------------------------------ MODULE Platform ------------------------------
(***************************************************************************)
(* What the components of a DBMove installation share: the table of tasks, *)
(* the worker containers the Docker daemon knows, the env files in the     *)
(* data directory, and the environment's budget of faults.  A call to the  *)
(* database or to the Docker CLI is one atomic step; two calls of one      *)
(* handler are two steps, with anything in between.                        *)
(***************************************************************************)
EXTENDS MigrationTask, FiniteSets

CONSTANTS
  Task,        \* ids of the tasks in the table
  FaultKinds,  \* the kinds of fault that may happen in this instance
  MaxFaults    \* bound: how many of them

ASSUME TaskAssumption == IsFiniteSet(Task)
ASSUME MaxFaultsAssumption == MaxFaults \in Nat

VARIABLES
  tasks,       \* migration_tasks: task -> row
  containers,  \* Docker daemon: task -> the container named after it
  envFiles,    \* tasks whose env-<id> file is in the data directory
  faults       \* how many faults have happened

platformVars == <<tasks, containers, envFiles, faults>>

(***************************************************************************)
(* The container named dbmove-migration-<id>.  "run" counts the containers *)
(* that had the name so far, "code" is the exit code (1 for any failure),  *)
(* and pc, try and stop are the worker process inside: where its main      *)
(* thread is, which attempt of a status report it is in, and which attempt *)
(* of the CANCELLED report its SIGTERM handler is in (0: no SIGTERM).      *)
(***************************************************************************)
MainPosts == {"PREPARING", "RUNNING", "SUCCESS", "FAILED"}
WorkerPc == {"boot", "preflight", "migrate", "off"} \cup MainPosts

Container == [state: {"none", "running", "exited"}, run: Nat, code: {0, 1},
              pc: WorkerPc, try: Nat, stop: Nat]

NoContainer(c) == [state |-> "none", run |-> c.run, code |-> 0,
                   pc |-> "off", try |-> 0, stop |-> 0]

FreshContainer(c) == [state |-> "running", run |-> c.run + 1, code |-> 0,
                      pc |-> "boot", try |-> 0, stop |-> 0]

ExitedContainer(c, code) == [state |-> "exited", run |-> c.run, code |-> code,
                             pc |-> "off", try |-> 0, stop |-> 0]

Running(t) == containers[t].state = "running"

\* One fault of the given kind, out of the budget.
Fault(kind) ==
  /\ kind \in FaultKinds
  /\ faults < MaxFaults
  /\ faults' = faults + 1

PlatformInit ==
  /\ tasks = [t \in Task |-> NewRow]
  /\ containers = [t \in Task |-> [state |-> "none", run |-> 0, code |-> 0,
                                   pc |-> "off", try |-> 0, stop |-> 0]]
  /\ envFiles = {}
  /\ faults = 0

PlatformTypeOK ==
  /\ tasks \in [Task -> Row]
  /\ containers \in [Task -> Container]
  /\ envFiles \subseteq Task
  /\ faults \in Nat

(***************************************************************************)
(* UpdateTaskFields: one UPDATE by id, whatever the row holds by now.      *)
(***************************************************************************)
UpdateTask(t, row) == tasks' = [tasks EXCEPT ![t] = row]

\* The daemon removes an exited container: the workers are started with --rm.
Reap(t) ==
  /\ containers[t].state = "exited"
  /\ containers' = [containers EXCEPT ![t] = NoContainer(@)]
  /\ UNCHANGED <<tasks, envFiles, faults>>
=============================================================================
