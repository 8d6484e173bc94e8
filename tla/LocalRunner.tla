---------------------------- MODULE LocalRunner ----------------------------
(***************************************************************************)
(* The local runner: a worker process for each Start and a goroutine that  *)
(* waits for it.  Processes have no name that could collide, and Cancel    *)
(* does nothing: the process of a cancelled task works on beside that of a *)
(* later Start.  The goroutine settles the row by what it is then, not by  *)
(* whose process it was.                                                   *)
(*                                                                         *)
(* The process belongs to the context that SIGTERM ends: the backend kills *)
(* its processes when it shuts down, and the rows stay as they are.  When  *)
(* the backend crashes, its processes go on and nobody waits for them.     *)
(***************************************************************************)
EXTENDS RunnerBase

VARIABLE
  waiters       \* the goroutines that wait for a process or settle its row

Waiter == [task: Task, n: Nat, pc: {"wait", "exit0", "exit1", "mark", "fail"}]

LocalInit == waiters = {}

\* exec: the environment carries the secrets, and nothing is shared.
StartProcess ==
  /\ starter.pc = "start"
  /\ Launch("boot")
  /\ waiters' = waiters \cup
       {[task |-> starter.task, n |-> starter.n, pc |-> "wait"]}
  /\ starter' = Idle
  /\ UNCHANGED <<tasks, handlers, budget>>

\* Cancel changes the row and nothing else.
CancelRow(q) == CancelWrite(q) /\ UNCHANGED waiters

(***************************************************************************)
(* The goroutine.                                                          *)
(***************************************************************************)
Proceeds(g, pc) == waiters' = (waiters \ {g}) \cup {[g EXCEPT !.pc = pc]}

\* Wait returns the exit code.
Waited(g) ==
  /\ g.pc = "wait"
  /\ \E p \in workers :
       /\ p.task = g.task /\ p.n = g.n /\ p.pc \in {"exit0", "exit1"}
       /\ Proceeds(g, p.pc)
       /\ workers' = workers \ {p}
  /\ UNCHANGED <<tasks, starter, handlers, observed, budget>>

\* Faulty variant: the exit code is not looked at.
ReadsRowOnly(g) ==
  /\ g.pc \in {"exit0", "exit1"}
  /\ IF tasks[g.task].status \in Terminal THEN waiters' = waiters \ {g}
     ELSE Proceeds(g, "mark")
  /\ UNCHANGED baseVars

\* A row that is terminal is left alone.
ReadsRow(g) ==
  /\ g.pc \in {"exit0", "exit1"}
  /\ IF tasks[g.task].status \in Terminal THEN waiters' = waiters \ {g}
     ELSE Proceeds(g, IF g.pc = "exit0" THEN "mark" ELSE "fail")
  /\ UNCHANGED baseVars

Settles(g) ==
  /\ g.pc \in {"mark", "fail"}
  /\ Update(g.task, IF g.pc = "mark" THEN SucceededRow(tasks[g.task])
                    ELSE FailedRow(tasks[g.task]))
  /\ waiters' = waiters \ {g}
  /\ UNCHANGED <<starter, workers, handlers, observed, budget>>

\* The errors of the database are ignored.
WaiterSkips(g) ==
  /\ g.pc # "wait"
  /\ Event("db")
  /\ waiters' = waiters \ {g}
  /\ UNCHANGED <<tasks, starter, workers, handlers, observed>>

\* SIGTERM: the context ends and its processes are killed.
Shutdown ==
  /\ Replaced("shutdown")
  /\ workers' = {} /\ waiters' = {}

\* A crash: the processes go on, except that nobody waits for them.
Crash ==
  /\ Replaced("restart")
  /\ waiters' = {} /\ UNCHANGED workers

WaiterStep(g) == Waited(g) \/ ReadsRow(g) \/ Settles(g)

LocalStarterStep == StartProcess \/ (StarterStep /\ UNCHANGED waiters)

LocalNext ==
  \/ BaseNext /\ UNCHANGED waiters
  \/ \E q \in requests : CancelRow(q)
  \/ StartProcess \/ Shutdown \/ Crash
  \/ \E g \in waiters : WaiterStep(g) \/ WaiterSkips(g)

LocalTypeOK == waiters \subseteq Waiter
=============================================================================
