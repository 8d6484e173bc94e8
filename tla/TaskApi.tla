------------------------------- MODULE TaskApi ------------------------------
(***************************************************************************)
(* The user-facing operations of the migration service: Start, Cancel and  *)
(* Retry.  Each reads the row, decides on the status it read, and then     *)
(* updates the row by id; Cancel then removes the worker container and the *)
(* env file.  A request that its check refuses changes nothing, so only    *)
(* admitted requests are kept, from their check on.                        *)
(***************************************************************************)
EXTENDS Platform

CONSTANT
  Clicks       \* bound: task -> operation -> how many requests

Op == {"start", "cancel", "retry"}

ASSUME ClicksAssumption == Clicks \in [Task -> [Op -> Nat]]

VARIABLES
  requests,    \* the admitted requests whose handler has not returned
  clicks,      \* task -> operation -> how many were admitted
  clock,       \* the last queued_at that was handed out
  queueings    \* observation: task -> how often Start or Retry queued it

apiVars == <<requests, clicks, clock, queueings>>

Request == [task: Task, op: Op, n: Nat, pc: {"write", "remove", "removeEnv"},
            now: Nat]

ApiInit ==
  /\ requests = {}
  /\ clicks = [t \in Task |-> [op \in Op |-> 0]]
  /\ clock = 0
  /\ queueings = [t \in Task |-> 0]

ApiTypeOK ==
  /\ requests \subseteq Request
  /\ clicks \in [Task -> [Op -> Nat]]
  /\ clock \in Nat
  /\ queueings \in [Task -> Nat]

\* A handler's GetTask admits the request; Start and Retry take the time.
Admit(t, op, now) ==
  /\ clicks[t][op] < Clicks[t][op]
  /\ clicks' = [clicks EXCEPT ![t][op] = @ + 1]
  /\ requests' = requests \cup
       {[task |-> t, op |-> op, n |-> clicks[t][op], pc |-> "write", now |-> now]}
  /\ clock' = now
  /\ UNCHANGED <<queueings, tasks, containers, envFiles, faults>>

StartCheck(t) ==
  /\ tasks[t].status \in {"PENDING", "CANCELLED"}
  /\ Admit(t, "start", clock + 1)

CancelCheck(t) ==
  /\ StillActive(tasks[t])
  /\ Admit(t, "cancel", clock)

RetryCheck(t) ==
  /\ tasks[t].status = "FAILED"
  /\ Admit(t, "retry", clock + 1)

\* The UPDATE of Start or Retry, after which the handler only reads.
QueueWrite(q) ==
  /\ q.op \in {"start", "retry"}
  /\ UpdateTask(q.task, QueuedRow(tasks[q.task], q.now))
  /\ queueings' = [queueings EXCEPT ![q.task] = @ + 1]
  /\ requests' = requests \ {q}
  /\ UNCHANGED <<clicks, clock, containers, envFiles, faults>>

CancelWrite(q) ==
  /\ q.op = "cancel" /\ q.pc = "write"
  /\ UpdateTask(q.task, CancelledRow(tasks[q.task]))
  /\ requests' = (requests \ {q}) \cup {[q EXCEPT !.pc = "remove"]}
  /\ UNCHANGED <<clicks, clock, queueings, containers, envFiles, faults>>

\* Cleanup: docker rm -f, whose errors are ignored, ...
CancelRemove(q) ==
  /\ q.op = "cancel" /\ q.pc = "remove"
  /\ containers' = [containers EXCEPT ![q.task] = NoContainer(@)]
  /\ requests' = (requests \ {q}) \cup {[q EXCEPT !.pc = "removeEnv"]}
  /\ UNCHANGED <<clicks, clock, queueings, tasks, envFiles, faults>>

\* ... then the env file.
CancelRemoveEnv(q) ==
  /\ q.op = "cancel" /\ q.pc = "removeEnv"
  /\ envFiles' = envFiles \ {q.task}
  /\ requests' = requests \ {q}
  /\ UNCHANGED <<clicks, clock, queueings, tasks, containers, faults>>

\* The UPDATE fails, or the browser goes away and the request's context is
\* cancelled before it: the handler returns an error.
RequestAborted(q) ==
  /\ q.pc = "write"
  /\ Fault("disconnect")
  /\ requests' = requests \ {q}
  /\ UNCHANGED <<clicks, clock, queueings, tasks, containers, envFiles>>

\* docker rm runs under the request's context too, and its failure is ignored.
CancelRemoveFails(q) ==
  /\ q.op = "cancel" /\ q.pc = "remove"
  /\ Fault("disconnect")
  /\ requests' = (requests \ {q}) \cup {[q EXCEPT !.pc = "removeEnv"]}
  /\ UNCHANGED <<clicks, clock, queueings, tasks, containers, envFiles>>

RequestStep(q) ==
  QueueWrite(q) \/ CancelWrite(q) \/ CancelRemove(q) \/ CancelRemoveEnv(q)

ApiNext ==
  \/ \E t \in Task : StartCheck(t) \/ CancelCheck(t) \/ RetryCheck(t)
  \/ \E q \in requests : RequestStep(q) \/ RequestAborted(q) \/ CancelRemoveFails(q)
=============================================================================
