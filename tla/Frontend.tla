------------------------------ MODULE Frontend ------------------------------
(***************************************************************************)
(* The pages of the frontend that keep a state of their own while the      *)
(* backend moves: the form for a new task, and the page of a task.  The    *)
(* router shows one of them, and what the form knew is gone when its task  *)
(* is started and it leaves for the task's page.  A task's page opens in   *)
(* its initial state, whoever made the task, so the two are followed       *)
(* apart; without a browser there are other clients of the API.            *)
(***************************************************************************)
EXTENDS MigrationForm, TaskPage

VARIABLE view   \* "form", "task", or "none"

vars == <<view, formVars, pageVars>>

Init ==
  /\ view \in {"form", "task", "none"}
  /\ PageInit
  /\ IF view = "form" THEN FormInit ELSE ClientInit
  /\ view = "task" => rows = <<>>

Next ==
  \/ view # "task" /\ FormNext /\ UNCHANGED <<view, pageVars>>
  \/ view = "task" /\ PageNext /\ UNCHANGED <<view, formVars>>

Spec == Init /\ [][Next]_vars

\* The timer fires, and a GET that does not fail is read and answered.
FairSpec ==
  /\ Spec
  /\ \A g \in Poll : WF_vars(view = "task" /\ SendPoll(g) /\ UNCHANGED <<view, formVars>>)
  /\ \A g \in Get :
       WF_vars(view = "task" /\ (ReadTask(g) \/ Answer(g)) /\ UNCHANGED <<view, formVars>>)
=============================================================================
