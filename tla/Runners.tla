------------------------------ MODULE Runners ------------------------------
(***************************************************************************)
(* The backend with the runner that main picks by the execution mode, for  *)
(* the life of the installation: Kubernetes or local.  Docker's is in      *)
(* DBMove.                                                                 *)
(***************************************************************************)
EXTENDS KubernetesRunner, LocalRunner

VARIABLE mode   \* EXECUTION_MODE: "kubernetes" or "local"

vars == <<mode, baseVars, kubernetesVars, waiters>>

Init ==
  /\ mode \in {"kubernetes", "local"}
  /\ BaseInit /\ KubernetesInit /\ LocalInit

InKubernetes(A) == mode = "kubernetes" /\ A /\ UNCHANGED <<mode, waiters>>
InLocal(A) == mode = "local" /\ A /\ UNCHANGED <<mode, kubernetesVars>>

Next == InKubernetes(KubernetesNext) \/ InLocal(LocalNext)

Spec == Init /\ [][Next]_vars

\* Goroutines, handlers, the cluster and the workers keep running.
FairSpec ==
  /\ Spec
  /\ WF_vars(InKubernetes(KubernetesStarterStep))
  /\ WF_vars(InLocal(LocalStarterStep))
  /\ \A t \in Task :
       /\ WF_vars((\E w \in workers : w.task = t /\ WorkerStep(w))
                    /\ UNCHANGED <<mode, kubernetesVars, waiters>>)
       /\ WF_vars((\E r \in reports : r.task = t /\ ReportStep(r))
                    /\ UNCHANGED <<mode, kubernetesVars, waiters>>)
       /\ WF_vars(InKubernetes(\E w \in watchers : w.task = t /\ WatcherStep(w)))
       /\ WF_vars(InKubernetes(\E p \in workers : p.task = t /\ PodStep(p)))
       /\ WF_vars(InKubernetes(\E q \in cancels : q.task = t /\ CleanupStep(q)))
       /\ WF_vars(InLocal(\E g \in waiters : g.task = t /\ WaiterStep(g)))

TypeOK == BaseTypeOK /\ KubernetesTypeOK /\ LocalTypeOK

Ledger == INSTANCE LaunchLedger WITH queued <- queueings

\* With either runner, over AlreadyExists, deletions by name, shutdowns,
\* crashes and retries, a task gets at most one pod, or process, for each time
\* it was queued: the installation implements the ledger.
ImplementsLedger == Ledger!Spec
=============================================================================
