---------------------------- MODULE LaunchLedger ----------------------------
(***************************************************************************)
(* What the queue promises, without any of its machinery: a worker is      *)
(* launched for a task at most once for each time a user has queued it.    *)
(***************************************************************************)
EXTENDS Naturals

CONSTANT Task

VARIABLES queued, launched  \* task -> how often

vars == <<queued, launched>>

Init ==
  /\ queued = [t \in Task |-> 0]
  /\ launched = [t \in Task |-> 0]

Queue(t) ==
  /\ queued' = [queued EXCEPT ![t] = @ + 1]
  /\ UNCHANGED launched

Launch(t) ==
  /\ launched[t] < queued[t]
  /\ launched' = [launched EXCEPT ![t] = @ + 1]
  /\ UNCHANGED queued

Next == \E t \in Task : Queue(t) \/ Launch(t)

Spec == Init /\ [][Next]_vars
=============================================================================
