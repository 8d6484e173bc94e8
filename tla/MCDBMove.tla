------------------------------ MODULE MCDBMove ------------------------------
(* Instances of DBMove for TLC: how many requests users make, and which    *)
(* faults happen, in each of the configurations.                           *)
EXTENDS DBMove, TLC

Symmetry == Permutations(Task)

Requests(ops) == [op \in Op |-> IF op \in ops THEN 1 ELSE 0]

StartOnce == [t \in Task |-> Requests({"start"})]
StartCancel == [t \in Task |-> Requests({"start", "cancel"})]
EveryClick == [t \in Task |-> Requests(Op)]

NoFaults == {}
AllFaults == {"disconnect", "db", "docker", "inspect", "expiry", "secrets",
              "fetch", "sigterm", "crash", "timeout"}
CalmFaults == {"docker", "secrets", "fetch", "db"}
LiveFaults == {"docker", "crash"}
=============================================================================
