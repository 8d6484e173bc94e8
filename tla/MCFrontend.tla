----------------------------- MODULE MCFrontend -----------------------------
(* An instance of Frontend for TLC: two MySQL connections with a database  *)
(* name in common and a PostgreSQL one; a task that is claimed, runs, and   *)
(* ends, fails, is cancelled or retried. *)
EXTENDS Frontend

Types == [c \in Connection |-> IF c = "p1" THEN "postgresql" ELSE "mysql"]
Lists == [c \in Connection |-> IF c = "m1" THEN {"a", "b"} ELSE {"b"}]

\* Every mapping of up to two pairs, and every pair of the time before.
Inputs ==
  [source: {"m1"}, target: {"m1", "m2", "p1"},
   databases: UNION {[1..n -> Pair] : n \in 0..2}, legacy: {NoPair}]
    \cup [source: {"m1"}, target: {"m2"}, databases: {<<>>, <<[source |-> "a", target |-> "a"]>>},
          legacy: Pair]

Statuses ==
  [w \in Writer |-> CASE w = "claim" -> "PREPARING" [] w = "run" -> "RUNNING"
                      [] w = "end" -> "SUCCESS" [] w = "watch" -> "FAILED"
                      [] w = "cancel" -> "CANCELLED" [] w = "retry" -> "QUEUED"]
=============================================================================
