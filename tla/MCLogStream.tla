----------------------------- MODULE MCLogStream -----------------------------
(* Instances of LogStream for TLC: a batch of the worker, a watcher that    *)
(* fails the task and says so, a silent request of a user; and a watcher    *)
(* alone with a single row. *)
EXTENDS LogStream, TLC

Symmetry == Permutations(Conn)

RowCounts == [w \in Writer |-> IF w = "worker" THEN 2 ELSE 1]
OneRow == [w \in Writer |-> 1]
=============================================================================
