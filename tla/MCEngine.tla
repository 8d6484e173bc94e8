------------------------------ MODULE MCEngine ------------------------------
(* An instance of Engine for TLC, with databases "a", "b", "c" and "e" there
   from the beginning.  Over MySQL, "my" writes into "a", "b" and "c", which
   must be there, and "kept" may not touch "e"; over PostgreSQL, "new" creates
   "f" and "g", and "rival" creates "f" too, or overwrites it. *)
EXTENDS Engine

To(d, n) == [target |-> d, tables |-> n]

PairsOf ==
  [t \in Task |-> CASE t = "my" -> <<To("a", 2), To("b", 0), To("c", 1)>>
                    [] t = "kept" -> <<To("e", 1)>>
                    [] t = "new" -> <<To("f", 1), To("g", 1)>>
                    [] t = "rival" -> <<To("f", 1)>>]
PolicyOf ==
  [t \in Task |-> CASE t = "my" -> "error" [] t = "rival" -> "overwrite"
                    [] OTHER -> "create"]

\* A run more than there are faults; one more for "rival", which may lose the
\* creation of "f" to "new".
RunsOf == [t \in Task |-> CASE t = "rival" -> 3 [] t = "my" -> 2 [] OTHER -> 1]
=============================================================================
