------------------------------ MODULE MCRunners ------------------------------
(* An instance of Runners for TLC. *)
EXTENDS Runners

AllEvents == {"queue", "cancel", "api", "db", "crash", "report", "late", "stuck", "delete", "ttl",
              "expiry", "restart", "shutdown"}
=============================================================================
