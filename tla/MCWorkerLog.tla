----------------------------- MODULE MCWorkerLog -----------------------------
(* An instance of WorkerLog for TLC: a tool that announces a table, ends it,
   prints a blank line, and stops within a line. *)
EXTENDS WorkerLog

ToolOutput == <<"a", "\n", "e", "\r", "\n", " ", "\n", "x">>

AllFaults == {"error", "timeout", "sigterm"}
=============================================================================
