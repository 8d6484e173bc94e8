------------------------------ MODULE WorkerLog ------------------------------
(***************************************************************************)
(* The main thread of a worker from the beginning of Migrate: it reports,  *)
(* runs a tool, whose output goes through the LineWriter to Log and to     *)
(* Progress, reports again, says 100 percent at last, and returns; or      *)
(* something fails and it exits.  The percentages are any that the engines *)
(* may work out: they fall when the tables of another pair or the lines of *)
(* pg_restore are counted.                                                 *)
(***************************************************************************)
EXTENDS Reporter, Executor

CONSTANTS
  OwnLines,     \* bound: lines that main logs itself are among the first ones
  MaxReports    \* bound: calls of Progress before the last one

ASSUME OwnLinesAssumption == OwnLines \in Nat /\ MaxReports \in Nat

allVars == <<vars, toolVars>>

\* The lines that an engine looks for: one announces a table, one ends it.
Announces(line) == "a" \in ToSet(line)
Completes(line) == "e" \in ToSet(line)

WorkerInit == Init /\ ExecutorInit

\* The tool is blocked while onLine is in a post.
ToolWrites ==
  /\ At("main", "run") /\ ~HasLine /\ reported > 0
  /\ \E n \in 1..Len(Output) : Write(n)
  /\ UNCHANGED vars

\* reportWith holds its percentage at 99, percent does not.
Below == 0..(Full - 1)

\* onLine, called with a line that is not blank.
OnLine(line) ==
  IF Announces(line)
  THEN LogLine("main", "run") /\ UNCHANGED progressVars
  ELSE /\ IF Completes(line) THEN \E p \in Below : Progress("main", p, FALSE)
          ELSE UNCHANGED <<progressVars, pc>>
       /\ UNCHANGED lineVars

ToolLine ==
  /\ At("main", "run") /\ HasLine
  /\ ReadLine
  /\ IF Blank(NextLine) THEN UNCHANGED vars
     ELSE OnLine(NextLine) /\ UNCHANGED <<closed, outcome, faults>>

ToolDone == written = Len(Output) /\ ~HasLine

\* Before it runs the tool the engine reports what is done so far, ...
ReportBefore ==
  /\ At("main", "run") /\ reported = 0
  /\ \E p \in Below : Progress("main", p, FALSE)
  /\ UNCHANGED <<toolVars, lineVars, closed, outcome, faults>>

\* ... and behind it what is dumped by now, which is all of it behind the first
\* dump of the task.
ReportBehind ==
  /\ At("main", "run") /\ ToolDone /\ ~finished
  /\ reported \in 1..(MaxReports - 1)
  /\ \E p \in 0..Full : Progress("main", p, FALSE)
  /\ UNCHANGED <<toolVars, lineVars, closed, outcome, faults>>

\* The engine's last words, ...
Finish ==
  /\ At("main", "run") /\ ToolDone /\ ~finished /\ reported > 0
  /\ Progress("main", Full, TRUE)
  /\ UNCHANGED <<toolVars, lineVars, closed, outcome, faults>>

\* ... lines of the engine and of main, ...
WorkerLogs ==
  /\ At("main", "run") /\ ~HasLine /\ logged < OwnLines
  /\ LogLine("main", "run")
  /\ UNCHANGED <<toolVars, progressVars, closed, outcome, faults>>

\* ... and the deferred Close.
Return ==
  /\ At("main", "run") /\ ToolDone /\ finished
  /\ GoTo("main", "close")
  /\ UNCHANGED <<toolVars, lineVars, progressVars, closed, outcome, faults>>

MainStep ==
  \/ ToolWrites \/ ToolLine \/ ReportBefore \/ ReportBehind \/ Finish
  \/ WorkerLogs \/ Return
  \/ MainReports /\ UNCHANGED toolVars

WorkerNext == MainStep \/ (ReporterNext /\ UNCHANGED toolVars)

Spec == WorkerInit /\ [][WorkerNext]_allVars

\* The worker's threads, the tool and the backend's handlers keep running.
FairSpec ==
  /\ Spec
  /\ WF_allVars(MainStep)
  /\ WF_allVars(TickerStep /\ UNCHANGED toolVars)
  /\ WF_allVars(SignalStep /\ UNCHANGED toolVars)
  /\ WF_allVars((\E p \in posts : p.waiting /\ StoreLogs(p)) /\ UNCHANGED toolVars)
  /\ WF_allVars((\E u \in updates : u.waiting /\ StoreProgress(u)) /\ UNCHANGED toolVars)

TypeOK ==
  /\ ReporterTypeOK
  /\ written \in 0..Len(Output) /\ buf \in Seq(ToSet(Output))
  /\ tail \in Seq(Seq(ToSet(Output))) /\ Len(tail) <= TailLimit
=============================================================================
