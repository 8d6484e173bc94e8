------------------------------- MODULE Engine -------------------------------
(***************************************************************************)
(* The dump-and-restore engines of the worker, for MySQL and PostgreSQL,   *)
(* and the target databases they write to.  A run of a task checks every   *)
(* pair of databases in Preflight; Migrate then takes the pairs in order:  *)
(* create the target when it is missing, count the tables, dump them all,  *)
(* restore them.  Nothing locks a target between the check and the         *)
(* restore, and a run that fails leaves what it has written.               *)
(*                                                                         *)
(* A source database is the number of its tables; table k of every source  *)
(* has the same name.                                                      *)
(***************************************************************************)
EXTENDS Naturals, Sequences

CONSTANTS
  Task,         \* tasks whose workers run here
  DB,           \* databases of the target servers
  Existing,     \* those that are there, with data, before any task runs
  Pairs,        \* task -> its pairs, as records [target, tables]
  Policy,       \* task -> its target_db_policy
  PostgreSQL,   \* the tasks that the PostgreSQL engine runs; MySQL's runs the others
  MaxTables,    \* the largest number of tables in a source
  MaxRuns,      \* bound: task -> its runs (a start and its retries)
  MaxFaults     \* bound: steps that fail

Pair == [target: DB, tables: 0..MaxTables]

\* Whose data is in a table, beside a task's.
None == "none"
User == "user"
Mixed == "mixed"

ASSUME EngineAssumption ==
  /\ Existing \subseteq DB
  /\ Task \cap {None, User, Mixed} = {}
  /\ Pairs \in [Task -> Seq(Pair)]
  /\ \A t \in Task : Pairs[t] # <<>>
  /\ Policy \in [Task -> {"error", "create", "overwrite"}]
  /\ PostgreSQL \subseteq Task
  /\ MaxTables \in Nat /\ MaxRuns \in [Task -> Nat] /\ MaxFaults \in Nat

VARIABLES
  exists,       \* the databases of the target servers
  creator,      \* observation: database -> the task that created it, or "user"
  table,        \* database -> table -> whose data it holds
  run,          \* task -> where its worker is: the step, the pair, the tables
                \* done in this step, and whether pg_restore has met an error
  progress,     \* task -> the aggregate and the last report
  runs,         \* task -> how often it was started
  faults        \* how many steps have failed

vars == <<exists, creator, table, run, progress, runs, faults>>

TableName == 1..MaxTables
Owner == Task \cup {None, User, Mixed}

NoProgress == [total |-> 0, completed |-> 0, done |-> 0, percent |-> 0]

Init ==
  /\ exists = Existing
  /\ creator = [d \in DB |-> User]
  /\ table = [d \in DB |-> [k \in TableName |->
                IF d \in Existing /\ k = 1 THEN User ELSE None]]
  /\ run = [t \in Task |-> [pc |-> "idle", i |-> 1, k |-> 0, bad |-> FALSE]]
  /\ progress = [t \in Task |-> NoProgress]
  /\ runs = [t \in Task |-> 0]
  /\ faults = 0

At(t, pc) == run[t].pc = pc
Current(t) == Pairs[t][run[t].i]
GoToPair(t, pc, i) ==
  run' = [run EXCEPT ![t] = [pc |-> pc, i |-> i, k |-> 0, bad |-> FALSE]]
GoTo(t, pc) == GoToPair(t, pc, run[t].i)

\* Faulty variant: a report is not held at 99 percent.
ReportUnclamped(p, phaseDone) ==
  LET done == p.completed + phaseDone IN
  [p EXCEPT !.done = done,
            !.percent = IF p.total = 0 THEN 0 ELSE (done * 100) \div p.total]

\* reportWith: the tables of finished dumps and those of this phase, at most
\* 99 percent.
Report(p, phaseDone) ==
  LET done == p.completed + phaseDone
      percent == IF p.total = 0 THEN 0 ELSE (done * 100) \div p.total IN
  [p EXCEPT !.done = done, !.percent = IF percent > 99 THEN 99 ELSE percent]

\* The worker starts: a first start, or a retry of a failed task.
Launch(t) ==
  /\ run[t].pc \in {"idle", "failed"} /\ runs[t] < MaxRuns[t]
  /\ runs' = [runs EXCEPT ![t] = @ + 1]
  /\ GoToPair(t, "check", 1)
  /\ progress' = [progress EXCEPT ![t] = NoProgress]
  /\ UNCHANGED <<exists, creator, table, faults>>

\* Faulty variant: only a missing target is refused.
RefusesMissing(t) == Current(t).target \notin exists /\ Policy[t] = "error"

\* Preflight's decision on one pair.
Refuses(t) ==
  IF Current(t).target \in exists THEN Policy[t] = "create" ELSE Policy[t] = "error"

Check(t) ==
  /\ At(t, "check")
  /\ IF Refuses(t) THEN GoTo(t, "failed")
     ELSE IF run[t].i < Len(Pairs[t]) THEN GoToPair(t, "check", run[t].i + 1)
     ELSE GoToPair(t, "ensure", 1)
  /\ UNCHANGED <<exists, creator, table, progress, runs, faults>>

\* ensureTargetDB looks again ...
Ensure(t) ==
  /\ At(t, "ensure")
  /\ GoTo(t, IF Current(t).target \in exists THEN "stats"
             ELSE IF Policy[t] = "error" THEN "failed" ELSE "create")
  /\ UNCHANGED <<exists, creator, table, progress, runs, faults>>

\* ... and creates the database, unless it has appeared since.
CreateDatabase(t) ==
  LET d == Current(t).target IN
  /\ At(t, "create")
  /\ IF d \in exists
     THEN GoTo(t, "failed") /\ UNCHANGED <<exists, creator>>
     ELSE /\ exists' = exists \cup {d}
          /\ creator' = [creator EXCEPT ![d] = t]
          /\ GoTo(t, "stats")
  /\ UNCHANGED <<table, progress, runs, faults>>

\* The loop over the pairs goes on, or ends with a report of 100 percent.
NextPair(t, p) ==
  IF run[t].i < Len(Pairs[t])
  THEN /\ GoToPair(t, "ensure", run[t].i + 1)
       /\ progress' = [progress EXCEPT ![t] = p]
  ELSE /\ GoTo(t, "success")
       /\ progress' = [progress EXCEPT ![t] =
            [p EXCEPT !.done = p.total, !.percent = 100]]

\* Faulty variant: an empty source ends the loop.
StatsOrStop(t) ==
  LET n == Current(t).tables
      p == Report([progress[t] EXCEPT !.total = @ + n], 0) IN
  /\ At(t, "stats")
  /\ GoTo(t, IF n = 0 THEN "success" ELSE "dump")
  /\ progress' = [progress EXCEPT ![t] = p]
  /\ UNCHANGED <<exists, creator, table, runs, faults>>

\* Count the tables; a source without tables is skipped.
Stats(t) ==
  LET n == Current(t).tables
      p == Report([progress[t] EXCEPT !.total = @ + n], 0) IN
  /\ At(t, "stats")
  /\ IF n = 0 THEN NextPair(t, p)
     ELSE GoTo(t, "dump") /\ progress' = [progress EXCEPT ![t] = p]
  /\ UNCHANGED <<exists, creator, table, runs, faults>>

\* The dump tool prints a line for each table; the source does not change.
DumpTable(t) ==
  /\ At(t, "dump") /\ run[t].k < Current(t).tables
  /\ run' = [run EXCEPT ![t].k = @ + 1]
  /\ progress' = [progress EXCEPT ![t] = Report(@, run[t].k + 1)]
  /\ UNCHANGED <<exists, creator, table, runs, faults>>

\* Faulty variant: the tables of the phase are counted again.
DumpDoneTwice(t) ==
  LET completed == progress[t].completed + Current(t).tables IN
  /\ At(t, "dump") /\ run[t].k = Current(t).tables
  /\ GoTo(t, "restore")
  /\ progress' = [progress EXCEPT ![t] =
       [@ EXCEPT !.completed = completed, !.done = completed + run[t].k,
                 !.percent = (completed * 100) \div progress[t].total]]
  /\ UNCHANGED <<exists, creator, table, runs, faults>>

\* The dump is complete; this report is not held at 99.
DumpDone(t) ==
  LET completed == progress[t].completed + Current(t).tables IN
  /\ At(t, "dump") /\ run[t].k = Current(t).tables
  /\ GoTo(t, "restore")
  /\ progress' = [progress EXCEPT ![t] =
       [@ EXCEPT !.completed = completed, !.done = completed,
                 !.percent = (completed * 100) \div progress[t].total]]
  /\ UNCHANGED <<exists, creator, table, runs, faults>>

\* Faulty variant: the tools never drop what is there.
NeverReplaces(t) == FALSE

\* Whether restoring replaces a table of the same name: the MySQL dumps carry
\* DROP TABLE, pg_restore drops only with --clean.
Replaces(t) == t \notin PostgreSQL \/ Policy[t] = "overwrite"

\* pg_restore meets an error when the table is there, and goes on.  Only the
\* PostgreSQL engine reports restored tables.
RestoreTable(t) ==
  LET d == Current(t).target
      k == run[t].k + 1
      clash == ~Replaces(t) /\ table[d][k] # None IN
  /\ At(t, "restore") /\ run[t].k < Current(t).tables
  /\ table' = [table EXCEPT ![d][k] = IF clash THEN Mixed ELSE t]
  /\ run' = [run EXCEPT ![t].k = k, ![t].bad = @ \/ clash]
  /\ progress' = IF t \in PostgreSQL THEN [progress EXCEPT ![t] = Report(@, k)]
                 ELSE progress
  /\ UNCHANGED <<exists, creator, runs, faults>>

\* The restore tool exits, with 1 if it has met an error.
RestoreDone(t) ==
  /\ At(t, "restore") /\ run[t].k = Current(t).tables
  /\ IF run[t].bad THEN GoTo(t, "failed") /\ UNCHANGED progress
     ELSE NextPair(t, progress[t])
  /\ UNCHANGED <<exists, creator, table, runs, faults>>

\* A connection, a query or a tool fails, or the worker is killed.
StepFails(t) ==
  /\ run[t].pc \notin {"idle", "failed", "success"}
  /\ faults < MaxFaults
  /\ faults' = faults + 1
  /\ GoTo(t, "failed")
  /\ UNCHANGED <<exists, creator, table, progress, runs>>

Step(t) ==
  \/ Check(t) \/ Ensure(t) \/ CreateDatabase(t) \/ Stats(t)
  \/ DumpTable(t) \/ DumpDone(t) \/ RestoreTable(t) \/ RestoreDone(t)

Next == \E t \in Task : Launch(t) \/ Step(t) \/ StepFails(t)

Spec == Init /\ [][Next]_vars

\* Workers go on, and the user keeps retrying what has failed.
FairSpec == Spec /\ \A t \in Task : WF_vars(Launch(t)) /\ WF_vars(Step(t))

TypeOK ==
  /\ exists \subseteq DB
  /\ creator \in [DB -> Task \cup {User}]
  /\ table \in [DB -> [TableName -> Owner]]
  /\ run \in [Task -> [pc: {"idle", "check", "ensure", "create", "stats", "dump",
                            "restore", "failed", "success"},
                       i: Nat \ {0}, k: 0..MaxTables, bad: BOOLEAN]]
  /\ progress \in [Task -> [total: Nat, completed: Nat, done: Nat, percent: 0..100]]
  /\ runs \in [Task -> Nat] /\ faults \in Nat

Targets(t) == {Pairs[t][i].target : i \in DOMAIN Pairs[t]}

\* No other task has the target.
Unshared(t, d) == \A u \in Task \ {t} : d \notin Targets(u)

\* A task that succeeds has restored every table of every pair, over failed
\* earlier runs and empty sources, unless another task writes to the target of
\* the pair.
SuccessIsComplete ==
  \A t \in Task : At(t, "success") =>
    \A i \in DOMAIN Pairs[t] : Unshared(t, Pairs[t][i].target) =>
      \A k \in 1..Pairs[t][i].tables : table[Pairs[t][i].target][k] = t

\* README, of the policy create: a task that may only create databases has
\* written into none that was there before, over retries and the runs of other
\* tasks.  Into none but its own either, unless a task with the same target
\* has created it between the check of this one and its second look.
WritesOnlyOwn ==
  \A t \in Task, d \in DB :
    Policy[t] = "create" /\ (\E k \in TableName : table[d][k] = t)
      => creator[d] # User /\ (Unshared(t, d) => creator[d] = t)

\* A report never counts more tables than there are, over skipped pairs and
\* retries, while nobody adds tables to a source: those that appear between
\* tableStats and the dump are counted as done and not in the total.  It is about
\* the MySQL engine: while PostgreSQL's restores, it adds the tables of the
\* restore to those of the dump.
DoneWithinTotal ==
  \A t \in Task \ PostgreSQL : progress[t].done <= progress[t].total

\* A task that may overwrite its targets; or that MySQL runs, whose dumps do so
\* anyhow, over targets that are there.
MayRepeat(t) ==
  \/ Policy[t] = "overwrite"
  \/ t \notin PostgreSQL /\ Policy[t] = "error" /\ Targets(t) \subseteq Existing

\* PRD: a failed task can be retried.  Once no step fails any more, a run of a
\* task that may replace what its earlier runs, or those of others, have left
\* in its targets succeeds.
RetrySucceeds ==
  \A t \in Task : MayRepeat(t) => <>At(t, "success")
=============================================================================
