---------------------------- MODULE EngineProofs ----------------------------
(***************************************************************************)
(* Proofs about Engine, for every set of tasks, databases, mappings and    *)
(* policies: the reports count no more tables than there are, a run that   *)
(* succeeds has restored everything, and a task that may only create       *)
(* databases writes into none that was there before.                       *)
(***************************************************************************)
EXTENDS Engine, TLAPS

Place == {"idle", "check", "ensure", "create", "stats", "dump", "restore",
          "failed", "success"}
State == [pc: Place, i: Nat \ {0}, k: 0..MaxTables, bad: BOOLEAN]
Count == [total: Nat, completed: Nat, done: Nat, percent: 0..100]

(***************************************************************************)
(* What the helpers make of a task's record.                               *)
(***************************************************************************)

\* A division that yields a percentage stays within one.
LEMMA Percentage ==
  ASSUME NEW c \in Nat, NEW n \in Nat, n > 0, c <= n
  PROVE  (c * 100) \div n \in 0..100
  <1>1. (c * 100) \div n \in Nat
    OBVIOUS
  <1>2. (c * 100) \div n <= 100
    OBVIOUS
  <1> QED
    BY <1>1, <1>2

\* A report counts the tables of the phase on top of those completed.
LEMMA Reported ==
  ASSUME NEW p \in Count, NEW n \in Nat, NEW q, q = Report(p, n)
  PROVE  /\ q \in Count
         /\ q.total = p.total /\ q.completed = p.completed
         /\ q.done = p.completed + n
  <1> DEFINE done == p.completed + n
             percent == IF p.total = 0 THEN 0 ELSE (done * 100) \div p.total
             held == IF percent > 99 THEN 99 ELSE percent
  <1>1. percent \in Nat
    <2>1. CASE p.total = 0
      BY <2>1
    <2>2. CASE p.total # 0
      <3>1. p.total \in Nat /\ p.total > 0 /\ done \in Nat
        BY <2>2 DEF Count
      <3> QED
        BY <3>1, <2>2
    <2> QED
      BY <2>1, <2>2
  <1>2. held \in 0..100
    BY <1>1
  <1>3. q = [p EXCEPT !.done = done, !.percent = held]
    BY DEF Report
  <1>4. done \in Nat
    BY DEF Count
  <1> HIDE DEF held, done
  <1>5. /\ q \in Count /\ q.total = p.total /\ q.completed = p.completed /\ q.done = done
    BY <1>2, <1>3, <1>4 DEF Count
  <1> QED
    BY <1>5 DEF done

\* The tables of the next pair are added to the total.
LEMMA ReportedMore ==
  ASSUME NEW p \in Count, NEW n \in Nat,
         NEW q, q = Report([p EXCEPT !.total = @ + n], 0)
  PROVE  /\ q \in Count
         /\ q.total = p.total + n /\ q.completed = p.completed
         /\ q.done = p.completed
  <1> DEFINE more == [p EXCEPT !.total = @ + n]
  <1>1. more \in Count /\ more.total = p.total + n /\ more.completed = p.completed
    BY DEF Count
  <1> HIDE DEF more
  <1>2. /\ q \in Count /\ q.total = more.total /\ q.completed = more.completed
        /\ q.done = more.completed + 0
    BY <1>1, Reported DEF more
  <1> QED
    BY <1>1, <1>2 DEF Count

\* What a step of t leaves of the others.
OthersStay(t) ==
  \A u \in Task \ {t} : run'[u] = run[u] /\ progress'[u] = progress[u]

\* t is at the beginning of a step on its pair i.
Begins(t, pc, i) ==
  run'[t].pc = pc /\ run'[t].i = i /\ run'[t].k = 0 /\ run'[t].bad = FALSE

LEMMA Moves ==
  ASSUME TypeOK, NEW t \in Task, NEW pc \in Place, NEW i \in Nat \ {0}, GoToPair(t, pc, i)
  PROVE  /\ run' \in [Task -> State] /\ Begins(t, pc, i)
         /\ \A u \in Task \ {t} : run'[u] = run[u]
  <1> DEFINE state == [pc |-> pc, i |-> i, k |-> 0, bad |-> FALSE]
  <1>1. state \in State /\ run \in [Task -> State]
    BY EngineAssumption DEF State, TypeOK, Place
  <1>2. run' = [run EXCEPT ![t] = state]
    BY DEF GoToPair
  <1>3. state.pc = pc /\ state.i = i /\ state.k = 0 /\ state.bad = FALSE
    OBVIOUS
  <1> HIDE DEF state
  <1>4. run'[t] = state /\ run' \in [Task -> State] /\ \A u \in Task \ {t} : run'[u] = run[u]
    BY <1>1, <1>2
  <1> QED
    BY <1>3, <1>4 DEF Begins

LEMMA Goes ==
  ASSUME TypeOK, NEW t \in Task, NEW pc \in Place, GoTo(t, pc)
  PROVE  /\ run' \in [Task -> State] /\ Begins(t, pc, run[t].i)
         /\ \A u \in Task \ {t} : run'[u] = run[u]
  <1>1. run[t].i \in Nat \ {0}
    BY DEF TypeOK
  <1> QED
    BY <1>1, Moves DEF GoTo

\* The progress of t is replaced.
LEMMA Counts ==
  ASSUME TypeOK, NEW t \in Task, NEW q \in Count, progress' = [progress EXCEPT ![t] = q]
  PROVE  /\ progress' \in [Task -> Count] /\ progress'[t] = q
         /\ \A u \in Task \ {t} : progress'[u] = progress[u]
  <1>1. progress \in [Task -> Count]
    BY DEF TypeOK, Count
  <1> QED
    BY <1>1

(***************************************************************************)
(* What the actions do, without EXCEPT.                                    *)
(***************************************************************************)

\* A task is always on one of its pairs, and dumps one only if it has tables.
Fits(t) ==
  /\ run[t].i \in DOMAIN Pairs[t]
  /\ run[t].pc = "dump" => Current(t).tables > 0

\* The tables of the pair that is being dumped are in the total already.
CountsFit(t) ==
  /\ progress[t].completed + (IF run[t].pc = "dump" THEN Current(t).tables ELSE 0)
       <= progress[t].total
  /\ t \notin PostgreSQL => progress[t].done <= progress[t].total

ReportsInv == TypeOK /\ \A t \in Task : Fits(t) /\ CountsFit(t)

Typed == run \in [Task -> State] /\ progress \in [Task -> Count]

Left == progress' = progress
World == <<exists, creator, table>>

LEMMA CurrentPair ==
  ASSUME ReportsInv, NEW t \in Task
  PROVE  /\ run[t] \in State /\ progress[t] \in Count
         /\ run[t].i \in 1..Len(Pairs[t]) /\ Len(Pairs[t]) \in Nat \ {0}
         /\ DOMAIN Pairs[t] = 1..Len(Pairs[t])
         /\ Current(t) \in Pair /\ Current(t).target \in DB
         /\ Current(t).tables \in 0..MaxTables /\ MaxTables \in Nat
         /\ \A i \in DOMAIN Pairs[t] : Pairs[t][i] \in Pair
  <1>1. run \in [Task -> State] /\ progress \in [Task -> Count]
    BY DEF ReportsInv, TypeOK, State, Place, Count
  <1>2. Pairs[t] \in Seq(Pair) /\ Pairs[t] # <<>> /\ run[t].i \in DOMAIN Pairs[t]
    BY EngineAssumption DEF ReportsInv, Fits
  <1>3. /\ run[t].i \in 1..Len(Pairs[t]) /\ Len(Pairs[t]) \in Nat \ {0}
        /\ DOMAIN Pairs[t] = 1..Len(Pairs[t]) /\ Pairs[t][run[t].i] \in Pair
        /\ \A i \in DOMAIN Pairs[t] : Pairs[t][i] \in Pair
    BY <1>2
  <1>4. Current(t) \in Pair
    BY <1>3 DEF Current
  <1> QED
    BY <1>1, <1>3, <1>4, EngineAssumption DEF Pair

LEMMA LaunchEffect ==
  ASSUME ReportsInv, NEW t \in Task, Launch(t)
  PROVE  /\ Typed' /\ OthersStay(t) /\ UNCHANGED World
         /\ Begins(t, "check", 1) /\ progress'[t] = NoProgress
  <1>1. /\ run' \in [Task -> State] /\ Begins(t, "check", 1)
        /\ \A u \in Task \ {t} : run'[u] = run[u]
    BY Moves DEF Launch, ReportsInv, Place
  <1>2. NoProgress \in Count
    BY DEF NoProgress, Count
  <1>3. /\ progress' \in [Task -> Count] /\ progress'[t] = NoProgress
        /\ \A u \in Task \ {t} : progress'[u] = progress[u]
    BY <1>2, Counts DEF Launch, ReportsInv
  <1> QED
    BY <1>1, <1>3 DEF Typed, OthersStay, World, Launch

LEMMA CheckEffect ==
  ASSUME ReportsInv, NEW t \in Task, Check(t)
  PROVE  /\ Typed' /\ OthersStay(t) /\ UNCHANGED World /\ Left
         /\ run[t].pc = "check"
         /\ \/ Begins(t, "failed", run[t].i)
            \/ /\ run[t].i < Len(Pairs[t]) /\ ~Refuses(t)
               /\ Begins(t, "check", run[t].i + 1)
            \/ /\ run[t].i = Len(Pairs[t]) /\ ~Refuses(t)
               /\ Begins(t, "ensure", 1)
  <1>0. run[t].i \in 1..Len(Pairs[t]) /\ Len(Pairs[t]) \in Nat \ {0}
    BY CurrentPair
  <1>1. CASE Refuses(t)
    BY <1>1, Goes DEF Check, ReportsInv, Place, Typed, OthersStay, World, Left, At,
                      TypeOK, Count
  <1>2. CASE ~Refuses(t) /\ run[t].i < Len(Pairs[t])
    <2>1. GoToPair(t, "check", run[t].i + 1) /\ UNCHANGED <<exists, creator, table, progress>>
      BY <1>2 DEF Check
    <2>2. /\ run' \in [Task -> State] /\ Begins(t, "check", run[t].i + 1)
          /\ \A u \in Task \ {t} : run'[u] = run[u]
      BY <1>0, <2>1, Moves DEF ReportsInv, Place
    <2> QED
      BY <1>0, <1>2, <2>1, <2>2 DEF Check, Typed, OthersStay, World, Left, At,
                                ReportsInv, TypeOK, Count
  <1>3. CASE ~Refuses(t) /\ ~(run[t].i < Len(Pairs[t]))
    <2>1. GoToPair(t, "ensure", 1) /\ UNCHANGED <<exists, creator, table, progress>>
      BY <1>3 DEF Check
    <2>2. /\ run' \in [Task -> State] /\ Begins(t, "ensure", 1)
          /\ \A u \in Task \ {t} : run'[u] = run[u]
      BY <1>0, <2>1, Moves DEF ReportsInv, Place
    <2> QED
      BY <1>0, <1>3, <2>1, <2>2 DEF Check, Typed, OthersStay, World, Left, At,
                                ReportsInv, TypeOK, Count
  <1> QED
    BY <1>1, <1>2, <1>3

LEMMA EnsureEffect ==
  ASSUME ReportsInv, NEW t \in Task, Ensure(t)
  PROVE  /\ Typed' /\ OthersStay(t) /\ UNCHANGED World /\ Left
         /\ run[t].pc = "ensure"
         /\ \/ Begins(t, "failed", run[t].i) \/ Begins(t, "create", run[t].i)
            \/ Current(t).target \in exists /\ Begins(t, "stats", run[t].i)
  <1> DEFINE pc == IF Current(t).target \in exists THEN "stats"
                   ELSE IF Policy[t] = "error" THEN "failed" ELSE "create"
  <1>1. pc \in Place /\ (pc = "stats" => Current(t).target \in exists)
        /\ pc \in {"stats", "failed", "create"}
    BY DEF Place
  <1>2. GoTo(t, pc)
    BY DEF Ensure
  <1> HIDE DEF pc
  <1>3. /\ run' \in [Task -> State] /\ Begins(t, pc, run[t].i)
        /\ \A u \in Task \ {t} : run'[u] = run[u]
    BY <1>1, <1>2, Goes DEF ReportsInv
  <1> QED
    BY <1>1, <1>3 DEF Ensure, Typed, OthersStay, World, Left, At, ReportsInv, TypeOK, Count

LEMMA CreateDatabaseEffect ==
  ASSUME ReportsInv, NEW t \in Task, CreateDatabase(t)
  PROVE  /\ Typed' /\ OthersStay(t) /\ UNCHANGED table /\ Left
         /\ run[t].pc = "create"
         /\ \/ Begins(t, "failed", run[t].i) /\ UNCHANGED World
            \/ /\ Begins(t, "stats", run[t].i)
               /\ Current(t).target \notin exists
               /\ exists' = exists \cup {Current(t).target}
               /\ creator' = [creator EXCEPT ![Current(t).target] = t]
  <1>1. CASE Current(t).target \in exists
    BY <1>1, Goes DEF CreateDatabase, ReportsInv, Place, Typed, OthersStay, World, Left, At,
                      TypeOK, Count
  <1>2. CASE Current(t).target \notin exists
    BY <1>2, Goes DEF CreateDatabase, ReportsInv, Place, Typed, OthersStay, World, Left, At,
                      TypeOK, Count
  <1> QED
    BY <1>1, <1>2

LEMMA NextPairEffect ==
  ASSUME ReportsInv, NEW t \in Task, NEW p \in Count, NextPair(t, p)
  PROVE  /\ Typed' /\ OthersStay(t)
         /\ progress'[t].total = p.total /\ progress'[t].completed = p.completed
         /\ progress'[t].done \in {p.done, p.total}
         /\ \/ /\ run[t].i < Len(Pairs[t]) /\ Begins(t, "ensure", run[t].i + 1)
            \/ /\ run[t].i = Len(Pairs[t]) /\ Begins(t, "success", run[t].i)
  <1>0. run[t].i \in 1..Len(Pairs[t]) /\ Len(Pairs[t]) \in Nat \ {0}
    BY CurrentPair
  <1>1. CASE run[t].i < Len(Pairs[t])
    <2>1. /\ run' \in [Task -> State] /\ Begins(t, "ensure", run[t].i + 1)
          /\ \A u \in Task \ {t} : run'[u] = run[u]
      BY <1>0, <1>1, Moves DEF NextPair, ReportsInv, Place
    <2>2. /\ progress' \in [Task -> Count] /\ progress'[t] = p
          /\ \A u \in Task \ {t} : progress'[u] = progress[u]
      BY <1>1, Counts DEF NextPair, ReportsInv
    <2> QED
      BY <1>0, <1>1, <2>1, <2>2 DEF Typed, OthersStay
  <1>2. CASE ~(run[t].i < Len(Pairs[t]))
    <2>0. PICK n \in Nat : n = p.total
      BY DEF Count
    <2>5. PICK r \in 0..100 : r = 100
      OBVIOUS
    <2> DEFINE full == [p EXCEPT !.done = n, !.percent = r]
    <2>1. full \in Count /\ full.total = n /\ full.completed = p.completed
          /\ full.done = n
      BY <2>0 DEF Count
    <2>2. /\ run' \in [Task -> State] /\ Begins(t, "success", run[t].i)
          /\ \A u \in Task \ {t} : run'[u] = run[u]
      BY <1>0, <1>2, Goes DEF NextPair, ReportsInv, Place
    <2>3. progress' = [progress EXCEPT ![t] = full]
      BY <1>2, <2>0, <2>5 DEF NextPair
    <2> HIDE DEF full
    <2>4. /\ progress' \in [Task -> Count] /\ progress'[t] = full
          /\ \A u \in Task \ {t} : progress'[u] = progress[u]
      BY <2>1, <2>3, Counts DEF ReportsInv
    <2> QED
      BY <1>0, <1>2, <2>0, <2>1, <2>2, <2>4 DEF Typed, OthersStay
  <1> QED
    BY <1>1, <1>2

LEMMA StatsEffect ==
  ASSUME ReportsInv, NEW t \in Task, Stats(t)
  PROVE  /\ Typed' /\ OthersStay(t) /\ UNCHANGED World
         /\ run[t].pc = "stats"
         /\ progress'[t].total = progress[t].total + Current(t).tables
         /\ progress'[t].completed = progress[t].completed
         /\ progress'[t].done <= progress'[t].total
         /\ \/ /\ Current(t).tables = 0 /\ run[t].i < Len(Pairs[t])
               /\ Begins(t, "ensure", run[t].i + 1)
            \/ /\ Current(t).tables = 0 /\ run[t].i = Len(Pairs[t])
               /\ Begins(t, "success", run[t].i)
            \/ Current(t).tables > 0 /\ Begins(t, "dump", run[t].i)
  <1>1. PICK p : p = Report([progress[t] EXCEPT !.total = @ + Current(t).tables], 0)
    OBVIOUS
  <1>2. progress[t] \in Count /\ Current(t).tables \in Nat
    BY CurrentPair
  <1>3. /\ p \in Count
        /\ p.total = progress[t].total + Current(t).tables
        /\ p.completed = progress[t].completed /\ p.done = progress[t].completed
    BY <1>1, <1>2, ReportedMore
  <1>4. progress[t].completed <= progress[t].total
    BY <1>2 DEF ReportsInv, CountsFit, Count
  <1>5. p.done <= p.total
    BY <1>2, <1>3, <1>4 DEF Count
  <1>6. run[t].pc = "stats" /\ UNCHANGED World
    BY DEF Stats, At, World
  <1>7. CASE Current(t).tables = 0
    <2>1. NextPair(t, p)
      BY <1>1, <1>7 DEF Stats
    <2>2. progress'[t].done <= progress'[t].total
      BY <2>1, <1>3, <1>5, NextPairEffect DEF Count
    <2> QED
      BY <1>3, <1>6, <1>7, <2>1, <2>2, NextPairEffect
  <1>8. CASE Current(t).tables # 0
    <2>1. GoTo(t, "dump") /\ progress' = [progress EXCEPT ![t] = p]
      BY <1>1, <1>8 DEF Stats
    <2>2. /\ run' \in [Task -> State] /\ Begins(t, "dump", run[t].i)
          /\ \A u \in Task \ {t} : run'[u] = run[u]
      BY <2>1, Goes DEF ReportsInv, Place
    <2>3. /\ progress' \in [Task -> Count] /\ progress'[t] = p
          /\ \A u \in Task \ {t} : progress'[u] = progress[u]
      BY <1>3, <2>1, Counts DEF ReportsInv
    <2> QED
      BY <1>2, <1>3, <1>5, <1>6, <1>8, <2>2, <2>3 DEF Typed, OthersStay
  <1> QED
    BY <1>7, <1>8

LEMMA DumpTableEffect ==
  ASSUME ReportsInv, NEW t \in Task, DumpTable(t)
  PROVE  /\ Typed' /\ OthersStay(t) /\ UNCHANGED World
         /\ run[t].pc = "dump" /\ run'[t].pc = "dump" /\ run'[t].i = run[t].i
         /\ progress'[t].total = progress[t].total
         /\ progress'[t].completed = progress[t].completed
         /\ progress'[t].done <= progress[t].completed + Current(t).tables
  <1>0. /\ run[t] \in State /\ progress[t] \in Count
        /\ Current(t).tables \in 0..MaxTables /\ MaxTables \in Nat
    BY CurrentPair
  <1>1. run[t].pc = "dump" /\ run[t].k < Current(t).tables /\ run[t].k \in Nat
    BY <1>0 DEF DumpTable, At, State
  <1>2. run \in [Task -> State]
    BY DEF ReportsInv, TypeOK, State, Place
  <1>3. run' = [run EXCEPT ![t] = [run[t] EXCEPT !.k = run[t].k + 1]]
    BY <1>2 DEF DumpTable
  <1>4. PICK r : r = [run[t] EXCEPT !.k = run[t].k + 1]
    OBVIOUS
  <1>5. run[t].k + 1 \in 0..MaxTables
    BY <1>0, <1>1
  <1>6. r \in State /\ r.pc = run[t].pc /\ r.i = run[t].i
    BY <1>0, <1>4, <1>5 DEF State
  <1>7. /\ run' \in [Task -> State] /\ run'[t] = r
        /\ \A u \in Task \ {t} : run'[u] = run[u]
    BY <1>2, <1>3, <1>4, <1>6
  <1>13. PICK n \in Nat : n = run[t].k + 1
    BY <1>1
  <1>8. PICK q : q = Report(progress[t], n)
    OBVIOUS
  <1>9. /\ q \in Count
        /\ q.total = progress[t].total /\ q.completed = progress[t].completed
        /\ q.done = progress[t].completed + n
    BY <1>0, <1>8, Reported
  <1>10. progress' = [progress EXCEPT ![t] = q]
    BY <1>8, <1>13 DEF DumpTable, ReportsInv, TypeOK
  <1>11. /\ progress' \in [Task -> Count] /\ progress'[t] = q
         /\ \A u \in Task \ {t} : progress'[u] = progress[u]
    BY <1>9, <1>10, Counts DEF ReportsInv
  <1>12. q.done <= progress[t].completed + Current(t).tables
    BY <1>0, <1>1, <1>9, <1>13 DEF Count
  <1> QED
    BY <1>1, <1>6, <1>7, <1>9, <1>11, <1>12 DEF Typed, OthersStay, World, DumpTable

LEMMA DumpDoneEffect ==
  ASSUME ReportsInv, NEW t \in Task, DumpDone(t)
  PROVE  /\ Typed' /\ OthersStay(t) /\ UNCHANGED World
         /\ run[t].pc = "dump" /\ Begins(t, "restore", run[t].i)
         /\ progress'[t].total = progress[t].total
         /\ progress'[t].completed <= progress[t].total
         /\ progress'[t].done <= progress[t].total
  <1> DEFINE completed == progress[t].completed + Current(t).tables
             percent == (completed * 100) \div progress[t].total
             q == [progress[t] EXCEPT !.completed = completed, !.done = completed,
                                      !.percent = percent]
  <1>0. /\ run[t] \in State /\ progress[t] \in Count
        /\ Current(t).tables \in 0..MaxTables /\ MaxTables \in Nat
    BY CurrentPair
  <1>1. run[t].pc = "dump" /\ Current(t).tables > 0
    BY DEF DumpDone, At, ReportsInv, Fits
  <1>2. /\ completed \in Nat /\ progress[t].total \in Nat
        /\ completed <= progress[t].total /\ progress[t].total > 0
    BY <1>0, <1>1 DEF ReportsInv, CountsFit, Count
  <1>3. percent \in 0..100
    BY <1>2, Percentage
  <1>4. progress' = [progress EXCEPT ![t] = q]
    BY DEF DumpDone, ReportsInv, TypeOK
  <1> HIDE DEF completed, percent
  <1>5. /\ q \in Count /\ q.total = progress[t].total
        /\ q.completed = completed /\ q.done = completed
    BY <1>0, <1>2, <1>3 DEF Count
  <1> HIDE DEF q
  <1>6. /\ progress' \in [Task -> Count] /\ progress'[t] = q
        /\ \A u \in Task \ {t} : progress'[u] = progress[u]
    BY <1>4, <1>5, Counts DEF ReportsInv
  <1>7. /\ run' \in [Task -> State] /\ Begins(t, "restore", run[t].i)
        /\ \A u \in Task \ {t} : run'[u] = run[u]
    BY Goes DEF DumpDone, ReportsInv, Place
  <1> QED
    BY <1>1, <1>2, <1>5, <1>6, <1>7 DEF Typed, OthersStay, World, DumpDone

\* Whether restoring the next table of t meets a table that is there.
Clash(t) ==
  ~Replaces(t) /\ table[Current(t).target][run[t].k + 1] # None

LEMMA RestoreTableEffect ==
  ASSUME ReportsInv, NEW t \in Task, RestoreTable(t)
  PROVE  /\ Typed' /\ OthersStay(t) /\ UNCHANGED <<exists, creator>>
         /\ run[t].pc = "restore" /\ run'[t].pc = "restore" /\ run'[t].i = run[t].i
         /\ run'[t].k = run[t].k + 1 /\ run[t].k + 1 \in TableName
         /\ ~run'[t].bad => ~run[t].bad /\ ~Clash(t)
         /\ table' = [table EXCEPT ![Current(t).target][run[t].k + 1] =
                        IF Clash(t) THEN Mixed ELSE t]
         /\ progress'[t].total = progress[t].total
         /\ progress'[t].completed = progress[t].completed
         /\ t \notin PostgreSQL => progress'[t].done = progress[t].done
  <1>0. /\ run[t] \in State /\ progress[t] \in Count
        /\ Current(t).tables \in 0..MaxTables /\ MaxTables \in Nat
    BY CurrentPair
  <1>1. run[t].pc = "restore" /\ run[t].k < Current(t).tables /\ run[t].k \in Nat
    BY <1>0 DEF RestoreTable, At, State
  <1>2. run \in [Task -> State] /\ progress \in [Task -> Count]
    BY DEF ReportsInv, TypeOK, State, Place, Count
  <1>3. PICK r : r = [run[t] EXCEPT !.k = run[t].k + 1, !.bad = run[t].bad \/ Clash(t)]
    OBVIOUS
  <1>4. run' = [run EXCEPT ![t] = r]
    <2>1. run' = [run EXCEPT ![t] =
            [run[t] EXCEPT !.k = run[t].k + 1, !.bad = run[t].bad \/ Clash(t)]]
      BY <1>0, <1>2, Zenon DEF RestoreTable, Clash
    <2> QED
      BY <1>3, <2>1
  <1>5. run[t].k + 1 \in 0..MaxTables /\ run[t].k + 1 \in TableName
    BY <1>0, <1>1 DEF TableName
  <1>6. /\ r.pc = run[t].pc /\ r.i = run[t].i /\ r.k = run[t].k + 1
        /\ r.bad = (run[t].bad \/ Clash(t)) /\ r \in State
    BY <1>0, <1>3, <1>5 DEF State
  <1>7. /\ run' \in [Task -> State] /\ run'[t] = r
        /\ \A u \in Task \ {t} : run'[u] = run[u]
    BY <1>2, <1>4, <1>6
  <1>8. /\ progress' \in [Task -> Count]
        /\ progress'[t].total = progress[t].total
        /\ progress'[t].completed = progress[t].completed
        /\ t \notin PostgreSQL => progress'[t].done = progress[t].done
        /\ \A u \in Task \ {t} : progress'[u] = progress[u]
    <2>1. CASE t \notin PostgreSQL
      BY <1>2, <2>1 DEF RestoreTable
    <2>2. CASE t \in PostgreSQL
      <3>1. PICK q : q = Report(progress[t], run[t].k + 1)
        OBVIOUS
      <3>2. /\ q \in Count
            /\ q.total = progress[t].total /\ q.completed = progress[t].completed
        BY <1>0, <1>1, <3>1, Reported
      <3>3. progress' = [progress EXCEPT ![t] = q]
        BY <1>2, <2>2, <3>1 DEF RestoreTable
      <3> QED
        BY <2>2, <3>2, <3>3, Counts DEF ReportsInv
    <2> QED
      BY <2>1, <2>2
  <1>9. table' = [table EXCEPT ![Current(t).target][run[t].k + 1] =
                    IF Clash(t) THEN Mixed ELSE t]
    BY DEF RestoreTable, Clash
  <1>10. ~run'[t].bad => ~run[t].bad /\ ~Clash(t)
    BY <1>6, <1>7
  <1>11. UNCHANGED <<exists, creator>>
    BY DEF RestoreTable
  <1> QED
    BY <1>1, <1>5, <1>6, <1>7, <1>8, <1>9, <1>10, <1>11 DEF Typed, OthersStay

LEMMA RestoreDoneEffect ==
  ASSUME ReportsInv, NEW t \in Task, RestoreDone(t)
  PROVE  /\ Typed' /\ OthersStay(t) /\ UNCHANGED World
         /\ run[t].pc = "restore" /\ run[t].k = Current(t).tables
         /\ progress'[t].total = progress[t].total
         /\ progress'[t].completed = progress[t].completed
         /\ progress'[t].done \in {progress[t].done, progress[t].total}
         /\ \/ Begins(t, "failed", run[t].i)
            \/ /\ ~run[t].bad /\ run[t].i < Len(Pairs[t])
               /\ Begins(t, "ensure", run[t].i + 1)
            \/ /\ ~run[t].bad /\ run[t].i = Len(Pairs[t])
               /\ Begins(t, "success", run[t].i)
  <1>0. progress[t] \in Count /\ progress \in [Task -> Count]
    BY DEF ReportsInv, TypeOK, Count
  <1>1. UNCHANGED World /\ run[t].pc = "restore" /\ run[t].k = Current(t).tables
    BY DEF RestoreDone, World, At
  <1>2. CASE run[t].bad
    <2>1. GoTo(t, "failed") /\ progress' = progress
      BY <1>2 DEF RestoreDone
    <2>2. /\ run' \in [Task -> State] /\ Begins(t, "failed", run[t].i)
          /\ \A u \in Task \ {t} : run'[u] = run[u]
      BY <2>1, Goes DEF ReportsInv, Place
    <2> QED
      BY <1>0, <1>1, <2>1, <2>2 DEF Typed, OthersStay
  <1>3. CASE ~run[t].bad
    BY <1>0, <1>1, <1>3, NextPairEffect DEF RestoreDone
  <1> QED
    BY <1>2, <1>3

LEMMA StepFailsEffect ==
  ASSUME ReportsInv, NEW t \in Task, StepFails(t)
  PROVE  /\ Typed' /\ OthersStay(t) /\ UNCHANGED World /\ Left
         /\ run[t].pc \notin {"idle", "failed", "success"}
         /\ Begins(t, "failed", run[t].i)
  <1>1. /\ run' \in [Task -> State] /\ Begins(t, "failed", run[t].i)
        /\ \A u \in Task \ {t} : run'[u] = run[u]
    BY Goes DEF StepFails, ReportsInv, Place
  <1> QED
    BY <1>1 DEF StepFails, World, Left, Typed, OthersStay, ReportsInv, TypeOK, Count

(***************************************************************************)
(* Types and reports.                                                      *)
(***************************************************************************)

WorldTypes ==
  /\ exists \subseteq DB
  /\ creator \in [DB -> Task \cup {User}]
  /\ table \in [DB -> [TableName -> Owner]]
  /\ runs \in [Task -> Nat] /\ faults \in Nat

LEMMA TypesSplit == TypeOK <=> WorldTypes /\ Typed
  BY DEF TypeOK, WorldTypes, Typed, State, Place, Count

LEMMA WorldTypesStep ==
  ASSUME ReportsInv, [Next]_vars
  PROVE  WorldTypes'
  <1>0. WorldTypes
    BY TypesSplit DEF ReportsInv
  <1>1. CASE UNCHANGED vars
    BY <1>0, <1>1 DEF WorldTypes, vars
  <1>2. CASE \E t \in Task : Launch(t)
    BY <1>0, <1>2 DEF WorldTypes, Launch
  <1>3. CASE \E t \in Task : StepFails(t)
    BY <1>0, <1>3 DEF WorldTypes, StepFails
  <1>4. ASSUME NEW t \in Task, Step(t)
        PROVE  WorldTypes'
    <2>1. CASE CreateDatabase(t)
      <3>1. Current(t).target \in DB
        BY CurrentPair
      <3>2. runs' = runs /\ faults' = faults /\ table' = table
        BY <2>1 DEF CreateDatabase
      <3>3. \/ exists' = exists /\ creator' = creator
            \/ /\ exists' = exists \cup {Current(t).target}
               /\ creator' = [creator EXCEPT ![Current(t).target] = t]
        BY <2>1 DEF CreateDatabase
      <3> QED
        BY <1>0, <3>1, <3>2, <3>3 DEF WorldTypes
    <2>2. CASE RestoreTable(t)
      <3>1. PICK v \in Owner : v = IF Clash(t) THEN Mixed ELSE t
        BY DEF Owner
      <3>2. PICK k \in TableName : k = run[t].k + 1
        BY <2>2, RestoreTableEffect
      <3>3. PICK d \in DB : d = Current(t).target
        BY CurrentPair
      <3>4. table' = [table EXCEPT ![d][k] = v] /\ UNCHANGED <<exists, creator>>
        BY <2>2, <3>1, <3>2, <3>3, RestoreTableEffect
      <3>5. table' \in [DB -> [TableName -> Owner]]
        BY <1>0, <3>4 DEF WorldTypes
      <3>6. runs' = runs /\ faults' = faults
        BY <2>2 DEF RestoreTable
      <3> QED
        BY <1>0, <3>4, <3>5, <3>6 DEF WorldTypes
    <2>3. CASE Check(t) \/ Ensure(t) \/ Stats(t) \/ DumpTable(t) \/ DumpDone(t) \/ RestoreDone(t)
      <3>1. UNCHANGED <<exists, creator, table, runs, faults>>
        BY <2>3 DEF Check, Ensure, Stats, DumpTable, DumpDone, RestoreDone
      <3> QED
        BY <1>0, <3>1 DEF WorldTypes
    <2> QED
      BY <1>4, <2>1, <2>2, <2>3 DEF Step
  <1> QED
    BY <1>1, <1>2, <1>3, <1>4 DEF Next

LEMMA ReportsInit == Init => ReportsInv
  <1> SUFFICES ASSUME Init PROVE ReportsInv
    OBVIOUS
  <1>1. WorldTypes
    BY EngineAssumption DEF Init, WorldTypes, Owner
  <1>2. [pc |-> "idle", i |-> 1, k |-> 0, bad |-> FALSE] \in State /\ NoProgress \in Count
    BY EngineAssumption DEF State, Place, NoProgress, Count
  <1>3. Typed
    BY <1>2 DEF Init, Typed
  <1>4. ASSUME NEW t \in Task
        PROVE  Fits(t) /\ CountsFit(t)
    <2>1. run[t].pc = "idle" /\ run[t].i = 1 /\ progress[t] = NoProgress
      BY DEF Init
    <2>2. Pairs[t] \in Seq(Pair) /\ Pairs[t] # <<>>
      BY EngineAssumption
    <2>3. 1 \in DOMAIN Pairs[t]
      BY <2>2
    <2> QED
      BY <2>1, <2>3 DEF Fits, CountsFit, NoProgress
  <1> QED
    BY <1>1, <1>3, <1>4, TypesSplit DEF ReportsInv

\* The task that makes the step, and the others.
LEMMA ReportsOf ==
  ASSUME ReportsInv, NEW t \in Task, OthersStay(t), Typed', WorldTypes',
         Fits(t)', CountsFit(t)'
  PROVE  ReportsInv'
  <1>1. TypeOK'
    BY TypesSplit, PTL
  <1>2. ASSUME NEW u \in Task \ {t}
        PROVE  Fits(u)' /\ CountsFit(u)'
    BY <1>2 DEF ReportsInv, OthersStay, Fits, CountsFit, Current
  <1> QED
    BY <1>1, <1>2 DEF ReportsInv

LEMMA ReportsStep ==
  ASSUME ReportsInv, [Next]_vars
  PROVE  ReportsInv'
  <1>0. WorldTypes'
    BY WorldTypesStep
  <1>1. CASE UNCHANGED vars
    BY <1>1 DEF ReportsInv, TypeOK, Fits, CountsFit, Current, vars
  <1>2. ASSUME NEW t \in Task, Launch(t) \/ Step(t) \/ StepFails(t)
        PROVE  ReportsInv'
    <2>0. /\ run[t].i \in 1..Len(Pairs[t]) /\ Len(Pairs[t]) \in Nat \ {0}
          /\ DOMAIN Pairs[t] = 1..Len(Pairs[t])
          /\ Current(t).tables \in Nat /\ progress[t] \in Count
          /\ Fits(t) /\ CountsFit(t)
      BY CurrentPair DEF ReportsInv
    <2> DEFINE OnPair == run'[t].i \in 1..Len(Pairs[t])
               Same == progress'[t].total = progress[t].total
                         /\ progress'[t].completed = progress[t].completed
    <2>1. CASE Launch(t)
      <3>1. /\ Typed' /\ OthersStay(t) /\ run'[t].pc = "check" /\ run'[t].i = 1
            /\ progress'[t] = NoProgress
        BY <2>1, LaunchEffect DEF Begins
      <3>2. Fits(t)' /\ CountsFit(t)'
        BY <2>0, <3>1 DEF Fits, CountsFit, NoProgress
      <3> QED
        BY <1>0, <3>1, <3>2, ReportsOf
    <2>2. CASE Check(t)
      <3>1. Typed' /\ OthersStay(t) /\ Left /\ run[t].pc = "check"
        BY <2>2, CheckEffect
      <3>2. OnPair /\ run'[t].pc \in {"failed", "check", "ensure"}
        <4>1. \/ Begins(t, "failed", run[t].i)
              \/ run[t].i < Len(Pairs[t]) /\ Begins(t, "check", run[t].i + 1)
              \/ Begins(t, "ensure", 1)
          BY <2>2, CheckEffect
        <4> QED
          BY <2>0, <4>1 DEF Begins
      <3>3. Fits(t)' /\ CountsFit(t)'
        BY <2>0, <3>1, <3>2 DEF Fits, CountsFit, Left
      <3> QED
        BY <1>0, <3>1, <3>3, ReportsOf
    <2>3. CASE Ensure(t)
      <3>1. Typed' /\ OthersStay(t) /\ Left /\ run[t].pc = "ensure"
        BY <2>3, EnsureEffect
      <3>2. OnPair /\ run'[t].pc \in {"failed", "create", "stats"}
        BY <2>0, <2>3, EnsureEffect DEF Begins
      <3>3. Fits(t)' /\ CountsFit(t)'
        BY <2>0, <3>1, <3>2 DEF Fits, CountsFit, Left
      <3> QED
        BY <1>0, <3>1, <3>3, ReportsOf
    <2>4. CASE CreateDatabase(t)
      <3>1. Typed' /\ OthersStay(t) /\ Left /\ run[t].pc = "create"
        BY <2>4, CreateDatabaseEffect
      <3>2. OnPair /\ run'[t].pc \in {"failed", "stats"}
        BY <2>0, <2>4, CreateDatabaseEffect DEF Begins
      <3>3. Fits(t)' /\ CountsFit(t)'
        BY <2>0, <3>1, <3>2 DEF Fits, CountsFit, Left
      <3> QED
        BY <1>0, <3>1, <3>3, ReportsOf
    <2>5. CASE Stats(t)
      <3>1. /\ Typed' /\ OthersStay(t) /\ run[t].pc = "stats"
            /\ progress'[t].total = progress[t].total + Current(t).tables
            /\ progress'[t].completed = progress[t].completed
            /\ progress'[t].done <= progress'[t].total
        BY <2>5, StatsEffect
      <3>2. \/ OnPair /\ run'[t].pc \in {"ensure", "success"}
            \/ Current(t).tables > 0 /\ run'[t].pc = "dump" /\ run'[t].i = run[t].i
        <4>1. \/ run[t].i < Len(Pairs[t]) /\ Begins(t, "ensure", run[t].i + 1)
              \/ Begins(t, "success", run[t].i)
              \/ Current(t).tables > 0 /\ Begins(t, "dump", run[t].i)
          BY <2>5, StatsEffect
        <4> QED
          BY <2>0, <4>1 DEF Begins
      <3>3. Fits(t)'
        BY <2>0, <3>2 DEF Fits, Current
      <3>4. run'[t].pc = "dump" => run'[t].i = run[t].i
        BY <3>2
      <3>6. (IF run'[t].pc = "dump" THEN Pairs[t][run'[t].i].tables ELSE 0) <= Current(t).tables
            /\ (IF run'[t].pc = "dump" THEN Pairs[t][run'[t].i].tables ELSE 0) \in Nat
        BY <2>0, <3>4 DEF Current
      <3>7. progress[t].completed + 0 <= progress[t].total
        BY <2>0, <3>1 DEF CountsFit
      <3>5. CountsFit(t)'
        <4>1. PICK x : x = IF run'[t].pc = "dump" THEN Pairs[t][run'[t].i].tables ELSE 0
          OBVIOUS
        <4>2. PICK n : n = Current(t).tables
          OBVIOUS
        <4>3. x \in Nat /\ n \in Nat /\ x <= n
          BY <2>0, <3>6, <4>1, <4>2
        <4>4. progress[t].completed \in Nat /\ progress[t].total \in Nat
          BY <2>0 DEF Count
        <4>5. progress[t].completed + x <= progress[t].total + n
          BY <3>7, <4>3, <4>4
        <4>6. progress'[t].completed + x <= progress'[t].total
          BY <3>1, <4>2, <4>5
        <4> QED
          BY <3>1, <4>1, <4>6 DEF CountsFit, Current
      <3> QED
        BY <1>0, <3>1, <3>3, <3>5, ReportsOf
    <2>6. CASE DumpTable(t)
      <3>1. /\ Typed' /\ OthersStay(t) /\ run[t].pc = "dump"
            /\ run'[t].pc = "dump" /\ run'[t].i = run[t].i /\ Same
            /\ progress'[t].done <= progress[t].completed + Current(t).tables
        BY <2>6, DumpTableEffect
      <3>2. Fits(t)' /\ progress'[t] \in Count
        BY <2>0, <3>1 DEF Fits, Current, Typed
      <3>3. CountsFit(t)'
        BY <2>0, <3>1, <3>2 DEF CountsFit, Current, Count
      <3> QED
        BY <1>0, <3>1, <3>2, <3>3, ReportsOf
    <2>7. CASE DumpDone(t)
      <3>1. /\ Typed' /\ OthersStay(t) /\ run'[t].pc = "restore" /\ run'[t].i = run[t].i
            /\ progress'[t].total = progress[t].total
            /\ progress'[t].completed <= progress[t].total
            /\ progress'[t].done <= progress[t].total
        BY <2>7, DumpDoneEffect DEF Begins
      <3>2. Fits(t)' /\ progress'[t] \in Count
        BY <2>0, <3>1 DEF Fits, Typed
      <3>3. CountsFit(t)'
        BY <2>0, <3>1, <3>2 DEF CountsFit, Count
      <3> QED
        BY <1>0, <3>1, <3>2, <3>3, ReportsOf
    <2>8. CASE RestoreTable(t)
      <3>1. /\ Typed' /\ OthersStay(t) /\ run[t].pc = "restore"
            /\ run'[t].pc = "restore" /\ run'[t].i = run[t].i /\ Same
            /\ t \notin PostgreSQL => progress'[t].done = progress[t].done
        BY <2>8, RestoreTableEffect
      <3>2. Fits(t)' /\ CountsFit(t)'
        BY <2>0, <3>1 DEF Fits, CountsFit
      <3> QED
        BY <1>0, <3>1, <3>2, ReportsOf
    <2>9. CASE RestoreDone(t)
      <3>1. /\ Typed' /\ OthersStay(t) /\ run[t].pc = "restore" /\ Same
            /\ progress'[t].done \in {progress[t].done, progress[t].total}
        BY <2>9, RestoreDoneEffect
      <3>2. OnPair /\ run'[t].pc \in {"failed", "ensure", "success"}
        <4>1. \/ Begins(t, "failed", run[t].i)
              \/ run[t].i < Len(Pairs[t]) /\ Begins(t, "ensure", run[t].i + 1)
              \/ Begins(t, "success", run[t].i)
          BY <2>9, RestoreDoneEffect
        <4> QED
          BY <2>0, <4>1 DEF Begins
      <3>3. Fits(t)' /\ CountsFit(t)'
        BY <2>0, <3>1, <3>2 DEF Fits, CountsFit, Count
      <3> QED
        BY <1>0, <3>1, <3>3, ReportsOf
    <2>10. CASE StepFails(t)
      <3>1. /\ Typed' /\ OthersStay(t) /\ Left
            /\ run'[t].pc = "failed" /\ run'[t].i = run[t].i
        BY <2>10, StepFailsEffect DEF Begins
      <3>2. Fits(t)' /\ CountsFit(t)'
        BY <2>0, <3>1 DEF Fits, CountsFit, Left, Count
      <3> QED
        BY <1>0, <3>1, <3>2, ReportsOf
    <2> QED
      BY <1>2, <2>1, <2>2, <2>3, <2>4, <2>5, <2>6, <2>7, <2>8, <2>9, <2>10 DEF Step
  <1> QED
    BY <1>1, <1>2 DEF Next

LEMMA ReportsInvariant == Spec => []ReportsInv
  <1>1. Init => ReportsInv
    BY ReportsInit
  <1>2. ReportsInv /\ [Next]_vars => ReportsInv'
    BY ReportsStep
  <1> QED
    BY <1>1, <1>2, PTL DEF Spec

\* Every step keeps the types; the percentages stay between 0 and 100 although
\* the report at the end of a dump is not held at 99.
THEOREM EngineTypes == Spec => []TypeOK
  <1>1. ReportsInv => TypeOK
    BY DEF ReportsInv
  <1> QED
    BY <1>1, ReportsInvariant, PTL

\* The reports of the MySQL engine never count more tables than there are: the
\* tables of a pair are in the total before its dump begins.
THEOREM ReportsAreBounded == Spec => []DoneWithinTotal
  <1>1. ReportsInv => DoneWithinTotal
    BY DEF ReportsInv, CountsFit, DoneWithinTotal
  <1> QED
    BY <1>1, ReportsInvariant, PTL

(***************************************************************************)
(* A success is complete.                                                  *)
(***************************************************************************)

Complete(t, i) ==
  Unshared(t, Pairs[t][i].target) =>
    \A k \in 1..Pairs[t][i].tables : table[Pairs[t][i].target][k] = t

\* A run that is past its check has restored the pairs before its own, and in
\* the restore the tables before its next; pg_restore may have spoilt both, but
\* then it has met an error.
Restored(t) ==
  /\ run[t].bad => run[t].pc = "restore"
  /\ /\ run[t].pc \in {"ensure", "create", "stats", "dump", "restore"}
     /\ ~run[t].bad
     => \A i \in 1..(run[t].i - 1) : Complete(t, i)
  /\ run[t].pc = "restore" /\ ~run[t].bad /\ Unshared(t, Current(t).target) =>
       \A k \in 1..run[t].k : table[Current(t).target][k] = t
  /\ run[t].pc = "success" => \A i \in DOMAIN Pairs[t] : Complete(t, i)

CompleteInv == ReportsInv /\ \A t \in Task : Restored(t)

LEMMA CompleteInit == Init => CompleteInv
  <1> SUFFICES ASSUME Init PROVE CompleteInv
    OBVIOUS
  <1>1. \A t \in Task : run[t].pc = "idle" /\ run[t].bad = FALSE
    BY DEF Init
  <1>2. \A t \in Task : Restored(t)
    BY <1>1 DEF Restored
  <1> QED
    BY <1>2, ReportsInit DEF CompleteInv

\* The tables of a target that no other task has are only written by the task's
\* own restores, and those that meet no error keep what is the task's own.
LEMMA OwnTablesStay ==
  ASSUME CompleteInv, [Next]_vars, NEW t \in Task,
         NEW i \in DOMAIN Pairs[t], Unshared(t, Pairs[t][i].target), NEW k \in TableName,
         table[Pairs[t][i].target][k] = t,
         RestoreTable(t) => ~Clash(t)
  PROVE  table'[Pairs[t][i].target][k] = t
  <1>0. ReportsInv /\ table \in [DB -> [TableName -> Owner]]
    BY DEF CompleteInv, ReportsInv, TypeOK
  <1>1. CASE \E u \in Task : RestoreTable(u)
    <2>1. PICK u \in Task : RestoreTable(u)
      BY <1>1
    <2>2. PICK d \in DB : d = Current(u).target
      BY <1>0, CurrentPair
    <2>3. PICK n \in TableName : n = run[u].k + 1
      BY <1>0, <2>1, RestoreTableEffect
    <2>4. table' = [table EXCEPT ![d][n] = IF Clash(u) THEN Mixed ELSE u]
      BY <1>0, <2>1, <2>2, <2>3, RestoreTableEffect
    <2>5. PICK e \in DB : e = Pairs[t][i].target
      BY <1>0, CurrentPair DEF Pair
    <2>6. CASE u = t
      <3>1. table' = [table EXCEPT ![d][n] = t]
        BY <2>1, <2>4, <2>6
      <3> QED
        BY <1>0, <2>5, <3>1
    <2>7. CASE u # t
      <3>1. run[u].i \in DOMAIN Pairs[u] /\ d = Pairs[u][run[u].i].target
        BY <1>0, <2>2, CurrentPair DEF Current
      <3>2. d \in Targets(u) /\ e \in Targets(t)
        BY <2>5, <3>1 DEF Targets
      <3>3. d # e
        BY <2>5, <2>7, <3>2 DEF Unshared
      <3> QED
        BY <1>0, <2>4, <2>5, <3>3
    <2> QED
      BY <2>6, <2>7
  <1>2. CASE ~(\E u \in Task : RestoreTable(u))
    BY <1>2 DEF Next, vars, Launch, Step, Check, Ensure, CreateDatabase, Stats, DumpTable,
                DumpDone, RestoreDone, StepFails
  <1> QED
    BY <1>1, <1>2

LEMMA CompleteStays ==
  ASSUME CompleteInv, [Next]_vars, NEW t \in Task,
         RestoreTable(t) => ~Clash(t), NEW i \in DOMAIN Pairs[t], Complete(t, i)
  PROVE  Complete(t, i)'
  <1>1. Pairs[t][i] \in Pair /\ MaxTables \in Nat
    BY CurrentPair DEF CompleteInv
  <1>2. Pairs[t][i].tables \in 0..MaxTables
    BY <1>1 DEF Pair
  <1>3. \A k \in 1..Pairs[t][i].tables : k \in TableName
    BY <1>1, <1>2 DEF TableName
  <1> QED
    BY <1>3, OwnTablesStay DEF Complete

\* A step of another task.
LEMMA RestoredStays ==
  ASSUME CompleteInv, [Next]_vars, NEW t \in Task, run'[t] = run[t]
  PROVE  Restored(t)'
  <1>0. ReportsInv /\ Restored(t)
    BY DEF CompleteInv
  <1>1. run[t] \in State /\ run[t].k \in Nat /\ MaxTables \in Nat
    BY <1>0, CurrentPair DEF State
  <1>2. ~RestoreTable(t)
    <2> SUFFICES ASSUME RestoreTable(t) PROVE FALSE
      OBVIOUS
    <2>1. run'[t].k = run[t].k + 1
      BY <1>0, RestoreTableEffect
    <2> QED
      BY <1>1, <2>1
  <1>3. \A i \in DOMAIN Pairs[t] : Complete(t, i) => Complete(t, i)'
    BY <1>2, CompleteStays
  <1>4. /\ run[t].i \in 1..Len(Pairs[t]) /\ DOMAIN Pairs[t] = 1..Len(Pairs[t])
        /\ Len(Pairs[t]) \in Nat
    BY <1>0, CurrentPair
  <1>5. \A k \in 1..run[t].k : k \in TableName
    BY <1>1 DEF State, TableName
  <1>6. Unshared(t, Current(t).target) => \A k \in 1..run[t].k :
          table[Current(t).target][k] = t => table'[Current(t).target][k] = t
    BY <1>2, <1>4, <1>5, OwnTablesStay DEF Current
  <1>7. \A i \in 1..(run[t].i - 1) : i \in DOMAIN Pairs[t]
    BY <1>4
  <1> QED
    BY <1>0, <1>3, <1>6, <1>7 DEF Restored, Current

LEMMA CompleteStep ==
  ASSUME CompleteInv, [Next]_vars
  PROVE  CompleteInv'
  <1>0. ReportsInv /\ ReportsInv'
    BY ReportsStep DEF CompleteInv
  <1>1. ASSUME NEW t \in Task
        PROVE  Restored(t)'
    <2>0. /\ Restored(t)
          /\ run[t].i \in 1..Len(Pairs[t]) /\ Len(Pairs[t]) \in Nat \ {0}
          /\ DOMAIN Pairs[t] = 1..Len(Pairs[t])
      BY <1>0, <1>1, CurrentPair DEF CompleteInv
    <2>1. CASE run'[t] = run[t]
      BY <1>1, <2>1, RestoredStays
    <2>2. CASE Launch(t)
      BY <1>0, <2>2, LaunchEffect DEF Begins, Restored
    <2>3. CASE StepFails(t)
      BY <1>0, <2>3, StepFailsEffect DEF Begins, Restored
    <2>4. CASE Check(t)
      <3>1. /\ UNCHANGED World
            /\ \/ Begins(t, "failed", run[t].i) \/ Begins(t, "check", run[t].i + 1)
               \/ Begins(t, "ensure", 1)
        BY <1>0, <2>4, CheckEffect
      <3> QED
        BY <3>1 DEF Begins, Restored
    <2>5. CASE Ensure(t) \/ CreateDatabase(t)
      <3>1. /\ UNCHANGED table /\ run[t].pc \in {"ensure", "create"}
            /\ \E pc \in {"failed", "create", "stats"} : Begins(t, pc, run[t].i)
        BY <1>0, <2>5, EnsureEffect, CreateDatabaseEffect DEF World
      <3> QED
        BY <2>0, <3>1 DEF Begins, Restored, Complete
    <2>6. CASE Stats(t)
      <3>1. /\ UNCHANGED World /\ run[t].pc = "stats"
            /\ \/ /\ Current(t).tables = 0 /\ run[t].i < Len(Pairs[t])
                  /\ Begins(t, "ensure", run[t].i + 1)
               \/ /\ Current(t).tables = 0 /\ run[t].i = Len(Pairs[t])
                  /\ Begins(t, "success", run[t].i)
               \/ Begins(t, "dump", run[t].i)
        BY <1>0, <2>6, StatsEffect
      <3>2. \A i \in 1..(run[t].i - 1) : Complete(t, i)
        BY <2>0, <3>1 DEF Restored
      <3>3. Current(t).tables = 0 => Complete(t, run[t].i)
        BY DEF Complete, Current
      <3>4. \A i \in 1..run[t].i : i # run[t].i => i \in 1..(run[t].i - 1)
        BY <2>0
      <3>5. Current(t).tables = 0 => \A i \in 1..run[t].i : Complete(t, i)
        BY <3>2, <3>3, <3>4
      <3>6. table' = table
        BY <3>1 DEF World
      <3>7. CASE Begins(t, "dump", run[t].i)
        BY <3>2, <3>6, <3>7 DEF Begins, Restored, Complete
      <3>8. CASE Current(t).tables = 0 /\ Begins(t, "ensure", run[t].i + 1)
        <4>1. run'[t].i - 1 = run[t].i
          BY <2>0, <3>8 DEF Begins
        <4> QED
          BY <3>5, <3>6, <3>8, <4>1 DEF Begins, Restored, Complete
      <3>9. CASE Current(t).tables = 0 /\ run[t].i = Len(Pairs[t])
                 /\ Begins(t, "success", run[t].i)
        BY <2>0, <3>5, <3>6, <3>9 DEF Begins, Restored, Complete
      <3> QED
        BY <3>1, <3>7, <3>8, <3>9
    <2>7. CASE DumpTable(t)
      <3>1. /\ UNCHANGED World /\ run[t].pc = "dump" /\ run'[t].pc = "dump"
            /\ run'[t].i = run[t].i
        BY <1>0, <2>7, DumpTableEffect
      <3>2. run'[t].bad = run[t].bad
        BY <1>0, <2>7 DEF DumpTable, ReportsInv, TypeOK
      <3> QED
        BY <2>0, <3>1, <3>2 DEF Restored, Complete, World
    <2>8. CASE DumpDone(t)
      <3>1. /\ UNCHANGED World /\ run[t].pc = "dump" /\ Begins(t, "restore", run[t].i)
        BY <1>0, <2>8, DumpDoneEffect
      <3> QED
        BY <2>0, <3>1 DEF Begins, Restored, Complete, World
    <2>9. CASE RestoreTable(t)
      <3>0. /\ run[t].pc = "restore" /\ run'[t].pc = "restore" /\ run'[t].i = run[t].i
            /\ run'[t].k = run[t].k + 1 /\ run[t].k + 1 \in TableName
            /\ ~run'[t].bad => ~run[t].bad /\ ~Clash(t)
            /\ table' = [table EXCEPT ![Current(t).target][run[t].k + 1] =
                           IF Clash(t) THEN Mixed ELSE t]
        BY <1>0, <2>9, RestoreTableEffect
      <3>1. CASE run'[t].bad
        BY <3>0, <3>1 DEF Restored
      <3>2. CASE ~run'[t].bad
        <4>1. ~run[t].bad /\ ~Clash(t)
          BY <3>0, <3>2
        <4>2. \A i \in 1..(run[t].i - 1) : Complete(t, i)'
          <5>1. \A i \in 1..(run[t].i - 1) : Complete(t, i) /\ i \in DOMAIN Pairs[t]
            BY <2>0, <3>0, <4>1 DEF Restored
          <5> QED
            BY <1>1, <4>1, <5>1, CompleteStays
        <4>3. run[t].k \in 0..MaxTables /\ MaxTables \in Nat
          BY <1>0, CurrentPair DEF State
        <4>4. ASSUME Unshared(t, Current(t).target), NEW k \in 1..run'[t].k
              PROVE  table'[Current(t).target][k] = t
          <5>1. CASE k = run[t].k + 1
            <6>1. PICK d \in DB : d = Current(t).target
              BY <1>0, CurrentPair
            <6>2. table \in [DB -> [TableName -> Owner]]
              BY <1>0 DEF ReportsInv, TypeOK
            <6>3. table' = [table EXCEPT ![d][k] = t]
              BY <3>0, <4>1, <5>1, <6>1
            <6>4. k \in TableName
              BY <3>0, <5>1
            <6> QED
              BY <6>1, <6>2, <6>3, <6>4
          <5>2. CASE k # run[t].k + 1
            <6>1. k \in 1..run[t].k /\ k \in TableName
              BY <3>0, <4>3, <5>2 DEF TableName
            <6>2. table[Current(t).target][k] = t
              BY <2>0, <3>0, <4>1, <4>4, <6>1 DEF Restored
            <6> QED
              BY <1>1, <2>0, <4>1, <4>4, <6>1, <6>2, OwnTablesStay DEF Current
          <5> QED
            BY <5>1, <5>2
        <4> QED
          BY <3>0, <3>2, <4>2, <4>4 DEF Restored, Current
      <3> QED
        BY <3>1, <3>2
    <2>10. CASE RestoreDone(t)
      <3>1. /\ UNCHANGED World /\ run[t].pc = "restore" /\ run[t].k = Current(t).tables
            /\ \/ Begins(t, "failed", run[t].i)
               \/ ~run[t].bad /\ Begins(t, "ensure", run[t].i + 1)
               \/ /\ ~run[t].bad /\ run[t].i = Len(Pairs[t])
                  /\ Begins(t, "success", run[t].i)
        BY <1>0, <2>10, RestoreDoneEffect
      <3>2. CASE Begins(t, "failed", run[t].i)
        BY <3>2 DEF Begins, Restored
      <3>3. CASE ~run[t].bad
        <4>1. \A i \in 1..(run[t].i - 1) : Complete(t, i)
          BY <2>0, <3>1, <3>3 DEF Restored
        <4>2. Complete(t, run[t].i)
          BY <2>0, <3>1, <3>3 DEF Restored, Complete, Current
        <4>3. \A i \in 1..run[t].i : i # run[t].i => i \in 1..(run[t].i - 1)
          BY <2>0
        <4>4. \A i \in 1..run[t].i : Complete(t, i)
          BY <4>1, <4>2, <4>3
        <4>5. table' = table
          BY <3>1 DEF World
        <4>6. CASE Begins(t, "ensure", run[t].i + 1)
          <5>1. run'[t].i - 1 = run[t].i
            BY <2>0, <4>6 DEF Begins
          <5> QED
            BY <4>4, <4>5, <4>6, <5>1 DEF Begins, Restored, Complete
        <4>7. CASE run[t].i = Len(Pairs[t]) /\ Begins(t, "success", run[t].i)
          BY <2>0, <4>4, <4>5, <4>7 DEF Begins, Restored, Complete
        <4> QED
          BY <3>1, <3>2, <4>6, <4>7
      <3> QED
        BY <3>1, <3>2, <3>3
    <2>11. ASSUME NEW u \in Task \ {t}, Launch(u) \/ Step(u) \/ StepFails(u)
           PROVE  run'[t] = run[t]
      <3>1. OthersStay(u)
        BY <1>0, <2>11, LaunchEffect, StepFailsEffect, CheckEffect, EnsureEffect,
           CreateDatabaseEffect, StatsEffect, DumpTableEffect, DumpDoneEffect,
           RestoreTableEffect, RestoreDoneEffect DEF Step
      <3> QED
        BY <3>1 DEF OthersStay
    <2>12. CASE UNCHANGED vars
      BY <2>1, <2>12 DEF vars
    <2> QED
      BY <2>1, <2>2, <2>3, <2>4, <2>5, <2>6, <2>7, <2>8, <2>9, <2>10, <2>11, <2>12
         DEF Next, Step
  <1> QED
    BY <1>0, <1>1 DEF CompleteInv

\* A run reports SUCCESS only when every table of every pair holds what it has
\* restored: over the pairs that it skips, over what failed runs have left, and
\* with an engine that goes on after an error.  It needs the pairs before the
\* current one to be complete throughout, which is where the other tasks must
\* keep out of the targets.
THEOREM SuccessesAreComplete == Spec => []SuccessIsComplete
  <1>1. Init => CompleteInv
    BY CompleteInit
  <1>2. CompleteInv /\ [Next]_vars => CompleteInv'
    BY CompleteStep
  <1>3. CompleteInv => SuccessIsComplete
    BY DEF CompleteInv, Restored, Complete, SuccessIsComplete, At
  <1> QED
    BY <1>1, <1>2, <1>3, PTL DEF Spec

(***************************************************************************)
(* The policy create.                                                      *)
(***************************************************************************)

\* Databases that are there were there before or have a task as creator, which
\* has them among its targets.
CreatorsKnown ==
  /\ Existing \subseteq exists
  /\ \A d \in exists : d \in Existing \/ creator[d] # User
  /\ \A d \in DB : creator[d] # User => d \in exists /\ d \in Targets(creator[d])

\* The check has passed over targets that were not there before any task ran,
\* and what a task restores into is there.
Passed(t) ==
  /\ run[t].pc \in {"stats", "dump", "restore"} => Current(t).target \in exists
  /\ Policy[t] = "create" =>
       /\ run[t].pc = "check" =>
            \A i \in 1..(run[t].i - 1) : Pairs[t][i].target \notin Existing
       /\ run[t].pc \in {"ensure", "create", "stats", "dump", "restore"} =>
            \A i \in DOMAIN Pairs[t] : Pairs[t][i].target \notin Existing

WrittenByCreators ==
  \A t \in Task, d \in DB, k \in TableName :
    Policy[t] = "create" /\ table[d][k] = t => creator[d] # User /\ d \in Targets(t)

OwnInv ==
  ReportsInv /\ CreatorsKnown /\ (\A t \in Task : Passed(t)) /\ WrittenByCreators

LEMMA OwnInit == Init => OwnInv
  <1> SUFFICES ASSUME Init PROVE OwnInv
    OBVIOUS
  <1>1. CreatorsKnown
    BY EngineAssumption DEF Init, CreatorsKnown
  <1>2. \A t \in Task : Passed(t)
    BY DEF Init, Passed
  <1>3. \A d \in DB, k \in TableName : table[d][k] \in {User, None}
    BY DEF Init
  <1>4. WrittenByCreators
    BY <1>3, EngineAssumption DEF WrittenByCreators
  <1> QED
    BY <1>1, <1>2, <1>4, ReportsInit DEF OwnInv

LEMMA CreatorsKnownStep ==
  ASSUME OwnInv, [Next]_vars
  PROVE  /\ CreatorsKnown' /\ exists \subseteq exists'
         /\ \A d \in DB : creator[d] # User => creator'[d] # User
  <1>0. ReportsInv /\ CreatorsKnown
    BY DEF OwnInv
  <1>1. CASE \E t \in Task : CreateDatabase(t)
    <2>1. PICK t \in Task : CreateDatabase(t)
      BY <1>1
    <2>2. CASE UNCHANGED World
      BY <1>0, <2>2 DEF World, CreatorsKnown
    <2>3. CASE ~(UNCHANGED World)
      <3>0. PICK d \in DB : d = Current(t).target
        BY <1>0, CurrentPair
      <3>1. d \notin exists /\ exists' = exists \cup {d} /\ creator' = [creator EXCEPT ![d] = t]
        BY <1>0, <2>1, <2>3, <3>0, CreateDatabaseEffect
      <3>2. creator \in [DB -> Task \cup {User}] /\ t # User
        BY <1>0, EngineAssumption DEF ReportsInv, TypeOK
      <3>3. d \in Targets(t)
        BY <1>0, <3>0, CurrentPair DEF Current, Targets
      <3>4. creator'[d] = t /\ \A e \in DB : e # d => creator'[e] = creator[e]
        BY <3>1, <3>2
      <3> QED
        BY <1>0, <3>1, <3>2, <3>3, <3>4 DEF CreatorsKnown, ReportsInv, TypeOK
    <2> QED
      BY <2>2, <2>3
  <1>2. CASE ~(\E t \in Task : CreateDatabase(t))
    <2>1. exists' = exists /\ creator' = creator
      BY <1>2 DEF Next, vars, Launch, Step, Check, Ensure, Stats, DumpTable,
                  DumpDone, RestoreTable, RestoreDone, StepFails
    <2> QED
      BY <1>0, <2>1 DEF CreatorsKnown
  <1> QED
    BY <1>1, <1>2

LEMMA PassedStep ==
  ASSUME OwnInv, [Next]_vars, NEW t \in Task
  PROVE  Passed(t)'
  <1>0. ReportsInv /\ CreatorsKnown /\ Passed(t) /\ exists \subseteq exists'
    BY CreatorsKnownStep DEF OwnInv
  <1>1. /\ run[t].i \in 1..Len(Pairs[t]) /\ Len(Pairs[t]) \in Nat \ {0}
        /\ DOMAIN Pairs[t] = 1..Len(Pairs[t])
    BY <1>0, CurrentPair
  <1>2. CASE run'[t] = run[t]
    BY <1>0, <1>2 DEF Passed, Current
  <1>3. CASE Launch(t)
    <2>1. Begins(t, "check", 1)
      BY <1>0, <1>3, LaunchEffect
    <2> QED
      BY <2>1 DEF Begins, Passed
  <1>4. CASE StepFails(t)
    BY <1>0, <1>4, StepFailsEffect DEF Begins, Passed
  <1>5. CASE Check(t)
    <2>1. /\ run[t].pc = "check"
          /\ \/ Begins(t, "failed", run[t].i)
             \/ ~Refuses(t) /\ Begins(t, "check", run[t].i + 1)
             \/ ~Refuses(t) /\ run[t].i = Len(Pairs[t]) /\ Begins(t, "ensure", 1)
      BY <1>0, <1>5, CheckEffect
    <2>2. CASE Begins(t, "failed", run[t].i)
      BY <2>2 DEF Begins, Passed
    <2>3. CASE ~Refuses(t)
      <3>1. Policy[t] = "create" => Pairs[t][run[t].i].target \notin Existing
        BY <1>0, <2>3 DEF Refuses, Current, CreatorsKnown
      <3>2. \A i \in 1..run[t].i : i # run[t].i => i \in 1..(run[t].i - 1)
        BY <1>1
      <3>3. Policy[t] = "create" =>
              \A i \in 1..run[t].i : Pairs[t][i].target \notin Existing
        BY <1>0, <2>1, <3>1, <3>2 DEF Passed
      <3>4. CASE Begins(t, "check", run[t].i + 1)
        <4>1. run'[t].i - 1 = run[t].i
          BY <1>1, <3>4 DEF Begins
        <4> QED
          BY <3>3, <3>4, <4>1 DEF Begins, Passed
      <3>5. CASE run[t].i = Len(Pairs[t]) /\ Begins(t, "ensure", 1)
        BY <1>1, <3>3, <3>5 DEF Begins, Passed
      <3> QED
        BY <2>1, <2>2, <3>4, <3>5
    <2> QED
      BY <2>1, <2>2, <2>3
  <1>6. CASE Ensure(t)
    BY <1>0, <1>6, EnsureEffect DEF Begins, Passed, Current
  <1>7. CASE CreateDatabase(t)
    <2>1. /\ run[t].pc = "create"
          /\ \/ Begins(t, "failed", run[t].i)
             \/ Begins(t, "stats", run[t].i) /\ Current(t).target \in exists'
      BY <1>0, <1>7, CreateDatabaseEffect
    <2> QED
      BY <1>0, <2>1 DEF Begins, Passed, Current
  <1>8. CASE Stats(t)
    <2>1. /\ run[t].pc = "stats"
          /\ \/ Begins(t, "ensure", run[t].i + 1) \/ Begins(t, "success", run[t].i)
             \/ Begins(t, "dump", run[t].i)
      BY <1>0, <1>8, StatsEffect
    <2> QED
      BY <1>0, <2>1 DEF Begins, Passed, Current
  <1>9. CASE DumpTable(t)
    BY <1>0, <1>9, DumpTableEffect DEF Passed, Current
  <1>10. CASE DumpDone(t)
    BY <1>0, <1>10, DumpDoneEffect DEF Begins, Passed, Current
  <1>11. CASE RestoreTable(t)
    BY <1>0, <1>11, RestoreTableEffect DEF Passed, Current
  <1>12. CASE RestoreDone(t)
    <2>1. /\ run[t].pc = "restore"
          /\ \/ Begins(t, "failed", run[t].i) \/ Begins(t, "ensure", run[t].i + 1)
             \/ Begins(t, "success", run[t].i)
      BY <1>0, <1>12, RestoreDoneEffect
    <2> QED
      BY <1>0, <2>1 DEF Begins, Passed
  <1>13. ASSUME NEW u \in Task \ {t}, Launch(u) \/ Step(u) \/ StepFails(u)
         PROVE  run'[t] = run[t]
    <2>1. OthersStay(u)
      BY <1>0, <1>13, LaunchEffect, StepFailsEffect, CheckEffect, EnsureEffect,
         CreateDatabaseEffect, StatsEffect, DumpTableEffect, DumpDoneEffect,
         RestoreTableEffect, RestoreDoneEffect DEF Step
    <2> QED
      BY <2>1 DEF OthersStay
  <1>14. CASE UNCHANGED vars
    BY <1>2, <1>14 DEF vars
  <1> QED
    BY <1>2, <1>3, <1>4, <1>5, <1>6, <1>7, <1>8, <1>9, <1>10, <1>11, <1>12, <1>13, <1>14
       DEF Next, Step

LEMMA WrittenByCreatorsStep ==
  ASSUME OwnInv, [Next]_vars
  PROVE  WrittenByCreators'
  <1>0. ReportsInv /\ CreatorsKnown /\ WrittenByCreators
    BY DEF OwnInv
  <1>1. \A d \in DB : creator[d] # User => creator'[d] # User
    BY CreatorsKnownStep
  <1>2. CASE \E u \in Task : RestoreTable(u)
    <2>1. PICK u \in Task : RestoreTable(u)
      BY <1>2
    <2>2. PICK d \in DB : d = Current(u).target
      BY <1>0, CurrentPair
    <2>3. PICK n \in TableName : n = run[u].k + 1
      BY <1>0, <2>1, RestoreTableEffect
    <2>4. PICK v \in {Mixed, u} : v = IF Clash(u) THEN Mixed ELSE u
      OBVIOUS
    <2>5. table' = [table EXCEPT ![d][n] = v] /\ run[u].pc = "restore"
      BY <1>0, <2>1, <2>2, <2>3, <2>4, RestoreTableEffect
    <2>6. Passed(u) /\ run[u].i \in DOMAIN Pairs[u]
      BY <1>0, CurrentPair DEF OwnInv
    <2>7. d \in exists /\ d \in Targets(u) /\ (Policy[u] = "create" => d \notin Existing)
      BY <2>2, <2>5, <2>6 DEF Passed, Current, Targets
    <2>8. Policy[u] = "create" => creator[d] # User
      BY <1>0, <2>7 DEF CreatorsKnown
    <2>9. \A e \in DB, k \in TableName :
            table'[e][k] = table[e][k] \/ (e = d /\ table'[e][k] = v)
      BY <1>0, <2>5 DEF ReportsInv, TypeOK
    <2>10. Mixed \notin Task
      BY EngineAssumption
    <2> QED
      BY <1>0, <1>1, <2>4, <2>7, <2>8, <2>9, <2>10 DEF WrittenByCreators
  <1>3. CASE ~(\E u \in Task : RestoreTable(u))
    <2>1. table' = table
      BY <1>3 DEF Next, vars, Launch, Step, Check, Ensure, CreateDatabase, Stats,
                  DumpTable, DumpDone, RestoreDone, StepFails
    <2> QED
      BY <1>0, <1>1, <2>1 DEF WrittenByCreators
  <1> QED
    BY <1>2, <1>3

LEMMA OwnStep ==
  ASSUME OwnInv, [Next]_vars
  PROVE  OwnInv'
  <1>1. ReportsInv'
    BY ReportsStep DEF OwnInv
  <1> QED
    BY <1>1, CreatorsKnownStep, PassedStep, WrittenByCreatorsStep DEF OwnInv

\* A task that may only create databases never writes into one that was there
\* before any task ran, although it looks twice and nothing locks the target in
\* between: whatever has appeared since its check is another task's.  If no
\* other task has the target, it has created it itself.
THEOREM CreatesWriteOwn == Spec => []WritesOnlyOwn
  <1>1. Init => OwnInv
    BY OwnInit
  <1>2. OwnInv /\ [Next]_vars => OwnInv'
    BY OwnStep
  <1>3. OwnInv => WritesOnlyOwn
    <2> SUFFICES ASSUME OwnInv, NEW t \in Task, NEW d \in DB, Policy[t] = "create",
                        \E k \in TableName : table[d][k] = t
                 PROVE  creator[d] # User /\ (Unshared(t, d) => creator[d] = t)
      BY DEF WritesOnlyOwn
    <2>1. creator[d] # User /\ d \in Targets(t)
      BY DEF OwnInv, WrittenByCreators
    <2>2. creator[d] \in Task /\ d \in Targets(creator[d])
      BY <2>1 DEF OwnInv, CreatorsKnown, ReportsInv, TypeOK
    <2> QED
      BY <2>1, <2>2 DEF Unshared
  <1> QED
    BY <1>1, <1>2, <1>3, PTL DEF Spec
=============================================================================
