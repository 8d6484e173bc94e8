--------------------------- MODULE FrontendProofs ---------------------------
(***************************************************************************)
(* Theorems about Frontend: about the form and the other clients for any   *)
(* connections, databases and inputs, and any number of lost requests;     *)
(* about the page of a task for any writers, polls and failures.           *)
(***************************************************************************)
EXTENDS Frontend, FiniteSetTheorems, SequenceTheorems, WellFoundedInduction, TLAPS

(***************************************************************************)
(* The rows of the form's tasks.                                           *)
(***************************************************************************)
Row(r) ==
  /\ r = [source |-> r.source, target |-> r.target, databases |-> r.databases,
          legacy |-> r.legacy, queued |-> r.queued, input |-> r.input]
  /\ r.queued \in BOOLEAN

\* RowsMapped, for one row.
Mapped(r) ==
  LET pairs == WorkerPairs(r) IN
  /\ pairs = ResolveDatabasePairs(r.input) /\ pairs # <<>>
  /\ \A p \in ToSet(pairs) : Filled(p)
  /\ IsInjective(Sources(pairs)) /\ IsInjective(Targets(pairs))

RowsInv ==
  /\ \E S : rows \in Seq(S)
  /\ \A i \in DOMAIN rows : Row(rows[i]) /\ Mapped(rows[i])

\* What is done to the rows in one step.
Created(input) == ValidCreate(input) /\ rows' = Append(rows, Stored(input))
Started(t) == rows' = [rows EXCEPT ![t].queued = TRUE]

\* The pairs of a mapping that is not refused.
LEMMA ResolvedPairs ==
  ASSUME NEW input, ResolveDatabasePairs(input) # <<>>
  PROVE  LET pairs == ResolveDatabasePairs(input) IN
         /\ \A p \in ToSet(pairs) : Filled(p)
         /\ IsInjective(Sources(pairs)) /\ IsInjective(Targets(pairs))
  BY DEF ResolveDatabasePairs, ToSet

LEMMA StoredRow ==
  ASSUME NEW input, ValidCreate(input)
  PROVE  Row(Stored(input)) /\ Mapped(Stored(input)) /\ Stored(input).queued = FALSE
  <1>1. PICK pairs : pairs = ResolveDatabasePairs(input)
    OBVIOUS
  <1>2. PICK r : r = [source |-> input.source, target |-> input.target, databases |-> pairs,
                      legacy |-> pairs[1], queued |-> FALSE, input |-> input]
    OBVIOUS
  <1>3. r = Stored(input)
    BY <1>1, <1>2 DEF Stored
  <1>4. r.databases = pairs /\ r.input = input /\ r.queued = FALSE /\ Row(r)
    BY <1>2 DEF Row
  <1>5. pairs # <<>>
    BY <1>1 DEF ValidCreate
  <1>6. WorkerPairs(r) = pairs
    BY <1>4, <1>5 DEF WorkerPairs, TaskPairs
  <1>7. Mapped(r)
    BY <1>1, <1>4, <1>5, <1>6, ResolvedPairs DEF Mapped
  <1> QED
    BY <1>3, <1>4, <1>7

LEMMA LegacyMapped ==
  ASSUME NEW c, NEW pair, Filled(pair)
  PROVE  Row(LegacyRow(c, pair)) /\ Mapped(LegacyRow(c, pair))
         /\ LegacyRow(c, pair).queued = FALSE
  <1>1. PICK n : n = [source |-> c, target |-> c, databases |-> <<>>, legacy |-> pair]
    OBVIOUS
  <1>2. PICK r : r = [source |-> c, target |-> c, databases |-> <<>>, legacy |-> pair,
                      queued |-> FALSE, input |-> n]
    OBVIOUS
  <1>3. r = LegacyRow(c, pair)
    BY <1>1, <1>2 DEF LegacyRow
  <1>4. /\ r.databases = <<>> /\ r.legacy = pair /\ r.input = n /\ r.queued = FALSE /\ Row(r)
        /\ n.databases = <<>> /\ n.legacy = pair
    BY <1>1, <1>2 DEF Row
  <1>5. WorkerPairs(r) = <<pair>>
    BY <1>4 DEF WorkerPairs, TaskPairs, Filled
  <1>6. /\ DOMAIN <<pair>> = {1} /\ <<pair>>[1] = pair /\ <<pair>> # <<>>
    OBVIOUS
  <1>7. IsInjective(Sources(<<pair>>)) /\ IsInjective(Targets(<<pair>>))
    BY <1>6 DEF IsInjective, Sources, Targets
  <1>8. ResolveDatabasePairs(n) = <<pair>>
    BY <1>4, <1>6, <1>7 DEF ResolveDatabasePairs
  <1>9. Mapped(r)
    BY <1>4, <1>5, <1>6, <1>8, ResolvedPairs DEF Mapped
  <1> QED
    BY <1>3, <1>4, <1>9

LEMMA RowCreated ==
  ASSUME RowsInv, NEW input, Created(input)
  PROVE  /\ RowsInv'
         /\ {i \in DOMAIN rows' : rows'[i].queued} = {i \in DOMAIN rows : rows[i].queued}
  <1>1. PICK S : rows \in Seq(S)
    BY DEF RowsInv
  <1>2. PICK r : r = Stored(input)
    OBVIOUS
  <1>3. PICK T : T = S \cup {r}
    OBVIOUS
  <1>4. r \in T /\ rows \in Seq(T) /\ rows' = Append(rows, r)
    BY <1>1, <1>2, <1>3, SeqMonotonic DEF Created
  <1>5. /\ rows' \in Seq(T) /\ Len(rows) \in Nat /\ DOMAIN rows = 1..Len(rows)
        /\ DOMAIN rows' = 1..(Len(rows) + 1) /\ rows'[Len(rows) + 1] = r
        /\ \A i \in 1..Len(rows) : rows'[i] = rows[i]
    BY <1>4, AppendProperties, LenProperties
  <1>6. Row(r) /\ Mapped(r) /\ r.queued = FALSE
    BY <1>2, StoredRow DEF Created
  <1>7. \A i \in DOMAIN rows' : i \in DOMAIN rows \/ i = Len(rows) + 1
    BY <1>5
  <1>8. Len(rows) + 1 \notin DOMAIN rows /\ DOMAIN rows \subseteq DOMAIN rows'
    BY <1>5
  <1>9. \A i \in DOMAIN rows' : Row(rows'[i]) /\ Mapped(rows'[i])
    BY <1>5, <1>6, <1>7 DEF RowsInv
  <1>10. RowsInv'
    BY <1>5, <1>9 DEF RowsInv, Row, Mapped
  <1>11. \A i : i \in DOMAIN rows' /\ rows'[i].queued <=> i \in DOMAIN rows /\ rows[i].queued
    BY <1>5, <1>6, <1>7, <1>8
  <1> QED
    BY <1>10, <1>11

LEMMA RowStarted ==
  ASSUME RowsInv, NEW t, Started(t)
  PROVE  /\ RowsInv'
         /\ {i \in DOMAIN rows' : rows'[i].queued} \subseteq {i \in DOMAIN rows : rows[i].queued} \cup {t}
  <1>1. PICK S : rows \in Seq(S)
    BY DEF RowsInv
  <1>2. rows \in [1..Len(rows) -> S] /\ DOMAIN rows = 1..Len(rows) /\ Len(rows) \in Nat
    BY <1>1, LenProperties
  <1>3. PICK r : r = [rows[t] EXCEPT !.queued = TRUE]
    OBVIOUS
  <1>4. rows' = [rows EXCEPT ![t] = r]
    BY <1>3 DEF Started
  <1>5. PICK T : T = S \cup {r}
    OBVIOUS
  <1>6. rows' \in [1..Len(rows) -> T]
    BY <1>2, <1>4, <1>5
  <1>7. rows' \in Seq(T)
    BY <1>2, <1>6, SeqDef
  <1>8. ASSUME t \in DOMAIN rows
        PROVE  Row(r) /\ Mapped(r)
    <2>1. PICK q : q = rows[t]
      OBVIOUS
    <2>2. Row(q) /\ Mapped(q)
      BY <1>8, <2>1 DEF RowsInv
    <2>3. r = [q EXCEPT !.queued = TRUE]
      BY <1>3, <2>1
    <2>4. /\ r = [source |-> q.source, target |-> q.target, databases |-> q.databases,
                  legacy |-> q.legacy, queued |-> TRUE, input |-> q.input]
      BY <2>2, <2>3 DEF Row
    <2>5. r.databases = q.databases /\ r.legacy = q.legacy /\ r.input = q.input /\ Row(r)
      BY <2>4 DEF Row
    <2> QED
      BY <2>2, <2>5 DEF Mapped, WorkerPairs, TaskPairs
  <1>9. DOMAIN rows' = DOMAIN rows /\ \A i \in DOMAIN rows : rows'[i] = IF i = t THEN r ELSE rows[i]
    BY <1>2, <1>4
  <1>10. \A i \in DOMAIN rows' : Row(rows'[i]) /\ Mapped(rows'[i])
    BY <1>8, <1>9 DEF RowsInv
  <1>11. RowsInv'
    BY <1>7, <1>10 DEF RowsInv, Row, Mapped
  <1> QED
    BY <1>9, <1>11

LEMMA RowsStep ==
  ASSUME FormNext
  PROVE  \/ rows' = rows
         \/ \E input : Created(input)
         \/ \E t : Started(t)
  BY DEF FormNext, ChooseSource, ListAnswers, ListFails, Start, Select, UpdateTarget, ClientStart,
         CallStep, Create, CreateRefuses, StartTask, RequestLost, Created, Started

LEMMA RowsInit == Init => RowsInv /\ \A i \in DOMAIN rows : rows[i].queued = FALSE
  <1> SUFFICES ASSUME Init PROVE RowsInv /\ \A i \in DOMAIN rows : rows[i].queued = FALSE
    OBVIOUS
  <1>1. CASE rows = <<>>
    <2>1. rows \in Seq({}) /\ DOMAIN rows = {}
      BY <1>1
    <2> QED
      BY <2>1 DEF RowsInv
  <1>2. ASSUME NEW c, NEW p, Filled(p), rows = <<LegacyRow(c, p)>>
        PROVE  RowsInv /\ \A i \in DOMAIN rows : rows[i].queued = FALSE
    <2>1. PICK r : r = LegacyRow(c, p)
      OBVIOUS
    <2>2. rows \in Seq({r}) /\ DOMAIN rows = {1} /\ rows[1] = r
      BY <1>2, <2>1
    <2>3. Row(r) /\ Mapped(r) /\ r.queued = FALSE
      BY <1>2, <2>1, LegacyMapped
    <2> QED
      BY <2>2, <2>3 DEF RowsInv
  <1>3. rows = <<>> \/ \E c \in Connection, p \in Pair : Filled(p) /\ rows = <<LegacyRow(c, p)>>
    BY DEF Init, FormInit, ClientInit
  <1> QED
    BY <1>1, <1>2, <1>3

LEMMA RowsNext == RowsInv /\ [Next]_vars => RowsInv'
  <1>1. RowsInv /\ rows' = rows => RowsInv'
    BY DEF RowsInv, Row, Mapped
  <1> QED
    BY <1>1, RowsStep, RowCreated, RowStarted DEF Next, vars, formVars

(***************************************************************************)
(* One queued task, and one more for each loss: while something may still  *)
(* be submitted, there are no more than the losses.                        *)
(***************************************************************************)
Queued == {i \in DOMAIN rows : rows[i].queued}
Form(f) == f = [source |-> f.source, offered |-> f.offered, mapping |-> f.mapping]

CountInv ==
  /\ losses \in Nat /\ Form(form)
  /\ \A a, b \in calls : a = b
  /\ Open \/ calls # {} => Cardinality(Queued) <= losses
  /\ Cardinality(Queued) <= losses + 1

LEMMA QueuedFinite ==
  ASSUME RowsInv
  PROVE  IsFiniteSet(Queued) /\ Cardinality(Queued) \in Nat
  <1>1. PICK S : rows \in Seq(S)
    BY DEF RowsInv
  <1>2. DOMAIN rows = 1..Len(rows) /\ Len(rows) \in Nat
    BY <1>1, LenProperties
  <1>3. IsFiniteSet(1..Len(rows))
    BY <1>2, FS_Interval
  <1>4. IsFiniteSet(Queued)
    BY <1>2, <1>3, FS_Subset DEF Queued
  <1> QED
    BY <1>4, FS_CardinalityType

\* Where the form and the submissions may go in a step.
LEMMA FormMoves ==
  ASSUME CountInv, FormNext
  PROVE  /\ Form(form') /\ \A a, b \in calls' : a = b
         /\ form'.source # Closed => Open
         /\ \/ losses' = losses
            \/ losses' = losses + 1
         /\ calls' # {} => Open \/ calls # {} \/ rows = <<>>
  <1>1. ASSUME NEW call \in calls, CallStep(call)
        PROVE  /\ Form(form') /\ \A a, b \in calls' : a = b
               /\ form'.source # Closed => Open
               /\ losses' = losses \/ losses' = losses + 1
    <2>1. Form(form') /\ (form'.source # Closed => Open)
      <3>1. CASE form' = form
        BY <3>1 DEF CountInv, Open
      <3>2. CASE form' = [source |-> Closed, offered |-> {}, mapping |-> <<>>]
        BY <3>2 DEF Form
      <3> QED
        BY <1>1, <3>1, <3>2 DEF CallStep, Create, CreateRefuses, StartTask, RequestLost
    <2>2. calls = {call}
      BY DEF CountInv
    <2>3. calls' = {} \/ \E x : calls' = {x}
      <3>1. calls \ {call} = {}
        BY <2>2
      <3>2. CASE Create(call)
        <4>1. PICK x : x = [call EXCEPT !.pc = "start", !.task = Len(rows) + 1]
          OBVIOUS
        <4>2. calls' = {} \/ calls' = {x}
          BY <3>1, <3>2, <4>1 DEF Create
        <4> QED
          BY <4>2
      <3> QED
        BY <1>1, <3>1, <3>2 DEF CallStep, CreateRefuses, StartTask, RequestLost
    <2>4. losses' = losses \/ losses' = losses + 1
      BY <1>1 DEF CallStep, Create, CreateRefuses, StartTask, RequestLost, Lose
    <2> QED
      BY <2>1, <2>3, <2>4
  <1>2. ASSUME NEW c \in Connection, Start(c)
        PROVE  UNCHANGED <<form, losses>> /\ \E x : calls' = {x}
    BY <1>2 DEF Start
  <1>3. ASSUME NEW input \in ClientInputs, ClientStart(input)
        PROVE  UNCHANGED <<form, losses>> /\ rows = <<>> /\ \E x : calls' = {x}
    BY <1>3 DEF ClientStart
  <1>4. ASSUME NEW c \in Connection, ListAnswers(c)
        PROVE  Form(form') /\ form'.source = form.source /\ UNCHANGED <<calls, losses>>
    <2>1. CASE form' = form
      BY <1>4, <2>1 DEF ListAnswers, CountInv
    <2>2. CASE form' = [form EXCEPT !.offered = Databases[c]]
      BY <1>4, <2>2 DEF ListAnswers, CountInv, Form
    <2> QED
      BY <1>4, <2>1, <2>2 DEF ListAnswers
  <1>5. ASSUME NEW c \in Connection, ChooseSource(c)
        PROVE  Form(form') /\ Open /\ UNCHANGED <<calls, losses>>
    BY <1>5 DEF ChooseSource, Form, Edit
  <1>6. ASSUME Select
        PROVE  Form(form') /\ Open /\ UNCHANGED <<calls, losses>>
    <2>1. PICK m : form' = [form EXCEPT !.mapping = m]
      BY <1>6 DEF Select
    <2> QED
      BY <1>6, <2>1 DEF Select, Form, Edit, CountInv
  <1>7. ASSUME NEW i, NEW name, UpdateTarget(i, name)
        PROVE  Form(form') /\ Open /\ UNCHANGED <<calls, losses>>
    <2>1. PICK m : m = [form.mapping EXCEPT ![i].target = name]
      OBVIOUS
    <2>2. form' = [form EXCEPT !.mapping = m]
      BY <1>7, <2>1 DEF UpdateTarget
    <2> QED
      BY <1>7, <2>2 DEF UpdateTarget, Form, Edit, CountInv
  <1>8. ASSUME NEW c \in Connection, ListFails(c)
        PROVE  UNCHANGED <<form, calls, losses>>
    BY <1>8 DEF ListFails
  <1>9. \A a, b \in calls : a = b
    BY DEF CountInv
  <1> QED
    <2>1. CASE \E call \in calls : CallStep(call)
      BY <1>1, <2>1
    <2>2. CASE \E c \in Connection : Start(c)
      <3>1. Open
        BY <2>2, MigrationFormAssumption DEF Start, Open, Closed
      <3> QED
        BY <1>2, <2>2, <3>1 DEF CountInv
    <2>3. CASE \E input \in ClientInputs : ClientStart(input)
      BY <1>3, <2>3 DEF CountInv, Open
    <2>4. CASE ~(\E call \in calls : CallStep(call)) /\ ~(\E c \in Connection : Start(c))
               /\ ~(\E input \in ClientInputs : ClientStart(input))
      <3>1. UNCHANGED <<calls, losses>> /\ Form(form') /\ (form'.source # Closed => Open)
        BY <1>4, <1>5, <1>6, <1>7, <1>8, <2>4 DEF FormNext, Open, CountInv
      <3> QED
        BY <1>9, <3>1
    <2> QED
      BY <2>1, <2>2, <2>3, <2>4

\* How the number of queued tasks may grow.
LEMMA QueuedMoves ==
  ASSUME RowsInv, CountInv, FormNext
  PROVE  \/ {i \in DOMAIN rows' : rows'[i].queued} = Queued
         \/ /\ \E t : {i \in DOMAIN rows' : rows'[i].queued} \subseteq Queued \cup {t}
            /\ calls # {} /\ calls' = {}
            /\ form'.source = Closed \/ losses' = losses + 1
  <1>1. CASE \E call \in calls : StartTask(call)
    <2>1. PICK call \in calls : StartTask(call)
      BY <1>1
    <2>2. Started(call.task)
      BY <2>1 DEF StartTask, Started
    <2>3. calls' = {}
      BY <2>1 DEF StartTask, CountInv
    <2>4. form'.source = Closed \/ losses' = losses + 1
      BY <2>1 DEF StartTask, Lose
    <2> QED
      BY <2>1, <2>2, <2>3, <2>4, RowStarted DEF Queued
  <1>2. CASE ~(\E call \in calls : StartTask(call))
    <2>1. rows' = rows \/ \E input : Created(input)
      BY <1>2 DEF FormNext, ChooseSource, ListAnswers, ListFails, Start, Select, UpdateTarget,
         ClientStart, CallStep, Create, CreateRefuses, RequestLost, Created
    <2> QED
      BY <2>1, RowCreated DEF Queued
  <1> QED
    BY <1>1, <1>2

LEMMA CountKept ==
  ASSUME RowsInv, CountInv, FormNext
  PROVE  CountInv'
  <1>1. PICK S : S = {i \in DOMAIN rows' : rows'[i].queued}
    OBVIOUS
  <1>2. PICK n : n = losses'
    OBVIOUS
  <1>3. PICK q \in Nat : q = Cardinality(Queued)
    BY QueuedFinite
  <1>4. PICK l \in Nat : l = losses
    BY DEF CountInv
  <1>5. /\ n \in Nat /\ (n = l \/ n = l + 1)
        /\ Form(form') /\ \A a, b \in calls' : a = b
    BY <1>2, <1>4, FormMoves
  <1>6. q <= l + 1 /\ (Open \/ calls # {} \/ Queued = {} => q <= l)
    <2>1. Queued = {} => q = 0
      BY <1>3, FS_EmptySet
    <2> QED
      BY <1>3, <1>4, <2>1 DEF CountInv
  <1>7. Cardinality(S) <= n + 1 /\ (form'.source # Closed \/ calls' # {} => Cardinality(S) <= n)
    <2>1. CASE S = Queued
      <3>1. rows = <<>> => Queued = {}
        BY DEF Queued
      <3>2. form'.source # Closed \/ calls' # {} => Open \/ calls # {} \/ Queued = {}
        BY <3>1, FormMoves
      <3>3. Cardinality(S) = q
        BY <1>3, <2>1
      <3> QED
        BY <1>5, <1>6, <3>2, <3>3
    <2>2. CASE S # Queued
      <3>1. PICK t : S \subseteq Queued \cup {t}
        BY <1>1, <2>2, QueuedMoves
      <3>2. PICK k \in Nat : k = Cardinality(S) /\ k <= q + 1
        <4>1. IsFiniteSet(Queued \cup {t}) /\ Cardinality(Queued \cup {t}) <= q + 1
              /\ Cardinality(Queued \cup {t}) \in Nat
          BY <1>3, QueuedFinite, FS_AddElement, FS_CardinalityType
        <4>2. IsFiniteSet(S) /\ Cardinality(S) <= Cardinality(Queued \cup {t}) /\ Cardinality(S) \in Nat
          BY <3>1, <4>1, FS_Subset, FS_CardinalityType
        <4> QED
          BY <4>1, <4>2
      <3>3. calls # {} /\ calls' = {} /\ (form'.source = Closed \/ losses' = losses + 1)
        BY <1>1, <2>2, QueuedMoves
      <3>4. q <= l
        BY <1>6, <3>3
      <3>5. form'.source = Closed \/ n = l + 1
        BY <1>2, <1>4, <3>3
      <3> QED
        BY <1>5, <3>2, <3>3, <3>4, <3>5
    <2> QED
      BY <2>1, <2>2
  <1> QED
    BY <1>1, <1>2, <1>5, <1>7 DEF CountInv, Open, Queued

\* A user, or another client, who has submitted has one queued task, and at
\* most one more for each request or answer that was lost.
THEOREM OneTaskQueued == Spec => []OneQueuedTask
  <1>1. RowsInv /\ CountInv => OneQueuedTask
    <2> SUFFICES ASSUME RowsInv, CountInv PROVE OneQueuedTask
      OBVIOUS
    <2>1. PICK q \in Nat : q = Cardinality(Queued)
      BY QueuedFinite
    <2>2. PICK l \in Nat : l = losses
      BY DEF CountInv
    <2>3. q <= 1 + l
      BY <2>1, <2>2 DEF CountInv
    <2> QED
      BY <2>1, <2>2, <2>3 DEF OneQueuedTask, Queued
  <1>2. Init => CountInv
    <2> SUFFICES ASSUME Init PROVE CountInv
      OBVIOUS
    <2>1. Queued = {}
      BY RowsInit DEF Queued
    <2>2. Cardinality(Queued) = 0
      BY <2>1, FS_EmptySet
    <2>3. Form(form) /\ losses = 0 /\ calls = {}
      BY DEF Init, FormInit, ClientInit, Form
    <2> QED
      BY <2>2, <2>3 DEF CountInv
  <1>3. RowsInv /\ CountInv /\ [Next]_vars => CountInv'
    <2>1. CountInv /\ UNCHANGED formVars => CountInv'
      BY DEF CountInv, formVars, Open, Queued, Form
    <2> QED
      BY <2>1, CountKept DEF Next, vars
  <1> QED
    BY <1>1, <1>2, <1>3, RowsInit, RowsNext, PTL DEF Spec

(***************************************************************************)
(* Induction over a set of numbers: a set that is not all of Nat has a     *)
(* least number outside.                                                   *)
(***************************************************************************)
LEMMA LeastNumber ==
  ASSUME NEW T, T \subseteq Nat, T # {}
  PROVE  \E n \in T : \A m \in T : n <= m
  <1> DEFINE R == {p \in Nat \X Nat : p[1] < p[2]}
  <1>1. IsWellFoundedOn(R, Nat)
    BY NatLessThanWellFounded DEF OpToRel
  <1>2. \E n \in T : \A m \in T : ~(<<m, n>> \in R)
    <2> HIDE DEF R
    <2> QED
      BY <1>1, WFMin
  <1>3. PICK n \in T : \A m \in T : ~(<<m, n>> \in R)
    BY <1>2
  <1>4. \A m \in T : m \in Nat /\ n \in Nat /\ ~(m < n)
    BY <1>3
  <1> QED
    BY <1>4

LEMMA InductionOverSet ==
  ASSUME NEW S, 0 \in S, \A n \in Nat : n \in S => n + 1 \in S
  PROVE  Nat \subseteq S
  <1> SUFFICES ASSUME Nat \ S # {} PROVE FALSE
    OBVIOUS
  <1>1. PICK n \in Nat \ S : \A m \in Nat \ S : n <= m
    BY LeastNumber
  <1>2. n - 1 \in Nat /\ n - 1 \notin Nat \ S
    BY <1>1
  <1> QED
    BY <1>1, <1>2

(***************************************************************************)
(* The filter of the form keeps the filled pairs, in their order.          *)
(***************************************************************************)

\* What the filter has kept of the first i pairs.
Keeps(kept, pairs, n) ==
  kept = [i \in 0..n |-> IF i = 0 THEN <<>>
                         ELSE IF Filled(pairs[i]) THEN Append(kept[i - 1], pairs[i])
                         ELSE kept[i - 1]]

LEMMA KeptExists ==
  ASSUME NEW pairs
  PROVE  \A n \in Nat : \E kept : Keeps(kept, pairs, n)
  <1> DEFINE S == {n \in Nat : \E kept : Keeps(kept, pairs, n)}
  <1>1. 0 \in S
    <2>1. PICK kept : kept = [i \in 0..0 |-> <<>>]
      OBVIOUS
    <2>2. Keeps(kept, pairs, 0)
      BY <2>1 DEF Keeps
    <2> QED
      BY <2>2
  <1>2. ASSUME NEW n \in Nat, n \in S
        PROVE  n + 1 \in S
    <2>1. PICK kept : Keeps(kept, pairs, n)
      BY <1>2
    <2>2. PICK last : last = IF Filled(pairs[n + 1]) THEN Append(kept[n], pairs[n + 1])
                             ELSE kept[n]
      OBVIOUS
    <2>3. PICK more : more = [i \in 0..(n + 1) |-> IF i = n + 1 THEN last ELSE kept[i]]
      OBVIOUS
    <2>4. Keeps(more, pairs, n + 1)
      <3>1. \A i \in 0..(n + 1) :
              more[i] = IF i = 0 THEN <<>>
                        ELSE IF Filled(pairs[i]) THEN Append(more[i - 1], pairs[i])
                        ELSE more[i - 1]
        <4> TAKE i \in 0..(n + 1)
        <4>1. CASE i = n + 1
          <5>1. more[i] = last /\ more[i - 1] = kept[n] /\ i # 0
            BY <2>3, <4>1
          <5> QED
            BY <2>2, <4>1, <5>1
        <4>2. CASE i # n + 1
          <5>1. i \in 0..n /\ more[i] = kept[i] /\ (i # 0 => i - 1 \in 0..n /\ more[i - 1] = kept[i - 1])
            BY <2>3, <4>2
          <5>2. kept[i] = IF i = 0 THEN <<>>
                          ELSE IF Filled(pairs[i]) THEN Append(kept[i - 1], pairs[i])
                          ELSE kept[i - 1]
            BY <2>1, <5>1 DEF Keeps
          <5> QED
            BY <5>1, <5>2
        <4> QED
          BY <4>1, <4>2
      <3> QED
        BY <2>3, <3>1 DEF Keeps
    <2> QED
      BY <2>4
  <1>3. Nat \subseteq S
    <2> HIDE DEF S
    <2> QED
      BY <1>1, <1>2, InductionOverSet
  <1> QED
    BY <1>3

\* The step of the filter.
LEMMA KeepsOne ==
  ASSUME NEW kept, NEW pairs, NEW n \in Nat, Keeps(kept, pairs, n), NEW i \in Nat, i + 1 <= n
  PROVE  kept[i + 1] = IF Filled(pairs[i + 1]) THEN Append(kept[i], pairs[i + 1]) ELSE kept[i]
  <1>1. PICK j \in Nat : j = i + 1
    OBVIOUS
  <1>2. j \in 0..n /\ j # 0 /\ j - 1 = i
    BY <1>1
  <1>3. kept[j] = IF j = 0 THEN <<>>
                  ELSE IF Filled(pairs[j]) THEN Append(kept[j - 1], pairs[j]) ELSE kept[j - 1]
    BY <1>2 DEF Keeps
  <1> QED
    BY <1>1, <1>2, <1>3

LEMMA FilterKeeps ==
  ASSUME NEW S, NEW pairs \in Seq(S)
  PROVE  \E kept : Keeps(kept, pairs, Len(pairs)) /\ FilledPairs(pairs) = kept[Len(pairs)]
  <1>1. Len(pairs) \in Nat
    BY LenProperties
  <1> DEFINE kept == CHOOSE f : Keeps(f, pairs, Len(pairs))
  <1>2. Keeps(kept, pairs, Len(pairs))
    BY <1>1, KeptExists
  <1>3. FilledPairs(pairs) = kept[Len(pairs)]
    BY DEF FilledPairs, Keeps
  <1> QED
    BY <1>2, <1>3

\* sub holds the filled ones of the first i pairs, in their order.
Picks(sub, pairs, i, S) ==
  /\ sub \in Seq(S)
  /\ \E from \in [1..Len(sub) -> 1..i] :
       /\ \A k, l \in 1..Len(sub) : k < l => from[k] < from[l]
       /\ \A k \in 1..Len(sub) : sub[k] = pairs[from[k]] /\ Filled(sub[k])
       /\ \A j \in 1..i : Filled(pairs[j]) => \E k \in 1..Len(sub) : from[k] = j

LEMMA PicksEmpty ==
  ASSUME NEW S, NEW pairs
  PROVE  Picks(<<>>, pairs, 0, S)
  <1>1. <<>> \in Seq(S) /\ Len(<<>>) = 0
    OBVIOUS
  <1>2. PICK from : from = [k \in 1..0 |-> 0]
    OBVIOUS
  <1>3. from \in [1..0 -> 1..0] /\ \A k \in 1..0 : FALSE
    BY <1>2
  <1> QED
    BY <1>1, <1>3 DEF Picks

LEMMA PicksOne ==
  ASSUME NEW S, NEW n \in Nat, NEW pairs, NEW i \in Nat, pairs[i + 1] \in S,
         NEW sub, Picks(sub, pairs, i, S)
  PROVE  /\ Filled(pairs[i + 1]) => Picks(Append(sub, pairs[i + 1]), pairs, i + 1, S)
         /\ ~Filled(pairs[i + 1]) => Picks(sub, pairs, i + 1, S)
  <1>1. sub \in Seq(S) /\ Len(sub) \in Nat
    BY LenProperties DEF Picks
  <1>2. PICK from \in [1..Len(sub) -> 1..i] :
          /\ \A k, l \in 1..Len(sub) : k < l => from[k] < from[l]
          /\ \A k \in 1..Len(sub) : sub[k] = pairs[from[k]] /\ Filled(sub[k])
          /\ \A j \in 1..i : Filled(pairs[j]) => \E k \in 1..Len(sub) : from[k] = j
    BY DEF Picks
  <1>3. \A j \in 1..(i + 1) : j \in 1..i \/ j = i + 1
    OBVIOUS
  <1>4. ASSUME ~Filled(pairs[i + 1])
        PROVE  Picks(sub, pairs, i + 1, S)
    <2>1. from \in [1..Len(sub) -> 1..(i + 1)]
      BY <1>2
    <2>2. \A j \in 1..(i + 1) : Filled(pairs[j]) => \E k \in 1..Len(sub) : from[k] = j
      BY <1>2, <1>3, <1>4
    <2> QED
      BY <1>1, <1>2, <2>1, <2>2 DEF Picks
  <1>5. ASSUME Filled(pairs[i + 1])
        PROVE  Picks(Append(sub, pairs[i + 1]), pairs, i + 1, S)
    <2>1. PICK more : more = Append(sub, pairs[i + 1])
      OBVIOUS
    <2>2. /\ more \in Seq(S) /\ Len(more) = Len(sub) + 1
          /\ more[Len(sub) + 1] = pairs[i + 1] /\ \A k \in 1..Len(sub) : more[k] = sub[k]
      BY <1>1, <2>1, AppendProperties
    <2>3. PICK to : to = [k \in 1..(Len(sub) + 1) |-> IF k = Len(sub) + 1 THEN i + 1 ELSE from[k]]
      OBVIOUS
    <2>4. \A k \in 1..(Len(sub) + 1) : k \in 1..Len(sub) \/ k = Len(sub) + 1
      BY <1>1
    <2>5. /\ to[Len(sub) + 1] = i + 1
          /\ \A k \in 1..Len(sub) : to[k] = from[k] /\ from[k] \in 1..i /\ k # Len(sub) + 1
      BY <1>1, <1>2, <2>3
    <2>6. to \in [1..Len(more) -> 1..(i + 1)]
      BY <2>2, <2>3, <2>4, <2>5
    <2>7. \A k, l \in 1..Len(more) : k < l => to[k] < to[l]
      <3> TAKE k, l \in 1..Len(more)
      <3> HAVE k < l
      <3>1. k \in 1..Len(sub)
        BY <1>1, <2>2
      <3> QED
        BY <1>2, <2>2, <2>4, <2>5, <3>1
    <2>8. \A k \in 1..Len(more) : more[k] = pairs[to[k]] /\ Filled(more[k])
      BY <1>2, <1>5, <2>2, <2>4, <2>5
    <2>9. \A j \in 1..(i + 1) : Filled(pairs[j]) => \E k \in 1..Len(more) : to[k] = j
      <3> TAKE j \in 1..(i + 1)
      <3>1. CASE j = i + 1
        BY <1>1, <2>2, <2>5, <3>1
      <3>2. ASSUME j \in 1..i, Filled(pairs[j])
            PROVE  \E k \in 1..Len(more) : to[k] = j
        <4>1. PICK k \in 1..Len(sub) : from[k] = j
          BY <1>2, <3>2
        <4> QED
          BY <1>1, <2>2, <2>5, <4>1
      <3> QED
        BY <1>3, <3>1, <3>2
    <2> QED
      BY <2>1, <2>2, <2>6, <2>7, <2>8, <2>9 DEF Picks
  <1> QED
    BY <1>4, <1>5

\* What the filter returns.
LEMMA FilteredPairs ==
  ASSUME NEW S, NEW pairs \in Seq(S)
  PROVE  Picks(FilledPairs(pairs), pairs, Len(pairs), S)
  <1>1. PICK n \in Nat : n = Len(pairs)
    BY LenProperties
  <1>2. PICK kept : Keeps(kept, pairs, n) /\ FilledPairs(pairs) = kept[n]
    BY <1>1, FilterKeeps
  <1> DEFINE T == {i \in Nat : i <= n => Picks(kept[i], pairs, i, S)}
  <1>3. 0 \in T
    BY <1>2, PicksEmpty DEF Keeps
  <1>4. ASSUME NEW i \in Nat, i \in T
        PROVE  i + 1 \in T
    <2> SUFFICES ASSUME i + 1 <= n PROVE Picks(kept[i + 1], pairs, i + 1, S)
      OBVIOUS
    <2>1. Picks(kept[i], pairs, i, S) /\ i + 1 \in 1..n
      BY <1>4
    <2>2. pairs[i + 1] \in S
      BY <1>1, <2>1
    <2>3. kept[i + 1] = IF Filled(pairs[i + 1]) THEN Append(kept[i], pairs[i + 1]) ELSE kept[i]
      BY <1>2, KeepsOne
    <2> QED
      BY <2>1, <2>2, <2>3, PicksOne
  <1>5. Nat \subseteq T
    <2> HIDE DEF T
    <2> QED
      BY <1>3, <1>4, InductionOverSet
  <1> QED
    BY <1>1, <1>2, <1>5

\* A mapping without a blank stays as it is.
LEMMA FilledStay ==
  ASSUME NEW S, NEW pairs \in Seq(S), \A i \in 1..Len(pairs) : Filled(pairs[i])
  PROVE  FilledPairs(pairs) = pairs
  <1>1. PICK n \in Nat : n = Len(pairs)
    BY LenProperties
  <1>2. PICK kept : Keeps(kept, pairs, n) /\ FilledPairs(pairs) = kept[n]
    BY <1>1, FilterKeeps
  <1> DEFINE First(i) == [k \in 1..i |-> pairs[k]]
             T == {i \in Nat : i <= n => kept[i] = First(i)}
  <1>3. 0 \in T
    BY <1>2 DEF Keeps
  <1>4. ASSUME NEW i \in Nat, i \in T
        PROVE  i + 1 \in T
    <2> SUFFICES ASSUME i + 1 <= n PROVE kept[i + 1] = First(i + 1)
      OBVIOUS
    <2>1. kept[i] = First(i) /\ i + 1 \in 1..n
      BY <1>4
    <2>2. kept[i + 1] = Append(First(i), pairs[i + 1])
      <3>1. Filled(pairs[i + 1])
        BY <1>1, <2>1
      <3>2. kept[i + 1] = Append(kept[i], pairs[i + 1])
        BY <1>2, <3>1, KeepsOne
      <3> QED
        BY <2>1, <3>2
    <2>3. First(i) \in Seq(S) /\ Len(First(i)) = i /\ pairs[i + 1] \in S
      <3>1. \A k \in 1..i : pairs[k] \in S
        BY <1>1, <2>1
      <3> QED
        BY <1>1, <2>1, <3>1
    <2>4. /\ Append(First(i), pairs[i + 1]) \in Seq(S)
          /\ Len(Append(First(i), pairs[i + 1])) = i + 1
          /\ Append(First(i), pairs[i + 1])[i + 1] = pairs[i + 1]
          /\ \A k \in 1..i : Append(First(i), pairs[i + 1])[k] = First(i)[k]
      BY <2>3, AppendProperties
    <2> QED
      BY <2>2, <2>4
  <1>5. Nat \subseteq T
    <2> HIDE DEF T
    <2> QED
      BY <1>3, <1>4, InductionOverSet
  <1>6. kept[n] = First(n)
    BY <1>5
  <1> QED
    BY <1>1, <1>2, <1>6
(***************************************************************************)
(* The mapping in the form belongs to the source that is chosen, and names *)
(* no database twice.                                                      *)
(***************************************************************************)
Distinct(pairs) == \A i, j \in DOMAIN pairs : pairs[i].source = pairs[j].source => i = j
PairRec(p) == p = [source |-> p.source, target |-> p.target]

MappingInv ==
  /\ Form(form) /\ \E S : form.mapping \in Seq(S)
  /\ \A i \in DOMAIN form.mapping : PairRec(form.mapping[i])
  /\ Distinct(form.mapping)
  /\ ~crossed /\ form.source \in Connection =>
       /\ form.offered \subseteq Databases[form.source]
       /\ \A i \in DOMAIN form.mapping : form.mapping[i].source \in Databases[form.source]

LEMMA SourcesAre ==
  ASSUME NEW S, NEW pairs \in Seq(S)
  PROVE  /\ \E T : Sources(pairs) \in Seq(T)
         /\ Len(Sources(pairs)) = Len(pairs) /\ Len(pairs) \in Nat
         /\ DOMAIN Sources(pairs) = DOMAIN pairs
         /\ \A i \in DOMAIN pairs : Sources(pairs)[i] = pairs[i].source
  <1>1. DOMAIN pairs = 1..Len(pairs) /\ Len(pairs) \in Nat
    BY LenProperties
  <1>2. PICK T : T = {pairs[i].source : i \in DOMAIN pairs}
    OBVIOUS
  <1>3. Sources(pairs) \in [1..Len(pairs) -> T]
    BY <1>1, <1>2 DEF Sources
  <1>4. Sources(pairs) \in Seq(T)
    BY <1>1, <1>3, SeqDef
  <1>5. Len(Sources(pairs)) = Len(pairs)
    BY <1>1, <1>3, <1>4, LenProperties
  <1> QED
    BY <1>1, <1>4, <1>5 DEF Sources

\* One element less.
LEMMA RemovedAre ==
  ASSUME NEW S, NEW s \in Seq(S), NEW k \in 1..Len(s)
  PROVE  /\ RemoveAt(s, k) \in Seq(S) /\ Len(RemoveAt(s, k)) = Len(s) - 1
         /\ \A i \in 1..(Len(s) - 1) : RemoveAt(s, k)[i] = IF i < k THEN s[i] ELSE s[i + 1]
  <1>1. PICK n \in Nat : n = Len(s)
    BY LenProperties
  <1>2. /\ k \in Int /\ n \in Int /\ 1 <= k /\ k <= n /\ k - 1 \in Int /\ k + 1 \in Int
        /\ \A i \in 1..(k - 1) : s[i] \in S
        /\ \A i \in (k + 1)..n : s[i] \in S
    BY <1>1
  <1>3. PICK a : a = SubSeq(s, 1, k - 1)
    OBVIOUS
  <1>4. PICK b : b = SubSeq(s, k + 1, n)
    OBVIOUS
  <1>5. a \in Seq(S) /\ Len(a) = k - 1 /\ \A i \in 1..(k - 1) : a[i] = s[i]
    <2>1. /\ a \in Seq(S) /\ Len(a) = IF 1 <= k - 1 THEN (k - 1) - 1 + 1 ELSE 0
          /\ \A i \in 1..((k - 1) - 1 + 1) : a[i] = s[1 + i - 1]
      BY <1>2, <1>3, SubSeqProperties
    <2>2. Len(a) = k - 1 /\ (k - 1) - 1 + 1 = k - 1
      BY <1>2, <2>1
    <2>3. \A i \in 1..(k - 1) : i + 1 - 1 = i /\ 1 + i - 1 = i
      BY <1>2
    <2> QED
      BY <2>1, <2>2, <2>3
  <1>6. b \in Seq(S) /\ Len(b) = n - k /\ \A i \in 1..(n - k) : b[i] = s[k + i]
    <2>1. /\ b \in Seq(S) /\ Len(b) = IF k + 1 <= n THEN n - (k + 1) + 1 ELSE 0
          /\ \A i \in 1..(n - (k + 1) + 1) : b[i] = s[(k + 1) + i - 1]
      BY <1>2, <1>4, SubSeqProperties
    <2>2. Len(b) = n - k /\ n - (k + 1) + 1 = n - k
      BY <1>2, <2>1
    <2>3. \A i \in 1..(n - k) : (k + 1) + i - 1 = k + i
      BY <1>2
    <2> QED
      BY <2>1, <2>2, <2>3
  <1>7. RemoveAt(s, k) = a \o b
    BY <1>1, <1>3, <1>4 DEF RemoveAt
  <1>8. /\ a \o b \in Seq(S) /\ Len(a \o b) = n - 1
        /\ \A i \in 1..(n - 1) : (a \o b)[i] = IF i <= k - 1 THEN a[i] ELSE b[i - (k - 1)]
    <2>1. (k - 1) + (n - k) = n - 1
      BY <1>2
    <2>2. /\ a \o b \in Seq(S) /\ Len(a \o b) = Len(a) + Len(b)
          /\ \A i \in 1..(Len(a) + Len(b)) : (a \o b)[i] = IF i <= Len(a) THEN a[i] ELSE b[i - Len(a)]
      BY <1>5, <1>6, ConcatProperties
    <2>3. Len(a) + Len(b) = n - 1 /\ Len(a) = k - 1
      BY <1>5, <1>6, <2>1
    <2> QED
      BY <2>2, <2>3
  <1>9. \A i \in 1..(n - 1) : (a \o b)[i] = IF i < k THEN s[i] ELSE s[i + 1]
    <2> TAKE i \in 1..(n - 1)
    <2>1. CASE i < k
      <3>1. i <= k - 1 /\ i \in 1..(k - 1)
        BY <1>2, <2>1
      <3> QED
        BY <1>5, <1>8, <2>1, <3>1
    <2>2. CASE ~(i < k)
      <3>1. ~(i <= k - 1) /\ i - (k - 1) \in 1..(n - k) /\ k + (i - (k - 1)) = i + 1
        BY <1>2, <2>2
      <3> QED
        BY <1>6, <1>8, <2>2, <3>1
    <2> QED
      BY <2>1, <2>2
  <1> QED
    BY <1>1, <1>7, <1>8, <1>9

\* What a change of the selection selects was selected or offered, and is
\* selected once.
LEMMA SelectedAre ==
  ASSUME MappingInv, NEW selected \in Selections
  PROVE  /\ \E T : selected \in Seq(T)
         /\ \A i, j \in DOMAIN selected : selected[i] = selected[j] => i = j
         /\ \A i \in DOMAIN selected :
              \/ selected[i] \in form.offered
              \/ \E j \in DOMAIN form.mapping : selected[i] = form.mapping[j].source
  <1>1. PICK S : form.mapping \in Seq(S)
    BY DEF MappingInv
  <1>2. PICK now : now = Sources(form.mapping)
    OBVIOUS
  <1>3. PICK T : now \in Seq(T)
    BY <1>1, <1>2, SourcesAre
  <1>4. /\ Len(now) \in Nat /\ DOMAIN now = 1..Len(now) /\ DOMAIN now = DOMAIN form.mapping
        /\ \A i \in DOMAIN now : now[i] = form.mapping[i].source
        /\ \A i, j \in DOMAIN now : now[i] = now[j] => i = j
    <2>1. /\ Len(now) \in Nat /\ DOMAIN now = 1..Len(now) /\ DOMAIN now = DOMAIN form.mapping
          /\ \A i \in DOMAIN now : now[i] = form.mapping[i].source
      BY <1>1, <1>2, <1>3, SourcesAre, LenProperties
    <2> QED
      BY <2>1 DEF MappingInv, Distinct
  <1>5. ASSUME NEW db \in form.offered, db \notin ToSet(now), selected = Append(now, db)
        PROVE  /\ \E U : selected \in Seq(U)
               /\ \A i, j \in DOMAIN selected : selected[i] = selected[j] => i = j
               /\ \A i \in DOMAIN selected : selected[i] = db \/ \E j \in DOMAIN now : selected[i] = now[j]
    <2>1. PICK U : U = T \cup {db}
      OBVIOUS
    <2>2. now \in Seq(U) /\ db \in U
      BY <1>3, <2>1, SeqMonotonic
    <2>3. /\ selected \in Seq(U) /\ DOMAIN selected = 1..(Len(now) + 1)
          /\ selected[Len(now) + 1] = db /\ \A i \in 1..Len(now) : selected[i] = now[i]
      BY <1>5, <2>2, AppendProperties, LenProperties
    <2>4. \A i \in 1..(Len(now) + 1) : i \in 1..Len(now) \/ i = Len(now) + 1
      BY <1>4
    <2>5. \A i \in 1..Len(now) : now[i] # db
      BY <1>4, <1>5 DEF ToSet
    <2> QED
      BY <1>4, <2>3, <2>4, <2>5
  <1>6. ASSUME NEW k \in DOMAIN now, selected = RemoveAt(now, k)
        PROVE  /\ \E U : selected \in Seq(U)
               /\ \A i, j \in DOMAIN selected : selected[i] = selected[j] => i = j
               /\ \A i \in DOMAIN selected : \E j \in DOMAIN now : selected[i] = now[j]
    <2>1. PICK n \in Nat : n = Len(now)
      BY <1>4
    <2>2. /\ selected \in Seq(T) /\ DOMAIN selected = 1..(n - 1)
          /\ \A i \in 1..(n - 1) : selected[i] = IF i < k THEN now[i] ELSE now[i + 1]
      <3>1. k \in 1..Len(now)
        BY <1>4
      <3>2. /\ selected \in Seq(T) /\ Len(selected) = Len(now) - 1
            /\ \A i \in 1..(Len(now) - 1) : selected[i] = IF i < k THEN now[i] ELSE now[i + 1]
        BY <1>3, <1>6, <3>1, RemovedAre
      <3> QED
        BY <2>1, <3>2, LenProperties
    <2>3. \A i \in 1..(n - 1) : i \in 1..n /\ i + 1 \in 1..n
      BY <2>1
    <2>4. k \in 1..n /\ DOMAIN now = 1..n
      BY <1>4, <2>1
    <2>5. ASSUME NEW i \in 1..(n - 1), NEW j \in 1..(n - 1), selected[i] = selected[j]
          PROVE  i = j
      <3>1. PICK a \in 1..n : selected[i] = now[a] /\ a = IF i < k THEN i ELSE i + 1
        BY <2>2, <2>3
      <3>2. PICK b \in 1..n : selected[j] = now[b] /\ b = IF j < k THEN j ELSE j + 1
        BY <2>2, <2>3
      <3>3. a = b
        BY <1>4, <2>4, <2>5, <3>1, <3>2
      <3> QED
        BY <2>1, <2>4, <3>1, <3>2, <3>3
    <2> QED
      BY <2>2, <2>3, <2>4, <2>5
  <1>7. CASE selected = <<>>
    <2>1. selected \in Seq({}) /\ DOMAIN selected = {}
      BY <1>7
    <2> QED
      BY <2>1
  <1>8. \/ \E db \in form.offered : db \notin ToSet(now) /\ selected = Append(now, db)
        \/ \E k \in DOMAIN now : selected = RemoveAt(now, k)
        \/ selected = <<>>
    BY <1>2 DEF Selections
  <1> QED
    BY <1>4, <1>5, <1>6, <1>7, <1>8

LEMMA MappingSelected ==
  ASSUME MappingInv, Select
  PROVE  MappingInv'
  <1>1. PICK selected \in Selections : form' = [form EXCEPT !.mapping = BuildMapping(selected, form.mapping)]
    BY DEF Select, MappingInv, Form
  <1>2. PICK T : selected \in Seq(T)
    BY SelectedAre
  <1>3. PICK m : m = BuildMapping(selected, form.mapping)
    OBVIOUS
  <1>4. DOMAIN m = DOMAIN selected /\ \A i \in DOMAIN m : PairRec(m[i]) /\ m[i].source = selected[i]
    BY <1>3 DEF BuildMapping, PairRec
  <1>5. PICK R : R = {m[i] : i \in DOMAIN m}
    OBVIOUS
  <1>6. m \in Seq(R)
    <2>1. DOMAIN m = 1..Len(selected) /\ Len(selected) \in Nat
      BY <1>2, <1>4, LenProperties
    <2>2. m \in [1..Len(selected) -> R]
      BY <1>3, <1>5, <2>1, <1>4 DEF BuildMapping
    <2> QED
      BY <2>1, <2>2, SeqDef
  <1>7. /\ form'.mapping = m /\ form'.source = form.source /\ form'.offered = form.offered
        /\ Form(form') /\ crossed' = crossed
    BY <1>1, <1>3 DEF Select, MappingInv, Form
  <1>8. ~crossed /\ form.source \in Connection => \A i \in DOMAIN m : m[i].source \in Databases[form.source]
    BY <1>4, SelectedAre DEF MappingInv
  <1>9. Distinct(m)
    BY <1>4, SelectedAre DEF Distinct
  <1> QED
    BY <1>4, <1>6, <1>7, <1>8, <1>9 DEF MappingInv

LEMMA MappingUpdated ==
  ASSUME MappingInv, NEW i, NEW name, UpdateTarget(i, name)
  PROVE  MappingInv'
  <1>1. PICK S : form.mapping \in Seq(S)
    BY DEF MappingInv
  <1>2. i \in DOMAIN form.mapping /\ crossed' = crossed
    BY DEF UpdateTarget
  <1>3. PICK p : p = form.mapping[i]
    OBVIOUS
  <1>4. PairRec(p)
    BY <1>2, <1>3 DEF MappingInv
  <1>5. PICK q : q = [p EXCEPT !.target = name]
    OBVIOUS
  <1>6. q = [source |-> p.source, target |-> name]
    BY <1>4, <1>5 DEF PairRec
  <1>7. PairRec(q) /\ q.source = p.source
    BY <1>6 DEF PairRec
  <1>8. PICK m : m = [form.mapping EXCEPT ![i] = q]
    OBVIOUS
  <1>9. form' = [form EXCEPT !.mapping = m]
    BY <1>3, <1>5, <1>8 DEF UpdateTarget
  <1>10. /\ form'.mapping = m /\ form'.source = form.source /\ form'.offered = form.offered
         /\ Form(form')
    BY <1>9 DEF MappingInv, Form
  <1>11. PICK T : T = S \cup {q}
    OBVIOUS
  <1>12. m \in Seq(T)
    <2>1. form.mapping \in [1..Len(form.mapping) -> S] /\ Len(form.mapping) \in Nat
      BY <1>1, LenProperties
    <2>2. m \in [1..Len(form.mapping) -> T]
      BY <1>8, <1>11, <2>1
    <2> QED
      BY <2>1, <2>2, SeqDef
  <1>13. DOMAIN m = DOMAIN form.mapping /\ \A j \in DOMAIN m : m[j] = IF j = i THEN q ELSE form.mapping[j]
    BY <1>1, <1>2, <1>8
  <1>14. \A j \in DOMAIN m : PairRec(m[j]) /\ m[j].source = form.mapping[j].source
    BY <1>3, <1>7, <1>13 DEF MappingInv
  <1>15. ~crossed /\ form.source \in Connection => \A j \in DOMAIN m : m[j].source \in Databases[form.source]
    BY <1>13, <1>14 DEF MappingInv
  <1>16. Distinct(m)
    BY <1>13, <1>14 DEF MappingInv, Distinct
  <1> QED
    BY <1>2, <1>10, <1>12, <1>14, <1>15, <1>16 DEF MappingInv

LEMMA MappingEmptied ==
  ASSUME Form(form'), form'.mapping = <<>>, form'.offered = {}
  PROVE  MappingInv'
  <1>1. form'.mapping \in Seq({}) /\ DOMAIN form'.mapping = {}
    OBVIOUS
  <1> QED
    BY <1>1 DEF MappingInv, Distinct

LEMMA MappingKept == MappingInv /\ [Next]_vars => MappingInv'
  <1>1. MappingInv /\ UNCHANGED <<form, crossed>> => MappingInv'
    BY DEF MappingInv, Form, PairRec, Distinct
  <1>2. ASSUME MappingInv, NEW c \in Connection, ListAnswers(c)
        PROVE  MappingInv'
    <2>1. CASE form' = form
      BY <1>2, <2>1 DEF ListAnswers, MappingInv, Form, PairRec
    <2>2. CASE form' = [form EXCEPT !.offered = Databases[c]]
      <3>1. /\ form'.mapping = form.mapping /\ form'.source = form.source
            /\ form'.offered = Databases[c] /\ Form(form')
        BY <1>2, <2>2 DEF MappingInv, Form
      <3>2. ~crossed' => ~crossed /\ c = form.source
        BY <1>2 DEF ListAnswers
      <3> QED
        BY <1>2, <3>1, <3>2 DEF MappingInv, Distinct
    <2> QED
      BY <1>2, <2>1, <2>2 DEF ListAnswers
  <1>3. ASSUME NEW c \in Connection, ChooseSource(c)
        PROVE  MappingInv'
    BY <1>3, MappingEmptied DEF ChooseSource, Form
  <1>4. ASSUME MappingInv, NEW call, CallStep(call)
        PROVE  MappingInv'
    <2>1. CASE form' = form
      BY <1>1, <1>4, <2>1 DEF CallStep, Create, CreateRefuses, StartTask, RequestLost
    <2>2. CASE form' = [source |-> Closed, offered |-> {}, mapping |-> <<>>]
      BY <2>2, MappingEmptied DEF Form
    <2> QED
      BY <1>4, <2>1, <2>2 DEF CallStep, Create, CreateRefuses, StartTask, RequestLost
  <1>5. MappingInv /\ FormNext => MappingInv'
    BY <1>1, <1>2, <1>3, <1>4, MappingSelected, MappingUpdated
       DEF FormNext, ListFails, Start, ClientStart
  <1> QED
    BY <1>1, <1>5 DEF Next, vars, formVars

(***************************************************************************)
(* What the form sends: the filled pairs of its mapping, which it has      *)
(* validated, for the source that is chosen.                               *)
(***************************************************************************)
CallRec(call) == call = [pc |-> call.pc, by |-> call.by, input |-> call.input, task |-> call.task]

Accepted(pairs) ==
  /\ pairs # <<>> /\ \A i \in DOMAIN pairs : Filled(pairs[i])
  /\ IsInjective(Sources(pairs)) /\ IsInjective(Targets(pairs))

SentInv ==
  \A call \in calls :
    /\ CallRec(call)
    /\ call.by = "form" =>
         /\ Accepted(call.input.databases)
         /\ ~crossed => \A i \in DOMAIN call.input.databases :
                          call.input.databases[i].source \in Databases[call.input.source]

\* The form's check is enough for the service's, and the filter invents
\* nothing.
LEMMA ValidIsAccepted ==
  ASSUME NEW S, NEW mapping \in Seq(S), Distinct(mapping), ValidMapping(FilledPairs(mapping))
  PROVE  /\ Accepted(FilledPairs(mapping))
         /\ \A k \in DOMAIN FilledPairs(mapping) :
              \E i \in DOMAIN mapping : FilledPairs(mapping)[k] = mapping[i]
  <1>1. PICK sub : sub = FilledPairs(mapping)
    OBVIOUS
  <1>2. PICK n \in Nat : n = Len(mapping) /\ DOMAIN mapping = 1..n
    BY LenProperties
  <1>3. Picks(sub, mapping, n, S)
    BY <1>1, <1>2, FilteredPairs
  <1>4. PICK m \in Nat : m = Len(sub) /\ DOMAIN sub = 1..m
    BY <1>3, LenProperties DEF Picks
  <1>5. PICK from \in [1..m -> 1..n] :
          /\ \A k, l \in 1..m : k < l => from[k] < from[l]
          /\ \A k \in 1..m : sub[k] = mapping[from[k]] /\ Filled(sub[k])
    BY <1>3, <1>4 DEF Picks
  <1>6. FilledPairs(sub) = sub
    BY <1>3, <1>4, <1>5, FilledStay DEF Picks
  <1>7. sub # <<>> /\ IsInjective(Targets(sub))
    BY <1>1, <1>6 DEF ValidMapping
  <1>8. ASSUME NEW k \in 1..m, NEW l \in 1..m, sub[k].source = sub[l].source
        PROVE  k = l
    <2>1. from[k] \in 1..n /\ from[l] \in 1..n
      BY <1>5
    <2>2. from[k] = from[l]
      BY <1>2, <1>5, <1>8, <2>1 DEF Distinct
    <2>3. ~(k < l) /\ ~(l < k)
      BY <1>5, <2>1, <2>2
    <2> QED
      BY <2>3
  <1>9. IsInjective(Sources(sub))
    BY <1>4, <1>8 DEF IsInjective, Sources
  <1>10. Accepted(sub)
    BY <1>4, <1>5, <1>7, <1>9 DEF Accepted
  <1>11. \A k \in 1..m : from[k] \in 1..n /\ sub[k] = mapping[from[k]]
    BY <1>5
  <1> QED
    BY <1>1, <1>2, <1>4, <1>10, <1>11

LEMMA StartSends ==
  ASSUME MappingInv, NEW c, Start(c)
  PROVE  SentInv'
  <1>1. PICK S : form.mapping \in Seq(S)
    BY DEF MappingInv
  <1>2. PICK pairs : pairs = FilledPairs(form.mapping)
    OBVIOUS
  <1>3. /\ Accepted(pairs)
        /\ \A k \in DOMAIN pairs : \E i \in DOMAIN form.mapping : pairs[k] = form.mapping[i]
    BY <1>1, <1>2, ValidIsAccepted DEF Start, MappingInv
  <1>4. PICK input : input = [source |-> form.source, target |-> c, databases |-> pairs,
                              legacy |-> NoPair]
    OBVIOUS
  <1>5. input.databases = pairs /\ input.source = form.source
    BY <1>4
  <1>6. PICK call : call = NewCall(input, "form")
    OBVIOUS
  <1>7. CallRec(call) /\ call.input = input
    BY <1>6 DEF NewCall, CallRec
  <1>8. calls' = {call} /\ form.source \in Connection /\ crossed' = crossed
    BY <1>2, <1>4, <1>6 DEF Start
  <1>9. ~crossed => \A k \in DOMAIN pairs : pairs[k].source \in Databases[form.source]
    BY <1>3, <1>8 DEF MappingInv
  <1> QED
    BY <1>3, <1>5, <1>7, <1>8, <1>9 DEF SentInv

LEMMA CallKeepsSent ==
  ASSUME SentInv, NEW call \in calls, CallStep(call)
  PROVE  SentInv'
  <1>1. PICK next : next = [call EXCEPT !.pc = "start", !.task = Len(rows) + 1]
    OBVIOUS
  <1>2. next = [pc |-> "start", by |-> call.by, input |-> call.input, task |-> Len(rows) + 1]
    <2>1. CallRec(call)
      BY DEF SentInv
    <2> QED
      BY <1>1, <2>1 DEF CallRec
  <1>3. CallRec(next) /\ next.by = call.by /\ next.input = call.input
    BY <1>2 DEF CallRec
  <1>4. calls' \subseteq calls \cup {next} /\ crossed' = crossed
    BY <1>1 DEF CallStep, Create, CreateRefuses, StartTask, RequestLost
  <1> QED
    BY <1>3, <1>4 DEF SentInv

LEMMA SentKept == MappingInv /\ SentInv /\ [Next]_vars => SentInv'
  <1>1. SentInv /\ calls' = calls /\ (~crossed' => ~crossed) => SentInv'
    BY DEF SentInv
  <1>2. ASSUME NEW input, ClientStart(input)
        PROVE  SentInv'
    <2>1. PICK call : call = NewCall(input, "client")
      OBVIOUS
    <2>2. CallRec(call) /\ call.by = "client" /\ calls' = {call}
      BY <1>2, <2>1 DEF NewCall, CallRec, ClientStart
    <2> QED
      BY <2>2 DEF SentInv
  <1>3. MappingInv /\ SentInv /\ FormNext => SentInv'
    <2> SUFFICES ASSUME MappingInv, SentInv, FormNext PROVE SentInv'
      OBVIOUS
    <2>1. ASSUME NEW c, ChooseSource(c) \/ ListAnswers(c) \/ ListFails(c)
          PROVE  SentInv'
      <3>1. calls' = calls /\ (~crossed' => ~crossed)
        <4>1. ListAnswers(c) => calls' = calls
          BY DEF ListAnswers
        <4>2. ListAnswers(c) => (~crossed' => ~crossed)
          BY DEF ListAnswers
        <4> QED
          BY <2>1, <4>1, <4>2 DEF ChooseSource, ListFails
      <3> QED
        BY <1>1, <3>1
    <2>2. ASSUME Select \/ \E i, name : UpdateTarget(i, name)
          PROVE  SentInv'
      <3>1. calls' = calls /\ (~crossed' => ~crossed)
        BY <2>2 DEF Select, UpdateTarget
      <3> QED
        BY <1>1, <3>1
    <2> QED
      BY <1>2, <2>1, <2>2, StartSends, CallKeepsSent DEF FormNext
  <1> QED
    BY <1>1, <1>3 DEF Next, vars, formVars

LEMMA MappingInit == Init => MappingInv /\ SentInv
  <1> SUFFICES ASSUME Init PROVE MappingInv /\ SentInv
    OBVIOUS
  <1>1. form.mapping = <<>> /\ form.offered = {} /\ Form(form) /\ calls = {}
    BY DEF Init, FormInit, ClientInit, Form
  <1>2. form.mapping \in Seq({}) /\ DOMAIN form.mapping = {}
    BY <1>1
  <1> QED
    BY <1>1, <1>2 DEF MappingInv, SentInv, Distinct

\* Whichever form of the mapping a client uses, its worker reads the pairs
\* that resolveDatabasePairs made of it, through the row and two fallbacks;
\* and what the form sends, after its filter and its check, the service's own
\* check neither refuses nor changes.
THEOREM MappingsArrive == Spec => []WorkerGetsMapping
  <1>1. RowsInv => RowsMapped
    BY DEF RowsInv, Mapped, RowsMapped
  <1>2. SentInv => FormIsAccepted
    BY DEF SentInv, Accepted, FormIsAccepted, ResolveDatabasePairs
  <1> QED
    BY <1>1, <1>2, RowsInit, RowsNext, MappingInit, MappingKept, SentKept, PTL
       DEF Spec, WorkerGetsMapping

\* Unless a list came late, the mapping names databases of the source that is
\* chosen, and of the source it was sent for: in the form, and in every
\* submission, with what the user has edited and the filter has left out.
THEOREM SourcesBelongCorrect == Spec => []SourcesBelong
  <1>1. MappingInv => (~crossed => FormBelongs)
    <2> SUFFICES ASSUME MappingInv, ~crossed, form.source \in Connection
                 PROVE  ToSet(Sources(form.mapping)) \subseteq Databases[form.source]
      BY DEF FormBelongs
    <2>1. PICK S : form.mapping \in Seq(S)
      BY DEF MappingInv
    <2>2. \A i \in DOMAIN form.mapping : form.mapping[i].source \in Databases[form.source]
      BY DEF MappingInv
    <2> QED
      BY <2>1, <2>2, SourcesAre DEF ToSet
  <1>2. SentInv => (~crossed => CallsBelong)
    <2> SUFFICES ASSUME SentInv, ~crossed, NEW call \in calls, call.by = "form"
                 PROVE  ToSet(Sources(call.input.databases)) \subseteq Databases[call.input.source]
      BY DEF CallsBelong
    <2>1. PICK pairs : pairs = call.input.databases
      OBVIOUS
    <2>2. \A i \in DOMAIN pairs : pairs[i].source \in Databases[call.input.source]
      BY <2>1 DEF SentInv
    <2> QED
      BY <2>1, <2>2 DEF ToSet, Sources
  <1> QED
    BY <1>1, <1>2, MappingInit, MappingKept, SentKept, PTL DEF Spec, SourcesBelong

(***************************************************************************)
(* The page of a task.  A page that is not loaded drops the events it      *)
(* receives, so it must be polling still, and no GET on its way may bring  *)
(* a terminal status that has been left: a terminal status is left only by *)
(* a retry, and this page's user can only retry once it is loaded.         *)
(***************************************************************************)
OnlyOwnRetries == \A w \in Writer : StatusOf[w] = "QUEUED" => w \in Own

Written == {updates[i] : i \in 1..Latest}

PageTypes ==
  /\ updates \in Seq(Writer)
  /\ \A i, j \in 1..Latest : updates[i] = updates[j] => i = j
  /\ announcing \subseteq Written
  /\ page \in [loaded: BOOLEAN, version: Nat, newest: Nat, polling: BOOLEAN]
  /\ page.newest <= Latest
  /\ gets \in [Get -> [pc: {"none", "sent", "read"}, version: Nat]]
  /\ \A g \in Get : gets[g].version <= Latest
  /\ stream \in [connected: BOOLEAN, events: Seq(Writer)]
  /\ ToSet(stream.events) \subseteq Written
  /\ ~stream.connected => stream.events = <<>>
  /\ ~page.loaded => page.polling

\* Until now the row has left no terminal status.
FirstRun == \A i \in 1..Latest : i # Latest => StatusAt(i) \notin Final

\* How the page will still hear of what w, the last one, has written.
WillHear(w) ==
  \/ page.newest = Latest
  \/ w \in announcing
  \/ w \in ToSet(stream.events)
  \/ /\ w \in Own
     /\ gets[w].pc = "sent" \/ (gets[w].pc = "read" /\ gets[w].version = Latest)
  \/ page.polling /\ FirstRun

Heard ==
  Latest > 0 /\ updates[Latest] \in (Announcer \cup Own) \ missed => WillHear(updates[Latest])

PageInv ==
  /\ PageTypes
  /\ ~page.loaded => FirstRun
  /\ Heard

LEMMA PageFacts ==
  ASSUME PageTypes
  PROVE  /\ Latest \in Nat /\ DOMAIN updates = 1..Latest
         /\ \A i \in 1..Latest : updates[i] \in Writer
         /\ Written \subseteq Writer /\ StatusAt(0) = "QUEUED"
  BY LenProperties DEF PageTypes, Latest, Written, StatusAt

LEMMA VersionRight ==
  ASSUME PageTypes, NEW w \in Written
  PROVE  /\ VersionOf(w) \in 1..Latest
         /\ Latest > 0 /\ w = updates[Latest] => VersionOf(w) = Latest
  <1>1. \E i \in 1..Latest : updates[i] = w
    BY DEF Written
  <1>2. VersionOf(w) \in 1..Latest /\ updates[VersionOf(w)] = w
    BY <1>1 DEF VersionOf
  <1>3. Latest > 0 => Latest \in 1..Latest
    BY PageFacts
  <1> QED
    BY <1>2, <1>3 DEF PageTypes

\* A row that is not written to.
LEMMA SameRow ==
  ASSUME updates' = updates
  PROVE  /\ Latest' = Latest /\ Written' = Written /\ (FirstRun' <=> FirstRun)
  BY DEF Latest, Written, FirstRun, StatusAt

\* What a page shows in the end.
LEMMA Shown ==
  ASSUME PageTypes, NEW v \in Nat, v <= Latest, Shows(v)
  PROVE  /\ page' \in [loaded: BOOLEAN, version: Nat, newest: Nat, polling: BOOLEAN]
         /\ page'.loaded /\ page'.newest <= Latest
         /\ v = Latest => page'.newest = Latest
         /\ page.newest = Latest => page'.newest = Latest
         /\ page.polling /\ FirstRun => page'.newest = Latest \/ page'.polling
  <1>1. PICK n : n = IF v > page.newest THEN v ELSE page.newest
    OBVIOUS
  <1>2. /\ page.newest \in Nat /\ page.newest <= Latest /\ Latest \in Nat
        /\ page.polling \in BOOLEAN
    BY PageFacts DEF PageTypes
  <1>3. /\ n \in Nat /\ n <= Latest /\ (v = Latest => n = Latest)
        /\ page.newest = Latest => n = Latest
    BY <1>1, <1>2
  <1>4. PICK b : b = (page.polling /\ StatusAt(v) \notin Final)
    OBVIOUS
  <1>5. b \in BOOLEAN
    BY <1>4
  <1>6. page' = [loaded |-> TRUE, version |-> v, newest |-> n, polling |-> b]
    BY <1>1, <1>4 DEF Shows
  <1>7. page.polling /\ FirstRun /\ v # Latest => b
    <2>1. SUFFICES ASSUME page.polling, FirstRun, v # Latest PROVE StatusAt(v) \notin Final
      BY <1>4
    <2>2. CASE v = 0
      BY <2>2, PageFacts DEF Final
    <2>3. CASE v # 0
      BY <1>2, <2>1, <2>3 DEF FirstRun
    <2> QED
      BY <2>2, <2>3
  <1> QED
    BY <1>3, <1>5, <1>6, <1>7

LEMMA WriteKeeps ==
  ASSUME OnlyOwnRetries, PageInv, NEW w \in Writer, OthersWrite(w) \/ Act(w) \/ ActUnanswered(w)
  PROVE  PageInv'
  <1>0. /\ PageTypes /\ updates \in Seq(Writer) /\ Latest \in Nat
        /\ page.newest \in Nat /\ page.newest <= Latest
        /\ gets \in [Get -> [pc: {"none", "sent", "read"}, version: Nat]]
    BY PageFacts DEF PageInv, PageTypes
  <1>1. Changes(w) /\ UNCHANGED <<page, stream>>
    BY DEF OthersWrite, Act, ActUnanswered
  <1>2. w \in Own => page.loaded
    BY DEF OthersWrite, Act, ActUnanswered, Offered
  <1>3. PICK u : u = updates'
    OBVIOUS
  <1>4. PICK n : n = Latest
    OBVIOUS
  <1>5. /\ u \in Seq(Writer) /\ Len(u) = n + 1 /\ n \in Nat /\ u[n + 1] = w
        /\ \A i \in 1..n : u[i] = updates[i]
    BY <1>0, <1>1, <1>3, <1>4, AppendProperties DEF Changes, Latest
  <1>6. \A i \in 1..(n + 1) : i \in 1..n \/ i = n + 1
    BY <1>5
  <1>7. /\ n + 1 \in 1..(n + 1) /\ n + 1 \notin 1..n /\ n + 1 > 0 /\ n <= n + 1
        /\ \A i \in 1..n : i \in 1..(n + 1) /\ i # n + 1
        /\ \A k \in Nat : k <= n => k <= n + 1
    BY <1>5
  <1>8. Latest' = n + 1
    BY <1>3, <1>5 DEF Latest
  <1>9. Written' = Written \cup {w} /\ w \notin Written
    <2>1. w \notin Written
      BY <1>1 DEF Changes, Written
    <2>2. Written' = {u[i] : i \in 1..(n + 1)}
      BY <1>3, <1>8 DEF Written
    <2>3. Written = {u[i] : i \in 1..n}
      BY <1>4, <1>5 DEF Written
    <2> QED
      BY <1>5, <1>6, <1>7, <2>1, <2>2, <2>3
  <1>10. \A i, j \in 1..(n + 1) : u[i] = u[j] => i = j
    <2>1. \A i \in 1..n : u[i] # w
      BY <1>4, <1>5, <1>9 DEF Written
    <2>2. \A i, j \in 1..n : u[i] = u[j] => i = j
      BY <1>0, <1>4, <1>5 DEF PageTypes
    <2> QED
      BY <1>5, <1>6, <2>1, <2>2
  <1>11. /\ gets' \in [Get -> [pc: {"none", "sent", "read"}, version: Nat]]
         /\ \A g \in Get : gets'[g].version = gets[g].version
         /\ Act(w) => gets'[w].pc = "sent"
    <2>1. CASE gets' = gets
      <3>1. ~Act(w) \/ gets'[w].pc = "sent"
        <4> SUFFICES ASSUME Act(w) PROVE gets'[w].pc = "sent"
          OBVIOUS
        <4>1. w \in Get
          BY DEF Act, Get
        <4> QED
          BY <1>0, <4>1 DEF Act
      <3> QED
        BY <1>0, <2>1, <3>1
    <2>2. CASE Act(w)
      <3>1. PICK q : q = [gets[w] EXCEPT !.pc = "sent"]
        OBVIOUS
      <3>2. w \in Get /\ gets' = [gets EXCEPT ![w] = q]
        BY <1>0, <2>2, <3>1 DEF Act, Get
      <3>3. /\ q \in [pc: {"none", "sent", "read"}, version: Nat]
            /\ q.pc = "sent" /\ q.version = gets[w].version
        BY <1>0, <3>1, <3>2
      <3> QED
        BY <1>0, <3>2, <3>3
    <2> QED
      BY <2>1, <2>2 DEF OthersWrite, ActUnanswered
  <1>12. PageTypes'
    <2>1. announcing' \subseteq Written'
      BY <1>0, <1>1, <1>9 DEF PageTypes, Changes
    <2>2. \A g \in Get : gets'[g].version <= n + 1
      BY <1>0, <1>4, <1>7, <1>11 DEF PageTypes
    <2>3. page.newest <= n + 1
      BY <1>0, <1>4, <1>7
    <2>4. ToSet(stream.events) \subseteq Written'
      BY <1>0, <1>9 DEF PageTypes
    <2> QED
      BY <1>0, <1>1, <1>3, <1>5, <1>8, <1>10, <1>11, <2>1, <2>2, <2>3, <2>4 DEF PageTypes
  <1>13. (~page.loaded => FirstRun)'
    <2> SUFFICES ASSUME ~page.loaded, NEW i \in 1..n
                 PROVE  StatusAt(i)' \notin Final
      BY <1>1, <1>6, <1>8 DEF FirstRun
    <2>1. StatusAt(i)' = StatusAt(i)
      BY <1>3, <1>5 DEF StatusAt
    <2>2. CASE i # n
      BY <1>4, <2>1, <2>2 DEF PageInv, FirstRun
    <2>3. CASE i = n
      <3>1. StatusOf[w] # "QUEUED"
        BY <1>2 DEF OnlyOwnRetries
      <3>2. StatusAt(Latest) \in {"QUEUED", "PREPARING", "RUNNING"}
        BY <1>1, <3>1 DEF Changes, Accepts
      <3> QED
        BY <1>4, <2>1, <2>3, <3>2 DEF Final
    <2> QED
      BY <2>2, <2>3
  <1>14. Heard'
    <2> SUFFICES ASSUME w \in (Announcer \cup Own) \ missed'
                 PROVE  WillHear(w)'
      BY <1>3, <1>5, <1>8 DEF Heard
    <2>1. CASE w \in Announcer
      BY <1>1, <2>1 DEF Changes, WillHear
    <2>2. CASE w \in Own
      <3>1. Act(w)
        BY <2>2 DEF OthersWrite, ActUnanswered
      <3> QED
        BY <1>11, <2>2, <3>1 DEF WillHear
    <2> QED
      BY <2>1, <2>2
  <1> QED
    BY <1>12, <1>13, <1>14 DEF PageInv

LEMMA AnnounceKeeps ==
  ASSUME PageInv, NEW v \in Writer, Announce(v)
  PROVE  PageInv'
  <1>0. /\ PageTypes /\ stream \in [connected: BOOLEAN, events: Seq(Writer)]
        /\ v \in Written /\ announcing' = announcing \ {v}
        /\ UNCHANGED <<updates, page, gets, failures>>
    BY DEF PageInv, PageTypes, Announce
  <1>1. \/ /\ stream' \in [connected: BOOLEAN, events: Seq(Writer)]
           /\ stream'.connected /\ missed' = missed
           /\ \A e : e \in ToSet(stream'.events) <=> e \in ToSet(stream.events) \/ e = v
        \/ stream' = stream /\ missed' = missed \cup {v}
    <2>1. CASE stream.connected /\ Len(stream.events) < EventBuffer
      <3>1. PICK s : s = Append(stream.events, v)
        OBVIOUS
      <3>2. s \in Seq(Writer) /\ \A e : e \in ToSet(s) <=> e \in ToSet(stream.events) \/ e = v
        <4>1. /\ s \in Seq(Writer) /\ Len(s) = Len(stream.events) + 1 /\ Len(stream.events) \in Nat
              /\ DOMAIN s = 1..(Len(stream.events) + 1) /\ s[Len(stream.events) + 1] = v
              /\ DOMAIN stream.events = 1..Len(stream.events)
              /\ \A i \in 1..Len(stream.events) : s[i] = stream.events[i]
          BY <1>0, <3>1, AppendProperties, LenProperties
        <4>2. \A i : i \in DOMAIN s <=> i \in DOMAIN stream.events \/ i = Len(stream.events) + 1
          BY <4>1
        <4> QED
          BY <4>1, <4>2 DEF ToSet
      <3>3. stream' = [stream EXCEPT !.events = s] /\ missed' = missed
        BY <1>0, <2>1, <3>1 DEF Announce
      <3> QED
        BY <1>0, <2>1, <3>2, <3>3
    <2> QED
      BY <2>1 DEF Announce
  <1>2. PageTypes'
    BY <1>0, <1>1, SameRow DEF PageTypes
  <1>3. Heard'
    <2> SUFFICES ASSUME NEW w, w = updates[Latest], Latest > 0, w \in (Announcer \cup Own) \ missed'
                 PROVE  WillHear(w)'
      BY <1>0, SameRow DEF Heard
    <2>1. WillHear(w)
      BY <1>1 DEF PageInv, Heard
    <2> QED
      BY <1>0, <1>1, <2>1, SameRow DEF WillHear
  <1> QED
    BY <1>0, <1>2, <1>3, SameRow DEF PageInv

LEMMA AskKeeps ==
  ASSUME PageInv, NEW g \in Get, (g \in Poll /\ SendPoll(g)) \/ ReadTask(g)
  PROVE  PageInv'
  <1>0. /\ PageTypes /\ Latest \in Nat
        /\ gets \in [Get -> [pc: {"none", "sent", "read"}, version: Nat]]
        /\ UNCHANGED <<updates, announcing, page, stream, missed, failures>>
    BY PageFacts DEF PageInv, PageTypes, SendPoll, ReadTask
  <1>1. PICK q : q = IF gets[g].pc = "sent" THEN [pc |-> "read", version |-> Latest]
                     ELSE [gets[g] EXCEPT !.pc = "sent"]
    OBVIOUS
  <1>2. gets' = [gets EXCEPT ![g] = q]
    <2>1. CASE ReadTask(g)
      BY <1>1, <2>1 DEF ReadTask
    <2>2. CASE SendPoll(g)
      BY <1>0, <1>1, <2>2 DEF SendPoll
    <2> QED
      BY <2>1, <2>2
  <1>3. /\ q \in [pc: {"none", "sent", "read"}, version: Nat] /\ q.version <= Latest
        /\ gets[g].pc = "sent" => q.pc = "read" /\ q.version = Latest
        /\ gets[g].pc # "read"
    <2>1. CASE gets[g].pc = "sent"
      BY <1>0, <1>1, <2>1
    <2>2. CASE gets[g].pc # "sent"
      <3>1. SendPoll(g)
        BY <2>2 DEF ReadTask
      <3>2. q = [gets[g] EXCEPT !.pc = "sent"]
        BY <1>1, <2>2
      <3>3. q.version = gets[g].version /\ q \in [pc: {"none", "sent", "read"}, version: Nat]
        BY <1>0, <3>2
      <3> QED
        BY <1>0, <2>2, <3>1, <3>3 DEF PageTypes, SendPoll
    <2> QED
      BY <2>1, <2>2
  <1>4. /\ gets' \in [Get -> [pc: {"none", "sent", "read"}, version: Nat]]
        /\ \A h \in Get : gets'[h] = IF h = g THEN q ELSE gets[h]
    BY <1>0, <1>2, <1>3
  <1>5. PageTypes'
    <2>1. \A h \in Get : gets'[h].version <= Latest
      BY <1>0, <1>3, <1>4 DEF PageTypes
    <2> QED
      BY <1>0, <1>4, <2>1, SameRow DEF PageTypes
  <1>6. Heard'
    <2> SUFFICES ASSUME NEW w, w = updates[Latest], Latest > 0, w \in (Announcer \cup Own) \ missed
                 PROVE  WillHear(w)'
      BY <1>0, SameRow DEF Heard
    <2>1. WillHear(w)
      BY DEF PageInv, Heard
    <2>2. w \in Own => w \in Get
      BY DEF Get
    <2> QED
      BY <1>0, <1>3, <1>4, <2>1, <2>2, SameRow DEF WillHear
  <1> QED
    BY <1>0, <1>5, <1>6, SameRow DEF PageInv

LEMMA AnswerKeeps ==
  ASSUME PageInv, NEW g \in Get, Answer(g) \/ GetFails(g)
  PROVE  PageInv'
  <1>0. /\ PageTypes /\ Latest \in Nat
        /\ gets \in [Get -> [pc: {"none", "sent", "read"}, version: Nat]]
        /\ UNCHANGED <<updates, announcing, stream>> /\ gets' = [gets EXCEPT ![g] = NoGet]
        /\ missed \subseteq missed'
    BY PageFacts DEF PageInv, PageTypes, Answer, GetFails
  <1>1. NoGet \in [pc: {"none", "sent", "read"}, version: Nat] /\ NoGet.version = 0
    BY DEF NoGet
  <1>2. /\ gets' \in [Get -> [pc: {"none", "sent", "read"}, version: Nat]]
        /\ \A h \in Get : gets'[h] = IF h = g THEN NoGet ELSE gets[h]
    BY <1>0, <1>1
  <1>3. \A h \in Get : gets'[h].version <= Latest
    BY <1>0, <1>1, <1>2 DEF PageTypes
  <1>4. gets[g].version \in Nat /\ gets[g].version <= Latest
    BY <1>0 DEF PageTypes
  <1>5. CASE Answer(g)
    <2>1. Shows(gets[g].version)
      BY <1>5 DEF Answer
    <2>2. PageTypes'
      BY <1>0, <1>2, <1>3, <1>4, <2>1, Shown, SameRow DEF PageTypes
    <2>3. Heard'
      <3> SUFFICES ASSUME NEW w, w = updates[Latest], Latest > 0, w \in (Announcer \cup Own) \ missed'
                   PROVE  WillHear(w)'
        BY <1>0, SameRow DEF Heard
      <3>1. WillHear(w)
        BY <1>0 DEF PageInv, Heard
      <3>2. w \in Own => w \in Get
        BY DEF Get
      <3>3. w \in Own /\ g = w => gets[w].pc = "read"
        BY <1>5 DEF Answer
      <3> QED
        BY <1>0, <1>2, <1>4, <2>1, <3>1, <3>2, <3>3, Shown, SameRow DEF WillHear
    <2> QED
      BY <1>0, <1>4, <2>1, <2>2, <2>3, Shown DEF PageInv
  <1>6. CASE GetFails(g)
    <2>1. page' = page /\ (g \in Own => g \in missed')
      BY <1>6 DEF GetFails
    <2>2. PageTypes'
      BY <1>0, <1>2, <1>3, <2>1, SameRow DEF PageTypes
    <2>3. Heard'
      <3> SUFFICES ASSUME NEW w, w = updates[Latest], Latest > 0, w \in (Announcer \cup Own) \ missed'
                   PROVE  WillHear(w)'
        BY <1>0, SameRow DEF Heard
      <3>1. WillHear(w)
        BY <1>0 DEF PageInv, Heard
      <3>2. w \in Own => w \in Get /\ w # g
        BY <2>1 DEF Get
      <3> QED
        BY <1>0, <1>2, <2>1, <3>1, <3>2, SameRow DEF WillHear
    <2> QED
      BY <1>0, <2>1, <2>2, <2>3, SameRow DEF PageInv
  <1> QED
    BY <1>5, <1>6

LEMMA StreamKeeps ==
  ASSUME PageInv, Connect \/ Break
  PROVE  PageInv'
  <1>0. /\ PageTypes /\ UNCHANGED <<updates, announcing, page, gets>> /\ missed \subseteq missed'
        /\ stream \in [connected: BOOLEAN, events: Seq(Writer)]
    BY DEF PageInv, PageTypes, Connect, Break
  <1>1. /\ stream' \in [connected: BOOLEAN, events: Seq(Writer)]
        /\ stream'.events = <<>> /\ ToSet(stream'.events) = {}
    <2>1. <<>> \in Seq(Writer) /\ ToSet(<<>>) = {}
      BY DEF ToSet
    <2>2. PICK b \in BOOLEAN : stream' = [connected |-> b, events |-> <<>>]
      BY DEF Connect, Break
    <2>3. stream'.events = <<>> /\ stream' \in [connected: BOOLEAN, events: Seq(Writer)]
      BY <2>1, <2>2
    <2> QED
      BY <2>1, <2>3
  <1>2. ToSet(stream.events) \subseteq missed'
    <2>1. CASE Connect
      <3>1. stream.events = <<>>
        BY <1>0, <2>1 DEF Connect, PageTypes
      <3> QED
        BY <3>1 DEF ToSet
    <2>2. CASE Break
      BY <2>2 DEF Break, Events, ToSet
    <2> QED
      BY <2>1, <2>2
  <1>3. PageTypes'
    BY <1>0, <1>1, SameRow DEF PageTypes
  <1>4. Heard'
    <2> SUFFICES ASSUME NEW w, w = updates[Latest], Latest > 0, w \in (Announcer \cup Own) \ missed'
                 PROVE  WillHear(w)'
      BY <1>0, SameRow DEF Heard
    <2>1. WillHear(w)
      BY <1>0 DEF PageInv, Heard
    <2> QED
      BY <1>0, <1>2, <2>1, SameRow DEF WillHear
  <1> QED
    BY <1>0, <1>3, <1>4, SameRow DEF PageInv

LEMMA ReceiveKeeps ==
  ASSUME PageInv, Receive
  PROVE  PageInv'
  <1>0. /\ PageTypes /\ UNCHANGED <<updates, announcing, gets, missed>>
        /\ stream \in [connected: BOOLEAN, events: Seq(Writer)] /\ Latest \in Nat
        /\ stream.events \in Seq(Writer) /\ stream.events # <<>>
    BY PageFacts DEF PageInv, PageTypes, Receive
  <1>1. PICK v : v = Head(stream.events)
    OBVIOUS
  <1>2. PICK s : s = Tail(stream.events)
    OBVIOUS
  <1>3. /\ v \in ToSet(stream.events) /\ s \in Seq(Writer)
        /\ \A e \in ToSet(stream.events) : e = v \/ e \in ToSet(s)
        /\ ToSet(s) \subseteq ToSet(stream.events)
    <2>1. /\ Len(stream.events) \in Nat \ {0} /\ DOMAIN stream.events = 1..Len(stream.events)
          /\ v = stream.events[1] /\ s \in Seq(Writer) /\ Len(s) = Len(stream.events) - 1
          /\ DOMAIN s = 1..Len(s) /\ \A i \in 1..Len(s) : s[i] = stream.events[i + 1]
      BY <1>0, <1>1, <1>2, EmptySeq, LenProperties, HeadTailProperties
    <2>2. ASSUME NEW i \in 1..Len(stream.events), i # 1
          PROVE  stream.events[i] \in ToSet(s)
      <3>1. i - 1 \in 1..Len(s) /\ (i - 1) + 1 = i
        BY <2>1, <2>2
      <3>2. s[i - 1] = stream.events[i] /\ i - 1 \in DOMAIN s
        BY <2>1, <3>1
      <3> QED
        BY <3>2 DEF ToSet
    <2>3. \A i \in 1..Len(s) : i + 1 \in 1..Len(stream.events)
      BY <2>1
    <2>4. 1 \in 1..Len(stream.events)
      BY <2>1
    <2> QED
      BY <2>1, <2>2, <2>3, <2>4 DEF ToSet
  <1>4. /\ stream' \in [connected: BOOLEAN, events: Seq(Writer)]
        /\ stream'.events = s /\ stream'.connected = stream.connected
    <2>1. stream' = [stream EXCEPT !.events = s]
      BY <1>2 DEF Receive
    <2> QED
      BY <1>0, <1>3, <2>1
  <1>5. stream.connected
    BY <1>0 DEF PageTypes
  <1>6. PICK n \in Nat : n = VersionOf(v) /\ n <= Latest /\ (Latest > 0 /\ v = updates[Latest] => n = Latest)
    <2>1. v \in Written
      BY <1>0, <1>3 DEF PageTypes
    <2>2. VersionOf(v) \in 1..Latest
      BY <1>0, <2>1, VersionRight
    <2>3. VersionOf(v) \in Nat /\ VersionOf(v) <= Latest
      BY <1>0, <2>2
    <2> QED
      BY <1>0, <2>1, <2>3, VersionRight
  <1>7. CASE page.loaded
    <2>1. Shows(n)
      BY <1>1, <1>6, <1>7 DEF Receive, OnStatus
    <2>2. PageTypes'
      BY <1>0, <1>3, <1>4, <1>5, <1>6, <2>1, Shown, SameRow DEF PageTypes
    <2>3. Heard'
      <3> SUFFICES ASSUME NEW w, w = updates[Latest], Latest > 0, w \in (Announcer \cup Own) \ missed
                   PROVE  WillHear(w)'
        BY <1>0, SameRow DEF Heard
      <3>1. WillHear(w)
        BY <1>0 DEF PageInv, Heard
      <3> QED
        BY <1>0, <1>3, <1>4, <1>6, <2>1, <3>1, Shown, SameRow DEF WillHear
    <2> QED
      BY <1>0, <1>6, <2>1, <2>2, <2>3, Shown DEF PageInv
  <1>8. CASE ~page.loaded
    <2>1. page' = page
      BY <1>8 DEF Receive, OnStatus
    <2>2. PageTypes'
      BY <1>0, <1>3, <1>4, <1>5, <2>1, SameRow DEF PageTypes
    <2>3. page.polling /\ FirstRun
      BY <1>0, <1>8 DEF PageInv, PageTypes
    <2>4. Heard'
      BY <1>0, <2>1, <2>3, SameRow DEF Heard, WillHear
    <2> QED
      BY <1>0, <2>1, <2>2, <2>3, <2>4, SameRow DEF PageInv
  <1> QED
    BY <1>7, <1>8

LEMMA PageStarts == Init => PageInv
  <1> SUFFICES ASSUME Init PROVE PageInv
    OBVIOUS
  <1>1. /\ updates = <<>> /\ announcing = {}
        /\ page = [loaded |-> FALSE, version |-> 0, newest |-> 0, polling |-> TRUE]
        /\ gets = [g \in Get |-> NoGet] /\ stream = [connected |-> FALSE, events |-> <<>>]
    BY DEF Init, PageInit
  <1>2. Latest = 0 /\ 1..0 = {} /\ updates \in Seq(Writer) /\ ToSet(stream.events) = {}
    BY <1>1 DEF Latest, ToSet
  <1>3. NoGet \in [pc: {"none", "sent", "read"}, version: Nat] /\ NoGet.version = 0
    BY DEF NoGet
  <1> QED
    BY <1>1, <1>2, <1>3 DEF PageInv, PageTypes, FirstRun, Heard

LEMMA PageKept ==
  ASSUME OnlyOwnRetries
  PROVE  PageInv /\ [Next]_vars => PageInv'
  <1>1. PageInv /\ UNCHANGED pageVars => PageInv'
    BY DEF PageInv, PageTypes, pageVars, FirstRun, Heard, WillHear, Latest, Written, StatusAt
  <1>2. PageInv /\ PageNext => PageInv'
    <2>1. Poll \subseteq Get
      BY DEF Get
    <2> QED
      BY <2>1, WriteKeeps, AnnounceKeeps, AskKeeps, AnswerKeeps, StreamKeeps, ReceiveKeeps DEF PageNext
  <1> QED
    BY <1>1, <1>2 DEF Next, vars

\* A page that polls no more was told the last status of its row, if it is
\* the only page from which the task is retried: by the GET that stopped the
\* polling, by the event, or by the GET after its user's request.
THEOREM PageSettlesCorrect ==
  ASSUME OnlyOwnRetries
  PROVE  Spec => []PageSettles
  <1>1. PageInv => PageSettles
    <2> SUFFICES ASSUME PageInv, AtRest, Latest > 0, updates[Latest] \in (Announcer \cup Own) \ missed
                 PROVE  page.newest = Latest
      BY DEF PageSettles
    <2>1. WillHear(updates[Latest])
      BY DEF PageInv, Heard
    <2>2. ToSet(stream.events) = {} /\ announcing = {} /\ ~page.polling
      BY DEF AtRest, ToSet
    <2>3. \A g \in Own : gets[g].pc = "none"
      BY DEF AtRest, Get, NoGet
    <2> QED
      BY <2>1, <2>2, <2>3 DEF WillHear
  <1> QED
    BY <1>1, PageStarts, PageKept, PTL DEF Spec
=============================================================================
