---------------------------- MODULE MigrationForm ----------------------------
(***************************************************************************)
(* How a task comes to be: the form that maps source databases to targets  *)
(* and sends it in two requests, any other client of the same API, the     *)
(* service that checks and stores the mapping, and the pairs that the      *)
(* worker reads from the row.                                              *)
(*                                                                         *)
(* The lists of databases are fetched when a source is chosen, and their   *)
(* answers come in any order.  Each request of a submission may be lost,   *)
(* or its answer may: the form then stays, and its user may submit again.  *)
(***************************************************************************)
EXTENDS Naturals, SequencesExt

CONSTANTS
  Connection,   \* ids of the connections
  TypeOf,       \* connection -> its database family
  Databases,    \* connection -> the names of its databases
  Target,       \* the names that users give to target databases
  ClientInputs, \* what clients other than the form submit
  MaxEdits,     \* bound: choices and edits in the form
  MaxLosses     \* bound: requests or answers that are lost

ASSUME MigrationFormAssumption ==
  /\ DOMAIN TypeOf = Connection /\ DOMAIN Databases = Connection
  /\ {"none", "closed"} \cap Connection = {}   \* the marks of a form without a source
  /\ MaxEdits \in Nat /\ MaxLosses \in Nat

VARIABLES
  form,         \* the chosen source, the offered databases, the mapping
  lists,        \* connections whose list of databases is under way
  calls,        \* submissions: the request they wait for, input and task
  rows,         \* migration_tasks
  edits,        \* how often the form was changed
  losses,       \* how much was lost
  crossed       \* observation: a list came for a source no longer chosen

formVars == <<form, lists, calls, rows, edits, losses, crossed>>

Blank == ""
Nobody == "none"
Closed == "closed"
Name == UNION {Databases[c] : c \in Connection} \cup Target
Pair == [source: Name \cup {Blank}, target: Name \cup {Blank}]
NoPair == [source |-> Blank, target |-> Blank]

Sources(pairs) == [i \in DOMAIN pairs |-> pairs[i].source]
Targets(pairs) == [i \in DOMAIN pairs |-> pairs[i].target]
Filled(pair) == pair.source # Blank /\ pair.target # Blank

(***************************************************************************)
(* mapping.ts.                                                             *)
(***************************************************************************)

BuildMapping(selected, prev) ==
  [i \in DOMAIN selected |->
     LET kept == {p \in ToSet(prev) : p.source = selected[i] /\ p.target # Blank} IN
     [source |-> selected[i],
      target |-> IF kept = {} THEN selected[i] ELSE (CHOOSE p \in kept : TRUE).target]]

\* pairs.filter((p) => p.source && p.target), pair by pair.
FilledPairs(pairs) ==
  LET kept[i \in 0..Len(pairs)] ==
        IF i = 0 THEN <<>>
        ELSE IF Filled(pairs[i]) THEN Append(kept[i - 1], pairs[i])
        ELSE kept[i - 1]
  IN  kept[Len(pairs)]

ValidMapping(pairs) ==
  LET valid == FilledPairs(pairs) IN
  valid # <<>> /\ IsInjective(Targets(valid))

(***************************************************************************)
(* The service.  Only the differences of what the clients send are kept:   *)
(* the mapping, and the pair of the time before it.                        *)
(***************************************************************************)

\* Faulty variant: two sources may share a target.
ResolveShared(input) ==
  LET pairs == IF input.databases # <<>> THEN input.databases ELSE <<input.legacy>> IN
  IF (\A i \in DOMAIN pairs : Filled(pairs[i])) /\ IsInjective(Sources(pairs))
  THEN pairs ELSE <<>>

\* resolveDatabasePairs; the empty sequence is a refusal.
ResolveDatabasePairs(input) ==
  LET pairs == IF input.databases # <<>> THEN input.databases ELSE <<input.legacy>> IN
  IF /\ \A i \in DOMAIN pairs : Filled(pairs[i])
     /\ IsInjective(Sources(pairs)) /\ IsInjective(Targets(pairs))
  THEN pairs ELSE <<>>

ValidCreate(input) ==
  /\ input.source # input.target
  /\ TypeOf[input.source] = TypeOf[input.target]
  /\ TypeOf[input.source] \in {"mysql", "postgresql"}
  /\ ResolveDatabasePairs(input) # <<>>

\* The new row, with the input for the properties.
Stored(input) ==
  LET pairs == ResolveDatabasePairs(input) IN
  [source |-> input.source, target |-> input.target, databases |-> pairs,
   legacy |-> pairs[1], queued |-> FALSE, input |-> input]

\* MigrationTask.DatabasePairs for the worker's config ...
TaskPairs(row) ==
  IF row.databases # <<>> THEN row.databases
  ELSE IF row.legacy.source # Blank THEN <<row.legacy>> ELSE <<>>

\* ... and TaskConfig.DatabasePairs, in the worker.
WorkerPairs(row) ==
  IF TaskPairs(row) # <<>> THEN TaskPairs(row)
  ELSE IF row.legacy.source # Blank THEN <<row.legacy>> ELSE <<>>

(***************************************************************************)
(* The form.                                                               *)
(***************************************************************************)

Open == form.source # Closed
Edit == Open /\ edits < MaxEdits /\ edits' = edits + 1

\* Faulty variant: the mapping of the last source stays.
ChooseSourceOnly(c) ==
  /\ Edit
  /\ form' = [form EXCEPT !.source = c, !.offered = {}]
  /\ lists' = lists \cup {c}
  /\ UNCHANGED <<calls, rows, losses, crossed>>

\* loadSourceDBs.
ChooseSource(c) ==
  /\ Edit
  /\ form' = [source |-> c, offered |-> {}, mapping |-> <<>>]
  /\ lists' = lists \cup {c}
  /\ UNCHANGED <<calls, rows, losses, crossed>>

ListAnswers(c) ==
  /\ c \in lists
  /\ lists' = lists \ {c}
  /\ form' = IF Open THEN [form EXCEPT !.offered = Databases[c]] ELSE form
  /\ crossed' = (crossed \/ c # form.source)
  /\ UNCHANGED <<calls, rows, edits, losses>>

ListFails(c) ==
  /\ c \in lists
  /\ lists' = lists \ {c}
  /\ UNCHANGED <<form, calls, rows, edits, losses, crossed>>

\* What one change of the Select makes of the selection.
Selections ==
  LET now == Sources(form.mapping) IN
  {Append(now, db) : db \in form.offered \ ToSet(now)}
    \cup {RemoveAt(now, i) : i \in DOMAIN now} \cup {<<>>}

\* onSourceDBsChange.
Select ==
  /\ Edit
  /\ \E selected \in Selections :
       form' = [form EXCEPT !.mapping = BuildMapping(selected, @)]
  /\ UNCHANGED <<lists, calls, rows, losses, crossed>>

UpdateTarget(i, name) ==
  /\ Edit /\ i \in DOMAIN form.mapping
  /\ form' = [form EXCEPT !.mapping[i].target = name]
  /\ UNCHANGED <<lists, calls, rows, losses, crossed>>

NewCall(input, by) == [pc |-> "create", by |-> by, input |-> input, task |-> 0]

\* Faulty variant: the button works while a submission is under way.
StartAgain(target) ==
  /\ form.source \in Connection /\ TypeOf[form.source] = TypeOf[target]
  /\ Len(rows) < 1 + MaxLosses
  /\ LET pairs == FilledPairs(form.mapping) IN
     /\ ValidMapping(pairs)
     /\ calls' = calls \cup {NewCall([source |-> form.source, target |-> target,
                                      databases |-> pairs, legacy |-> NoPair], "form")}
  /\ UNCHANGED <<form, lists, rows, edits, losses, crossed>>

\* start: its checks, and the first request.  The button is busy until the end.
Start(target) ==
  /\ form.source \in Connection /\ calls = {}
  /\ TypeOf[form.source] = TypeOf[target]
  /\ LET pairs == FilledPairs(form.mapping) IN
     /\ ValidMapping(pairs)
     /\ calls' = {NewCall([source |-> form.source, target |-> target,
                           databases |-> pairs, legacy |-> NoPair], "form")}
  /\ UNCHANGED <<form, lists, rows, edits, losses, crossed>>

\* Another client submits, once.
ClientStart(input) ==
  /\ ~Open /\ rows = <<>> /\ calls = {}
  /\ calls' = {NewCall(input, "client")}
  /\ UNCHANGED <<form, lists, rows, edits, losses, crossed>>

(***************************************************************************)
(* The requests of a submission.                                           *)
(***************************************************************************)

Lose == losses < MaxLosses /\ losses' = losses + 1

\* Create: the row, and the request to start it when the answer arrives.
Create(call) ==
  /\ call.pc = "create" /\ ValidCreate(call.input)
  /\ rows' = Append(rows, Stored(call.input))
  /\ \/ /\ calls' = (calls \ {call})
                      \cup {[call EXCEPT !.pc = "start", !.task = Len(rows) + 1]}
        /\ UNCHANGED losses
     \/ Lose /\ calls' = calls \ {call}
  /\ UNCHANGED <<form, lists, edits, crossed>>

CreateRefuses(call) ==
  /\ call.pc = "create" /\ ~ValidCreate(call.input)
  /\ calls' = calls \ {call}
  /\ UNCHANGED <<form, lists, rows, edits, losses, crossed>>

\* The second request; the form leaves for the task's page when it is answered.
StartTask(call) ==
  /\ call.pc = "start"
  /\ rows' = [rows EXCEPT ![call.task].queued = TRUE]
  /\ calls' = calls \ {call}
  /\ \/ /\ form' = [source |-> Closed, offered |-> {}, mapping |-> <<>>]
        /\ UNCHANGED losses
     \/ Lose /\ UNCHANGED form
  /\ UNCHANGED <<lists, edits, crossed>>

\* A request that does not arrive, or that the database fails.
RequestLost(call) ==
  /\ Lose
  /\ calls' = calls \ {call}
  /\ UNCHANGED <<form, lists, rows, edits, crossed>>

\* A row of the time before the mapping was a column.
LegacyRow(c, pair) ==
  [source |-> c, target |-> c, databases |-> <<>>, legacy |-> pair, queued |-> FALSE,
   input |-> [source |-> c, target |-> c, databases |-> <<>>, legacy |-> pair]]

FormInit ==
  /\ form = [source |-> Nobody, offered |-> {}, mapping |-> <<>>]
  /\ lists = {} /\ calls = {} /\ rows = <<>>
  /\ edits = 0 /\ losses = 0 /\ crossed = FALSE

\* The same without a browser: other clients, and the rows that are there.
ClientInit ==
  /\ form = [source |-> Closed, offered |-> {}, mapping |-> <<>>]
  /\ rows \in {<<>>} \cup {<<LegacyRow(c, p)>> : c \in Connection, p \in {q \in Pair : Filled(q)}}
  /\ lists = {} /\ calls = {}
  /\ edits = 0 /\ losses = 0 /\ crossed = FALSE

CallStep(call) ==
  Create(call) \/ CreateRefuses(call) \/ StartTask(call) \/ RequestLost(call)

FormNext ==
  \/ \E c \in Connection : ChooseSource(c) \/ ListAnswers(c) \/ ListFails(c) \/ Start(c)
  \/ Select
  \/ \E i \in DOMAIN form.mapping, name \in Target \cup {Blank} : UpdateTarget(i, name)
  \/ \E input \in ClientInputs : ClientStart(input)
  \/ \E call \in calls : CallStep(call)

\* What a worker gets is what its client had asked for, one-to-one and without
\* a blank: whichever of the two forms of the mapping the client has used, and
\* through the row and two fallbacks.
RowsMapped ==
  \A i \in DOMAIN rows :
    LET pairs == WorkerPairs(rows[i]) IN
    /\ pairs = ResolveDatabasePairs(rows[i].input) /\ pairs # <<>>
    /\ \A p \in ToSet(pairs) : Filled(p)
    /\ IsInjective(Sources(pairs)) /\ IsInjective(Targets(pairs))

\* What the form has validated, the service does not refuse for its mapping,
\* nor change: the two checks are written apart, and the form's knows nothing
\* of blank pairs in what it sends, nor of sources.
FormIsAccepted ==
  \A call \in calls : call.by = "form" =>
    ResolveDatabasePairs(call.input) = call.input.databases /\ call.input.databases # <<>>

\* From the form or another client, through the two checks, the row and the
\* worker's fallbacks, a mapping arrives as it was sent.
WorkerGetsMapping == RowsMapped /\ FormIsAccepted

FormBelongs ==
  form.source \in Connection => ToSet(Sources(form.mapping)) \subseteq Databases[form.source]
CallsBelong ==
  \A call \in calls : call.by = "form" =>
    ToSet(Sources(call.input.databases)) \subseteq Databases[call.input.source]

\* A mapping never names databases of a source chosen before, unless the list
\* of one came late: neither in the form, nor in a task made from it.
SourcesBelong == ~crossed => FormBelongs /\ CallsBelong

\* A user who has submitted has one queued task, and one more only for each
\* request or answer that was lost.
OneQueuedTask ==
  Cardinality({i \in DOMAIN rows : rows[i].queued}) <= 1 + losses
=============================================================================
