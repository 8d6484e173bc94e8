----------------------------- MODULE Connections -----------------------------
(***************************************************************************)
(* The connection service beside the creation of tasks: handlers that read *)
(* and write the tables connections and migration_tasks in several calls   *)
(* without a transaction.  An update saves the whole row it read, and Save *)
(* inserts a row that is gone.  Of a row, the type, and one other field    *)
(* that an update leaves alone when it is given empty, are modelled.       *)
(***************************************************************************)
EXTENDS Naturals, FiniteSets

CONSTANTS
  Conn,        \* ids that the sequence of the table hands out
  Password,    \* values of the other field
  MaxRequests  \* bound: updates, deletes and creations of tasks

ASSUME ConnectionsAssumption ==
  IsFiniteSet(Conn) /\ "" \notin Password /\ MaxRequests \in Nat

VARIABLES
  rows,       \* connections: id -> row, or Gone
  issued,     \* the ids that were handed out
  tasks,      \* migration_tasks: what each refers to, and its engine
  requests,   \* handlers between two of their calls
  asked,      \* how many requests there were
  accepted,   \* observation: id -> the row that the answered requests add up to
  overlapped, \* observation: ids that were written while an update held the row
  retyped     \* observation: ids whose type an update has changed

vars == <<rows, issued, tasks, requests, asked, accepted, overlapped, retyped>>
observed == <<accepted, overlapped, retyped>>

ConnType == {"mysql", "postgresql", "dm8"}
Supported == {"mysql", "postgresql"}
Gone == [type |-> "", password |-> ""]
Row == [type: ConnType, password: Password]
Input == [type: ConnType \cup {""}, password: Password \cup {""}]

EngineForType(type) ==
  CASE type = "mysql" -> "mysql-dump"
    [] type = "postgresql" -> "postgresql-dump"
    [] OTHER -> "unknown"

Task == [source: Conn, target: Conn,
         engine: {"mysql-dump", "postgresql-dump", "unknown"}]

Exists(c) == rows[c] # Gone

\* ConnectionInUse, and what the foreign keys look at.
InUse(c) == \E t \in tasks : c \in {t.source, t.target}

Init ==
  /\ rows = [c \in Conn |-> Gone] /\ issued = {}
  /\ tasks = {} /\ requests = {} /\ asked = 0
  /\ accepted = rows /\ overlapped = {} /\ retyped = {}

Begin(request) ==
  /\ asked < MaxRequests
  /\ asked' = asked + 1
  /\ requests' = requests \cup {request}

End(r) == requests' = requests \ {r}
GoOn(r, next) == requests' = (requests \ {r}) \cup {next}

\* A write to c: it overlaps when an update other than r holds the row.
Write(c, row, r) ==
  /\ rows' = [rows EXCEPT ![c] = row]
  /\ overlapped' =
       IF \E u \in requests \ {r} : u.op = "update" /\ u.conn = c
       THEN overlapped \cup {c} ELSE overlapped

(***************************************************************************)
(* Connections.                                                            *)
(***************************************************************************)

\* ValidateConnectionInput admits the supported types; an update is not validated.
CreateConnection(c, row) ==
  /\ c \notin issued /\ row.type \in Supported
  /\ issued' = issued \cup {c}
  /\ rows' = [rows EXCEPT ![c] = row]
  /\ accepted' = [accepted EXCEPT ![c] = row]
  /\ UNCHANGED <<tasks, requests, asked, overlapped, retyped>>

\* Faulty variant: a field is forgotten.
MergeForgets(row, in) ==
  [row EXCEPT !.type = IF in.type # "" THEN in.type ELSE @]

Merge(row, in) ==
  [f \in DOMAIN row |-> IF in[f] # "" THEN in[f] ELSE row[f]]

ReadForUpdate(c, in) ==
  /\ Exists(c)
  /\ Begin([op |-> "update", n |-> asked, conn |-> c, in |-> in,
            row |-> Merge(rows[c], in)])
  /\ UNCHANGED <<rows, issued, tasks, observed>>

\* What the request has asked for, on top of what was accepted before.
Accept(row, in) ==
  [type |-> IF in.type = "" THEN row.type ELSE in.type,
   password |-> IF in.password = "" THEN row.password ELSE in.password]

Save(r) ==
  /\ r.op = "update"
  /\ Write(r.conn, r.row, r)
  /\ accepted' = [accepted EXCEPT ![r.conn] = Accept(@, r.in)]
  /\ retyped' = IF r.in.type = "" THEN retyped ELSE retyped \cup {r.conn}
  /\ End(r)
  /\ UNCHANGED <<issued, tasks, asked>>

ReadForDelete(c) ==
  /\ Exists(c)
  /\ Begin([op |-> "delete", n |-> asked, conn |-> c, pc |-> "count"])
  /\ UNCHANGED <<rows, issued, tasks, observed>>

CountTasks(r) ==
  /\ r.op = "delete" /\ r.pc = "count"
  /\ IF InUse(r.conn) THEN End(r) ELSE GoOn(r, [r EXCEPT !.pc = "delete"])
  /\ UNCHANGED <<rows, issued, tasks, asked, observed>>

\* Faulty variant: a schema without foreign keys.
DeleteUnchecked(r) ==
  /\ r.op = "delete" /\ r.pc = "delete"
  /\ Write(r.conn, Gone, r)
  /\ accepted' = [accepted EXCEPT ![r.conn] = Gone]
  /\ End(r)
  /\ UNCHANGED <<issued, tasks, asked, retyped>>

\* A foreign key refuses the DELETE of a row that a task has come to use.
DeleteConnection(r) ==
  /\ r.op = "delete" /\ r.pc = "delete"
  /\ IF InUse(r.conn) THEN UNCHANGED <<rows, accepted, overlapped>>
     ELSE /\ Write(r.conn, Gone, r)
          /\ accepted' = [accepted EXCEPT ![r.conn] = Gone]
  /\ End(r)
  /\ UNCHANGED <<issued, tasks, asked, retyped>>

(***************************************************************************)
(* MigrationService.Create.                                                *)
(***************************************************************************)

ReadSource(s, t) ==
  /\ s # t /\ Exists(s)
  /\ Begin([op |-> "task", n |-> asked, pc |-> "target", source |-> s,
            target |-> t, type |-> rows[s].type])
  /\ UNCHANGED <<rows, issued, tasks, observed>>

\* Faulty variant: the source is compared with nothing.
ReadAnyTarget(r) ==
  /\ r.op = "task" /\ r.pc = "target"
  /\ IF Exists(r.target) /\ r.type \in Supported
     THEN GoOn(r, [r EXCEPT !.pc = "engine"]) ELSE End(r)
  /\ UNCHANGED <<rows, issued, tasks, asked, observed>>

ReadTarget(r) ==
  /\ r.op = "task" /\ r.pc = "target"
  /\ IF Exists(r.target) /\ rows[r.target].type = r.type /\ r.type \in Supported
     THEN GoOn(r, [r EXCEPT !.pc = "engine"]) ELSE End(r)
  /\ UNCHANGED <<rows, issued, tasks, asked, observed>>

\* The source is read for the second time.
ReadEngine(r) ==
  /\ r.op = "task" /\ r.pc = "engine"
  /\ IF Exists(r.source)
     THEN GoOn(r, [r EXCEPT !.pc = "insert", !.type = rows[r.source].type])
     ELSE End(r)
  /\ UNCHANGED <<rows, issued, tasks, asked, observed>>

\* Faulty variant: the type goes into the column of the engine.
InsertType(r) ==
  /\ r.op = "task" /\ r.pc = "insert"
  /\ tasks' = IF Exists(r.source) /\ Exists(r.target)
              THEN tasks \cup {[source |-> r.source, target |-> r.target,
                                engine |-> r.type]}
              ELSE tasks
  /\ End(r)
  /\ UNCHANGED <<rows, issued, asked, observed>>

\* The foreign keys refuse a task whose connection is gone.
InsertTask(r) ==
  /\ r.op = "task" /\ r.pc = "insert"
  /\ tasks' = IF Exists(r.source) /\ Exists(r.target)
              THEN tasks \cup {[source |-> r.source, target |-> r.target,
                                engine |-> EngineForType(r.type)]}
              ELSE tasks
  /\ End(r)
  /\ UNCHANGED <<rows, issued, asked, observed>>

\* A call of the database fails, or the client has gone.
RequestFails(r) ==
  /\ End(r)
  /\ UNCHANGED <<rows, issued, tasks, asked, observed>>

Next ==
  \/ \E c \in Conn, row \in Row : CreateConnection(c, row)
  \/ \E c \in Conn, in \in Input : ReadForUpdate(c, in)
  \/ \E c \in Conn : ReadForDelete(c)
  \/ \E s, t \in Conn : ReadSource(s, t)
  \/ \E r \in requests :
       \/ Save(r) \/ CountTasks(r) \/ DeleteConnection(r)
       \/ ReadTarget(r) \/ ReadEngine(r) \/ InsertTask(r) \/ RequestFails(r)

Spec == Init /\ [][Next]_vars

Request ==
  [op: {"update"}, n: Nat, conn: Conn, in: Input, row: Row]
    \cup [op: {"delete"}, n: Nat, conn: Conn, pc: {"count", "delete"}]
    \cup [op: {"task"}, n: Nat, pc: {"target", "engine", "insert"},
          source: Conn, target: Conn, type: ConnType]

\* Types of the tables and of the handlers in flight.
TypeOK ==
  /\ rows \in [Conn -> Row \cup {Gone}] /\ issued \subseteq Conn
  /\ tasks \subseteq Task /\ requests \subseteq Request /\ asked \in Nat
  /\ overlapped \subseteq Conn /\ retyped \subseteq Conn
  /\ DOMAIN accepted = Conn

\* The worker's configuration reads both connections of its task without a
\* check for nil: they are there, whatever deletes come between the reads of
\* Create and its INSERT, or between the count of a delete and its DELETE.
TasksReferToConnections ==
  \A t \in tasks : Exists(t.source) /\ Exists(t.target)

\* "MVP supports mysql->mysql and postgresql->postgresql": unless an update has
\* changed a type, the engine of a task is that of both of its connections.
EngineFitsConnections ==
  \A t \in tasks :
    {t.source, t.target} \cap retyped = {} =>
      \A c \in {t.source, t.target} : EngineForType(rows[c].type) = t.engine

\* "Update applies partial updates; an empty password keeps the stored secret."
\* Of a connection that no write has met in the middle of an update, the row is
\* what the answered requests add up to; a deleted one stays gone.
AcceptedIsStored ==
  \A c \in Conn \ overlapped : rows[c] = accepted[c]
=============================================================================
