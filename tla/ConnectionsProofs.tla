-------------------------- MODULE ConnectionsProofs --------------------------
(***************************************************************************)
(* Theorems about Connections, for any set of ids, any values of the other *)
(* field and any number of requests in flight.                             *)
(***************************************************************************)
EXTENDS Connections, TLAPS

UpdateRequest == [op: {"update"}, n: Nat, conn: Conn, in: Input, row: Row]
DeleteRequest == [op: {"delete"}, n: Nat, conn: Conn, pc: {"count", "delete"}]
TaskRequest == [op: {"task"}, n: Nat, pc: {"target", "engine", "insert"},
                source: Conn, target: Conn, type: ConnType]

LEMMA RequestCases ==
  ASSUME NEW r \in Request
  PROVE  /\ r.op = "update" => r \in UpdateRequest
         /\ r.op = "delete" => r \in DeleteRequest
         /\ r.op = "task" => r \in TaskRequest
BY DEF Request, UpdateRequest, DeleteRequest, TaskRequest

\* No row is Gone, so that a row that is there has a type.
LEMMA RowIsNotGone ==
  ASSUME NEW row \in Row
  PROVE  /\ row.type \in ConnType /\ row.password \in Password
         /\ row.type # "" /\ row # Gone
         /\ row = [type |-> row.type, password |-> row.password]
<1>1. row.type \in ConnType /\ row.password \in Password
  BY DEF Row
<1>2. row.type # ""
  BY <1>1 DEF ConnType
<1>3. row # Gone
  <2>1. Gone.type = ""
    BY DEF Gone
  <2> QED
    BY <1>2, <2>1
<1>4. row = [type |-> row.type, password |-> row.password]
  BY DEF Row
<1> QED
  BY <1>1, <1>2, <1>3, <1>4

\* Merge is what an update asks for: a field given empty stays.
LEMMA MergeIsAccept ==
  ASSUME NEW row \in Row, NEW in \in Input
  PROVE  /\ Merge(row, in) \in Row
         /\ Merge(row, in) = Accept(row, in)
         /\ in.type = "" => Merge(row, in).type = row.type
<1> DEFINE type == IF in.type # "" THEN in.type ELSE row.type
           password == IF in.password # "" THEN in.password ELSE row.password
<1>1. DOMAIN row = {"type", "password"}
  BY DEF Row
<1>2. Merge(row, in) = [f \in {"type", "password"} |-> IF in[f] # "" THEN in[f] ELSE row[f]]
  BY <1>1 DEF Merge
<1>3. Merge(row, in) = [type |-> type, password |-> password]
  BY <1>2
<1>4. Accept(row, in) = [type |-> type, password |-> password]
  BY DEF Accept
<1>5. type \in ConnType /\ password \in Password
  BY RowIsNotGone DEF Input
<1>6. in.type = "" => type = row.type
  OBVIOUS
<1> HIDE DEF type, password
<1>7. [type |-> type, password |-> password] \in Row
  BY <1>5 DEF Row
<1>8. [type |-> type, password |-> password].type = type
  OBVIOUS
<1> QED
  BY <1>3, <1>4, <1>6, <1>7, <1>8


\* What the handlers keep between two of their calls.
LEMMA RequestsAreTyped ==
  ASSUME NEW n \in Nat, NEW c \in Conn
  PROVE  /\ \A in \in Input, row \in Row :
              [op |-> "update", n |-> n, conn |-> c, in |-> in, row |-> row] \in Request
         /\ [op |-> "delete", n |-> n, conn |-> c, pc |-> "count"] \in Request
         /\ \A t \in Conn, type \in ConnType :
              [op |-> "task", n |-> n, pc |-> "target", source |-> c, target |-> t,
               type |-> type] \in Request
BY DEF Request

LEMMA MovesAreTyped ==
  ASSUME NEW r \in Request
  PROVE  /\ r.op = "delete" => [r EXCEPT !.pc = "delete"] \in Request
         /\ r.op = "task" => [r EXCEPT !.pc = "engine"] \in Request
         /\ \A type \in ConnType : r.op = "task" => [r EXCEPT !.pc = "insert", !.type = type] \in Request
<1>1. r.op = "delete" => [r EXCEPT !.pc = "delete"] \in Request
  <2> SUFFICES ASSUME r \in DeleteRequest PROVE [r EXCEPT !.pc = "delete"] \in DeleteRequest
    BY RequestCases DEF Request, DeleteRequest
  <2> QED BY DEF DeleteRequest
<1>2. r.op = "task" => [r EXCEPT !.pc = "engine"] \in Request
  <2> SUFFICES ASSUME r \in TaskRequest PROVE [r EXCEPT !.pc = "engine"] \in TaskRequest
    BY RequestCases DEF Request, TaskRequest
  <2> QED BY DEF TaskRequest
<1>3. ASSUME NEW type \in ConnType PROVE r.op = "task" => [r EXCEPT !.pc = "insert", !.type = type] \in Request
  <2> SUFFICES ASSUME r \in TaskRequest PROVE [r EXCEPT !.pc = "insert", !.type = type] \in TaskRequest
    BY RequestCases DEF Request, TaskRequest
  <2> QED BY DEF TaskRequest
<1> QED
  BY <1>1, <1>2, <1>3


LEMMA TypesStep ==
  ASSUME TypeOK, [Next]_vars
  PROVE  TypeOK'
<1> USE DEF observed, Begin, End, GoOn
<1>1. CASE UNCHANGED vars
  BY <1>1 DEF vars, TypeOK
<1>2. ASSUME NEW c \in Conn, NEW row \in Row, CreateConnection(c, row)
      PROVE  TypeOK'
  BY <1>2 DEF CreateConnection, TypeOK
<1>3. ASSUME NEW c \in Conn, NEW in \in Input, ReadForUpdate(c, in)
      PROVE  TypeOK'
  <2>1. rows[c] \in Row
    BY <1>3 DEF ReadForUpdate, Exists, TypeOK
  <2>2. Merge(rows[c], in) \in Row
    BY <2>1, MergeIsAccept
  <2>3. [op |-> "update", n |-> asked, conn |-> c, in |-> in,
         row |-> Merge(rows[c], in)] \in Request
    BY <2>2, RequestsAreTyped DEF TypeOK
  <2> QED
    BY <1>3, <2>3 DEF ReadForUpdate, TypeOK
<1>4. ASSUME NEW c \in Conn, ReadForDelete(c)
      PROVE  TypeOK'
  BY <1>4, RequestsAreTyped DEF ReadForDelete, TypeOK
<1>5. ASSUME NEW s \in Conn, NEW t \in Conn, ReadSource(s, t)
      PROVE  TypeOK'
  <2>1. rows[s].type \in ConnType
    BY <1>5, RowIsNotGone DEF ReadSource, Exists, TypeOK
  <2>2. [op |-> "task", n |-> asked, pc |-> "target", source |-> s, target |-> t,
         type |-> rows[s].type] \in Request
    BY <2>1, RequestsAreTyped DEF TypeOK
  <2> QED
    BY <1>5, <2>2 DEF ReadSource, TypeOK
<1>6. ASSUME NEW r \in requests, Save(r)
      PROVE  TypeOK'
  <2>1. r.conn \in Conn /\ r.row \in Row
    BY <1>6, RequestCases DEF Save, TypeOK, UpdateRequest
  <2> QED
    BY <1>6, <2>1 DEF Save, Write, TypeOK
<1>7. ASSUME NEW r \in requests, CountTasks(r)
      PROVE  TypeOK'
  BY <1>7, MovesAreTyped DEF CountTasks, TypeOK
<1>8. ASSUME NEW r \in requests, DeleteConnection(r)
      PROVE  TypeOK'
  <2>1. r.conn \in Conn
    BY <1>8, RequestCases DEF DeleteConnection, TypeOK, DeleteRequest
  <2> QED
    BY <1>8, <2>1 DEF DeleteConnection, Write, TypeOK
<1>9. ASSUME NEW r \in requests, ReadTarget(r)
      PROVE  TypeOK'
  BY <1>9, MovesAreTyped DEF ReadTarget, TypeOK
<1>10. ASSUME NEW r \in requests, ReadEngine(r)
       PROVE  TypeOK'
  <2>1. r.source \in Conn
    BY <1>10, RequestCases DEF ReadEngine, TypeOK, TaskRequest
  <2>2. Exists(r.source) => rows[r.source].type \in ConnType
    BY <2>1, RowIsNotGone DEF Exists, TypeOK
  <2>3. Exists(r.source) =>
          [r EXCEPT !.pc = "insert", !.type = rows[r.source].type] \in Request
    BY <1>10, <2>2, MovesAreTyped DEF ReadEngine, TypeOK
  <2> QED
    BY <1>10, <2>3 DEF ReadEngine, TypeOK
<1>11. ASSUME NEW r \in requests, InsertTask(r)
       PROVE  TypeOK'
  <2>1. r \in TaskRequest
    BY <1>11, RequestCases DEF InsertTask, TypeOK
  <2>2. [source |-> r.source, target |-> r.target, engine |-> EngineForType(r.type)] \in Task
    BY <2>1 DEF TaskRequest, Task, EngineForType
  <2> QED
    BY <1>11, <2>2 DEF InsertTask, TypeOK
<1>12. ASSUME NEW r \in requests, RequestFails(r)
       PROVE  TypeOK'
  BY <1>12 DEF RequestFails, TypeOK
<1> QED
  BY <1>1, <1>2, <1>3, <1>4, <1>5, <1>6, <1>7, <1>8, <1>9, <1>10, <1>11, <1>12 DEF Next

\* The updates in flight: only they write a row that somebody else has read.
Updates == {u \in requests : u.op = "update"}

\* Steps that leave the table of connections and the accepted updates alone.
Quiet ==
  /\ UNCHANGED <<rows, issued, observed>>
  /\ Updates' \subseteq Updates

Deletes(r) == ~InUse(r.conn) /\ DeleteConnection(r)

Step ==
  \/ Quiet
  \/ \E c \in Conn, row \in Row : CreateConnection(c, row)
  \/ \E c \in Conn, in \in Input : ReadForUpdate(c, in)
  \/ \E u \in Updates : Save(u)
  \/ \E r \in requests \ Updates : r.conn \in Conn /\ Deletes(r)

LEMMA StepCases ==
  ASSUME TypeOK, [Next]_vars
  PROVE  Step
<1> USE DEF observed, Begin, End, GoOn
<1>1. CASE UNCHANGED vars
  BY <1>1 DEF vars, Quiet, Updates, Step
<1>2. ASSUME NEW c \in Conn, ReadForDelete(c)
      PROVE  Quiet
  BY <1>2 DEF ReadForDelete, Quiet, Updates
<1>3. ASSUME NEW s \in Conn, NEW t \in Conn, ReadSource(s, t)
      PROVE  Quiet
  BY <1>3 DEF ReadSource, Quiet, Updates
<1>4. ASSUME NEW r \in requests, CountTasks(r)
      PROVE  Quiet
  <2>1. [r EXCEPT !.pc = "delete"].op # "update"
    BY <1>4, RequestCases DEF CountTasks, TypeOK, DeleteRequest
  <2> QED
    BY <1>4, <2>1 DEF CountTasks, Quiet, Updates
<1>5. ASSUME NEW r \in requests, ReadTarget(r)
      PROVE  Quiet
  <2>1. [r EXCEPT !.pc = "engine"].op # "update"
    BY <1>5, RequestCases DEF ReadTarget, TypeOK, TaskRequest
  <2> QED
    BY <1>5, <2>1 DEF ReadTarget, Quiet, Updates
<1>6. ASSUME NEW r \in requests, ReadEngine(r)
      PROVE  Quiet
  <2>1. [r EXCEPT !.pc = "insert", !.type = rows[r.source].type].op # "update"
    BY <1>6, RequestCases DEF ReadEngine, TypeOK, TaskRequest
  <2> QED
    BY <1>6, <2>1 DEF ReadEngine, Quiet, Updates
<1>7. ASSUME NEW r \in requests, InsertTask(r) \/ RequestFails(r)
      PROVE  Quiet
  BY <1>7 DEF InsertTask, RequestFails, Quiet, Updates
<1>8. ASSUME NEW r \in requests, Save(r)
      PROVE  Step
  BY <1>8 DEF Save, Updates, Step
<1>9. ASSUME NEW r \in requests, DeleteConnection(r)
      PROVE  Step
  <2>1. r \in requests \ Updates /\ r.conn \in Conn
    BY <1>9, RequestCases DEF DeleteConnection, Updates, TypeOK, DeleteRequest
  <2>2. CASE InUse(r.conn)
    BY <1>9, <2>2 DEF DeleteConnection, Quiet, Updates, Step
  <2>3. CASE ~InUse(r.conn)
    BY <1>9, <2>1, <2>3 DEF Deletes, Step
  <2> QED
    BY <2>2, <2>3
<1> QED
  BY <1>1, <1>2, <1>3, <1>4, <1>5, <1>6, <1>7, <1>8, <1>9 DEF Next, Step


-----------------------------------------------------------------------------
\* Ids that were not handed out are nobody's.
Issued ==
  /\ \A c \in Conn \ issued : rows[c] = Gone
  /\ \A u \in Updates : u.conn \in issued
  /\ \A r \in requests :
       r.op = "task" => r.source \in issued /\ (r.pc # "target" => r.target \in issued)

LEMMA UpdateTypes ==
  ASSUME TypeOK, NEW u \in Updates
  PROVE  u \in requests /\ u.conn \in Conn /\ u.in \in Input /\ u.row \in Row
BY RequestCases DEF Updates, TypeOK, UpdateRequest

\* A Write, and the update that begins, in terms of the updates in flight.
LEMMA Overlaps ==
  ASSUME NEW c \in Conn, NEW row, NEW r, Write(c, row, r), TypeOK
  PROVE  /\ rows' = [rows EXCEPT ![c] = row]
         /\ overlapped \subseteq overlapped' /\ overlapped' \subseteq overlapped \cup {c}
         /\ \A u \in Updates : u # r /\ u.conn = c => c \in overlapped'
BY DEF Write, Updates, TypeOK

LEMMA NewUpdate ==
  ASSUME TypeOK, NEW c \in Conn, NEW in \in Input, ReadForUpdate(c, in),
         NEW u \in Updates', u \notin Updates
  PROVE  /\ u.conn = c /\ u.in = in /\ u.row = Merge(rows[c], in)
         /\ rows[c] \in Row
BY DEF ReadForUpdate, Begin, Updates, Exists, TypeOK

\* The steps after which Create keeps something new.
LEMMA NewTaskRequest ==
  ASSUME TypeOK, [Next]_vars, NEW r \in requests', r.op = "task", r \notin requests
  PROVE  \/ \E s, t \in Conn : ReadSource(s, t)
         \/ \E q \in requests : ReadTarget(q) \/ ReadEngine(q)
<1>1. ASSUME NEW q \in requests, CountTasks(q)
      PROVE  FALSE
  <2>1. [q EXCEPT !.pc = "delete"].op = "delete"
    BY <1>1, RequestCases DEF CountTasks, TypeOK, DeleteRequest
  <2> QED
    BY <1>1, <2>1 DEF CountTasks, GoOn, End
<1>2. ASSUME NEW c \in Conn, ReadForDelete(c)
      PROVE  FALSE
  BY <1>2 DEF ReadForDelete, Begin
<1>3. ASSUME NEW c \in Conn, NEW in \in Input, ReadForUpdate(c, in)
      PROVE  FALSE
  BY <1>3 DEF ReadForUpdate, Begin
<1>4. ASSUME NEW q \in requests,
             Save(q) \/ DeleteConnection(q) \/ InsertTask(q) \/ RequestFails(q)
      PROVE  FALSE
  BY <1>4 DEF Save, DeleteConnection, InsertTask, RequestFails, End
<1>5. ASSUME NEW c \in Conn, NEW row \in Row, CreateConnection(c, row)
      PROVE  FALSE
  BY <1>5 DEF CreateConnection
<1>6. CASE UNCHANGED vars
  BY <1>6 DEF vars
<1> QED
  BY <1>1, <1>2, <1>3, <1>4, <1>5, <1>6 DEF Next

LEMMA IssuedStep ==
  ASSUME TypeOK, Issued, [Next]_vars
  PROVE  Issued'
<1>1. TypeOK'
  BY TypesStep
<1>2. (\A c \in Conn \ issued : rows[c] = Gone)'
  <2> USE DEF Issued
  <2>1. CASE Quiet
    BY <2>1 DEF Quiet, observed
  <2>2. ASSUME NEW c \in Conn, NEW row \in Row, CreateConnection(c, row)
        PROVE  (\A d \in Conn \ issued : rows[d] = Gone)'
    BY <2>2 DEF CreateConnection, TypeOK
  <2>3. ASSUME NEW c \in Conn, NEW in \in Input, ReadForUpdate(c, in)
        PROVE  (\A d \in Conn \ issued : rows[d] = Gone)'
    BY <2>3 DEF ReadForUpdate
  <2>4. ASSUME NEW u \in Updates, Save(u)
        PROVE  (\A d \in Conn \ issued : rows[d] = Gone)'
    <3>1. u.conn \in Conn /\ u.conn \in issued /\ issued' = issued
      BY <2>4, UpdateTypes DEF Save
    <3>2. rows' = [rows EXCEPT ![u.conn] = u.row]
      BY <2>4 DEF Save, Write
    <3> QED
      BY <3>1, <3>2 DEF TypeOK
  <2>5. ASSUME NEW r \in requests, r.conn \in Conn, Deletes(r)
        PROVE  (\A d \in Conn \ issued : rows[d] = Gone)'
    BY <2>5, Overlaps DEF Deletes, DeleteConnection, TypeOK
  <2> QED
    BY <2>1, <2>2, <2>3, <2>4, <2>5, StepCases DEF Step
<1>3. issued \subseteq issued'
  BY StepCases DEF Step, Quiet, CreateConnection, ReadForUpdate, Save, Deletes,
     DeleteConnection
<1>4. (\A u \in Updates : u.conn \in issued)'
  <2> USE DEF Issued
  <2>1. CASE Quiet
    BY <2>1 DEF Quiet, observed
  <2>2. ASSUME NEW c \in Conn, NEW row \in Row, CreateConnection(c, row)
        PROVE  Updates' \subseteq Updates
    BY <2>2 DEF CreateConnection, Updates
  <2>3. ASSUME NEW c \in Conn, NEW in \in Input, ReadForUpdate(c, in)
        PROVE  (\A u \in Updates : u.conn \in issued)'
    <3>1. c \in issued
      BY <2>3 DEF ReadForUpdate, Exists
    <3> QED
      BY <2>3, <3>1, <1>3, NewUpdate
  <2>4. ASSUME NEW u \in Updates, Save(u)
        PROVE  Updates' \subseteq Updates
    BY <2>4 DEF Save, End, Updates
  <2>5. ASSUME NEW r \in requests, r.conn \in Conn, Deletes(r)
        PROVE  Updates' \subseteq Updates
    BY <2>5 DEF Deletes, DeleteConnection, End, Updates
  <2> QED
    BY <1>3, <2>1, <2>2, <2>3, <2>4, <2>5, StepCases DEF Step
<1>5. (\A r \in requests :
         r.op = "task" => r.source \in issued /\ (r.pc # "target" => r.target \in issued))'
  <2> SUFFICES ASSUME NEW r \in requests', r.op = "task", r \notin requests
               PROVE  r.source \in issued /\ (r.pc # "target" => r.target \in issued)
    BY <1>3 DEF Issued
  <2>1. ASSUME NEW s \in Conn, NEW t \in Conn, ReadSource(s, t)
        PROVE  r.source = s /\ r.pc = "target" /\ Exists(s)
    BY <2>1 DEF ReadSource, Begin
  <2>2. ASSUME NEW q \in requests, ReadTarget(q)
        PROVE  r = [q EXCEPT !.pc = "engine"] /\ Exists(q.target) /\ q \in TaskRequest
    BY <2>2, RequestCases DEF ReadTarget, GoOn, End, TypeOK
  <2>3. ASSUME NEW q \in requests, ReadEngine(q)
        PROVE  /\ r = [q EXCEPT !.pc = "insert", !.type = rows[q.source].type]
               /\ q \in TaskRequest /\ q.pc = "engine"
    BY <2>3, RequestCases DEF ReadEngine, GoOn, End, TypeOK
  <2>4. CASE \E s, t \in Conn : ReadSource(s, t)
    BY <2>1, <2>4 DEF Issued, Exists
  <2>5. CASE \E q \in requests : ReadTarget(q)
    BY <2>2, <2>5 DEF Issued, Exists, TaskRequest
  <2>6. CASE \E q \in requests : ReadEngine(q)
    BY <2>3, <2>6 DEF Issued, TaskRequest
  <2> QED
    BY <2>4, <2>5, <2>6, NewTaskRequest
<1> QED
  BY <1>2, <1>4, <1>5 DEF Issued

LEMMA ReferencesStep ==
  ASSUME TypeOK, TasksReferToConnections, [Next]_vars
  PROVE  TasksReferToConnections'
<1> USE DEF TasksReferToConnections, Exists
<1>1. ASSUME NEW c \in Conn, NEW row \in Row, rows' = [rows EXCEPT ![c] = row], tasks' = tasks
      PROVE  TasksReferToConnections'
  <2>1. \A t \in tasks : t.source \in Conn /\ t.target \in Conn
    BY DEF TypeOK, Task
  <2>2. \A d \in Conn : rows[d] # Gone => rows'[d] # Gone
    BY <1>1, RowIsNotGone DEF TypeOK
  <2> QED
    BY <1>1, <2>1, <2>2
<1>2. ASSUME NEW c \in Conn, NEW row \in Row, CreateConnection(c, row)
      PROVE  TasksReferToConnections'
  BY <1>1, <1>2 DEF CreateConnection
<1>3. ASSUME NEW u \in Updates, Save(u)
      PROVE  TasksReferToConnections'
  <2>1. u.conn \in Conn /\ u.row \in Row
    BY UpdateTypes
  <2>2. rows' = [rows EXCEPT ![u.conn] = u.row] /\ tasks' = tasks
    BY <1>3 DEF Save, Write
  <2> QED
    BY <1>1, <2>1, <2>2
<1>4. ASSUME NEW r \in requests, r.conn \in Conn, Deletes(r)
      PROVE  TasksReferToConnections'
  <2>1. rows' = [rows EXCEPT ![r.conn] = Gone] /\ tasks' = tasks
    BY <1>4 DEF Deletes, DeleteConnection, Write
  <2>2. \A t \in tasks : t.source # r.conn /\ t.target # r.conn
    BY <1>4 DEF Deletes, InUse
  <2>3. \A t \in tasks : t.source \in Conn /\ t.target \in Conn
    BY DEF TypeOK, Task
  <2> QED
    BY <2>1, <2>2, <2>3 DEF TypeOK
<1>5. ASSUME NEW r \in requests, InsertTask(r)
      PROVE  TasksReferToConnections'
  <2>1. rows' = rows /\
        \A t \in tasks' \ tasks : t.source = r.source /\ t.target = r.target
                                    /\ Exists(r.source) /\ Exists(r.target)
    BY <1>5 DEF InsertTask
  <2> QED
    BY <2>1
<1>6. CASE tasks' = tasks /\ rows' = rows
  BY <1>6
<1>7. tasks' = tasks \/ \E r \in requests : InsertTask(r)
  BY DEF Next, vars, CreateConnection, ReadForUpdate, ReadForDelete, ReadSource, Save,
     CountTasks, DeleteConnection, ReadTarget, ReadEngine, RequestFails
<1>8. CASE Quiet
  BY <1>5, <1>6, <1>7, <1>8 DEF Quiet
<1>9. ASSUME NEW c \in Conn, NEW in \in Input, ReadForUpdate(c, in)
      PROVE  TasksReferToConnections'
  BY <1>6, <1>9 DEF ReadForUpdate
<1> QED
  BY <1>2, <1>3, <1>4, <1>8, <1>9, StepCases DEF Step

-----------------------------------------------------------------------------
\* Of a connection that no write has met in the middle of an update, an update
\* in flight holds what the row is and what it was asked for, and nothing else.
Fresh ==
  \A u \in Updates :
    u.conn \notin overlapped => Exists(u.conn) /\ u.row = Merge(rows[u.conn], u.in)

LEMMA StoredStep ==
  ASSUME TypeOK, Issued, Fresh, AcceptedIsStored, [Next]_vars
  PROVE  Fresh' /\ AcceptedIsStored'
<1> USE DEF AcceptedIsStored
<1>1. CASE Quiet
  BY <1>1 DEF Quiet, observed, Fresh, Exists
<1>2. ASSUME NEW c \in Conn, NEW row \in Row, CreateConnection(c, row)
      PROVE  Fresh' /\ AcceptedIsStored'
  <2>1. Updates' = Updates /\ \A u \in Updates : u.conn # c
    BY <1>2 DEF CreateConnection, Updates, Issued
  <2>2. \A d \in Conn \ {c} : rows'[d] = rows[d] /\ accepted'[d] = accepted[d]
    BY <1>2 DEF CreateConnection, TypeOK
  <2>3. rows'[c] = row /\ accepted'[c] = row /\ overlapped' = overlapped
    BY <1>2 DEF CreateConnection, TypeOK
  <2> QED
    BY <2>1, <2>2, <2>3, UpdateTypes DEF Fresh, Exists
<1>3. ASSUME NEW c \in Conn, NEW in \in Input, ReadForUpdate(c, in)
      PROVE  Fresh' /\ AcceptedIsStored'
  <2>1. UNCHANGED <<rows, accepted, overlapped>> /\ Exists(c)
    BY <1>3 DEF ReadForUpdate, observed
  <2> QED
    BY <1>3, <2>1, NewUpdate DEF Fresh, Exists
<1>4. ASSUME NEW u \in Updates, Save(u)
      PROVE  Fresh' /\ AcceptedIsStored'
  <2> DEFINE c == u.conn
  <2>1. c \in Conn /\ u.row \in Row /\ u.in \in Input
    BY UpdateTypes
  <2>2. Write(c, u.row, u) /\ accepted' = [accepted EXCEPT ![c] = Accept(@, u.in)]
    BY <1>4 DEF Save
  <2>3. Updates' \subseteq Updates /\ u \notin Updates'
    BY <1>4 DEF Save, End, Updates
  <2>4. /\ \A d \in Conn \ {c} : rows'[d] = rows[d] /\ accepted'[d] = accepted[d]
        /\ rows'[c] = u.row /\ accepted'[c] = Accept(accepted[c], u.in)
    BY <2>1, <2>2, Overlaps DEF TypeOK
  <2>5. overlapped \subseteq overlapped' /\ \A v \in Updates' : v.conn = c => c \in overlapped'
    BY <2>1, <2>2, <2>3, Overlaps
  <2>6. Fresh'
    BY <2>1, <2>3, <2>4, <2>5, UpdateTypes DEF Fresh, Exists
  <2>7. c \notin overlapped' => rows'[c] = accepted'[c]
    <3> SUFFICES ASSUME c \notin overlapped' PROVE u.row = Accept(accepted[c], u.in)
      BY <2>4
    <3>1. rows[c] \in Row /\ u.row = Merge(rows[c], u.in) /\ accepted[c] = rows[c]
      BY <2>1, <2>5 DEF Fresh, Exists, TypeOK
    <3>2. u.in \in Input
      BY <2>1, UpdateTypes
    <3>3. Merge(rows[c], u.in) = Accept(rows[c], u.in)
      BY <3>1, <3>2, MergeIsAccept
    <3> QED
      BY <3>1, <3>3
  <2> QED
    BY <2>4, <2>5, <2>6, <2>7
<1>5. ASSUME NEW r \in requests \ Updates, r.conn \in Conn, Deletes(r)
      PROVE  Fresh' /\ AcceptedIsStored'
  <2> DEFINE c == r.conn
  <2>1. Write(c, Gone, r) /\ accepted' = [accepted EXCEPT ![c] = Gone]
    BY <1>5 DEF Deletes, DeleteConnection
  <2>2. Updates' \subseteq Updates
    BY <1>5 DEF Deletes, DeleteConnection, End, Updates
  <2>3. /\ \A d \in Conn \ {c} : rows'[d] = rows[d] /\ accepted'[d] = accepted[d]
        /\ rows'[c] = Gone /\ accepted'[c] = Gone
    BY <1>5, <2>1, Overlaps DEF TypeOK
  <2>4. overlapped \subseteq overlapped' /\ \A v \in Updates' : v.conn = c => c \in overlapped'
    BY <1>5, <2>1, <2>2, Overlaps
  <2> QED
    BY <2>2, <2>3, <2>4, UpdateTypes DEF Fresh, Exists
<1> QED
  BY <1>1, <1>2, <1>3, <1>4, <1>5, StepCases DEF Step

-----------------------------------------------------------------------------
\* Nobody holds another type of c: neither its row nor an update that leaves
\* the type alone.  This stays so until an update changes the type, even when
\* c is deleted and an update puts its row back.
Holds(c, type) ==
  /\ Exists(c) => rows[c].type = type
  /\ \A u \in Updates : u.conn = c /\ u.in.type = "" => u.row.type = type

LEMMA HoldsStep ==
  ASSUME TypeOK, Issued, [Next]_vars, NEW c \in Conn, NEW type,
         c \in issued, c \notin retyped', Holds(c, type)
  PROVE  Holds(c, type)'
<1>1. CASE Quiet
  BY <1>1 DEF Quiet, Holds, Exists
<1>2. ASSUME NEW d \in Conn, NEW row \in Row, CreateConnection(d, row)
      PROVE  Holds(c, type)'
  <2>1. c # d /\ Updates' = Updates
    BY <1>2 DEF CreateConnection, Updates
  <2>2. rows'[c] = rows[c]
    BY <1>2, <2>1 DEF CreateConnection, TypeOK
  <2> QED
    BY <2>1, <2>2 DEF Holds, Exists
<1>3. ASSUME NEW d \in Conn, NEW in \in Input, ReadForUpdate(d, in)
      PROVE  Holds(c, type)'
  <2>1. rows' = rows
    BY <1>3 DEF ReadForUpdate
  <2>2. ASSUME NEW u \in Updates', u \notin Updates, u.conn = c, u.in.type = ""
        PROVE  u.row.type = type
    <3>1. d = c /\ u.in = in /\ u.row = Merge(rows[d], in) /\ rows[d] \in Row /\ Exists(d)
      BY <1>3, <2>2, NewUpdate DEF ReadForUpdate
    <3>2. Merge(rows[d], in).type = rows[d].type
      BY <2>2, <3>1, MergeIsAccept
    <3> QED
      BY <3>1, <3>2 DEF Holds
  <2> QED
    BY <2>1, <2>2 DEF Holds, Exists
<1>4. ASSUME NEW u \in Updates, Save(u)
      PROVE  Holds(c, type)'
  <2>1. Updates' \subseteq Updates
    BY <1>4 DEF Save, End, Updates
  <2>2. rows' = [rows EXCEPT ![u.conn] = u.row]
    BY <1>4 DEF Save, Write
  <2>3. u.conn = c => u.in.type = ""
    BY <1>4 DEF Save
  <2>4. u.conn = c => rows'[c].type = type
    BY <2>2, <2>3 DEF Holds, TypeOK
  <2>5. u.conn # c => rows'[c] = rows[c]
    BY <2>2 DEF TypeOK
  <2> QED
    BY <2>1, <2>4, <2>5 DEF Holds, Exists
<1>5. ASSUME NEW r \in requests, r.conn \in Conn, Deletes(r)
      PROVE  Holds(c, type)'
  <2>1. Updates' \subseteq Updates
    BY <1>5 DEF Deletes, DeleteConnection, End, Updates
  <2>2. rows'[c] = rows[c] \/ rows'[c] = Gone
    BY <1>5 DEF Deletes, DeleteConnection, Write, TypeOK
  <2> QED
    BY <2>1, <2>2 DEF Holds, Exists
<1> QED
  BY <1>1, <1>2, <1>3, <1>4, <1>5, StepCases DEF Step

LEMMA RetypedGrows ==
  ASSUME TypeOK, [Next]_vars
  PROVE  retyped \subseteq retyped'
BY StepCases DEF Step, Quiet, observed, CreateConnection, ReadForUpdate, Save,
   Deletes, DeleteConnection

\* Nobody has two opinions about the type of a connection that was never retyped,
TypesAgree ==
  \A c \in issued \ retyped : \E type \in ConnType : Holds(c, type)

\* what Create has read of its connections is still true, and stays so in the
\* engine of its task.
CreatesFit ==
  \A r \in requests :
    r.op = "task" =>
      /\ r.source \notin retyped => Holds(r.source, r.type)
      /\ r.pc # "target" /\ {r.source, r.target} \cap retyped = {} =>
           Holds(r.target, r.type)

EnginesFit ==
  \A t \in tasks :
    {t.source, t.target} \cap retyped = {} =>
      \E type \in ConnType :
        t.engine = EngineForType(type) /\ Holds(t.source, type) /\ Holds(t.target, type)

LEMMA TypesAgreeStep ==
  ASSUME TypeOK, Issued, TypesAgree, [Next]_vars
  PROVE  TypesAgree'
<1> SUFFICES ASSUME NEW c \in issued', c \notin retyped'
             PROVE  \E type \in ConnType : Holds(c, type)'
  BY DEF TypesAgree
<1>1. CASE c \in issued
  <2>1. PICK type \in ConnType : Holds(c, type)
    BY <1>1, RetypedGrows DEF TypesAgree
  <2> QED
    BY <1>1, <2>1, HoldsStep DEF TypeOK
<1>2. CASE c \notin issued
  <2>1. PICK row \in Row : CreateConnection(c, row)
    BY <1>2, StepCases DEF Step, Quiet, CreateConnection, ReadForUpdate, Save, Deletes,
       DeleteConnection
  <2>2. Updates' = Updates /\ rows' = [rows EXCEPT ![c] = row]
    BY <2>1 DEF CreateConnection, Updates
  <2>3. \A u \in Updates : u.conn # c
    BY <1>2 DEF Issued
  <2>4. c \in Conn
    BY TypesStep DEF TypeOK
  <2>5. Holds(c, row.type)'
    BY <2>2, <2>3, <2>4 DEF Holds, TypeOK
  <2> QED
    BY <2>5, RowIsNotGone
<1> QED
  BY <1>1, <1>2

\* The type that a row has is the one that everybody holds.
LEMMA RowTells ==
  ASSUME TypeOK, Issued, TypesAgree, NEW c \in Conn, Exists(c), c \notin retyped
  PROVE  Holds(c, rows[c].type) /\ c \in issued
<1>1. c \in issued
  BY DEF Issued, Exists
<1>2. PICK type \in ConnType : Holds(c, type)
  BY <1>1 DEF TypesAgree
<1>3. rows[c].type = type
  BY <1>2 DEF Holds
<1> QED
  BY <1>1, <1>2, <1>3

LEMMA CreatesFitStep ==
  ASSUME TypeOK, Issued, TypesAgree, CreatesFit, [Next]_vars
  PROVE  CreatesFit'
<1> SUFFICES ASSUME NEW r \in requests', r.op = "task"
             PROVE  /\ r.source \notin retyped' => Holds(r.source, r.type)'
                    /\ r.pc # "target" /\ {r.source, r.target} \cap retyped' = {} =>
                         Holds(r.target, r.type)'
  BY DEF CreatesFit
<1>1. r \in TaskRequest
  BY TypesStep, RequestCases DEF TypeOK
<1>2. r.source \in Conn /\ r.target \in Conn
  BY <1>1 DEF TaskRequest
<1>3. CASE r \in requests
  <2>1. r.source \in issued /\ (r.pc # "target" => r.target \in issued)
    BY <1>3 DEF Issued
  <2> QED
    BY <1>2, <1>3, <2>1, HoldsStep, RetypedGrows DEF CreatesFit
<1>4. ASSUME NEW s \in Conn, NEW t \in Conn, ReadSource(s, t), r \notin requests
      PROVE  /\ r.pc = "target"
             /\ r.source \notin retyped' => Holds(r.source, r.type)'
  <2>1. r.source = s /\ r.pc = "target" /\ r.type = rows[s].type /\ Exists(s)
    BY <1>4 DEF ReadSource, Begin
  <2> QED
    BY <1>2, <2>1, RowTells, HoldsStep, RetypedGrows
<1>5. ASSUME NEW q \in requests, ReadTarget(q), r \notin requests
      PROVE  /\ r.source \notin retyped' => Holds(r.source, r.type)'
             /\ r.target \notin retyped' => Holds(r.target, r.type)'
  <2>1. /\ r = [q EXCEPT !.pc = "engine"] /\ q \in TaskRequest /\ q.pc = "target"
        /\ q.op = "task" /\ Exists(q.target) /\ rows[q.target].type = q.type
    BY <1>5, RequestCases DEF ReadTarget, GoOn, End, TypeOK
  <2>2. r.source = q.source /\ r.target = q.target /\ r.type = q.type
    BY <2>1 DEF TaskRequest
  <2>3. q.source \in issued
    BY <2>1 DEF Issued
  <2>4. r.source \notin retyped' => Holds(r.source, r.type)
    BY <2>1, <2>2, RetypedGrows DEF CreatesFit
  <2>5. r.target \notin retyped' => Holds(r.target, r.type) /\ r.target \in issued
    BY <1>2, <2>1, <2>2, RowTells, RetypedGrows
  <2> QED
    BY <1>2, <2>2, <2>3, <2>4, <2>5, HoldsStep
<1>6. ASSUME NEW q \in requests, ReadEngine(q), r \notin requests
      PROVE  /\ r.source \notin retyped' => Holds(r.source, r.type)'
             /\ {r.source, r.target} \cap retyped' = {} => Holds(r.target, r.type)'
  <2>1. /\ r = [q EXCEPT !.pc = "insert", !.type = rows[q.source].type] /\ q \in TaskRequest
        /\ q.op = "task" /\ q.pc = "engine" /\ Exists(q.source)
    BY <1>6, RequestCases DEF ReadEngine, GoOn, End, TypeOK
  <2>2. r.source = q.source /\ r.target = q.target /\ r.pc = "insert"
        /\ r.type = rows[q.source].type
    BY <2>1 DEF TaskRequest
  <2>3. q.source \in issued /\ q.target \in issued
    BY <2>1 DEF Issued
  <2>4. r.source \notin retyped' => Holds(r.source, r.type)
    BY <1>2, <2>1, <2>2, RowTells, RetypedGrows
  <2>5. ASSUME {r.source, r.target} \cap retyped' = {}
        PROVE  Holds(r.target, r.type)
    <3>1. Holds(q.source, q.type) /\ Holds(q.target, q.type)
      BY <2>1, <2>2, <2>5, RetypedGrows DEF CreatesFit
    <3>2. r.type = q.type
      BY <2>1, <2>2, <3>1 DEF Holds
    <3> QED
      BY <2>2, <3>1, <3>2
  <2> QED
    BY <1>2, <2>2, <2>3, <2>4, <2>5, HoldsStep
<1> QED
  BY <1>3, <1>4, <1>5, <1>6, NewTaskRequest


LEMMA EnginesFitStep ==
  ASSUME TypeOK, Issued, TasksReferToConnections, CreatesFit, EnginesFit, [Next]_vars
  PROVE  EnginesFit'
<1> SUFFICES ASSUME NEW t \in tasks', {t.source, t.target} \cap retyped' = {}
             PROVE  \E type \in ConnType :
                      /\ t.engine = EngineForType(type)
                      /\ Holds(t.source, type)' /\ Holds(t.target, type)'
  BY DEF EnginesFit
<1>1. t.source \in Conn /\ t.target \in Conn
  BY TypesStep DEF TypeOK, Task
<1>2. \E type \in ConnType :
        /\ t.engine = EngineForType(type) /\ Holds(t.source, type) /\ Holds(t.target, type)
        /\ t.source \in issued /\ t.target \in issued
  <2>1. CASE t \in tasks
    <3>1. t.source \in issued /\ t.target \in issued
      BY <1>1, <2>1 DEF TasksReferToConnections, Issued, Exists
    <3> QED
      BY <2>1, <3>1, RetypedGrows DEF EnginesFit
  <2>2. CASE t \notin tasks
    <3>1. PICK r \in requests : InsertTask(r)
      BY <2>2 DEF Next, vars, CreateConnection, ReadForUpdate, ReadForDelete, ReadSource,
         Save, CountTasks, DeleteConnection, ReadTarget, ReadEngine, RequestFails
    <3>2. /\ r.op = "task" /\ r.pc = "insert" /\ r \in TaskRequest
          /\ t = [source |-> r.source, target |-> r.target, engine |-> EngineForType(r.type)]
      BY <2>2, <3>1, RequestCases DEF InsertTask, TypeOK
    <3>3. t.source = r.source /\ t.target = r.target /\ t.engine = EngineForType(r.type)
      BY <3>2
    <3>4. r.type \in ConnType
      BY <3>2 DEF TaskRequest
    <3>5. Holds(r.source, r.type) /\ Holds(r.target, r.type)
      BY <3>2, <3>3, RetypedGrows DEF CreatesFit
    <3>6. r.source \in issued /\ r.target \in issued
      BY <3>2 DEF Issued
    <3> QED
      BY <3>3, <3>4, <3>5, <3>6
  <2> QED
    BY <2>1, <2>2
<1>3. PICK type \in ConnType :
        /\ t.engine = EngineForType(type) /\ Holds(t.source, type) /\ Holds(t.target, type)
        /\ t.source \in issued /\ t.target \in issued
  BY <1>2
<1>4. Holds(t.source, type)' /\ Holds(t.target, type)'
  BY <1>1, <1>3, HoldsStep
<1> QED
  BY <1>3, <1>4

-----------------------------------------------------------------------------
ConnectionsInv ==
  /\ TypeOK /\ Issued
  /\ TasksReferToConnections
  /\ Fresh /\ AcceptedIsStored
  /\ TypesAgree /\ CreatesFit /\ EnginesFit

LEMMA ConnectionsInvariant == Spec => []ConnectionsInv
<1>1. Init => ConnectionsInv
  BY DEF Init, ConnectionsInv, TypeOK, Issued, TasksReferToConnections, Fresh, AcceptedIsStored,
     TypesAgree, CreatesFit, EnginesFit, Updates
<1>2. ConnectionsInv /\ [Next]_vars => ConnectionsInv'
  BY TypesStep, IssuedStep, ReferencesStep, StoredStep, TypesAgreeStep, CreatesFitStep,
     EnginesFitStep DEF ConnectionsInv
<1> QED
  BY <1>1, <1>2, PTL DEF Spec

\* The handlers keep rows, requests and tasks of the modelled forms, over every
\* interleaving of their calls.
THEOREM ConnectionsTypes == Spec => []TypeOK
<1>1. ConnectionsInv => TypeOK
  BY DEF ConnectionsInv
<1> QED
  BY <1>1, ConnectionsInvariant, PTL

\* Deletes are counted in one call and done in another, and tasks are checked
\* in three calls and inserted in a fourth: with the foreign keys, no task is
\* left without a connection, whatever comes in between.
THEOREM TasksKeepConnections == Spec => []TasksReferToConnections
<1>1. ConnectionsInv => TasksReferToConnections
  BY DEF ConnectionsInv
<1> QED
  BY <1>1, ConnectionsInvariant, PTL

\* Create reads its source twice and its target once, beside updates that read
\* a row, merge and save it, and deletes: unless an update has changed a type,
\* the engine is that of both connections of the task.
THEOREM EnginesFitTypes == Spec => []EngineFitsConnections
<1>1. ConnectionsInv => EngineFitsConnections
  <2> SUFFICES ASSUME ConnectionsInv, NEW t \in tasks, {t.source, t.target} \cap retyped = {},
                      NEW c \in {t.source, t.target}
               PROVE  EngineForType(rows[c].type) = t.engine
    BY DEF EngineFitsConnections
  <2>1. PICK type \in ConnType :
          t.engine = EngineForType(type) /\ Holds(t.source, type) /\ Holds(t.target, type)
    BY DEF ConnectionsInv, EnginesFit
  <2>2. Exists(c)
    BY DEF ConnectionsInv, TasksReferToConnections
  <2> QED
    BY <2>1, <2>2 DEF Holds
<1> QED
  BY <1>1, ConnectionsInvariant, PTL

\* An update saves the whole row it has read: unless two writes overlapped, the
\* row is what the answered requests add up to.
THEOREM UpdatesAreKept == Spec => []AcceptedIsStored
<1>1. ConnectionsInv => AcceptedIsStored
  BY DEF ConnectionsInv
<1> QED
  BY <1>1, ConnectionsInvariant, PTL
=============================================================================
