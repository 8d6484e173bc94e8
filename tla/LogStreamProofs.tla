-------------------------- MODULE LogStreamProofs --------------------------
(***************************************************************************)
(* Theorems about LogStream, for any writers, rows and connections, and    *)
(* any capacity of the channels and length of the replay.                  *)
(***************************************************************************)
EXTENDS LogStream, SequenceTheorems, TLAPS

WriterState == [pc: {"insert", "publish", "send", "done", "panicked"},
                items: Seq(Item), to: SUBSET Conn]

LEMMA RowsOfType ==
  ASSUME NEW w \in Writer
  PROVE  /\ RowsOf(w) \in Seq(Row) /\ RowsOf(w) \in Seq(Item)
         /\ Len(RowsOf(w)) = Rows[w]
         /\ \A i \in 1..Len(RowsOf(w)) : RowsOf(w)[i] = <<w, i>>
  <1>1. Rows[w] \in Nat
    BY LogStreamAssumption
  <1>2. \A i \in 1..Rows[w] : <<w, i>> \in Row
    BY DEF Row
  <1>3. RowsOf(w) \in [1..Rows[w] -> Row]
    BY <1>2 DEF RowsOf
  <1>4. RowsOf(w) \in Seq(Row)
    BY <1>1, <1>3, SeqDef
  <1>5. Row \subseteq Item
    BY DEF Item
  <1>6. RowsOf(w) \in Seq(Item)
    BY <1>4, <1>5, SeqMonotonic
  <1>7. Len(RowsOf(w)) = Rows[w]
    BY <1>1, <1>3, <1>4, LenProperties DEF RowsOf
  <1> QED
    BY <1>4, <1>6, <1>7 DEF RowsOf

LEMMA ItemsOfType ==
  ASSUME NEW w \in Writer
  PROVE  /\ ItemsOf(w) \in Seq(Item)
         /\ w \notin Silent => \A i \in 1..Len(RowsOf(w)) : RowsOf(w)[i] \in ToSet(ItemsOf(w))
  <1> DEFINE a == IF w \in Silent THEN <<>> ELSE RowsOf(w)
             b == IF w \in Announcer THEN <<StatusEvent(w)>> ELSE <<>>
  <1>1. a \in Seq(Item) /\ b \in Seq(Item)
    <2>1. a \in Seq(Item)
      BY RowsOfType
    <2>2. w \in Announcer => StatusEvent(w) \in Item
      BY DEF Item
    <2>3. b \in Seq(Item)
      BY <2>2
    <2> QED
      BY <2>1, <2>3
  <1>2. ItemsOf(w) = a \o b
    BY DEF ItemsOf
  <1>3. ASSUME w \notin Silent, NEW i \in 1..Len(RowsOf(w))
        PROVE  RowsOf(w)[i] \in ToSet(ItemsOf(w))
    <2>1. a = RowsOf(w)
      BY <1>3
    <2> HIDE DEF a, b
    <2>2. /\ Len(a \o b) = Len(a) + Len(b) /\ a \o b \in Seq(Item)
          /\ (a \o b)[i] = a[i] /\ Len(a) \in Nat /\ Len(b) \in Nat
      BY <1>1, <1>3, <2>1, ConcatProperties, LenProperties
    <2>3. i \in DOMAIN (a \o b)
      BY <1>3, <2>1, <2>2, LenProperties
    <2> QED
      BY <1>2, <2>1, <2>2, <2>3 DEF ToSet
  <1> HIDE DEF a, b
  <1> QED
    BY <1>1, <1>2, <1>3, ConcatProperties

\* The items after the first one, and the first one.
LEMMA HeadTail ==
  ASSUME NEW S, NEW s \in Seq(S), s # <<>>
  PROVE  /\ Head(s) \in S /\ Tail(s) \in Seq(S) /\ Len(Tail(s)) = Len(s) - 1
         /\ Len(s) \in Nat \ {0} /\ Head(s) \in ToSet(s)
         /\ \A e \in ToSet(s) : e = Head(s) \/ e \in ToSet(Tail(s))
  <1>1. /\ Len(s) \in Nat \ {0} /\ DOMAIN s = 1..Len(s) /\ Head(s) = s[1] /\ Head(s) \in S
        /\ Tail(s) \in Seq(S) /\ Len(Tail(s)) = Len(s) - 1
        /\ \A i \in 1..Len(Tail(s)) : Tail(s)[i] = s[i + 1]
    BY EmptySeq, LenProperties, HeadTailProperties
  <1>2. ASSUME NEW i \in 1..Len(s), i # 1
        PROVE  s[i] \in ToSet(Tail(s))
    <2>1. i - 1 \in 1..Len(Tail(s)) /\ (i - 1) + 1 = i
      BY <1>1, <1>2
    <2>2. Tail(s)[i - 1] = s[i] /\ i - 1 \in DOMAIN Tail(s)
      BY <1>1, <2>1, LenProperties
    <2> QED
      BY <2>2 DEF ToSet
  <1>3. Head(s) \in ToSet(s)
    BY <1>1 DEF ToSet
  <1> QED
    BY <1>1, <1>2, <1>3 DEF ToSet

LEMMA Appended ==
  ASSUME NEW S, NEW s \in Seq(S), NEW e \in S
  PROVE  /\ Append(s, e) \in Seq(S) /\ Len(Append(s, e)) = Len(s) + 1 /\ Len(s) \in Nat
         /\ e \in ToSet(Append(s, e)) /\ ToSet(s) \subseteq ToSet(Append(s, e))
  <1>1. /\ Append(s, e) \in Seq(S) /\ Len(Append(s, e)) = Len(s) + 1 /\ Len(s) \in Nat
        /\ DOMAIN s = 1..Len(s) /\ DOMAIN Append(s, e) = 1..(Len(s) + 1)
        /\ Append(s, e)[Len(s) + 1] = e /\ \A i \in 1..Len(s) : Append(s, e)[i] = s[i]
    BY AppendProperties, LenProperties
  <1>2. e \in ToSet(Append(s, e))
    BY <1>1 DEF ToSet
  <1>3. ASSUME NEW i \in 1..Len(s)
        PROVE  s[i] \in ToSet(Append(s, e))
    <2>1. i \in DOMAIN Append(s, e) /\ Append(s, e)[i] = s[i]
      BY <1>1
    <2> QED
      BY <2>1 DEF ToSet
  <1> QED
    BY <1>1, <1>2, <1>3 DEF ToSet

(***************************************************************************)
(* Types.  A writer that publishes has something to publish.               *)
(***************************************************************************)
HasItems == \A w \in Writer : writers[w].pc \in {"publish", "send"} => writers[w].items # <<>>

StreamInv == TypeOK /\ HasItems

LEMMA StreamTypes ==
  ASSUME TypeOK
  PROVE  /\ table \in Seq(Row) /\ writers \in [Writer -> WriterState]
         /\ conns \in [Conn -> {"new", "replay", "write", "live", "gone"}]
         /\ channel \in [Conn -> Seq(Item)] /\ \A c \in Conn : Len(channel[c]) <= Buffer
         /\ closed \subseteq Conn /\ dropped \subseteq Conn
         /\ shown \in [Conn -> SUBSET Item]
  BY DEF TypeOK, WriterState

\* One writer goes on; the others stay.
Becomes(w, pc, items, to) ==
  /\ writers' \in [Writer -> WriterState]
  /\ writers'[w].pc = pc /\ writers'[w].items = items /\ writers'[w].to = to
  /\ \A v \in Writer : v # w => writers'[v] = writers[v]

LEMMA BecomesIf ==
  ASSUME TypeOK, NEW w \in Writer, NEW q \in WriterState, writers' = [writers EXCEPT ![w] = q]
  PROVE  Becomes(w, q.pc, q.items, q.to)
  BY StreamTypes DEF Becomes

Rest(items) == IF items = <<>> THEN "done" ELSE "publish"

LEMMA WriterMoves ==
  ASSUME StreamInv, NEW w \in Writer
  PROVE  /\ Insert(w) => Becomes(w, Rest(ItemsOf(w)), ItemsOf(w), {})
         /\ Snapshot(w) => Becomes(w, "send", writers[w].items, Subscribers)
         /\ \A c \in Conn : SendTo(w, c) =>
              Becomes(w, "send", writers[w].items, writers[w].to \ {c})
         /\ \A c \in Conn : Panic(w, c) =>
              Becomes(w, "panicked", writers[w].items, writers[w].to)
         /\ Published(w) => Becomes(w, Rest(Tail(writers[w].items)), Tail(writers[w].items), {})
  <1>0. TypeOK /\ writers \in [Writer -> WriterState] /\ writers[w] \in WriterState
    BY StreamTypes DEF StreamInv
  <1>1. ASSUME NEW pc \in {"insert", "publish", "send", "done", "panicked"},
               NEW items \in Seq(Item), NEW to \in SUBSET Conn,
               writers' = [writers EXCEPT ![w] = [pc |-> pc, items |-> items, to |-> to]]
        PROVE  Becomes(w, pc, items, to)
    <2>1. PICK q : q = [pc |-> pc, items |-> items, to |-> to]
      OBVIOUS
    <2>2. q \in WriterState /\ q.pc = pc /\ q.items = items /\ q.to = to
      BY <2>1 DEF WriterState
    <2>3. Becomes(w, q.pc, q.items, q.to)
      BY <1>0, <1>1, <2>1, <2>2, BecomesIf
    <2> QED
      BY <2>2, <2>3
  <1>2. ASSUME Insert(w) PROVE Becomes(w, Rest(ItemsOf(w)), ItemsOf(w), {})
    <2>1. writers' = [writers EXCEPT ![w] =
                        [pc |-> Rest(ItemsOf(w)), items |-> ItemsOf(w), to |-> {}]]
      BY <1>2 DEF Insert, Rest
    <2>2. Rest(ItemsOf(w)) \in {"insert", "publish", "send", "done", "panicked"}
      BY DEF Rest
    <2> QED
      BY <1>1, <2>1, <2>2, ItemsOfType
  <1>3. ASSUME Snapshot(w) PROVE Becomes(w, "send", writers[w].items, Subscribers)
    <2>1. PICK q : q = [writers[w] EXCEPT !.pc = "send", !.to = Subscribers]
      OBVIOUS
    <2>2. q.pc = "send" /\ q.items = writers[w].items /\ q.to = Subscribers /\ q \in WriterState
      BY <1>0, <2>1 DEF WriterState, Subscribers
    <2>3. writers' = [writers EXCEPT ![w] = q]
      BY <1>0, <1>3, <2>1 DEF Snapshot
    <2>4. Becomes(w, q.pc, q.items, q.to)
      BY <1>0, <2>2, <2>3, BecomesIf
    <2> QED
      BY <2>2, <2>4
  <1>4. ASSUME NEW c \in Conn, SendTo(w, c)
        PROVE  Becomes(w, "send", writers[w].items, writers[w].to \ {c})
    <2>1. PICK q : q = [writers[w] EXCEPT !.to = writers[w].to \ {c}]
      OBVIOUS
    <2>2. /\ q.pc = "send" /\ q.items = writers[w].items /\ q.to = writers[w].to \ {c}
          /\ q \in WriterState
      BY <1>0, <1>4, <2>1 DEF WriterState, SendTo
    <2>3. writers' = [writers EXCEPT ![w] = q]
      BY <1>0, <1>4, <2>1 DEF SendTo
    <2>4. Becomes(w, q.pc, q.items, q.to)
      BY <1>0, <2>2, <2>3, BecomesIf
    <2> QED
      BY <2>2, <2>4
  <1>5. ASSUME NEW c \in Conn, Panic(w, c)
        PROVE  Becomes(w, "panicked", writers[w].items, writers[w].to)
    <2>1. PICK q : q = [writers[w] EXCEPT !.pc = "panicked"]
      OBVIOUS
    <2>2. q.pc = "panicked" /\ q.items = writers[w].items /\ q.to = writers[w].to /\ q \in WriterState
      BY <1>0, <2>1 DEF WriterState
    <2>3. writers' = [writers EXCEPT ![w] = q]
      BY <1>0, <1>5, <2>1 DEF Panic
    <2>4. Becomes(w, q.pc, q.items, q.to)
      BY <1>0, <2>2, <2>3, BecomesIf
    <2> QED
      BY <2>2, <2>4
  <1>6. ASSUME Published(w)
        PROVE  Becomes(w, Rest(Tail(writers[w].items)), Tail(writers[w].items), {})
    <2>1. writers' = [writers EXCEPT ![w] =
                        [pc |-> Rest(Tail(writers[w].items)), items |-> Tail(writers[w].items),
                         to |-> {}]]
      BY <1>6 DEF Published, Rest
    <2>2. Rest(Tail(writers[w].items)) \in {"insert", "publish", "send", "done", "panicked"}
      BY DEF Rest
    <2>3. writers[w].items \in Seq(Item) /\ writers[w].items # <<>>
      BY <1>0, <1>6 DEF WriterState, Published, StreamInv, HasItems
    <2>4. Tail(writers[w].items) \in Seq(Item)
      BY <2>3, HeadTail
    <2> QED
      BY <1>1, <2>1, <2>2, <2>4
  <1> QED
    BY <1>2, <1>3, <1>4, <1>5, <1>6

LEMMA WriterTypes ==
  ASSUME StreamInv, NEW w \in Writer, WriterStep(w)
  PROVE  StreamInv'
  <1>0. TypeOK /\ writers[w] \in WriterState /\ HasItems
    BY StreamTypes DEF StreamInv
  <1>1. writers' \in [Writer -> WriterState] /\ HasItems'
    <2>1. ASSUME NEW pc, NEW items, NEW to, Becomes(w, pc, items, to),
                 pc \in {"publish", "send"} => items # <<>>
          PROVE  writers' \in [Writer -> WriterState] /\ HasItems'
      BY <1>0, <2>1 DEF Becomes, HasItems
    <2>2. CASE Insert(w)
      <3>1. Becomes(w, Rest(ItemsOf(w)), ItemsOf(w), {})
        BY <2>2, WriterMoves
      <3>2. Rest(ItemsOf(w)) \in {"publish", "send"} => ItemsOf(w) # <<>>
        BY DEF Rest
      <3> QED
        BY <2>1, <3>1, <3>2
    <2>3. CASE Snapshot(w)
      <3>1. writers[w].items # <<>>
        BY <1>0, <2>3 DEF Snapshot, HasItems
      <3> QED
        BY <2>1, <2>3, <3>1, WriterMoves
    <2>4. ASSUME NEW c \in Conn, SendTo(w, c)
          PROVE  writers' \in [Writer -> WriterState] /\ HasItems'
      <3>1. writers[w].items # <<>>
        BY <1>0, <2>4 DEF SendTo, HasItems
      <3>2. Becomes(w, "send", writers[w].items, writers[w].to \ {c})
        BY <2>4, WriterMoves
      <3> QED
        BY <2>1, <3>1, <3>2
    <2>5. ASSUME NEW c \in Conn, Panic(w, c)
          PROVE  writers' \in [Writer -> WriterState] /\ HasItems'
      <3>1. Becomes(w, "panicked", writers[w].items, writers[w].to)
        BY <2>5, WriterMoves
      <3> QED
        BY <2>1, <3>1
    <2>6. CASE Published(w)
      <3>1. Becomes(w, Rest(Tail(writers[w].items)), Tail(writers[w].items), {})
        BY <2>6, WriterMoves
      <3>2. Rest(Tail(writers[w].items)) \in {"publish", "send"} => Tail(writers[w].items) # <<>>
        BY DEF Rest
      <3> QED
        BY <2>1, <3>1, <3>2
    <2> QED
      BY <2>2, <2>3, <2>4, <2>5, <2>6 DEF WriterStep
  <1>2. table' \in Seq(Row)
    <2>1. Insert(w) => table' = table \o RowsOf(w)
      BY DEF Insert
    <2>2. table \o RowsOf(w) \in Seq(Row)
      BY <1>0, StreamTypes, RowsOfType, ConcatProperties
    <2>3. Insert(w) \/ table' = table
      BY DEF WriterStep, Snapshot, Published, SendTo, Panic
    <2> QED
      BY <1>0, <2>1, <2>2, <2>3, StreamTypes
  <1>3. /\ channel' \in [Conn -> Seq(Item)] /\ \A c \in Conn : Len(channel'[c]) <= Buffer
        /\ dropped' \subseteq Conn
    <2>1. ASSUME NEW c \in Conn, SendTo(w, c)
          PROVE  /\ channel' \in [Conn -> Seq(Item)] /\ \A d \in Conn : Len(channel'[d]) <= Buffer
                 /\ dropped' \subseteq Conn
      <3>1. writers[w].items \in Seq(Item) /\ writers[w].items # <<>>
        BY <1>0, <2>1 DEF WriterState, SendTo, HasItems
      <3>2. PICK e : e = Append(channel[c], Head(writers[w].items))
        OBVIOUS
      <3>3. channel[c] \in Seq(Item) /\ Head(writers[w].items) \in Item
        BY <1>0, <3>1, HeadTail, StreamTypes
      <3>4. e \in Seq(Item) /\ Len(e) = Len(channel[c]) + 1 /\ Len(channel[c]) \in Nat
        BY <3>2, <3>3, Appended
      <3>5. Len(channel[c]) < Buffer => Len(e) <= Buffer
        BY <3>4, LogStreamAssumption
      <3>6. \/ channel' = [channel EXCEPT ![c] = e] /\ Len(channel[c]) < Buffer /\ dropped' = dropped
            \/ channel' = channel /\ dropped' = dropped \cup {c}
        BY <1>0, <2>1, <3>2, StreamTypes DEF SendTo
      <3> QED
        BY <1>0, <3>4, <3>5, <3>6, StreamTypes
    <2>2. CASE UNCHANGED <<channel, dropped>>
      BY <1>0, <2>2, StreamTypes
    <2> QED
      BY <2>1, <2>2 DEF WriterStep, Insert, Snapshot, Published, Panic
  <1>4. UNCHANGED <<conns, closed, shown>>
    BY DEF WriterStep, Insert, Snapshot, Published, Panic, SendTo
  <1> QED
    BY <1>0, <1>1, <1>2, <1>3, <1>4, StreamTypes DEF StreamInv, TypeOK, WriterState

LEMMA ConnTypes ==
  ASSUME StreamInv, NEW c \in Conn, ConnStep(c)
  PROVE  StreamInv'
  <1>0. TypeOK
    BY DEF StreamInv
  <1>1. conns' \in [Conn -> {"new", "replay", "write", "live", "gone"}]
        /\ closed' \subseteq Conn /\ dropped' \subseteq Conn
    BY <1>0, StreamTypes
       DEF ConnStep, Subscribe, Replay, ReplayFails, GoLive, Forward, Disconnect
  <1>2. shown' \in [Conn -> SUBSET Item] /\ channel' \in [Conn -> Seq(Item)]
        /\ \A d \in Conn : Len(channel'[d]) <= Buffer
    <2>1. CASE Replay(c)
      <3>1. PICK S : S = {table[i] : i \in {k \in DOMAIN table : k <= ReplayLimit}}
        OBVIOUS
      <3>2. S \subseteq Item
        BY <1>0, <3>1, StreamTypes, LenProperties DEF Item
      <3> QED
        BY <1>0, <2>1, <3>1, <3>2, StreamTypes DEF Replay
    <2>2. CASE Forward(c)
      <3>1. PICK e : e = Tail(channel[c])
        OBVIOUS
      <3>2. PICK S : S = shown[c] \cup {Head(channel[c])}
        OBVIOUS
      <3>3. /\ Head(channel[c]) \in Item /\ e \in Seq(Item) /\ Len(e) = Len(channel[c]) - 1
            /\ Len(channel[c]) \in Nat \ {0} /\ Len(channel[c]) <= Buffer
        BY <1>0, <2>2, <3>1, StreamTypes, HeadTail DEF Forward
      <3>4. Len(e) <= Buffer
        BY <3>3, LogStreamAssumption
      <3>5. channel' = [channel EXCEPT ![c] = e] /\ shown' = [shown EXCEPT ![c] = S]
        BY <1>0, <2>2, <3>1, <3>2, StreamTypes DEF Forward
      <3> QED
        BY <1>0, <3>2, <3>3, <3>4, <3>5, StreamTypes
    <2>3. CASE UNCHANGED <<shown, channel>>
      BY <1>0, <2>3, StreamTypes
    <2> QED
      BY <2>1, <2>2, <2>3 DEF ConnStep, Subscribe, ReplayFails, GoLive, Disconnect
  <1>3. UNCHANGED <<table, writers>>
    BY DEF ConnStep, Subscribe, Replay, ReplayFails, GoLive, Forward, Disconnect
  <1> QED
    BY <1>0, <1>1, <1>2, <1>3, StreamTypes DEF StreamInv, TypeOK, WriterState, HasItems

LEMMA StreamInit == Init => StreamInv
  <1> SUFFICES ASSUME Init PROVE StreamInv
    OBVIOUS
  <1>1. PICK q : q = [pc |-> "insert", items |-> <<>>, to |-> {}]
    OBVIOUS
  <1>2. q \in WriterState /\ q.pc = "insert"
    BY <1>1 DEF WriterState
  <1>3. writers \in [Writer -> WriterState] /\ \A w \in Writer : writers[w].pc = "insert"
    BY <1>1, <1>2 DEF Init
  <1>4. channel \in [Conn -> Seq(Item)] /\ \A c \in Conn : Len(channel[c]) <= Buffer
    BY LogStreamAssumption DEF Init
  <1> QED
    BY <1>3, <1>4 DEF Init, StreamInv, TypeOK, HasItems, WriterState

LEMMA EndTypes ==
  ASSUME StreamInv, NEW w \in Writer, NEW c \in Conn, BackendEnds(w, c)
  PROVE  StreamInv'
  <1>1. writers \in [Writer -> WriterState] /\ HasItems
    BY StreamTypes DEF StreamInv
  <1>2. \A v \in Writer : [writers[v] EXCEPT !.pc = "panicked"] \in WriterState
    BY <1>1 DEF WriterState
  <1>3. /\ writers' \in [Writer -> WriterState]
        /\ \A v \in Writer : writers'[v].pc \in {"done", "panicked"}
    BY <1>1, <1>2 DEF BackendEnds, WriterState
  <1> QED
    BY <1>3 DEF BackendEnds, StreamInv, TypeOK, HasItems, WriterState

LEMMA StreamNext == StreamInv /\ [Next]_vars => StreamInv'
  <1>1. StreamInv /\ UNCHANGED vars => StreamInv'
    BY DEF vars, StreamInv, TypeOK, HasItems
  <1> QED
    BY <1>1, WriterTypes, ConnTypes, EndTypes DEF Next

\* Types: a channel never holds more than its capacity, and what is published
\* is a row or the status of an announcer.
THEOREM StreamTypeCorrect == Spec => []TypeOK
  <1>1. StreamInv => TypeOK
    BY DEF StreamInv
  <1> QED
    BY <1>1, StreamInit, StreamNext, PTL DEF Spec

(***************************************************************************)
(* Nothing missed.                                                         *)
(***************************************************************************)
LEMMA RowsAndWriters ==
  ASSUME TypeOK
  PROVE  /\ \A i \in DOMAIN table : table[i] \in Row
         /\ \A row \in Row : row[1] \in Writer /\ row \in Item
         /\ \A row \in Row : \E k \in 1..Rows[row[1]] : row = <<row[1], k>>
  <1>1. \A i \in DOMAIN table : table[i] \in Row
    BY StreamTypes, LenProperties
  <1> QED
    BY <1>1 DEF Row, Item

\* What an insert stores, its writer will offer to every subscriber.
LEMMA InsertOffers ==
  ASSUME StreamInv, NEW w \in Writer, Insert(w), w \notin Silent,
         NEW c \in Conn, NEW row \in Row, row[1] = w
  PROVE  Reaches(c, row)'
  <1>0. TypeOK
    BY DEF StreamInv
  <1>1. Becomes(w, Rest(ItemsOf(w)), ItemsOf(w), {})
    BY WriterMoves
  <1>2. PICK k \in 1..Rows[w] : row = <<w, k>>
    BY <1>0, RowsAndWriters
  <1>3. k \in 1..Len(RowsOf(w)) /\ RowsOf(w)[k] = row
    BY <1>2, RowsOfType
  <1>4. row \in ToSet(ItemsOf(w))
    BY <1>3, ItemsOfType
  <1>5. Rest(ItemsOf(w)) # "send"
    BY DEF Rest
  <1>6. writers'[row[1]].items = ItemsOf(w) /\ writers'[row[1]].pc # "send"
    BY <1>1, <1>5 DEF Becomes
  <1> QED
    BY <1>4, <1>6 DEF Reaches, ToCome

\* The rest of a writer's steps: a publication, with its sends.
LEMMA PublicationKeeps ==
  ASSUME StreamInv, NEW w \in Writer, WriterStep(w), ~Insert(w),
         NEW c \in Subscribers, c \notin dropped', NEW row \in Row, Reaches(c, row),
         writers'[row[1]].pc # "panicked"
  PROVE  Reaches(c, row)'
  <1>0. TypeOK /\ HasItems /\ c \in Conn /\ writers \in [Writer -> WriterState] /\ row[1] \in Writer
    BY StreamTypes, RowsAndWriters DEF StreamInv, Subscribers
  <1>1. shown' = shown
    BY DEF WriterStep, Snapshot, Published, Panic, SendTo
  <1>2. channel' = channel \/ \E d \in Conn : SendTo(w, d)
    BY DEF WriterStep, Snapshot, Published, Panic
  <1>3. ASSUME NEW d \in Conn, SendTo(w, d)
        PROVE  /\ ToSet(channel[c]) \subseteq ToSet(channel'[c])
               /\ d = c => Head(writers[w].items) \in ToSet(channel'[c])
    <2>1. channel \in [Conn -> Seq(Item)] /\ channel[c] \in Seq(Item)
      BY <1>0, StreamTypes
    <2>2. PICK e : e = Append(channel[d], Head(writers[w].items))
      OBVIOUS
    <2>3. Head(writers[w].items) \in Item /\ channel[d] \in Seq(Item)
      BY <1>0, <1>3, <2>1, HeadTail DEF WriterState, SendTo, HasItems
    <2>4. Head(writers[w].items) \in ToSet(e) /\ ToSet(channel[d]) \subseteq ToSet(e)
      BY <2>2, <2>3, Appended
    <2>5. \/ channel' = [channel EXCEPT ![d] = e]
          \/ channel' = channel /\ dropped' = dropped \cup {d}
      BY <1>3, <2>1, <2>2 DEF SendTo
    <2> QED
      BY <1>0, <2>1, <2>4, <2>5
  <1>4. ToSet(channel[c]) \subseteq ToSet(channel'[c])
    BY <1>2, <1>3
  <1>5. ASSUME ToCome(c, row)
        PROVE  Reaches(c, row)'
    <2>0. row \in ToSet(writers[row[1]].items)
      BY <1>5 DEF ToCome
    <2>1. CASE row[1] # w
      <3>1. writers'[row[1]] = writers[row[1]]
        BY <1>0, <2>1, WriterMoves DEF WriterStep, Becomes
      <3> QED
        BY <1>5, <3>1 DEF Reaches, ToCome
    <2>2. CASE row[1] = w /\ Snapshot(w)
      <3>1. Becomes(w, "send", writers[w].items, Subscribers)
        BY <2>2, WriterMoves
      <3> QED
        BY <2>0, <2>2, <3>1 DEF Becomes, Reaches, ToCome
    <2>3. ASSUME row[1] = w, NEW d \in Conn, SendTo(w, d)
          PROVE  Reaches(c, row)'
      <3>1. Becomes(w, "send", writers[w].items, writers[w].to \ {d})
        BY <2>3, WriterMoves
      <3>2. CASE d = c /\ row = Head(writers[w].items)
        BY <1>3, <2>3, <3>2 DEF Reaches
      <3>3. CASE row # Head(writers[w].items)
        BY <2>0, <2>3, <3>1, <3>3 DEF Becomes, Reaches, ToCome
      <3>4. CASE d # c /\ row = Head(writers[w].items)
        <4>1. c \in writers[w].to
          BY <1>5, <2>3, <3>4 DEF ToCome, SendTo
        <4> QED
          BY <2>0, <2>3, <3>1, <3>4, <4>1 DEF Becomes, Reaches, ToCome
      <3> QED
        BY <3>2, <3>3, <3>4
    <2>4. ASSUME row[1] = w, NEW d \in Conn, Panic(w, d)
          PROVE  FALSE
      <3>1. Becomes(w, "panicked", writers[w].items, writers[w].to)
        BY <2>4, WriterMoves
      <3> QED
        BY <2>4, <3>1 DEF Becomes
    <2>5. CASE row[1] = w /\ Published(w)
      <3>1. Becomes(w, Rest(Tail(writers[w].items)), Tail(writers[w].items), {})
        BY <2>5, WriterMoves
      <3>2. row # Head(writers[w].items)
        BY <1>5, <2>5 DEF ToCome, Published
      <3>3. writers[w].items \in Seq(Item) /\ writers[w].items # <<>>
        BY <1>0, <2>5 DEF WriterState, Published, HasItems
      <3>4. row \in ToSet(Tail(writers[w].items))
        BY <2>0, <2>5, <3>2, <3>3, HeadTail
      <3>5. Rest(Tail(writers[w].items)) # "send"
        BY DEF Rest
      <3> QED
        BY <2>5, <3>1, <3>4, <3>5 DEF Becomes, Reaches, ToCome
    <2> QED
      BY <2>1, <2>2, <2>3, <2>4, <2>5 DEF WriterStep
  <1> QED
    BY <1>1, <1>4, <1>5 DEF Reaches

\* A row a replay reads, and of a writer that publishes and has not panicked.
Due(i) ==
  /\ i \in DOMAIN table /\ i <= ReplayLimit
  /\ table[i][1] \notin Silent /\ writers[table[i][1]].pc # "panicked"

LEMMA MissedOrNot ==
  NothingMissed <=> \A c \in Subscribers : conns[c] # "replay" /\ c \notin dropped =>
                      \A i, row : Due(i) /\ row = table[i] => Reaches(c, row)
  BY DEF NothingMissed, Due

LEMMA WriterMissesNothing ==
  ASSUME StreamInv, NothingMissed, NEW w \in Writer, WriterStep(w)
  PROVE  NothingMissed'
  <1>0. TypeOK
    BY DEF StreamInv
  <1>1. UNCHANGED <<conns, closed, shown>> /\ dropped \subseteq dropped'
    BY DEF WriterStep, Insert, Snapshot, Published, Panic, SendTo
  <1> SUFFICES ASSUME NEW c \in Subscribers, conns[c] # "replay", c \notin dropped',
                      NEW i, Due(i)', NEW row, row = table'[i]
               PROVE  Reaches(c, row)'
    BY <1>1 DEF NothingMissed, Due, Subscribers
  <1>2. c \in Conn /\ c \notin dropped
    BY <1>1 DEF Subscribers
  <1>3. CASE Insert(w)
    <2>1. table' = table \o RowsOf(w) /\ table \in Seq(Row) /\ RowsOf(w) \in Seq(Row)
      BY <1>0, <1>3, StreamTypes, RowsOfType DEF Insert
    <2>2. /\ Len(table) \in Nat /\ DOMAIN table = 1..Len(table)
          /\ DOMAIN table' = 1..(Len(table) + Len(RowsOf(w))) /\ Len(RowsOf(w)) \in Nat
          /\ table' \in Seq(Row)
      BY <2>1, LenProperties, ConcatProperties
    <2>3. i \in DOMAIN table' /\ row \in Row
      BY <2>2, LenProperties DEF Due
    <2>4. CASE row[1] = w
      <3>1. w \notin Silent
        BY <2>4 DEF Due
      <3> QED
        BY <1>2, <1>3, <2>3, <2>4, <3>1, InsertOffers
    <2>5. CASE row[1] # w
      <3>1. i <= Len(table)
        <4>1. SUFFICES ASSUME i > Len(table) PROVE FALSE
          BY <2>2, <2>3
        <4>2. i - Len(table) \in 1..Len(RowsOf(w))
          BY <2>2, <2>3, <4>1
        <4>3. row = RowsOf(w)[i - Len(table)]
          BY <2>1, <2>2, <2>3, <4>1, ConcatProperties
        <4> QED
          BY <2>5, <4>2, <4>3, RowsOfType
      <3>2. i \in DOMAIN table /\ row = table[i]
        BY <2>1, <2>2, <2>3, <3>1, ConcatProperties
      <3>3. row[1] \in Writer
        BY <1>0, <3>2, RowsAndWriters
      <3>4. writers'[row[1]] = writers[row[1]]
        BY <1>3, <2>5, <3>2, <3>3, WriterMoves DEF Becomes
      <3>5. Due(i)
        BY <3>2, <3>4 DEF Due
      <3>6. Reaches(c, row)
        BY <1>2, <3>2, <3>5, MissedOrNot
      <3>7. channel' = channel
        BY <1>3 DEF Insert
      <3> QED
        BY <1>1, <3>2, <3>4, <3>6, <3>7 DEF Reaches, ToCome
    <2> QED
      BY <2>4, <2>5
  <1>4. CASE ~Insert(w)
    <2>1. table' = table
      BY <1>4 DEF WriterStep, Snapshot, Published, Panic, SendTo
    <2>2. row = table[i] /\ i \in DOMAIN table /\ row \in Row /\ row[1] \in Writer
      BY <1>0, <2>1, RowsAndWriters DEF Due
    <2>3. writers'[row[1]].pc # "panicked"
      BY <2>1, <2>2 DEF Due
    <2>4. writers[row[1]].pc # "panicked"
      <3>1. CASE row[1] = w
        BY <1>4, <3>1 DEF WriterStep, Snapshot, Published, Panic, SendsToClosed, SendTo
      <3>2. CASE row[1] # w
        <4>1. writers'[row[1]] = writers[row[1]]
          BY <1>4, <2>2, <3>2, WriterMoves DEF WriterStep, Becomes
        <4> QED
          BY <2>3, <4>1
      <3> QED
        BY <3>1, <3>2
    <2>5. Due(i)
      BY <2>1, <2>2, <2>4 DEF Due
    <2>6. Reaches(c, row)
      BY <1>2, <2>2, <2>5, MissedOrNot
    <2>7. Reaches(c, row)'
      BY <1>4, <2>2, <2>3, <2>6, PublicationKeeps
    <2> QED
      BY <2>1, <2>7 DEF Reaches, ToCome
  <1> QED
    BY <1>3, <1>4

LEMMA ConnMissesNothing ==
  ASSUME StreamInv, NothingMissed, NEW d \in Conn, ConnStep(d)
  PROVE  NothingMissed'
  <1>0. TypeOK
    BY DEF StreamInv
  <1>1. UNCHANGED <<table, writers>> /\ dropped \subseteq dropped'
    BY DEF ConnStep, Subscribe, Replay, ReplayFails, GoLive, Forward, Disconnect
  <1>2. /\ conns \in [Conn -> {"new", "replay", "write", "live", "gone"}]
        /\ channel \in [Conn -> Seq(Item)] /\ shown \in [Conn -> SUBSET Item]
    BY <1>0, StreamTypes
  <1> SUFFICES ASSUME NEW c \in Subscribers', conns'[c] # "replay", c \notin dropped',
                      NEW i, Due(i), NEW row, row = table[i]
               PROVE  Reaches(c, row)'
    BY <1>1 DEF NothingMissed, Due
  <1>3. c \in Conn /\ c \notin dropped /\ i \in DOMAIN table /\ i <= ReplayLimit
    BY <1>1 DEF Subscribers, Due
  <1>4. CASE Replay(d) /\ d = c
    <2>1. PICK S : S = {table[k] : k \in {j \in DOMAIN table : j <= ReplayLimit}}
      OBVIOUS
    <2>2. shown'[c] = S
      BY <1>2, <1>4, <2>1 DEF Replay
    <2>3. row \in S
      BY <1>3, <2>1
    <2> QED
      BY <2>2, <2>3 DEF Reaches
  <1>5. CASE ~(Replay(d) /\ d = c)
    <2>1. conns[c] \in {"write", "live"}
      BY <1>1, <1>2, <1>3, <1>5
         DEF ConnStep, Subscribe, Replay, ReplayFails, GoLive, Forward, Disconnect, Subscribers
    <2>2. Reaches(c, row)
      BY <1>3, <2>1, MissedOrNot DEF Subscribers
    <2>3. \A e \in ToSet(channel[c]) : e \in ToSet(channel'[c]) \/ e \in shown'[c]
      <3>1. CASE Forward(d) /\ d = c
        <4>1. channel[c] \in Seq(Item) /\ channel[c] # <<>>
          BY <1>2, <1>3, <3>1 DEF Forward
        <4>2. channel'[c] = Tail(channel[c]) /\ Head(channel[c]) \in shown'[c]
          BY <1>2, <1>3, <3>1 DEF Forward
        <4> QED
          BY <4>1, <4>2, HeadTail
      <3>2. CASE ~(Forward(d) /\ d = c)
        <4>1. channel'[c] = channel[c]
          BY <1>2, <1>3, <3>2
             DEF ConnStep, Subscribe, Replay, ReplayFails, GoLive, Forward, Disconnect
        <4> QED
          BY <4>1
      <3> QED
        BY <3>1, <3>2
    <2>4. shown[c] \subseteq shown'[c]
      BY <1>2, <1>3, <1>5
         DEF ConnStep, Subscribe, Replay, ReplayFails, GoLive, Forward, Disconnect
    <2> QED
      BY <1>1, <2>2, <2>3, <2>4 DEF Reaches, ToCome
  <1> QED
    BY <1>4, <1>5

\* However subscriptions, replays and publications interleave, a row within
\* the replay is shown, in the channel, or still to be offered.
THEOREM NothingIsMissed == Spec => []NothingMissed
  <1>1. Init => NothingMissed
    BY DEF Init, NothingMissed, Subscribers
  <1>2. StreamInv /\ NothingMissed /\ [Next]_vars => NothingMissed'
    <2>1. NothingMissed /\ UNCHANGED vars => NothingMissed'
      BY DEF vars, NothingMissed, Subscribers, Reaches, ToCome
    <2>2. ASSUME NEW w \in Writer, NEW c \in Conn, BackendEnds(w, c)
          PROVE  NothingMissed'
      <3>1. Subscribers' = {}
        BY <2>2 DEF BackendEnds, Subscribers
      <3> QED
        BY <3>1 DEF NothingMissed
    <2> QED
      BY <2>1, <2>2, WriterMissesNothing, ConnMissesNothing DEF Next
  <1> QED
    BY <1>1, <1>2, StreamInit, StreamNext, PTL DEF Spec
=============================================================================
