----------------------------- MODULE LogStream -----------------------------
(***************************************************************************)
(* The live log of one task.  Handlers and watchers of the backend insert  *)
(* rows into migration_logs and then publish them through the hub, and     *)
(* publish the status they have written; a connection of the stream        *)
(* endpoint subscribes to the hub, replays the table, and then forwards    *)
(* what arrives in its channel.                                            *)
(*                                                                         *)
(* Publish copies the set of channels under the read lock and sends after  *)
(* it; the unsubscribe function of a connection that ends takes its        *)
(* channel out of the set and closes it under the write lock.              *)
(***************************************************************************)
EXTENDS Naturals, Sequences, SequencesExt

CONSTANTS
  Writer,       \* the calls that insert rows, each of them once
  Handler,      \* those that are requests; the others are watchers' goroutines
  Rows,         \* writer -> how many rows its INSERT brings
  Silent,       \* the writers that do not publish their rows
  Announcer,    \* the writers that publish a status event in the end
  Conn,         \* connections of the stream endpoint
  Buffer,       \* capacity of a connection's channel (256)
  ReplayLimit   \* rows that a replay reads (500)

ASSUME LogStreamAssumption ==
  /\ Rows \in [Writer -> Nat]
  /\ Handler \subseteq Writer /\ Silent \subseteq Writer /\ Announcer \subseteq Writer
  /\ Buffer \in Nat \ {0} /\ ReplayLimit \in Nat \ {0}

VARIABLES
  table,        \* migration_logs of the task, in the order of the ids
  writers,      \* writer -> its items still to publish, and the channels
                \* that the Publish it is in has still to serve
  conns,        \* connection -> where its handler is
  channel,      \* connection -> the items in its channel
  closed,       \* connections whose channel is closed
  shown,        \* connection -> the items written to the browser
  dropped       \* observation: connections for which an item was dropped,
                \* or the replay failed

vars == <<table, writers, conns, channel, closed, shown, dropped>>

Row == UNION {{<<w, i>> : i \in 1..Rows[w]} : w \in Writer}
RowsOf(w) == [i \in 1..Rows[w] |-> <<w, i>>]

\* What is published: log events, each for a row, and status events.
StatusEvent(w) == <<w, 0>>
Item == Row \cup {StatusEvent(w) : w \in Announcer}
ItemsOf(w) ==
  (IF w \in Silent THEN <<>> ELSE RowsOf(w))
    \o (IF w \in Announcer THEN <<StatusEvent(w)>> ELSE <<>>)

\* Faulty variant: a connection is in the set only once it has replayed.
LateSubscribers == {c \in Conn : conns[c] = "live"}

\* The channels in the hub's set.
Subscribers == {c \in Conn : conns[c] \in {"replay", "write", "live"}}

Init ==
  /\ table = <<>>
  /\ writers = [w \in Writer |-> [pc |-> "insert", items |-> <<>>, to |-> {}]]
  /\ conns = [c \in Conn |-> "new"]
  /\ channel = [c \in Conn |-> <<>>]
  /\ shown = [c \in Conn |-> {}]
  /\ closed = {} /\ dropped = {}

(***************************************************************************)
(* The writers.                                                            *)
(***************************************************************************)

\* AddLog or AddLogs: one INSERT.
Insert(w) ==
  /\ writers[w].pc = "insert"
  /\ table' = table \o RowsOf(w)
  /\ writers' = [writers EXCEPT ![w] =
       [pc |-> IF ItemsOf(w) = <<>> THEN "done" ELSE "publish",
        items |-> ItemsOf(w), to |-> {}]]
  /\ UNCHANGED <<conns, channel, closed, shown, dropped>>

\* Publish of the next item: the channels, under the read lock.
Snapshot(w) ==
  /\ writers[w].pc = "publish"
  /\ writers' = [writers EXCEPT ![w].pc = "send", ![w].to = Subscribers]
  /\ UNCHANGED <<table, conns, channel, closed, shown, dropped>>

\* Faulty variant: the capacity is missed by one.
SendOneMore(w, c) ==
  /\ writers[w].pc = "send" /\ c \in writers[w].to /\ c \notin closed
  /\ writers' = [writers EXCEPT ![w].to = @ \ {c}]
  /\ IF Len(channel[c]) <= Buffer
     THEN /\ channel' = [channel EXCEPT ![c] = Append(@, Head(writers[w].items))]
          /\ UNCHANGED dropped
     ELSE dropped' = dropped \cup {c} /\ UNCHANGED channel
  /\ UNCHANGED <<table, conns, closed, shown>>

\* One send, after the unlock.  It never blocks: a full channel drops the item.
SendTo(w, c) ==
  /\ writers[w].pc = "send" /\ c \in writers[w].to /\ c \notin closed
  /\ writers' = [writers EXCEPT ![w].to = @ \ {c}]
  /\ IF Len(channel[c]) < Buffer
     THEN /\ channel' = [channel EXCEPT ![c] = Append(@, Head(writers[w].items))]
          /\ UNCHANGED dropped
     ELSE dropped' = dropped \cup {c} /\ UNCHANGED channel
  /\ UNCHANGED <<table, conns, closed, shown>>

SendsToClosed(w, c) == writers[w].pc = "send" /\ c \in writers[w].to /\ c \in closed

\* A send on a closed channel panics.  Gin's Recovery keeps the panic of a
\* request to its handler, which publishes nothing more; ...
Panic(w, c) ==
  /\ w \in Handler /\ SendsToClosed(w, c)
  /\ writers' = [writers EXCEPT ![w].pc = "panicked"]
  /\ UNCHANGED <<table, conns, channel, closed, shown, dropped>>

\* ... that of a watcher ends the backend, with every call and connection.
BackendEnds(w, c) ==
  /\ w \notin Handler /\ SendsToClosed(w, c)
  /\ writers' = [v \in Writer |-> IF writers[v].pc = "done" THEN writers[v]
                                 ELSE [writers[v] EXCEPT !.pc = "panicked"]]
  /\ conns' = [d \in Conn |-> "gone"]
  /\ UNCHANGED <<table, channel, closed, shown, dropped>>

\* Publish returns; the next item, or the end.
Published(w) ==
  /\ writers[w].pc = "send" /\ writers[w].to = {}
  /\ LET rest == Tail(writers[w].items) IN
     writers' = [writers EXCEPT ![w] =
       [pc |-> IF rest = <<>> THEN "done" ELSE "publish", items |-> rest, to |-> {}]]
  /\ UNCHANGED <<table, conns, channel, closed, shown, dropped>>

(***************************************************************************)
(* The stream handler.                                                     *)
(***************************************************************************)

Subscribe(c) ==
  /\ conns[c] = "new"
  /\ conns' = [conns EXCEPT ![c] = "replay"]
  /\ UNCHANGED <<table, writers, channel, closed, shown, dropped>>

\* ListLogs reads the rows with the lowest ids ...
Replay(c) ==
  /\ conns[c] = "replay"
  /\ shown' = [shown EXCEPT ![c] =
       {table[i] : i \in {k \in DOMAIN table : k <= ReplayLimit}}]
  /\ conns' = [conns EXCEPT ![c] = "write"]
  /\ UNCHANGED <<table, writers, channel, closed, dropped>>

\* The error of ListLogs is ignored: nothing is replayed.
ReplayFails(c) ==
  /\ conns[c] = "replay"
  /\ conns' = [conns EXCEPT ![c] = "live"]
  /\ dropped' = dropped \cup {c}
  /\ UNCHANGED <<table, writers, channel, closed, shown>>

\* ... and the handler has written them all.
GoLive(c) ==
  /\ conns[c] = "write"
  /\ conns' = [conns EXCEPT ![c] = "live"]
  /\ UNCHANGED <<table, writers, channel, closed, shown, dropped>>

Forward(c) ==
  /\ conns[c] = "live" /\ channel[c] # <<>>
  /\ shown' = [shown EXCEPT ![c] = @ \cup {Head(channel[c])}]
  /\ channel' = [channel EXCEPT ![c] = Tail(@)]
  /\ UNCHANGED <<table, writers, conns, closed, dropped>>

\* The browser is gone: the deferred unsubscribe.
Disconnect(c) ==
  /\ c \in Subscribers
  /\ conns' = [conns EXCEPT ![c] = "gone"]
  /\ closed' = closed \cup {c}
  /\ UNCHANGED <<table, writers, channel, shown, dropped>>

WriterStep(w) ==
  \/ Insert(w) \/ Snapshot(w) \/ Published(w)
  \/ \E c \in Conn : SendTo(w, c) \/ Panic(w, c)

ConnStep(c) ==
  \/ Subscribe(c) \/ Replay(c) \/ ReplayFails(c) \/ GoLive(c)
  \/ Forward(c) \/ Disconnect(c)

Next ==
  \/ \E w \in Writer : WriterStep(w) \/ \E c \in Conn : BackendEnds(w, c)
  \/ \E c \in Conn : ConnStep(c)

Spec == Init /\ [][Next]_vars

TypeOK ==
  /\ table \in Seq(Row)
  /\ writers \in [Writer -> [pc: {"insert", "publish", "send", "done", "panicked"},
                             items: Seq(Item), to: SUBSET Conn]]
  /\ conns \in [Conn -> {"new", "replay", "write", "live", "gone"}]
  /\ channel \in [Conn -> Seq(Item)]
  /\ \A c \in Conn : Len(channel[c]) <= Buffer
  /\ closed \subseteq Conn /\ dropped \subseteq Conn
  /\ shown \in [Conn -> SUBSET Item]

\* The row is stored and its writer will still offer it to the connection.
ToCome(c, row) ==
  LET w == writers[row[1]] IN
  /\ row \in ToSet(w.items)
  /\ w.pc = "send" /\ row = Head(w.items) => c \in w.to

\* What a connection that has replayed will have shown in the end.
Reaches(c, row) ==
  row \in shown[c] \/ row \in ToSet(channel[c]) \/ ToCome(c, row)

\* No row that a replay reads falls between the replay and the live channel:
\* a connection that has replayed shows it once it is published, or has it in
\* its channel, or will be offered it, unless its replay failed, its channel
\* was full, or the writer panicked, itself or with the whole backend.
NothingMissed ==
  \A c \in Subscribers : conns[c] # "replay" /\ c \notin dropped =>
    \A i \in DOMAIN table :
      LET row == table[i] IN
      i <= ReplayLimit /\ row[1] \notin Silent /\ writers[row[1]].pc # "panicked"
        => Reaches(c, row)

\* Publish's comment: it sends to all subscribers without blocking; a browser
\* that leaves does not make it fail.
PublishSucceeds == \A w \in Writer : writers[w].pc # "panicked"
=============================================================================
