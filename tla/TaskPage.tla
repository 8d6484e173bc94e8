------------------------------ MODULE TaskPage ------------------------------
(***************************************************************************)
(* The detail page of one task, from the moment it is opened.  It polls    *)
(* the task every two seconds until it shows a terminal status, and never  *)
(* again; status events of its stream change the status it shows; a        *)
(* request of its user is followed by one GET.                             *)
(*                                                                         *)
(* The row is known by its history: "updates" are the writers that have    *)
(* changed its status, and a version is a length of that sequence.  What   *)
(* races inside the handlers is in DBMove, and how an event passes the hub *)
(* in LogStream; here a handler's check and UPDATE are one step, and the   *)
(* event it publishes, for some writers, is another.                       *)
(***************************************************************************)
EXTENDS Naturals, Sequences, FiniteSets

CONSTANTS
  Writer,       \* the calls that change the status, each of them once
  StatusOf,     \* writer -> the status it writes
  Announcer,    \* the writers that publish a status event
  Own,          \* the writers that are requests of the page's user
  Poll,         \* slots for polls: bound of how many are in flight
  EventBuffer,  \* how many events the stream holds on their way
  MaxFailures   \* bound: polls, connections and answers that fail

ASSUME TaskPageAssumption ==
  /\ StatusOf \in [Writer -> STRING] /\ Announcer \subseteq Writer
  /\ Own \subseteq Writer /\ EventBuffer \in Nat /\ MaxFailures \in Nat

VARIABLES
  updates,      \* the writers that have changed the row's status, in order
  announcing,   \* those that have still to publish their event
  page,         \* what the page shows, and whether it polls
  gets,         \* GET requests of the page: where they are, what they read
  stream,       \* whether the page's stream is connected, its events
  missed,       \* observation: the writers of which the page will not hear
  failures      \* how much has failed

pageVars == <<updates, announcing, page, gets, stream, missed, failures>>

Final == {"SUCCESS", "FAILED", "CANCELLED"}
Get == Poll \cup Own
NoGet == [pc |-> "none", version |-> 0]
Events == {stream.events[i] : i \in DOMAIN stream.events}

Latest == Len(updates)
StatusAt(version) == IF version = 0 THEN "QUEUED" ELSE StatusOf[updates[version]]
VersionOf(w) == CHOOSE i \in 1..Latest : updates[i] = w

PageInit ==
  /\ updates = <<>> /\ announcing = {} /\ missed = {} /\ failures = 0
  /\ page = [loaded |-> FALSE, version |-> 0, newest |-> 0, polling |-> TRUE]
  /\ gets = [g \in Get |-> NoGet]
  /\ stream = [connected |-> FALSE, events |-> <<>>]

Fails == failures < MaxFailures /\ failures' = failures + 1

(***************************************************************************)
(* The writers.                                                            *)
(***************************************************************************)

\* Start and Retry want a terminal status, the dispatcher a queued task, and
\* cancels, watchers and reports a task that is not terminal.
Accepts(w) ==
  StatusAt(Latest) \in CASE StatusOf[w] = "QUEUED" -> {"FAILED", "CANCELLED"}
                         [] StatusOf[w] = "PREPARING" -> {"QUEUED"}
                         [] OTHER -> {"QUEUED", "PREPARING", "RUNNING"}

\* The buttons: Retry or Restart, and Cancel.
Offered(w) ==
  page.loaded /\ StatusAt(page.version) \in
    IF StatusOf[w] = "QUEUED" THEN {"FAILED", "CANCELLED"}
    ELSE {"QUEUED", "PREPARING", "RUNNING"}

Changes(w) ==
  /\ w \notin {updates[i] : i \in 1..Latest} /\ Accepts(w)
  /\ updates' = Append(updates, w)
  /\ announcing' = IF w \in Announcer THEN announcing \cup {w} ELSE announcing

OthersWrite(w) ==
  /\ w \notin Own /\ Changes(w)
  /\ UNCHANGED <<page, gets, stream, missed, failures>>

\* act: the request is answered, and the page loads the task.
Act(w) ==
  /\ w \in Own /\ Offered(w) /\ Changes(w)
  /\ gets' = [gets EXCEPT ![w].pc = "sent"]
  /\ UNCHANGED <<page, stream, missed, failures>>

\* The answer is lost, or comes after the 30 seconds of the client.
ActUnanswered(w) ==
  /\ w \in Own /\ Offered(w) /\ Changes(w) /\ Fails
  /\ missed' = missed \cup {w}
  /\ UNCHANGED <<page, gets, stream>>

\* Publish: the event is dropped without a connection, or when it is full.
Announce(w) ==
  /\ w \in announcing
  /\ announcing' = announcing \ {w}
  /\ IF stream.connected /\ Len(stream.events) < EventBuffer
     THEN /\ stream' = [stream EXCEPT !.events = Append(@, w)]
          /\ UNCHANGED missed
     ELSE missed' = missed \cup {w} /\ UNCHANGED stream
  /\ UNCHANGED <<updates, page, gets, failures>>

(***************************************************************************)
(* The page.                                                               *)
(***************************************************************************)

\* setTask with what a version says, and the effect that stops the polling.
Shows(version) ==
  page' = [loaded |-> TRUE, version |-> version,
           newest |-> IF version > page.newest THEN version ELSE page.newest,
           polling |-> page.polling /\ StatusAt(version) \notin Final]

\* The timer.
SendPoll(g) ==
  /\ page.polling /\ gets[g].pc = "none"
  /\ gets' = [gets EXCEPT ![g].pc = "sent"]
  /\ UNCHANGED <<updates, announcing, page, stream, missed, failures>>

\* GetTask, in the backend ...
ReadTask(g) ==
  /\ gets[g].pc = "sent"
  /\ gets' = [gets EXCEPT ![g] = [pc |-> "read", version |-> Latest]]
  /\ UNCHANGED <<updates, announcing, page, stream, missed, failures>>

\* Faulty variant: once the task is loaded, polls leave the page to the stream.
AnswerOnce(g) ==
  /\ gets[g].pc = "read"
  /\ IF page.loaded /\ g \in Poll THEN UNCHANGED page ELSE Shows(gets[g].version)
  /\ gets' = [gets EXCEPT ![g] = NoGet]
  /\ UNCHANGED <<updates, announcing, stream, missed, failures>>

\* ... and its answer, whatever the page has learned since.
Answer(g) ==
  /\ gets[g].pc = "read"
  /\ Shows(gets[g].version)
  /\ gets' = [gets EXCEPT ![g] = NoGet]
  /\ UNCHANGED <<updates, announcing, stream, missed, failures>>

\* loadTask only shows the error.
GetFails(g) ==
  /\ gets[g].pc # "none" /\ Fails
  /\ gets' = [gets EXCEPT ![g] = NoGet]
  /\ missed' = missed \cup ({g} \cap Own)
  /\ UNCHANGED <<updates, announcing, page, stream>>

Connect ==
  /\ ~stream.connected
  /\ stream' = [connected |-> TRUE, events |-> <<>>]
  /\ UNCHANGED <<updates, announcing, page, gets, missed, failures>>

\* onerror: the EventSource will connect again; what was on its way is lost.
Break ==
  /\ stream.connected /\ Fails
  /\ stream' = [connected |-> FALSE, events |-> <<>>]
  /\ missed' = missed \cup Events
  /\ UNCHANGED <<updates, announcing, page, gets>>

\* Faulty variant: events count only while the page polls.
OnStatusPolling(w) ==
  IF page.loaded /\ page.polling THEN Shows(VersionOf(w)) ELSE UNCHANGED page

\* The status listener; before the task is loaded there is nothing to change.
OnStatus(w) == IF page.loaded THEN Shows(VersionOf(w)) ELSE UNCHANGED page

Receive ==
  /\ stream.events # <<>>
  /\ OnStatus(Head(stream.events))
  /\ stream' = [stream EXCEPT !.events = Tail(@)]
  /\ UNCHANGED <<updates, announcing, gets, missed, failures>>

PageNext ==
  \/ \E w \in Writer : OthersWrite(w) \/ Act(w) \/ ActUnanswered(w) \/ Announce(w)
  \/ \E g \in Get : ReadTask(g) \/ Answer(g) \/ GetFails(g)
  \/ \E g \in Poll : SendPoll(g)
  \/ Connect \/ Break \/ Receive

\* Nothing is under way: whatever the page shows now, it shows for good.
AtRest ==
  /\ ~page.polling /\ stream.connected /\ stream.events = <<>> /\ announcing = {}
  /\ \A g \in Get : gets[g] = NoGet

\* A page that polls no more has been told the row's last status all the same:
\* by the GET that stopped the polling, by the event, or by the GET after its
\* user's request.  The exceptions are what failed to reach the page, and the
\* writers that announce nothing.
PageSettles ==
  AtRest /\ Latest > 0 /\ updates[Latest] \in (Announcer \cup Own) \ missed
    => page.newest = Latest

\* As long as the task has not been terminal, the page learns of every status
\* that lasts, whatever becomes of the events: it must not stop to poll early.
CatchesUp ==
  \A v \in 1..Cardinality(Writer) :
    Latest = v /\ (\A i \in 1..(v - 1) : StatusAt(i) \notin Final)
      ~> page.newest >= v \/ Latest > v
=============================================================================
