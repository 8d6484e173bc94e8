------------------------------ MODULE Reporter ------------------------------
(***************************************************************************)
(* The worker's reporter.  Log appends to a buffer; the ticker goroutine   *)
(* flushes it every 500 ms, and Log itself when it has grown large.  A     *)
(* flush takes the whole buffer and posts it, LogAttempts times at most,   *)
(* outside the lock: several threads may post at the same time.  Progress  *)
(* posts once, unless it is throttled.                                     *)
(*                                                                         *)
(* The threads are the main one, the ticker, and the goroutine that waits  *)
(* for SIGTERM.  A worker that succeeds returns from main, which closes    *)
(* the reporter, an interrupted one closes it and exits, and one that      *)
(* fails calls os.Exit.  A line is known by its number, in the order of    *)
(* the calls of Log.                                                       *)
(***************************************************************************)
EXTENDS Naturals, FiniteSets

CONSTANTS
  MaxLines,     \* bound: lines that are logged
  Full,         \* the last progress (100)
  FlushAt,      \* buffer length at which Log flushes (50)
  LogAttempts,  \* attempts to post one batch (3)
  FaultKinds,   \* "error": a post fails; "timeout": its answer is lost; "sigterm"
  MaxFaults     \* bound: how many of them

ASSUME ReporterAssumption ==
  /\ MaxLines \in Nat /\ Full \in Nat \ {0}
  /\ FlushAt \in Nat \ {0} /\ LogAttempts \in Nat \ {0}
  /\ MaxFaults \in Nat

VARIABLES
  logged,       \* how many lines were logged
  pending,      \* the buffer
  pc,           \* thread -> where it is
  closed,       \* done is closed
  outcome,      \* how the process ended
  flushing,     \* thread -> the lines of its flush and the attempt it is in
  posts,        \* POST /logs handlers in flight
  copies,       \* line -> how many rows of the table hold it
  reported,     \* how many calls of Progress there were
  finished,     \* the engine has made the last one
  updates,      \* POST /progress handlers in flight
  progress,     \* the column of the row
  stored,       \* observation: the call that it comes from
  faults,       \* how many faults have happened
  lost,         \* observation: posts of lines whose answer was lost
  unsaid,       \* observation: a POST /progress that failed or was not answered
  givenUp       \* observation: lines of batches that were given up

lineVars == <<logged, pending, flushing, posts, copies, lost, givenUp>>
progressVars == <<reported, finished, updates, progress, stored, unsaid>>
vars == <<lineVars, progressVars, pc, closed, outcome, faults>>

Line == 1..MaxLines
Thread == {"main", "ticker", "signal"}
NotFlushing == [lines |-> {}, try |-> 0]

Post == [by: Thread, lines: SUBSET Line, try: 1..LogAttempts, waiting: BOOLEAN]
Update == [n: Nat, progress: 0..Full, waiting: BOOLEAN]

Init ==
  /\ logged = 0 /\ pending = {} /\ posts = {} /\ givenUp = {} /\ lost = 0
  /\ pc = [th \in Thread |-> IF th = "main" THEN "run" ELSE "wait"]
  /\ flushing = [th \in Thread |-> NotFlushing]
  /\ copies = [l \in Line |-> 0]
  /\ reported = 0 /\ finished = FALSE /\ updates = {}
  /\ progress = 0 /\ stored = 0 /\ unsaid = FALSE
  /\ closed = FALSE /\ outcome = "none" /\ faults = 0

Alive == outcome = "none"
At(th, where) == Alive /\ pc[th] = where
GoTo(th, where) == pc' = [pc EXCEPT ![th] = where]

Fault(kind) == kind \in FaultKinds /\ faults < MaxFaults /\ faults' = faults + 1

(***************************************************************************)
(* Log and flush.                                                          *)
(***************************************************************************)

\* Log: the caller goes on at the place "next", by way of a flush when the
\* buffer has grown large.
LogLine(th, next) ==
  /\ logged < MaxLines
  /\ logged' = logged + 1
  /\ pending' = pending \cup {logged + 1}
  /\ GoTo(th, IF Cardinality(pending') >= FlushAt THEN "flush" ELSE next)
  /\ UNCHANGED <<flushing, posts, copies, lost, givenUp>>

Send(th, lines, try) ==
  /\ flushing' = [flushing EXCEPT ![th] = [lines |-> lines, try |-> try]]
  /\ posts' = posts \cup
       {[by |-> th, lines |-> lines, try |-> try, waiting |-> TRUE]}

\* Faulty variant: the buffer is copied and not emptied.
CopyBatch(th) ==
  /\ flushing[th] = NotFlushing /\ pending # {}
  /\ Send(th, pending, 1)
  /\ UNCHANGED <<pending, logged, copies, lost, givenUp>>

\* flush takes the buffer under the lock.
TakeBatch(th) ==
  /\ flushing[th] = NotFlushing /\ pending # {}
  /\ Send(th, pending, 1)
  /\ pending' = {}
  /\ UNCHANGED <<logged, copies, lost, givenUp>>

Flush(th) ==
  /\ \/ At(th, "flush") /\ GoTo(th, "posting")
     \/ At(th, "last") /\ GoTo(th, "leaving")
     \/ th = "ticker" /\ At(th, "wait") /\ UNCHANGED pc
  /\ TakeBatch(th)
  /\ UNCHANGED <<progressVars, closed, outcome, faults>>

\* The buffer was empty, or the thread's own batch is posted.
FlushOver(th, before, after) ==
  \/ At(th, before) /\ pending = {}
  \/ At(th, after) /\ flushing[th] = NotFlushing

\* A flush of Log is over.
FlushReturns(th) ==
  /\ FlushOver(th, "flush", "posting")
  /\ GoTo(th, IF th = "main" THEN "run" ELSE "status")
  /\ UNCHANGED <<lineVars, progressVars, closed, outcome, faults>>

(***************************************************************************)
(* postRetry.                                                              *)
(***************************************************************************)

Awaited(th) == \E p \in posts : p.by = th /\ p.waiting

\* Faulty variants: an attempt too many, and no end after the last one.
RetryOnceMore(th) ==
  LET f == flushing[th] IN
  /\ Alive /\ f # NotFlushing /\ ~Awaited(th)
  /\ IF f.try <= LogAttempts
     THEN Send(th, f.lines, f.try + 1) /\ UNCHANGED givenUp
     ELSE /\ flushing' = [flushing EXCEPT ![th] = NotFlushing]
          /\ givenUp' = givenUp \cup f.lines /\ UNCHANGED posts
  /\ UNCHANGED <<logged, pending, copies, lost, progressVars, pc, closed, outcome, faults>>

RetryAndHang(th) ==
  LET f == flushing[th] IN
  /\ Alive /\ f # NotFlushing /\ ~Awaited(th)
  /\ f.try < LogAttempts /\ Send(th, f.lines, f.try + 1)
  /\ UNCHANGED <<logged, pending, copies, lost, givenUp, progressVars, pc, closed, outcome, faults>>

\* After an attempt without an answer: post again, or give the batch up.
RetryPost(th) ==
  LET f == flushing[th] IN
  /\ Alive /\ f # NotFlushing /\ ~Awaited(th)
  /\ IF f.try < LogAttempts
     THEN Send(th, f.lines, f.try + 1) /\ UNCHANGED givenUp
     ELSE /\ flushing' = [flushing EXCEPT ![th] = NotFlushing]
          /\ givenUp' = givenUp \cup f.lines /\ UNCHANGED posts
  /\ UNCHANGED <<logged, pending, copies, lost, progressVars, pc, closed, outcome, faults>>

(***************************************************************************)
(* The logs handler: one INSERT for the whole batch, then the answer.      *)
(***************************************************************************)

StoreLogs(p) ==
  /\ copies' = [l \in Line |-> copies[l] + IF l \in p.lines THEN 1 ELSE 0]
  /\ posts' = posts \ {p}
  /\ flushing' = IF p.waiting /\ Alive
                 THEN [flushing EXCEPT ![p.by] = NotFlushing] ELSE flushing
  /\ UNCHANGED <<logged, pending, lost, givenUp, progressVars, pc, closed, outcome, faults>>

\* The backend is not reached, or its INSERT fails.
PostFails(p) ==
  /\ Fault("error")
  /\ posts' = posts \ {p}
  /\ UNCHANGED <<logged, pending, flushing, copies, lost, givenUp, progressVars, pc, closed, outcome>>

\* The worker stops waiting; the handler runs on.
PostTimesOut(p) ==
  /\ Alive /\ p.waiting
  /\ Fault("timeout")
  /\ posts' = (posts \ {p}) \cup {[p EXCEPT !.waiting = FALSE]}
  /\ lost' = lost + 1
  /\ UNCHANGED <<logged, pending, flushing, copies, givenUp, progressVars, pc, closed, outcome>>

\* The handler notices that its client is gone.
PostDropped(p) ==
  /\ ~(Alive /\ p.waiting)
  /\ posts' = posts \ {p}
  /\ UNCHANGED <<logged, pending, flushing, copies, lost, givenUp, progressVars, pc, closed, outcome, faults>>

(***************************************************************************)
(* Progress.                                                               *)
(***************************************************************************)

\* Faulty variant: the post is left to a goroutine.
PostAsync(th, p, last) ==
  /\ reported' = reported + 1 /\ finished' = last
  /\ updates' = updates \cup {[n |-> reported + 1, progress |-> p, waiting |-> FALSE]}
  /\ GoTo(th, "run")
  /\ UNCHANGED <<progress, stored, unsaid>>

\* A call within 500 ms of the one before is dropped, unless it says 100; the
\* others wait for the answer.
Progress(th, p, last) ==
  /\ reported' = reported + 1 /\ finished' = last
  /\ \/ /\ updates' = updates \cup {[n |-> reported + 1, progress |-> p, waiting |-> TRUE]}
        /\ GoTo(th, "progress")
     \/ reported > 0 /\ p < Full /\ UNCHANGED <<updates, pc>>
  /\ UNCHANGED <<progress, stored, unsaid>>

ProgressReturns == IF At("main", "progress") THEN GoTo("main", "run") ELSE UNCHANGED pc

\* The handler: an UPDATE of the columns, whatever the row says.
StoreProgress(u) ==
  /\ progress' = u.progress /\ stored' = u.n
  /\ updates' = updates \ {u}
  /\ IF u.waiting THEN ProgressReturns ELSE UNCHANGED pc
  /\ UNCHANGED <<lineVars, reported, finished, unsaid, closed, outcome, faults>>

\* It fails, and is not tried again.
UpdateFails(u) ==
  /\ Fault("error")
  /\ updates' = updates \ {u} /\ unsaid' = TRUE
  /\ IF u.waiting THEN ProgressReturns ELSE UNCHANGED pc
  /\ UNCHANGED <<lineVars, reported, finished, progress, stored, closed, outcome>>

UpdateTimesOut(u) ==
  /\ At("main", "progress") /\ u.waiting
  /\ Fault("timeout")
  /\ updates' = (updates \ {u}) \cup {[u EXCEPT !.waiting = FALSE]}
  /\ unsaid' = TRUE /\ ProgressReturns
  /\ UNCHANGED <<lineVars, reported, finished, progress, stored, closed, outcome>>

UpdateDropped(u) ==
  /\ ~(Alive /\ u.waiting)
  /\ updates' = updates \ {u}
  /\ UNCHANGED <<lineVars, reported, finished, progress, stored, unsaid, pc, closed, outcome, faults>>

(***************************************************************************)
(* SIGTERM, and the end of the worker.                                     *)
(***************************************************************************)

\* main's deferred calls undo signal.Notify before Close: from then on the
\* signal kills the process.
Sigterm ==
  /\ At("signal", "wait")
  /\ Fault("sigterm")
  /\ IF pc["main"] \in {"close", "closing", "last", "leaving"}
     THEN outcome' = "killed" /\ UNCHANGED pc
     ELSE GoTo("signal", "log") /\ UNCHANGED outcome
  /\ UNCHANGED <<lineVars, progressVars, closed>>

SignalLogs ==
  /\ At("signal", "log")
  /\ LogLine("signal", "status")
  /\ UNCHANGED <<progressVars, closed, outcome, faults>>

\* Status("CANCELLED"), whose attempts are in Worker.
SignalStatus ==
  /\ At("signal", "status")
  /\ GoTo("signal", "close")
  /\ UNCHANGED <<lineVars, progressVars, closed, outcome, faults>>

End(how) ==
  /\ outcome' = how
  /\ UNCHANGED <<lineVars, progressVars, pc, closed, faults>>

\* Close closes done, which nobody may do twice: the second time panics.
Close(th) ==
  /\ At(th, "close")
  /\ IF closed
     THEN End("panicked")
     ELSE /\ closed' = TRUE
          /\ GoTo(th, "closing")
          /\ UNCHANGED <<lineVars, progressVars, outcome, faults>>

\* The flush loop sees done between two flushes.
TickerStops ==
  /\ At("ticker", "wait") /\ closed /\ flushing["ticker"] = NotFlushing
  /\ GoTo("ticker", "done")
  /\ UNCHANGED <<lineVars, progressVars, closed, outcome, faults>>

\* Faulty variant: Close does not wait for the flush loop.
CloseAtOnce(th) ==
  /\ At(th, "closing")
  /\ GoTo(th, "last")
  /\ UNCHANGED <<lineVars, progressVars, closed, outcome, faults>>

\* Close waits for it, and flushes what is left.
CloseFlush(th) ==
  /\ At(th, "closing") /\ pc["ticker"] = "done"
  /\ GoTo(th, "last")
  /\ UNCHANGED <<lineVars, progressVars, closed, outcome, faults>>

\* Then main returns, or the signal's goroutine exits with 130.
CloseReturns(th) ==
  /\ FlushOver(th, "last", "leaving")
  /\ End(IF th = "main" THEN "returned" ELSE "interrupted")

\* A failed preflight or migration: os.Exit(1), without Close.
Exit == At("main", "run") /\ End("exited")

Closing(th) == Close(th) \/ CloseFlush(th) \/ CloseReturns(th)
ThreadStep(th) == Flush(th) \/ RetryPost(th)
MainReports == ThreadStep("main") \/ FlushReturns("main") \/ Closing("main")
TickerStep == ThreadStep("ticker") \/ TickerStops
SignalStep ==
  \/ SignalLogs \/ SignalStatus \/ ThreadStep("signal")
  \/ FlushReturns("signal") \/ Closing("signal")

HandlerNext ==
  \/ \E p \in posts :
       StoreLogs(p) \/ PostFails(p) \/ PostTimesOut(p) \/ PostDropped(p)
  \/ \E u \in updates : 
       StoreProgress(u) \/ UpdateFails(u) \/ UpdateTimesOut(u) \/ UpdateDropped(u)

ReporterNext == MainReports \/ TickerStep \/ Sigterm \/ SignalStep \/ Exit \/ HandlerNext

ReporterTypeOK ==
  /\ logged \in 0..MaxLines /\ pending \subseteq Line /\ givenUp \subseteq Line
  /\ pc \in [Thread -> {"run", "progress", "wait", "done", "log", "status", "flush",
                     "posting", "close", "closing", "last", "leaving"}]
  /\ pc["main"] \notin {"wait", "done", "log", "status"}
  /\ pc["ticker"] \in {"wait", "done"}
  /\ pc["signal"] \notin {"run", "progress", "done"}
  /\ flushing \in [Thread -> [lines: SUBSET Line, try: 0..LogAttempts]]
  /\ posts \subseteq Post /\ updates \subseteq Update
  /\ copies \in [Line -> Nat]
  /\ reported \in Nat /\ stored \in Nat /\ progress \in 0..Full
  /\ closed \in BOOLEAN /\ unsaid \in BOOLEAN /\ finished \in BOOLEAN
  /\ outcome \in {"none", "returned", "interrupted", "exited", "killed", "panicked"}
  /\ faults \in Nat /\ lost \in Nat

(***************************************************************************)
(* Properties.                                                             *)
(***************************************************************************)

\* A line is stored once, and once more at most for each answer that was lost:
\* it is in exactly one flush, although three threads flush one buffer and
\* failed posts are tried again.
StoredOnce == \A l \in Line : copies[l] <= 1 + lost

\* What the end of the process takes with it: the lines in the buffer and those
\* that a thread is posting; of a worker that was interrupted and has waited for
\* the ticker, only what is left to the main thread; of one that has returned,
\* having closed the reporter without a SIGTERM, nothing.
InHand ==
  CASE outcome = "returned" /\ pc["signal"] = "wait" -> {}
    [] outcome = "interrupted" -> pending \cup flushing["main"].lines
    [] OTHER -> pending \cup UNION {flushing[th].lines : th \in Thread}

\* However the worker ends, no line is lost but those it has in hand then: every
\* other one is in the table, or all the attempts of its batch have failed.
OnlyInHandLost ==
  /\ \A l \in 1..logged : copies[l] > 0 \/ l \in InHand \/ l \in givenUp
  /\ givenUp # {} => faults >= LogAttempts

\* Unless a post of progress was not answered, the row never goes back to an
\* earlier call of Progress, and a worker that returns has left it at the last
\* one, at 100: main waits for every post, and the throttle lets the last one
\* pass.  The percentage itself may fall: it is 100 after the first dump.
ProgressInOrder ==
  [][~unsaid' => /\ stored' >= stored
                 /\ outcome' = "returned" => stored' = reported' /\ progress' = Full]_vars

\* Close ends: it waits for the ticker, and no flush retries for ever.
CloseEnds == \A th \in {"main", "signal"} : At(th, "closing") ~> ~Alive
=============================================================================
