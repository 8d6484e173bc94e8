--------------------------- MODULE ReporterProofs ---------------------------
(***************************************************************************)
(* Theorems about WorkerLog, for any number of lines and faults, any       *)
(* buffer length, number of attempts and output of the tool.               *)
(*                                                                         *)
(* What becomes of a line does not depend on the tool: Step is what the    *)
(* reporter's variables may do, and the lemmas up to the tool's output are *)
(* about a Step.                                                           *)
(***************************************************************************)
EXTENDS WorkerLog, FiniteSetTheorems, SequenceTheorems, WellFoundedInduction, TLAPS

Callers == {"main", "signal"}

\* The main thread calls Log, Progress, or nothing any more.
MainLogs ==
  /\ At("main", "run") /\ LogLine("main", "run")
  /\ UNCHANGED <<progressVars, closed, outcome, faults>>

MainSays ==
  /\ At("main", "run")
  /\ \E p \in 0..Full, last \in BOOLEAN : Progress("main", p, last) /\ (last => p = Full)
  /\ UNCHANGED <<lineVars, closed, outcome, faults>>

MainReturns ==
  /\ At("main", "run") /\ finished /\ GoTo("main", "close")
  /\ UNCHANGED <<lineVars, progressVars, closed, outcome, faults>>

HandlePost(p) == StoreLogs(p) \/ PostFails(p) \/ PostTimesOut(p) \/ PostDropped(p)
HandleUpdate(u) == StoreProgress(u) \/ UpdateFails(u) \/ UpdateTimesOut(u) \/ UpdateDropped(u)

\* Steps that leave the lines alone: they move a thread or end the process.
Moves ==
  \/ MainSays \/ MainReturns \/ SignalStatus \/ Sigterm \/ TickerStops \/ Exit
  \/ \E th \in Callers : FlushReturns(th) \/ Closing(th)
  \/ \E u \in updates : HandleUpdate(u)

Step ==
  \/ UNCHANGED vars \/ Moves \/ MainLogs \/ SignalLogs
  \/ \E th \in Thread : Flush(th) \/ RetryPost(th)
  \/ \E p \in posts : HandlePost(p)

LEMMA BelowFull == Below \subseteq 0..Full
BY ReporterAssumption DEF Below

LEMMA StepCases ==
  ASSUME [WorkerNext]_allVars
  PROVE  Step
<1>1. CASE ToolWrites
  BY <1>1 DEF ToolWrites, Step
<1>2. CASE ToolLine
  <2>1. CASE Blank(NextLine)
    BY <1>2, <2>1 DEF ToolLine, Step
  <2>2. CASE ~Blank(NextLine) /\ Announces(NextLine)
    BY <1>2, <2>2 DEF ToolLine, OnLine, MainLogs, Step
  <2>3. CASE ~Blank(NextLine) /\ ~Announces(NextLine) /\ Completes(NextLine)
    BY <1>2, <2>3, BelowFull DEF ToolLine, OnLine, MainSays, Moves, Step
  <2>4. CASE ~Blank(NextLine) /\ ~Announces(NextLine) /\ ~Completes(NextLine)
    BY <1>2, <2>4 DEF ToolLine, OnLine, Step, vars
  <2> QED
    BY <2>1, <2>2, <2>3, <2>4
<1>3. CASE ReportBefore \/ ReportBehind \/ Finish
  <2>1. Full \in 0..Full
    BY ReporterAssumption
  <2>2. MainSays
    BY <1>3, <2>1, BelowFull DEF ReportBefore, ReportBehind, Finish, MainSays
  <2> QED
    BY <2>2 DEF Moves, Step
<1>4. CASE WorkerLogs
  BY <1>4 DEF WorkerLogs, MainLogs, Step
<1>5. CASE Return
  BY <1>5 DEF Return, MainReturns, Moves, Step
<1>6. CASE MainReports \/ TickerStep \/ Sigterm \/ SignalStep \/ Exit
  BY <1>6 DEF MainReports, TickerStep, SignalStep, ThreadStep, Callers, Thread,
              Moves, Step
<1>7. CASE HandlerNext
  BY <1>7 DEF HandlerNext, HandlePost, HandleUpdate, Moves, Step
<1>8. CASE UNCHANGED allVars
  BY <1>8 DEF allVars, Step
<1> QED
  BY <1>1, <1>2, <1>3, <1>4, <1>5, <1>6, <1>7, <1>8
     DEF WorkerNext, MainStep, ReporterNext

(***************************************************************************)
(* Types.                                                                  *)
(***************************************************************************)
LEMMA InitTypes == Init => ReporterTypeOK
<1> SUFFICES ASSUME Init PROVE ReporterTypeOK
  OBVIOUS
<1>1. NotFlushing \in [lines: SUBSET Line, try: 0..LogAttempts]
  BY ReporterAssumption DEF NotFlushing
<1>2. logged \in 0..MaxLines /\ progress \in 0..Full
  BY ReporterAssumption DEF Init
<1>3. flushing \in [Thread -> [lines: SUBSET Line, try: 0..LogAttempts]]
  BY <1>1 DEF Init
<1> QED
  BY <1>2, <1>3 DEF Init, ReporterTypeOK, Thread

LEMMA StoppedWaiting ==
  /\ \A p \in Post : [p EXCEPT !.waiting = FALSE] \in Post
  /\ \A u \in Update : [u EXCEPT !.waiting = FALSE] \in Update
BY DEF Post, Update

LEMMA SendTypes ==
  ASSUME ReporterTypeOK, NEW th \in Thread, NEW lines \in SUBSET Line,
         NEW try \in 1..LogAttempts, Send(th, lines, try)
  PROVE  /\ flushing' \in [Thread -> [lines: SUBSET Line, try: 0..LogAttempts]]
         /\ posts' \subseteq Post
<1>1. [lines |-> lines, try |-> try] \in [lines: SUBSET Line, try: 0..LogAttempts]
  BY ReporterAssumption
<1>2. [by |-> th, lines |-> lines, try |-> try, waiting |-> TRUE] \in Post
  BY DEF Post
<1>3. posts' \subseteq Post
  BY <1>2 DEF Send, ReporterTypeOK
<1>4. flushing' \in [Thread -> [lines: SUBSET Line, try: 0..LogAttempts]]
  BY <1>1 DEF Send, ReporterTypeOK
<1> QED
  BY <1>3, <1>4

LEMMA MovesTypes ==
  ASSUME ReporterTypeOK, Moves
  PROVE  ReporterTypeOK'
<1> USE ReporterAssumption DEF ReporterTypeOK, At, Alive, GoTo, lineVars, progressVars, Fault
<1>1. CASE MainSays
  <2>1. \A p \in 0..Full :
          [n |-> reported + 1, progress |-> p, waiting |-> TRUE] \in Update
    BY DEF Update
  <2> QED
    BY <1>1, <2>1 DEF MainSays, Progress, Thread
<1>2. CASE MainReturns
  BY <1>2 DEF MainReturns, Thread
<1>3. CASE SignalStatus
  BY <1>3 DEF SignalStatus, Thread
<1>4. CASE Sigterm
  BY <1>4 DEF Sigterm, Thread
<1>5. CASE TickerStops
  BY <1>5 DEF TickerStops, Thread
<1>6. CASE Exit
  BY <1>6 DEF Exit, End
<1>7. ASSUME NEW th \in Callers, FlushReturns(th) PROVE ReporterTypeOK'
  BY <1>7 DEF FlushReturns, Callers, Thread
<1>8. ASSUME NEW th \in Callers, Closing(th) PROVE ReporterTypeOK'
  <2>1. CASE Close(th)
    <3>1. CASE closed
      BY <2>1, <3>1 DEF Close, End
    <3>2. CASE ~closed
      BY <1>8, <2>1, <3>2 DEF Close, Callers, Thread
    <3> QED
      BY <3>1, <3>2
  <2>2. CASE CloseFlush(th)
    BY <2>2 DEF CloseFlush, Callers, Thread
  <2>3. CASE CloseReturns(th)
    BY <2>3 DEF CloseReturns, End, Callers, Thread
  <2> QED
    BY <1>8, <2>1, <2>2, <2>3 DEF Closing
<1>9. ASSUME NEW u \in updates, HandleUpdate(u) PROVE ReporterTypeOK'
  <2> USE <1>9, StoppedWaiting DEF ProgressReturns, Thread
  <2>0. u \in Update /\ u.n \in Nat /\ u.progress \in 0..Full
    BY DEF Update
  <2>1. CASE StoreProgress(u)
    BY <2>0, <2>1 DEF StoreProgress
  <2>2. CASE UpdateFails(u)
    BY <2>2 DEF UpdateFails
  <2>3. CASE UpdateTimesOut(u)
    BY <2>0, <2>3 DEF UpdateTimesOut
  <2>4. CASE UpdateDropped(u)
    BY <2>4 DEF UpdateDropped
  <2> QED
    BY <2>1, <2>2, <2>3, <2>4 DEF HandleUpdate
<1> QED
  BY <1>1, <1>2, <1>3, <1>4, <1>5, <1>6, <1>7, <1>8, <1>9 DEF Moves

LEMMA LogTypes ==
  ASSUME ReporterTypeOK, MainLogs \/ SignalLogs
  PROVE  ReporterTypeOK'
<1> USE ReporterAssumption
    DEF ReporterTypeOK, LogLine, GoTo, Line, Thread, progressVars
<1>1. CASE MainLogs
  BY <1>1 DEF MainLogs
<1>2. CASE SignalLogs
  BY <1>2 DEF SignalLogs
<1> QED
  BY <1>1, <1>2

LEMMA FlushTypes ==
  ASSUME ReporterTypeOK, NEW th \in Thread, Flush(th)
  PROVE  ReporterTypeOK'
<1>1. Send(th, pending, 1)
  BY DEF Flush, TakeBatch
<1>2. /\ flushing' \in [Thread -> [lines: SUBSET Line, try: 0..LogAttempts]]
      /\ posts' \subseteq Post
  <2>1. pending \in SUBSET Line /\ 1 \in 1..LogAttempts
    BY ReporterAssumption DEF ReporterTypeOK
  <2> QED
    BY <1>1, <2>1, SendTypes
<1> QED
  BY <1>2 DEF Flush, TakeBatch, At, GoTo, ReporterTypeOK, Thread, progressVars

LEMMA RetryTypes ==
  ASSUME ReporterTypeOK, NEW th \in Thread, RetryPost(th)
  PROVE  ReporterTypeOK'
<1>1. /\ flushing' \in [Thread -> [lines: SUBSET Line, try: 0..LogAttempts]]
      /\ posts' \subseteq Post
      /\ givenUp' \subseteq Line
  <2>1. CASE flushing[th].try < LogAttempts
    <3>1. flushing[th].try + 1 \in 1..LogAttempts /\ flushing[th].lines \in SUBSET Line
      BY <2>1, ReporterAssumption DEF ReporterTypeOK
    <3> QED
      BY <2>1, <3>1, SendTypes DEF RetryPost, ReporterTypeOK
  <2>2. CASE ~(flushing[th].try < LogAttempts)
    BY <2>2, ReporterAssumption DEF RetryPost, ReporterTypeOK, NotFlushing
  <2> QED
    BY <2>1, <2>2
<1> QED
  BY <1>1 DEF RetryPost, ReporterTypeOK, progressVars

LEMMA HandleTypes ==
  ASSUME ReporterTypeOK, NEW p \in posts, HandlePost(p)
  PROVE  ReporterTypeOK'
<1> USE ReporterAssumption DEF ReporterTypeOK, Fault, progressVars
<1>1. CASE StoreLogs(p)
  BY <1>1 DEF NotFlushing, Post, StoreLogs
<1>2. CASE PostFails(p)
  BY <1>2 DEF PostFails
<1>3. CASE PostTimesOut(p)
  BY <1>3, StoppedWaiting DEF PostTimesOut
<1>4. CASE PostDropped(p)
  BY <1>4 DEF PostDropped
<1> QED
  BY <1>1, <1>2, <1>3, <1>4 DEF HandlePost

LEMMA StepTypes ==
  ASSUME ReporterTypeOK, Step
  PROVE  ReporterTypeOK'
<1>1. CASE UNCHANGED vars
  BY <1>1 DEF vars, lineVars, progressVars, ReporterTypeOK
<1> QED
  BY <1>1, MovesTypes, LogTypes, FlushTypes, RetryTypes, HandleTypes DEF Step

(***************************************************************************)
(* A line is in one place: not logged yet, in the buffer, or in the flush  *)
(* of one thread.  The thread's post, while it waits for the answer,       *)
(* carries just the lines of its flush.                                    *)
(***************************************************************************)
Separate ==
  /\ pending \subseteq 1..logged
  /\ \A th \in Thread : flushing[th].lines \subseteq 1..logged \ pending
  /\ \A t1, t2 \in Thread :
       t1 # t2 => flushing[t1].lines \cap flushing[t2].lines = {}

Owned ==
  Alive => \A p \in posts : p.waiting =>
             flushing[p.by].lines = p.lines /\ flushing[p.by].try = p.try

OnePlace == ReporterTypeOK /\ Separate /\ Owned

LEMMA NoWaitingPost ==
  ASSUME ReporterTypeOK, Owned, Alive, NEW th \in Thread, flushing[th] = NotFlushing
  PROVE  ~Awaited(th)
<1> SUFFICES ASSUME NEW p \in posts, p.by = th, p.waiting PROVE FALSE
  BY DEF Awaited
<1>1. p.try \in 1..LogAttempts
  BY DEF ReporterTypeOK, Post
<1>2. p.try = 0
  BY DEF Owned, NotFlushing
<1> QED
  BY <1>1, <1>2

LEMMA SendOwned ==
  ASSUME OnePlace, Alive, Alive', NEW th \in Thread, ~Awaited(th),
         NEW lines, NEW try, Send(th, lines, try)
  PROVE  Owned'
<1> SUFFICES ASSUME NEW p \in posts', p.waiting
             PROVE  flushing'[p.by].lines = p.lines /\ flushing'[p.by].try = p.try
  BY DEF Owned
<1>1. CASE p \in posts
  <2>1. p.by # th
    BY <1>1 DEF Awaited
  <2>2. p.by \in Thread
    BY <1>1 DEF OnePlace, ReporterTypeOK, Post
  <2> QED
    BY <1>1, <2>1, <2>2 DEF Send, OnePlace, ReporterTypeOK, Owned
<1>2. CASE p = [by |-> th, lines |-> lines, try |-> try, waiting |-> TRUE]
  BY <1>2 DEF Send, OnePlace, ReporterTypeOK
<1> QED
  BY <1>1, <1>2 DEF Send

LEMMA InitOnePlace == Init => OnePlace
<1> SUFFICES ASSUME Init PROVE Separate /\ Owned
  BY InitTypes DEF OnePlace
<1> QED
  BY DEF Init, Separate, Owned, NotFlushing

LEMMA MovesUnchanged == Moves => UNCHANGED lineVars
BY DEF Moves, MainSays, MainReturns, SignalStatus, Sigterm, TickerStops, Exit, End,
       FlushReturns, Closing, Close, CloseFlush, CloseReturns, HandleUpdate,
       StoreProgress, UpdateFails, UpdateTimesOut, UpdateDropped, lineVars

\* A process that has ended does not come back.
LEMMA DeadStaysDead == ASSUME Step, Alive' PROVE Alive
BY DEF Step, Moves, MainSays, MainReturns, SignalStatus, Sigterm, TickerStops, Exit, End,
       FlushReturns, Closing, Close, CloseFlush, CloseReturns, HandleUpdate,
       StoreProgress, UpdateFails, UpdateTimesOut, UpdateDropped, MainLogs, SignalLogs,
       Flush, RetryPost, HandlePost, StoreLogs, PostFails, PostTimesOut, PostDropped,
       Alive, At, vars

LEMMA StepOnePlace ==
  ASSUME OnePlace, Step
  PROVE  OnePlace'
<1>0. ReporterTypeOK /\ ReporterTypeOK' /\ (Alive' => Alive)
  BY StepTypes, DeadStaysDead DEF OnePlace
<1>1. CASE UNCHANGED vars \/ Moves
  <2>1. UNCHANGED lineVars
    BY <1>1, MovesUnchanged DEF vars
  <2> QED
    BY <1>0, <2>1 DEF lineVars, OnePlace, Separate, Owned
<1>2. CASE MainLogs \/ SignalLogs
  <2>1. /\ logged' = logged + 1 /\ pending' = pending \cup {logged + 1}
        /\ UNCHANGED <<flushing, posts, outcome>>
    BY <1>2 DEF MainLogs, SignalLogs, LogLine
  <2>2. Separate'
    <3>1. logged \in Nat
      BY <1>0 DEF ReporterTypeOK
    <3> QED
      BY <2>1, <3>1 DEF OnePlace, Separate
  <2> QED
    BY <1>0, <2>1, <2>2 DEF OnePlace, Owned, Alive
<1>3. ASSUME NEW th \in Thread, Flush(th) PROVE OnePlace'
  <2>1. /\ Alive /\ Alive' /\ flushing[th] = NotFlushing
        /\ Send(th, pending, 1) /\ pending' = {} /\ logged' = logged
    BY <1>3 DEF Flush, TakeBatch, At, Alive
  <2>2. Owned'
    BY <1>0, <2>1, NoWaitingPost, SendOwned DEF OnePlace
  <2>3. \A t \in Thread : flushing'[t].lines = IF t = th THEN pending ELSE flushing[t].lines
    BY <1>0, <2>1 DEF Send, ReporterTypeOK
  <2>4. Separate'
    BY <2>1, <2>3 DEF OnePlace, Separate
  <2> QED
    BY <1>0, <2>2, <2>4 DEF OnePlace
<1>4. ASSUME NEW th \in Thread, RetryPost(th) PROVE OnePlace'
  <2>1. /\ Alive /\ Alive' /\ ~Awaited(th) /\ UNCHANGED <<pending, logged>>
    BY <1>4 DEF RetryPost, Alive
  <2>2. CASE flushing[th].try < LogAttempts
    <3>1. Send(th, flushing[th].lines, flushing[th].try + 1)
      BY <1>4, <2>2 DEF RetryPost
    <3>2. Owned'
      BY <2>1, <3>1, SendOwned
    <3>3. \A t \in Thread : flushing'[t].lines = flushing[t].lines
      BY <1>0, <3>1 DEF Send, ReporterTypeOK
    <3>4. Separate'
      BY <2>1, <3>3 DEF OnePlace, Separate
    <3> QED
      BY <1>0, <3>2, <3>4 DEF OnePlace
  <2>3. CASE ~(flushing[th].try < LogAttempts)
    <3>1. flushing' = [flushing EXCEPT ![th] = NotFlushing] /\ posts' = posts
      BY <1>4, <2>3 DEF RetryPost
    <3>2. \A t \in Thread : flushing'[t].lines = IF t = th THEN {} ELSE flushing[t].lines
      BY <1>0, <3>1 DEF NotFlushing, ReporterTypeOK
    <3>3. Separate'
      BY <2>1, <3>2 DEF OnePlace, Separate
    <3>4. Owned'
      <4> SUFFICES ASSUME NEW p \in posts, p.waiting
                   PROVE  flushing'[p.by].lines = p.lines /\ flushing'[p.by].try = p.try
        BY <3>1 DEF Owned
      <4>1. p.by # th /\ p.by \in Thread
        BY <1>0, <2>1 DEF Awaited, ReporterTypeOK, Post
      <4> QED
        BY <1>0, <2>1, <3>1, <4>1 DEF OnePlace, Owned, ReporterTypeOK
    <3> QED
      BY <1>0, <3>3, <3>4 DEF OnePlace
  <2> QED
    BY <2>2, <2>3
<1>5. ASSUME NEW p \in posts, HandlePost(p) PROVE OnePlace'
  <2>0. p \in Post /\ p.by \in Thread /\ UNCHANGED <<pending, logged, outcome>>
    BY <1>0, <1>5 DEF HandlePost, StoreLogs, PostFails, PostTimesOut, PostDropped,
                      ReporterTypeOK, Post
  <2>1. CASE StoreLogs(p)
    <3>1. \A t \in Thread : \/ flushing'[t] = flushing[t]
                            \/ flushing'[t] = NotFlushing
      BY <1>0, <2>0, <2>1 DEF StoreLogs, ReporterTypeOK
    <3>2. Separate'
      BY <2>0, <3>1 DEF NotFlushing, OnePlace, Separate
    <3>3. Owned'
      <4> SUFFICES ASSUME Alive, NEW q \in posts, q # p, q.waiting
                   PROVE  flushing'[q.by].lines = q.lines /\ flushing'[q.by].try = q.try
        BY <1>0, <2>1 DEF StoreLogs, Owned
      <4>1. q \in Post /\ q.by \in Thread
        BY <1>0 DEF ReporterTypeOK, Post
      <4>2. flushing[q.by].lines = q.lines /\ flushing[q.by].try = q.try
        BY DEF OnePlace, Owned
      <4>3. ASSUME p.waiting, q.by = p.by PROVE FALSE
        <5>1. p.lines = q.lines /\ p.try = q.try
          BY <4>2, <4>3 DEF OnePlace, Owned
        <5>2. p.waiting = q.waiting
          BY <2>0, <4>1, <4>3 DEF Post
        <5> QED
          BY <2>0, <4>1, <4>3, <5>1, <5>2 DEF Post
      <4> QED
        BY <1>0, <2>0, <2>1, <4>1, <4>2, <4>3 DEF StoreLogs, ReporterTypeOK
    <3> QED
      BY <1>0, <3>2, <3>3 DEF OnePlace
  <2>2. CASE PostFails(p) \/ PostTimesOut(p) \/ PostDropped(p)
    <3>1. /\ flushing' = flushing
          /\ \A q \in posts' : q.waiting => q \in posts
      BY <2>0, <2>2 DEF PostFails, PostTimesOut, PostDropped, Post
    <3> QED
      BY <1>0, <2>0, <3>1 DEF OnePlace, Separate, Owned
  <2> QED
    BY <1>5, <2>1, <2>2 DEF HandlePost
<1> QED
  BY <1>1, <1>2, <1>3, <1>4, <1>5 DEF Step

(***************************************************************************)
(* A line is stored once.  The rows that hold it, the posts that carry it, *)
(* and one more post if it may still be sent, are at most one more than    *)
(* the answers that were lost.                                             *)
(***************************************************************************)
Carriers(ps, l) == {p \in ps : l \in p.lines}

MaySend(l) ==
  \/ l > logged \/ l \in pending
  \/ Alive /\ \E th \in Thread : l \in flushing[th].lines /\ ~Awaited(th)

Rows(l) == copies[l] + Cardinality(Carriers(posts, l))

Budget ==
  /\ IsFiniteSet(posts)
  /\ \A l \in Line : Rows(l) + (IF MaySend(l) THEN 1 ELSE 0) <= 1 + lost

LEMMA CarriersCount ==
  ASSUME NEW ps, IsFiniteSet(ps), NEW l
  PROVE  IsFiniteSet(Carriers(ps, l)) /\ Cardinality(Carriers(ps, l)) \in Nat
<1>1. Carriers(ps, l) \in SUBSET ps
  BY DEF Carriers
<1> QED
  BY <1>1, FS_Subset, FS_CardinalityType

\* One post more, or one less.
LEMMA SendCount ==
  ASSUME NEW ps, IsFiniteSet(ps), NEW q, NEW l
  PROVE  /\ IsFiniteSet(ps \cup {q})
         /\ Cardinality(Carriers(ps \cup {q}, l)) <=
              Cardinality(Carriers(ps, l)) + (IF l \in q.lines THEN 1 ELSE 0)
<1>1. IsFiniteSet(ps \cup {q})
  BY FS_AddElement
<1>2. CASE l \in q.lines
  <2>1. Carriers(ps \cup {q}, l) = Carriers(ps, l) \cup {q}
    BY <1>2 DEF Carriers
  <2>2. \/ Cardinality(Carriers(ps, l) \cup {q}) = Cardinality(Carriers(ps, l))
        \/ Cardinality(Carriers(ps, l) \cup {q}) = Cardinality(Carriers(ps, l)) + 1
    BY CarriersCount, FS_AddElement
  <2>3. Cardinality(Carriers(ps, l)) \in Nat
    BY CarriersCount
  <2>4. Cardinality(Carriers(ps \cup {q}, l)) <= Cardinality(Carriers(ps, l)) + 1
    <3> DEFINE c == Cardinality(Carriers(ps, l))
               d == Cardinality(Carriers(ps, l) \cup {q})
    <3>1. Cardinality(Carriers(ps \cup {q}, l)) = d
      BY <2>1
    <3>2. c \in Nat /\ (d = c \/ d = c + 1)
      BY <2>2, <2>3
    <3> HIDE DEF c, d
    <3>3. d <= c + 1
      BY <3>2
    <3> QED
      BY <3>1, <3>3 DEF c
  <2> QED
    BY <1>1, <1>2, <2>4
<1>3. CASE l \notin q.lines
  <2>1. Carriers(ps \cup {q}, l) = Carriers(ps, l)
    BY <1>3 DEF Carriers
  <2> QED
    BY <1>1, <1>3, <2>1, CarriersCount
<1> QED
  BY <1>2, <1>3

LEMMA AnswerCount ==
  ASSUME NEW ps, IsFiniteSet(ps), NEW q \in ps, NEW l
  PROVE  /\ IsFiniteSet(ps \ {q})
         /\ Cardinality(Carriers(ps \ {q}, l)) =
              Cardinality(Carriers(ps, l)) - (IF l \in q.lines THEN 1 ELSE 0)
<1>1. IsFiniteSet(ps \ {q})
  BY FS_RemoveElement
<1>2. CASE l \in q.lines
  <2>1. Carriers(ps \ {q}, l) = Carriers(ps, l) \ {q} /\ q \in Carriers(ps, l)
    BY <1>2 DEF Carriers
  <2> QED
    BY <1>1, <1>2, <2>1, CarriersCount, FS_RemoveElement
<1>3. CASE l \notin q.lines
  <2>1. Carriers(ps \ {q}, l) = Carriers(ps, l)
    BY <1>3 DEF Carriers
  <2> QED
    BY <1>1, <1>3, <2>1, CarriersCount
<1> QED
  BY <1>2, <1>3

LEMMA InitBudget == Init => Budget
<1> SUFFICES ASSUME Init PROVE Budget
  OBVIOUS
<1>1. \A l : Carriers(posts, l) = {}
  BY DEF Init, Carriers
<1>2. IsFiniteSet({}) /\ Cardinality({}) = 0
  BY FS_EmptySet
<1> QED
  BY <1>1, <1>2 DEF Init, Budget, Rows

\* What a step needs to keep within the budget, line by line.
LEMMA BudgetKept ==
  ASSUME ReporterTypeOK, ReporterTypeOK', Budget, IsFiniteSet(posts'), lost' >= lost,
         \A l \in Line :
           Rows(l)' + (IF MaySend(l)' THEN 1 ELSE 0)
             <= Rows(l) + (IF MaySend(l) THEN 1 ELSE 0) + (lost' - lost)
  PROVE  Budget'
<1>1. lost \in Nat /\ lost' \in Nat
  BY DEF ReporterTypeOK
<1> SUFFICES ASSUME NEW l \in Line
             PROVE  Rows(l)' + (IF MaySend(l)' THEN 1 ELSE 0) <= 1 + lost'
  BY DEF Budget
<1>2. Rows(l) \in Nat /\ Rows(l)' \in Nat
  BY CarriersCount DEF Budget, Rows, ReporterTypeOK
<1> QED
  BY <1>1, <1>2 DEF Budget

\* A thread sends lines that it might send: each moves into the new post.
LEMMA SendBudget ==
  ASSUME OnePlace, OnePlace', Budget, Alive, NEW th \in Thread, ~Awaited(th),
         NEW lines, NEW try, Send(th, lines, try), lost' = lost, copies' = copies,
         logged' = logged, pending' \subseteq pending,
         \A l \in lines : MaySend(l)
  PROVE  Budget'
<1> DEFINE q == [by |-> th, lines |-> lines, try |-> try, waiting |-> TRUE]
<1>0. ReporterTypeOK /\ ReporterTypeOK' /\ posts' = posts \cup {q}
  BY DEF OnePlace, Send
<1>1. flushing'[th].lines = lines
      /\ \A t \in Thread \ {th} : flushing'[t] = flushing[t]
  BY DEF Send, OnePlace, ReporterTypeOK
<1>2. Awaited(th)' /\ \A t \in Thread : Awaited(t) => Awaited(t)'
  <2>1. q \in posts' /\ q.by = th /\ q.waiting
    BY <1>0
  <2>2. Awaited(th)'
    BY <2>1 DEF Awaited
  <2>3. ASSUME NEW t \in Thread, Awaited(t) PROVE Awaited(t)'
    BY <1>0, <2>3 DEF Awaited
  <2> QED
    BY <2>2, <2>3
<1>3. IsFiniteSet(posts')
  BY <1>0, SendCount DEF Budget
<1>4. \A l : MaySend(l)' => MaySend(l)
  BY <1>1, <1>2 DEF MaySend
<1>5. \A l \in lines : ~MaySend(l)'
  <2> SUFFICES ASSUME NEW l \in lines PROVE ~MaySend(l)'
    OBVIOUS
  <2>1. l \in 1..logged' /\ l \notin pending'
    BY <1>1 DEF OnePlace, Separate
  <2>2. \A t \in Thread : l \in flushing'[t].lines => t = th
    BY <1>1 DEF OnePlace, Separate
  <2>3. logged' \in Nat
    BY <1>0 DEF ReporterTypeOK
  <2> QED
    BY <1>2, <2>1, <2>2, <2>3 DEF MaySend
<1>6. ASSUME NEW l \in Line
      PROVE  Rows(l)' + (IF MaySend(l)' THEN 1 ELSE 0)
               <= Rows(l) + (IF MaySend(l) THEN 1 ELSE 0) + (lost' - lost)
  <2>1. copies[l] \in Nat /\ lost \in Nat
    BY <1>0 DEF ReporterTypeOK
  <2>2. /\ Cardinality(Carriers(posts, l)) \in Nat
        /\ Cardinality(Carriers(posts', l)) \in Nat
    BY <1>3, CarriersCount DEF Budget
  <2>3. Cardinality(Carriers(posts', l)) <=
          Cardinality(Carriers(posts, l)) + (IF l \in lines THEN 1 ELSE 0)
    <3>1. q.lines = lines
      OBVIOUS
    <3> HIDE DEF q
    <3> QED
      BY <1>0, <3>1, SendCount DEF Budget
  <2>4. Rows(l) = copies[l] + Cardinality(Carriers(posts, l))
        /\ Rows(l)' = copies[l] + Cardinality(Carriers(posts', l))
    BY DEF Rows, Carriers
  <2>5. CASE l \in lines
    BY <1>5, <2>1, <2>2, <2>3, <2>4, <2>5
  <2>6. CASE l \notin lines
    BY <1>4, <2>1, <2>2, <2>3, <2>4, <2>6
  <2> QED
    BY <2>5, <2>6
<1>7. lost \in Nat
  BY <1>0 DEF ReporterTypeOK
<1> QED
  BY <1>0, <1>3, <1>6, <1>7, BudgetKept

\* A post is gone; only its own lines may be sent again for that.
LEMMA AnswerBudget ==
  ASSUME OnePlace, OnePlace', Budget, NEW p \in posts, Alive' => Alive,
         posts' = posts \ {p}, UNCHANGED <<logged, pending, lost>>,
         \/ flushing' = flushing /\ copies' = copies
         \/ /\ copies' = [l \in Line |-> copies[l] + IF l \in p.lines THEN 1 ELSE 0]
            /\ flushing' = IF p.waiting /\ Alive
                           THEN [flushing EXCEPT ![p.by] = NotFlushing] ELSE flushing
  PROVE  Budget'
<1>0. ReporterTypeOK /\ ReporterTypeOK' /\ p.by \in Thread /\ lost \in Nat
  BY DEF OnePlace, ReporterTypeOK, Post
<1>1. IsFiniteSet(posts')
  BY AnswerCount DEF Budget
<1>2. ASSUME NEW l \in Line, MaySend(l)', ~MaySend(l)
      PROVE  l \in p.lines /\ flushing' = flushing /\ copies' = copies
  <2>1. PICK th \in Thread : Alive /\ l \in flushing'[th].lines /\ ~Awaited(th)'
    BY <1>2 DEF MaySend
  <2>2. l \in flushing[th].lines /\ flushing'[th] = flushing[th]
    BY <1>0, <2>1 DEF NotFlushing, ReporterTypeOK
  <2>3. Awaited(th)
    BY <1>2, <2>1, <2>2 DEF MaySend
  <2>4. p.by = th /\ p.waiting
    BY <2>1, <2>3 DEF Awaited
  <2>5. p.lines = flushing[th].lines /\ p.try = flushing[th].try
    BY <2>1, <2>4 DEF OnePlace, Owned
  <2>6. flushing'[th] # NotFlushing
    BY <2>2 DEF NotFlushing
  <2> QED
    BY <1>0, <2>1, <2>2, <2>4, <2>5, <2>6 DEF ReporterTypeOK
<1>3. ASSUME NEW l \in Line
      PROVE  Rows(l)' + (IF MaySend(l)' THEN 1 ELSE 0)
               <= Rows(l) + (IF MaySend(l) THEN 1 ELSE 0) + (lost' - lost)
  <2>1. copies[l] \in Nat /\ copies'[l] \in Nat
    BY <1>0 DEF ReporterTypeOK
  <2>2. /\ Cardinality(Carriers(posts, l)) \in Nat
        /\ Cardinality(Carriers(posts', l)) =
             Cardinality(Carriers(posts, l)) - (IF l \in p.lines THEN 1 ELSE 0)
    BY CarriersCount, AnswerCount DEF Budget
  <2>3. Rows(l) = copies[l] + Cardinality(Carriers(posts, l))
        /\ Rows(l)' = copies'[l] + Cardinality(Carriers(posts', l))
    BY DEF Rows, Carriers
  <2>4. copies'[l] = copies[l]
        \/ copies'[l] = copies[l] + (IF l \in p.lines THEN 1 ELSE 0)
    OBVIOUS
  <2>5. CASE MaySend(l)' /\ ~MaySend(l)
    BY <1>0, <1>2, <2>1, <2>2, <2>3, <2>5
  <2>6. CASE ~MaySend(l)' \/ MaySend(l)
    BY <1>0, <2>1, <2>2, <2>3, <2>4, <2>6
  <2> QED
    BY <2>5, <2>6
<1> QED
  BY <1>0, <1>1, <1>3, BudgetKept

\* Nothing is stored, and nothing more may be sent.
LEMMA QuietBudget ==
  ASSUME OnePlace, OnePlace', Budget, UNCHANGED <<copies, posts, lost>>,
         \A l \in Line : MaySend(l)' => MaySend(l)
  PROVE  Budget'
<1>0. ReporterTypeOK /\ ReporterTypeOK' /\ lost \in Nat
  BY DEF OnePlace, ReporterTypeOK
<1>1. ASSUME NEW l \in Line PROVE Rows(l)' = Rows(l) /\ Rows(l) \in Nat
  <2>1. Rows(l)' = Rows(l)
    BY DEF Rows, Carriers
  <2>2. copies[l] \in Nat /\ Cardinality(Carriers(posts, l)) \in Nat
    BY <1>0, CarriersCount DEF Budget, ReporterTypeOK
  <2> QED
    BY <2>1, <2>2 DEF Rows
<1> QED
  BY <1>0, <1>1, BudgetKept DEF Budget

LEMMA StepBudget ==
  ASSUME OnePlace, Budget, Step
  PROVE  Budget'
<1>0. OnePlace' /\ (Alive' => Alive) /\ ReporterTypeOK /\ ReporterTypeOK'
  BY StepOnePlace, DeadStaysDead DEF OnePlace
<1>1. CASE UNCHANGED vars \/ Moves
  <2>1. UNCHANGED <<logged, pending, flushing, posts, copies, lost>>
    BY <1>1, MovesUnchanged DEF vars, lineVars
  <2>2. \A l : MaySend(l)' => MaySend(l)
    BY <1>0, <2>1 DEF MaySend, Awaited
  <2> QED
    BY <1>0, <2>1, <2>2, QuietBudget
<1>2. CASE MainLogs \/ SignalLogs
  <2>1. /\ logged' = logged + 1 /\ pending' = pending \cup {logged + 1}
        /\ UNCHANGED <<flushing, posts, copies, lost>>
    BY <1>2 DEF MainLogs, SignalLogs, LogLine
  <2>2. ASSUME NEW l \in Line, MaySend(l)' PROVE MaySend(l)
    <3>1. l \in Nat /\ logged \in Nat
      BY <1>0 DEF ReporterTypeOK, Line
    <3> QED
      BY <1>0, <2>1, <2>2, <3>1 DEF MaySend, Awaited
  <2> QED
    BY <1>0, <2>1, <2>2, QuietBudget
<1>3. ASSUME NEW th \in Thread, Flush(th) PROVE Budget'
  <2>1. /\ Alive /\ flushing[th] = NotFlushing
        /\ Send(th, pending, 1) /\ pending' = {}
        /\ UNCHANGED <<logged, copies, lost>>
    BY <1>3 DEF Flush, TakeBatch, At, Alive
  <2>2. ~Awaited(th)
    BY <2>1, NoWaitingPost DEF OnePlace
  <2>3. \A l \in pending : MaySend(l)
    BY DEF MaySend
  <2> QED
    BY <1>0, <2>1, <2>2, <2>3, SendBudget
<1>4. ASSUME NEW th \in Thread, RetryPost(th) PROVE Budget'
  <2>1. Alive /\ ~Awaited(th) /\ UNCHANGED <<pending, logged, copies, lost>>
    BY <1>4 DEF RetryPost
  <2>2. CASE flushing[th].try < LogAttempts
    <3>1. Send(th, flushing[th].lines, flushing[th].try + 1)
      BY <1>4, <2>2 DEF RetryPost
    <3>2. \A l \in flushing[th].lines : MaySend(l)
      BY <2>1 DEF MaySend
    <3> QED
      BY <1>0, <2>1, <3>1, <3>2, SendBudget
  <2>3. CASE ~(flushing[th].try < LogAttempts)
    <3>1. flushing' = [flushing EXCEPT ![th] = NotFlushing] /\ posts' = posts
      BY <1>4, <2>3 DEF RetryPost
    <3>2. \A t \in Thread : flushing'[t].lines \subseteq flushing[t].lines
      BY <1>0, <3>1 DEF NotFlushing, ReporterTypeOK
    <3>3. \A l : MaySend(l)' => MaySend(l)
      BY <1>0, <2>1, <3>1, <3>2 DEF MaySend, Awaited
    <3> QED
      BY <1>0, <2>1, <3>1, <3>3, QuietBudget
  <2> QED
    BY <2>2, <2>3
<1>5. ASSUME NEW p \in posts, HandlePost(p) PROVE Budget'
  <2>1. CASE StoreLogs(p)
    BY <1>0, <2>1, AnswerBudget DEF StoreLogs
  <2>2. CASE PostFails(p) \/ PostDropped(p)
    BY <1>0, <2>2, AnswerBudget DEF PostFails, PostDropped
  <2>3. CASE PostTimesOut(p)
    <3> DEFINE q == [p EXCEPT !.waiting = FALSE]
               left == posts \ {p}
    <3>1. posts' = left \cup {q} /\ lost' = lost + 1 /\ copies' = copies
      BY <2>3 DEF PostTimesOut
    <3>2. q.lines = p.lines
      BY <1>0 DEF ReporterTypeOK, Post
    <3>3. lost \in Nat
      BY <1>0 DEF ReporterTypeOK
    <3> HIDE DEF q, left
    <3>4. IsFiniteSet(left)
      BY AnswerCount DEF Budget, left
    <3>5. IsFiniteSet(posts')
      BY <3>1, <3>4, SendCount
    <3>6. ASSUME NEW l \in Line
          PROVE  Rows(l)' + (IF MaySend(l)' THEN 1 ELSE 0)
                   <= Rows(l) + (IF MaySend(l) THEN 1 ELSE 0) + (lost' - lost)
      <4>1. copies[l] \in Nat
        BY <1>0 DEF ReporterTypeOK
      <4>2. /\ Cardinality(Carriers(posts, l)) \in Nat
            /\ Cardinality(Carriers(left, l)) \in Nat
            /\ Cardinality(Carriers(posts', l)) \in Nat
        BY <3>4, <3>5, CarriersCount DEF Budget
      <4>3. Cardinality(Carriers(left, l)) =
              Cardinality(Carriers(posts, l)) - (IF l \in p.lines THEN 1 ELSE 0)
        BY AnswerCount DEF Budget, left
      <4>4. Cardinality(Carriers(posts', l)) <=
              Cardinality(Carriers(left, l)) + (IF l \in p.lines THEN 1 ELSE 0)
        BY <3>1, <3>2, <3>4, SendCount
      <4>5. Rows(l) = copies[l] + Cardinality(Carriers(posts, l))
            /\ Rows(l)' = copies[l] + Cardinality(Carriers(posts', l))
        BY <3>1 DEF Rows, Carriers
      <4>6. Rows(l)' <= Rows(l) /\ Rows(l) \in Nat /\ Rows(l)' \in Nat
        BY <4>1, <4>2, <4>3, <4>4, <4>5
      <4> QED
        BY <3>1, <3>3, <4>6
    <3> QED
      BY <1>0, <3>1, <3>3, <3>5, <3>6, BudgetKept
  <2> QED
    BY <1>5, <2>1, <2>2, <2>3 DEF HandlePost
<1> QED
  BY <1>1, <1>2, <1>3, <1>4, <1>5 DEF Step

LEMMA Lines == Spec => [](OnePlace /\ Budget)
<1>1. WorkerInit => OnePlace /\ Budget
  BY InitOnePlace, InitBudget DEF WorkerInit
<1>2. OnePlace /\ Budget /\ [WorkerNext]_allVars => OnePlace' /\ Budget'
  BY StepCases, StepOnePlace, StepBudget DEF OnePlace
<1> QED
  BY <1>1, <1>2, PTL DEF Spec

\* However many threads flush the buffer and however often a post is tried
\* again, a line has one row, and one more for each answer that was lost.
THEOREM StoredOnceCorrect == Spec => []StoredOnce
<1>1. OnePlace /\ Budget => StoredOnce
  <2> SUFFICES ASSUME OnePlace, Budget, NEW l \in Line PROVE copies[l] <= 1 + lost
    BY DEF StoredOnce
  <2>1. copies[l] \in Nat /\ lost \in Nat /\ Cardinality(Carriers(posts, l)) \in Nat
    BY CarriersCount DEF Budget, OnePlace, ReporterTypeOK
  <2>2. Rows(l) + (IF MaySend(l) THEN 1 ELSE 0) <= 1 + lost
    BY DEF Budget
  <2> QED
    BY <2>1, <2>2 DEF Rows
<1> QED
  BY <1>1, Lines, PTL

(***************************************************************************)
(* Where the threads are.                                                  *)
(***************************************************************************)

\* The ticker has no flush of its own when it is done, and a thread that is in
\* or behind Close's last flush has seen it so.
ClosersSeeTicker ==
  /\ pc["ticker"] = "done" => flushing["ticker"] = NotFlushing
  /\ \A th \in Callers : pc[th] \in {"last", "leaving"} => pc["ticker"] = "done"

\* The callers of Log flush only where their code does.
FlushesInPlace ==
  \A th \in Callers :
    pc[th] \notin {"posting", "leaving"} => flushing[th] = NotFlushing

\* Without a SIGTERM, nothing is logged behind the main thread's last flush.
LastFlushIsLast ==
  Alive /\ pc["main"] = "leaving" /\ pc["signal"] = "wait" => pending = {}

\* Each attempt without an answer took a fault.
AttemptsFault ==
  Alive => \A th \in Thread :
    flushing[th] # NotFlushing =>
      faults >= IF Awaited(th) THEN flushing[th].try - 1 ELSE flushing[th].try

Places == ClosersSeeTicker /\ FlushesInPlace /\ LastFlushIsLast

LEMMA InitPlaces == Init => Places /\ AttemptsFault
BY DEF Init, Places, ClosersSeeTicker, FlushesInPlace, LastFlushIsLast, AttemptsFault,
       Callers, Thread

LEMMA MovesPlaces ==
  ASSUME ReporterTypeOK, Places, Moves
  PROVE  Places'
<1>0. UNCHANGED <<flushing, pending>>
  BY MovesUnchanged DEF lineVars
<1> USE <1>0 DEF ReporterTypeOK, Places, ClosersSeeTicker, FlushesInPlace, LastFlushIsLast,
                 At, Alive, GoTo, Callers, Thread
<1>1. CASE MainSays
  BY <1>1 DEF MainSays, Progress
<1>2. CASE MainReturns
  BY <1>2 DEF MainReturns
<1>3. CASE SignalStatus
  BY <1>3 DEF SignalStatus
<1>4. CASE Sigterm
  BY <1>4 DEF Sigterm
<1>5. CASE TickerStops
  BY <1>5 DEF TickerStops
<1>6. CASE Exit
  BY <1>6 DEF Exit, End
<1>7. ASSUME NEW th \in Callers, FlushReturns(th) PROVE Places'
  BY <1>7 DEF FlushReturns, FlushOver
<1>8. ASSUME NEW th \in Callers, Closing(th) PROVE Places'
  BY <1>8 DEF Closing, Close, CloseFlush, CloseReturns, End
<1>9. ASSUME NEW u \in updates, HandleUpdate(u) PROVE Places'
  BY <1>9 DEF HandleUpdate, StoreProgress, UpdateFails, UpdateTimesOut, UpdateDropped,
              ProgressReturns
<1> QED
  BY <1>1, <1>2, <1>3, <1>4, <1>5, <1>6, <1>7, <1>8, <1>9 DEF Moves

LEMMA StepPlaces ==
  ASSUME OnePlace, Places, Step
  PROVE  Places'
<1>0. ReporterTypeOK
  BY DEF OnePlace
<1>1. CASE UNCHANGED vars
  BY <1>1 DEF vars, lineVars, Places, ClosersSeeTicker, FlushesInPlace, LastFlushIsLast, Alive
<1>2. CASE Moves
  BY <1>0, <1>2, MovesPlaces
<1>3. CASE MainLogs \/ SignalLogs
  BY <1>0, <1>3 DEF MainLogs, SignalLogs, LogLine, ReporterTypeOK, Places, ClosersSeeTicker,
                    FlushesInPlace, LastFlushIsLast, At, Alive, GoTo, Callers, Thread
<1>4. ASSUME NEW th \in Thread, Flush(th) PROVE Places'
  <2>1. /\ pending' = {}
        /\ \E f : flushing' = [flushing EXCEPT ![th] = f]
    BY <1>4 DEF Flush, TakeBatch, Send
  <2> QED
    BY <1>0, <1>4, <2>1 DEF Flush, ReporterTypeOK, Places, ClosersSeeTicker, FlushesInPlace,
                            LastFlushIsLast, At, Alive, GoTo, Callers, Thread
<1>5. ASSUME NEW th \in Thread, RetryPost(th) PROVE Places'
  <2>1. /\ flushing[th] # NotFlushing /\ UNCHANGED <<pc, outcome, pending>>
        /\ \E f : flushing' = [flushing EXCEPT ![th] = f]
    BY <1>5 DEF RetryPost, Send
  <2> QED
    BY <1>0, <2>1 DEF ReporterTypeOK, Places, ClosersSeeTicker, FlushesInPlace,
                      LastFlushIsLast, Alive, Callers, Thread
<1>6. ASSUME NEW p \in posts, HandlePost(p) PROVE Places'
  <2>1. /\ UNCHANGED <<pc, outcome, pending>>
        /\ \A th \in Thread : flushing'[th] \in {flushing[th], NotFlushing}
    BY <1>0, <1>6 DEF HandlePost, StoreLogs, PostFails, PostTimesOut, PostDropped,
                      ReporterTypeOK, Post
  <2> QED
    BY <2>1 DEF Places, ClosersSeeTicker, FlushesInPlace, LastFlushIsLast, Alive, Callers, Thread
<1> QED
  BY <1>1, <1>2, <1>3, <1>4, <1>5, <1>6 DEF Step

LEMMA StepAttempts ==
  ASSUME OnePlace, AttemptsFault, Step
  PROVE  AttemptsFault'
<1>0. ReporterTypeOK /\ ReporterTypeOK' /\ (Alive' => Alive)
  BY StepTypes, DeadStaysDead DEF OnePlace
<1> SUFFICES ASSUME Alive', NEW t \in Thread, flushing'[t] # NotFlushing
             PROVE  faults' >= IF Awaited(t)' THEN flushing'[t].try - 1 ELSE flushing'[t].try
  BY DEF AttemptsFault
<1>1. /\ faults \in Nat /\ faults' \in Nat
      /\ flushing[t].try \in Nat /\ flushing'[t].try \in Nat
  BY <1>0, ReporterAssumption DEF ReporterTypeOK
<1>2. flushing[t] # NotFlushing =>
        faults >= IF Awaited(t) THEN flushing[t].try - 1 ELSE flushing[t].try
  BY <1>0 DEF AttemptsFault
<1>3. CASE /\ flushing'[t] = flushing[t] /\ faults' >= faults
           /\ Awaited(t) => Awaited(t)' \/ faults' = faults + 1
  <2>1. CASE Awaited(t)' \/ ~Awaited(t)
    BY <1>1, <1>2, <1>3, <2>1
  <2>2. CASE ~Awaited(t)' /\ faults' = faults + 1
    BY <1>1, <1>2, <1>3, <2>2
  <2> QED
    BY <1>3, <2>1, <2>2
<1>4. CASE UNCHANGED vars \/ Moves
  <2>1. UNCHANGED <<flushing, posts>>
    BY <1>4, MovesUnchanged DEF vars, lineVars
  <2>2. faults' = faults \/ faults' = faults + 1
    BY <1>4 DEF vars, Moves, MainSays, MainReturns, SignalStatus, Sigterm, TickerStops,
                Exit, End, FlushReturns, Closing, Close, CloseFlush, CloseReturns,
                HandleUpdate, StoreProgress, UpdateFails, UpdateTimesOut, UpdateDropped, Fault
  <2>3. Awaited(t)' = Awaited(t)
    BY <2>1 DEF Awaited
  <2> QED
    BY <1>1, <1>3, <2>1, <2>2, <2>3
<1>5. CASE MainLogs \/ SignalLogs
  <2>1. UNCHANGED <<flushing, posts, faults>>
    BY <1>5 DEF MainLogs, SignalLogs, LogLine
  <2> QED
    BY <1>1, <1>3, <2>1 DEF Awaited
<1>6. ASSUME NEW th \in Thread, NEW lines, NEW try \in Nat, Send(th, lines, try),
             faults' = faults, faults >= try - 1
      PROVE  faults' >= IF Awaited(t)' THEN flushing'[t].try - 1 ELSE flushing'[t].try
  <2>1. CASE t = th
    <3> DEFINE q == [by |-> th, lines |-> lines, try |-> try, waiting |-> TRUE]
    <3>1. q \in posts' /\ q.by = t /\ q.waiting
      BY <1>6, <2>1 DEF Send
    <3>2. Awaited(t)'
      BY <3>1 DEF Awaited
    <3>3. flushing'[t].try = try
      BY <1>0, <1>6, <2>1 DEF Send, ReporterTypeOK
    <3> QED
      BY <1>1, <1>6, <3>2, <3>3
  <2>2. CASE t # th
    <3>1. flushing'[t] = flushing[t] /\ posts \subseteq posts'
      BY <1>0, <1>6, <2>2 DEF Send, ReporterTypeOK
    <3>2. Awaited(t) => Awaited(t)'
      BY <3>1 DEF Awaited
    <3> QED
      BY <1>1, <1>3, <1>6, <3>1, <3>2
  <2> QED
    BY <2>1, <2>2
<1>7. ASSUME NEW th \in Thread, Flush(th)
      PROVE  faults' >= IF Awaited(t)' THEN flushing'[t].try - 1 ELSE flushing'[t].try
  <2>1. Send(th, pending, 1) /\ faults' = faults /\ faults >= 1 - 1
    BY <1>1, <1>7 DEF Flush, TakeBatch
  <2> QED
    BY <1>6, <2>1
<1>8. ASSUME NEW th \in Thread, RetryPost(th)
      PROVE  faults' >= IF Awaited(t)' THEN flushing'[t].try - 1 ELSE flushing'[t].try
  <2>1. /\ flushing[th].try \in Nat /\ faults' = faults
        /\ faults >= flushing[th].try
    BY <1>0, <1>8, ReporterAssumption DEF RetryPost, AttemptsFault, ReporterTypeOK
  <2>2. CASE flushing[th].try < LogAttempts
    <3>1. Send(th, flushing[th].lines, flushing[th].try + 1)
      BY <1>8, <2>2 DEF RetryPost
    <3>2. flushing[th].try + 1 \in Nat /\ faults >= (flushing[th].try + 1) - 1
      BY <1>1, <2>1
    <3> QED
      BY <1>6, <2>1, <3>1, <3>2
  <2>3. CASE ~(flushing[th].try < LogAttempts)
    <3>1. flushing' = [flushing EXCEPT ![th] = NotFlushing] /\ posts' = posts
      BY <1>8, <2>3 DEF RetryPost
    <3>2. flushing'[t] = flushing[t]
      BY <1>0, <3>1 DEF ReporterTypeOK
    <3> QED
      BY <1>1, <1>3, <2>1, <3>1, <3>2 DEF Awaited
  <2> QED
    BY <2>2, <2>3
<1>9. ASSUME NEW p \in posts, HandlePost(p)
      PROVE  faults' >= IF Awaited(t)' THEN flushing'[t].try - 1 ELSE flushing'[t].try
  <2>0. p.by \in Thread
    BY <1>0 DEF ReporterTypeOK, Post
  <2>1. CASE StoreLogs(p)
    <3>1. flushing'[t] = flushing[t] /\ ~(p.waiting /\ p.by = t)
      BY <1>0, <2>0, <2>1 DEF StoreLogs, ReporterTypeOK
    <3>2. posts' = posts \ {p} /\ faults' = faults
      BY <2>1 DEF StoreLogs
    <3> QED
      BY <1>1, <1>3, <3>1, <3>2 DEF Awaited
  <2>2. CASE PostFails(p) \/ PostTimesOut(p)
    <3>1. flushing' = flushing /\ faults' = faults + 1
      BY <2>2 DEF PostFails, PostTimesOut, Fault
    <3> QED
      BY <1>1, <1>3, <3>1
  <2>3. CASE PostDropped(p)
    <3>1. /\ ~p.waiting /\ posts' = posts \ {p}
          /\ flushing' = flushing /\ faults' = faults
      BY <1>0, <2>3 DEF PostDropped
    <3> QED
      BY <1>1, <1>3, <3>1 DEF Awaited
  <2> QED
    BY <1>9, <2>1, <2>2, <2>3 DEF HandlePost
<1> QED
  BY <1>4, <1>5, <1>7, <1>8, <1>9 DEF Step

(***************************************************************************)
(* No line is lost but those in hand.                                      *)
(***************************************************************************)
Held == pending \cup UNION {flushing[th].lines : th \in Thread}

LEMMA AliveInHand == Alive => InHand = Held
BY DEF Alive, InHand, Held

\* The end of the process leaves every line that was held in hand: a thread that
\* is not named in InHand has nothing.
LEMMA MovesInHand ==
  ASSUME OnePlace, Places, Moves
  PROVE  InHand \subseteq InHand'
<1>0. ReporterTypeOK /\ UNCHANGED <<flushing, pending>>
  BY MovesUnchanged DEF lineVars, OnePlace
<1>1. CASE Alive /\ ~(\E th \in Callers : CloseReturns(th))
  <2>1. outcome' \notin {"returned", "interrupted"}
    BY <1>1 DEF Moves, MainSays, MainReturns, SignalStatus, Sigterm, TickerStops,
                Exit, End, FlushReturns, Closing, Close, CloseFlush, HandleUpdate,
                StoreProgress, UpdateFails, UpdateTimesOut, UpdateDropped, Alive
  <2> QED
    BY <1>0, <1>1, <2>1, AliveInHand DEF InHand, Held
<1>2. ASSUME CloseReturns("main") PROVE InHand \subseteq InHand'
  <2>1. /\ Alive /\ outcome' = "returned" /\ pc' = pc
        /\ pc["ticker"] = "done" /\ flushing["ticker"] = NotFlushing
    BY <1>2 DEF CloseReturns, FlushOver, At, End, Places, ClosersSeeTicker, Callers
  <2>2. CASE pc["signal"] = "wait"
    <3>1. flushing["main"] = NotFlushing /\ flushing["signal"] = NotFlushing
      BY <1>2, <2>2 DEF CloseReturns, FlushOver, At, Places, FlushesInPlace, Callers
    <3>2. pending = {}
      BY <1>2, <2>1, <2>2 DEF CloseReturns, FlushOver, At, Places, LastFlushIsLast
    <3>3. Held = {}
      BY <2>1, <3>1, <3>2 DEF Held, Thread, NotFlushing
    <3> QED
      BY <2>1, <3>3, AliveInHand
  <2>3. CASE pc["signal"] # "wait"
    <3>1. InHand' = Held
      BY <1>0, <2>1, <2>3 DEF InHand, Held
    <3> QED
      BY <2>1, <3>1, AliveInHand
  <2> QED
    BY <2>2, <2>3
<1>3. ASSUME CloseReturns("signal") PROVE InHand \subseteq InHand'
  <2>1. /\ Alive /\ outcome' = "interrupted"
        /\ flushing["ticker"] = NotFlushing /\ flushing["signal"] = NotFlushing
    BY <1>3 DEF CloseReturns, FlushOver, At, End, Places, ClosersSeeTicker,
                FlushesInPlace, Callers
  <2>2. InHand' = pending \cup flushing["main"].lines
    BY <1>0, <2>1 DEF InHand
  <2>3. Held = pending \cup flushing["main"].lines
    BY <2>1 DEF Held, Thread, NotFlushing
  <2> QED
    BY <2>1, <2>2, <2>3, AliveInHand
<1>4. CASE ~Alive
  <2>1. UNCHANGED <<pc, outcome>>
    BY <1>4 DEF Moves, MainSays, MainReturns, SignalStatus, Sigterm, TickerStops,
                Exit, End, FlushReturns, FlushOver, Closing, Close, CloseFlush, CloseReturns,
                HandleUpdate, StoreProgress, UpdateFails, UpdateTimesOut, UpdateDropped,
                ProgressReturns, At
  <2> QED
    BY <1>0, <2>1 DEF InHand
<1> QED
  BY <1>1, <1>2, <1>3, <1>4 DEF Callers

LEMMA StepAccounts ==
  ASSUME OnePlace, Places, AttemptsFault, OnlyInHandLost, Step
  PROVE  OnlyInHandLost'
<1> DEFINE Known(l) == copies[l] > 0 \/ l \in InHand \/ l \in givenUp
<1>0. ReporterTypeOK /\ ReporterTypeOK'
  BY StepTypes DEF OnePlace
<1>1. /\ logged \in 0..MaxLines /\ faults \in Nat
      /\ \A l \in 1..logged : l \in Line /\ copies[l] \in Nat /\ Known(l)
  BY <1>0, ReporterAssumption DEF ReporterTypeOK, Line, OnlyInHandLost
<1>2. CASE UNCHANGED vars \/ Moves
  <2>1. UNCHANGED <<logged, copies, givenUp>> /\ InHand \subseteq InHand'
    BY <1>2, MovesUnchanged, MovesInHand DEF vars, lineVars, InHand
  <2>2. faults' >= faults
    BY <1>1, <1>2 DEF vars, Moves, MainSays, MainReturns, SignalStatus, Sigterm, TickerStops,
                Exit, End, FlushReturns, Closing, Close, CloseFlush, CloseReturns,
                HandleUpdate, StoreProgress, UpdateFails, UpdateTimesOut, UpdateDropped, Fault
  <2> QED
    BY <1>0, <1>1, <2>1, <2>2, ReporterAssumption DEF OnlyInHandLost, ReporterTypeOK
<1>3. CASE MainLogs \/ SignalLogs
  <2>1. /\ logged' = logged + 1 /\ pending' = pending \cup {logged + 1}
        /\ UNCHANGED <<flushing, copies, givenUp, faults>> /\ Alive /\ Alive'
    BY <1>3 DEF MainLogs, SignalLogs, LogLine, At, Alive
  <2>2. InHand' = Held' /\ InHand = Held
    BY <2>1, AliveInHand DEF Alive, InHand, Held
  <2>3. Held' = Held \cup {logged + 1}
    BY <2>1 DEF Held
  <2> QED
    BY <1>1, <2>1, <2>2, <2>3 DEF OnlyInHandLost
<1>4. ASSUME NEW th \in Thread, Flush(th) PROVE OnlyInHandLost'
  <2>1. /\ Send(th, pending, 1) /\ flushing[th] = NotFlushing /\ Alive /\ Alive'
        /\ UNCHANGED <<logged, copies, givenUp, faults>>
    BY <1>4 DEF Flush, TakeBatch, At, Alive
  <2>2. InHand' = Held' /\ InHand = Held
    BY <2>1, AliveInHand DEF Alive, InHand, Held
  <2>3. \A t \in Thread : flushing'[t].lines = IF t = th THEN pending ELSE flushing[t].lines
    BY <1>0, <2>1 DEF Send, ReporterTypeOK
  <2>4. Held \subseteq Held'
    BY <2>1, <2>3 DEF Held, NotFlushing
  <2> QED
    BY <1>1, <2>1, <2>2, <2>4 DEF OnlyInHandLost
<1>5. ASSUME NEW th \in Thread, RetryPost(th) PROVE OnlyInHandLost'
  <2>1. /\ Alive /\ Alive' /\ UNCHANGED <<logged, pending, copies, faults>>
    BY <1>5 DEF RetryPost, Alive
  <2>2. InHand' = Held' /\ InHand = Held
    BY <2>1, AliveInHand DEF Alive, InHand, Held
  <2>3. CASE flushing[th].try < LogAttempts
    <3>1. Send(th, flushing[th].lines, flushing[th].try + 1) /\ givenUp' = givenUp
      BY <1>5, <2>3 DEF RetryPost
    <3>2. \A t \in Thread : flushing'[t].lines = flushing[t].lines
      BY <1>0, <3>1 DEF Send, ReporterTypeOK
    <3>3. Held' = Held
      BY <2>1, <3>2 DEF Held
    <3> QED
      BY <1>1, <2>1, <2>2, <3>1, <3>3 DEF OnlyInHandLost
  <2>4. CASE ~(flushing[th].try < LogAttempts)
    <3>1. /\ flushing' = [flushing EXCEPT ![th] = NotFlushing]
          /\ givenUp' = givenUp \cup flushing[th].lines
      BY <1>5, <2>4 DEF RetryPost
    <3>2. \A t \in Thread : t # th => flushing'[t] = flushing[t]
      BY <1>0, <3>1 DEF ReporterTypeOK
    <3>3. Held \subseteq Held' \cup flushing[th].lines
      BY <2>1, <3>2 DEF Held
    <3>4. faults >= flushing[th].try /\ flushing[th].try \in Nat
      BY <1>0, <1>5, ReporterAssumption DEF RetryPost, AttemptsFault, ReporterTypeOK
    <3>5. faults' >= LogAttempts
      BY <1>1, <2>1, <2>4, <3>4, ReporterAssumption
    <3> QED
      BY <1>1, <2>1, <2>2, <3>1, <3>3, <3>5 DEF OnlyInHandLost
  <2> QED
    BY <2>3, <2>4
<1>6. ASSUME NEW p \in posts, HandlePost(p) PROVE OnlyInHandLost'
  <2>0. /\ UNCHANGED <<logged, pending, givenUp, pc, outcome>> /\ p.by \in Thread
        /\ faults' >= faults
    BY <1>0, <1>1, <1>6 DEF HandlePost, StoreLogs, PostFails, PostTimesOut, PostDropped,
                      Fault, ReporterTypeOK, Post
  <2>1. CASE StoreLogs(p)
    <3>1. \A l \in Line : copies'[l] = copies[l] + IF l \in p.lines THEN 1 ELSE 0
      BY <2>1 DEF StoreLogs
    <3>2. InHand \subseteq InHand' \cup p.lines
      <4>1. CASE p.waiting /\ Alive
        <5>1. InHand = Held /\ InHand' = Held'
          BY <2>0, <4>1, AliveInHand DEF Alive, InHand, Held
        <5>2. flushing[p.by].lines = p.lines
          BY <4>1 DEF OnePlace, Owned
        <5>3. \A t \in Thread : t # p.by => flushing'[t] = flushing[t]
          BY <1>0, <2>0, <2>1 DEF StoreLogs, ReporterTypeOK
        <5> QED
          BY <2>0, <5>1, <5>2, <5>3 DEF Held
      <4>2. CASE ~(p.waiting /\ Alive)
        BY <2>0, <2>1, <4>2 DEF StoreLogs, InHand
      <4> QED
        BY <4>1, <4>2
    <3>3. ASSUME NEW l \in 1..logged PROVE Known(l)'
      <4>1. CASE l \in p.lines
        BY <1>1, <3>1, <4>1
      <4>2. CASE l \notin p.lines
        BY <1>1, <2>0, <3>1, <3>2, <4>2
      <4> QED
        BY <4>1, <4>2
    <3> QED
      BY <1>0, <1>1, <2>0, <3>3, ReporterAssumption DEF OnlyInHandLost, ReporterTypeOK
  <2>2. CASE PostFails(p) \/ PostTimesOut(p) \/ PostDropped(p)
    <3>1. UNCHANGED <<flushing, copies>>
      BY <2>2 DEF PostFails, PostTimesOut, PostDropped
    <3>2. InHand' = InHand
      BY <2>0, <3>1 DEF InHand
    <3> QED
      BY <1>0, <1>1, <2>0, <3>1, <3>2, ReporterAssumption DEF OnlyInHandLost, ReporterTypeOK
  <2> QED
    BY <1>6, <2>1, <2>2 DEF HandlePost
<1> QED
  BY <1>2, <1>3, <1>4, <1>5, <1>6 DEF Step

\* However the worker ends, a line is in the table, in the hands of a thread that
\* did not finish, or in a batch whose every attempt met a fault.
THEOREM OnlyInHandLostCorrect == Spec => []OnlyInHandLost
<1> DEFINE IInv == OnePlace /\ Places /\ AttemptsFault /\ OnlyInHandLost
<1>1. WorkerInit => IInv
  <2>1. Init => OnlyInHandLost
    BY DEF Init, OnlyInHandLost
  <2> QED
    BY <2>1, InitOnePlace, InitPlaces DEF WorkerInit
<1>2. IInv /\ [WorkerNext]_allVars => IInv'
  BY StepCases, StepOnePlace, StepPlaces, StepAttempts, StepAccounts DEF OnePlace
<1>3. IInv => OnlyInHandLost
  OBVIOUS
<1> QED
  BY <1>1, <1>2, <1>3, PTL DEF Spec

(***************************************************************************)
(* The progress goes from call to call, and ends at 100.                   *)
(***************************************************************************)
Closers == {"close", "closing", "last", "leaving"}

\* Main closes the reporter when the last call is made.
AllSaid == pc["main"] \in Closers \/ outcome = "returned" => finished

\* The post on its way, if there is one, is that of the last call, and main waits
\* for it; the row does not come from a later one; and when main goes on behind
\* the engine's last call, the row says what that call said.
PostedInOrder ==
  ~unsaid =>
    /\ stored <= reported
    /\ \A u \in updates :
         updates = {u} /\ u.waiting /\ u.n = reported /\ (finished => u.progress = Full)
    /\ Alive /\ pc["main"] # "progress" =>
         updates = {} /\ (finished => stored = reported /\ progress = Full)
    /\ outcome = "returned" => stored = reported /\ progress = Full

\* Steps that say nothing and post nothing.
QuietStep ==
  \/ UNCHANGED vars \/ MainLogs \/ MainReturns
  \/ SignalLogs \/ SignalStatus \/ Sigterm \/ TickerStops \/ Exit
  \/ \E th \in Callers : FlushReturns(th) \/ Closing(th)
  \/ \E th \in Thread : Flush(th) \/ RetryPost(th)
  \/ \E p \in posts : HandlePost(p)

Quiet ==
  /\ UNCHANGED progressVars /\ (Alive' => Alive)
  /\ (pc'["main"] = "progress") <=> (pc["main"] = "progress")
  /\ pc'["main"] \in Closers => pc["main"] \in Closers \/ finished
  /\ outcome' = "returned" =>
       outcome = "returned" \/ (Alive /\ pc["main"] \in Closers)

LEMMA QuietSteps ==
  ASSUME ReporterTypeOK, QuietStep
  PROVE  Quiet
<1> USE DEF ReporterTypeOK, Quiet, Closers, Alive, At, GoTo, Thread, Callers
<1>1. CASE UNCHANGED vars
  <2>1. UNCHANGED <<progressVars, pc, outcome>>
    BY <1>1 DEF vars
  <2> QED
    BY <2>1
<1>2. CASE MainLogs \/ SignalLogs
  BY <1>2 DEF MainLogs, SignalLogs, LogLine
<1>3. CASE MainReturns
  BY <1>3 DEF MainReturns
<1>4. CASE SignalStatus \/ Sigterm \/ TickerStops \/ Exit
  BY <1>4 DEF SignalStatus, Sigterm, TickerStops, Exit, End
<1>5. ASSUME NEW th \in Callers, FlushReturns(th) PROVE Quiet
  BY <1>5 DEF FlushReturns, FlushOver
<1>6. ASSUME NEW th \in Callers, Closing(th) PROVE Quiet
  BY <1>6 DEF Closing, Close, CloseFlush, CloseReturns, FlushOver, End
<1>7. ASSUME NEW th \in Thread, Flush(th) PROVE Quiet
  BY <1>7 DEF Flush
<1>8. ASSUME NEW th \in Thread, RetryPost(th) PROVE Quiet
  BY <1>8 DEF RetryPost
<1>9. ASSUME NEW p \in posts, HandlePost(p) PROVE Quiet
  <2>1. UNCHANGED <<progressVars, pc, outcome>>
    BY <1>9 DEF HandlePost, StoreLogs, PostFails, PostTimesOut, PostDropped
  <2> QED
    BY <2>1
<1> QED
  BY <1>1, <1>2, <1>3, <1>4, <1>5, <1>6, <1>7, <1>8, <1>9 DEF QuietStep

LEMMA SayingCases ==
  ASSUME Step
  PROVE  QuietStep \/ MainSays \/ \E u \in updates : HandleUpdate(u)
BY DEF Step, Moves, QuietStep

LEMMA StepAllSaid ==
  ASSUME ReporterTypeOK, AllSaid, Step
  PROVE  AllSaid'
<1>1. CASE QuietStep
  <2>1. Quiet
    BY <1>1, QuietSteps
  <2> QED
    BY <2>1 DEF Quiet, AllSaid, progressVars
<1>2. CASE MainSays
  <2>1. pc'["main"] \in {"run", "progress"} /\ outcome' = "none"
    BY <1>2 DEF MainSays, Progress, At, Alive, GoTo, ReporterTypeOK, Thread
  <2> QED
    BY <2>1 DEF AllSaid, Closers
<1>3. ASSUME NEW u \in updates, HandleUpdate(u) PROVE AllSaid'
  <2>1. /\ UNCHANGED <<finished, outcome>>
        /\ pc'["main"] \in {pc["main"], "run"}
    BY <1>3 DEF HandleUpdate, StoreProgress, UpdateFails, UpdateTimesOut, UpdateDropped,
                ProgressReturns, GoTo, ReporterTypeOK, Thread
  <2> QED
    BY <2>1 DEF AllSaid, Closers
<1> QED
  BY <1>1, <1>2, <1>3, SayingCases

\* One step: the order is kept, and the row does not go back to an earlier call.
LEMMA StepPostedInOrder ==
  ASSUME ReporterTypeOK, AllSaid, PostedInOrder, Step
  PROVE  PostedInOrder' /\ (~unsaid' => stored' >= stored)
<1>0. /\ reported \in Nat /\ stored \in Nat
      /\ pc \in [Thread -> {"run", "progress", "wait", "done", "log", "status", "flush",
                     "posting", "close", "closing", "last", "leaving"}]
  BY DEF ReporterTypeOK
<1>1. CASE QuietStep
  <2>1. Quiet
    BY <1>1, QuietSteps
  <2>2. UNCHANGED <<reported, finished, updates, progress, stored, unsaid>>
    BY <2>1 DEF Quiet, progressVars
  <2>3. Alive /\ pc["main"] \in Closers => pc["main"] # "progress" /\ finished
    BY DEF AllSaid, Closers
  <2> QED
    BY <1>0, <2>1, <2>2, <2>3 DEF Quiet, PostedInOrder
<1>2. CASE MainSays
  <2>1. PICK p \in 0..Full, last \in BOOLEAN :
          Progress("main", p, last) /\ (last => p = Full)
    BY <1>2 DEF MainSays
  <2>2. /\ reported' = reported + 1 /\ finished' = last
        /\ UNCHANGED <<progress, stored, unsaid>>
        /\ Alive /\ pc["main"] = "run" /\ outcome' = "none"
    BY <1>2, <2>1 DEF MainSays, Progress, At, Alive
  <2>3. ~unsaid => updates = {}
    BY <2>2 DEF PostedInOrder
  <2>4. CASE /\ updates' = updates \cup
                  {[n |-> reported + 1, progress |-> p, waiting |-> TRUE]}
             /\ GoTo("main", "progress")
    <3>1. pc'["main"] = "progress"
      BY <1>0, <2>4 DEF GoTo, Thread
    <3>2. ASSUME ~unsaid, NEW u \in updates'
          PROVE  /\ updates' = {u} /\ u.waiting /\ u.n = reported'
                 /\ finished' => u.progress = Full
      <4>1. updates' = {[n |-> reported + 1, progress |-> p, waiting |-> TRUE]}
        BY <2>3, <2>4, <3>2
      <4>2. u = [n |-> reported + 1, progress |-> p, waiting |-> TRUE]
        BY <4>1
      <4> QED
        BY <2>1, <2>2, <4>1, <4>2
    <3> QED
      BY <1>0, <2>2, <3>1, <3>2 DEF PostedInOrder, Alive
  <2>5. CASE p < Full /\ UNCHANGED <<updates, pc>>
    <3>1. ~finished'
      BY <2>1, <2>2, <2>5, ReporterAssumption
    <3> QED
      BY <1>0, <2>2, <2>3, <2>5, <3>1 DEF PostedInOrder, Alive
  <2> QED
    BY <2>1, <2>4, <2>5 DEF Progress
<1>3. ASSUME NEW u \in updates, HandleUpdate(u)
      PROVE  PostedInOrder' /\ (~unsaid' => stored' >= stored)
  <2> SUFFICES ASSUME ~unsaid'
               PROVE  PostedInOrder' /\ stored' >= stored
    BY <1>0, <1>3 DEF PostedInOrder
  <2>1. /\ ~unsaid /\ UNCHANGED <<reported, finished, outcome>> /\ updates' = updates \ {u}
        /\ StoreProgress(u) \/ UpdateDropped(u)
    BY <1>3 DEF HandleUpdate, StoreProgress, UpdateFails, UpdateTimesOut, UpdateDropped
  <2>2. /\ u.waiting /\ u.n = reported /\ (finished => u.progress = Full)
        /\ stored <= reported
    BY <2>1 DEF PostedInOrder
  <2>3. Alive => pc["main"] = "progress"
    BY <2>1 DEF PostedInOrder
  <2>4. outcome = "returned" => finished
    BY DEF AllSaid
  <2>5. CASE StoreProgress(u)
    <3>1. stored' = reported /\ (finished => progress' = Full)
      BY <2>2, <2>5 DEF StoreProgress
    <3>2. Alive => pc'["main"] = "run"
      BY <1>0, <2>2, <2>3, <2>5 DEF StoreProgress, ProgressReturns, At, GoTo, Thread
    <3>3. updates' = {}
      BY <2>1 DEF PostedInOrder
    <3> QED
      BY <1>0, <2>1, <2>2, <2>4, <3>1, <3>2, <3>3 DEF PostedInOrder, Alive
  <2>6. CASE UpdateDropped(u)
    <3>1. stored' = stored /\ progress' = progress /\ ~Alive
      BY <2>2, <2>6 DEF UpdateDropped
    <3>2. updates' = {}
      BY <2>1 DEF PostedInOrder
    <3> QED
      BY <1>0, <2>1, <2>2, <3>1, <3>2 DEF PostedInOrder, Alive
  <2> QED
    BY <2>1, <2>5, <2>6
<1> QED
  BY <1>1, <1>2, <1>3, SayingCases

\* While every post of progress was answered, the row never goes back to an
\* earlier call of Progress, and the worker that returns has left it at the last
\* one, at 100: main waits for each post, and the throttle never drops the last.
THEOREM ProgressInOrderCorrect == Spec => ProgressInOrder
<1> DEFINE IInv == ReporterTypeOK /\ AllSaid /\ PostedInOrder
           Onward == ~unsaid' =>
                     /\ stored' >= stored
                     /\ outcome' = "returned" => stored' = reported' /\ progress' = Full
<1>1. WorkerInit => IInv
  <2>1. Init => AllSaid /\ PostedInOrder
    BY DEF Init, AllSaid, PostedInOrder, Closers, Thread
  <2> QED
    BY <2>1, InitTypes DEF WorkerInit
<1>2. IInv /\ [WorkerNext]_allVars => IInv' /\ Onward
  <2> SUFFICES ASSUME IInv, [WorkerNext]_allVars
               PROVE  IInv' /\ Onward
    OBVIOUS
  <2>1. IInv'
    BY StepCases, StepTypes, StepAllSaid, StepPostedInOrder
  <2>2. ~unsaid' => stored' >= stored
    BY StepCases, StepPostedInOrder
  <2> QED
    BY <2>1, <2>2 DEF PostedInOrder
<1> QED
  BY <1>1, <1>2, PTL DEF Spec, ProgressInOrder

(***************************************************************************)
(* The tool's output.  Sets of numbers have least and greatest elements.   *)
(***************************************************************************)
LEMMA Least ==
  ASSUME NEW T, T \subseteq Nat, T # {}
  PROVE  Min(T) \in T /\ \A y \in T : Min(T) <= y
<1>1. \E x \in T : \A y \in T : <<y, x>> \notin OpToRel(<, Nat)
  BY NatLessThanWellFounded, WFMin
<1>2. \E x \in T : \A y \in T : ~ (y < x)
  BY <1>1 DEF OpToRel
<1>3. \E x \in T : \A y \in T : x =< y
  BY <1>2
<1> QED
  BY <1>3 DEF Min

LEMMA Greatest ==
  ASSUME NEW n \in Nat, NEW T, T \subseteq 0..n, T # {}
  PROVE  Max(T) \in T /\ \A y \in T : Max(T) >= y
<1>1. PICK D : D = {n - x : x \in T}
  OBVIOUS
<1>2. D \subseteq Nat /\ D # {}
  <2>1. \A x \in 0..n : n - x \in Nat
    OBVIOUS
  <2> QED
    BY <1>1, <2>1
<1>3. PICK d \in D : \A y \in D : d <= y
  BY <1>2, Least
<1>4. PICK x \in T : d = n - x
  BY <1>1, <1>3
<1>5. ASSUME NEW y \in T PROVE x >= y
  <2>1. d <= n - y
    BY <1>1, <1>3
  <2> QED
    BY <1>4, <2>1
<1> QED
  BY <1>5 DEF Max

(***************************************************************************)
(* Sequences.                                                              *)
(***************************************************************************)
LEMMA PartOf ==
  ASSUME NEW S, NEW s \in Seq(S), NEW m \in Nat \ {0}, NEW n \in Nat, n <= Len(s)
  PROVE  /\ SubSeq(s, m, n) \in Seq(S)
         /\ Len(SubSeq(s, m, n)) = IF m <= n THEN n - m + 1 ELSE 0
         /\ DOMAIN SubSeq(s, m, n) = 1..(n - m + 1)
         /\ \A i \in 1..(n - m + 1) : SubSeq(s, m, n)[i] = s[m + i - 1]
<1>1. Len(s) \in Nat /\ \A i \in m..n : s[i] \in S
  BY LenProperties
<1>2. m \in Int /\ n \in Int
  OBVIOUS
<1>3. /\ SubSeq(s, m, n) \in Seq(S)
      /\ Len(SubSeq(s, m, n)) = IF m <= n THEN n - m + 1 ELSE 0
      /\ \A i \in 1..(n - m + 1) : SubSeq(s, m, n)[i] = s[m + i - 1]
  BY <1>1, <1>2, SubSeqProperties
<1>4. DOMAIN SubSeq(s, m, n) = 1..Len(SubSeq(s, m, n))
  BY <1>3, LenProperties
<1> QED
  BY <1>3, <1>4

\* The elements behind the l-th one.
LEMMA PartBehind ==
  ASSUME NEW S, NEW s \in Seq(S), NEW l \in Nat, NEW n \in Nat, l <= n, n <= Len(s),
         NEW a, a = SubSeq(s, l + 1, n)
  PROVE  /\ a \in Seq(S) /\ Len(a) = n - l /\ DOMAIN a = 1..(n - l)
         /\ \A i \in 1..(n - l) : a[i] = s[l + i]
<1>1. PICK d \in Nat : d = n - l
  OBVIOUS
<1>2. PICK m \in Nat \ {0} : m = l + 1
  OBVIOUS
<1>3. /\ a \in Seq(S) /\ Len(a) = IF m <= n THEN n - m + 1 ELSE 0
      /\ DOMAIN a = 1..(n - m + 1) /\ \A i \in 1..(n - m + 1) : a[i] = s[m + i - 1]
  BY <1>2, PartOf
<1>4. n - m + 1 = d /\ (IF m <= n THEN d ELSE 0) = d
  BY <1>1, <1>2
<1>5. a \in Seq(S) /\ Len(a) = d /\ DOMAIN a = 1..d /\ \A i \in 1..d : a[i] = s[m + i - 1]
  BY <1>3, <1>4
<1>6. \A i \in 1..d : m + i - 1 = l + i
  BY <1>1, <1>2
<1>7. \A i \in 1..d : a[i] = s[l + i]
  BY <1>5, <1>6
<1> QED
  BY <1>1, <1>5, <1>7

LEMMA SameSeq ==
  ASSUME NEW S, NEW s \in Seq(S), NEW t \in Seq(S), Len(s) = Len(t),
         \A i \in 1..Len(s) : s[i] = t[i]
  PROVE  s = t
BY SeqEqual

\* The parts of a sequence before and after its m-th element.
LEMMA PartsJoin ==
  ASSUME NEW S, NEW s \in Seq(S), NEW l \in Nat, NEW m \in Nat, NEW n \in Nat,
         l <= m, m <= n, n <= Len(s)
  PROVE  SubSeq(s, l + 1, m) \o SubSeq(s, m + 1, n) = SubSeq(s, l + 1, n)
<1>1. PICK a : a = SubSeq(s, l + 1, m)
  OBVIOUS
<1>2. PICK b : b = SubSeq(s, m + 1, n)
  OBVIOUS
<1>3. PICK c : c = SubSeq(s, l + 1, n)
  OBVIOUS
<1>4. /\ a \in Seq(S) /\ Len(a) = m - l /\ \A i \in 1..(m - l) : a[i] = s[l + i]
      /\ b \in Seq(S) /\ Len(b) = n - m /\ \A i \in 1..(n - m) : b[i] = s[m + i]
      /\ c \in Seq(S) /\ Len(c) = n - l /\ \A i \in 1..(n - l) : c[i] = s[l + i]
  <2>0. Len(s) \in Nat /\ m <= Len(s)
    BY LenProperties
  <2>1. a \in Seq(S) /\ Len(a) = m - l /\ \A i \in 1..(m - l) : a[i] = s[l + i]
    BY <1>1, <2>0, PartBehind
  <2>2. b \in Seq(S) /\ Len(b) = n - m /\ \A i \in 1..(n - m) : b[i] = s[m + i]
    BY <1>2, <2>0, PartBehind
  <2>3. c \in Seq(S) /\ Len(c) = n - l /\ \A i \in 1..(n - l) : c[i] = s[l + i]
    BY <1>3, <2>0, PartBehind
  <2> QED
    BY <2>1, <2>2, <2>3
<1>5. PICK d : d = a \o b
  OBVIOUS
<1>6. /\ d \in Seq(S) /\ Len(d) = n - l
      /\ \A i \in 1..(n - l) : d[i] = IF i <= m - l THEN a[i] ELSE b[i - (m - l)]
  <2>1. /\ d \in Seq(S) /\ Len(d) = Len(a) + Len(b)
        /\ \A i \in 1..(Len(a) + Len(b)) : d[i] = IF i <= Len(a) THEN a[i] ELSE b[i - Len(a)]
    <3>1. /\ a \o b \in Seq(S) /\ Len(a \o b) = Len(a) + Len(b)
          /\ \A i \in 1..(Len(a) + Len(b)) :
               (a \o b)[i] = IF i <= Len(a) THEN a[i] ELSE b[i - Len(a)]
      BY <1>4, ConcatProperties
    <3> QED
      BY <1>5, <3>1
  <2>2. Len(a) + Len(b) = n - l
    BY <1>4
  <2> QED
    BY <1>4, <2>1, <2>2
<1>7. ASSUME NEW i \in 1..(n - l)
      PROVE  d[i] = c[i]
  <2>1. CASE i <= m - l
    BY <1>4, <1>6, <1>7, <2>1
  <2>2. CASE i > m - l
    <3>1. i - (m - l) \in 1..(n - m) /\ m + (i - (m - l)) = l + i
      BY <1>7, <2>2
    <3> QED
      BY <1>4, <1>6, <1>7, <2>2, <3>1
  <2> QED
    BY <2>1, <2>2
<1>8. d = c
  BY <1>4, <1>6, <1>7, SameSeq
<1> QED
  BY <1>1, <1>2, <1>3, <1>5, <1>8

\* A part of a part.
LEMMA PartOfPart ==
  ASSUME NEW S, NEW s \in Seq(S), NEW l \in Nat, NEW m \in Nat, l <= m, m <= Len(s),
         NEW i \in Nat, NEW j \in Nat, i <= j, j <= m - l
  PROVE  SubSeq(SubSeq(s, l + 1, m), i + 1, j) = SubSeq(s, l + i + 1, l + j)
<1>0. Len(s) \in Nat /\ l + j <= Len(s) /\ l + i \in Nat /\ l + j \in Nat
  BY LenProperties
<1>1. PICK a : a = SubSeq(s, l + 1, m)
  OBVIOUS
<1>2. a \in Seq(S) /\ Len(a) = m - l /\ \A k \in 1..(m - l) : a[k] = s[l + k]
  BY <1>1, PartBehind
<1>3. PICK b : b = SubSeq(a, i + 1, j)
  OBVIOUS
<1>4. b \in Seq(S) /\ Len(b) = j - i /\ \A k \in 1..(j - i) : b[k] = a[i + k]
  <2>1. j <= Len(a)
    BY <1>2
  <2> QED
    BY <1>2, <1>3, <2>1, PartBehind
<1>5. PICK c : c = SubSeq(s, l + i + 1, l + j)
  OBVIOUS
<1>6. c \in Seq(S) /\ Len(c) = j - i /\ \A k \in 1..(j - i) : c[k] = s[l + i + k]
  <2>1. l + i <= l + j /\ (l + j) - (l + i) = j - i
    OBVIOUS
  <2>2. /\ c \in Seq(S) /\ Len(c) = (l + j) - (l + i)
        /\ \A k \in 1..((l + j) - (l + i)) : c[k] = s[l + i + k]
    BY <1>0, <1>5, <2>1, PartBehind
  <2> QED
    BY <2>1, <2>2
<1>7. ASSUME NEW k \in 1..(j - i)
      PROVE  b[k] = c[k]
  <2>1. i + k \in 1..(m - l) /\ l + (i + k) = l + i + k
    BY <1>7
  <2> QED
    BY <1>2, <1>4, <1>6, <1>7, <2>1
<1>8. b = c
  BY <1>4, <1>6, <1>7, SameSeq
<1> QED
  BY <1>1, <1>3, <1>5, <1>8

\* The last lines, and one more.
Less(m, n) == IF m <= n THEN m ELSE n

LEMMA KeptLines ==
  ASSUME NEW S, NEW lines \in Seq(S)
  PROVE  /\ Kept(lines) \in Seq(S) /\ Len(Kept(lines)) = Less(Len(lines), TailLimit)
         /\ \A i \in 1..Len(Kept(lines)) :
              Kept(lines)[i] = lines[Len(lines) - Len(Kept(lines)) + i]
<1>1. PICK l \in Nat : l = Len(lines)
  BY LenProperties
<1>2. TailLimit \in Nat \ {0}
  BY ExecutorAssumption
<1>3. PICK m : m = Max({1, l - TailLimit + 1})
  OBVIOUS
<1>4. m = IF l <= TailLimit THEN 1 ELSE l - TailLimit + 1
  <2>1. CASE l <= TailLimit
    <3>1. 1 >= l - TailLimit + 1
      BY <1>2, <2>1
    <3>2. \A x \in {1, l - TailLimit + 1} : (\A y \in {1, l - TailLimit + 1} : x >= y) => x = 1
      BY <1>2, <3>1
    <3>3. \A y \in {1, l - TailLimit + 1} : 1 >= y
      BY <3>1
    <3>4. m \in {1, l - TailLimit + 1} /\ \A y \in {1, l - TailLimit + 1} : m >= y
      BY <1>3, <3>3 DEF Max
    <3> QED
      BY <2>1, <3>2, <3>4
  <2>2. CASE l > TailLimit
    <3>1. l - TailLimit + 1 >= 1
      BY <1>2, <2>2
    <3>2. \A y \in {1, l - TailLimit + 1} : l - TailLimit + 1 >= y
      BY <1>2, <3>1
    <3>3. m \in {1, l - TailLimit + 1} /\ \A y \in {1, l - TailLimit + 1} : m >= y
      BY <1>3, <3>2 DEF Max
    <3> QED
      BY <1>2, <2>2, <3>1, <3>3
  <2> QED
    BY <1>2, <2>1, <2>2
<1>5. m \in Nat \ {0} /\ (m <= l => l - m + 1 = Less(l, TailLimit)) /\ (m > l => Less(l, TailLimit) = 0)
  BY <1>2, <1>4 DEF Less
<1>6. PICK k : k = Kept(lines)
  OBVIOUS
<1>7. /\ k \in Seq(S) /\ Len(k) = (IF m <= l THEN l - m + 1 ELSE 0)
      /\ \A i \in 1..(l - m + 1) : k[i] = lines[m + i - 1]
  <2>1. k = SubSeq(lines, m, l)
    BY <1>1, <1>3, <1>6 DEF Kept
  <2> QED
    BY <1>1, <1>5, <2>1, PartOf
<1>8. Len(k) = Less(l, TailLimit)
  BY <1>5, <1>7
<1>9. ASSUME NEW i \in 1..Len(k)
      PROVE  k[i] = lines[l - Len(k) + i]
  <2>1. m <= l
    BY <1>1, <1>5, <1>7, <1>9
  <2>2. l - Len(k) + i = m + i - 1 /\ i \in 1..(l - m + 1)
    BY <1>1, <1>5, <1>7, <1>9, <2>1
  <2> QED
    BY <1>7, <2>2
<1> QED
  BY <1>1, <1>6, <1>7, <1>8, <1>9

LEMMA KeptAre ==
  ASSUME NEW S, NEW lines \in Seq(S), NEW n, n = Len(lines), NEW m, m = Less(n, TailLimit),
         NEW kept, kept = Kept(lines)
  PROVE  kept \in Seq(S) /\ Len(kept) = m /\ \A i \in 1..m : kept[i] = lines[n - m + i]
<1>1. /\ kept \in Seq(S) /\ Len(kept) = Less(Len(lines), TailLimit)
      /\ \A i \in 1..Len(kept) : kept[i] = lines[Len(lines) - Len(kept) + i]
  BY KeptLines
<1>2. Len(kept) = m
  BY <1>1
<1> QED
  BY <1>1, <1>2

LEMMA KeptAppend ==
  ASSUME NEW S, NEW lines \in Seq(S), NEW line \in S
  PROVE  Kept(Append(Kept(lines), line)) = Kept(Append(lines, line))
<1>1. PICK l \in Nat : l = Len(lines)
  BY LenProperties
<1>2. TailLimit \in Nat \ {0}
  BY ExecutorAssumption
<1>3. PICK a : a = Kept(lines)
  OBVIOUS
<1>4. PICK k \in Nat : k = Less(l, TailLimit)
  BY <1>2 DEF Less
<1>5. a \in Seq(S) /\ Len(a) = k /\ \A i \in 1..k : a[i] = lines[l - k + i]
  BY <1>1, <1>3, <1>4, KeptLines
<1>6. PICK b : b = Append(a, line)
  OBVIOUS
<1>7. b \in Seq(S) /\ Len(b) = k + 1 /\ b[k + 1] = line /\ \A i \in 1..k : b[i] = a[i]
  BY <1>5, <1>6, AppendProperties
<1>8. PICK c : c = Append(lines, line)
  OBVIOUS
<1>9. c \in Seq(S) /\ Len(c) = l + 1 /\ c[l + 1] = line /\ \A i \in 1..l : c[i] = lines[i]
  BY <1>1, <1>8, AppendProperties
<1>10. PICK m \in Nat : m = Less(k + 1, TailLimit)
  BY <1>2 DEF Less
<1>11. m = Less(l + 1, TailLimit) /\ k <= l /\ m <= k + 1 /\ k + 1 \in Nat
  BY <1>2, <1>4, <1>10 DEF Less
<1>12. PICK u : u = Kept(b)
  OBVIOUS
<1>13. PICK v : v = Kept(c)
  OBVIOUS
<1>14. /\ u \in Seq(S) /\ Len(u) = m /\ \A i \in 1..m : u[i] = b[k + 1 - m + i]
       /\ v \in Seq(S) /\ Len(v) = m /\ \A i \in 1..m : v[i] = c[l + 1 - m + i]
  <2>1. u \in Seq(S) /\ Len(u) = m /\ \A i \in 1..m : u[i] = b[k + 1 - m + i]
    <3>1. PICK n \in Nat : n = k + 1
      OBVIOUS
    <3>2. b \in Seq(S) /\ n = Len(b) /\ m = Less(n, TailLimit) /\ u = Kept(b)
      BY <1>7, <1>10, <1>12, <3>1
    <3>3. u \in Seq(S) /\ Len(u) = m /\ \A i \in 1..m : u[i] = b[n - m + i]
      BY <3>2, KeptAre
    <3> QED
      BY <3>1, <3>3
  <2>2. v \in Seq(S) /\ Len(v) = m /\ \A i \in 1..m : v[i] = c[l + 1 - m + i]
    <3>1. PICK n \in Nat : n = l + 1
      OBVIOUS
    <3>2. c \in Seq(S) /\ n = Len(c) /\ m = Less(n, TailLimit) /\ v = Kept(c)
      BY <1>9, <1>11, <1>13, <3>1
    <3>3. v \in Seq(S) /\ Len(v) = m /\ \A i \in 1..m : v[i] = c[n - m + i]
      BY <3>2, KeptAre
    <3> QED
      BY <3>1, <3>3
  <2> QED
    BY <2>1, <2>2
<1>15. ASSUME NEW i \in 1..m
       PROVE  u[i] = v[i]
  <2>1. CASE i = m
    <3>1. k + 1 - m + i = k + 1 /\ l + 1 - m + i = l + 1
      BY <2>1
    <3> QED
      BY <1>7, <1>9, <1>14, <1>15, <3>1
  <2>2. CASE i # m
    <3>1. /\ k + 1 - m + i \in 1..k /\ l + 1 - m + i \in 1..l
          /\ l - k + (k + 1 - m + i) = l + 1 - m + i
      BY <1>11, <1>15, <2>2
    <3>2. u[i] = lines[l - k + (k + 1 - m + i)]
      BY <1>5, <1>7, <1>14, <1>15, <3>1
    <3>3. v[i] = lines[l + 1 - m + i]
      BY <1>9, <1>14, <1>15, <3>1
    <3> QED
      BY <3>1, <3>2, <3>3
  <2> QED
    BY <2>1, <2>2
<1>16. u = v
  BY <1>14, <1>15, SameSeq
<1> QED
  BY <1>3, <1>6, <1>8, <1>12, <1>13, <1>16

(***************************************************************************)
(* The lines of the output.                                                *)
(***************************************************************************)
Char == ToSet(Output)

LEMMA OutputChars == Output \in Seq(Char) /\ Len(Output) \in Nat /\ DOMAIN Output = 1..Len(Output)
<1>1. Len(Output) \in Nat /\ DOMAIN Output = 1..Len(Output)
  BY ExecutorAssumption, LenProperties
<1>2. Output \in [1..Len(Output) -> STRING]
  BY ExecutorAssumption, LenProperties
<1>3. \A i \in 1..Len(Output) : Output[i] \in Char
  BY <1>1 DEF Char, ToSet
<1>4. Output \in [1..Len(Output) -> Char]
  BY <1>2, <1>3
<1> QED
  BY <1>1, <1>4, SeqDef

LEMMA Trimmed ==
  ASSUME NEW S, NEW line \in Seq(S)
  PROVE  TrimRight(line) \in Seq(S)
<1>1. PICK kept : kept = {i \in DOMAIN line : line[i] # CR}
  OBVIOUS
<1>2. PICK n : n = IF kept = {} THEN 0 ELSE Max(kept)
  OBVIOUS
<1>3. Len(line) \in Nat /\ kept \subseteq 0..Len(line)
  BY <1>1, LenProperties
<1>4. n \in 0..Len(line)
  <2>1. CASE kept = {}
    BY <1>2, <1>3, <2>1
  <2>2. CASE kept # {}
    <3>1. Max(kept) \in kept
      BY <1>3, <2>2, Greatest
    <3> QED
      BY <1>2, <1>3, <2>2, <3>1
  <2> QED
    BY <2>1, <2>2
<1>5. n \in Nat /\ n <= Len(line) /\ 1 \in Nat \ {0}
  BY <1>3, <1>4
<1>6. SubSeq(line, 1, n) \in Seq(S)
  BY <1>5, PartOf
<1> QED
  BY <1>1, <1>2, <1>6 DEF TrimRight

LEMMA EndsFinite ==
  ASSUME NEW n \in Nat
  PROVE  EndsTo(n) \subseteq 1..n /\ IsFiniteSet(EndsTo(n)) /\ Cardinality(EndsTo(n)) \in Nat
<1>1. EndsTo(n) \subseteq 1..n /\ IsFiniteSet(1..n)
  BY FS_Interval DEF EndsTo
<1> QED
  BY <1>1, FS_Subset, FS_CardinalityType

LEMMA LinesLen ==
  ASSUME NEW n \in Nat
  PROVE  /\ \E S : LinesTo(n) \in Seq(S)
         /\ Len(LinesTo(n)) = Cardinality(EndsTo(n))
         /\ \A k \in 1..Cardinality(EndsTo(n)) : LinesTo(n)[k] = LineAt(Nth(EndsTo(n), k))
<1>1. PICK c \in Nat : c = Cardinality(EndsTo(n))
  BY EndsFinite
<1>2. PICK S : S = {LineAt(Nth(EndsTo(n), k)) : k \in 1..c}
  OBVIOUS
<1>3. PICK l : l = LinesTo(n)
  OBVIOUS
<1>4. l = [k \in 1..c |-> LineAt(Nth(EndsTo(n), k))]
  BY <1>1, <1>3 DEF LinesTo
<1>5. l \in [1..c -> S]
  BY <1>2, <1>4
<1>6. l \in Seq(S) /\ DOMAIN l = 1..c
  BY <1>5, SeqDef
<1>7. Len(l) = c
  BY <1>6, LenProperties
<1> QED
  BY <1>1, <1>3, <1>4, <1>6, <1>7

\* Characters without a newline bring no line.
LEMMA NoLine ==
  ASSUME NEW m \in Nat, NEW n \in Nat, m <= n, \A j \in 1..n : j > m => Output[j] # Newline
  PROVE  LinesTo(n) = LinesTo(m)
<1>1. EndsTo(n) = EndsTo(m)
  BY DEF EndsTo
<1> QED
  BY <1>1 DEF LinesTo

\* The next newline brings one, unless it is blank.
LEMMA NextEnd ==
  ASSUME NEW m \in Nat, NEW n \in Nat, m < n, Output[n] = Newline,
         \A j \in 1..(n - 1) : j > m => Output[j] # Newline
  PROVE  EndsTo(n) = EndsTo(m) \cup (IF Blank(LineAt(n)) THEN {} ELSE {n})
<1>1. \A j \in 1..n : j \in 1..m \/ (j \in 1..(n - 1) /\ j > m) \/ j = n
  OBVIOUS
<1>2. 1..m \subseteq 1..n /\ n \in 1..n
  OBVIOUS
<1> QED
  BY <1>1, <1>2 DEF EndsTo

LEMMA BlankLine ==
  ASSUME NEW m \in Nat, NEW n \in Nat, m < n, Output[n] = Newline,
         \A j \in 1..(n - 1) : j > m => Output[j] # Newline,
         Blank(LineAt(n))
  PROVE  LinesTo(n) = LinesTo(m)
<1>1. EndsTo(n) = EndsTo(m)
  BY NextEnd
<1> QED
  BY <1>1 DEF LinesTo

LEMMA OneMoreLine ==
  ASSUME NEW m \in Nat, NEW n \in Nat, m < n, Output[n] = Newline,
         \A j \in 1..(n - 1) : j > m => Output[j] # Newline,
         ~Blank(LineAt(n))
  PROVE  LinesTo(n) = Append(LinesTo(m), LineAt(n))
<1>1. PICK E : E = EndsTo(m)
  OBVIOUS
<1>2. PICK F : F = E \cup {n}
  OBVIOUS
<1>3. EndsTo(n) = F
  BY <1>1, <1>2, NextEnd
<1>4. /\ E \subseteq 1..m /\ IsFiniteSet(E) /\ n \notin E
      /\ \A e \in E : e \in Nat /\ e < n /\ e <= n /\ ~ (n <= e)
      /\ IsFiniteSet(F)
  <2>1. E \subseteq 1..m /\ IsFiniteSet(E)
    BY <1>1, EndsFinite
  <2>2. \A e \in E : e \in Nat /\ e < n /\ e <= n /\ ~ (n <= e)
    BY <2>1
  <2>3. n \notin E
    BY <2>2
  <2> QED
    BY <1>2, <2>1, <2>2, <2>3, FS_AddElement
<1>5. PICK c \in Nat : c = Cardinality(E)
  BY <1>4, FS_CardinalityType
<1>6. Cardinality(F) = c + 1
  BY <1>2, <1>4, <1>5, FS_AddElement
<1>7. ASSUME NEW e \in E
      PROVE  /\ {f \in F : f <= e} = {f \in E : f <= e}
             /\ Cardinality({f \in F : f <= e}) # c + 1
  <2>1. {f \in F : f <= e} = {f \in E : f <= e}
    BY <1>2, <1>4
  <2>2. PICK G : G = {f \in E : f <= e}
    OBVIOUS
  <2>3. Cardinality(G) <= c /\ Cardinality(G) \in Nat
    BY <1>4, <1>5, <2>2, FS_Subset, FS_CardinalityType
  <2>4. Cardinality(G) # c + 1
    BY <2>3
  <2> QED
    BY <2>1, <2>2, <2>4
<1>8. {f \in F : f <= n} = F
  <2>1. n <= n
    OBVIOUS
  <2> QED
    BY <1>2, <1>4, <2>1
<1>9. ASSUME NEW k \in 1..c
      PROVE  Nth(F, k) = Nth(E, k)
  <2>1. k # c + 1
    BY <1>9
  <2>2. {e \in F : Cardinality({f \in F : f <= e}) = k} = {e \in E : Cardinality({f \in E : f <= e}) = k}
    <3>1. ASSUME NEW e \in F
          PROVE  Cardinality({f \in F : f <= e}) = k <=> e \in E /\ Cardinality({f \in E : f <= e}) = k
      <4>1. CASE e \in E
        BY <1>7, <4>1
      <4>2. CASE e = n
        <5>1. Cardinality({f \in F : f <= e}) = c + 1
          BY <1>6, <1>8, <4>2
        <5> QED
          BY <1>4, <2>1, <4>2, <5>1
      <4> QED
        BY <1>2, <4>1, <4>2
    <3>2. E \subseteq F
      BY <1>2
    <3> QED
      BY <3>1, <3>2
  <2> QED
    BY <2>2 DEF Nth
<1>10. Nth(F, c + 1) = n
  <2>1. {e \in F : Cardinality({f \in F : f <= e}) = c + 1} = {n}
    BY <1>2, <1>6, <1>7, <1>8
  <2>2. Min({n}) = n
    BY Least
  <2> QED
    BY <2>1, <2>2 DEF Nth
<1>11. PICK l : l = LinesTo(m)
  OBVIOUS
<1>12. PICK S : l \in Seq(S)
  BY <1>11, LinesLen
<1>13. Len(l) = c /\ \A k \in 1..c : l[k] = LineAt(Nth(E, k))
  BY <1>1, <1>5, <1>11, LinesLen
<1>14. PICK g : g = LinesTo(n)
  OBVIOUS
<1>15. PICK T : g \in Seq(T)
  BY <1>14, LinesLen
<1>16. Len(g) = c + 1 /\ \A k \in 1..(c + 1) : g[k] = LineAt(Nth(F, k))
  BY <1>3, <1>6, <1>14, LinesLen
<1>17. PICK R : R = S \cup T \cup {LineAt(n)}
  OBVIOUS
<1>18. l \in Seq(R) /\ g \in Seq(R) /\ LineAt(n) \in R
  BY <1>12, <1>15, <1>17, SeqMonotonic
<1>19. PICK h : h = Append(l, LineAt(n))
  OBVIOUS
<1>20. h \in Seq(R) /\ Len(h) = c + 1 /\ h[c + 1] = LineAt(n) /\ \A k \in 1..c : h[k] = l[k]
  BY <1>13, <1>18, <1>19, AppendProperties
<1>21. ASSUME NEW k \in 1..(c + 1)
       PROVE  g[k] = h[k]
  <2>1. CASE k = c + 1
    BY <1>10, <1>16, <1>20, <2>1
  <2>2. CASE k # c + 1
    <3>1. k \in 1..c
      BY <2>2
    <3> QED
      BY <1>9, <1>13, <1>16, <1>20, <3>1
  <2> QED
    BY <2>1, <2>2
<1>22. g = h
  BY <1>16, <1>18, <1>20, <1>21, SameSeq
<1> QED
  BY <1>11, <1>14, <1>19, <1>22

(***************************************************************************)
(* The LineWriter: its buffer is what was written behind some newline, and *)
(* the lines that are kept are the last ones before it.                    *)
(***************************************************************************)
ReadTo(s) ==
  /\ s \in 0..written /\ (s = 0 \/ Output[s] = Newline)
  /\ buf = SubSeq(Output, s + 1, written)
  /\ tail = Kept(LinesTo(s))

ToolInv ==
  /\ written \in 0..Len(Output)
  /\ tail \in Seq(Seq(Char)) /\ Len(tail) <= TailLimit
  /\ \E s : ReadTo(s)

LEMMA BufferIs ==
  ASSUME ToolInv, NEW s, ReadTo(s)
  PROVE  /\ s \in Nat /\ written \in Nat /\ s <= written /\ written <= Len(Output)
         /\ buf \in Seq(Char) /\ Len(buf) = written - s /\ DOMAIN buf = 1..(written - s)
         /\ \A i \in 1..(written - s) : buf[i] = Output[s + i]
<1>1. s \in Nat /\ written \in Nat /\ s <= written /\ written <= Len(Output)
  BY OutputChars DEF ToolInv, ReadTo
<1>2. buf = SubSeq(Output, s + 1, written)
  BY DEF ReadTo
<1> QED
  BY <1>1, <1>2, OutputChars, PartBehind

LEMMA ToolStarts == ExecutorInit => ToolInv
<1> SUFFICES ASSUME ExecutorInit PROVE ToolInv
  OBVIOUS
<1>1. written = 0 /\ buf = <<>> /\ tail = <<>>
  BY DEF ExecutorInit
<1>2. EndsTo(0) = {}
  BY DEF EndsTo
<1>3. PICK l : l = LinesTo(0)
  OBVIOUS
<1>4. PICK S : l \in Seq(S)
  BY <1>3, LinesLen
<1>5. Len(l) = 0
  <2>1. Cardinality(EndsTo(0)) = 0
    BY <1>2, FS_EmptySet
  <2>2. 0 \in Nat
    OBVIOUS
  <2> QED
    BY <1>3, <2>1, <2>2, LinesLen
<1>6. TailLimit \in Nat \ {0}
  BY ExecutorAssumption
<1>7. Kept(l) \in Seq(S) /\ Len(Kept(l)) = 0
  <2>1. Less(0, TailLimit) = 0
    BY <1>6 DEF Less
  <2> QED
    BY <1>4, <1>5, <2>1, KeptLines
<1>8. Kept(l) = <<>>
  BY <1>7, EmptySeq
<1>9. SubSeq(Output, 0 + 1, 0) = <<>>
  BY SubSeqEmpty
<1>10. ReadTo(0)
  BY <1>1, <1>3, <1>8, <1>9 DEF ReadTo
<1> QED
  BY <1>1, <1>6, <1>10, OutputChars DEF ToolInv

LEMMA WriteKeepsTail ==
  ASSUME ToolInv, NEW n \in 1..Len(Output), Write(n)
  PROVE  ToolInv'
<1>1. PICK s : ReadTo(s)
  BY DEF ToolInv
<1>2. PICK w \in Nat : w = written /\ s \in Nat /\ s <= w /\ w <= Len(Output)
  BY <1>1, BufferIs
<1>3. PICK v \in Nat : v = w + n /\ v <= Len(Output) /\ v = written' /\ w <= v
  BY <1>2, OutputChars DEF Write
<1>4. buf' = SubSeq(Output, s + 1, w) \o SubSeq(Output, w + 1, v)
  BY <1>1, <1>2, <1>3 DEF Write, ReadTo
<1>5. buf' = SubSeq(Output, s + 1, v)
  <2>1. Output \in Seq(Char) /\ s <= w /\ w <= v /\ v <= Len(Output)
    BY <1>2, <1>3, OutputChars
  <2>2. SubSeq(Output, s + 1, w) \o SubSeq(Output, w + 1, v) = SubSeq(Output, s + 1, v)
    BY <1>2, <2>1, PartsJoin
  <2> QED
    BY <1>4, <2>2
<1>6. s \in 0..v /\ v \in 0..Len(Output) /\ tail' = tail
  BY <1>2, <1>3, OutputChars DEF Write
<1>7. ReadTo(s)'
  BY <1>1, <1>3, <1>5, <1>6 DEF ReadTo
<1> QED
  BY <1>3, <1>6, <1>7 DEF ToolInv

\* The next line of the buffer is that of the next newline of the output.
LEMMA NextLineIs ==
  ASSUME ToolInv, HasLine, NEW s, ReadTo(s)
  PROVE  \E p \in Nat :
           /\ LineEnd \in Nat /\ p = s + LineEnd /\ s < p /\ p <= written
           /\ Output[p] = Newline /\ \A j \in 1..(p - 1) : j > s => Output[j] # Newline
           /\ NextLine = LineAt(p) /\ NextLine \in Seq(Char)
           /\ SubSeq(buf, LineEnd + 1, Len(buf)) = SubSeq(Output, p + 1, written)
<1>1. /\ s \in Nat /\ written \in Nat /\ s <= written /\ written <= Len(Output)
      /\ buf \in Seq(Char) /\ Len(buf) = written - s /\ DOMAIN buf = 1..(written - s)
      /\ \A i \in 1..(written - s) : buf[i] = Output[s + i]
  BY BufferIs
<1>2. PICK T : T = {i \in DOMAIN buf : buf[i] = Newline}
  OBVIOUS
<1>3. T \subseteq Nat /\ T # {}
  BY <1>1, <1>2 DEF HasLine, ToSet
<1>4. PICK l : l = LineEnd
  OBVIOUS
<1>5. l \in T /\ \A i \in T : l <= i
  BY <1>2, <1>3, <1>4, Least DEF LineEnd
<1>6. l \in 1..(written - s) /\ buf[l] = Newline
  BY <1>1, <1>2, <1>5
<1>7. PICK p \in Nat : p = s + l /\ s < p /\ p <= written
  BY <1>1, <1>6
<1>8. Output[p] = Newline
  BY <1>1, <1>6, <1>7
<1>9. ASSUME NEW j \in 1..(p - 1), j > s
      PROVE  Output[j] # Newline
  <2>1. j - s \in 1..(written - s) /\ s + (j - s) = j /\ ~ (l <= j - s)
    BY <1>1, <1>6, <1>7, <1>9
  <2>2. j - s \notin T
    BY <1>5, <2>1
  <2> QED
    BY <1>1, <1>2, <2>1, <2>2
<1>10. Max({0} \cup {j \in 1..(p - 1) : Output[j] = Newline}) = s
  <2>1. PICK D : D = {0} \cup {j \in 1..(p - 1) : Output[j] = Newline}
    OBVIOUS
  <2>2. D \subseteq 0..p /\ D # {}
    BY <2>1
  <2>3. Max(D) \in D /\ \A y \in D : Max(D) >= y
    BY <2>2, Greatest
  <2>4. s \in D
    BY <1>1, <1>7, <2>1 DEF ReadTo
  <2>5. \A y \in D : y <= s
    BY <1>1, <1>9, <2>1
  <2>6. PICK m : m = Max(D)
    OBVIOUS
  <2>7. m \in Nat /\ m >= s /\ m <= s
    <3>1. m \in D /\ \A y \in D : m >= y
      BY <2>3, <2>6
    <3>2. m \in Nat
      BY <1>7, <2>2, <3>1
    <3> QED
      BY <2>4, <2>5, <3>1, <3>2
  <2>8. Max(D) = s
    BY <1>1, <2>6, <2>7
  <2> QED
    BY <2>1, <2>8
<1>11. SubSeq(buf, 0 + 1, l - 1) = SubSeq(Output, s + 0 + 1, s + (l - 1))
  <2>1. l - 1 \in Nat /\ 0 <= l - 1 /\ l - 1 <= written - s /\ 0 \in Nat
    BY <1>1, <1>6
  <2>2. buf = SubSeq(Output, s + 1, written)
    BY DEF ReadTo
  <2> QED
    BY <1>1, <2>1, <2>2, OutputChars, PartOfPart
<1>12. 0 + 1 = 1 /\ s + 0 + 1 = s + 1 /\ s + (l - 1) = p - 1
  BY <1>1, <1>6, <1>7
<1>13. SubSeq(buf, 1, l - 1) = SubSeq(Output, s + 1, p - 1)
  BY <1>11, <1>12
<1>14. NextLine = LineAt(p)
  BY <1>4, <1>10, <1>13 DEF NextLine, LineAt
<1>15. NextLine \in Seq(Char)
  <2>1. l - 1 \in Nat /\ l - 1 <= Len(buf) /\ 1 \in Nat \ {0}
    BY <1>1, <1>6
  <2>2. SubSeq(buf, 1, l - 1) \in Seq(Char)
    BY <1>1, <2>1, PartOf
  <2> QED
    BY <1>4, <2>2, Trimmed DEF NextLine
<1>16. SubSeq(buf, l + 1, Len(buf)) = SubSeq(Output, p + 1, written)
  <2>1. l \in Nat /\ Len(buf) \in Nat /\ l <= Len(buf) /\ Len(buf) <= written - s
    BY <1>1, <1>6
  <2>2. buf = SubSeq(Output, s + 1, written)
    BY DEF ReadTo
  <2>3. SubSeq(buf, l + 1, Len(buf)) = SubSeq(Output, s + l + 1, s + Len(buf))
    BY <1>1, <2>1, <2>2, OutputChars, PartOfPart
  <2>4. s + l + 1 = p + 1 /\ s + Len(buf) = written
    BY <1>1, <1>7, <2>1
  <2> QED
    BY <2>3, <2>4
<1>17. LineEnd \in Nat /\ p = s + LineEnd
  BY <1>1, <1>4, <1>6, <1>7
<1>18. SubSeq(buf, LineEnd + 1, Len(buf)) = SubSeq(Output, p + 1, written)
  BY <1>4, <1>16
<1> QED
  BY <1>7, <1>8, <1>9, <1>14, <1>15, <1>17, <1>18

LEMMA ReadLineKeepsTail ==
  ASSUME ToolInv, HasLine, ReadLine
  PROVE  ToolInv'
<1>1. PICK s : ReadTo(s)
  BY DEF ToolInv
<1>2. PICK p \in Nat :
           /\ LineEnd \in Nat /\ p = s + LineEnd /\ s < p /\ p <= written
           /\ Output[p] = Newline /\ \A j \in 1..(p - 1) : j > s => Output[j] # Newline
           /\ NextLine = LineAt(p) /\ NextLine \in Seq(Char)
           /\ SubSeq(buf, LineEnd + 1, Len(buf)) = SubSeq(Output, p + 1, written)
  BY <1>1, NextLineIs
<1>3. s \in Nat /\ written \in Nat /\ written' = written
      /\ buf' = SubSeq(Output, p + 1, written)
  BY <1>1, <1>2, BufferIs DEF ReadLine
<1>4. tail \in Seq(Seq(Char)) /\ tail = Kept(LinesTo(s)) /\ TailLimit \in Nat \ {0}
  BY <1>1, ExecutorAssumption DEF ToolInv, ReadTo
<1>5. /\ tail' = Kept(LinesTo(p)) /\ tail' \in Seq(Seq(Char)) /\ Len(tail') <= TailLimit
  <2>1. CASE Blank(NextLine)
    <3>1. LinesTo(p) = LinesTo(s)
      BY <1>2, <1>3, <2>1, BlankLine
    <3>2. tail' = tail
      BY <2>1 DEF ReadLine
    <3> QED
      BY <1>4, <3>1, <3>2 DEF ToolInv
  <2>2. CASE ~Blank(NextLine)
    <3>1. LinesTo(p) = Append(LinesTo(s), LineAt(p))
      BY <1>2, <1>3, <2>2, OneMoreLine
    <3>2. tail' = Kept(Append(tail, LineAt(p)))
      BY <1>2, <2>2 DEF ReadLine
    <3>3. PICK S : LinesTo(s) \in Seq(S)
      BY <1>3, LinesLen
    <3>4. PICK T : T = S \cup {LineAt(p)}
      OBVIOUS
    <3>5. LinesTo(s) \in Seq(T) /\ LineAt(p) \in T
      BY <3>3, <3>4, SeqMonotonic
    <3>6. Kept(Append(tail, LineAt(p))) = Kept(Append(LinesTo(s), LineAt(p)))
      BY <1>4, <3>5, KeptAppend
    <3>7. PICK a : a = Append(tail, LineAt(p))
      OBVIOUS
    <3>8. a \in Seq(Seq(Char)) /\ Len(a) \in Nat
      BY <1>2, <1>4, <3>7, AppendProperties, LenProperties
    <3>9. Kept(a) \in Seq(Seq(Char)) /\ Len(Kept(a)) = Less(Len(a), TailLimit)
      BY <3>8, KeptLines
    <3>10. Less(Len(a), TailLimit) <= TailLimit
      BY <1>4, <3>8 DEF Less
    <3> QED
      BY <3>1, <3>2, <3>6, <3>7, <3>9, <3>10
  <2> QED
    BY <2>1, <2>2
<1>6. p \in 0..written
  BY <1>2, <1>3
<1>7. ReadTo(p)'
  BY <1>2, <1>3, <1>5, <1>6 DEF ReadTo
<1>8. written' \in 0..Len(Output)
  BY <1>3 DEF ToolInv
<1> QED
  BY <1>5, <1>7, <1>8 DEF ToolInv

LEMMA ToolKept == ToolInv /\ [WorkerNext]_allVars => ToolInv'
<1> SUFFICES ASSUME ToolInv, [WorkerNext]_allVars PROVE ToolInv'
  OBVIOUS
<1>1. CASE ToolWrites
  BY <1>1, WriteKeepsTail DEF ToolWrites
<1>2. CASE ToolLine
  BY <1>2, ReadLineKeepsTail DEF ToolLine
<1>3. CASE UNCHANGED toolVars
  BY <1>3 DEF toolVars, ToolInv, ReadTo
<1> QED
  BY <1>1, <1>2, <1>3 DEF WorkerNext, MainStep, ReportBefore, ReportBehind, Finish,
                            WorkerLogs, Return, allVars

\* Whatever the chunks of the output are, the lines kept for the error message
\* are its last complete lines that are not blank.
THEOREM TailCorrect == Spec => []TailIsLastLines
<1>1. ToolInv => TailIsLastLines
  <2> SUFFICES ASSUME ToolInv, ~HasLine PROVE tail = Kept(LinesTo(written))
    BY DEF TailIsLastLines
  <2>1. PICK s : ReadTo(s)
    BY DEF ToolInv
  <2>2. /\ s \in Nat /\ written \in Nat /\ s <= written
        /\ DOMAIN buf = 1..(written - s) /\ \A i \in 1..(written - s) : buf[i] = Output[s + i]
    BY <2>1, BufferIs
  <2>3. ASSUME NEW j \in 1..written, j > s PROVE Output[j] # Newline
    <3>1. j - s \in 1..(written - s) /\ s + (j - s) = j
      BY <2>2, <2>3
    <3>2. buf[j - s] # Newline
      BY <2>2, <3>1 DEF HasLine, ToSet
    <3> QED
      BY <2>2, <3>1, <3>2
  <2>4. LinesTo(written) = LinesTo(s)
    BY <2>2, <2>3, NoLine
  <2> QED
    BY <2>1, <2>4 DEF ReadTo
<1>2. WorkerInit => ToolInv
  BY ToolStarts DEF WorkerInit
<1> QED
  BY <1>1, <1>2, ToolKept, PTL DEF Spec

\* Types: threads, flushes, posts and counters keep theirs, the buffer holds
\* output, and no more lines are kept than the limit.
THEOREM WorkerTypes == Spec => []TypeOK
<1>1. ToolInv /\ ReporterTypeOK => TypeOK
  <2> SUFFICES ASSUME ToolInv, ReporterTypeOK PROVE TypeOK
    OBVIOUS
  <2>1. PICK s : ReadTo(s)
    BY DEF ToolInv
  <2>2. buf \in Seq(Char)
    BY <2>1, BufferIs
  <2> QED
    BY <2>2 DEF TypeOK, ToolInv, Char
<1>2. WorkerInit => ToolInv /\ ReporterTypeOK
  BY ToolStarts, InitTypes DEF WorkerInit
<1>3. ReporterTypeOK /\ [WorkerNext]_allVars => ReporterTypeOK'
  BY StepCases, StepTypes
<1> QED
  BY <1>1, <1>2, <1>3, ToolKept, PTL DEF Spec
=============================================================================
