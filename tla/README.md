# DBMove: a verification project

DBMove is a small web platform that migrates MySQL and PostgreSQL databases. A Go
backend keeps connections and migration tasks in PostgreSQL, queues the tasks the
user starts, starts one worker container for each, and streams its log to the
browser. The worker (`src/worker`) runs the dump and restore tools and reports
over HTTP. This directory holds TLA+ models of that system, their TLC
configurations, and proofs checked by TLAPS.

tlc -config MCTasks.cfg MCDBMove.tla # one run tlapm DBMoveProofs.tla # the proofs of
one module; # likewise Calm-, Reporter-, Connections-, # Runners-, Engine-, LogStream-
and FrontendProofs

## 1. The system

| part | source | state it keeps | operations | talks to |
|---|---|---|---|---|
| migration task rows | `backend/internal/model`, `repository` | `migration_tasks`: status, queued_at, finished_at, error_message, progress | single-row UPDATEs by id, none of them conditional | everybody |
| migration service | `service/migration_service.go` | none | Create, Start, Cancel, Retry, List, Get, Logs, Stats | rows, runner |
| dispatcher | `backend/internal/dispatcher` | none between rounds | a round every second: count, claim, write env file, docker run | rows, runner |
| docker runner, watcher | `backend/internal/runner` | one goroutine per started container | Start, Cancel, Cleanup, watch | Docker daemon, rows |
| worker process | `worker/cmd/worker` | program counter, lock file of the engine | fetch, preflight, migrate, report; SIGTERM | internal API, databases |
| reporter | `worker/internal/reporter` | log buffer, flush goroutine, progress throttle | Log, Status, Progress, Close | internal API |
| internal API | `backend/internal/api/internal.go` | none | task, status, progress, logs | rows, hub |
| SSE hub and stream | `backend/internal/sse`, `api/sse.go` | set of channels per task | Subscribe, Publish, unsubscribe, replay | browsers |
| engines, executor | `worker/internal/engine`, `executor` | databases at the target, counters | Preflight, Migrate | target databases |
| connection service | `service/connection_service.go` | `connections` | Create, Update, Delete, Test | rows |
| Kubernetes and local runner | `backend/internal/runner` | Jobs, child processes | as the docker runner | cluster |
| new migration form | `frontend/src/pages/NewMigration.tsx`, `utils/mapping.ts` | source, its databases, mapping | choose, select, rename, create and start | API |
| detail page | `frontend/src/pages/MigrationDetail.tsx` | task, logs, polling timer | poll, SSE events, buttons | API |
| the rest | router, config, crypto, versions, deploy, other pages | none that outlives a request | | |

What is hard here:

* **No transactions, no conditions.** Every change of a task is "read the row,
  decide, UPDATE by id". The API handlers, the dispatcher, one watcher per
  container and the workers' status reports are all such readers and writers, so
  any of them can overwrite what another has just decided.
* **Names, not identities.** A container, an env file and a report are known by the
  task's id only. A retry reuses the name, so a watcher, a report or a worker of an
  earlier run acts on the new one.
* **A backend that forgets.** A restart drops handlers, the dispatcher's round and
  all watchers; table, containers and files stay.
* **Reports that are retried** with a timeout: a late handler may run after the
  worker has gone on; log batches may be stored twice.
* **A log stream that subscribes, then replays, then forwards**, while publishers
  send outside the hub's lock.
* **A page that listens to two voices**: polls and events tell it the status, in any
  order, and one of them stops for good at the first terminal status.
* **Checks made long before use**: Preflight looks at the target, Migrate acts on it
  minutes later and other tasks may share it.

What makes each part correct: the queue starts a worker at most once per user
request and never more than the limit; a status only moves forward and SUCCESS
means a worker finished; a dead worker's row is settled; log lines are neither lost
nor doubled; a browser misses no row and learns of the last status; a worker migrates
the pairs its user has asked for; a task writes only what its policy allows,
and a success is complete. `PROJECT.json` lists every hazard with its line and the
properties that watch it.

## 2. The modules

    MigrationTask          the row and its UPDATEs
      Platform             table, containers, env files, faults
        TaskApi            Start, Cancel, Retry
        DockerRunner       docker run and the watcher
          Dispatcher       the rounds
        Worker             the process and the status handler
          DBMove           all of them together, with restarts
            MCDBMove       instances for TLC
            DBMoveProofs   theorems
              CalmProofs   theorems about tasks started once
    LaunchLedger           what the queue promises; DBMove and Runners implement it
    Executor               a tool's output, cut into lines
    Reporter               log lines and progress, to the table
      WorkerLog            the worker's main thread over both
        MCWorkerLog
        ReporterProofs     theorems
    LogStream              rows and status events, to the browser
      MCLogStream
      LogStreamProofs      theorems
    Engine                 Preflight and Migrate over shared targets
      MCEngine
      EngineProofs         theorems
    MigrationTask
      RunnerBase           rows, users and starter around a runner
        KubernetesRunner   Jobs, Secrets, pods
        LocalRunner        child processes
          Runners          the runner that main picks
            MCRunners
            RunnersProofs  theorems
    Connections            connections beside the creation of tasks
      MCConnections
      ConnectionsProofs    theorems
    MigrationForm          the form, the service's checks, the worker's pairs
    TaskPage               the detail page
      Frontend             the two pages
        MCFrontend
        FrontendProofs     theorems

### The core: DBMove

The state is `tasks` (the table), `containers` (what the Docker daemon has under
each task's name, with the worker process inside: its program counter `pc`, the
attempt `try` of its current report and `stop`, the attempt of its CANCELLED
report after SIGTERM), `envFiles`, the handlers in progress `requests`, the
dispatcher's round `disp`, the goroutines `watchers`, and the status handlers
`reports`. Each call to the database or to the Docker CLI is one step, so a
handler with three calls is three steps and everything else may happen between
them. The columns kept of a row are those that some decision reads or a property
is about. `clock` stands for the time: Start and Retry take a new value when they
are admitted, in front of their UPDATE, so queue order and write order may differ.

`queueings`, `migrated` and `unread` only observe: how often a task was queued,
whether one of its workers has finished `Migrate`, and whether one of its watchers
did not get the exit code it asked for, because the container had left the name or the
second inspect failed (`ObserveReads`). No guard reads them.

Faults come from a budget `MaxFaults`, restricted to the kinds of the instance: a
database call fails (`db`), the browser disconnects and its request's context ends
(`disconnect`), docker run fails (`docker`), docker inspect fails although the container
is there (`inspect`), the watcher's 24 hours pass (`expiry`), the credentials cannot be
decrypted or written (`secrets`), the worker cannot fetch its task (`fetch`), it gets
SIGTERM (`sigterm`), is killed at any point (`crash`), also while a handler of its
report is at work, or stops waiting for an answer (`timeout`). Restarts have a budget of
their own.

One replica of the backend is assumed, which is what the compose file and the chart
deploy. A container is removed some time after its exit (`Reap`), as `--rm` asks.

### Executor, Reporter, WorkerLog

`Executor` is the `LineWriter` between a tool and the engine: `Output` is what the
tool prints, `written` how much of it has been written in chunks of any length,
`buf` the buffer and `tail` the lines kept for the error message. Its reference is
`LinesTo`, the lines of the whole output up to a place, which knows no chunks.

In `Reporter`, `Log` appends to `pending`; three threads flush: the ticker, the main
thread and the goroutine of SIGTERM, in `Log` when the buffer is large and in
`Close`. Each takes the whole buffer at once and posts it outside the lock with at
most `LogAttempts` attempts. `Progress` posts once and waits; a call may be dropped
by the throttle unless it is the last one or the first. A post may fail, or its
answer may be lost while the handler runs on. `copies` is the table of log lines,
`progress` the column. A worker that succeeds or is interrupted closes the
reporter, a failing one calls `os.Exit`; if both main and the signal's goroutine
close it, the second panics. From the moment main returns, SIGTERM kills the process.

`WorkerLog` puts main on top: it reports, the tool writes, `onLine` logs or reports
progress (and holds up the tool while it posts), main reports again, and then says 100
percent, its last words and `Close`. While a tool runs the engines hold the percentage
at 99; behind a dump they report 100 when it was the first, and less again at the next
pair or restored line. So the model takes any percentages, and `reported` numbers the
calls of `Progress`, and `stored` is the call whose percentage the row has.

### LogStream

Writers insert rows and publish them one after the other, then their status event,
if they have one; a publish copies the set of channels, then sends to each without
blocking. A connection subscribes, replays the first `ReplayLimit` rows of the table
(or none, when the query fails: the handler ignores the error), forwards its channel,
and at any time may unsubscribe, which closes its channel. Writers that insert and do not
publish are the `Silent` ones. A writer is a request (`Handler`), whose panic gin's
Recovery catches, or a goroutine of a watcher, whose panic ends the backend.

### Engine

Tasks with a list of pairs (a target, a number of source tables) and a policy run over
shared target databases; `table` says which task's data a table holds, and `creator` who
created a database. Each query and each table of a dump or restore is a step; any step
may fail, after which the user may run the task again. `PostgreSQL` is the set of tasks
over that engine: pg_restore keeps an existing table and ends with an error, a MySQL
dump drops it first; only the PostgreSQL engine reports restored tables.

Tasks of both engines run side by side. `WritesOnlyOwn` is about the policy
`create`: such a task writes into no database that was there before, and, where the
target is no other task's, into none but its own. `SuccessIsComplete` is about the pairs
whose target is no other task's, `DoneWithinTotal` about the MySQL engine, and
`RetrySucceeds` about the tasks that may repeat (`MayRepeat`): those with the policy
`overwrite`, and MySQL's over existing targets, because its dumps drop what they
restore. The code keeps them for no others (section 5). A source is taken not to change
between the count of its tables and its dump.

### RunnerBase, KubernetesRunner, LocalRunner, Runners

`RunnerBase` has what both runners meet: the rows, the users' requests, the dispatcher
around the runner's `Start` (`starter`), the workers and the handlers of their status
reports. Each handler, the claim and its reload are steps of their own, and each
handler's read and UPDATE are two: a second Start may overlap the claim of the first,
and a report may be handled when its worker is gone. Three things that DBMove has in
full are shortened here: the dispatcher deals with one task (no count, no order), a
worker counts no attempts (it sends a report again or gives up, when no attempt is
waited for), and it does not say PREPARING, which the claim has written. `Runners` picks
one runner for the life of an installation.

In `KubernetesRunner`, `jobs` and `secrets` are what the cluster has under the names
made of a task's id; a Job's `uid` is the queueing whose Start made it, and tells its
pod from that of a Job before it. `watchers` are the goroutines that `Start` leaves
behind, `cancels` the Cleanup calls of cancel requests. Every call to the API server or
the database is a step, and either Delete may be refused, which the code ignores. A pod
waits for its Secret, gets SIGTERM when its Job is gone, and its Job stays until the TTL
or a watcher removes it. A pod may also never start (`PodStuck`).

In `LocalRunner`, a worker is a process with a goroutine that waits for it until the
backend ends (`waiters`). Processes have no name that a later run could collide with;
what they share is the row. A cancel changes the row only. A shutdown ends the context
the processes were started with, and so kills them; a crash does not.

`launched`, `queueings` and `migrated` only observe. With them both runners implement
the same `LaunchLedger` as DBMove.

Requests and faults come from one budget, `MaxEvents`: a Start or Retry (`queue`), a
`cancel`, a refused or failing call of `Start` (`api`), a failing database call of a
watcher or waiter (`db`), a killed worker (`crash`; `late` when a handler of its report
is at work), a report that is lost or fails (`report`) or whose answer comes late
(`late`), a pod that never starts (`stuck`), a refused deletion (`delete`), the Job's TTL
(`ttl`), the watcher's 48 hours (`expiry`), a crash of the backend (`restart`; under
Kubernetes any end of it) and its graceful end (`shutdown`).

### Connections

`rows` is the table, `issued` the ids its sequence has handed out, `tasks` what the
created tasks refer to. A request is a handler between two of its calls: Update
between its read and `Save` (which inserts a row that is gone), Delete between read, count
and DELETE, the creation of a task between its three reads and its INSERT. gorm's
AutoMigrate makes foreign keys of the two `belongs to` relations of a task, and
they are the only check that a concurrent handler cannot pass by. `accepted`, `overlapped`
and `retyped` only observe.

### MigrationForm, TaskPage, Frontend

`MigrationForm` follows a mapping from the editor to the worker. `form` is the chosen
source, the databases it offers and the mapping; `lists` the GETs of databases under
way; `calls` the submissions between their two requests; `rows` the tasks, with both
forms of the mapping that the table has. `ClientInputs` are what other clients of the
API submit, and `LegacyRow` what the table may hold from before the mapping column.
`BuildMapping`, `ValidMapping`, `ResolveDatabasePairs`, `TaskPairs` and `WorkerPairs`
are the pure functions on the way; blank names are the empty string, as in the code.

`TaskPage` starts with a queued task. The row is its history of status writers, so
that "newer" has a meaning; the page has the version it shows (`version`) and the
newest it was ever told (`newest`), its polls and GETs are in flight in `gets`, its
events in `stream`. A handler's check and UPDATE are one step here, and its event
another. `missed` only observes: what can no longer reach the page.

`Frontend` is the router: form, task page, or other clients.

## 3. The runs

| run | question | bounds |
|---|---|---|
| `tasks` | Over every interleaving, with any one fault and a restart: are the queue's promises kept, are terminal rows complete, do only faults strand rows, and what is behind a SUCCESS? | 1 task, each button once, 2 attempts |
| `calm` | When tasks are started only once, do limit, life cycle, SUCCESS and watching hold? | 3 tasks, limit 2, 1 fault, 1 restart |
| `live` | Does every queued task leave the queue, and is the row of a dead worker settled, unless a status handler writes behind its worker's death? | 2 tasks started once, limit 1, 2 faults: starts that fail, workers killed at any point |
| `final`, `orphan` | Does a report leave a terminal state alone, and are workers still watched after a restart? No: see section 5. | 1 task, no fault; `orphan`: 2 restarts |
| `reporter` | Do three flushing threads lose and double no more than faults explain, is progress stored in the order of its calls and to its end, is the tail right, and does Close end? | 3 lines, buffer of 2, 2 attempts, 5 reports, 2 faults, 8 characters in chunks |
| `stream` | Does a row fall between replay and live channel? | 3 writers, 4 rows and a status event, 2 browsers, channels of 1, a replay of 3 |
| `engine` | Is success complete, is nothing foreign written, do reports stay within the total, and do retries succeed in the end? | 4 tasks of both engines, 2 of them on one new target, up to 3 runs each, 1 fault |
| `runners` | Is the launch ledger kept, is SUCCESS true, do row and Secret settle? | each runner; 1 task, 3 requests and faults of any kinds |
| `connections` | Do tasks refer to connections that exist and match, and is what was accepted stored? | 2 connections, 3 requests |
| `frontend` | Does a worker get what its user asked for, once, and does the task's page come to rest with the last status? | 3 connections, 2 names, 5 edits, 1 loss; 6 writers, 1 poll in flight, 2 events, 1 failure |
| `stream_panic` | Does Publish's comment hold? It does not: see section 5. | the smallest instance that shows it |

Why the bounds are enough. The row races need a reader, a writer and one more writer
between its two calls: one task with each request once, one worker and one watcher gives
all pairs of them, and a retry gives the pairs across two runs. The limit needs
`MaxConcurrent + 1` tasks. The attempts of a report matter at 1 (no retry) and at more
than the number of faults: `calm` gives `MaxAttempts = 3` to two disturbances (one fault
and one restart), so that a report always gets through; with fewer, a worker whose
RUNNING report was given up reports SUCCESS from PREPARING and `StatusMovesForward`
fails for that reason. `reporter` says the same in `OnlyInHandLost` (a batch is given up
only at the cost of `LogAttempts` faults), and has faults enough to reach the last
attempt. Its tool prints a line that announces a table, one that ends it with a CR, a
blank one and a rest without a newline, and the tail of 1 is shorter than the lines. A percentage is 0 or 1 there, so that it can rise, fall
and be full before the end. A channel of 1 under 4 rows and an event fills up, and a replay of 3 is cut short.
The engine needs an empty source between two others and a table count of 2 to tell
"first", "last" and "done" apart; of the two tasks that share a target one may create it
and the other overwrite it, so that it appears between the check and the use of either,
and the second has runs enough to lose the creation once and fail once. Under a runner
everything is known by a task's id, so one task has all the interference there is: three
events are a second Start that overlaps the claim, and a fault; a start, a cancel and a
start beside an old watcher, Job or process; or two faults in one run. `live` has a
fault for each of its tasks. `orphan` has two attempts and two restarts, each of which
drops the handler of one; a worker that is heard settles its row itself. Two connections
are a task's source and target; three requests are two updates that overlap and a third
actor, or a delete, a creation and an update. Five edits choose a source, select two of
its databases, rename one and choose again or deselect; a second submission needs one
loss. The page meets every status, a retry, and an answer or an event that is late or
lost.

`calm` excludes Cancel and Retry on purpose: with them its properties are false
(section 5), and the run shows that they are the only reason. Its faults leave out
those that make a property false by themselves: a lost answer, an inspect that
fails, a killed worker.

`CHECK_DEADLOCK FALSE` is set everywhere because all these systems come to rest:
tasks are final, the budgets are used up, the log is complete.

Fairness. `live` and `orphan` give weak fairness to the dispatcher's
goroutine, to each task's watchers, worker, handlers and reports, and to the
daemon's removal of exited containers: they are goroutines and processes that
nothing blocks for ever (every call has a timeout). Users, faults and restarts get
none. Workers under these runs either report or die; that one hangs in a dump tool
for ever is excluded by the fairness on the worker, and the code has no timeout for
it. `reporter` gives fairness to the three threads and to the awaited handlers.
`engine` also assumes that the user keeps retrying, which is
what "a failed task can be retried" is about. `runners` gives fairness to the
dispatcher, to the watchers, pods, processes, goroutines and Cleanup calls of a task;
its two liveness properties stop (`Undisturbed`) at the second queueing, a cancel, a
restart, an expiry, a failing database call, a report that is handled late, a pod that
cannot start or a refused deletion, after which the code promises nothing. In the same
way `QueueDrains` and `DeadWorkerSettles` have `NoLateWrite` as their premise: TLC finds
both false without it, with a single worker killed while the handler of its RUNNING is
between its read and its UPDATE. `frontend` gives
fairness to the poll's timer and to the answer of a GET, not to events or
connections: `CatchesUp` rests on polling alone. `stream` and `connections` have no
liveness property.

## 4. The theorems

`DBMoveProofs` proves, for every set of tasks, every limit, every number of
attempts, and every budget and kind of fault:

* `TypeCorrect`: `Spec => []TypeOK`.
* `TerminalRowsCorrect`: whoever wins a race for a row, a terminal status comes with
  `finished_at` and FAILED with a message. Inductive with the types alone, because
  every UPDATE writes status and companions together.
* `NothingRunsUnqueuedCorrect`: a task that was never started gets no worker and no
  status but PENDING or CANCELLED. The invariant `QueuedInv` carries "this task was
  queued" along every actor that may write its row later: the dispatcher's round,
  watchers, reports, containers and requests.
* `LaunchesCorrect` and `LedgerRefined`: a worker is launched at most once per Start
  or Retry. `LaunchInv` counts: the launches of a task, plus one while a launch is
  still possible (its row is queued, or the dispatcher holds it), never exceed its
  queueings. The claim moves that one from the row to the dispatcher and docker run
  spends it.
* `RunningIsWatchedCorrect`: before any restart and while no inspect fails and no
  watcher expires, the watcher of a running container is polling.
* `StrandedCorrect`: before any restart, no more slots are lost to rows of tasks nobody
  cancelled than there were faults, of any kind. The rows alone do not carry the
  induction, because a fault may strand a row long after it happened, through a report
  that lands late or a worker that gives up. So the account is the set of tasks `Marked`:
  those with a lost row; with a handler that may make a row active although its worker
  has gone on; with a worker that has lost an attempt of its last report, or got SIGTERM.
  Every step of one backend marks no task, or is a fault and marks the one it happens to
  (`Pays`, `StepPays`), so that a worker killed at whatever point costs one. Beside the
  types it needs `SlotInv`: a worker waits for one report of a status at most, the one
  that its thread is at.
* `SuccessWitnessed`: through cancels, retries, restarts and every fault, a SUCCESS row
  has a finished `Migrate` of its task behind it, unless a watcher went by an exit code
  that it did not get. `SuccessInv` follows the outcome from place to place: the
  worker that reports it, its report, the exit code, the watcher that read it. It says
  that docker.go:125 is the only way to a false SUCCESS.

The assumptions are those named in the modules: `Task` is finite, budgets and limits
are naturals, `NoTask` is not a task, at least one attempt is made.

`ReporterProofs` proves about WorkerLog, for every output of the tool, number of
lines, buffer length, number of attempts, and number and kind of faults:

* `StoredOnceCorrect`: `Spec => []StoredOnce`. The invariant `OnePlace` says that the
  buffer and the three threads' flushes share no line and that a post that is waited
  for carries the lines of its thread's flush. On it rests `Budget`, a count per line:
  rows that hold it, plus posts that carry it, plus one if it may still be sent, are
  at most one more than the answers that were lost. A flush, a retry, an INSERT and
  a failure move the line between these terms; only a lost answer raises the bound.
* `OnlyInHandLostCorrect`: however the worker ends, a line is stored, in hand, or of a
  batch that was given up. It needs `Places`, which follows a closing thread: it has
  seen the ticker done, the ticker has then no flush, and behind the main thread's
  last flush nothing is logged unless a SIGTERM came; and `AttemptsFault`, that each
  attempt without an answer took a fault, so that no batch is given up for less than
  `LogAttempts` of them.
* `ProgressInOrderCorrect`: the action property `ProgressInOrder`. While every post of
  progress is answered, the row never goes back to an earlier call of `Progress`, and a
  worker that returns has left it at the last call, which says 100. It is about the order
  of the calls: the percentage itself may fall, as the engines' do. `PostedInOrder` says
  that at most one post of progress is under way, that of the last call, while main waits
  for it, and `AllSaid` that main leaves only when it has said 100.
* `TailCorrect`: the tail for the error message holds the last lines of the output,
  however it was cut into chunks. `ToolInv` says that there is a newline up to which
  everything is in `tail` and behind which everything is in `buf`; a line that ends
  moves that place on.
* `WorkerTypes`: `Spec => []TypeOK`.

The first three reduce a step of WorkerLog to one of the reporter's own steps
(`StepCases`, `SayingCases`): what the tool prints decides which one, not what it does.

`CalmProofs` is about DBMove under `Calm`: tasks are started at most once, nobody
cancels or retries, and the faults are failing calls of the database and of docker,
failing decryption and failing fetches; tasks, restarts and attempts are any number.
The hypotheses are what the run `calm` assumes, and they are needed: TLC shows, one
kind at a time, that cancels, retries, lost answers and SIGTERM break
`StatusMovesForward` and `ActiveWithinLimit`, killed workers `SuccessIsReal`, failing
inspects `ActiveWithinLimit`. `CalmInv` says what
order is then left: one request per task, one report per worker, and nobody but the
dispatcher touches the row that it has in hand.

* `SlotsCostFaults` and `LimitCorrect`: active tasks exceed the limit by at most one for
  every two failed calls (a start that fails, and the UPDATE that would have freed its
  row), so with one fault the limit holds. `LimitInv` relates the dispatcher's count,
  which other writers make stale, to the rows.
* `SuccessCorrect`, when fewer calls fail than a report has attempts: SUCCESS means
  that a worker has finished Migrate. A worker gives a report up only when each
  attempt has cost a fault, so a watched one never does, and its watcher finds a
  terminal row.
* `LifeCycleCorrect`, when failed calls and restarts together are fewer than the
  attempts: a status only moves forward, one state at a time. `LifeInv` has the row
  follow the worker's place, because no report is given up: each attempt so far has
  cost a fault, or the restart that dropped its handler.

`ConnectionsProofs`, for any ids, values and number of requests in flight:

* `ConnectionsTypes`, and `TasksKeepConnections`: whatever comes between count and
  DELETE, or between checks and INSERT, no task is left without a connection. A row
  of an issued id may be gone, so it is the foreign keys that carry the induction.
* `EnginesFitTypes`: unless an update changed a type, a task's engine is that of both
  its connections. What a creation has read must still be true at each of its later
  calls (`CreatesFit`).
* `UpdatesAreKept`: a connection no two writes of which overlapped holds what the
  answered requests add up to. `Fresh` says that an update without an overlap still
  holds the row it has read.

`RunnersProofs`, for both runners, any tasks and faults, and any number of queueings
and cancels:

* `RunnersTypes`, and `SuccessesAreReal`: SUCCESS is written only of a task of which a
  worker has finished Migrate. `RealInv` follows the outcome from place to place: worker,
  report and its handler, Job, watcher, goroutine.
* `RunnersKeepLedger`: `Spec => ImplementsLedger`, at most one pod or process for each
  queueing. `LaunchesCounted` counts with the launches a row that waits for one and a
  starter that is on its way to one. Between the dispatcher's read and its claim a row and
  the starter stand for the same queueing, so a Start that comes between adds none, and
  one that comes behind the claim adds one.

`EngineProofs`, for any tasks, mappings, databases and policies:

* `EngineTypes` and `ReportsAreBounded`: percentages stay within 100 and the MySQL
  engine never reports more tables than there are, because the tables of the pair
  under way are in the total before its dump (`CountsFit`).
* `SuccessesAreComplete`: a task that succeeds has restored every pair whose target is no
  other task's. `Restored` carries the pairs and tables done so far, and that a
  pg_restore that spoils them has met an error.
* `CreatesWriteOwn`: the policy `create` writes into no database that was there
  before, although another task may have made the target since the check. A target that
  has appeared since has a task as creator (`CreatorsKnown`), which no lock is needed for.

`LogStreamProofs`, for any writers, browsers, capacity and replay: `StreamTypeCorrect`,
and `NothingIsMissed`. `NothingMissed` is inductive beside the types: a connection that
is a subscriber when a row is inserted is in the set that a later Publish copies, and
one that subscribes later reads the row in its replay.

`FrontendProofs`:

* `MappingsArrive`: through the service's resolution, the two columns and the worker's
  fallbacks, a worker gets the pairs its client submitted, for any input; and a mapping
  that the form has validated is neither refused nor changed by the service.
* `OneTaskQueued`: one queued task, and one more for each loss. `CountInv` counts: as long
  as something may still be submitted, there are no more queued tasks than losses.
* `SourcesBelongCorrect`: unless a list came late, the mapping in the form, and that of
  every submission under way, names databases of the source it was made for. The form
  drops its blank rows when it submits; `FilledPairs` is that filter as a recursive
  function of the length, so that an induction over a set of lengths can say that what
  is left was there before.
* `PageSettlesCorrect`, for any writers, polls in flight and failures, under
  `OnlyOwnRetries`: a page at rest was told the last status. `PageInv` names how it
  will still hear of that status: an event to come, its own user's GET, or polling,
  which goes on while the row has left no terminal status. Without the
  hypothesis it is false, as TLC shows: a retry from another page may announce its
  end while this page is loading and drops the event, and the answer of an older GET,
  a FAILED of the run before, then stops its polling.

The assumptions of all these modules are the named ones of the modules they are
about; `Calm`, `Patient`, `Steadfast` and `OnlyOwnRetries` are hypotheses of single
theorems, and stated there.

Only model-checked: all liveness (`QueueDrains`, `DeadWorkerSettles`, `CloseEnds`,
`RetrySucceeds`, `JobSettles`, `SecretsCleaned`, `CatchesUp`), which is out of the
prover's reach. Every other property of a passing run is a theorem.

## 5. What disagrees with the documents

Three of them are runs whose counterexample shows them; `PROJECT.json` quotes the
lines.

* `final`: a cancel between the read and the write of the status handler is
  overwritten by the report: in the trace, the worker's PREPARING over CANCELLED.
  Terminal states are not final. The watcher's MarkFailedIfStillActive (`runner.go:41`)
  and the dispatcher's claim (`dispatcher.go:74`) overwrite a cancel in the same way;
  the property is about the status handler, whose comment promises it.
* `orphan`: after a restart nobody watches the running workers. The trace has no fault:
  the restarts drop the handlers of the worker's last report, it exits unheard, and its
  row stays active.
* `stream_panic`: a send may hit the channel that a leaving browser has closed. In a
  watcher's goroutine, where nothing recovers the panic, it ends the whole backend.

The models also have these behaviours; the passing runs exclude them, by their
bounds or in the property's premise:

* a worker that is killed, or stops waiting, while the handler of its RUNNING is between
  the read and the UPDATE (`internal.go:120`): the watcher marks the row FAILED, the
  UPDATE makes it RUNNING again, and it holds a slot for good, without a restart and
  under every runner. `QueueDrains` and `DeadWorkerSettles` have it as their premise
  (`NoLateWrite`), `JobSettles` in `Undisturbed`;
* an UPDATE that fails behind a start that has failed leaves the row PREPARING
  (`dispatcher.go:94`): the runs have no two such faults, and the theorems
  `SlotsCostFaults` and `StrandedCorrect` bound what it costs;
* a cancel after the dispatcher's last look starts a worker all the same
  (`dispatcher.go:92`);
* a report or watcher of the previous run activates a retried row behind the
  dispatcher's count, so that the limit is exceeded (`dispatcher.go:51`): `calm`
  has no retries;
* a container that vanishes between the two inspects, or whose second inspect fails,
  counts as exit code 0, so a crash becomes SUCCESS (`docker.go:125`): `calm` has no
  crash. It takes no fault
  either: a worker reports FAILED and exits, the first inspect sees it, `--rm` removes
  it before the second, and a retry before the watcher looks at the row puts it back
  to PENDING, so that it is marked SUCCESS without having run again (TLC finds it with
  `MaxFaults = 0`). `SuccessIsWitnessed` says that nothing else makes a false SUCCESS;
* `os.Exit` drops the last lines, among them the reason (`worker/cmd/worker/main.go:75`):
  `OnlyInHandLost` bounds the loss by what was in hand;
* SIGTERM just as the worker returns makes it close the reporter twice, and the
  second close panics (`reporter.go:97`);
* `Log` and `Progress` post in the caller's thread, and the tool that they report on
  waits for its output to be read, although `reporter.go:35` says that commands are
  never blocked by HTTP;
* a throttled call of `Progress` renews the throttle (`reporter.go:83`), so that calls
  less than 500 ms apart post nothing until 100 percent;
* what a tool prints behind its last newline is in neither log nor error message
  (`executor.go:29`);
* the reload of a claimed row that fails leaves it PREPARING for good
  (`dispatcher.go:84`), and so does a restart at that point: `StrandedWithinFaults`
  counts the former and is about one backend; it leaves out tasks with a cancel,
  which may be claimed or reported active again behind it;
* rows inserted by Cancel, Retry, the status handler and the dispatcher are not
  published (`internal.go:139`): the writers in `Silent`;
* the replay shows the oldest 500 rows, not the recent ones (`repository.go:180`), and
  none when its query fails, without a word (`sse.go:41`): `NothingMissed` is about the
  rows that a replay reads;
* the default policy `error` refuses when the target is missing and goes on when it
  exists (`mysql.go:115`), the opposite of what README.md:24 and model.go:35 say:
  `WritesOnlyOwn` is about `create`;
* under Kubernetes, the cleanup of an earlier run's watcher or of a cancel may delete
  the Secret of the new run, whose pod then never starts while its Job stays active
  (`kubernetes.go:182`): `JobSettles` is about a task that was
  queued once and never cancelled;
* a pod that cannot be scheduled, or whose image cannot be pulled, keeps its Job and its
  row active until a cancel; the watcher gives up after 48 hours and the Job has no
  deadline (`kubernetes.go:119`): `Undisturbed` leaves it out;
* the Secret stays when Start fails behind it (`kubernetes.go:172`), when the backend
  restarts, and for good when its Delete is refused, whose error is dropped
  (`kubernetes.go:182`): `SecretsCleaned` is about tasks whose Job was created, and
  `Undisturbed` leaves the last two out;
* a second Start that has read PENDING before the claim, and writes behind it, queues the
  task a second time while its first worker works (`migration_service.go:187`): under the
  local runner both work, without a cancel. The ledger counts two queueings, two workers;
* under the local runner, Cancel does nothing: when the task is started again, two
  workers migrate it, and the first one's report or exit settles the second's row
  (`local.go:54`). Even without a cancel, a process frees its row by its report before
  its goroutine looks at it, so that a goroutine that is late fails the row of the run
  after (`local.go:36`). So no property bounds how many work at a time. The comment
  there says the process is killed when its parent exits, which is true of a graceful
  shutdown (its context ends), after which the row stays active, and not of a crash;
* updates of a connection that overlap lose what the first one has written, and one
  that overlaps a delete inserts the row again (`connection_service.go:154`):
  `AcceptedIsStored` leaves those connections out;
* an update may change the type of a connection that tasks use, or to a type that is
  not supported (`connection_service.go:126`): `EngineFitsConnections` leaves it out;
* two create tasks with one target both pass Preflight (`mysql.go:255`), and a
  create task that failed after CREATE DATABASE can never succeed (`mysql.go:111`);
* the PostgreSQL engine's done exceeds its total during a restore
  (`postgres.go:211`), and MySQL's does when tables are added to a source between the
  count and the dump (`mysql.go:177`): the model's sources do not change;
* both engines report 100 percent behind the first of several dumps, and less afterwards
  (`mysql.go:194`, `postgres.go:184`), so the progress that a user sees goes back with
  every post answered: `ProgressInOrder` is about the order of the calls;
* a poll's answer that was read before a status event and arrives after it puts the
  older status back on the page, and if the event was terminal no poll will correct
  it (`MigrationDetail.tsx:42`): `PageSettles` is about what the page was told. It
  also means that progress freezes where the last poll has read it, below 100
  percent if the SUCCESS event came first, and that after a retry only events and
  requests move the page;
* PREPARING, PENDING and CANCELLED are announced by none but the worker's own report
  (`migration_service.go:220`), so a page that has stopped to poll hears of another
  user's retry when the worker reports;
* the list of a source chosen before that arrives late replaces that of the one
  chosen now (`NewMigration.tsx:58`), so that the form offers databases the source
  does not have: `SourcesBelong` excludes that crossing;
* a page that is still loading drops the events it receives, and an older GET may then
  end its polling with a status that another page's retry has left
  (`MigrationDetail.tsx:75`): `PageSettles` is proved for a page that alone retries, and
  the run has no other;
* the form drops pairs whose target is blank without a word (`NewMigration.tsx:85`),
  and leaves it to the service to refuse one connection as source and target;
* when the answer to "create" or "start" is lost the form stays, and the next click
  creates a second task (`NewMigration.tsx:103`): `OneQueuedTask` allows one for each
  loss.

## 6. Not modelled, and the plan

Left out for good: cryptography and redaction, configuration, routing and response
formats, version strings, the tables and the connection form of the frontend,
deployment files. They keep no state that outlives a request, or are functions on
text that their unit tests reach. Of the modelled parts, these are left out: the
order in which a shutdown ends the backend's goroutines, several replicas of the
backend (a second watcher or dispatcher on one table; nothing deploys it), the
pictures of log lines and numbers on the detail page, `MarkCancelledIfStillActive`,
which has no caller, and the files of the engines under the data directory.

Next, in this order:

1. `SuccessIsReal` under weaker hypotheses than `Calm`: TLC finds no counterexample
   under failing inspects, expiries and disconnects, and by `SuccessWitnessed` it is
   enough to show that `unread` stays empty or is harmless.
2. An abstract task life cycle that Runners and DBMove under `Calm` both refine, on top
   of `LifeCycleCorrect` and `SuccessesAreReal`.
