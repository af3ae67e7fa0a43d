# A TLA+ verification of TraceRuntime

TraceRuntime takes tasks over HTTP, stores them in PostgreSQL, hands them to
workers over SQS, runs an inference for each and shows every step on a
dashboard. A watchdog looks for what went wrong; a chaos runner makes things go
wrong. This directory models the parts that decide whether a task is run once,
finished, reported or lost, checks them with TLC on small instances, and proves
the main results with TLAPS for every instance.

## 1. Inventory

| Component | State | Operations | Hard behaviour | What makes it correct |
|---|---|---|---|---|
| tasks table (`services/*/internal/db`) | `status`, `processing_started_at`, `artifact_key` per row | conditional UPDATEs of the API and the worker | many writers, each relying on its WHERE clause | the status is a lease: only its owner moves a processing row |
| SQS main queue and DLQ (`infra/terraform/sqs.tf`) | messages, receive counts | send, receive, delete, visibility timeout, redrive, purge | at-least-once delivery, any order, ambiguous answers | every message leaves the main queue |
| worker (`services/worker`) | one message in hand | poll, claim, infer, put, delete, complete, announce | redelivery during a long inference, crashes between any two calls, errors that are only logged | one run at a time per task; a completed task has its artifact; an announcement is final |
| task and replay handlers (`services/api/internal/http/task.go`, `handlers/replay.go`) | one request | insert, depth check, publish, set failed | insert and publish are not atomic; a failed publish may have succeeded | a rejected task is not run; a lost one is noticed |
| DLQ explorer (`handlers/dlq.go`) | the page an operator looks at | list, retry, delete, purge | stale pages, two operators, send before revert | a retry never disturbs a task that runs or is done |
| watchdog (`services/watchdog`) | map of open events, health-failure counter | reconcile, six detectors, emit, resolve, reconstruct | restart inside emit and resolve, rows changed from outside | one active event per condition, nothing silenced, nothing left open |
| alerts (`handlers/alerts.go`) | - | acknowledge | behind the watchdog's back | see watchdog |
| SSE broker (`event/broker.go`, `http/sse.go`, `http/events.go`) | a channel of 16 per client | subscribe, unsubscribe, publish, filter during chaos runs | a slow client loses messages; publishers overtake each other; a channel is closed | a publisher neither blocks nor panics; a page is told what happened |
| dashboard (`frontend/components/providers`, `frontend/app/chaos`) | active events, connection, trigger state | bootstrap, reconnect, trigger, poll, cancel | snapshot against live messages, answers out of order | the page agrees with the tables and files |
| in-memory backend (`queue/queue.go`, `worker/worker.go`) | bounded channel | enqueue, dequeue, announce | full queue, SIGTERM, tasks table not updated | nothing accepted is lost, nothing refused runs |
| rate limiter (`http/ratelimit.go`) | a token bucket per address | allow, cleanup | refill late, eviction | never more than the burst and the rate |
| heartbeats (`worker/main.go`, `watchdog/.../heartbeats.go`) | `worker_heartbeats` | upsert, list, delete orphans | time, a poll that is slow itself | a dead worker is reported, a punctual one is not |
| chaos runner (`cmd/chaos`) | `chaos_runs`, containers | stages, cleanup, direct UPDATEs | timeouts, abort, interrupts | cleanup mends; a run ends |
| chaos requests (`handlers/chaos.go`) | request files, report files | trigger, cancel, status, delete | files half written or half deleted, ids that do not match | the result shown is the result of the run |
| load test, AI runtime, read-only API, infrastructure | - | - | - | - |

How they interact: the API inserts a row and sends a message; a worker receives
the message and claims the row; the table is the only thing that keeps two
workers apart. Messages that are not deleted come back, and after three
receives move to the DLQ, from where an operator may send them again. The
watchdog reads the table, the queue depths and the workers' heartbeats and
writes `healing_events`, which operators and the chaos runner change as well.
It POSTs every change to the API, whose broker fans it out to the pages unless
a chaos run is active. A chaos run is asked for on a page, started by hand, and
recognised by the run id in the report file it leaves. With
`QUEUE_BACKEND=inmemory` a channel and a goroutine inside the API take the
place of SQS and the worker.
`PROJECT.json` lists every component with its status, and under `hazards` the
places where the code is hard to test.

## 2. Modules

| Module | Models |
|---|---|
| `TaskTable` | the rows of `tasks`, one operator per SQL statement |
| `SqsQueue` | the two queues (external), one operator per call or queue event |
| `Faults` | the bounded counters of failures and crashes |
| `Processor` | `pollMessages` and `Processor.Process`, one action per call it makes |
| `TaskHandlers` | `TaskHandler.ServeHTTP` and `ReplayHandler.Replay` |
| `DlqHandler` | `ListMessages`, `Retry`, `Delete`, `Purge` |
| `Pipeline` | the composition of all of these, the properties, the fairness |
| `TaskLease` | the abstract protocol the pipeline implements |
| `PipelineProofs`, `LeaseProofs` | the theorems about `Pipeline` |
| `Watchdog` | the detector's poll loop and `healing_events` |
| `WatchdogProofs` | theorems about `Watchdog` |
| `Containers` | the containers that scenarios break (Docker is external) |
| `ChaosScenarios` | the six scenarios, a sequence of calls per stage |
| `ChaosRunner` | `Runner.Run`, `runScenario` and the rows of `chaos_runs` |
| `ChaosProofs` | theorems about `ChaosRunner` |
| `SseBroker` | `Broker.Subscribe`, `Unsubscribe`, `Publish` and the loop of the SSE handler |
| `Feed` | a healing event's way from the watchdog to a page: `Watchdog` and `SseBroker` composed with the POST, `EventsHandler`, and the SSE provider of the dashboard |
| `FeedProofs` | theorems about `Feed` |
| `ChaosRequests` | `Trigger`, `Cancel`, `Status`, `DeleteReport`, the pages that call them, the runner's reports |
| `ChaosRequestsProofs` | theorems about `ChaosRequests` |
| `TokenBucket` | what a rate limiter promises |
| `RateLimiter` | `rateLimiter.allow` and `cleanup`; implements `TokenBucket` |
| `LocalWorker` | the bounded channel and the goroutine of the in-memory backend |
| `LocalApi` | `POST /tasks` through limiter, `TaskHandler`, channel and goroutine, in one process |
| `LocalProofs` | theorems about `RateLimiter` and `LocalApi` |
| `Heartbeats` | `sendHeartbeat` and `detectStaleWorkers`, over discrete time |
| `HeartbeatsProofs` | theorems about `Heartbeats` |
| `MC...` | what TLC needs besides |

The component modules share variables: `Processor`, `TaskHandlers` and
`DlqHandler` extend `SqsQueue`, which extends `TaskTable`. Each keeps its own
variables unchanged by name in `Pipeline`. In the same way `Feed` extends
`Watchdog` and `SseBroker`, and `LocalApi` extends `RateLimiter` and
`LocalWorker`.

**Correspondence.** A program counter stands between every two calls to another
system. `pc[w]` is the next call of `Process`: `claim` (SetProcessing), `infer`,
then either `revert` or `fail`, or `put`, `delete`, `complete`, `announce`. `Owns(w, t)`
says that `w` is between its SetProcessing on `t` and the end of its claim.
`hpc[t]` is the next call of the handler that creates `t`: a handler makes a
fresh uuid, so it is named by the task. `opc[o]` is the next call of an
operator's Retry. An error that the code answers with another path is an action
that may happen any number of times (`InferError`, `PutObjectError`,
`PublishError`); an error that it only logs, or an error reported although the
call took effect, counts as a fault. Acting on a stale receipt handle is a
choice: it may or may not delete the message. `WorkerCrash`, `HandlerCrash` and
`RetryCrash` end a run between any two calls; they also stand for SIGTERM, after
which `main` does not wait for `Process`, and for a client that goes away, which
cancels the context of all further calls of a handler.

In `Watchdog` the six detectors are one set of actions over dedup keys: `holds`
is the set of keys whose condition holds (a worker stale, a task stuck, a queue
long), changed from outside at any time; `worker.down` alone has the failure
counter. `emit` and `resolve` are two steps each, so that a restart or a change
from outside falls between the row and the map entry.

In `ChaosRunner` a scenario is a program: for each stage the calls that break or
mend a container or decide where to go next, each with what its error does
(`abort` ends the stage, `warn` is logged). `CallSucceeds` and `CallFails` run
it; a deadline passes during a call that waits (`Waits`), the health checks of
`ensure` and `reboot` included, and a call fails when its context is over, when
Docker refuses it, when it finds what it should not, or, as a counted fault, for
no reason of its own and perhaps after it took effect. `ended` is the set of
contexts that are over. `spoilt` is a history variable: some Cleanup was cut
short, left out or met an error. The rows and messages that `stabilizeSystem`
fails or purges are not part of the model, nor are two runners at once.

In `Feed` the watchdog's `emit` and `resolve` wait for their POST. `handling`
holds the calls of `EventsHandler` and `Acknowledge`, `publishing` those of
`Publish`, each with the subscribers it has still to serve; both are sets, since
nothing orders them. A buffer stands for a channel together with the connection
behind it. `EventsHandler` asks whether a chaos run is active, under the context
of the POST, and takes an error for no. The list and the snapshot are sequences
without duplicates: `ListActiveHealingEvents` returns the `SnapshotLimit` (100)
newest rows that no chaos run hides, and `handleHealingEvent` puts an active event
in front and cuts the list to `PageLimit` (50). `during` are the rows of the chaos
run under way, `hidden` those of completed ones; a run that fails gives its own
rows back and no others. `missed` is a history variable, the events about which
the page may have lost a message in a way the code accepts: a failed POST, the
chaos filter, a full buffer, a lost connection, a snapshot that overwrites a live
message, an UPDATE nobody announces, and the events that one of the two limits
left out. With more active events a page shows the newest 100 when it is loaded
and 50 from the next active message on, and an event that was pushed out does not come back when newer ones are resolved. `missed` is
what makes `PageAgrees` say something about all the others. The key is
`queue.lag`, whose events are always announced.

In `ChaosRequests` a run id is a scenario and a second, as in the code, so that
two clicks in one second are one request. A report file is torn between the
start and the end of `WriteReport`, and a deleted one leaves its name behind
for the properties. The time of a call is counted to its answer: what a handler
does is one step (`DeleteReport`, which removes several files, two), and the
answer arrives at any later time, or after others. `DeleteReport` passes over a
scenario report that `Glob`, `Stat` or `os.Remove` fails for, and answers as if it
were gone: a counted fault, which leaves any of the reports behind. `skipped` is a
history variable, the runs to which that happened, or whose deletion a restart of
the API cut short.

In `Heartbeats` a step of `Tick` is a unit of time; what is due happens before it
passes. `silent[w]` is the age of the row, `gap[w]` what the poll has read of it,
which ages while the poll is busy with other rows (`stall`). In `RateLimiter` the
unit is the time in which a token is earned.

**Abstractions.** Time is left out of the pipeline: a message in flight may time out at any
moment, or, in `PipelineTwoWorkers`, only during the inference and once, which
is what 570 s against 360 s allows (`SlowCalls`, `MaxExpiries`). Payloads, trace
ids, metrics, logs and all SSE events but `task.completed` are left out.
`ChangeMessageVisibility` only shortens a timeout that may be short anyway. The
bounded pool `Messages` stops requests, not the system: `SendMessage` is not
enabled without a fresh identity, and the runs choose the pool so that at least
one DLQ retry happens.

## 3. Runs

| Run | Question | Bounds |
|---|---|---|
| `pipeline_safety` | can two workers run one task, can a result be lost, taken back or announced falsely, is it a lease? | 1 task, 3 messages, 2 workers, 1 operator, 2 receives, 1 fault, 1 crash |
| `pipeline_one_worker` | is every unfinished row watched, does the main queue drain; and without crashes and faults, does every task settle, and is a retry always still to come? | 2 tasks (one may be a replay), 2 messages, 1 worker, 3 receives, 1 fault, 1 crash |
| `pipeline_two_workers` | *violation*: is a retry always still to come with two workers? | 1 task, 1 message, 2 workers, 3 receives, real timeouts |
| `watchdog_safety` | more active rows for one condition than failed calls explain, one left behind or unknown to the detector, a condition silenced? | 2 keys, 3 changes, 8 rows, 2 faults, 2 restarts |
| `watchdog_duplicates` | *violation*: two open rows for one condition? | 2 keys, 2 changes, 4 rows |
| `chaos_safety` | does every Cleanup mend what was broken, does a run end, are events broadcast afterwards? | all suites, every scenario may outlast its deadline, 2 runs, 1 fault, 1 crash, 1 of each expiry |
| `chaos_baseline` | *violation*: does a scenario start on a working system? | `all`, 1 deadline of `runtime-hang` |
| `chaos_requests` | is a result shown the result of that run, is it shown at all, does deletion that meets no error leave nothing behind? | 2 scenarios and `all`, 1 page, 2 answers under way, 3 clicks, 1 run, 3 instants, 1 fault, 1 crash |
| `chaos_result` | *violation*: does the result appear when the shown command is run? | 1 scenario, 1 page, 1 run |
| `feed` | does a page agree with the table, does a resolved event leave it, does it come back after failures, and can a publisher hit a closed channel? | 2 events, limits of 1 for snapshot and list, 2 changes from outside, 2 connections, buffer of 1, 1 fault, 1 restart |
| `local_api` | does a refused task run, an accepted one end and is it tracked until then, a task run twice, a client exceed its budget? | 3 tasks, queue of 1, 1 address, burst of 1, 4 instants, 1 fault, 1 crash |
| `heartbeats` | is a silent worker reported in time, a punctual one never? | 2 workers, beat 2, poll 3 (+ 2), stale 12, orphan 24, 3 changes, 1 fault |

Why these are enough. Tasks interact only through the pool of workers, and the
replay check, so one task with several messages shows the races on a row, and
two show replay. Three messages of one task are the first delivery, a retry
from the DLQ, and a second retry that meets the first. Two workers are enough
for every conflict on a row, because a third can only lose the same
SetProcessing. Two receives (three or four in the runs that test the limit itself)
suffice for a retry and a last delivery. One crash and one fault put either at
every step. `MCWatchdog` assumes that the rows suffice: each row is opened by a
change from outside, by a fault, or by the one re-report it causes. Deadlock is
not checked for the pipeline, which does stop when nothing is left to do; it is
for the watchdog, which never stops, and not for the chaos runner, whose runs are
bounded. Two runs show what one leaves to the next; the suites are the ones of
`main.go`, the whole list, one by name, or none for an unknown name. In
`chaos_safety` a deadline may pass in any wait of any scenario, because the limits
of the waits of each add up to more than its deadline; `chaos_baseline` is about
`runtime-hang` alone.

Messages about different events of `feed` meet in three places: in a buffer,
where all that matters is that it can be full, and in the snapshot and on the
list, where one takes the place of another. Two events and limits of one show
both: a buffer of one is full as soon as a second message is on its way, and the
second active event takes the place of the first. Two connections are the page's
and the one it has left behind. Two changes are a condition that comes and goes,
or that comes and meets a chaos run (whose end is not counted), an
acknowledgement or an UPDATE by hand. What needs more of them, such as an event
resolved during a run it is older than, or a run with a row that ends while a
row of an earlier, completed one is hidden, is beyond the run; the proof of
`PageAgrees` covers it. In `local_api` three tasks are one in process, one
queued and one refused; the limiter is refilled and forgets within four instants
when it forgets after one. The intervals of `heartbeats` keep the order of the
defaults (10, 15, 60, 120 s) in smaller numbers; the theorems hold for all
intervals that keep it. In `chaos_requests` one run is enough, because results
are told apart by the request they answer, and the page may ask for several; the
hour is one instant.

**Fairness.** `Pipeline!FairSpec` assumes that SQS makes an undeleted message
visible again and applies the redrive policy; that an idle worker polls (its
loop has no other exit than shutdown); and that a run of `Process`, an accepted
request and a Retry go on (the inference has a deadline of 570 s, HTTP and SQS
calls return or fail; a PostgreSQL or S3 call that never returns is outside the
model). No request is assumed to arrive, no fault or crash to happen, and no
particular branch to be taken. `PendingIsDeliverable` and `Settles` speak of
behaviours without faults and crashes. `Watchdog!FairSpec` assumes only that the
poll loop, driven by a ticker, goes on, and `ChaosRunner!FairSpec` that the
runner does, whose waits have limits of their own. `Feed!FairFeedSpec` adds that
POSTs end (3 s), publishers go on (`Publish` never waits), a handler notices
that its client is gone, and the page's timers fire. `ChaosRequests!FairSpec`
assumes that answers arrive, and that a page that waits polls again and again
(strongly, since answers to other calls may fill `Calls`); nobody has to run the
command. `LocalApi!FairLocalSpec` assumes that handlers and the goroutine go on
(`Infer` has a deadline), `Heartbeats!FairHeartbeatsSpec` that time passes and
tickers fire.

**Findings.**
- *Pending without a delivery* (`pipeline_two_workers`). The worker decides on
  its own receive count whether a failed inference is retried. When the
  inference outlasts the visibility timeout, other workers receive the message
  meanwhile, run into the state conflict and use up the deliveries; the first
  worker then reverts the task to pending and logs that it will be retried via
  SQS, and it is not: its message is on its way to the DLQ. With one worker, as
  in `docker-compose.yml`, it holds (`pipeline_one_worker`), and with any number of
  workers whose calls end in time (`TimelyTasksAreDelivered`). The row is still one
  that the watchdog reports as abandoned (`UnfinishedIsWatched`).
- *Duplicate events* (`watchdog_duplicates`). Acknowledging an event takes it out
  of the dedup map, and the same condition is reported again, against the
  comment on `Detector.active`.
- *Cleanup after a timeout* (`chaos_baseline`). Cleanup gets the context whose end
  may be the reason why it runs. After a timeout of `runtime-hang` the AI runtime
  stays paused; after one of `worker-crash` the worker has no restart policy.
- *The shown command* (`chaos_result`). The page shows a command and promises the
  result; the command carries no run id, the Makefile makes up another, and the
  report is never recognised. With `RUN_ID` added it is (`ResultShown`).

Two more facts the models show, for which a property makes an exception:
after Ctrl-C the chaos runner records the end of its run with a context that is
already cancelled, so the row stays running and healing events stay silenced
(`SilentOnlyDuringRuns` excepts interrupted and killed runs); and an event
announced before a chaos run and resolved during it stays on every open page
(`missed` in `PageAgrees`).

## 4. Proofs

`PipelineProofs` and `LeaseProofs` prove, for any sets of tasks, messages,
workers and operators, any bounds on faults and crashes, and, but for the theorems that name it, any
`SlowCalls`;
`WatchdogProofs`, for any set of keys, any number of rows and any thresholds;
`LocalProofs`, for any tasks, addresses, capacity, burst and limits;
`HeartbeatsProofs`, for any workers and any intervals in the order that
`HeartbeatAssumption` demands; `FeedProofs`, for any events, connections and
failures and any size of the buffers; `ChaosProofs`, for any suites, run ids,
slow scenarios and bounds on faults, crashes and deadlines; `ChaosRequestsProofs`,
for any scenarios, pages, calls under way, instants and limits. Every invariant
that a run checks is the conclusion of one of these theorems:

| Theorem | States |
|---|---|
| `TypeCorrect` | `Spec => []TypeOK` |
| `ClaimsAreExclusive` | `Spec => []ExclusiveClaim` |
| `CompletedImpliesArtifact` | `Spec => []CompletedHasArtifact` |
| `AnnouncementsAreFinal` | `Spec => []AnnouncedIsFinal` |
| `ImplementsLease` | `Spec => LeaseSpec`, the refinement of `TaskLease` |
| `StuckTasksAreSeen` | `Spec => []ProcessingIsStarted`, one half of the next |
| `UnfinishedAreWatched` | without operators: `Spec => []UnfinishedIsWatched` |
| `PendingTasksAreDelivered` | without operators and with one worker: `Spec => []PendingIsDeliverable` |
| `TimelyTasksAreDelivered` | without operators and with `SlowCalls = {}`: `Spec => []PendingIsDeliverable` |
| `MessagesRunDown` | `Spec => [][...]_vars`: a message moves `2 * RedriveMax + 3` times at most |
| `WatchdogTypeCorrect` | `Spec => []WatchdogTypeOK` |
| `OneActive` | `Spec => []OneActivePerKey` |
| `ActiveRowsKnown` | `Spec => []ActiveRowsAreKnown` |
| `StaysWithinBudget` | `LocalSpec => []WithinBudget` |
| `LimiterImplementsBucket` | `LocalSpec => ImplementsBucket`, the refinement of `TokenBucket` |
| `LocalTypeCorrect` | `LocalSpec => []LocalTypeOK` |
| `RefusedTasksNeverRun` | `LocalSpec => []RefusedNeverRuns` |
| `TasksRunOnce` | `LocalSpec => []RunsOnce` |
| `AcceptedTasksAreTracked` | `LocalSpec => []AcceptedIsTracked` |
| `HeartbeatsTypeCorrect` | `HeartbeatsSpec => []HeartbeatsTypeOK` |
| `PunctualWorkersAreNotReported` | `HeartbeatsSpec => []PunctualIsNotReported` |
| `SilentWorkersAreReported` | `HeartbeatsSpec => []SilentIsReported` |
| `FeedTypeCorrect` | `FeedSpec => []FeedTypeOK` |
| `PublishersMeetOpenChannels` | `FeedSpec => []NoSendOnClosed` |
| `PageAgreesWithTable` | `FeedSpec => []PageAgrees` |
| `ChaosTypes` | `Spec => []ChaosTypeOK` |
| `Restored` | `Spec => []CleanupRestores` |
| `SilenceEnds` | `Spec => []SilentOnlyDuringRuns` |
| `RequestsTypes` | `Spec => []RequestsTypeOK` |
| `RealResults` | `Spec => []ShownResultIsReal` |
| `NoOrphans` | `Spec => []NoOrphanReports` |

They rest on the assumptions named in the modules (`RedriveAssumption`,
`ReceiveAssumption`, `NoTaskAssumption` and so on), which TLC evaluates in every
run.

For the pipeline the inductive invariant is `IInv == RefInv /\ ClaimInv`.
- `RefInv` is `TypeOK` strengthened by *references*: a message that was sent
  names a task, a worker that is not idle holds a message that was sent, and so
  does an operator's screen. Without it the body of the message in a worker's
  hand could be `NoTask`, or change under it.
- `ClaimInv` adds to the three safety properties what `Process` knows at each
  program counter: the object is in S3 from `delete` on, and at `announce` the
  row is completed or (after a failed SetCompleted) still processing with nobody
  left to own it. Exclusive claims are needed for all the rest: the worker's
  later statements check only that the row is processing, not whose it is.

Each lemma treats the actions of one component, one step per action and per
conjunct the action can disturb. For the refinement, `Owner` picks the worker
that owns a task; `OwnerMeaning` shows that the choice is forced.

Three theorems about the pipeline have hypotheses; without them the properties
fail.
- `UnfinishedIsWatched` needs `Operators = {}`. `RowMoves` lists what a step may
  do to a row; only `RevertToPendingForRetry`, which an operator's Retry
  calls, makes a row pending and keeps its start time, so that the query for
  abandoned tasks skips it. The other half, that a row in processing has a start
  time, needs no hypothesis (`StuckTasksAreSeen`).
- `PendingIsDeliverable` needs more; `pipeline_two_workers` shows why. `HeldInv`
  says what a worker knows of the message it holds as long as nobody else gets
  it: nobody has received it since, only the redrive policy can take it out of
  the main queue before the worker deletes it, and a worker that is about to
  revert the row has not had the last delivery, because it gives up no later than
  the queue does (`ReceiveAssumption`). That is what is left of the message when
  the row becomes pending again. There are two reasons why nobody else gets it,
  and one theorem for each:
  - there is one worker, as `docker-compose.yml` starts it
    (`PendingTasksAreDelivered`). The visibility timeout is then arbitrary;
  - no message becomes visible while a worker is busy with it, `SlowCalls = {}`
    (`TimelyTasksAreDelivered`). `AloneInv` says that a held message is in
    flight and has one holder. So it is the visibility timeout of 360 s, shorter
    than the 570 s an inference may take, that makes *Pending without a delivery*
    possible, and not the number of workers.

`MessagesRunDown` is the safety half of `MainDrains`: `MovesLeft` is a natural
number that every move of a message makes smaller, so that with the fairness of
`FairSpec` it cannot stay in the main queue for ever.

For the watchdog a row is *loose* when it is active and neither the one its key's
entry names nor that of the call in progress. `WdInv` says what entries and calls
name, and `LooseInv` that a key has no more loose rows than calls have failed so
far: an insert whose error is reported although the row was written, an update
that closes nothing and a map that is not reconstructed each loosen one row,
and nothing else does. `OneActivePerKey` alone is not inductive, since whether
an insert makes a second row depends on the map. `ActiveRowsAreKnown` is the
case without failed calls: no row is loose. The library's theorems about
finite sets do the counting.

For the limiter the argument runs over the abstract bucket: `LimiterInv` adds to
the types that what was granted since `From`, plus what is in the bucket now, is
at most the burst plus the time since. It is inductive because `Allow` moves one
from the bucket to the count and `Cleanup` leaves `Level` as it is, which needs
`IdleLimit >= Burst`. For `LocalApi`, `HandlerInv` ties every task to one place
(handler, queue, goroutine, or gone) and `OnceInv` counts its announcements by
that place. `TrackInv` follows a task from the moment it is put into the channel,
before its 201 is sent, because the goroutine may have finished it by then.

For the heartbeats `HbInv` bounds what a poll has read of a punctual worker: at
most its age at the time of reading plus the stall, and a beat comes every
`BeatEvery`. `SilentInv` follows a silent worker through the poll: `Delay(n)`
is the silence after which `n` failed calls cannot have kept it unseen, and each
stage of a poll lowers or keeps the bound.

For the feed, `FeedInv` takes over what the watchdog's own proof knows of the
rows: a step of the feed is a step of the watchdog or leaves its rows alone, and
in the same way one of the broker's operations or none of them. `PageAgrees` is
far from inductive, because it is silent while a message is under way. `AgreeInv`
says the rest, for each row: what is said of it anywhere between watchdog and
page is or was true (`SaidInv`); the watchdog waits for its POST, so a message in
progress is the one it waits for, and no second one overtakes it (`PostInv`); so
the page's buffer never says "active" after "resolved" (`QueueInv`); and the
list, or the snapshot while it is being fetched, is right or will be corrected by
a message that is still to come (`ListInv`), but for the rows that chaos runs hide.
An event counts as lost from the step in which the code drops a message about it
or a limit takes its place. `WithoutElements`, `WithFirstElements` and
`DescendingElements` say what the operations on lists do to their elements, for
any limits; nothing else needs to know that they are lists.

For the chaos runner the programs of the scenarios are data, and `CallsWellPlaced`
says what the proofs need of them: a container is broken only by a scenario that
has it among its targets, and what one call of Inject may break one call of
Cleanup mends. `ContainersInv` then follows a debt: whatever is down or paused,
and a policy or delay that is changed, is owed by a scenario that is under way
and has not yet come to its mending call, or that is in `spoilt`. `RowsInv` says
which row of `chaos_runs` may still be running: that of the runner at work.

For the chaos requests `CallsInv` and `AnswersInv` speak of the answers under way
as `ShownResultIsReal` speaks of pages, since an answer turns into what the page
shows whenever it arrives. `SuitesInv` and `ReportsInv` tie the files of a run
to what its runner has done; `SameRunInv` adds that the suite report names every
scenario report of its run and was written within the longest run of it, which
is what lets `DeleteReport` guess them. The one exception that
`NoOrphanReports` makes is for runs in `skipped`, where the code gives files up.

Only model-checked: the liveness properties of all parts, since liveness under
fairness and ENABLED are beyond the proof system, and the counterexamples of
the findings. No module that is proved about declares a RECURSIVE operator, and
nothing here needs induction over data.

## 5. Not modelled

- `FailStuckTasks` and `FailAbandonedTasks` of the chaos runner: they fail rows
  that live workers own, against the lease and on purpose; two chaos runners at
  once; `SetCancelled`, `SoftDelete`, `DeleteArtifacts` and `MarkPurged`, which
  nothing calls.
- Task events on the dashboard (`recent_events.go`, the list of tasks, the filter
  for tasks of chaos runs): the broker carries them as it carries healing
  events; in the pipeline only task.completed is followed.
- The load test, a client that measures; the AI runtime, whose answers are
  nondeterministic in the models of its callers; the read-only API; tracing and
  metrics. They keep no state that decides what happens to a task or an event.
- Infrastructure and CI; the queue parameters of `sqs.tf` appear as constants.
- Deadlines of single calls, except where a property is about time
  (`Heartbeats`, `RateLimiter`, `ChaosRequests`); PostgreSQL and S3 calls that never
  return.
