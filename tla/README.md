# Flotilla, specified

Flotilla takes requests to run a container, keeps a row for each run in
Postgres, hands the runs to Kubernetes (EKS) or, those of engine `eks-spark`, to
EMR through SQS queues, and follows the jobs until they end.  This directory holds TLA+ models of that machinery,
the TLC configurations that check them, and TLAPS proofs of the properties that
matter most.  The models are translated from the Go sources; comments of the
code are only quoted where a property states what they promise.

## 1. The system

### Components

| component | state it keeps | operations | module |
|---|---|---|---|
| run table (`state/pg_state_manager.go`, `state/models.go`) | the `task` rows: status, `queued_at`, exit code, pod name, ... | `CreateRun`, `GetRun`, `UpdateRun` (select for update, merge, update), `ListRuns`, `DeleteDefinition` (deletes the runs too) | `RunModel`, `FlotillaStore` |
| run queue (`queue/sqs_manager.go`) | SQS messages that carry a whole run | `Enqueue`, `ReceiveRun` (hides for 45 s), `ack` | `FlotillaStore` |
| run requests (`services/execution.go`, `flotilla/endpoints.go`) | where a request is | `CreateRun`, then `Enqueue`, then `UpdateRun(queued_at)`; client status reports; deletion | `RunRequests` |
| submit worker (`worker/submit_worker.go`) | the message in hand | receive, load, `Execute`, `UpdateRun`, ack; every early return | `SubmitWorker` |
| EKS engine and adapter (`execution/engine/eks_engine.go`, `execution/adapter/eks_adapter.go`) | none; the Kubernetes jobs are its state | `Execute`, `Terminate`, `FetchUpdateStatus`, job resources | `SubmitWorker`, `TerminateWorker`, `StatusWorker`, `EksResources` |
| retry worker (`worker/retry_worker.go`) | the list in hand | list `NEEDS_RETRY`, set `QUEUED`, enqueue | `RetryWorker` |
| status worker (`worker/status_worker.go`) | a goroutine per run polled, sleeping clean-ups | list, lock, reload, fetch, save, clean up two minutes later | `StatusWorker` |
| status lock (`acquireLock`) | a Redis key with an expiration | `TTL`, `Del`, `SetNX` | `StatusLock` |
| termination (`services/execution.go:411-471`) | a channel of 100, its goroutines | push, spawn, look for sub-runs, push and spawn for each, stop | `TerminateWorker`, `TerminateChannel` |
| worker manager (`worker/worker_manager.go`, `services/worker.go`) | slices of workers, the `worker` table | initialize, follow the table, add, remove; `UpdateWorker` | `WorkerManager` |
| definitions (`services/definition.go`, `state/pg_state_manager.go`) | the `task_def` rows | create, update, delete, by concurrent requests | `Definitions` |
| EMR engine (`execution/engine/emr_engine.go`) | none; EMR jobs, and the id of a run's job in its `spark_extension` | `Execute` (`StartJobRun`), `Terminate` (`CancelJobRun`) | `EmrEngine` |
| events worker (`worker/events_worker.go`) | the notification in hand | load a run, write what an EMR state, a Kubernetes event or a pod event says of it, cancel a job with too many, acknowledge | `EventsWorker` |
| cloudtrail worker (`worker/cloudtrail_worker.go`) | the run it loaded | load a run by the name of a session, write its whole row back with the records | `TrailWorker` |
| logs (`services/logs.go`, `clients/logs/eks_s3_logs_client.go`) | none; the client keeps its position | read a chunk from a position, answer the next one | `LogTail` |
| templates, metrics, clients, configuration, UI | | | not modelled, see section 8 |

### How they interact

A request saves the run, sends a message and stamps `queued_at`: three calls, to
two systems, any of which may fail (`services/execution.go:504-530`).  A submit
worker receives the message, loads the run and acts only on a `QUEUED` one; it
creates a job *named after the run*, writes `RUNNING` and acknowledges.  Status
workers list every run with a `queued_at` that is not over, take the Redis key,
read the run and its job and write back what they find; a job they cannot find
counts as an end only half an hour after `queued_at`.  A client may report
`NEEDS_RETRY`; the retry worker puts the run back to `QUEUED` and sends another
message.  A termination deletes the job and marks the run `STOPPED`, and does
the same for the run's sub-runs.  A Spark
run takes the same way as far as the submit worker, which starts its EMR job
with the run's name as client token and saves the job's id in the row; from then
on nothing polls it, and what becomes of it is learnt from notifications only,
which the events worker matches to the run by that id.  Notifications of
Kubernetes reach EKS runs as well, beside the status worker.  Nothing ties these
workers together but the row, whose status is merged by precedence (`Run.UpdateWith`,
`state/models.go:624-650`), the job's name, and the message.

### What is hard

* Every worker acts on a copy of the run it read some calls ago, and `UpdateRun`
  merges that copy into the row; any other worker may have written in between.
* Messages come back after 45 seconds, whether their receiver died or is slow.
* Two writes to two systems (row and message, job and row) have no transaction.
* "Not found" means "not created yet", "collected" or "deleted".
* Clean-up is decided now and done two minutes later, by name.
* The lock is three Redis calls; a failed call counts as the lock taken.
* The goroutines that empty the termination channel also fill it.
* The manager follows a table that changes under it.
* Notifications of a job come twice, late, in any order, and before the run
  knows the job; each writes the whole row back from a copy.
* A structured column (`spark_extension`, the list of pod events) is replaced as
  a whole, so that a stale writer may undo what another put in it.

The list with lines, and the properties that answer each, is in
`PROJECT.json` under `hazards`.

## 2. The modules

```
RunModel            statuses, rows, UpdateWith
  FlotillaStore     table, queue, jobs, clock; the classes of faults
    RunRequests  SubmitWorker  RetryWorker  TerminateWorker  StatusWorker
    EventsWorker  TrailWorker
      EmrEngine     the EMR branches of SubmitWorker and TerminateWorker
      Flotilla      composition, safety and liveness, refinement of RunContract
        MCFlotilla (contract, once, ends, starts, spark, orphan)
        FlotillaProofs        UpdateWith, the invariant, types, the contract
          FlotillaSafetyProofs  one job per run, acknowledgements, Spark runs
  RunContract       what clients are promised about statuses
StatusLock          StatusLockProofs
TerminateChannel    MCTerminateChannel, TerminateChannelProofs
WorkerManager       WorkerManagerProofs
EksResources        MCEksResources, EksResourcesProofs
Definitions         DefinitionsProofs
LogTail             LogTailProofs
```

### The core

One action is one call of a worker to Postgres, SQS, Kubernetes or Redis, with
the local computation that follows it, so that any other worker may act between
two calls.  Each worker has a program counter and what it holds in local
variables (`sub`, `ret`, `trm`, `pol`, `evt`, `trl`); the shared state is in `FlotillaStore`:

* `rows`: the columns the workers decide on.  `queuedAt`, `podName`, and the
  like are Booleans (set or not): no decision depends on more, but for the half
  hour, which is `old`.  `spark` is the `spark_extension`: null, as the request
  gave it, or with the id of the job; `events` counts the pod events listed.
* `body`, `queue`: messages.  A message carries its run, `hidden` while a
  worker has it.  `VisibilityTimeout` brings it back.
* `jobs`: the Kubernetes job named after the run, or the EMR job started with
  the run as client token: `absent`, `pending`, `active`, `succeeded`, `failed`
  or `cancelled`.  `launched` counts creations and is not state of the
  program.
* `SparkRuns`, a constant: the runs of engine `eks-spark`.  The submit worker and
  the termination branch on it (`ExecutesEks`, `ExecutesEmr`; `DeletesEks`,
  `CancelsEmr`), and so do the lists of the status and retry workers, which are
  of EKS runs.
* `news`: where each notification is, as `queue` is for messages: unsent,
  visible, hidden while a worker has it, deleted.  `Notify` sends it when the
  job is in a state it may report; the queues keep no order.
* `Faults`, a constant, names the classes of failure an instance admits: failing
  calls to Postgres, SQS or Kubernetes (whose reply may be lost after it took
  effect), crashes, slow workers, collected jobs, half-done requests.  Where a
  class is left out, the run's question is what holds without it.
* `BadCluster`, runs whose cluster some processes have no client for, or whose
  job Kubernetes finds invalid: `Execute` then fails for good.  Other processes
  may succeed.

`UpdateWith` is the merge of `Run.UpdateWith`: columns that are set overwrite,
and the status goes by precedence, with `NEEDS_RETRY` above all and `QUEUED`
taken from it.  `RunContract` is the abstract specification: what `GET
/history/{run_id}` may show.

### The others

* `StatusLock`: the polls of one run, by one or two processes.  The deployment
  (processes, failing Redis, slow goroutines) is chosen in `Init` and constant.
* `TerminateChannel`: the channel, the goroutines that wait for it (counted, as
  they are alike), those with a run in hand, and a tree of runs whose sub-runs
  are still being created.
* `WorkerManager`: the `worker` table, the manager's pass over a copy of it, and
  the workers by type: `slice` in its map, `stray` running outside it, `dying`
  told to stop.  `createSchema` is chosen in `Init`.
* `EksResources`: CPU and memory of a run's jobs in the units of the code, over
  its attempts, the engine's write-back included.
* `Definitions`: three requests, each a sequence of calls to Postgres.
  `Writable` is what the constraints let the transaction of an update do: the
  tags of a definition refer to it, so that they cannot be written once it is
  gone, unless there are none (`NoTags`).
* `LogTail`: a file that grows, the position a client was answered last and
  sends next, and the lines it was given.  `PositionAfter` is the counting of
  `logsToMessageString`, off by one where the code is; `PollEmr` that of
  `emrLogsToMessageString`.

## 3. What is checked

All runs finish with no error but the two marked *violation*, which are
findings (section 6).

| run | module | properties | what it shows | states |
|---|---|---|---|---|
| `contract` | `MCFlotilla` | `TypeOK`, `SavedBeforeQueued`, `Watched`, `ImplementsContract` | with nine classes of fault, an events worker, a report and a deletion, nothing refers to an unsaved run, unfinished runs are listed by the status workers, and statuses follow `RunContract` | 1.3 M |
| `once` | `MCFlotilla` | `LaunchedOnce`, `StoppedHasNoLiveJob`, `CleanupSparesLiveJobs` | redelivery, crashes, lost replies, two submit and two status workers and a cloudtrail worker that writes rows back late: one job, stopped and cleaned up only after it | 2.0 M |
| `ends` | `MCFlotilla` | `WatchedRunsEnd` | every run with a `queued_at` is over or deleted in the end | 217 k |
| `starts` | `MCFlotilla` | `QueuedIsOnItsWay`, `AckedWhenHandled`, `QueuedRunsStart` | a queued run always has something on its way, no message is acknowledged unhandled, every queued run is executed or stopped | 50 k |
| `spark` | `MCFlotilla` | `AckedEndsAreRecorded`, `SparkSeenHasJob`, `NoisyJobsAreCancelled`, `EndedJobsStop` | a Spark run: ends are recorded before they are acknowledged and in the end, the job's id survives every writer, a job at the limit of pod events is cancelled, unless a pod event is lost | 411 k |
| `orphan` | `MCFlotilla` | `StoppedHasNoLiveJob` *violation* | a job is created for a run that was just terminated | |
| `loglines` | `LogTail` | `NothingSkipped` *violation* | a client that caught up with a log skips the next line | |
| `lock` | `StatusLock` | `ExclusiveAlone`, `PolledAgain` | one process excludes; in every deployment polling goes on | 5 k |
| `channel` | `MCTerminateChannel` | `EachHasItsGoroutine`, `TreeIsStopped` | pushes and goroutines match; the whole tree is stopped | 112 k |
| `manager` | `WorkerManager` | `EveryWorkerTracked`, `CountsSettle` | the workers follow the table and none is lost, but for late types and doubled rows | 88 k |
| `resources` | `MCEksResources` | `JobsFit`, `RetriesGetTheSame` | requests within limits, limits within the largest node; a retry gets what the attempt before it got | 156 k |
| `definitions` | `Definitions` | `TypeOK`, `AliasesUnique`, `DeletedIsNotUpdated`, `OthersKept` | aliases stay unique, an update brings no deleted definition back and, unless it empties the tags, is not answered with success, a lone update is partial | 1.0 M |

`TypeOK` of the core says more than types: it bounds each worker's local state
to what its program counter allows.

### Bounds, and why they are enough

* One run.  Runs share nothing but the workers, and a worker has one run in hand
  at a time; the proofs hold for any number.
* One message per request and one per retry: as many as the request and the
  report of `NEEDS_RETRY` there can send.
* `MaxLaunches` jobs per run, 1 or 2: a second launch is what `LaunchedOnce`
  rules out; in `contract`, `starts` and `spark` the first decides the property,
  and a worker that would launch again waits.  `ends`, where a retry launches a
  second job, has 2.
* At most two workers of a kind, in `once` and `starts`, the least that race.
* Each notification is sent once for a run, and redelivered at will.  `spark`
  has three EMR states, the two ends and one before them, and one pod event with
  the limit at 1, so that it is reached by the first; `contract` has
  the event that ends a run, which is the one that races with the status worker.
  `CANCELLED`, `Scheduled` and `SUBMITTED` change no column a property of a run
  reads, or move a status up as `RUNNING` does; the proofs cover them.
* `MaxReports` is 1, `NEEDS_RETRY`: the report that makes a run start again.
  Other reports only move a status up.
* `LogTail`: five lines and a chunk of three; a file that is not replaced, and
  no garbled line, so that what is skipped is skipped by the counting alone.
* `StatusLock`: three polls, two processes, two crashes: the third poll is the
  one that finds what two others left.
* `TerminateChannel`: four runs in three generations, a channel of one, the
  smallest and the one most likely to block; one request, since a second makes
  goroutines of its own.  `Workers` bounds goroutines with a run in hand, of
  which the code has as many as it needs: three are enough for this tree (fewer
  would block where the code does not).
* `WorkerManager`: two types from the start and a late one, counts to 2, two
  edits, a restart, a failing worker.  `MaxCounted` caps the counts of strays
  and dying workers at 2: no guard tells more of them apart.
* `EksResources`: values on both sides of each bound and threshold of the
  adapter, 0 and negative ones included, two attempts.
* `Definitions`: three requests, each made once, one of which may be an update;
  two aliases and two images, so that an update can change either; a memory or
  none, so that a column may be unset; a list of tags and the empty one.
* The limits of `ListRuns` and the intervals of the loops are left out: a run is
  listed whenever it qualifies.  `PENDING` only comes from client reports, as in
  the code.

Deadlock is not checked where the inputs are bounded, so that an instance may
really have nothing left to do: the core, `TerminateChannel`, `EksResources`,
`Definitions` and `LogTail`.  `StatusLock` and `WorkerManager` never stop, and are
checked.

### Fairness, and why the code justifies it

* `SubmitSpec` (`starts`): the request goes on to its next call, and the submit
  workers loop for ever (`worker/submit_worker.go:45-56`).  Weak fairness of the
  worker's progress, and *strong* fairness of receiving and of each successful
  call: the calls are made again with each redelivery, and a call that is made
  again and again does not fail every time.  Nothing is assumed of the status
  workers, terminations or retries.
* `WatchSpec` (`ends`): the same of the status workers, whose loop lists the
  runs afresh every round (`worker/status_worker.go:68-98`), and of the
  environment: a job starts, ends at its `ActiveDeadlineSeconds`, and time
  passes.  Nothing is assumed of requests, submit workers or retries; crashes
  of the status workers are left out of that run, for a process that crashes at
  every poll polls nothing.
* `EventSpec` (`spark`): the events workers loop for ever
  (`worker/events_worker.go:89-101`); a worker that has a notification goes on
  with it, SQS delivers what is not deleted again, and the end of a job is sent.
  Strong fairness of receiving it and of saving it: a worker that dies before
  the save every time never saves.  Nothing is assumed of submit workers,
  terminations or requests: the property is about runs whose job is known.
* `StatusLock`: Redis expires keys; calls and goroutines return.
* `TerminateChannel`: goroutines that can go on do, as Go's scheduler has it.
* `WorkerManager`: the process is started again, its loop and the workers go on.

## 4. What is proved

For every set of runs, messages and workers, every class of faults and every
bound.  All lemmas are proved; the assumptions are the named `ASSUME`s of the
modules, which TLC evaluates too.

* `FlotillaProofs`
  * `MergeStatusCommutes` (status reports other than `NEEDS_RETRY` may arrive in
    any order) and `UpdateWithIdempotent` (an update delivered twice has the
    effect of one), on which late and repeated writes rely.
  * `Invariance`, `TypeCorrect`, `NeverUnsaved`: the inductive invariant `IInv`
    says, of each component, which run it may have in hand at each point, and
    that every such run, every message sent and every job belongs to a saved
    row.  `SavedBeforeQueued` alone is not inductive: a worker that holds an
    unsaved run would create its job.  Each component's steps are shown to keep
    its own part; what they leave to the others is the relation `Grows` (saved
    stays saved, sent messages keep their run), so that a lemma per component
    suffices and not one per pair.
  * `AlwaysWatched`: if no request stops half-way, every unfinished run has a
    `queued_at` or a request about to set it.  The argument is that no update
    takes a column back to unset.
    The events worker is in the same scheme: whatever row it makes, its status
    is a valid one (`NotedRow`) and its run is saved, and its write of the whole
    row is an `UpdateWith` like any other.  So is the cloudtrail worker (`TrailKeeps`),
    which writes back the row it read.
  * `KeepsContract`: the whole system implements `RunContract`, step by step;
    the only writes to a status are `CreateRun`, the deletion and `UpdateWith`.
* `FlotillaSafetyProofs`: the safety properties of the core that hold under
  conditions on reports and faults, given with each and explained in section 5.
  But for crashes in the last, each condition holds in the run that checks the
  property, which shows that it can be met.

  Every worker acts on a copy of a row, so that no property of rows is
  inductive by itself: each invariant says the same of the copies that are being
  read or are about to be written.  What one step may do is stated once: what a
  worker may have in hand (`SubmitHands`, `PollHands`, `EventHands`,
  `TrailHands`), where a copy comes from (`ReadingStep`, `WritingStep`), which
  writes a row may see (`RowStep`), what becomes of a job (`JobStep`) and of a
  notification (`NewsStep`).  Each theorem is then a short argument over these
  few cases instead of the forty actions.

  | theorem | property | conditions | the invariant that makes it inductive |
  |---|---|---|---|
  | `SparkLaunchedOnce` | at most one EMR job for a Spark run | none | the job of a Spark run never goes, so that the client token finds it (`LaunchInv`) |
  | `EndsAreRecorded` | `AckedEndsAreRecorded` | no report of `NEEDS_RETRY` | no copy asks for a retry (`NoRetryInv`), and a worker about to delete the notification of an end has made a `STOPPED` row or saved it (`EndsInv`) |
  | `SparkRunsKnowTheirJob` | `SparkSeenHasJob` | clients report neither `PENDING` nor `RUNNING`, no cloudtrail worker | a copy that is about to be written holds the id of the job or is `STOPPED` (`SparkInv`) |
  | `AcksAreEarned` | `AckedWhenHandled` | no `NEEDS_RETRY`; no "db" | a submit worker that goes on to update or acknowledge has launched the run or found it out of `QUEUED` (`AckInv`) |
  | `RunsLaunchOnce` | `LaunchedOnce` | no `NEEDS_RETRY`, no termination; no "db", "stuck", "ttl" | a clean-up is asleep only for runs past `QUEUED` (`CleanInv`), so that a job that is gone leaves a run nobody will execute (`OnceInv`) |
  | `StoppedIsOver`, `CleanupIsSafe` | `StoppedHasNoLiveJob`, `CleanupSparesLiveJobs` | `Undisturbed`: no reports, no terminations, no unusable cluster; no "db", "stuck", "ttl", "late"; for Spark runs no "cluster" | rows, their copies, notifications and sleeping clean-ups tell the truth: none says a job started or ended that did not (`TruthInv`) |
  | `QueuedIsNotStranded` | `QueuedIsOnItsWay` | no `NEEDS_RETRY`; no "db", "request", "terminate", "ttl", "stuck" | a message in flight stays so until its run is past `QUEUED`, and a job that is gone leaves a goroutine about to stop the run (`WayInv`) |
  | `NoisyJobsDoNotGoOn` | `NoisyJobsAreCancelled` | no "db", "cluster", "slow", "crash" | a notification in hand is hidden and in one pair of hands (`HeldInv`); a row or a copy at the limit is of a job that is over or that a worker is to cancel (`NoiseInv`).  The theorem says more than the property: a worker has an event in hand (`NoisyJobsAreInHand`), none need be lost |

* `StatusLockProofs`: `AloneIsExclusive`.  Invariant: a goroutine at work holds
  the key, one poll at a time is inside `acquireLock`, and one about to call
  `Del` finds no key.
* `TerminateChannelProofs`: `NothingLeaks`, for every capacity, tree and number
  of requests, failures and restarts: pushes and goroutines match.
* `WorkerManagerProofs`: `TypeCorrect` and `WorkersAreTracked`, for any types,
  table and failures.  A worker is lost track of when `InitializeWorkers` makes a
  second slice for its type.  The invariant says which rows that loop has dealt
  with (`Reached`): only their types have a slice, so that a type that is met
  again has two rows; and since the table only grows and rows keep their type,
  it has two ever after.  The set of types is assumed to be finite.
* `EksResourcesProofs`: `AllJobsFit`, for all definitions, requests, estimates
  and attempts, and `AttemptsGetTheSame`: what the engine writes back to the run
  makes the defaults of the next attempt come out as those of the last
  (`DefaultsSettle`: the share of CPU that a large job gets is not raised again).
* `DefinitionsProofs`: `TypeCorrect`, `AliasesStayUnique` and
  `DeletedStaysDeleted` for any number of requests (the row an update is to
  write has the tags it asked for, or the blank ones, so that it has none only
  where none were asked for), and `SerialUpdatesKeepOthers`, where one request at most is an update: its merged
  copy differs from the row only in columns it names.
* `LogTailProofs`: `EmrTailIsComplete` (for every file and every client, the EMR
  reader skips no line: the position never passes the end of the file, and all
  behind it was returned), `EksCallIsComplete` and `EksCatchUpOverruns`, which
  together say where the EKS reader goes wrong: never within a call, and at
  every call that catches up with the file.

Only model-checked: everything that needs fairness (`WatchedRunsEnd`,
`QueuedRunsStart`, `EndedJobsStop`, `PolledAgain`, `TreeIsStopped`,
`CountsSettle`), since TLAPS has no rules for `ENABLED`.  Every invariant and
every action property that a run checks is a theorem; `NoisyJobsAreCancelled` is
one without crashes, and the run `spark`, at a limit of one event, covers those,
but for the events they lose (section 5).

## 5. Conditions worth knowing

Several properties hold under a condition the code does not ensure; the models
state it instead of leaving the case out.

* `Watched` needs requests that complete: if the update that sets `queued_at`
  fails (`services/execution.go:520`), the run is queued and executed but never
  listed by the status workers.
* `QueuedIsOnItsWay` needs calls to Postgres that succeed, and runs that are not
  retried: the retry worker saves `QUEUED` before it enqueues, and a retry that
  meets its own finished job is told "already exists"
  (`execution/engine/eks_engine.go:131`), saved unchanged and acknowledged; once
  the job is collected nothing is on its way, until the half hour stops the run.
* `LaunchedOnce` and `StoppedHasNoLiveJob` need runs without a retry or a
  termination (finding `orphan`).
* `AckedEndsAreRecorded` and `EndedJobsStop` need a run that no client reports as
  `NEEDS_RETRY`, which takes it out of `STOPPED`.  `EndedJobsStop` says nothing
  of cancelled jobs: `processEventEMR` ignores `CANCELLED`, so that a run whose
  job was cancelled at the limit of pod events, and not by a user, stays as it
  was for ever.
* `SparkSeenHasJob` needs no client that reports a Spark run `RUNNING` before its
  job was saved, and no cloudtrail worker that has the run in hand while its job
  is started (`Trackers` is empty in `spark`): it finds runs by name, before
  their job is known, and writes back the `spark_extension` it read
  (`worker/cloudtrail_worker.go:115-125`).  The message of the run is
  acknowledged by then, so that nothing saves the id again, and with it are lost
  the way to terminate the job and the way to learn that it ended.
* `NoisyJobsAreCancelled` needs calls to Postgres and EMR that succeed:
  `processEMRPodEvents` drops the errors of both with the event.  It excepts
  jobs a pod event of which was lost: an event whose pod Kubernetes does not find,
  or finds without the id of its job, is deleted though its run exists
  (`worker/events_worker.go:164-190`, `:227`).  If a worker saves the event that
  makes the limit and dies before it cancels the job, the event is delivered
  again; should its pod be gone by then, it is deleted and the job goes on.  But
  for that (`LosePodEvent`), the property holds with crashes at a limit of one
  event, and TLC finds it to hold at two, with two
  workers.  At three, with three workers, it finds a
  behaviour of 32 states in which it fails: a worker saves the event that makes
  the limit and dies; an older copy, written back, shortens the list
  (`worker/events_worker.go:165-187` saves the whole row); the event is delivered
  again, makes no limit and is deleted; another copy restores the list, and
  nobody is left to cancel the job.
* A Spark run whose `StartJobRun` took effect and whose reply was lost, or whose
  id could not be saved, has a job nothing can cancel and nothing reports on: the
  first is `STOPPED` over it, the second stays `QUEUED`, since neither the retry
  nor the status workers list Spark runs.  No property holds of it.
* `ExclusiveAlone` needs a single process.
* `EveryWorkerTracked` excepts late types and doubled rows.
* `OthersKept` needs updates that do not overlap, and a definition that is there
  when the update is written.
* `DeletedIsNotUpdated` excepts updates that ask for an empty list of tags
  (section 6).

## 6. Findings

1. `orphan` (`services/execution.go:450`): a termination between a submit
   worker's `GetRun` and `Execute` deletes no job and marks the run `STOPPED`;
   the job is created afterwards and runs under a stopped run which no status
   worker lists.
2. `loglines` (`clients/logs/eks_s3_logs_client.go:344`): `logsToMessageString`
   counts a line before it reads it, so that a call that finds the end of the
   file answers a position one past it.  A client that sends this position back
   skips the first line logged after it.

Observed while modelling, in the models where they concern them:

* A status worker that listed a run as `NEEDS_RETRY` saves the row as it was
  listed once it finds the pod of the job the retry has started
  (`worker/status_worker.go:196`); `NEEDS_RETRY` wins over any status
  (`state/models.go:639`), so that the retry worker queues the run again.  Once
  the first of these jobs is cleaned up, the run is executed again: `MCFlotilla`
  reaches this without faults, with one report and three messages.  No property
  says how often a run is retried.
* A transient error of `GetRun` acknowledges a queued run's message
  (`worker/submit_worker.go:77`; `submit_worker_test.go:100-104` says when to
  acknowledge).  `LoadOther` takes that step where "db" faults are admitted.
* The life cycle of `state/models.go:625-629` goes through `PENDING`;
  `eks_engine.go:172` goes from `QUEUED` to `RUNNING`.
* A submit worker that loaded a run as `QUEUED` and was overtaken by a report of
  `NEEDS_RETRY` may write `QUEUED` over it after a termination took the job; the
  retry is then lost.
* The submit worker executes a run of a template by the EKS engine, whatever its
  engine (`worker/submit_worker.go:145`); no template exists (below).
* The limit of pod events is read when `emr.max_attempt_count` is set, from
  `emr.max_pod_events` (`worker/events_worker.go:54`): with the first alone it is
  0, and the first pod event of a Spark job cancels it.
* An event of a Spark run that is not about a pod is never acknowledged
  (`worker/events_worker.go:165`).
* A cloudtrail worker that loaded a Spark run before its job was known takes the
  job's id from the row again (section 5).
* The loop that reads an EMR log ends at the end of the file only; it turns for
  ever on any other error (`clients/logs/eks_s3_logs_client.go:152`).
* Two status processes that both saw no key can both work on a run: the `Del` of
  one removes the key of the other (`worker/status_worker.go:121`).  Core runs
  with two pollers and "slow" include it.
* A worker type whose row appears while the manager runs gets a worker that is
  not tracked, and another each round (`worker/worker_manager.go:167`).
* With `create_database_schema`, each start inserts the worker rows once more
  (`state/pg_state_manager.go:1015`); after an edit and a restart, two rows of a
  type may disagree and the manager adds and removes workers for ever.
* `UpdateWorker` scans three columns into two destinations and returns without
  `Rollback` (`state/pg_state_manager.go:1098`): the row stays locked, and the
  next update of that type waits.  `Definitions`' failed `UPDATE` (line 372)
  leaks its connection in the same way.
* Of two overlapping updates of a definition, the later undoes the columns of
  the earlier it does not name (`services/definition.go:108`).
* An update with `"tags": []` of a definition deleted after the update read it is
  answered with success.  The list replaces the blank tag
  (`state/models.go:374`), the `UPDATE` matches no row
  (`state/pg_state_manager.go:362`), the loop over the tags inserts nothing
  (lines 385-395) and so no reference fails.
* A pod event whose pod cannot be found, or has no label with the id of its job,
  is deleted though its run exists (`worker/events_worker.go:164-190`, `:227`),
  so that a job over the limit may go on after a crash (section 5).
* Queries return one blank tag and no ports for a definition
  (`state/pg_queries.go:18`), and every update writes them back.
* `CreateTemplate` lists 13 columns and 15 values (`state/pg_state_manager.go:1460`),
  so that no template is ever saved.

## 7. Running

In this directory, `tlc -workers 2 -config MCFlotilla_contract.cfg MCFlotilla`
and so on for each run of `PROJECT.json`; the longest takes about two minutes.
`tlapm FlotillaProofs.tla` and so on for each `*Proofs.tla`.

Each property has a mutant in `PROJECT.json`: a plausible bug, written in the
module as an operator beside the definition it would replace ("A bug: ..."),
under which TLC finds the property violated.

## 8. Not modelled, and why

* Of the cloudtrail worker, the records and how they are read from S3: no step
  of another component depends on them, and the code deletes a notification as
  it receives it, so that it promises nothing of them.
* Templates: none can be saved (see above).
* Metrics, HTTP, cluster clients, configuration, mocks, UI: input and output
  without state of the runs.  The CloudWatch log client is never built
  (`clients/logs/logs.go`); `LogsText` copies a file.
* Pod metrics, the text of pod events and those of EKS runs, node affinity,
  environment, commands, ports, pod templates: data no step of the modelled
  workers depends on.
* Reads of the API, decoding and encoding.

## 9. Plan

In order of weight:

1. An abstract lock that `StatusLock` implements for a lone process, and an
   abstract "terminate this set" that `TerminateChannel` implements, each with
   its step-by-step proof.
2. `NoisyJobsAreCancelled` with crashes at a limit of one event, unless one
   is lost: a worker about to delete a pod event has saved it and dealt with the
   job, and until then the event is in the queue or in hand.
3. `Queues`: `getOrCreateQueue` and the cache of `QurlFor` by several processes.
