# A TLA+ model of the Langfuse worker

Langfuse collects traces, observations and scores from SDKs, keeps them in
ClickHouse, and runs evaluations, exports, automations and deletions over them.
The web application (Next.js) accepts requests and enqueues jobs; the worker
process consumes the jobs through BullMQ queues on Redis, writes to ClickHouse
and Postgres, and runs a set of periodic runners. Several copies of both
processes run at once, any of them may stop between two awaits, and few of them
hold a lock while they talk to another system. This directory models the parts
of that machinery whose correctness depends on the order of those steps.

| Part | Modules | Runs | Proofs |
|---|---|---|---|
| ClickHouse writer | `ClickhouseWriter`, `WriterContract` | `writer`, `writer_shutdown` | `ClickhouseWriterProofs` |
| Ingestion of an entity | `IngestionPipeline` | `pipeline`, `pipeline_listing`, `pipeline_retry_after_seen`, `pipeline_crash` | `IngestionPipelineProofs` |
| Background migrations | `BackgroundMigrations` | `bgm` | `BackgroundMigrationsProofs` |
| In-app agent runs | `InAppAgentRuns` | `agent_runs`, `agent_faults` | `InAppAgentRunsProofs` |
| Audit-log relay | `AuditLogRelay` | `audit_relay` | `AuditLogRelayProofs` |
| Trace batching | `TraceBatching` | `trace_batches` | `TraceBatchingProofs` |
| Prompt cache | `PromptCache` | `prompt_cache` | `PromptCacheProofs` |

Each `MC*.tla` extends its module with the small values the `.cfg` files need.
`tlc -config X.cfg MC<Module>.tla` checks a run, `tlapm <Module>Proofs.tla` the
proofs; `NumberSetsProofs` has the lemmas on sets of numbers that two of them share.
Every invariant and action property of a passing run is also a theorem, two of them
(`Converged`, `OneAtATime`) under conditions that the sections below explain; liveness is
checked only.
`PROJECT.json` lists the runs, the code lines behind every definition, the hazards and,
for each property, a mutated definition that violates it.

## Inventory

What each component keeps, does, talks to, what makes it hard, and what would
make it correct.

| Component | State | Operations | Interacts with | Hard part | Correct when |
|---|---|---|---|---|---|
| **ClickHouse writer** `worker/src/services/ClickhouseWriter` | per-table in-memory queue, flushes in the air, interval timer | addToQueue, interval tick, flush with four error classes, shutdown | ingestion jobs (push), ClickHouse (insert), process shutdown | direct and interval flushes of one table overlap; client timeouts after the insert was applied; splitting a batch in mid-retry; one final flush | every accepted row is stored, or dropped after its last attempt, and never in two flushes at once |
| **Ingestion API** `packages/shared/src/server/ingestion/processEventBatch.ts` | none of its own | validate, sort, group by entity, upload to S3, enqueue with a delay | S3, Redis queue | part of the uploads fails after the rest was stored; duplicate requests | an accepted event has its file before its job |
| **Ingestion worker** `worker/src/queues/ingestionQueue.ts` | Redis seen-event cache, primary and secondary queue | skip if seen, list and download the entity's files, mark seen, merge, write | S3, Redis, IngestionService, writer | two jobs of one entity at once; retry after a failure that came after the mark; crash after completion | the last state of an entity covers all its accepted events |
| **Ingestion merge** `worker/src/services/IngestionService` | none (pure) plus one ClickHouse read | sort by time, overwrite field by field, tags and metadata | ClickHouse reads | same timestamps, creates and updates mixed, immutable fields | the merge is a function of the set of events, not of how they were cut into jobs |
| **OTel ingestion** `worker/src/queues/otelIngestionQueue.ts` | as above, one file per job | convert spans, write events directly | writer, merge | as above | as above |
| **Redis lock, periodic runners** `worker/src/utils/RedisLock.ts`, `PeriodicRunner.ts`, `PeriodicExclusiveRunner.ts` | lock key with a token and expiry | acquire, extend, release by token, tick | Redis | a holder that outlives its lease; release of somebody else's lock | at most one holder within a lease; a late holder cannot release a new one |
| **Background migrations** `worker/src/backgroundMigrations` | Postgres row per migration (workerId, lockedAt, finishedAt, failedAt), in-process activeMigration | pick, heartbeat, run, finish, fail, abort on close | Postgres, the migration | several workers, a stale lock taken over, shutdown during a run | each migration is finished only when its work is done, by its owner |
| **Audit-log relay** `worker/src/features/audit-log-relay` | Postgres outbox, lease | claim rows, insert into ClickHouse, delete, back off, hand over | Postgres, ClickHouse, Redis lock | commit lost after the insert; lease lost in mid-batch; poison rows | no outbox row is deleted before it is in ClickHouse; every row arrives |
| **Trace batching** `worker/src/features/traceBatching` | Redis due/state/history maps per shard | track, snapshot, hydrate, acknowledge by revision, expire | ingestion, TraceBatchQueue | a trace updated while its batch is dispatched | an update after dispatch makes the trace due again |
| **Prompt cache** `packages/shared/src/server/services/PromptService` | Redis epoch and cached prompts | get through cache, invalidate by new epoch, update in Postgres | Postgres, Redis | a read in flight while the prompt is changed | after an invalidation no older prompt is served |
| **Webhook automations** `worker/src/queues/webhooks.ts` | execution rows, failure streak in Redis | deliver, record, disable after repeated failure | HTTP, Redis, Postgres | redelivery by the queue, concurrent failures | disabled only after consecutive failures |
| **In-app agent runs** `packages/shared/src/in-app-agent`, `worker/src/features/in-app-agent*` | run rows with status and heartbeat | start, heartbeat, approve, cancel, finish, reconcile stale | Postgres, Redis, LLM | worker lost in mid-run; a reconciler racing the worker | one unsettled run per conversation; terminal states stay |
| **Event propagation** `worker/src/features/eventPropagation` | Redis cursor of the last partition | propagate a partition, advance the cursor, heartbeat | ClickHouse, Redis | crash between the copy and the cursor | no partition is skipped |
| **Monitors** `packages/shared/src/features/monitors`, `worker/src/features/monitor-runner` | monitor rows with next run time | schedule a shard, publish, process | Postgres, queue | tick overlapping a tick of another worker | each due monitor is published |
| **Evaluations** `worker/src/features/evaluation` | job executions | create jobs, deduplicate, execute, retry, block | Postgres, queue, LLM | two events creating the same execution | one execution per (config, target) |
| **Batch exports and actions** `worker/src/features/batchExport`, `batchAction`, `trace-delete-batch-action-runner` | status rows and progress counters | claim, stream, resume, complete, cancel | S3, ClickHouse | resume after a crash | progress never goes backwards; a cancelled one stays cancelled |
| **Blob-storage export** `worker/src/features/blobstorage` | last sync time per project | schedule, export a window, advance | S3, ClickHouse | a window exported twice or never | windows are contiguous |
| **Topics** `worker/src/features/topics` | executions, embeddings, rules | run, resume, pause a project | ClickHouse, Postgres, LLM | provider outage in mid-run | a paused project stays paused until reset |
| **Cleaners and retention** `worker/src/features/*cleaner*`, `ee/dataRetention` | pending-deletion rows | pick work, delete in ClickHouse/S3, mark | ClickHouse, S3, Postgres | crash between delete and mark | what is marked deleted is gone |
| **DLQ retry** `worker/src/services/dlq` | BullMQ failed sets | retry every failed job | Redis | retry storms | a failed delete is tried again |
| **Usage metering, thresholds, spend alerts** `worker/src/ee` | cron rows, thresholds | meter an hour, send, advance | Stripe, Postgres | crash between send and advance | an hour is metered |
| **AI gateway** `ai-gateway` (Rust) | resolution cache, telemetry buffers | resolve, proxy, capture | web API, providers | bounded buffers, cancellation | a full buffer never blocks a request |
| **Web API, UI, native encoder, query builder** | Postgres rows | CRUD, rendering, encoding | | mostly request-scoped | |

## Conventions

- **Atomicity.** Node.js runs one callback at a time: what the code does between
  two awaits is one action. Redis scripts and Postgres statements are atomic, a
  Postgres transaction is one action when nothing outside it is awaited in it.
- **Histories.** Some variables record what happened (`accepted`, `dropped`,
  `merged`, `done`, ...) and no guard reads them, except that a row or a file
  is handed in only once.
- **Mutants.** A definition such as `StringLengthFailureForgetting`, introduced
  by a comment "Mutant: ...", is the code with a plausible bug in it. No `Next`
  mentions it; it documents which slip each property catches.
- **Bounds.** Everything unbounded is bounded by a constant whose comment says
  so, and every bound is counted in a guard.

## The ClickHouse writer

`ClickhouseWriter` is the writer of one process. `queue` is the per-table array,
`flights` holds the flushes between their `splice` and their last await (the
code's `activeFlushes`), `phase` the progress of `shutdown()`.

| Code | Model |
|---|---|
| `addToQueue`, with the direct flush of a full batch | `AddToQueue` |
| the interval and `isIntervalFlushInProgress` | `IntervalFlush`, `IntervalBusy` |
| `flushAll(full)` | `FlushAll`, `Flight`, `TakeCount` |
| one try of `writeToClickhouse` and the `retry` callback of `backOff` | `Resolve`: `InsertSucceeds`, `TransientFailure`, `StringLengthFailure`, `SizeFailure`, `FatalFailure` |
| the number of tries of a flush | `TryAgain` |
| the catch block of `flush` | `GiveUp`, `RetryOrders` |
| `shutdown()` | `Shutdown`, `FinalFlush`, `ShutdownComplete` |

An insert that timed out may have been applied in part: `TransientFailure`
chooses any subset. Rows are model values, since which row is too long is
ClickHouse's and V8's business: every flush may meet every error. The items that the
catch block keeps go to the back of the queue in the order they had (`RetryOrders`).

**`writer`** (two tables, three rows, batches of two, two attempts) shows that a row is
never in the writer's hands twice (`HeldOnce`), never vanishes (`NoRowLost`), is dropped
only after `MaxAttempts` failed flushes carried it (`DroppedOnlyExhausted`: being split
off is not charged), reaches ClickHouse twice only through an insert whose failure was a
lie (`RepeatedOnlyDoubtful`), and that `shutdown()` forgets no row it never tried
(`ClosedLeavesOnlyRequeued`). Two rows of one table fill a batch, so that direct and
interval flushes of it overlap and a split leaves something behind; the third row is in
the other table, so that `flushAll` starts two flights. Two attempts give a first, a
retried and a last one. Longer queues are what the theorems below are for.

The run also checks the refinement `ImplementsContract` and, under `FairSpec`, that accepted
rows leave memory (`AcceptedRowsSettle`). Fairness: the interval timer fires, each
insert returns or times out (the client has a request timeout), a shutdown that
has begun goes on. It says nothing of ClickHouse's answer, so both hold even if
every insert fails.

`WriterContract` is the abstract specification: the fate of a row goes from
unborn to buffered and from there, once, to stored, dropped, or abandoned at the
end of the process. The refinement mapping `Fate` derives it from `queue`,
`flights` and the histories.

**`writer_shutdown`** is a violation: after the one final flush, rows that flush put
back (a failed insert with attempts left, or the second half of a split) are in
memory and lost, against `worker/src/utils/shutdown.ts:119`.

### What is proved of it

`ClickhouseWriterProofs`, for all tables, rows, batch sizes and attempts:

- `Typing`: `TypeOK` is inductive. The hard conjuncts are the attempts of a
  requeued item (`1..MaxAttempts`) and the tries of a flight.
- `NoRowLostHolds`: with `TypeOK`, every step keeps the rows in custody
  (`RowsKept`: what is held, stored or dropped stays so). The lemmas
  `SpliceKeepsRows`, `RowsOfConcat` and `RetriedRows` say that the list
  operations of the code lose no row, `GiveUpKeepsRows` and `TryAgainKeepsRows`
  follow one failed try to its end, `FlushAllKeepsRows` the splices of all tables.
- `Invariant`: what the next five rest on. A row has one place, once: a queue, a flight,
  or the dropped (`OnePlace`); the attempts of an item are the failures of its row plus
  one (`Charges`); what is held was accepted (`OnlyAccepted`); a row that is held though
  stored was reported as failed (`HeldThoughStored`); after the final splice only what a
  flush put back is queued (`LastFlush`). The tries of a flight and the attempts of an
  item are two counters; that only the second is charged to a row, and that a split
  charges neither half, is what keeps `Charges` true.
- `HeldOnceHolds`, `DroppedOnlyExhaustedHolds`, `RepeatedOnlyDoubtfulHolds`,
  `ClosedLeavesOnlyRequeuedHolds`: the four other invariants of `writer`. Each
  outcome of a try is one step of rows between places (`Exchange`, `Spliced`, `Moved`),
  so the invariants are shown for these steps and each action is shown to be one.
- `Implements`: the writer implements `WriterContract`. Its initial states map to
  initial states; `AddToQueue` maps to a step that buffers a row; an outcome of a try
  maps to the step that stores or drops its rows, or to a stutter; the last step of the
  shutdown to the one that abandons what is left. That the rows that leave were all still in the
  writer's hands, and that no other row's fate changes, comes from the invariant.

The assumptions are `BatchSizeAssumption` and `MaxAttemptsAssumption` (both at
least one, as the environment schema demands).

## Ingestion of an entity

`IngestionPipeline` follows the event files of **one** entity. A file is a number,
the timestamp of its events. A merged row records which files it covers, which file won
the fields that all of them set, and its start, the part of its sort key that may differ.
`Upload`, `Enqueue` and their failures are `processEventBatch`; each slot of job concurrency
then takes a job through `SkipSeen` or `PickUp`, `Redirect` (S3 slowdown, to the secondary
queue), `List`, `MarkSeen`, `ReadBase`, `MergeAndWrite` and `Complete`, which are the awaits
of `ingestionQueueProcessorBuilder` and of the merge in `IngestionService`. `Fail`
throws at any of them, with the retry budgets of the two lanes. `Crash` is a
process that dies: its buffered rows are gone and its active jobs stall, once
more or for good. `Flush` is the writer, reduced to what matters here: a buffered
row reaches ClickHouse at some later moment and the row with the largest `event_ts` is
shown.

`ReadBase` asks ClickHouse with filters that the job makes from its own events (`Matches`):
the observation type of its first event, and a start not before the earliest one its
events carry. So it may miss the row on display: a job whose event starts later, or whose
first event is of another type, starts from nothing, or from an older row that passes the
filters and was not yet compacted away (`Found`, `Superseded`: rows of one type and day).

Four histories say what a fault or a race did to an event: `lost` (its only rows died in
the writer of a process), `orphaned` (marked as seen by a job that then failed), `unread` (on
display, and left out by some job's read), and `meanwhile` (merged by others while a job
was past its listing; it becomes the `late` of that job's row). The properties are stated
with them, so that each says which end an event may come to, and no other.

**`pipeline`**: two processes whose jobs merge their own files only (the producer's
`skipS3List`), two files, the second of which starts later than the first's row, the seen
cache on, and one fault of any kind (crash, failure anywhere, resent batch, failed request,
Redis error, S3 slowdown).

- `AcceptedIsKept`: an accepted event has a live job, or is in a row that is stored or
  buffered, or its end is on record (failed set, seen check), or a process died with its
  only rows.
- `SkippedIsCovered`: the seen check only ends jobs whose file is merged, about to
  be, or was stopped in between by a failure.
- `SettledStays`: what the entity showed while no job was between its read and its write
  and nothing was buffered is taken off again only if a job's read left it out.

**`pipeline_listing`**: two slots whose jobs overlap and list all files, observations of two
types, and one crash, failure, Redis error or throttling anywhere.

- `Converged`: at rest the row on display has every accepted event but those a fault ended
  (`dead`, `orphaned`, `lost`) and those that others merged while this row's own job was
  under way; without such late ones the latest event wins.
- `AcceptedIsShown`, under `FairSpec` (workers take jobs, awaits return, the writer flushes;
  no assumption on clients, faults or expiry): every accepted event comes to be shown, or
  to one of these ends.

Two files and one fault suffice for a job, another one and a disturbance of either; more of
each is what the theorems are for. Listing is what makes a missed read harmless there: each
job has **all** files in its hands.

**`pipeline_retry_after_seen`** is a violation: the keys are set before the merge
(`ingestionQueue.ts:264`). A job that then fails is retried, finds its own key and
ends; its file is never merged. `docs/whitepaper/ch04` draws the key after the merge.

**`pipeline_crash`** is a violation: a job is completed while its row is only in the writer's
memory (`IngestionService/index.ts:899`). A worker that dies then loses the event, and
there is no job left, although `docs/whitepaper/ch03-ingestion-pipeline.md:47` promises
at-least-once for a worker's death because the job stays in the queue. `AtLeastOnce` is
`AcceptedIsKept` without the exception for `lost`.

### What is proved of it

`IngestionPipelineProofs`, for any files, types, starts, slots, processes, lanes' budgets,
flags, kinds of fault and bounds. The inductive invariant `Pipeline` says what stands behind
each step of a slot (`JobsInv`): a slot at work has a live job of its own, ids are not shared, a
slot that wrote has merged its job's file, and behind a slot that has redirected its job
there is another job of that file in the secondary lane, or the file has gone on. Files
and rows are where they belong (`Placed`, `Stored`), and what was accepted is accounted
for (`Recorded`). `Traced` adds that what was merged is in a row or `lost`.

- `Typing`: `TypeOK`, with the locks of BullMQ (a slot at work has a live job of its own).
- `AcceptedIsKeptHolds`. The step property `Forward` carries it: no step takes the last
  job of a file without merging it or recording its end. A redirection adds a job with
  fresh budgets and completes the first: since the two are in different lanes, the
  completion cannot remove the second.
- `SkippedIsCoveredHolds`: a key in the cache was set by a slot that is on its way to the
  merge, has merged, or was stopped there.
- `SettledStaysHolds`: `SettledStays`, without a condition. Whoever writes after the entity
  was at rest has read the row since, and takes from it what `unread` does not name.
- `NothingUnread`: when that exception is empty. No read leaves anything out if the project
  is not in `ClickhouseReadSkipCache` and the filters pass every row of the entity
  (`FilterPasses`): all events are of one type, and none carries a start after the one a row
  may have. That is so for a trace whose events carry no timestamp of their own, and for an
  observation whose events carry the same start or none. It is not so for an observation
  that is sent again with a later start or another type: `docs/whitepaper/ch04-worker-and-merge.md:53`
  wants the first value of an immutable field kept forever, but such a job does not find
  the row that has it, and if it does not list all files (OTel and the projects of
  `projectIdsToSkipS3List`), its row takes the others' events off the display. Nor for a
  score, whose filter is the time of the event itself, but whose jobs list all files.
- `ConvergedHolds`: `Converged` **if jobs list all files** (`~SkipS3List`), with any overlaps,
  crashes and failures, and whatever reads miss. The files of a job contain all that was
  merged before it listed them, so that they and what is merged `meanwhile` have all that
  was ever merged (`Growing`), and the newest row has it up to its `late` (`Newest`).
  Without the listing two jobs, each with its own file, can write rows that know nothing
  of each other, or the second may miss the first's row: the newer one hides the other.

Assumptions: files are positive numbers (timestamps) with types and starts, days are
positive, each job lane has at least one attempt, slots belong to processes, faults strike
at steps of a job, ids are finitely many.

Left out: validation and authorization, sampling, the mapping of fields, dataset
run items, sessions and follow-up jobs, files expiring from S3, skewed or equal
clocks (`event_ts` grows with every merge).

## Background migrations

`BackgroundMigrations` models the rows of `background_migrations` and, per worker
process, the loop of `BackgroundMigrationManager.run` with its in-process
`activeMigration`. Time is abstract: the lease of a row (`lockedAt`) is fresh or stale
and `Expire` makes it stale; under a live holder's heartbeats that is an event, a stall.

| Code | Model |
|---|---|
| the serializable transaction of `run()` | `Pick`: `Acquire` or `NothingToRun` |
| an await of `run()` that throws, inside its try block or outside | `Throws`: `PickThrows`, `FirstBeatThrows`, `ValidateThrows`, `VerdictThrows` |
| `heartBeat()`, awaited once and then rescheduled | `FirstBeat`, `HeartBeat`, `Renewed` |
| `validate`, `run` | `Validate`, `RunCompletes`, `RunAborts`, `RunThrows` |
| the three updates `WHERE id AND workerId` | `MarkInvalid`, `MarkFinished`, `MarkFailed`, fenced by `Owns` |
| `close()` at SIGTERM and its two awaits | `CloseAbort`, `CloseUnlock`, `CloseClear` |
| an administrator's retry | `Retry` |
| the process ends, starts | `Kill`, `Restart` |

`validate()` reads databases and is awaited outside the try block
(`backgroundMigrationManager.ts:134`), as are the pick, the first heartbeat and the verdict of
an invalid migration. If one of them throws, `run()` ends, and whatever it had set stays:
`activeMigration`, and the chain of heartbeats if one was started, which then keeps the lease
fresh for as long as the process lives. A query that throws may have been applied. A heartbeat
that throws later, in its timer, is an unhandled rejection, on which the process shuts down
(`app.ts`, `installProcessErrorHandlers`): a close and a kill.

**`bgm`**: four migrations of which the first has a closed gate and the third is
invalid, two workers, and one event out of a kill, a close, an operator's retry, a thrown
call, or a stall that lets a live holder's lease lapse. A dead process may restart. Each
property says which events it tolerates:

- `OneAtATime`: no two workers are inside `migration.run`, whatever throws or is killed and
  restarted, if nothing stalls, is closed or retried (`Calm`).
- `NotSettledUnderHolder`: whatever happens, nobody writes a verdict on a row under the
  worker that holds and runs it.
- `FinishedWasDone`: unless a manager was closed, a finished migration was run to its end.
- `AllSettle`, under `FairSpec`, from any state, whatever happened before: once a worker
  starts its loop while no lease is fresh, no other manager renews one without working on
  it (`Clings`), and no `close()` is under way (`TakeOver`), every migration open to all
  workers is finished or failed in the end, unless something happens again. Fairness: awaits
  return, timers fire, an unattended lease becomes stale; nobody has to restart a process
  or retry a row.

`TakeOver` is what the code needs, and its parts are what can go wrong: the loop of a worker
that meets a fresh lease ends for good, so that after a kill only a worker that starts
after the lapse takes over, against `backgroundMigrations/README.md:38` ("another worker
will pick up", which nobody does who is already running); and after a rejection the heartbeats
of the rejected manager keep everybody out until its process ends. So `AllSettle` says that
there is a way back from every kill and every rejection, and which; not that it is taken.

`TypeOK` includes that a worker past its first heartbeat knows its migration, which is
what the check of the local reference is for. Four migrations put a gated, a valid,
an invalid and a later valid one in a row. One event meets every place of the loop of
both workers; combinations of several are what the proof below is for.

### What is proved of it

`BackgroundMigrationsProofs`, for any number of workers and migrations, any gates and any
number of events, thrown calls included.

`VerdictsAreFenced`: `NotSettledUnderHolder` is an invariant. It is not inductive: a
worker enters `migration.run` with a row it picked several awaits before. The invariant
`IInv` adds, for each place of the loop, that the row a worker holds is pending or known
to be invalid, and that what `activeMigration` names is the migration at hand. It says
nothing of the row of a worker in the catch block, which an update that threw may have
settled, nor of a rejected one, which writes no verdict any more. The
argument is in `OthersUndisturbed`: a step of a worker writes verdicts only to rows it
holds and takes rows only for itself, so it disturbs no other worker's part; each action
then needs its own worker's part only. It does not use the bound on events.

`FinishedWasDoneHolds`: until a manager is closed no run is aborted, so a worker that is
about to mark its row finished has seen that migration come to its end (`DoneInv`).

`OneAtATimeHolds`, for workers with the **same gates** (`SameGates`, one configuration of
all processes). While nothing stalls, is closed or retried, a worker that is past
its pick has the lock on the first pending migration it may run, or holds a row that
failed its validation, or, in the catch block, one whose update was applied without an
answer (`CalmInv`, `InHand`). Workers that see the same rows have the same first one,
and one row has one holder. With different gates, as in a rolling deployment of new
ones, each worker passes over what it may not run, and two do run different migrations at
once: `OneAtATime` is false there, and `bgm`, whose first gate is closed for both, is not
about that.

`Typing`: `TypeOK`. Its hard conjunct is that the heartbeat chains one process has started
stay below the number of rows and events: each iteration of its loop starts one, and
is paid for by the row it settles, a retry, the one iteration that a close leaves without
a verdict, or the last one, which finds nothing (`Tally`); a throw ends the loop, or goes to
the catch block with its row either settled or still to settle.

Assumptions: migrations are finitely many positive numbers (so `None` is not one), gates
and invalid migrations are sets of migrations, the bound on events is a number.

## In-app agent runs

`InAppAgentRuns` models the durable runs of **one** conversation: the rows of
`in_app_agent_runs`, the events by sequence number, the BullMQ job of each run, and the
processes that change them.

| Code | Model |
|---|---|
| `withConversationLock` and the transaction that holds it | `tx`: `Begin`, `TransactionDies` |
| `createQueuedRun`, superseding a parked run | `CreateBegin`, `Create`, `CreateCommit` |
| `decideToolApproval` | `DecideBegin`, `Decide`, `DecideCommit` |
| cancelling and deleting a conversation: read, compare-and-set, again if moved | `CancelBegin`, `Cancel`, `CancelCommit` |
| `enqueueInAppAgentRun` and its catch block | `Enqueue`, `AddThrows`, `EnqueueFailed` |
| `claimQueuedRun`, and a job that finds nothing to claim | `Claim`, `ClaimMiss` |
| the key/pointer transaction of `executeInAppAgentRun` | `MintKey` |
| heartbeat with fence, cancel request, deploy | `Heartbeat`, `WorkerShutdown` |
| `appendRunEvents` with and without a finish | `Produce`, `FlushCheck`, `FlushAppend`, `Finish` |
| the ends of the agent's loop, and the outer catch | `Complete`, `Aborted`, `LoopFails`, `LastWriteFails`, `Catch` |
| `cleanupMcpApiKey`, by the worker | `DeleteKey`, `ClearPointer`, `CleanupFails` |
| `reconcileConversationRuns` and `cleanupTerminalRunMcpApiKeys`, by a reader | `ReadStale`, `WriteStale`, `CleanDelete`, `CleanClear` |
| a worker process dies, a job stalls | `WorkerDies`, `JobStalls` |

Creating, deciding, cancelling and appending hold the lock of the conversation row;
claiming, heartbeating, reconciling and `finishClaimedRun` do not and rely on
compare-and-set, so the interesting steps are those of one kind between the read and
the write of the other. Time is the `age` of a row: `HeartbeatAges` makes its heartbeat
too old, `DeadlinePasses` lets the maximum duration of its status pass.

**`agent_runs`** (two runs, one reader, one heartbeat, no fault) has all races between
the worker, a reader and web requests:

- `OneUnsettled`: at most one run is queued, running or parked on an approval.
- `CancelHeeded`: an answered cancellation has settled its run or is in its row, even if
  a worker claimed the run between the read and the write.
- `LostOnlyIfStale`: a run is failed as lost only while its heartbeat is too old, even if
  one arrived between the reader's read and its write.
- `AllRunsSettle`: no run stays unsettled. Fairness: deadlines pass, and somebody
  reads: the integrity runner of the worker goes over all unsettled runs
  periodically. Workers, jobs, users and the agent's tools need not do anything, so a
  worker that dies or hangs is one of the behaviours.

**`agent_faults`** (two runs, no reader, two faults out of crashes, stalled jobs,
transactions that die, refused enqueues and writes):

- `EventsInRunOrder`: the history stays grouped by run, in order: a worker that lost its
  run cannot append behind the input of the next one.
- `AbortTellsOutcome`: a run that continues an approved call and is aborted says so only if
  the call's result is in the history; otherwise the outcome is unknown.
- `KeysAreNamed`: a live MCP key is named by the row of its run until it is deleted.
- `SettledStays`: a settled run keeps its status and error code.

Two runs give the superseded and the superseding one, or the parked one and its
continuation; a third run only repeats the second's relation to the first. One
heartbeat is the one that comes between read and write. Two faults let a cleanup
fail after a crash. Readers and faults are in separate runs because together they
exceed what can be enumerated; the proofs below have both.

### What is proved of it

`InAppAgentRunsProofs`, for any number of runs, readers, beats and faults:

- `OneUnsettledHolds`. Only `Create` and `Decide` make a run unsettled, and each finds no
  other one, or settles it, in the same write under the conversation lock; what a
  transaction read before it is only trusted through compare-and-set, so the invariant
  needs no more of it than its type.
- `SettledStaysHolds`, an action property: every action that moves a run is guarded by an
  unsettled status at the time of its write (`RowStep`, shown for each action).
- `LostOnlyIfStaleHolds`. What a reader has read stays true or the row has moved on: of
  each run in its read set, either the heartbeat is still the one that was read and it is
  still too old, or the compare-and-set will miss it.
- `KeysAreNamedHolds`. A queued run has no worker; a worker before its initialisation
  has no pointer, one that clears the pointer has deleted the key; a reader that clears
  a pointer has deleted the key of a run whose worker is past minting one.
- `EventsInRunOrderHolds`. Runs are created in order, and one that is unsettled is the last
  one (`OrderInv`, from `OneUnsettled`). Who appends holds the lock of the conversation and
  has found its run unsettled under it, so no run can have been created behind it, even
  if a reader, which takes no lock, fails the run in between.
- `CancelHeededHolds`, an action property: between the read of a cancellation and its
  writes a run it read has stayed, settled, or was claimed from the queue (`CancelInv`); the
  second compare-and-set meets the claimed one.
- `AbortTellsOutcomeHolds`: a continued run whose worker was told to stop either still has
  the event of the call's result to flush, or the history has it (`AbortInv`), and a
  code that claims to know the outcome is written only with the history in view.
- `Typing`: `TypeOK`, with the rows' own constraints (`RowFine`): heartbeats and requests to
  cancel are on running rows only, codes on settled ones.

Assumption: the bounds are natural numbers.

## Audit-log relay

`AuditLogRelay` models the tasks that move staged audit events from Postgres to
ClickHouse, and the lease in Redis they compete for.

| Code | Model |
|---|---|
| a web request stages an event in its own transaction | `Stage` |
| the runner's interval; `extend`, `acquire`, `isHeldByCurrentProcess` | `Tick`, `Renew`, `AcquireFree`, `AcquireRefused`, `Check` |
| Redis does not answer the `SET NX`, which it may have applied; the client sends it again | `AcquireSkipped`, `AcquireResent` |
| the TTL of the lease | `Expire` |
| `relayBatch`: claim `FOR UPDATE SKIP LOCKED`, insert, delete or mark as failed, commit | `Claim`, `Insert`, `Commit` |
| a call fails, or its answer is lost; the timeout of the transaction | `ClaimFails`, `InsertFails`, `InsertAnswerLost`, `DeleteFails`, `CommitFails`, `TimesOut` |
| the catch block: back off, and hand the lease over after three failures | `BackOff` |
| the retry delay of a refused row | `FallDue` |
| `stop()`, the end of a process, its replacement | `Stop`, `StoppedMeanwhile`, `End`, `Restart` |

`Break` makes a task of `Frail` unable to insert for good, which is what the handover is
for. `leaked` records that a holder forgot its lease while Redis did not hear of it, or
never knew of it: a `SET NX` that was applied and whose answer was lost counts as
"skipped", or is refused by itself when the client repeats it after a reconnection
(`redis.ts:23`), and `releaseLease` does nothing for a task that does not believe it holds
the lease (`index.ts:188`). Such a lease waits for its TTL.

**`audit_relay`** (two events of which the first cannot be mapped, a healthy and a frail
task, batches of one, one retry, two faults):

- `NoRowLost`: a staged event is in the outbox until ClickHouse has it.
- `RepeatedOnlyRolledBack`: a second copy comes only from a batch that was rolled back
  after its insert; tasks without a lease, or past its end, never send one twice.
- `StoppedLeavesNoLease`: a stopped task, even one in the middle of asking, leaves no
  lease behind unless Redis did not hear of the release, or the task not of the lease.
- `EveryRowArrives`: a mappable event arrives although an unmappable one comes first and
  a broken task takes the lease whenever it can.

Fairness: timers fire, awaited calls return, ended processes are replaced, abandoned
leases expire. Strong fairness of asking while the lease is free: a task that gave the
lease up and one that found it taken ask again after the same half TTL, so none can
miss every gap. Batches of one make the unmappable event block the other, if
anything can; two faults are a lost answer and what follows from it.

### What is proved of it

`AuditLogRelayProofs`, for any events, tasks, batch size and bounds.

`NoRowLostHolds` and `RepeatedOnlyRolledBackHolds`: nothing in the argument is about the
lease. Open transactions hold disjoint rows that are still staged (`Locks`), a
transaction about to delete has sent its mappable rows (`Inserted`), and a staged row
that is in no such transaction has only undone copies. So the lease is an optimisation,
and the row locks are what the relay rests on.

`StoppedLeavesNoLeaseHolds`: whose token is in the lease knows that it holds it, unless the
lease leaked (`LeaseKnown`); a stopped task that holds it has just been answered, and is
about to find that it was stopped and to release it (`TaskOK`). The code gives no more: a
lease taken by a request whose answer was lost is one that `stop()` cannot release. `Typing`: `TypeOK`, with rows
claimed only within a batch and at most as many as `LIMIT` allows.

Assumptions: unmappable events are events, the tokens `free` and `gone` are not tasks,
the batch size is positive.

## Trace batching

`TraceBatching` models one shard of the readiness store: per trace what is due with its
revision and what is known of it (`pending`), and what is remembered for a day (`history`);
and the dispatchers that compete for the shard's lock.

| Code | Model |
|---|---|
| the scripts track, snapshot, hydrate, acknowledge | `Track`, `Snapshot`, `Hydrate`, `Acknowledge` |
| `expirePending`, which the scripts call first | `ExpirePending` |
| idle time, recovery grace, TTL of the history | `IdleTimePasses`, `GracePasses`, `HistoryExpires` |
| `withLock`, extension on progress, expiry | `Begin`, `LeaseLost`, `LockExpires` |
| traces beyond the size limit | `Exclude` |
| filling a job over several windows, the carried remainder | `Enqueue`, `Carry`, `Add`, `Flush`, `NextWindow`, `Finish` |
| shutdown: what was added is acknowledged first | `Stop`, `Stopping` |
| a call fails, a process dies | `ScriptFails`, `AddFails`, `FlushFails`, `Crash` |

**`trace_batches`** (two traces, one updated twice, two dispatchers, jobs of two, a size
limit of one update, one trouble):

- `NoUpdateLost`: an update that came after the dispatcher read its trace is not
  acknowledged with it.
- `WholeTraceKnown`: what is known of a pending trace is of all its updates since it was
  last forgotten, each counted once, whichever were dispatched before.
- `RepeatedOnlyAfterFault`: an update is dispatched twice only after a crash, a lost call
  or a lapse of the lock; an orderly shutdown acknowledges what it added.
- `EveryUpdateSettles`: every update is dispatched, excluded or expired, even one that is
  alone in its last window.

Fairness: the idle time passes, a run of a dispatcher goes on and some dispatcher
begins one, and the lock of a dead process expires. Nothing makes the grace pass or
the history expire. Jobs of two and two traces give a full job, a partial one and a
carried remainder; one trace beyond the limit is the excluded one.

### What is proved of it

`TraceBatchingProofs`, for any traces, dispatchers, sizes and bounds.

`NoUpdateLostHolds`: the revision of a pending trace is its last update, and an absent
trace's last update is settled; a run carries a trace once, with a revision that is at
most the last, and has settled what it is about to acknowledge. So a revision that still
matches is the last one and settled.

`RepeatedOnlyAfterFaultHolds`, by an account per trace (`PaidInv`): the jobs its last update is
in, with those just being added, are at most one more than the faults; and while the update
may come to be added again, because it is pending, or read by the run that has the lock and
not yet added by it, they are no more than the faults. After it was added only a lapse of the
lock, a lost call or a crash makes it so again, and each of them counts.

`WholeTraceKnownHolds` (`KnownInv`): what is remembered of a trace is whole, and what is pending
of it is whole, and each update is counted once, whichever entries are on their way in
dispatchers. An entry that outlived its grace may fall behind, but no dispatcher has it, and it
is expired before anyone reads it again.

`Typing`: `TypeOK`; no run has a trace in two of its lists.

Assumptions: sizes are positive, bounds are numbers, the tokens of the lock are not
dispatchers.

## Prompt cache

`PromptCache` models `PromptService`: a prompt is resolved with the prompts its text uses,
one query after the other, and cached under a key that contains the project's epoch.
A change rotates the epoch after its transaction.

| Code | Model |
|---|---|
| `getPrompt`: read the epoch, or create one and read again | `Ask`, `Create`, `Again`, `NoKey` |
| the cache is hit, or missed | `Hit`, `Miss` |
| the query of the prompt and of each prompt it uses | `Read` |
| the fill under the epoch read at the start, and the answer | `Fill`, `NotFilled`, `Return` |
| a change and the rotation, which may fail | `Change`, `Invalidate`, `InvalidateFails` |
| TTLs of entries and of the epoch | `Expires`, `EpochVanishes` |

**`prompt_cache`** (a prompt that uses another, two readers of it, one writer, two events
out of changes, failed invalidations and vanished epochs; a reader's own calls may fail
at any time):

- `FreshRead`: a read that begins after an invalidation returned answers with nothing
  older than that change, in the prompt or in any prompt it uses; what an older read
  still stores is never found.
- `CacheCatchesUp`: even after an invalidation that failed, what is found in the cache
  becomes what is in the database. Fairness: calls return and entries have a TTL.

`Invalidate` sets each new epoch once. The Redis client repeats a `SET` whose answer was lost
with its connection (`redis.ts:23`); one that arrives behind another writer's would bring
an old epoch back, with entries older than that writer's change, for as long as they live.
The model leaves this out, and `FreshRead` is about the other cases.

Two readers are one that stores late and one that looks; two events are two changes,
or a change and its failed invalidation.

### What is proved of it

`PromptCacheProofs`, for any prompts and dependencies, readers and writers: `Typing`
(`TypeOK`: tokens are never reused and a key has one entry) and `FreshReadHolds`.
What a read finds was stored by another, maybe long ago, so the invariant speaks of
each token: what is or may be stored under it is at least what each of its holders
has to see, and under the epoch at least what was announced. Assumptions: there is a
prompt, and what prompts use are prompts.

## Without a run of its own

What the models reach, or nearly, and no run is about:

- Two jobs of one entity overlap without any fault: the merge that read less can carry
  the newer `event_ts` and hide the other's event (`IngestionService/index.ts:1357`;
  `docs/whitepaper/ch04`, lines 10-17). `Converged` excepts what was merged meanwhile, which
  the fields of the row on display then lack until a later event of the entity.
- Jobs that merge their own file only, and read nothing (`ClickhouseReadSkipCache`,
  `IngestionService/index.ts:1917`) or miss the row by their filters: each takes the
  others' events off the row. `SettledStays` excepts what a read left out.
- `close()` clears `activeMigration` only after two awaits; `run()` may come back from the
  aborted migration, see it active and mark it finished, against the comment at
  `backgroundMigrationManager.ts:156`. `FinishedWasDone` excludes closes.
- A retried earlier row is unlocked, so a starting worker runs it beside the holder of a
  later one (`backgroundMigrationManager.ts:81`); `backgroundMigrations/README.md`, line
  22, says one at a time. `OneAtATime` excludes retries.
- Who takes over from a killed holder or a rejected manager is the operator's business: the
  loop of a worker that meets a fresh lease ends for good, and a rejected manager keeps its
  lease fresh (`backgroundMigrationManager.ts:89` and `134`, README line 38). `AllSettle`
  begins where somebody starts its loop after the lapse.
- After a failed validation `activeMigration` is left over (`MarkInvalid`). If nothing is
  left to pick, `NothingToRun` goes through that migration once more; it is already
  failed, and a second validation that answered otherwise would run it. `Validate` is a
  function of the row, so the model does not reach that; it is why `Held` in the proof
  speaks of what is left over.

## What stays with the model checker

- Liveness under fairness, which is beyond the prover: `AcceptedRowsSettle`, `AcceptedIsShown`,
  `AllSettle`, `AllRunsSettle`, `EveryRowArrives`, `EveryUpdateSettles`, `CacheCatchesUp`. They
  are checked on the small instances only.
- The three violations, `writer_shutdown`, `pipeline_retry_after_seen` and `pipeline_crash`,
  which are behaviours.

Nothing else: the proofs state every other property of the passing runs, and the hypotheses
of the two conditional ones (`~SkipS3List`, `SameGates`) are met by the instances that the
runs check them on. No module declares a recursive operator.

## Plan

Done, in the order of what would be lost if the code were wrong: `ClickhouseWriter` with
`WriterContract`, `IngestionPipeline`, `BackgroundMigrations`, `InAppAgentRuns`, `AuditLogRelay`
(with its lease), `TraceBatching`, `PromptCache`.

The safety properties of all seven are proved.

Modules to come: the cursor of event
propagation, the publication of monitors, the failure streak of automations, an hour of
metering; the merge of fields as operators against a reference definition. Proofs to
come: the safety of those modules.

## What is not modelled

The components of the inventory that have no module are listed in `PROJECT.json`
with the reason: planned (above), mostly data transformation or streaming I/O (OTel
conversion, blob-storage export, topics), a single idempotent loop (cleaners, dead-letter
retry), or a program of its own (the AI gateway). Three hazards of theirs that are
already known (the crash between copy and cursor of event propagation, the publication
of monitors after its transaction, a metering run that dies between two organizations)
are listed too, with a note in place of a property.

Wording, logging, metrics, tracing and the content of rows are abstracted everywhere.
Within the modelled components the following is left out: of the agent, its own loop,
prompts, tools, the sandbox and the capacity check; of trace batching, sampling, the
choice of which traces share a job, and the consumer; of the prompt cache, the substitution
of dependencies in the text and raw prompts, which bypass the cache; of the relay, the
conversion of a payload; of the locks, drain timeouts and telemetry.
