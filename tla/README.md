# A TLA+ development of the AI video generation service

The repository is a NestJS back end: an HTTP API that creates videos, a BullMQ
queue of generation jobs, processes that work them off, PostgreSQL for rows,
Redis for jobs and for a status cache, S3 for files, and two WebSocket
gateways. These modules model the part of it in which several processes,
requests or connections share state, check it with TLC on small instances, and
prove its main invariants with TLAPS for every value of the constants. `PROJECT.json` names, for each
definition, the source lines it stands for.

    tlc -workers 2 -config Failures.cfg MCVideoPipeline    # one run
    tlapm VideoPipelineProofs.tla                          # one set of proofs

## Inventory

| Component | State it keeps | Operations | Talks to | What makes it correct |
|---|---|---|---|---|
| `VideosService` (`modules/videos`) | rows of `videos` | createAndQueue, findAll/byId/status/result, update (PATCH), remove | queue (add), storage (presigned URL), `CREATED` event | a row that is PENDING has or will get a job; PATCH and DELETE do not disturb running work |
| `VideoGenerationProcessor` (`modules/queue/processors`) | locals of one handler per process | process: ten awaits and a poll loop, catch block | `VideosService`, `JobStatusService`, `AiService`, `StorageService`, events | a job ends; one attempt does not spoil what another wrote; only the last attempt fails a video |
| BullMQ (library) | jobs, locks, attempt and stall counters in Redis | add, deliver, renew lock, stalled check, retry, fail | processor | external: delivery at least once |
| `JobStatusService` | `videos` rows (guarded writes), Redis status cache | transitionStatus, updateProgress, markFailed, getCachedStatus | PostgreSQL, Redis | the state machine of a status; the cache is no staler than its TTL |
| `DlqService` | `failed_jobs` | onVideoFailed listener, list, find, retryFailedJob | `videos` rows, queue | every permanent failure is recorded once, and retried once |
| `VideoGateway` | Socket.IO rooms, in memory | subscribe, unsubscribe, five event listeners | in-process events | subscribers hear of their video |
| `ChatGateway`, `ChatService` | rooms, `messages` | join with history, leave, send | PostgreSQL | a member misses no message |
| `AuthService`, `UsersService` | `users` | register, login, refresh, update, remove | PostgreSQL, JWT | one account per email; tokens only for accounts that exist |
| `AiService`, `FakeVideoProvider` | a Map of simulated jobs, in memory | submit, checkStatus, enhancePrompt | OpenAI | a submitted job completes once |
| `StorageService` | S3 objects | upload (with retries), presign, delete | S3 | bounded retries; an upload that returns has stored |
| `QueueService`, `QueueController` | none | job status, DLQ endpoints | BullMQ, `DlqService` | reads |
| bootstrap, guards, filters, throttling, health, monitoring, DTOs | none of their own | | | wiring of the framework |

How they interact. `AppModule` imports `QueueModule`, so an API process runs
the processor too; `worker-app.module.ts` runs it without the API. All of them
share one queue and one database. Domain events (`shared/events`) are in-process
EventEmitter2 calls: the DLQ listener runs in the process whose handler failed,
beside the handler; the gateways live in the API process only, so events of a
worker container do not reach them.

Where the difficulty lies:

* *interleaving* of attempts at one video (a job redelivered after its lock was
  lost, a DLQ retry of a video that is at work, two retry requests at once);
* *stale reads*: findById's status is compared several awaits later, `retried`
  is tested four calls before it is set, PATCH saves an entity it read earlier,
  a cache backfill writes what was selected before;
* *partial failure*: each await of createAndQueue, of the handler, of its catch
  block, of the listener and of retryFailedJob can fail on its own;
* *crashes* between any two awaits, with the in-memory listeners lost;
* *ordering* of fire-and-forget Redis commands against PostgreSQL updates;
* *termination*: poll bound, attempt bound, stalled bound.

The hazards, at their lines, and the properties aimed at each are listed in
`PROJECT.json`. The repository has no tests; its documents (`docs/*.md`,
README.md, API descriptions, comments) are where promises are quoted from.

## Modules

    VideoLifecycle            the documented state machine of a status (abstract)
          ^  implemented by (refinement mapping status <- video[v].status)
    VideoPipeline             create, deliver, generate, fail, record, retry, PATCH, DELETE
          |  MCVideoPipeline, VideoPipelineProofs, DeliveryProofs, CarrierProofs
          v  extended by
    VideoFeed                 the pipeline composed with the clients that watch it
             VideoFeedProofs
    Generation                one attempt from submit to the url: provider, poll loop, S3
             GenerationProofs
    StatusCache               the Redis cache of JobStatusService
             MCStatusCache, StatusCacheProofs
    Chat                      a room of the chat gateway and the messages table
             MCChat, ChatProofs
    Library                   accounts, the videos they own, the paged list
             MCLibrary, LibraryProofs

The MC modules only add symmetry sets. `VideoFeed` composes by conjunction: its
steps are steps of `VideoPipeline` with what they do to the clients, or steps of
a client. The other modules have no variable in common with the pipeline. Each
looks at one of its sides from nearby and replaces the rest by an
over-approximation: Generation leaves open which attempts begin and whether the
guarded UPDATE of the row matches, StatusCache leaves open whether a failing
attempt is the last, Library leaves open how a status moves.

### VideoPipeline

| Variable | Stands for |
|---|---|
| `video` | the rows: status, progressPercent, whether video_url and error_message are set, queue_job_id |
| `job` | BullMQ's jobs: state, attempts, attemptsMade, deliveries, stalled counter, the worker whose lock is valid |
| `worker` | the handler of each process: the await it is about to make, the Job object it was handed, its locals |
| `listener` | invocations of `onVideoFailed` in flight |
| `dlq` | `failed_jobs`; the failed job itself is kept beside the `queueJobId` column, because the column holds whatever the row said when the listener ran |
| `request` | HTTP requests in flight (each is served once and adds at most one job, so it also names that job) |
| `bucket` | videos whose output was uploaded |
| `crashes`, `lost` | a bound, and a history of how a video may have lost its last job |

An action goes from one access to shared state to the next. Between two awaits
a Node process is not interrupted, so this is the grain at which processes
interleave. Awaits that no other actor can observe (sleep, the AI provider, the
progress field of the job) are joined to the next access; if one of them fails,
the action fails (`Fault`).

| Code | Actions |
|---|---|
| `createAndQueue` | `CreateSave`, `CreateAdd`, `CreateLink` |
| delivery by BullMQ | `Fetch`, `JobCompleted`, `JobFailed`, `LoseLock`, `StalledCheck`, `Crash` |
| `handleVideoGeneration`, try block | `FindById`, `StartAttempt`, `EnhancePrompt`, `GenerateVideo`, `Poll`, `Store`, `Complete`, `ReportCompleted`; `Fault` |
| its catch block | `MarkFailed`, `EmitFailed`, `Rethrow`; `MarkFailedFault` |
| `onVideoFailed` | `ListenerRead`, `ListenerSave`; `ListenerFault` |
| `retryFailedJob` | `RetryRead`, `RetryReset`, `RetryAdd`, `RetryLink`, `RetryMark`; `Abort` |
| `update` (findById, then TypeORM's save: select, compare, write) | `PatchRead`, `PatchSelect`, `PatchUpdate` or `PatchInsert` |
| `remove` | `Remove` |
| `GET /queue/jobs/:jobId`, `GET /queue/failed-jobs` | no action: the operators `getJobStatus` and `listFailedJobs` give the answer in a state, and properties are stated of the answers |

What the environment may do is the constant `Env`; a run names the faults under
which it asks its question, and the theorems hold for every `Env` unless they
say otherwise.

Two facts about the code that the model depends on and that are easy to miss:

* `VideosModule` registers the queue again, without `defaultJobOptions`, and
  `createAndQueue` uses that registration: its jobs have one attempt
  (`CreateAttempts`), only those of a DLQ retry have three;
* `PROCESSING -> PROCESSING` is in `VALID_TRANSITIONS` so that a retried attempt
  may start; the optimistic guard therefore does not keep a redelivered job from
  starting beside the first attempt.

### VideoLifecycle

The state machine that docs/6 and README.md draw, with the reset of a DLQ retry
and deletion. `VideoPipeline!ImplementsLifecycle` states that the pipeline
implements it under the mapping of a row to its status.

### VideoFeed

`client[c]` is a Socket.IO connection and what the client behind it knows: the
process it is connected to, the video it subscribed to, the progress last
pushed, whether it asked for the status since it subscribed, and the ends
(COMPLETED, FAILED) it has heard of. `writer[v]` is a history: the process that
last changed the status of a row. EventEmitter2 is synchronous and stays within
the process, so a step of the handler and the pushes of the events it emits on
its way are one action (`HandleAndEmit`). `ApiProcesses` are the workers that
run `AppModule`: only these have `GatewayModule`, so what a process of
`WorkerAppModule` emits reaches nobody. A process dies with its sockets
(`CrashAndDisconnect`).

docs/10차 says that all clients subscribed to a videoId receive its events. In a
deployment with worker containers they do not; `MissedOnlyElsewhere` states what
is left of the promise.

### Generation

An attempt from the start transition to the completed row, in ticks:
`AiService.enhancePrompt` (which cannot fail), `FakeVideoProvider`'s map of jobs
with their age, the sleep, poll and count of the loop, `downloadToBuffer`,
`withRetry` around the PUT, the url that goes into the row and the key that
`getVideoResult` cuts out of it. A url is its host and the list of its path
segments, because the length of the path is what `extractS3Key` depends on.
`StoredAnswers` are the values a provider may give `alreadyStored`; the fake one
always says true.

### StatusCache

One video (each has a key of its own). The row's status, the entry and its
remaining life in ticks, and for every process a FIFO of Redis commands:
ioredis sends in order, nobody waits for a SET, markFailed waits for its DEL.
`Readers` are calls of `getCachedStatus` (no endpoint calls it yet): GET, on a
miss SELECT, then SET. A DLQ reset and a deletion write the row and leave the
cache alone. Of a snapshot only the status is kept; both ways through the catch
block are taken. `since[s]` is a history: how many ticks ago the row last had
status s. `trouble` is another: Calm, Missed (a write of the row missed the
cache) or Disorder (attempts overlapped, a row was deleted under an attempt, a
stale record was retried, a command took a tick). An attempt may fail once its
row is COMPLETED and cached as such, because its job could not be told
(`Report`, `MayThrow`), and an attempt delivered after a deletion finds no row
and goes straight to the catch block. One run can so ask for
`CacheSettles` in the calm states, for `StaleAtMostTTL` short of disorder and
for `CacheNeverInvents` always.

### Chat

One room. The members are sockets of one process (there is no adapter), the
messages are rows. `handleJoinRoom` enters the room, then selects the history,
then sends it; `handleSendMessage` begins a transaction (whose start is
`createdAt`), commits, then broadcasts. All these are separate actions, so a row
may become visible later than one with a younger `createdAt`, and a message may
reach a member before its history does, with it, or both. A COMMIT may succeed
and its answer get lost.

### Library

The `users` table with `register` (look up the email, hash the password, insert;
the answer is remembered) and PATCH /users/me; the rows of `videos` with `POST` split into authentication,
start of the transaction and insert; deletion of videos and of accounts with its
cascade; and a client that walks the pages of `GET /videos` while rows come, go
and change status. Items and total of a page are two queries, hence two actions.
`stayed`, `came` and `left` are the history of the walk: the rows that matched
all the time, and how many entered or left the list.

## Runs

| Run | Instance | Checks | Shows |
|---|---|---|---|
| failures | calls fail, requests die, retries overlap, deletions; no provider storage | `TypeOK`, `RowConsistent`, `CompletedHasFile`, `RetriedHasJob`, `QueueJobIdSound`, `StuckOnlyIfLost`, `DeletedStaysDeleted` | what rows, DLQ and queue say of each other stays true |
| interference | workers die or lose the locks of live attempts, up to two times, so that attempts overlap, and PATCH and DELETE race with them | `QueueJobIdSound`, `StuckOnlyIfLost`, `OverlapOnlyAfterStall`, `CompletedEventIsTrue` | what survives a PATCH; that a video is stranded only in the five ways `lost` names; that two attempts generate one video, or COMPLETED is announced of a row that is not, only after BullMQ gave a job of it back as stalled (the event also after a PATCH) |
| crashes | VideoFeed: an API and a worker process, a client, a process dies at any await; fair | `FeedTypeOK`, `RecordsAreExhausted`, `MissedOnlyElsewhere`, `ForwardOnly`, `EveryJobEnds` | records stand for the last attempt of their job, every enqueued job ends, and what a watching client may rely on |
| quiet | deletions only | `FailedIsRecorded`, `RetriedOnce`, `JobTellsOfVideo`, `ImplementsLifecycle` | with healthy processes and one retry at a time the documented promises hold and the pipeline implements the documented life cycle |
| cache | everything StatusCache has | `TypeOK`, `CacheNeverInvents`, `StaleAtMostTTL`, `CacheSettles` | nothing cached was never true; nothing is older than the TTL short of disorder; calm means agreement |
| chat | two clients, three messages, a history of two | `TypeOK`, `NothingMissed`, `NoGhosts` | a member whose history has arrived has every message not displaced from it, and none that is not in the table |
| library | two accounts, three videos, pages of two | `TypeOK`, `RefusedByAWinner`, `VideosHaveOwners`, `MissesAtMostDepartures`, `RepeatsAtMostArrivals` | of several registrations that pass one check, the refused ones lost to one that was let in; the foreign key decides the race of a new video and its leaving owner; what offset pagination costs a client, exactly |
| generation | three attempts in two processes, provider ready at the very last poll; fair | `TypeOK`, `GivesUpOnlyOnSlowProvider`, `OnlyAbandonedJobsStay`, `ResultFindsObject`, `AttemptEnds` | the loop does not give up on a provider that is fast enough, retries of a PUT are bounded, the link given to a client works when an endpoint is configured |

Four runs end in a counterexample: a sentence of the repository and what its
code does disagree.

| Run | The sentence | The code |
|---|---|---|
| single_attempt | "3차 실패 → FAILED + DLQ INSERT": three failures before FAILED (README.md) | the first failure of a created video is final, see `CreateAttempts` |
| concurrent_attempts | "Optimistic lock ensures only one worker wins if two attempts run concurrently" (video-generation.processor.ts) | `PROCESSING -> PROCESSING` passes the guard, so a job redelivered after its lock was lost is generated beside its first delivery |
| double_retry | "Can only be called once per DLQ record" (queue.controller.ts) | two overlapping requests both find `retried` false and both enqueue |
| patch_overwrites | "Update editable video metadata (title only)." (videos.controller.ts) | `save()` writes back every column in which the entity differs from the row by then, status and progress included |

`ResultFindsObject` is checked and proved with a configured endpoint. Without
one (`Endpoint = FALSE` in the cfg) it fails: the bucket is then in the host
name, and the segment that `extractS3Key` strips is `videos/`. It is about urls
that `StorageService` made; with the fake provider, the one wired today, the url
points to a CDN and nothing is uploaded.

Properties checked in a calm environment fail in a rougher one, and the
difference is worth knowing. Changing the constants of the run shows each:

* `OverlapOnlyAfterStall` and `CompletedEventIsTrue` fail with `"overlap"` or
  `"abort"`: two requests make two jobs from one record, or one request does
  whose first call died before it marked the record, and the two jobs race
  without any of them being redelivered. `RetriedOnce`, `JobTellsOfVideo` and
  `ImplementsLifecycle` fail with them too. With `"fault"` both hold
  (their theorems allow it);
* `JobTellsOfVideo` and `ImplementsLifecycle` fail with `"lockLoss"` and
  `MaxCrashes = 1`: the redelivered attempt starts while the first is at work;
* they fail with `"crash"`: the record may be in the DLQ before BullMQ has heard
  that the job failed. If the process dies in between and the record is retried,
  the redelivered job and the job of the retry both find PENDING;
* `ImplementsLifecycle` fails with `"fault"`: `job.updateProgress(100)` may fail
  after the row is COMPLETED, and on the last attempt `markFailed` writes FAILED
  over it, although docs/6 rejects every transition out of COMPLETED;
* `FailedIsRecorded` fails with `"crash"` and `MaxCrashes = 1`: the process dies
  after `markFailed` and before the listener's insert, and the redelivered job
  finds FAILED. It fails with `"fault"`, when the insert itself does, and with
  `"patch"`, when a `save()` writes an old FAILED over the PENDING of a retry;
* `JobTellsOfVideo` and `ImplementsLifecycle` fail with `"patch"`, which may write back any status read earlier;
* `EveryJobEnds` fails with `MaxCrashes = 2`: a job stalled more often than
  maxStalledCount is failed by BullMQ without the handler, and `onFailed` only
  logs, so the row stays PROCESSING;
* `MissedOnlyElsewhere` fails with `"fault"`, for the same reason as
  `ImplementsLifecycle`: the COMPLETED event stands behind the call that fails;
* `StaleAtMostTTL` fails in Disorder: `updateProgress` caches PROCESSING even
  when its UPDATE matched no row, so the polls of an attempt whose video is gone
  keep the entry alive;
* `JobTellsOfVideo` does not say that the video of a failed job is FAILED:
  `createAndQueue` may note the id of its job after a retry has noted its own.

### Bounds

One video in the pipeline: rows, jobs, records and cache keys of different
videos never meet, and the only shared resource, an idle worker, is left to
chance anyway. Two or three requests: one creates, the others retry, PATCH or
overlap. Two workers, which is what it takes to have an attempt beside another;
three requests with two workers also give a retry of a retry and a DLQ of two
pages. `MaxPollAttempts` 1 or 2 (30 in the code) so that the loop's exit, its
turn and its exhaustion all occur. `RetryAttempts` 2 (3 in the code, 3 in
single_attempt): a first attempt that rethrows and a last one that fails.
`MaxStalledCount` 1 is BullMQ's default. `MaxCrashes` counts crashes and lost
locks together; two of them already drive a job past `MaxStalledCount`. It,
`MaxReports`, `MaxRetries` and `MaxMoves` cut off behaviours and nothing else.

VideoFeed: one API process and one worker process, so that the attempt may run
beside the client or elsewhere; one client, since clients do not see each other;
a client watches one video at a time.

Generation: three attempts give two in the process of one that died or failed.
`Delay = MaxPolls * Interval`, so that `elapsed >= delay` first holds at the
last poll. The age of a job stops at `Delay`; nothing looks further. Two videos, so that
a wrong key could name the object of another.

StatusCache: TTL is one tick, so an entry is younger than its life or as old as
it. `Begin` waits for the process's own queue to be empty unless that is noted
in `trouble`. Chat: `Limit` 2 and three messages, so that a history overflows;
the clock may stand still, so that messages tie. Library: three videos on pages
of two, so that there is a second page and a row to shift onto it or off it;
timestamps are distinct (PostgreSQL counts microseconds).

In the proofs none of these is bounded.

Deadlock is checked in cache and chat, where somebody can always move. The
other systems stop: once every request is served and every job ended in the
pipeline, every attempt ended in Generation, every account and video used up in
Library.

### Fairness

`FairSpec` of VideoPipeline, and with it `FeedSpec`, assumes weak fairness of
the handler and the fetch of each worker, each accepted request, the listeners
and the stalled checker: Node's event loop resumes what has settled, BullMQ
keeps delivering and runs its stalled checker on a timer. Nothing is assumed of
new requests, clients, owners or faults. Weak fairness is enough because a
waiting job keeps an idle worker's fetch enabled. `FairSpec` of Generation
assumes weak fairness of the clock and of each handler's next step; a download
that hangs is a step too (`https.get` is given no timeout), so `AttemptEnds` has
to except it.

## Proofs

| Module | Theorem | States | Assumes |
|---|---|---|---|
| VideoPipelineProofs | `TypeCorrect` | `TypeOK` | |
| | `RetriedRecordsHaveJobs` | `RetriedHasJob` | |
| | `DlqHoldsExhaustedJobs` | `RecordsAreExhausted` | |
| | `RowsLinkTheirJobs` | `QueueJobIdSound` | |
| | `RowsAreConsistent` | `RowConsistent` | no PATCH |
| | `CompletedRowsHaveFiles` | `CompletedHasFile` | no PATCH |
| | `DeletedRowsStayDeleted` | `DeletedStaysDeleted` | no PATCH |
| DeliveryProofs | `VideosAreNotStranded` | `StuckOnlyIfLost` | |
| | `RecordsAreRetriedOnce` | `RetriedOnce` | no dying requests, no overlapping retries |
| | `FailuresAreRecorded` | `FailedIsRecorded` | no crashes, failing calls, PATCH |
| CarrierProofs | `AttemptsOverlapAfterStalls` | `OverlapOnlyAfterStall` | no dying requests, no overlapping retries |
| | `CompletedEventsAreTrue` | `CompletedEventIsTrue` | no dying requests, no overlapping retries |
| | `JobStatusIsTrue` | `JobTellsOfVideo` | only deletions and failing calls |
| | `StatusesFollowTheLifecycle` | `ImplementsLifecycle` | deletions only |
| VideoFeedProofs | `FeedIsPipeline` | `FeedSpec => Spec` | |
| | `FeedTypeCorrect` | `FeedTypeOK` | |
| | `ProgressGoesForward` | `ForwardOnly` | |
| | `EndsAreTold` | `MissedOnlyElsewhere` | no PATCH, no failing calls |
| StatusCacheProofs | `CacheTypeCorrect` | `TypeOK` | |
| | `CachedStatusesWereTrue` | `CacheNeverInvents` | |
| | `CachedStatusesAreRecent` | `StaleAtMostTTL` | |
| | `CacheFollowsTheRow` | `CacheSettles` | |
| ChatProofs | `ChatTypeCorrect` | `TypeOK` | |
| | `MembersMissNothing` | `NothingMissed` | |
| | `MembersSeeRowsOnly` | `NoGhosts` | |
| GenerationProofs | `GenerationTypeCorrect` | `TypeOK` | |
| | `GivesUpRightly` | `GivesUpOnlyOnSlowProvider` | |
| | `MapHoldsFailuresOnly` | `OnlyAbandonedJobsStay` | |
| | `ResultIsThere` | `ResultFindsObject` | an endpoint is configured |
| LibraryProofs | `LibraryTypeCorrect` | `TypeOK` | |
| | `RefusalsHaveWinners` | `RefusedByAWinner` | |
| | `VideosKeepTheirOwners` | `VideosHaveOwners` | |
| | `WalksMissAtMostDepartures` | `MissesAtMostDepartures` | |
| | `WalksRepeatAtMostArrivals` | `RepeatsAtMostArrivals` | |

All for every value of the constants under the ASSUMEs of the modules, and every
safety property of a passing run is among them. An assumption on `Env` is a
hypothesis of its theorem, and as weak as TLC allows: on a small instance every
property fails as soon as one element that its theorem excludes is added to
`Env`, as described above. The inductive invariants were checked by TLC on the
instances of the runs before they were proved.

*VideoPipelineProofs.* The first four follow from one inductive invariant,
`Inv`: a conjunction of types, what a job satisfies (its attempt counter stays
below its limit while it can still be delivered), what a handler satisfies (it
holds a job that exists, in an attempt below that limit), what a listener
carries, what a request that has or has not yet enqueued its job implies, and
the properties themselves. `DlqHoldsExhaustedJobs` needs it because a record is
written by a listener long after the handler that decided on finality, perhaps
by an attempt whose job has been redelivered meanwhile: the bound on the
handler's counter is what makes the number in the record the limit of its job.
`QueueJobIdSound` survives PATCH because an entity read earlier carries a job id
that was sound then, and jobs never vanish or change their video. The row
theorems add `RowInv`, which ties an upload to the handler that is about to
complete (`StoredFirst`) and says no PATCH is in flight. Their proof goes
through one lemma, `RowWrites`: every step leaves a row or rewrites it in one of
eight ways.

*DeliveryProofs.* All three extend `Inv`. The lock of a job is held by the
handler of its latest delivery or by nobody (`OwnerInv`); therefore a handler
that gives up a video either still pushes it (it owns the job, or works for the
job's latest attempt) or was superseded by a delivery that does, and a video
that is PENDING or PROCESSING is asked for by a request, queued, or pushed,
unless its name is in `lost` (`DrivenInv`). Without the lock's argument the
invariant is not inductive: a handler that lost its lock also believes that it
pushes. `RetryInv`: an enqueued retry is marked or about to be, and nobody is
at a record from which another request made a job; it needs every request to
reach its `UPDATE retried = true`, hence the assumption. `RecordedInv`: the
news of a failure is with a handler about to emit it, with a listener, or in a
record that can be retried and is not already being so past its reset.
`RecordsAreListed` then shows that `page` and `limit` reach every record.

*CarrierProofs.* At any moment at most one thing carries a video: a request about
to enqueue its job, a waiting job, a handler, a listener, a record open to
retry, or, at rest, the job that completed it (`Carries`); and the carrier says
what the status must be (`Expects`), unless a PATCH wrote the status. A step
leaves the carriers of a video alone, hands it from its one carrier to one
other, or drops it when `markFailed` or a listener fails. Only the stalled
checker makes a second carrier: it gives a job back whose handler may still run,
and from then on the video is `Redelivered`. The invariant is therefore
`Carried(v)` or `Redelivered(v)`, for every video. Lost locks alone do not need
the exception, since a handler that lost its lock remains the one carrier until
the job is given back. Two attempts that overlap would be two carriers, and the
status expected of a handler that reports is COMPLETED; these are the first two
theorems. `EntityInv` (what a PATCH read was a row) is needed because PATCH may
insert a deleted row again, `FreshInv` (a job not added yet was never stalled)
because a video would otherwise be excused before it had a job.

The last two theorems are about systems where nothing is redelivered
(`QuietInv`). A completed job is a carrier so that no later attempt can touch
its video, which gives `JobStatusIsTrue` together with `JobEndInv` (a job fails
in its last attempt only) and `LinkInv` (a row that is not there names no job).
A failing call widens the statuses between two attempts by COMPLETED
(`Unfinished`): the report may fail after the row is written, and the next
attempt then finds a row it cannot start, or `markFailed` overwrites it. The
documented life cycle does not allow that, so `StatusesFollowTheLifecycle`
assumes that calls do not fail. It maps `status` to `video[v].status` for each
video, and goes through the moves of one status that a step can make.

*VideoFeedProofs.* `FeedIsPipeline` is step simulation, and brings `Inv` and
`RowInv` over. `ForwardOnly` needs that what a client was shown is not ahead of
the handler it watches (`PercentInv`): an attempt announces its start, which
sets the client back to zero, before its first poll, and a process runs one
attempt at a time. `EndsAreTold` strengthens the property by `HandlerInv` (a
handler at work has not ended its video, and one about to emit announces the end
that it brought) and `ClientInv` (a client that asked knows the end, or the
handler that brought it is about to tell); `Outcome`, `WorkerMoves` and
`ClientMoves` say once how a step may change a handler and a client, and the
proof goes through these cases instead of all actions.

*StatusCacheProofs.* The first two properties are strengthened in the same way: what is
true of the entry must already be true of every status on its way into it, in a
queue or in a reader past its SELECT; the second adds that an entry of age t has
t ticks less to live, and that short of disorder the row is PROCESSING while an
attempt is at work. `CacheFollowsTheRow` builds on the second: while nothing
has gone wrong only one process has commands that Redis did not execute yet
(`OneSender`), and the last of them evicts the entry or sets it to what the row
holds now (`NewestFits`), so that executing the others cannot do lasting harm.
The case that a test would hardly reach is a retry's reset between the
`markFailed` of an attempt and the execution of its DEL: the invariant has to
say that the last command for a FAILED row is always the DEL.

*ChatProofs.* A message that was broadcast while s was in the room is in `got`;
one saved before the SELECT of s is in its snapshot or displaced from it; there
is no third possibility because the row is there before the broadcast and the
socket is in the room before the SELECT.

*GenerationProofs.* The clock argument: a poll never comes earlier than its
interval after the one before, so the age of a job and the sleep its attempt has
left pay for all polls so far (`Paid`). For `ResultIsThere`: whatever url is on
its way to a row was made by `getPublicUrl` from a key in the bucket (`Sound`),
and under an endpoint `extractS3Key` inverts `getPublicUrl`.

*LibraryProofs.* For the accounts, one invariant: types, `NotYetInserted` (between
its two steps nobody inserts the account of a registration, so an insert
replaces none), `OwnersKnown`, `AccountsRegistered` (an account in the table is
that of a registration that was let in, under the email it asked for, so that
whatever stands in the way of another has a winner behind it), and the two
properties. Winners stay winners when their accounts are removed. For the walk through the pages,
`WalkInv`, a potential argument: the videos never shown that stand where the
client has been (`Passed`) are at most as many as have left the list, and the
videos shown that stand where it has yet to go (`Ahead`), together with the
repetitions so far, at most as many as have entered it. The property alone is
not inductive, because a repetition happens long after the arrival that caused
it. `Departure` and `Arrival` are the heart: when one video leaves, the places
behind it go down by one, so one video at most crosses the client's position,
and the same for one that enters; `createdAt` must be distinct for that
(`TimesApart`), as `ORDER BY createdAt DESC` is no total order otherwise. A
removed account empties the list at once, which only ends the walk. At the end
`PagesSuffice` (what `Math.ceil` gives) puts every place before the client's
position, so all that was not shown is in `Passed`.

Only model-checked, because out of the prover's reach: `EveryJobEnds` and
`AttemptEnds` (liveness under fairness, ENABLED). The properties of the four
runs that expect a violation are false. No module declares a RECURSIVE operator
and no theorem needs induction over data.

## Not modelled, and why

* texts: prompts and their enhancement, messages of errors and progress, titles;
  thumbnails; the attributes of a file and the expiry of its link (clamped twice
  to the same range);
* BullMQ's backoff delays (a waiting job may be delivered arbitrarily late
  anyway) and its removal of old jobs;
* eviction of BullMQ's keys by Redis (`allkeys-lru` in docker-compose.prod.yml):
  deployment, and its effect is that of a request that dies before its enqueue;
* operations nobody calls: `VideosService.updateStatus`,
  `StorageService.deleteObject` and `getPresignedUploadUrl`,
  `VideoGateway.broadcastToVideo`. In particular the object of a deleted video
  stays in the bucket, although the comment on `DELETE /videos/:id` says
  "Delete a video and its stored files.": there is no call to interleave;
* login, refresh and logout: they read a row and sign or forget a token, and
  change no state of the service;
* `VIDEO_EVENTS.CREATED`: it tells neither of progress nor of an end, and the
  properties of the feed are about these;
* which provider is used: `generateVideo` always takes the fake one, whatever is
  configured, and `AI_SIMULATION_DELAY_MS` has no effect, because
  `configuration.ts` has no `ai.simulationDelayMs`. So the delay is always 5 s;
  it is a constant here, and `GivesUpOnlyOnSlowProvider` asks its question of a
  provider for which the last poll decides;
* the content of downloads, and that a redirect counts as one;
* framework configuration, throttling, guards, filters, DTO validation, health
  and metrics: stateless wiring, or counted inside a library.

## Plan

1. Done: the pipeline, its life cycle and the cache; the feed, one attempt from
   nearby, chat, accounts and lists; a theorem for every safety property of a
   passing run.
2. Proofs left: how many attempts overlap at most after a given number of
   redeliveries, and the carriers of a video under overlapping retries.
3. Composition left: StatusCache under VideoPipeline (today it over-approximates
   the attempts), once an endpoint reads `getCachedStatus`.
