--------------------------- MODULE VideoPipeline ---------------------------
(***************************************************************************)
(* The life of a video: the request that creates it and enqueues its job,  *)
(* BullMQ's delivery of the job, VideoGenerationProcessor working through  *)
(* its awaits, JobStatusService's writes to the videos table, DlqService's *)
(* listener for failures and its retry endpoint, and the PATCH and DELETE  *)
(* endpoints that write the same rows.                                     *)
(*                                                                         *)
(* An action runs from one access to shared state to the next: the code    *)
(* between two awaits runs on Node's event loop without interruption, and  *)
(* awaits nothing else in the model can see (the sleep, the AI provider,   *)
(* the job's own progress field) are joined to the access after them; when *)
(* one of them fails, so does the action.  Rows live in PostgreSQL, jobs   *)
(* in Redis; what a process holds in memory dies with it.                  *)
(*                                                                         *)
(* The Redis status cache that JobStatusService also writes is not here:   *)
(* nothing in the pipeline reads it (module StatusCache models it).        *)
(***************************************************************************)
EXTENDS Integers, Sequences, FiniteSets

CONSTANTS
  Videos,           \* ids of the videos that may be created
  Requests,         \* HTTP requests; each is served once and adds at most
                    \* one job, so a request also names the job it adds
  Workers,          \* processes that run VideoGenerationProcessor
  None,             \* SQL NULL, and "no worker holds the lock"
  MaxPollAttempts,  \* maxPollAttempts of the processor (30 in the code)
  RetryAttempts,    \* attempts of a job added by the DLQ (3 in the code)
  MaxStalledCount,  \* BullMQ's maxStalledCount (default 1)
  MaxCrashes,       \* bound on the number of crashes and lost locks together
  AlreadyStored,    \* does the AI provider store its output itself?
  Env               \* what the environment may do, see EnvBehaviours

(***************************************************************************)
(*  "crash"    a worker process dies and is restarted                      *)
(*  "lockLoss" a live worker fails to renew the lock of its job in time    *)
(*  "fault"    PostgreSQL, Redis or S3 reject a call of a worker process   *)
(*  "abort"    an API request dies half-way (same reasons, or a crash)     *)
(*  "overlap"  two retry requests may be in flight at the same time        *)
(*  "delete"   owners delete videos                                        *)
(*  "patch"    owners PATCH videos                                         *)
(***************************************************************************)
EnvBehaviours ==
  {"crash", "lockLoss", "fault", "abort", "overlap", "delete", "patch"}

ASSUME NoneAssumption   == None \notin Workers \cup Requests \cup Videos
ASSUME PollAssumption   == MaxPollAttempts \in Nat \ {0}
ASSUME RetryAssumption  == RetryAttempts \in Nat \ {0}
ASSUME StallAssumption  == MaxStalledCount \in Nat
ASSUME CrashAssumption  == MaxCrashes \in Nat
ASSUME StoredAssumption == AlreadyStored \in BOOLEAN
ASSUME EnvAssumption    == Env \subseteq EnvBehaviours

VARIABLES
  video,     \* the videos table
  job,       \* the jobs of the queue, by the request that adds them
  worker,    \* what each processor is doing
  listener,  \* invocations of DlqService.onVideoFailed not yet finished
  dlq,       \* the failed_jobs table, oldest first
  request,   \* where each HTTP request stands
  bucket,    \* videos whose output was uploaded to the S3 bucket
  crashes,   \* crashes and lost locks so far (bounded by MaxCrashes)
  lost       \* history: how a video may have lost its last job

vars == <<video, job, worker, listener, dlq, request, bucket, crashes, lost>>

-----------------------------------------------------------------------------
(* The videos table and the state machine of JobStatusService.             *)

\* Rows that exist carry one of the first four; CANCELLED is in the enum but
\* no code ever writes it.  NEW: not inserted yet; DELETED: removed.
RowStatus  == {"PENDING", "PROCESSING", "COMPLETED", "FAILED"}
Status     == RowStatus \cup {"NEW", "DELETED"}
JobIds     == Requests \cup {None}

\* Columns that matter: metadata.progressPercent (absent counts as 0),
\* whether video_url and error_message are set, and queue_job_id.
Row == [status : Status, progress : 0..100, url : BOOLEAN, error : BOOLEAN,
        queueJobId : JobIds]

EmptyRow(s) == [status |-> s, progress |-> 0, url |-> FALSE, error |-> FALSE,
                queueJobId |-> None]

Exists(v) == video[v].status \in RowStatus

\* Mutant: a retried attempt may not re-enter PROCESSING.
ValidWithoutReentry ==
  [s \in Status |->
     CASE s = "PENDING"    -> {"PROCESSING", "FAILED"}
       [] s = "PROCESSING" -> {"COMPLETED", "FAILED"}
       [] OTHER            -> {}]

VALID_TRANSITIONS ==
  [s \in Status |->
     CASE s = "PENDING"    -> {"PROCESSING", "FAILED"}
       [] s = "PROCESSING" -> {"PROCESSING", "COMPLETED", "FAILED"}
       [] OTHER            -> {}]

\* transitionStatus answers true: the table allows the step and the
\* UPDATE ... WHERE id AND status = :expectedStatus finds the row.
Transitions(v, expectedStatus, newStatus) ==
  /\ newStatus \in VALID_TRANSITIONS[expectedStatus]
  /\ video[v].status = expectedStatus

-----------------------------------------------------------------------------
(* BullMQ, as the code uses it.                                            *)

JobState == {"none", "wait", "active", "completed", "failed"}

\* The job's own progress field is left out: only clients read it.
\* attempts: opts.attempts; attemptsMade: failed attempts so far;
\* attemptsStarted: deliveries so far; owner: the worker whose lock is valid.
Job == [state : JobState, video : Videos \cup {None}, attempts : Nat,
        attemptsMade : Nat, attemptsStarted : Nat, stalled : Nat,
        owner : Workers \cup {None}]

NoJob == [state |-> "none", video |-> None, attempts |-> 1, attemptsMade |-> 0,
          attemptsStarted |-> 0, stalled |-> 0, owner |-> None]

\* queue.add: the job waits at once.  A job delayed by backoff waits too:
\* delivery may take arbitrarily long anyway.
NewJob(v, attempts) ==
  [NoJob EXCEPT !.state = "wait", !.video = v, !.attempts = attempts]

\* VideosModule registers the queue without defaultJobOptions, so the jobs of
\* createAndQueue carry no attempts option: job.opts.attempts ?? 1.
CreateAttempts == 1

Live(q) == job[q].state \in {"wait", "active"}

\* What GET /queue/jobs/:jobId tells of a job that was added (404 otherwise):
\* the job's progress, its times and the reason of its failure are left out.
JobStatusDto == [state : JobState \ {"none"}, attemptsMade : Nat, maxAttempts : Nat]

getJobStatus(q) == [state |-> job[q].state, attemptsMade |-> job[q].attemptsMade,
                    maxAttempts |-> job[q].attempts]

-----------------------------------------------------------------------------
(* VideoGenerationProcessor: pc names the await it is about to make.       *)

\* Awaits inside the try block: an error there lands in the catch block.
TryPc    == {"find", "start", "enhance", "submit", "poll", "store",
             "complete", "report"}
WorkerPc == {"idle", "catch", "emit", "resolve", "reject"} \cup TryPc

\* attemptsMade and attemptsStarted are those of the delivered Job object;
\* seen is the status findById returned, polls is pollAttempts.
Worker == [pc : WorkerPc, job : JobIds, attemptsMade : Nat,
           attemptsStarted : Nat, seen : Status, polls : 0..MaxPollAttempts]

Idle == [pc |-> "idle", job |-> None, attemptsMade |-> 0,
         attemptsStarted |-> 0, seen |-> "NEW", polls |-> 0]

Busy(w)     == worker[w].pc # "idle"
JobOf(w)    == job[worker[w].job]
VideoOf(w)  == JobOf(w).video
Owns(w)     == JobOf(w).owner = w
At(w, pc)   == worker[w].pc = pc

\* Go on to the next await; locals no later code reads are forgotten.
Goto(w, pc) ==
  worker' = [worker EXCEPT ![w] = [@ EXCEPT !.pc = pc, !.seen = "NEW",
                                            !.polls = 0]]

\* Mutants: off by one in either direction.
FinalOneEarly(w) == worker[w].attemptsMade >= JobOf(w).attempts - 2
FinalOneLate(w)  == worker[w].attemptsMade > JobOf(w).attempts - 1

isFinalAttempt(w) == worker[w].attemptsMade >= JobOf(w).attempts - 1

\* w won the start transition and has not yet left the try block.
Generating(w) == worker[w].pc \in TryPc \ {"find", "start"}

\* Mutant: the WHERE clause forgets the status.
UpdateProgressUnguarded(v, percent) ==
  video' = IF Exists(v) THEN [video EXCEPT ![v].progress = percent] ELSE video

\* JobStatusService.updateProgress: guarded to PROCESSING rows.
UpdateProgress(v, percent) ==
  video' = IF video[v].status = "PROCESSING"
             THEN [video EXCEPT ![v].progress = percent]
             ELSE video

\* The progress shown after k polls.
PollPercent(k) == 40 + (IF 2 * k < 50 THEN 2 * k ELSE 50)

\* BullMQ hands a waiting job to an idle worker (concurrency 1 per process).
Fetch(w, q) ==
  /\ ~Busy(w)
  /\ job[q].state = "wait"
  /\ job' = [job EXCEPT ![q] =
       [@ EXCEPT !.state = "active", !.owner = w,
                 !.attemptsStarted = job[q].attemptsStarted + 1]]
  /\ worker' = [worker EXCEPT ![w] =
       [Idle EXCEPT !.pc = "find", !.job = q,
                    !.attemptsMade = job[q].attemptsMade,
                    !.attemptsStarted = job[q].attemptsStarted + 1]]
  /\ UNCHANGED <<video, listener, dlq, request, bucket, crashes, lost>>

\* videosService.findById: the status is read here and compared later.
FindById(w) ==
  /\ At(w, "find")
  /\ IF Exists(VideoOf(w))
       THEN worker' = [worker EXCEPT ![w] =
              [@ EXCEPT !.pc = "start", !.seen = video[VideoOf(w)].status]]
       ELSE Goto(w, "catch")
  /\ UNCHANGED <<video, job, listener, dlq, request, bucket, crashes, lost>>

\* transitionStatus(video.status, PROCESSING); a miss returns from the
\* handler, which BullMQ takes for success.
StartAttempt(w) ==
  LET v == VideoOf(w)
      started == Transitions(v, worker[w].seen, "PROCESSING")
  IN  /\ At(w, "start")
      /\ video' = IF started
                    THEN [video EXCEPT ![v] =
                            [@ EXCEPT !.status = "PROCESSING", !.progress = 10]]
                    ELSE video
      /\ Goto(w, IF started THEN "enhance" ELSE "resolve")
      /\ UNCHANGED <<job, listener, dlq, request, bucket, crashes, lost>>

\* Report 10 to the job, emit PROCESSING_STARTED, enhance the prompt, report.
EnhancePrompt(w) ==
  /\ At(w, "enhance")
  /\ UpdateProgress(VideoOf(w), 20)
  /\ Goto(w, "submit")
  /\ UNCHANGED <<job, listener, dlq, request, bucket, crashes, lost>>

\* Submit to the AI provider, which answers 'processing', and report.
GenerateVideo(w) ==
  /\ At(w, "submit")
  /\ UpdateProgress(VideoOf(w), 40)
  /\ Goto(w, "poll")
  /\ UNCHANGED <<job, listener, dlq, request, bucket, crashes, lost>>

\* Mutant: the loop forgets its bound.
PollUnbounded(w) ==
  LET k == worker[w].polls + 1
  IN  /\ At(w, "poll")
      /\ UpdateProgress(VideoOf(w), PollPercent(k))
      /\ \/ Goto(w, IF AlreadyStored THEN "complete" ELSE "store")
         \/ worker' = [worker EXCEPT ![w].polls = k]
      /\ UNCHANGED <<job, listener, dlq, request, bucket, crashes, lost>>

\* Mutant: the provider's url is taken for a stored one.
PollSkipsUpload(w) ==
  /\ At(w, "poll")
  /\ UpdateProgress(VideoOf(w), PollPercent(worker[w].polls + 1))
  /\ Goto(w, "complete") \/ Goto(w, "catch")
  /\ UNCHANGED <<job, listener, dlq, request, bucket, crashes, lost>>

\* One turn of the poll loop: sleep, ask the provider, report the progress,
\* emit PROGRESS_UPDATED.  A url leads out of the loop, 'processing' back to
\* its head while polls remain, anything else to the throw behind it.
Poll(w) ==
  LET k == worker[w].polls + 1
  IN  /\ At(w, "poll")
      /\ UpdateProgress(VideoOf(w), PollPercent(k))
      /\ \/ Goto(w, IF AlreadyStored THEN "complete" ELSE "store")
         \/ /\ k < MaxPollAttempts
            /\ worker' = [worker EXCEPT ![w].polls = k]
         \/ Goto(w, "catch")
      /\ UNCHANGED <<job, listener, dlq, request, bucket, crashes, lost>>

\* storageService.uploadFromUrl to videos/<id>/output.mp4.
Store(w) ==
  /\ At(w, "store")
  /\ bucket' = bucket \cup {VideoOf(w)}
  /\ Goto(w, "complete")
  /\ UNCHANGED <<video, job, listener, dlq, request, crashes, lost>>

\* The row of a finished video.
CompletedRow(row) ==
  [row EXCEPT !.status = "COMPLETED", !.progress = 100, !.url = TRUE]

\* Mutant: the completed row is saved without the optimistic guard.
CompleteUnguarded(w) ==
  LET v == VideoOf(w)
  IN  /\ At(w, "complete")
      /\ video' = [video EXCEPT ![v] = CompletedRow(@)]
      /\ Goto(w, "report")
      /\ UNCHANGED <<job, listener, dlq, request, bucket, crashes, lost>>

\* Mutant: the guard expects a PENDING row.
CompleteExpectsPending(w) ==
  LET v == VideoOf(w)
  IN  /\ At(w, "complete")
      /\ video' = IF Transitions(v, "PENDING", "COMPLETED")
                    THEN [video EXCEPT ![v] = CompletedRow(@)]
                    ELSE video
      /\ Goto(w, "report")
      /\ UNCHANGED <<job, listener, dlq, request, bucket, crashes, lost>>

\* transitionStatus(PROCESSING, COMPLETED); its answer is not looked at.
Complete(w) ==
  LET v == VideoOf(w)
  IN  /\ At(w, "complete")
      /\ video' = IF Transitions(v, "PROCESSING", "COMPLETED")
                    THEN [video EXCEPT ![v] = CompletedRow(@)]
                    ELSE video
      /\ Goto(w, "report")
      /\ UNCHANGED <<job, listener, dlq, request, bucket, crashes, lost>>

\* job.updateProgress(100), then VIDEO_EVENTS.COMPLETED is emitted.
ReportCompleted(w) ==
  /\ At(w, "report")
  /\ Goto(w, "resolve")
  /\ UNCHANGED <<video, job, listener, dlq, request, bucket, crashes, lost>>

\* The row markFailed leaves.
FailedRow(row) ==
  [row EXCEPT !.status = "FAILED", !.progress = 0, !.error = TRUE]

\* Mutant: markFailed through save(), which inserts a missing row.
MarkFailedUpserts(w) ==
  /\ At(w, "catch")
  /\ isFinalAttempt(w)
  /\ video' = [video EXCEPT ![VideoOf(w)] = FailedRow(@)]
  /\ Goto(w, "emit")
  /\ UNCHANGED <<job, listener, dlq, request, bucket, crashes, lost>>

\* Mutant: markFailed guarded to PROCESSING rows.
MarkFailedIfProcessing(w) ==
  LET v == VideoOf(w)
  IN  /\ At(w, "catch")
      /\ isFinalAttempt(w)
      /\ video' = IF video[v].status = "PROCESSING"
                    THEN [video EXCEPT ![v] = FailedRow(@)]
                    ELSE video
      /\ Goto(w, "emit")
      /\ UNCHANGED <<job, listener, dlq, request, bucket, crashes, lost>>

\* The catch block of the last attempt: markFailed writes without a guard
\* (an UPDATE by id, so a deleted row stays deleted), then evicts the cache.
MarkFailed(w) ==
  LET v == VideoOf(w)
  IN  /\ At(w, "catch")
      /\ isFinalAttempt(w)
      /\ video' = IF Exists(v)
                    THEN [video EXCEPT ![v] = FailedRow(@)]
                    ELSE video
      /\ Goto(w, "emit")
      /\ UNCHANGED <<job, listener, dlq, request, bucket, crashes, lost>>

\* Mutant: the handler starts over itself instead of throwing.
EmitFailedStartsOver(w) ==
  /\ At(w, "emit")
  /\ listener' = listener \cup
       {[process |-> w, job |-> worker[w].job, video |-> VideoOf(w),
         delivery |-> worker[w].attemptsStarted,
         attemptsMade |-> worker[w].attemptsMade + 1,
         pc |-> "read", queueJobId |-> None]}
  /\ Goto(w, "find")
  /\ UNCHANGED <<video, job, dlq, request, bucket, crashes, lost>>

\* VIDEO_EVENTS.FAILED starts the listener of the same process.
EmitFailed(w) ==
  /\ At(w, "emit")
  /\ listener' = listener \cup
       {[process |-> w, job |-> worker[w].job, video |-> VideoOf(w),
         delivery |-> worker[w].attemptsStarted,
         attemptsMade |-> worker[w].attemptsMade + 1,
         pc |-> "read", queueJobId |-> None]}
  /\ Goto(w, "reject")
  /\ UNCHANGED <<video, job, dlq, request, bucket, crashes, lost>>

\* The catch block of an earlier attempt only rethrows.
Rethrow(w) ==
  /\ At(w, "catch")
  /\ ~isFinalAttempt(w)
  /\ Goto(w, "reject")
  /\ UNCHANGED <<video, job, listener, dlq, request, bucket, crashes, lost>>

\* A call inside the try block fails.
Fault(w) ==
  /\ "fault" \in Env
  /\ worker[w].pc \in TryPc
  /\ Goto(w, "catch")
  /\ UNCHANGED <<video, job, listener, dlq, request, bucket, crashes, lost>>

\* markFailed itself fails: its error leaves the handler, nothing is emitted.
MarkFailedFault(w) ==
  /\ "fault" \in Env
  /\ At(w, "catch")
  /\ isFinalAttempt(w)
  /\ Goto(w, "reject")
  /\ lost' = [lost EXCEPT ![VideoOf(w)] = @ \cup {"markFailed"}]
  /\ UNCHANGED <<video, job, listener, dlq, request, bucket, crashes>>

\* The handler returned: BullMQ completes the job if the lock is still held.
JobCompleted(w) ==
  /\ At(w, "resolve")
  /\ job' = IF Owns(w)
              THEN [job EXCEPT ![worker[w].job] =
                      [@ EXCEPT !.state = "completed", !.owner = None]]
              ELSE job
  /\ worker' = [worker EXCEPT ![w] = Idle]
  /\ UNCHANGED <<video, listener, dlq, request, bucket, crashes, lost>>

\* The handler threw: BullMQ retries or fails the job, again under the lock.
JobFailed(w) ==
  LET made == JobOf(w).attemptsMade + 1
  IN  /\ At(w, "reject")
      /\ job' = IF Owns(w)
                  THEN [job EXCEPT ![worker[w].job] =
                          [@ EXCEPT !.state = IF made < JobOf(w).attempts
                                                THEN "wait" ELSE "failed",
                                    !.attemptsMade = made, !.owner = None]]
                  ELSE job
      /\ lost' = IF Owns(w)
                   THEN lost
                   ELSE [lost EXCEPT ![VideoOf(w)] = @ \cup {"orphan"}]
      /\ worker' = [worker EXCEPT ![w] = Idle]
      /\ UNCHANGED <<video, listener, dlq, request, bucket, crashes>>

\* A worker process dies: its handler and its listeners are gone; BullMQ
\* still lists the job as active, under a lock nobody renews.
Crash(w) ==
  /\ "crash" \in Env
  /\ crashes < MaxCrashes
  /\ Busy(w) \/ \E t \in listener : t.process = w
  /\ crashes' = crashes + 1
  /\ listener' = {t \in listener : t.process # w}
  /\ worker' = [worker EXCEPT ![w] = Idle]
  /\ job' = IF Busy(w) /\ Owns(w)
              THEN [job EXCEPT ![worker[w].job].owner = None] ELSE job
  /\ lost' = IF Busy(w) /\ ~Owns(w)
               THEN [lost EXCEPT ![VideoOf(w)] = @ \cup {"orphan"}] ELSE lost
  /\ UNCHANGED <<video, dlq, request, bucket>>

\* The lock expires under a live worker, which goes on unaware.
LoseLock(q) ==
  /\ "lockLoss" \in Env
  /\ crashes < MaxCrashes
  /\ job[q].state = "active"
  /\ job[q].owner # None
  /\ crashes' = crashes + 1
  /\ job' = [job EXCEPT ![q].owner = None]
  /\ UNCHANGED <<video, worker, listener, dlq, request, bucket, lost>>

\* BullMQ's stalled checker: back to wait, or failed past maxStalledCount
\* (no handler runs then, so neither the row nor the DLQ hears of it).
StalledCheck(q) ==
  /\ job[q].state = "active"
  /\ job[q].owner = None
  /\ IF job[q].stalled < MaxStalledCount
       THEN /\ job' = [job EXCEPT ![q] =
                         [@ EXCEPT !.state = "wait",
                                   !.stalled = job[q].stalled + 1]]
            /\ UNCHANGED lost
       ELSE /\ job' = [job EXCEPT ![q].state = "failed"]
            /\ lost' = [lost EXCEPT ![job[q].video] = @ \cup {"stalledOut"}]
  /\ UNCHANGED <<video, worker, listener, dlq, request, bucket, crashes>>

-----------------------------------------------------------------------------
(* DlqService.onVideoFailed: runs beside the handler that emitted the event *)

Listener == [process : Workers, job : Requests, video : Videos,
             delivery : Nat, attemptsMade : Nat, pc : {"read", "save"},
             queueJobId : JobIds]

\* job is the job that failed; the table itself only keeps queueJobId, the
\* id found in the row when the listener ran.
FailedJob == [video : Videos, job : Requests, queueJobId : JobIds,
              attemptsMade : Nat, retried : BOOLEAN, retryJobId : JobIds]

\* Load the video for its queueJobId (null if the row is gone).
ListenerRead(t) ==
  /\ t.pc = "read"
  /\ listener' = (listener \ {t}) \cup
       {[t EXCEPT !.pc = "save",
                  !.queueJobId = IF Exists(t.video)
                                   THEN video[t.video].queueJobId ELSE None]}
  /\ UNCHANGED <<video, job, worker, dlq, request, bucket, crashes, lost>>

\* Mutant: only failures whose row already knows its job are recorded.
ListenerSaveIfLinked(t) ==
  /\ t.pc = "save"
  /\ dlq' = IF t.queueJobId = None THEN dlq
            ELSE Append(dlq, [video |-> t.video, job |-> t.job,
                              queueJobId |-> t.queueJobId,
                              attemptsMade |-> t.attemptsMade,
                              retried |-> FALSE, retryJobId |-> None])
  /\ listener' = listener \ {t}
  /\ UNCHANGED <<video, job, worker, request, bucket, crashes, lost>>

\* Insert the record.
ListenerSave(t) ==
  /\ t.pc = "save"
  /\ dlq' = Append(dlq, [video |-> t.video, job |-> t.job,
                         queueJobId |-> t.queueJobId,
                         attemptsMade |-> t.attemptsMade,
                         retried |-> FALSE, retryJobId |-> None])
  /\ listener' = listener \ {t}
  /\ UNCHANGED <<video, job, worker, request, bucket, crashes, lost>>

\* Either call fails: the error is logged and swallowed.
ListenerFault(t) ==
  /\ "fault" \in Env
  /\ listener' = listener \ {t}
  /\ UNCHANGED <<video, job, worker, dlq, request, bucket, crashes, lost>>

-----------------------------------------------------------------------------
(* What the API tells of the failed jobs; id is the index in dlq.          *)

FailedJobDto == [id : Nat, video : Videos, queueJobId : JobIds, attemptsMade : Nat,
                 retried : BOOLEAN, retryJobId : JobIds]

toDto(i) == [id |-> i, video |-> dlq[i].video, queueJobId |-> dlq[i].queueJobId,
             attemptsMade |-> dlq[i].attemptsMade, retried |-> dlq[i].retried,
             retryJobId |-> dlq[i].retryJobId]

\* GET /queue/failed-jobs shows at most 100 items per page.
safeLimit(limit) == IF limit < 100 THEN limit ELSE 100

\* The records on a page of the list, newest first.
listFailedJobs(page, limit) ==
  LET skipped == (page - 1) * limit
  IN  {toDto(i) : i \in {i \in 1..Len(dlq) : Len(dlq) - i \in skipped..(skipped + limit - 1)}}

-----------------------------------------------------------------------------
(* HTTP requests: createAndQueue, retryFailedJob, update, remove.          *)

Columns == {"status", "progress", "url", "error", "queueJobId"}

RetryPc   == {"retryReset", "retryAdd", "retryLink", "retryMark"}
RequestPc == {"idle", "createAdd", "createLink", "patchSelect",
              "patchUpdate", "patchInsert", "done", "aborted"} \cup RetryPc

\* record: index of the DLQ record being retried; row and columns: the entity
\* a PATCH read, and the columns its save will write.
Request == [pc : RequestPc, video : Videos \cup {None}, record : Nat,
            row : Row, columns : SUBSET Columns]

IdleRequest == [pc |-> "idle", video |-> None, record |-> 0,
                row |-> EmptyRow("NEW"), columns |-> {}]

RequestAt(q, pc) == request[q].pc = pc
Advance(q, pc)   == request' = [request EXCEPT ![q].pc = pc]

\* createAndQueue: insert the row as PENDING ...
CreateSave(q, v) ==
  /\ RequestAt(q, "idle")
  /\ video[v].status = "NEW"
  /\ video' = [video EXCEPT ![v] = EmptyRow("PENDING")]
  /\ request' = [request EXCEPT ![q] = [@ EXCEPT !.pc = "createAdd", !.video = v]]
  /\ UNCHANGED <<job, worker, listener, dlq, bucket, crashes, lost>>

\* ... enqueue its job ...
CreateAdd(q) ==
  /\ RequestAt(q, "createAdd")
  /\ job' = [job EXCEPT ![q] = NewJob(request[q].video, CreateAttempts)]
  /\ Advance(q, "createLink")
  /\ UNCHANGED <<video, worker, listener, dlq, bucket, crashes, lost>>

\* An UPDATE of queue_job_id by id: no effect on a row that is gone.
LinkedRow(q) ==
  LET v == request[q].video
  IN  IF Exists(v) THEN [video EXCEPT ![v].queueJobId = q] ELSE video

\* ... and note the job's id in the row (then CREATED is emitted).
CreateLink(q) ==
  /\ RequestAt(q, "createLink")
  /\ video' = LinkedRow(q)
  /\ Advance(q, "done")
  /\ UNCHANGED <<job, worker, listener, dlq, bucket, crashes, lost>>

\* Mutant: the retried flag is not looked at.
RetryReadUnchecked(q, i) ==
  /\ RequestAt(q, "idle")
  /\ "overlap" \in Env \/ \A p \in Requests : request[p].pc \notin RetryPc
  /\ request' = [request EXCEPT ![q] =
       [@ EXCEPT !.pc = "retryReset", !.video = dlq[i].video, !.record = i]]
  /\ UNCHANGED <<video, job, worker, listener, dlq, bucket, crashes, lost>>

\* retryFailedJob: 409 if the record was retried before ...
RetryRead(q, i) ==
  /\ RequestAt(q, "idle")
  /\ "overlap" \in Env \/ \A p \in Requests : request[p].pc \notin RetryPc
  /\ request' = [request EXCEPT ![q] =
       [@ EXCEPT !.pc = IF dlq[i].retried THEN "done" ELSE "retryReset",
                 !.video = dlq[i].video, !.record = i]]
  /\ UNCHANGED <<video, job, worker, listener, dlq, bucket, crashes, lost>>

\* The row a retry starts from.
ResetRow(row) == [row EXCEPT !.status = "PENDING", !.progress = 0,
                             !.error = FALSE, !.queueJobId = None]

\* Mutant: the old error message stays in the row.
RetryResetKeepsError(q) ==
  LET v == request[q].video
  IN  /\ RequestAt(q, "retryReset")
      /\ video' = IF Exists(v)
                    THEN [video EXCEPT ![v] = [ResetRow(@) EXCEPT !.error = video[v].error]]
                    ELSE video
      /\ Advance(q, "retryAdd")
      /\ UNCHANGED <<job, worker, listener, dlq, bucket, crashes, lost>>

\* Mutant: the record is marked before the job is enqueued.
RetryResetMarksFirst(q) ==
  LET v == request[q].video
  IN  /\ RequestAt(q, "retryReset")
      /\ video' = IF Exists(v) THEN [video EXCEPT ![v] = ResetRow(@)] ELSE video
      /\ dlq' = [dlq EXCEPT ![request[q].record] =
                   [@ EXCEPT !.retried = TRUE, !.retryJobId = q]]
      /\ Advance(q, "retryAdd")
      /\ UNCHANGED <<job, worker, listener, bucket, crashes, lost>>

\* Mutant: the row is given the job's id before the job exists.
RetryResetLinksFirst(q) ==
  LET v == request[q].video
  IN  /\ RequestAt(q, "retryReset")
      /\ video' = IF Exists(v)
                    THEN [video EXCEPT ![v] = [ResetRow(@) EXCEPT !.queueJobId = q]]
                    ELSE video
      /\ Advance(q, "retryAdd")
      /\ UNCHANGED <<job, worker, listener, dlq, bucket, crashes, lost>>

\* ... reset the row whatever its status is now ...
RetryReset(q) ==
  LET v == request[q].video
  IN  /\ RequestAt(q, "retryReset")
      /\ video' = IF Exists(v) THEN [video EXCEPT ![v] = ResetRow(@)] ELSE video
      /\ Advance(q, "retryAdd")
      /\ UNCHANGED <<job, worker, listener, dlq, bucket, crashes, lost>>

\* ... enqueue a fresh job ...
RetryAdd(q) ==
  /\ RequestAt(q, "retryAdd")
  /\ job' = [job EXCEPT ![q] = NewJob(request[q].video, RetryAttempts)]
  /\ Advance(q, "retryLink")
  /\ UNCHANGED <<video, worker, listener, dlq, bucket, crashes, lost>>

\* ... note its id in the row ...
RetryLink(q) ==
  /\ RequestAt(q, "retryLink")
  /\ video' = LinkedRow(q)
  /\ Advance(q, "retryMark")
  /\ UNCHANGED <<job, worker, listener, dlq, bucket, crashes, lost>>

\* ... and mark the record as retried.
RetryMark(q) ==
  /\ RequestAt(q, "retryMark")
  /\ dlq' = [dlq EXCEPT ![request[q].record] =
               [@ EXCEPT !.retried = TRUE, !.retryJobId = q]]
  /\ Advance(q, "done")
  /\ UNCHANGED <<video, job, worker, listener, bucket, crashes, lost>>

\* A create or retry request dies before its next call.
Abort(q) ==
  /\ "abort" \in Env
  /\ request[q].pc \in {"createAdd", "createLink"} \cup RetryPc
  /\ Advance(q, "aborted")
  /\ lost' = IF request[q].pc \in {"createAdd", "retryAdd"}
               THEN [lost EXCEPT ![request[q].video] = @ \cup {"abort"}]
               ELSE lost
  /\ UNCHANGED <<video, job, worker, listener, dlq, bucket, crashes>>

\* update: load the whole entity to change its title ...
PatchRead(q, v) ==
  /\ "patch" \in Env
  /\ RequestAt(q, "idle")
  /\ Exists(v)
  /\ request' = [request EXCEPT ![q] =
       [@ EXCEPT !.pc = "patchSelect", !.video = v, !.row = video[v]]]
  /\ UNCHANGED <<video, job, worker, listener, dlq, bucket, crashes, lost>>

\* ... save() compares the entity with the row it finds now: the columns that
\* differ will be written back, a row that is gone will be inserted again ...
PatchSelect(q) ==
  LET v == request[q].video
  IN  /\ RequestAt(q, "patchSelect")
      /\ request' = [request EXCEPT ![q] =
           [@ EXCEPT !.pc = IF Exists(v) THEN "patchUpdate" ELSE "patchInsert",
                     !.columns = {c \in Columns : request[q].row[c] # video[v][c]}]]
      /\ UNCHANGED <<video, job, worker, listener, dlq, bucket, crashes, lost>>

\* The row after the listed columns are overwritten with the entity's.
Merge(row, entity, columns) ==
  [status     |-> IF "status" \in columns THEN entity.status ELSE row.status,
   progress   |-> IF "progress" \in columns THEN entity.progress ELSE row.progress,
   url        |-> IF "url" \in columns THEN entity.url ELSE row.url,
   error      |-> IF "error" \in columns THEN entity.error ELSE row.error,
   queueJobId |-> IF "queueJobId" \in columns THEN entity.queueJobId
                                              ELSE row.queueJobId]

\* ... by an UPDATE of those columns ...
PatchUpdate(q) ==
  LET v == request[q].video
  IN  /\ RequestAt(q, "patchUpdate")
      /\ video' = IF Exists(v)
                    THEN [video EXCEPT ![v] = Merge(@, request[q].row,
                                                    request[q].columns)]
                    ELSE video
      /\ lost' = IF "status" \in request[q].columns
                   THEN [lost EXCEPT ![v] = @ \cup {"patch"}] ELSE lost
      /\ Advance(q, "done")
      /\ UNCHANGED <<job, worker, listener, dlq, bucket, crashes>>

\* ... or an INSERT.
PatchInsert(q) ==
  LET v == request[q].video
  IN  /\ RequestAt(q, "patchInsert")
      /\ video' = [video EXCEPT ![v] = request[q].row]
      /\ lost' = [lost EXCEPT ![v] = @ \cup {"patch"}]
      /\ Advance(q, "done")
      /\ UNCHANGED <<job, worker, listener, dlq, bucket, crashes>>

\* remove: the row goes; its job, DLQ records and S3 object stay.
Remove(v) ==
  /\ "delete" \in Env
  /\ Exists(v)
  /\ video' = [video EXCEPT ![v] = EmptyRow("DELETED")]
  /\ UNCHANGED <<job, worker, listener, dlq, request, bucket, crashes, lost>>

-----------------------------------------------------------------------------
Init ==
  /\ video    = [v \in Videos |-> EmptyRow("NEW")]
  /\ job      = [q \in Requests |-> NoJob]
  /\ worker   = [w \in Workers |-> Idle]
  /\ listener = {}
  /\ dlq      = << >>
  /\ request  = [q \in Requests |-> IdleRequest]
  /\ bucket   = {}
  /\ crashes  = 0
  /\ lost     = [v \in Videos |-> {}]

\* The handler of process w goes one await further.
Handle(w) ==
  \/ FindById(w) \/ StartAttempt(w)
  \/ EnhancePrompt(w) \/ GenerateVideo(w) \/ Poll(w) \/ Store(w) \/ Complete(w) \/ ReportCompleted(w)
  \/ MarkFailed(w) \/ EmitFailed(w) \/ Rethrow(w)
  \/ JobCompleted(w) \/ JobFailed(w)

\* A request that was accepted goes one await further.
Serve(q) ==
  \/ CreateAdd(q) \/ CreateLink(q)
  \/ RetryReset(q) \/ RetryAdd(q) \/ RetryLink(q) \/ RetryMark(q)
  \/ PatchSelect(q) \/ PatchUpdate(q) \/ PatchInsert(q)

\* A request arrives.
Accept(q) ==
  \/ \E v \in Videos : CreateSave(q, v) \/ PatchRead(q, v)
  \/ \E i \in 1..Len(dlq) : RetryRead(q, i)

Listen == \E t \in listener : ListenerRead(t) \/ ListenerSave(t)

\* What the environment may do against the pipeline.
Disturb ==
  \/ \E w \in Workers : Fault(w) \/ MarkFailedFault(w) \/ Crash(w)
  \/ \E q \in Requests : LoseLock(q) \/ Abort(q)
  \/ \E t \in listener : ListenerFault(t)
  \/ \E v \in Videos : Remove(v)

Next ==
  \/ \E w \in Workers : Handle(w) \/ \E q \in Requests : Fetch(w, q)
  \/ \E q \in Requests : Serve(q) \/ Accept(q) \/ StalledCheck(q)
  \/ Listen
  \/ Disturb

Spec == Init /\ [][Next]_vars

\* Node's event loop resumes every handler and listener whose await settled,
\* BullMQ keeps delivering, its stalled checker runs periodically.
Fairness ==
  /\ \A w \in Workers : /\ WF_vars(Handle(w))
                        /\ WF_vars(\E q \in Requests : Fetch(w, q))
  /\ \A q \in Requests : WF_vars(Serve(q)) /\ WF_vars(StalledCheck(q))
  /\ WF_vars(Listen)

FairSpec == Spec /\ Fairness

-----------------------------------------------------------------------------
(* Properties.                                                             *)

\* What lost may hold, see StuckOnlyIfLost.
LostCause == {"markFailed", "orphan", "stalledOut", "abort", "patch"}

\* Every variable keeps its type (columns of the entities, opts of a job,
\* locals of a handler).
TypeOK ==
  /\ video    \in [Videos -> Row]
  /\ job      \in [Requests -> Job]
  /\ worker   \in [Workers -> Worker]
  /\ listener \subseteq Listener
  /\ dlq      \in Seq(FailedJob)
  /\ request  \in [Requests -> Request]
  /\ bucket   \subseteq Videos
  /\ crashes  \in Nat
  /\ lost     \in [Videos -> SUBSET LostCause]

\* The columns of a row agree with its status, whatever attempts, retries and
\* crashes interleave: a late progress report never shows on a row that is not
\* PROCESSING (job-status.service.ts:93-95), an error message is on FAILED
\* rows and nowhere else.
RowConsistent ==
  \A v \in Videos :
    LET r == video[v]
    IN  /\ r.status = "PROCESSING" => r.progress \in 10..90
        /\ r.status = "COMPLETED"  => r.progress = 100
        /\ r.status \in {"PENDING", "FAILED", "NEW", "DELETED"} => r.progress = 0
        /\ r.error <=> r.status = "FAILED"

\* A COMPLETED row has the url getVideoResult needs, and when the provider
\* does not store the file itself, the upload really happened before.
CompletedHasFile ==
  \A v \in Videos :
    video[v].status = "COMPLETED" =>
      video[v].url /\ (AlreadyStored \/ v \in bucket)

\* A DLQ record marked retried names a job that was enqueued, for the same
\* video, with the DLQ's attempts: marking comes after the enqueue, so a
\* request that dies half-way never burns the record.
RetriedHasJob ==
  \A i \in 1..Len(dlq) :
    dlq[i].retried =>
      LET q == dlq[i].retryJobId
      IN  /\ q \in Requests
          /\ job[q].state # "none"
          /\ job[q].video = dlq[i].video
          /\ job[q].attempts = RetryAttempts

\* Only permanently failed jobs reach the DLQ (dlq.service.ts:41): a record
\* stands for a delivery that used the last attempt its job had.
RecordsAreExhausted ==
  \A i \in 1..Len(dlq) :
    /\ job[dlq[i].job].state # "none"
    /\ job[dlq[i].job].video = dlq[i].video
    /\ dlq[i].attemptsMade = job[dlq[i].job].attempts

\* queueJobId in a row is null or a job of this very video.
QueueJobIdSound ==
  \A v \in Videos :
    video[v].queueJobId # None =>
      /\ job[video[v].queueJobId].state # "none"
      /\ job[video[v].queueJobId].video = v

\* Nobody will move video v any more: no job to deliver, no handler at work,
\* no request about to enqueue one.
Abandoned(v) ==
  /\ \A q \in Requests : job[q].video = v => ~Live(q)
  /\ \A w \in Workers : Busy(w) => VideoOf(w) # v
  /\ \A q \in Requests :
       request[q].video = v => request[q].pc \notin {"createAdd", "retryAdd"}

\* A video stays PENDING or PROCESSING with nobody working on it only if one
\* of five things happened: a request died before its enqueue, BullMQ gave the
\* job up as stalled, markFailed failed, a worker without its lock died or
\* threw, or a PATCH wrote an old status back.  No interleaving of other steps
\* loses a video.
StuckOnlyIfLost ==
  \A v \in Videos :
    video[v].status \in {"PENDING", "PROCESSING"} /\ Abandoned(v)
      => lost[v] # {}

\* A removed row never comes back: every write of the pipeline is an UPDATE by
\* id, none of them inserts.
DeletedStaysDeleted ==
  [][\A v \in Videos :
       video[v].status = "DELETED" => video'[v].status = "DELETED"]_vars

\* BullMQ gave a job of video v back to the queue, as stalled.
Redelivered(v) == \E q \in Requests : job[q].video = v /\ job[q].stalled > 0

\* A PATCH wrote an old status into the row of v.
Patched(v) == "patch" \in lost[v]

\* Three failures precede FAILED (README.md:256): a listener is told of a
\* permanent failure by the third attempt of a job.
FailedAfterThreeAttempts ==
  \A t \in listener : t.attemptsMade = 3

\* "Optimistic lock ensures only one worker wins if two attempts run
\* concurrently" (video-generation.processor.ts:60): at most one attempt
\* generates a video at a time.
OneAttemptAtATime ==
  \A w1, w2 \in Workers :
    Generating(w1) /\ Generating(w2) /\ VideoOf(w1) = VideoOf(w2) => w1 = w2

\* What is left of that sentence: two attempts generate one video only if BullMQ
\* gave a job of it back as stalled.  Neither a create and a retry, nor two
\* retries, nor an attempt whose lock is lost or whose row is deleted, inserted
\* again or overwritten by a PATCH meanwhile, ever meet another attempt otherwise.
OverlapOnlyAfterStall ==
  \A w1, w2 \in Workers :
    w1 # w2 /\ Generating(w1) /\ Generating(w2) /\ VideoOf(w1) = VideoOf(w2)
      => Redelivered(VideoOf(w1))

\* VIDEO_EVENTS.COMPLETED reports a fact (video.events.ts:4): the row is
\* COMPLETED when the event is emitted, unless its owner deleted it, a PATCH wrote
\* its status or BullMQ redelivered a job of it.
CompletedEventIsTrue ==
  [][\A w \in Workers :
       ReportCompleted(w) =>
         LET v == VideoOf(w)
         IN  \/ video[v].status \in {"COMPLETED", "DELETED"}
             \/ Redelivered(v) \/ Patched(v)]_vars

\* A video shown as FAILED is found by whoever pages through the DLQ to retry it
\* (queue.controller.ts:66), once its handlers and listeners are through: there
\* is a page, whatever its length, with a record of it that was not retried.
FailedIsRecorded ==
  \A v \in Videos :
    /\ video[v].status = "FAILED"
    /\ \A w \in Workers : Busy(w) => VideoOf(w) # v
    /\ \A t \in listener : t.video # v
    => \A limit \in {1, 20} : \E page \in 1..Len(dlq) :
         \E item \in listFailedJobs(page, safeLimit(limit)) :
           item \in FailedJobDto /\ item.video = v /\ ~item.retried

\* One record, one new job (queue.controller.ts:89: "Can only be called once
\* per DLQ record").
RetriedOnce ==
  \A q1, q2 \in Requests :
    /\ request[q1].record = request[q2].record
    /\ request[q1].record # 0
    /\ job[q1].state # "none"
    /\ job[q2].state # "none"
    => q1 = q2

\* A client that looks up the queueJobId of its video, the use the endpoint is
\* documented for (queue.controller.ts:46), finds a job there, is told
\* "completed" only if the video is COMPLETED, and "failed" only if no attempt
\* is left.  (FAILED does not follow: the id of the first job may be written
\* last, over that of the retry's.)
JobTellsOfVideo ==
  \A v \in Videos :
    LET q == video[v].queueJobId
    IN  q # None =>
          /\ getJobStatus(q) \in JobStatusDto
          /\ getJobStatus(q).state = "completed" => video[v].status = "COMPLETED"
          /\ getJobStatus(q).state = "failed" =>
               getJobStatus(q).attemptsMade = getJobStatus(q).maxAttempts

\* PATCH updates the title of a video (docs/REST_API_Design, line 471) and
\* nothing the pipeline keeps in the row.
PatchOnlyTitle ==
  [][\A q \in Requests : PatchUpdate(q) => UNCHANGED video]_vars

\* Every job that was enqueued ends: its video becomes COMPLETED or FAILED, or
\* is deleted.
EveryJobEnds ==
  \A v \in Videos :
    (\E q \in Requests : job[q].state = "wait" /\ job[q].video = v)
      ~> video[v].status \in {"COMPLETED", "FAILED", "DELETED"}

\* The documented state machine of a video's status.
Lifecycle == INSTANCE VideoLifecycle
               WITH status <- [v \in Videos |-> video[v].status]

\* The pipeline implements the documented state machine.
ImplementsLifecycle == Lifecycle!Spec
=============================================================================
