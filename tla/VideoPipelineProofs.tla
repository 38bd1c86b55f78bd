------------------------ MODULE VideoPipelineProofs ------------------------
(***************************************************************************)
(* What holds of VideoPipeline for every number of videos, requests,       *)
(* workers, polls, attempts, crashes and whatever Env allows.              *)
(*                                                                         *)
(* The argument.  First, which steps write which variable (JobSteps ...    *)
(* OtherSteps), so that each invariant is only looked at where it can      *)
(* change.  Then Inv, the inductive invariant: types, and what handlers,   *)
(* listeners and requests remember between two awaits that must still be   *)
(* true after them.  The second half is about runs without PATCH requests: *)
(* RowWrites lists all the ways in which a step may rewrite a row, and the *)
(* theorems about rows follow from that list.                              *)
(***************************************************************************)
EXTENDS VideoPipeline, TLAPS

\* Job q was added to the queue.
Enqueued(q) == job[q].state # "none"

\* A step neither removes a job nor changes its video or its attempts.
JobsKept ==
  \A q \in Requests : Enqueued(q) =>
    /\ job'[q].state # "none"
    /\ job'[q].video = job[q].video
    /\ job'[q].attempts = job[q].attempts

\* The steps that write the jobs of the queue.
LEMMA JobSteps ==
  ASSUME Next
  PROVE  \/ UNCHANGED job
         \/ \E w \in Workers : \/ \E q \in Requests : Fetch(w, q)
                               \/ JobCompleted(w) \/ JobFailed(w) \/ Crash(w)
         \/ \E q \in Requests : CreateAdd(q) \/ RetryAdd(q) \/ LoseLock(q) \/ StalledCheck(q)
BY DEF Next, Handle, Serve, Accept, Listen, Disturb,
       FindById, StartAttempt, EnhancePrompt, GenerateVideo, Poll, Store, Complete,
       ReportCompleted, MarkFailed, EmitFailed, Rethrow, Fault, MarkFailedFault,
       ListenerRead, ListenerSave, ListenerFault,
       CreateSave, CreateLink, RetryRead, RetryReset, RetryLink, RetryMark, Abort,
       PatchRead, PatchSelect, PatchUpdate, PatchInsert, Remove

\* The steps that write the videos table.
LEMMA VideoSteps ==
  ASSUME Next
  PROVE  \/ UNCHANGED video
         \/ \E w \in Workers : \/ StartAttempt(w) \/ EnhancePrompt(w) \/ GenerateVideo(w)
                               \/ Poll(w) \/ Complete(w) \/ MarkFailed(w)
         \/ \E q \in Requests : \/ \E v \in Videos : CreateSave(q, v)
                                \/ CreateLink(q) \/ RetryReset(q) \/ RetryLink(q)
                                \/ PatchUpdate(q) \/ PatchInsert(q)
         \/ \E v \in Videos : Remove(v)
BY DEF Next, Handle, Serve, Accept, Listen, Disturb,
       FindById, Store, ReportCompleted, EmitFailed, Rethrow, Fault, MarkFailedFault,
       ListenerRead, ListenerSave, ListenerFault, JobCompleted, JobFailed, Crash, LoseLock, StalledCheck,
       Fetch, CreateAdd, RetryAdd, RetryRead, RetryMark, Abort, PatchRead, PatchSelect

\* The steps that move a handler.
LEMMA WorkerSteps ==
  ASSUME Next
  PROVE  \/ UNCHANGED worker
         \/ \E w \in Workers : \/ Handle(w) \/ Fault(w) \/ MarkFailedFault(w) \/ Crash(w)
                               \/ \E q \in Requests : Fetch(w, q)
BY DEF Next, Serve, Accept, Listen, Disturb,
       ListenerRead, ListenerSave, ListenerFault, LoseLock, StalledCheck,
       CreateSave, CreateAdd, CreateLink, RetryRead, RetryReset, RetryAdd,
       RetryLink, RetryMark, Abort, PatchRead, PatchSelect, PatchUpdate,
       PatchInsert, Remove

\* The steps that move a listener or write the failed_jobs table.
LEMMA ListenerSteps ==
  ASSUME Next
  PROVE  \/ UNCHANGED <<listener, dlq>>
         \/ \E w \in Workers : EmitFailed(w) \/ Crash(w)
         \/ \E t \in listener : ListenerRead(t) \/ ListenerSave(t) \/ ListenerFault(t)
         \/ \E q \in Requests : RetryMark(q)
BY DEF Next, Handle, Serve, Accept, Listen, Disturb, Fetch,
       FindById, StartAttempt, EnhancePrompt, GenerateVideo, Poll, Store, Complete,
       ReportCompleted, MarkFailed, Rethrow, Fault, MarkFailedFault,
       JobCompleted, JobFailed, LoseLock, StalledCheck,
       CreateSave, CreateAdd, CreateLink, RetryRead, RetryReset, RetryAdd,
       RetryLink, Abort, PatchRead, PatchSelect, PatchUpdate,
       PatchInsert, Remove

\* The steps that move a request.
LEMMA RequestSteps ==
  ASSUME Next
  PROVE  \/ UNCHANGED request
         \/ \E q \in Requests : Serve(q) \/ Accept(q) \/ Abort(q)
BY DEF Next, Handle, Listen, Disturb, Fetch,
       FindById, StartAttempt, EnhancePrompt, GenerateVideo, Poll, Store, Complete,
       ReportCompleted, MarkFailed, EmitFailed, Rethrow, Fault, MarkFailedFault,
       JobCompleted, JobFailed, LoseLock, StalledCheck, Crash,
       ListenerRead, ListenerSave, ListenerFault, Remove

\* The steps that write the bucket and the bookkeeping variables.
LEMMA OtherSteps ==
  ASSUME Next
  PROVE  /\ UNCHANGED bucket \/ \E w \in Workers : Store(w)
         /\ \/ UNCHANGED crashes
            \/ \E w \in Workers : Crash(w)
            \/ \E q \in Requests : LoseLock(q)
         /\ \/ UNCHANGED lost
            \/ \E w \in Workers : MarkFailedFault(w) \/ JobFailed(w) \/ Crash(w)
            \/ \E q \in Requests : \/ StalledCheck(q) \/ Abort(q)
                                   \/ PatchUpdate(q) \/ PatchInsert(q)
BY DEF Next, Handle, Serve, Accept, Listen, Disturb, Fetch,
       FindById, StartAttempt, EnhancePrompt, GenerateVideo, Poll, Store, Complete,
       ReportCompleted, MarkFailed, EmitFailed, Rethrow, Fault, MarkFailedFault,
       JobCompleted, JobFailed, LoseLock, StalledCheck, Crash,
       ListenerRead, ListenerSave, ListenerFault,
       CreateSave, CreateAdd, CreateLink, RetryRead, RetryReset, RetryAdd,
       RetryLink, RetryMark, Abort, PatchRead, PatchSelect, PatchUpdate,
       PatchInsert, Remove

-----------------------------------------------------------------------------
\* A job has a video, and a job that can still run has attempts left.
JobInv ==
  \A q \in Requests :
    /\ Enqueued(q) => job[q].video \in Videos
    /\ Live(q) => job[q].attemptsMade < job[q].attempts

\* A busy handler works on a job that exists, in an attempt the job allows; it
\* emits FAILED only in the last one.
WorkerInv ==
  \A w \in Workers : Busy(w) =>
    /\ worker[w].job \in Requests
    /\ Enqueued(worker[w].job)
    /\ worker[w].attemptsMade < JobOf(w).attempts
    /\ At(w, "emit") => isFinalAttempt(w)

\* A listener stands for the last attempt of the job it is about.
ListenerInv ==
  \A t \in listener :
    /\ Enqueued(t.job)
    /\ job[t.job].video = t.video
    /\ job[t.job].attempts = t.attemptsMade

\* Where a PATCH request may stand.
PatchPc == {"patchSelect", "patchUpdate", "patchInsert"}

\* What request q knows is still true: its job is enqueued or not yet, its DLQ
\* record exists, the job id in the entity a PATCH read is a job of its video.
RequestOK(q) ==
  LET r == request[q]
  IN  /\ r.pc \in {"idle", "createAdd", "retryReset", "retryAdd"} => ~Enqueued(q)
      /\ r.pc \in {"createAdd", "createLink"} \cup RetryPc \cup PatchPc
           => r.video \in Videos
      /\ r.pc \in {"createLink", "retryLink", "retryMark"}
           => Enqueued(q) /\ job[q].video = r.video
      /\ r.pc \in {"retryLink", "retryMark"} => job[q].attempts = RetryAttempts
      /\ r.pc \in RetryPc
           => /\ r.record \in 1..Len(dlq)
              /\ dlq[r.record].video = r.video
      /\ r.pc \in PatchPc /\ r.row.queueJobId # None
           => /\ Enqueued(r.row.queueJobId)
              /\ job[r.row.queueJobId].video = r.video

\* ... for every request.
RequestInv == \A q \in Requests : RequestOK(q)

\* The inductive invariant.
Inv ==
  /\ TypeOK
  /\ JobInv /\ WorkerInv /\ ListenerInv /\ RequestInv
  /\ RetriedHasJob /\ RecordsAreExhausted /\ QueueJobIdSound

-----------------------------------------------------------------------------
\* What a busy handler refers to exists.
LEMMA BusyFacts ==
  ASSUME TypeOK, JobInv, WorkerInv, NEW w \in Workers, Busy(w)
  PROVE  /\ worker[w].job \in Requests
         /\ JobOf(w) \in Job
         /\ VideoOf(w) \in Videos
         /\ worker[w] \in Worker
         /\ video[VideoOf(w)] \in Row
<1>1. worker[w].job \in Requests /\ Enqueued(worker[w].job) BY DEF WorkerInv
<1>2. job[worker[w].job].video \in Videos BY <1>1 DEF JobInv
<1> QED BY <1>1, <1>2 DEF TypeOK, JobOf, VideoOf

\* Going on to the next await keeps the type of worker.
LEMMA GotoType ==
  ASSUME worker \in [Workers -> Worker], NEW w \in Workers, NEW pc \in WorkerPc, Goto(w, pc)
  PROVE  worker' \in [Workers -> Worker]
<1>1. 0 \in 0..MaxPollAttempts BY PollAssumption
<1> QED BY <1>1 DEF Goto, Worker, Status

\* An idle handler has its type.
LEMMA IdleType == Idle \in Worker
<1>1. 0 \in 0..MaxPollAttempts BY PollAssumption
<1> QED BY <1>1 DEF Idle, Worker, WorkerPc, JobIds, Status

\* Every step keeps the type of job.
LEMMA JobType ==
  ASSUME TypeOK, JobInv, WorkerInv, RequestInv, Next PROVE job' \in [Requests -> Job]
<1>0. job \in [Requests -> Job] BY DEF TypeOK
<1>a. ASSUME NEW q \in Requests, NEW j \in Job, job' = [job EXCEPT ![q] = j]
      PROVE  job' \in [Requests -> Job]
  BY <1>0, <1>a
<1>1. ASSUME NEW w \in Workers, NEW q \in Requests, Fetch(w, q) PROVE job' \in [Requests -> Job]
  <2>1. job[q] \in Job BY <1>0
  <2>2. job[q].attemptsStarted + 1 \in Nat BY <2>1 DEF Job
  <2>3. [job[q] EXCEPT !.state = "active", !.owner = w, !.attemptsStarted = job[q].attemptsStarted + 1] \in Job
    BY <2>1, <2>2 DEF Job, JobState
  <2> QED BY <2>1, <2>3, <1>1, <1>a DEF Fetch
<1>2. ASSUME NEW w \in Workers, JobCompleted(w) PROVE job' \in [Requests -> Job]
  <2>1. worker[w].job \in Requests BY <1>2, BusyFacts DEF JobCompleted, At, Busy
  <2>2. [job[worker[w].job] EXCEPT !.state = "completed", !.owner = None] \in Job
    BY <1>0, <2>1 DEF Job, JobState
  <2> QED BY <1>0, <1>2, <1>a, <2>1, <2>2 DEF JobCompleted
<1>3. ASSUME NEW w \in Workers, JobFailed(w) PROVE job' \in [Requests -> Job]
  <2>1. worker[w].job \in Requests /\ JobOf(w) \in Job BY <1>3, BusyFacts DEF JobFailed, At, Busy
  <2>2. JobOf(w).attemptsMade + 1 \in Nat BY <2>1 DEF Job
  <2>3. ASSUME NEW st \in {"wait", "failed"}
        PROVE  [JobOf(w) EXCEPT !.state = st, !.attemptsMade = JobOf(w).attemptsMade + 1, !.owner = None] \in Job
    BY <2>1, <2>2 DEF Job, JobState
  <2> QED BY <1>0, <1>3, <1>a, <2>1, <2>3 DEF JobFailed, JobOf
<1>4. ASSUME NEW w \in Workers, Crash(w) PROVE job' \in [Requests -> Job]
  <2>1. CASE Busy(w)
    <3>1. worker[w].job \in Requests BY <2>1, BusyFacts
    <3> QED BY <1>0, <1>4, <3>1 DEF Crash, Job
  <2>2. CASE ~Busy(w) BY <1>0, <1>4, <2>2 DEF Crash
  <2> QED BY <2>1, <2>2
<1>5. ASSUME NEW v \in Videos, NEW n \in Nat PROVE NewJob(v, n) \in Job
  BY DEF NewJob, NoJob, Job, JobState
<1>6. ASSUME NEW q \in Requests, CreateAdd(q) \/ RetryAdd(q) PROVE job' \in [Requests -> Job]
  <2>1. request[q].video \in Videos
    BY <1>6 DEF RequestInv, RequestOK, Enqueued, CreateAdd, RetryAdd, RequestAt, RetryPc
  <2>2. CreateAttempts \in Nat /\ RetryAttempts \in Nat BY RetryAssumption DEF CreateAttempts
  <2> QED BY <1>5, <1>6, <1>a, <2>1, <2>2 DEF CreateAdd, RetryAdd
<1>7. ASSUME NEW q \in Requests, LoseLock(q) PROVE job' \in [Requests -> Job]
  BY <1>0, <1>7 DEF LoseLock, Job
<1>8. ASSUME NEW q \in Requests, StalledCheck(q) PROVE job' \in [Requests -> Job]
  <2>1. job[q] \in Job BY <1>0
  <2>2. job[q].stalled + 1 \in Nat BY <2>1 DEF Job
  <2>3. [job[q] EXCEPT !.state = "wait", !.stalled = job[q].stalled + 1] \in Job
    BY <2>1, <2>2 DEF Job, JobState
  <2>4. [job[q] EXCEPT !.state = "failed"] \in Job BY <2>1 DEF Job, JobState
  <2> QED BY <1>8, <1>a, <2>3, <2>4 DEF StalledCheck
<1> QED BY <1>0, <1>1, <1>2, <1>3, <1>4, <1>6, <1>7, <1>8, JobSteps

\* Every step keeps the type of worker.
LEMMA WorkerType ==
  ASSUME TypeOK, JobInv, WorkerInv, Next PROVE worker' \in [Workers -> Worker]
<1>0. worker \in [Workers -> Worker] BY DEF TypeOK
<1>1. ASSUME NEW w \in Workers, NEW q \in Requests, Fetch(w, q) PROVE worker' \in [Workers -> Worker]
  <2>1. job[q].attemptsMade \in Nat /\ job[q].attemptsStarted + 1 \in Nat BY DEF TypeOK, Job
  <2>2. [Idle EXCEPT !.pc = "find", !.job = q, !.attemptsMade = job[q].attemptsMade,
                     !.attemptsStarted = job[q].attemptsStarted + 1] \in Worker
    BY <2>1, IdleType DEF Worker, WorkerPc, TryPc, JobIds
  <2> QED BY <1>0, <1>1, <2>2 DEF Fetch
<1>2. ASSUME NEW w \in Workers, FindById(w) PROVE worker' \in [Workers -> Worker]
  <2>1. video[VideoOf(w)].status \in Status
    BY <1>2, BusyFacts DEF FindById, At, Busy, Row
  <2>2. [worker[w] EXCEPT !.pc = "start", !.seen = video[VideoOf(w)].status] \in Worker
    BY <1>0, <2>1 DEF Worker, WorkerPc, TryPc
  <2> QED BY <1>0, <1>2, <2>2, GotoType DEF FindById, WorkerPc
<1>3. ASSUME NEW w \in Workers, Poll(w) PROVE worker' \in [Workers -> Worker]
  <2> DEFINE k == worker[w].polls + 1
  <2>1. k < MaxPollAttempts => k \in 0..MaxPollAttempts
    BY <1>0, PollAssumption DEF Worker
  <2>2. CASE k < MaxPollAttempts /\ worker' = [worker EXCEPT ![w].polls = k]
    BY <1>0, <2>1, <2>2 DEF Worker
  <2>3. CASE \E pc \in {"complete", "store", "catch"} : Goto(w, pc)
    BY <1>0, <2>3, GotoType DEF WorkerPc, TryPc
  <2> QED BY <1>3, <2>2, <2>3 DEF Poll
<1>4. ASSUME NEW w \in Workers,
             \/ StartAttempt(w) \/ EnhancePrompt(w) \/ GenerateVideo(w) \/ Store(w)
             \/ Complete(w) \/ ReportCompleted(w) \/ MarkFailed(w) \/ EmitFailed(w)
             \/ Rethrow(w) \/ Fault(w) \/ MarkFailedFault(w)
      PROVE  worker' \in [Workers -> Worker]
  <2>1. PICK pc \in WorkerPc : Goto(w, pc)
    BY <1>4 DEF StartAttempt, EnhancePrompt, GenerateVideo, Store, Complete, ReportCompleted,
       MarkFailed, EmitFailed, Rethrow, Fault, MarkFailedFault, WorkerPc, TryPc
  <2> QED BY <1>0, <2>1, GotoType
<1>5. ASSUME NEW w \in Workers, JobCompleted(w) \/ JobFailed(w) \/ Crash(w)
      PROVE  worker' \in [Workers -> Worker]
  BY <1>0, <1>5, IdleType DEF JobCompleted, JobFailed, Crash
<1> QED BY <1>0, <1>1, <1>2, <1>3, <1>4, <1>5, WorkerSteps DEF Handle

\* Completing, failing or resetting a row gives a row.
LEMMA RewrittenRows ==
  ASSUME NEW row \in Row
  PROVE  CompletedRow(row) \in Row /\ FailedRow(row) \in Row /\ ResetRow(row) \in Row
<1>0. 0 \in 0..100 /\ 100 \in 0..100 OBVIOUS
<1>1. {"PENDING", "COMPLETED", "FAILED"} \subseteq Status BY DEF Status, RowStatus
<1>2. None \in JobIds BY DEF JobIds
<1>3. CompletedRow(row) \in Row BY <1>0, <1>1 DEF CompletedRow, Row
<1>4. FailedRow(row) \in Row BY <1>0, <1>1 DEF FailedRow, Row
<1>5. ResetRow(row) \in Row BY <1>0, <1>1, <1>2 DEF ResetRow, Row
<1> QED BY <1>3, <1>4, <1>5

\* Every step keeps the type of video.
LEMMA VideoType ==
  ASSUME TypeOK, JobInv, WorkerInv, RequestInv, Next PROVE video' \in [Videos -> Row]
<1>0. video \in [Videos -> Row] BY DEF TypeOK
<1>a. ASSUME NEW v \in Videos, NEW r \in Row, video' = [video EXCEPT ![v] = r]
      PROVE  video' \in [Videos -> Row]
  BY <1>0, <1>a
<1>b. ASSUME NEW v \in Videos, NEW p \in 0..100, UpdateProgress(v, p)
      PROVE  video' \in [Videos -> Row]
  BY <1>0, <1>b DEF UpdateProgress, Row
<1>1. ASSUME NEW w \in Workers, StartAttempt(w) PROVE video' \in [Videos -> Row]
  <2>1. VideoOf(w) \in Videos BY <1>1, BusyFacts DEF StartAttempt, At, Busy
  <2>2. 10 \in 0..100 OBVIOUS
  <2>3. [video[VideoOf(w)] EXCEPT !.status = "PROCESSING", !.progress = 10] \in Row
    BY <1>0, <2>1, <2>2 DEF Row, Status, RowStatus
  <2> QED BY <1>0, <1>1, <1>a, <2>1, <2>3 DEF StartAttempt
<1>2. ASSUME NEW w \in Workers, EnhancePrompt(w) \/ GenerateVideo(w) PROVE video' \in [Videos -> Row]
  <2>1. VideoOf(w) \in Videos BY <1>2, BusyFacts DEF EnhancePrompt, GenerateVideo, At, Busy
  <2>2. 20 \in 0..100 /\ 40 \in 0..100 OBVIOUS
  <2> QED BY <1>2, <1>b, <2>1, <2>2 DEF EnhancePrompt, GenerateVideo
<1>3. ASSUME NEW w \in Workers, Poll(w) PROVE video' \in [Videos -> Row]
  <2>1. VideoOf(w) \in Videos /\ worker[w] \in Worker BY <1>3, BusyFacts DEF Poll, At, Busy
  <2>2. worker[w].polls \in Nat BY <2>1, PollAssumption DEF Worker
  <2>3. PollPercent(worker[w].polls + 1) \in 0..100 BY <2>2 DEF PollPercent
  <2> QED BY <1>3, <1>b, <2>1, <2>3 DEF Poll
<1>4. ASSUME NEW w \in Workers, Complete(w) PROVE video' \in [Videos -> Row]
  <2>1. VideoOf(w) \in Videos BY <1>4, BusyFacts DEF Complete, At, Busy
  <2>2. CompletedRow(video[VideoOf(w)]) \in Row BY <1>0, <2>1, RewrittenRows
  <2> QED BY <1>0, <1>4, <1>a, <2>1, <2>2 DEF Complete
<1>5. ASSUME NEW w \in Workers, MarkFailed(w) PROVE video' \in [Videos -> Row]
  <2>1. VideoOf(w) \in Videos BY <1>5, BusyFacts DEF MarkFailed, At, Busy
  <2>2. FailedRow(video[VideoOf(w)]) \in Row BY <1>0, <2>1, RewrittenRows
  <2> QED BY <1>0, <1>5, <1>a, <2>1, <2>2 DEF MarkFailed
<1>6. ASSUME NEW s \in Status PROVE EmptyRow(s) \in Row
  <2>1. 0 \in 0..100 OBVIOUS
  <2> QED BY <2>1 DEF EmptyRow, Row, JobIds
<1>7. ASSUME NEW q \in Requests, NEW v \in Videos, CreateSave(q, v) PROVE video' \in [Videos -> Row]
  BY <1>6, <1>7, <1>a DEF CreateSave, Status, RowStatus
<1>8. ASSUME NEW q \in Requests, CreateLink(q) \/ RetryLink(q) PROVE video' \in [Videos -> Row]
  <2>1. request[q].video \in Videos
    BY <1>8 DEF RequestInv, RequestOK, Enqueued, CreateLink, RetryLink, RequestAt, RetryPc
  <2>2. [video EXCEPT ![request[q].video].queueJobId = q] \in [Videos -> Row]
    BY <1>0, <2>1 DEF Row, JobIds
  <2> QED BY <1>0, <1>8, <2>2 DEF CreateLink, RetryLink, LinkedRow
<1>9. ASSUME NEW q \in Requests, RetryReset(q) PROVE video' \in [Videos -> Row]
  <2>1. request[q].video \in Videos BY <1>9 DEF RequestInv, RequestOK, Enqueued, RetryReset, RequestAt, RetryPc
  <2>2. ResetRow(video[request[q].video]) \in Row BY <1>0, <2>1, RewrittenRows
  <2> QED BY <1>0, <1>9, <1>a, <2>1, <2>2 DEF RetryReset
<1>10. ASSUME NEW q \in Requests, PatchUpdate(q) \/ PatchInsert(q) PROVE video' \in [Videos -> Row]
  <2>1. request[q].video \in Videos /\ request[q].row \in Row
    BY <1>10 DEF RequestInv, RequestOK, Enqueued, PatchUpdate, PatchInsert, RequestAt, PatchPc, TypeOK, Request
  <2>2. Merge(video[request[q].video], request[q].row, request[q].columns) \in Row
    BY <1>0, <2>1 DEF Merge, Row
  <2> QED BY <1>0, <1>10, <1>a, <2>1, <2>2 DEF PatchUpdate, PatchInsert
<1>11. ASSUME NEW v \in Videos, Remove(v) PROVE video' \in [Videos -> Row]
  BY <1>6, <1>11, <1>a DEF Remove, Status
<1> QED BY <1>0, <1>1, <1>2, <1>3, <1>4, <1>5, <1>7, <1>8, <1>9, <1>10, <1>11, VideoSteps

\* Every step keeps the types of listener and dlq.
LEMMA ListenerType ==
  ASSUME TypeOK, JobInv, WorkerInv, RequestInv, Next
  PROVE  listener' \subseteq Listener /\ dlq' \in Seq(FailedJob)
<1>0. listener \subseteq Listener /\ dlq \in Seq(FailedJob) BY DEF TypeOK
<1>1. ASSUME NEW w \in Workers, EmitFailed(w)
      PROVE  listener' \subseteq Listener /\ UNCHANGED dlq
  <2>1. /\ VideoOf(w) \in Videos /\ worker[w].job \in Requests
        /\ worker[w].attemptsStarted \in Nat /\ worker[w].attemptsMade \in Nat
    BY <1>1, BusyFacts DEF EmitFailed, At, Busy, Worker
  <2>2. worker[w].attemptsMade + 1 \in Nat BY <2>1
  <2> QED BY <1>0, <1>1, <2>1, <2>2 DEF EmitFailed, Listener, JobIds
<1>2. ASSUME NEW w \in Workers, Crash(w)
      PROVE  listener' \subseteq Listener /\ UNCHANGED dlq
  BY <1>0, <1>2 DEF Crash
<1>3. ASSUME NEW t \in listener, ListenerRead(t)
      PROVE  listener' \subseteq Listener /\ UNCHANGED dlq
  <2>1. t \in Listener /\ video[t.video] \in Row BY <1>0 DEF TypeOK, Listener
  <2>2. ASSUME NEW id \in JobIds PROVE [t EXCEPT !.pc = "save", !.queueJobId = id] \in Listener
    BY <2>1 DEF Listener
  <2>3. video[t.video].queueJobId \in JobIds /\ None \in JobIds BY <2>1 DEF Row, JobIds
  <2> QED BY <1>0, <1>3, <2>2, <2>3 DEF ListenerRead
<1>4. ASSUME NEW t \in listener, ListenerSave(t)
      PROVE  listener' \subseteq Listener /\ dlq' \in Seq(FailedJob)
  <2>1. t \in Listener BY <1>0
  <2> QED BY <1>0, <1>4, <2>1 DEF ListenerSave, Listener, FailedJob, JobIds
<1>5. ASSUME NEW t \in listener, ListenerFault(t)
      PROVE  listener' \subseteq Listener /\ UNCHANGED dlq
  BY <1>0, <1>5 DEF ListenerFault
<1>6. ASSUME NEW q \in Requests, RetryMark(q)
      PROVE  UNCHANGED listener /\ dlq' \in Seq(FailedJob)
  <2>1. request[q].record \in 1..Len(dlq) BY <1>6 DEF RequestInv, RequestOK, Enqueued, RetryMark, RequestAt, RetryPc
  <2>2. dlq[request[q].record] \in FailedJob BY <1>0, <2>1
  <2>3. [dlq[request[q].record] EXCEPT !.retried = TRUE, !.retryJobId = q] \in FailedJob
    BY <2>2 DEF FailedJob, JobIds
  <2> QED BY <1>0, <1>6, <2>1, <2>3 DEF RetryMark
<1> QED BY <1>0, <1>1, <1>2, <1>3, <1>4, <1>5, <1>6, ListenerSteps

\* Every step keeps the type of request.
LEMMA RequestType ==
  ASSUME TypeOK, RequestInv, Next PROVE request' \in [Requests -> Request]
<1>0. request \in [Requests -> Request] BY DEF TypeOK
<1>a. ASSUME NEW q \in Requests, NEW r \in Request, request' = [request EXCEPT ![q] = r]
      PROVE  request' \in [Requests -> Request]
  BY <1>0, <1>a
<1>b. ASSUME NEW q \in Requests, NEW pc \in RequestPc, Advance(q, pc)
      PROVE  request' \in [Requests -> Request]
  BY <1>0, <1>b DEF Advance, Request
<1>1. ASSUME NEW q \in Requests,
             \/ CreateAdd(q) \/ CreateLink(q) \/ RetryReset(q) \/ RetryAdd(q) \/ RetryLink(q)
             \/ RetryMark(q) \/ PatchUpdate(q) \/ PatchInsert(q) \/ Abort(q)
      PROVE  request' \in [Requests -> Request]
  <2>1. PICK pc \in RequestPc : Advance(q, pc)
    BY <1>1 DEF CreateAdd, CreateLink, RetryReset, RetryAdd, RetryLink, RetryMark,
                PatchUpdate, PatchInsert, Abort, RequestPc, RetryPc
  <2> QED BY <1>b, <2>1
<1>2. ASSUME NEW q \in Requests, PatchSelect(q) PROVE request' \in [Requests -> Request]
  <2>1. ASSUME NEW pc \in RequestPc, NEW cs \in SUBSET Columns
        PROVE  [request[q] EXCEPT !.pc = pc, !.columns = cs] \in Request
    BY <1>0 DEF Request
  <2> QED BY <1>2, <1>a, <2>1 DEF PatchSelect, RequestPc
<1>3. ASSUME NEW q \in Requests, NEW v \in Videos, CreateSave(q, v)
      PROVE  request' \in [Requests -> Request]
  <2>1. [request[q] EXCEPT !.pc = "createAdd", !.video = v] \in Request
    BY <1>0 DEF Request, RequestPc
  <2> QED BY <1>3, <1>a, <2>1 DEF CreateSave
<1>4. ASSUME NEW q \in Requests, NEW v \in Videos, PatchRead(q, v)
      PROVE  request' \in [Requests -> Request]
  <2>1. video[v] \in Row BY DEF TypeOK
  <2>2. [request[q] EXCEPT !.pc = "patchSelect", !.video = v, !.row = video[v]] \in Request
    BY <1>0, <2>1 DEF Request, RequestPc
  <2> QED BY <1>4, <1>a, <2>2 DEF PatchRead
<1>5. ASSUME NEW q \in Requests, NEW i \in 1..Len(dlq), RetryRead(q, i)
      PROVE  request' \in [Requests -> Request]
  <2>0. dlq \in Seq(FailedJob) BY DEF TypeOK
  <2>1. dlq[i] \in FailedJob /\ i \in Nat BY <2>0
  <2>3. dlq[i].video \in Videos BY <2>1 DEF FailedJob
  <2>2. ASSUME NEW pc \in RequestPc
        PROVE  [request[q] EXCEPT !.pc = pc, !.video = dlq[i].video, !.record = i] \in Request
    BY <1>0, <2>1, <2>3 DEF Request
  <2> QED BY <1>5, <1>a, <2>2 DEF RetryRead, RequestPc, RetryPc
<1> QED BY <1>0, <1>1, <1>2, <1>3, <1>4, <1>5, RequestSteps DEF Serve, Accept

\* Every step keeps the types of the other variables.
LEMMA RestType ==
  ASSUME TypeOK, JobInv, WorkerInv, RequestInv, Next
  PROVE  /\ bucket' \subseteq Videos
         /\ crashes' \in Nat
         /\ lost' \in [Videos -> SUBSET LostCause]
<1>0. bucket \subseteq Videos /\ crashes \in Nat /\ lost \in [Videos -> SUBSET LostCause] BY DEF TypeOK
<1>1. bucket' \subseteq Videos
  <2>1. ASSUME NEW w \in Workers, Store(w) PROVE bucket' \subseteq Videos
    <3>1. VideoOf(w) \in Videos BY <2>1, BusyFacts DEF Store, At, Busy
    <3> QED BY <1>0, <2>1, <3>1 DEF Store
  <2> QED BY <1>0, <2>1, OtherSteps
<1>2. crashes' \in Nat
  <2>1. ASSUME NEW w \in Workers, Crash(w) PROVE crashes' \in Nat
    BY <1>0, <2>1 DEF Crash
  <2>2. ASSUME NEW q \in Requests, LoseLock(q) PROVE crashes' \in Nat
    BY <1>0, <2>2 DEF LoseLock
  <2> QED BY <1>0, <2>1, <2>2, OtherSteps
<1>3. lost' \in [Videos -> SUBSET LostCause]
  <2>a. ASSUME NEW v \in Videos, NEW c \in LostCause, lost' = [lost EXCEPT ![v] = lost[v] \cup {c}]
        PROVE  lost' \in [Videos -> SUBSET LostCause]
    BY <1>0, <2>a
  <2>1. ASSUME NEW w \in Workers, MarkFailedFault(w) PROVE lost' \in [Videos -> SUBSET LostCause]
    <3>1. VideoOf(w) \in Videos BY <2>1, BusyFacts DEF MarkFailedFault, At, Busy
    <3> QED BY <2>1, <2>a, <3>1 DEF MarkFailedFault, LostCause
  <2>2. ASSUME NEW w \in Workers, JobFailed(w) PROVE lost' \in [Videos -> SUBSET LostCause]
    <3>1. VideoOf(w) \in Videos BY <2>2, BusyFacts DEF JobFailed, At, Busy
    <3> QED BY <1>0, <2>2, <2>a, <3>1 DEF JobFailed, LostCause
  <2>3. ASSUME NEW w \in Workers, Crash(w) PROVE lost' \in [Videos -> SUBSET LostCause]
    <3>1. Busy(w) => VideoOf(w) \in Videos BY BusyFacts
    <3> QED BY <1>0, <2>3, <2>a, <3>1 DEF Crash, LostCause
  <2>4. ASSUME NEW q \in Requests, StalledCheck(q) PROVE lost' \in [Videos -> SUBSET LostCause]
    <3>1. job[q].video \in Videos BY <2>4 DEF StalledCheck, JobInv, Enqueued
    <3> QED BY <1>0, <2>4, <2>a, <3>1 DEF StalledCheck, LostCause
  <2>5. ASSUME NEW q \in Requests, Abort(q) PROVE lost' \in [Videos -> SUBSET LostCause]
    <3>1. request[q].video \in Videos BY <2>5 DEF Abort, RequestInv, RequestOK, RetryPc
    <3> QED BY <1>0, <2>5, <2>a, <3>1 DEF Abort, LostCause
  <2>6. ASSUME NEW q \in Requests, PatchUpdate(q) \/ PatchInsert(q)
        PROVE  lost' \in [Videos -> SUBSET LostCause]
    <3>1. request[q].video \in Videos
      BY <2>6 DEF PatchUpdate, PatchInsert, RequestAt, RequestInv, RequestOK, PatchPc
    <3> QED BY <1>0, <2>6, <2>a, <3>1 DEF PatchUpdate, PatchInsert, LostCause
  <2> QED BY <1>0, <2>1, <2>2, <2>3, <2>4, <2>5, <2>6, OtherSteps
<1> QED BY <1>1, <1>2, <1>3

\* Every step keeps TypeOK.
LEMMA TypeStep ==
  ASSUME TypeOK, JobInv, WorkerInv, RequestInv, Next PROVE TypeOK'
BY VideoType, JobType, WorkerType, ListenerType, RequestType, RestType DEF TypeOK

-----------------------------------------------------------------------------
\* A request adds its job once, and nothing ever removes it.
LEMMA JobsKeptStep ==
  ASSUME TypeOK, JobInv, WorkerInv, RequestInv, Next
  PROVE  JobsKept
<1>0. job \in [Requests -> Job] BY DEF TypeOK
<1> USE DEF JobsKept, Enqueued
<1>1. ASSUME NEW w \in Workers, NEW q \in Requests, Fetch(w, q) PROVE JobsKept
  <2>1. \A p \in Requests \ {q} : job'[p] = job[p] BY <1>0, <1>1 DEF Fetch
  <2>2. /\ job'[q].state = "active"
        /\ job'[q].video = job[q].video
        /\ job'[q].attempts = job[q].attempts
    BY <1>0, <1>1 DEF Fetch, Job
  <2> QED BY <2>1, <2>2
<1>2. ASSUME NEW w \in Workers, JobCompleted(w) PROVE JobsKept
  <2>1. worker[w].job \in Requests BY <1>2, BusyFacts DEF JobCompleted, At, Busy
  <2> QED BY <1>0, <1>2, <2>1 DEF JobCompleted, Job
<1>3. ASSUME NEW w \in Workers, JobFailed(w) PROVE JobsKept
  <2>1. worker[w].job \in Requests BY <1>3, BusyFacts DEF JobFailed, At, Busy
  <2> QED BY <1>0, <1>3, <2>1 DEF JobFailed, Job
<1>4. ASSUME NEW w \in Workers, Crash(w) PROVE JobsKept
  <2>1. Busy(w) => worker[w].job \in Requests BY BusyFacts
  <2> QED BY <1>0, <1>4, <2>1 DEF Crash, Job
<1>5. ASSUME NEW q \in Requests, CreateAdd(q) \/ RetryAdd(q) PROVE JobsKept
  <2>1. job[q].state = "none" BY <1>5 DEF CreateAdd, RetryAdd, RequestAt, RequestInv, RequestOK, Enqueued
  <2> QED BY <1>0, <1>5, <2>1 DEF CreateAdd, RetryAdd
<1>6. ASSUME NEW q \in Requests, LoseLock(q) PROVE JobsKept
  BY <1>0, <1>6 DEF LoseLock, Job
<1>7. ASSUME NEW q \in Requests, StalledCheck(q) PROVE JobsKept
  <2>1. \A p \in Requests \ {q} : job'[p] = job[p] BY <1>0, <1>7 DEF StalledCheck
  <2>2. /\ job'[q].state \in {"wait", "failed"}
        /\ job'[q].video = job[q].video
        /\ job'[q].attempts = job[q].attempts
    BY <1>0, <1>7 DEF StalledCheck, Job
  <2> QED BY <2>1, <2>2
<1> QED BY <1>1, <1>2, <1>3, <1>4, <1>5, <1>6, <1>7, JobSteps

\* Every step keeps JobInv.
LEMMA JobInvStep ==
  ASSUME TypeOK, JobInv, WorkerInv, RequestInv, Next
  PROVE  JobInv'
<1>0. job \in [Requests -> Job] BY DEF TypeOK
<1> USE DEF JobInv, Enqueued, Live
<1>1. ASSUME NEW w \in Workers, NEW q \in Requests, Fetch(w, q) PROVE JobInv'
  BY <1>0, <1>1 DEF Fetch, Job
<1>2. ASSUME NEW w \in Workers, JobCompleted(w) PROVE JobInv'
  <2>1. worker[w].job \in Requests /\ Enqueued(worker[w].job)
    BY <1>2 DEF WorkerInv, JobCompleted, At, Busy
  <2> QED BY <1>0, <1>2, <2>1 DEF JobCompleted, Job
<1>3. ASSUME NEW w \in Workers, JobFailed(w) PROVE JobInv'
  <2>1. worker[w].job \in Requests /\ Enqueued(worker[w].job)
    BY <1>3 DEF WorkerInv, JobFailed, At, Busy
  <2> QED BY <1>0, <1>3, <2>1 DEF JobFailed, Job, JobOf
<1>4. ASSUME NEW w \in Workers, Crash(w) PROVE JobInv'
  <2>1. Busy(w) => worker[w].job \in Requests BY BusyFacts
  <2> QED BY <1>0, <1>4, <2>1 DEF Crash, Job
<1>5. ASSUME NEW q \in Requests, CreateAdd(q) \/ RetryAdd(q) PROVE JobInv'
  <2>1. request[q].video \in Videos
    BY <1>5 DEF RequestInv, RequestOK, Enqueued, CreateAdd, RetryAdd, RequestAt, RetryPc
  <2>2. ASSUME NEW n \in Nat \ {0}
        PROVE  LET j == NewJob(request[q].video, n)
               IN  /\ j.video = request[q].video
                   /\ j.attempts = n /\ j.attemptsMade = 0
    BY DEF NewJob, NoJob
  <2>3. CreateAttempts \in Nat \ {0} /\ RetryAttempts \in Nat \ {0}
    BY RetryAssumption DEF CreateAttempts
  <2> QED BY <1>0, <1>5, <2>1, <2>2, <2>3 DEF CreateAdd, RetryAdd
<1>6. ASSUME NEW q \in Requests, LoseLock(q) \/ StalledCheck(q) PROVE JobInv'
  BY <1>0, <1>6 DEF LoseLock, StalledCheck, Job
<1> QED BY <1>1, <1>2, <1>3, <1>4, <1>5, <1>6, JobSteps

\* A delivery that survives a step keeps its job and its attempt number.
LEMMA WorkerInvStep ==
  ASSUME TypeOK, JobInv, WorkerInv, RequestInv, Next
  PROVE  WorkerInv'
<1>0. worker \in [Workers -> Worker] BY DEF TypeOK
<1>1. JobsKept BY JobsKeptStep
<1>2. SUFFICES ASSUME NEW w \in Workers, Busy(w)'
               PROVE  /\ worker'[w].job \in Requests
                      /\ job'[worker'[w].job].state # "none"
                      /\ worker'[w].attemptsMade < job'[worker'[w].job].attempts
                      /\ worker'[w].pc = "emit" =>
                           worker'[w].attemptsMade >= job'[worker'[w].job].attempts - 1
  BY DEF WorkerInv, Enqueued, JobOf, At, isFinalAttempt
<1>a. ASSUME Busy(w), worker'[w].job = worker[w].job,
             worker'[w].attemptsMade = worker[w].attemptsMade,
             worker'[w].pc = "emit" => isFinalAttempt(w)
      PROVE  /\ worker'[w].job \in Requests
             /\ job'[worker'[w].job].state # "none"
             /\ worker'[w].attemptsMade < job'[worker'[w].job].attempts
             /\ worker'[w].pc = "emit" =>
                  worker'[w].attemptsMade >= job'[worker'[w].job].attempts - 1
  <2>1. /\ worker[w].job \in Requests /\ Enqueued(worker[w].job)
        /\ worker[w].attemptsMade < JobOf(w).attempts
    BY <1>a DEF WorkerInv
  <2> QED BY <1>1, <1>a, <2>1 DEF JobsKept, JobOf, isFinalAttempt
<1>3. CASE worker'[w] = worker[w]
  <2>1. Busy(w) BY <1>2, <1>3 DEF Busy
  <2>2. worker[w].pc = "emit" => isFinalAttempt(w) BY <2>1 DEF WorkerInv, At
  <2> QED BY <1>3, <1>a, <2>1, <2>2
<1>4. ASSUME NEW q \in Requests, Fetch(w, q)
      PROVE  /\ worker'[w].job \in Requests
             /\ job'[worker'[w].job].state # "none"
             /\ worker'[w].attemptsMade < job'[worker'[w].job].attempts
             /\ worker'[w].pc # "emit"
  <2>1. /\ worker'[w].job = q /\ worker'[w].pc = "find"
        /\ worker'[w].attemptsMade = job[q].attemptsMade
    BY <1>0, <1>4 DEF Fetch, Idle
  <2>2. Enqueued(q) /\ job[q].attemptsMade < job[q].attempts
    BY <1>4 DEF Fetch, JobInv, Live, Enqueued
  <2> QED BY <1>1, <2>1, <2>2 DEF JobsKept
<1>5. ASSUME NEW pc, Goto(w, pc), Busy(w), pc = "emit" => isFinalAttempt(w)
      PROVE  /\ worker'[w].job \in Requests
             /\ job'[worker'[w].job].state # "none"
             /\ worker'[w].attemptsMade < job'[worker'[w].job].attempts
             /\ worker'[w].pc = "emit" =>
                  worker'[w].attemptsMade >= job'[worker'[w].job].attempts - 1
  <2>1. /\ worker'[w].job = worker[w].job /\ worker'[w].pc = pc
        /\ worker'[w].attemptsMade = worker[w].attemptsMade
    BY <1>0, <1>5 DEF Goto, Worker
  <2> QED BY <1>5, <1>a, <2>1
<1>6. ASSUME FindById(w) \/ Poll(w)
      PROVE  /\ Busy(w)
             /\ worker'[w].job = worker[w].job /\ worker'[w].pc # "emit"
             /\ worker'[w].attemptsMade = worker[w].attemptsMade
  <2>1. CASE FindById(w)
    <3>1. CASE Exists(VideoOf(w)) BY <1>0, <2>1, <3>1 DEF FindById, At, Busy, Worker
    <3>2. CASE ~Exists(VideoOf(w)) BY <1>0, <2>1, <3>2 DEF FindById, Goto, At, Busy, Worker
    <3> QED BY <3>1, <3>2
  <2>2. CASE Poll(w)
    <3>1. CASE \E pc \in {"complete", "store", "catch"} : Goto(w, pc)
      BY <1>0, <2>2, <3>1 DEF Poll, Goto, At, Busy, Worker
    <3>2. CASE worker' = [worker EXCEPT ![w].polls = worker[w].polls + 1]
      BY <1>0, <2>2, <3>2 DEF Poll, At, Busy, Worker
    <3> QED BY <2>2, <3>1, <3>2 DEF Poll
  <2> QED BY <1>6, <2>1, <2>2
<1>7. ASSUME \/ Handle(w) \/ Fault(w) \/ MarkFailedFault(w) \/ Crash(w)
             \/ \E q \in Requests : Fetch(w, q)
      PROVE  /\ worker'[w].job \in Requests
             /\ job'[worker'[w].job].state # "none"
             /\ worker'[w].attemptsMade < job'[worker'[w].job].attempts
             /\ worker'[w].pc = "emit" =>
                  worker'[w].attemptsMade >= job'[worker'[w].job].attempts - 1
  <2>1. CASE MarkFailed(w) BY <1>5, <2>1 DEF MarkFailed, At, Busy
  <2>2. CASE \/ StartAttempt(w) \/ EnhancePrompt(w) \/ GenerateVideo(w) \/ Store(w)
             \/ Complete(w) \/ ReportCompleted(w) \/ EmitFailed(w)
             \/ Rethrow(w) \/ Fault(w) \/ MarkFailedFault(w)
    <3>1. Busy(w) /\ \E pc \in WorkerPc \ {"emit"} : Goto(w, pc)
      BY <2>2 DEF StartAttempt, EnhancePrompt, GenerateVideo, Store, Complete, ReportCompleted,
         EmitFailed, Rethrow, Fault, MarkFailedFault, WorkerPc, TryPc, At, Busy
    <3> QED BY <1>5, <3>1
  <2>3. CASE FindById(w) \/ Poll(w) BY <1>6, <1>a, <2>3
  <2>4. CASE JobCompleted(w) \/ JobFailed(w) \/ Crash(w)
    BY <1>0, <1>2, <2>4 DEF JobCompleted, JobFailed, Crash, Busy, Idle
  <2> QED BY <1>4, <1>7, <2>1, <2>2, <2>3, <2>4 DEF Handle
<1>8. ASSUME NEW u \in Workers \ {w},
             \/ Handle(u) \/ Fault(u) \/ MarkFailedFault(u) \/ Crash(u)
             \/ \E q \in Requests : Fetch(u, q)
      PROVE  worker'[w] = worker[w]
  BY <1>0, <1>8 DEF Handle, Fetch, FindById, StartAttempt, EnhancePrompt, GenerateVideo, Poll,
     Store, Complete, ReportCompleted, MarkFailed, EmitFailed, Rethrow, Fault,
     MarkFailedFault, JobCompleted, JobFailed, Crash, Goto
<1> QED BY <1>3, <1>7, <1>8, WorkerSteps

\* Every step keeps ListenerInv.
LEMMA ListenerInvStep ==
  ASSUME TypeOK, JobInv, WorkerInv, ListenerInv, RequestInv, Next
  PROVE  ListenerInv'
<1>1. JobsKept BY JobsKeptStep
<1>2. listener \subseteq Listener BY DEF TypeOK
<1>3. SUFFICES ASSUME NEW t \in listener'
               PROVE  /\ job'[t.job].state # "none"
                      /\ job'[t.job].video = t.video
                      /\ job'[t.job].attempts = t.attemptsMade
  BY DEF ListenerInv, Enqueued
<1>4. ASSUME NEW u \in listener, t.job = u.job, t.video = u.video, t.attemptsMade = u.attemptsMade
      PROVE  /\ job'[t.job].state # "none"
             /\ job'[t.job].video = t.video
             /\ job'[t.job].attempts = t.attemptsMade
  <2>1. u.job \in Requests BY <1>2 DEF Listener
  <2>2. Enqueued(u.job) /\ job[u.job].video = u.video /\ job[u.job].attempts = u.attemptsMade
    BY DEF ListenerInv
  <2> QED BY <1>1, <1>4, <2>1, <2>2 DEF JobsKept
<1>5. ASSUME NEW w \in Workers, EmitFailed(w), t \notin listener
      PROVE  /\ job'[t.job].state # "none"
             /\ job'[t.job].video = t.video
             /\ job'[t.job].attempts = t.attemptsMade
  <2>1. /\ t.job = worker[w].job /\ t.video = VideoOf(w)
        /\ t.attemptsMade = worker[w].attemptsMade + 1
    BY <1>3, <1>5 DEF EmitFailed
  <2>2. Busy(w) /\ isFinalAttempt(w) /\ UNCHANGED job
    BY <1>5 DEF EmitFailed, WorkerInv, At, Busy
  <2>3. /\ Enqueued(worker[w].job) /\ worker[w].attemptsMade < JobOf(w).attempts
    BY <2>2 DEF WorkerInv
  <2>4. worker[w].attemptsMade \in Nat /\ JobOf(w).attempts \in Nat
    BY <2>2, BusyFacts DEF Worker, Job
  <2> QED BY <2>1, <2>2, <2>3, <2>4 DEF isFinalAttempt, JobOf, VideoOf, Enqueued
<1>6. ASSUME NEW u \in listener, ListenerRead(u), t \notin listener
      PROVE  t.job = u.job /\ t.video = u.video /\ t.attemptsMade = u.attemptsMade
  <2>1. u \in Listener BY <1>2
  <2> QED BY <1>3, <1>6, <2>1 DEF ListenerRead, Listener
<1>7. CASE t \in listener BY <1>4, <1>7
<1>8. CASE t \notin listener
  <2>1. \/ \E w \in Workers : EmitFailed(w)
        \/ \E u \in listener : ListenerRead(u)
    BY <1>3, <1>8, ListenerSteps DEF Crash, ListenerSave, ListenerFault, RetryMark
  <2> QED BY <1>4, <1>5, <1>6, <1>8, <2>1
<1> QED BY <1>7, <1>8

\* Every step keeps RecordsAreExhausted: the listener of a last attempt is all
\* that appends to the DLQ.
LEMMA RecordsStep ==
  ASSUME TypeOK, JobInv, WorkerInv, ListenerInv, RequestInv, RecordsAreExhausted, Next
  PROVE  RecordsAreExhausted'
<1>1. JobsKept BY JobsKeptStep
<1>2. dlq \in Seq(FailedJob) /\ listener \subseteq Listener BY DEF TypeOK
<1>3. SUFFICES ASSUME NEW i \in 1..Len(dlq')
               PROVE  /\ job'[dlq'[i].job].state # "none"
                      /\ job'[dlq'[i].job].video = dlq'[i].video
                      /\ dlq'[i].attemptsMade = job'[dlq'[i].job].attempts
  BY DEF RecordsAreExhausted
<1>4. ASSUME i \in 1..Len(dlq), dlq'[i].job = dlq[i].job, dlq'[i].video = dlq[i].video,
             dlq'[i].attemptsMade = dlq[i].attemptsMade
      PROVE  /\ job'[dlq'[i].job].state # "none"
             /\ job'[dlq'[i].job].video = dlq'[i].video
             /\ dlq'[i].attemptsMade = job'[dlq'[i].job].attempts
  <2>1. dlq[i] \in FailedJob BY <1>2, <1>4
  <2>2. dlq[i].job \in Requests BY <2>1 DEF FailedJob
  <2> QED BY <1>1, <1>4, <2>2 DEF JobsKept, Enqueued, RecordsAreExhausted
<1>5. CASE UNCHANGED dlq BY <1>3, <1>4, <1>5
<1>6. ASSUME NEW t \in listener, ListenerSave(t)
      PROVE  /\ job'[dlq'[i].job].state # "none"
             /\ job'[dlq'[i].job].video = dlq'[i].video
             /\ dlq'[i].attemptsMade = job'[dlq'[i].job].attempts
  <2>1. t \in Listener BY <1>2
  <2>2. t.job \in Requests BY <2>1 DEF Listener
  <2>3. CASE i \in 1..Len(dlq)
    <3>1. dlq'[i] = dlq[i] BY <1>2, <1>6, <2>3 DEF ListenerSave
    <3> QED BY <1>4, <2>3, <3>1
  <2>4. CASE i \notin 1..Len(dlq)
    <3>1. /\ dlq'[i].job = t.job /\ dlq'[i].video = t.video
          /\ dlq'[i].attemptsMade = t.attemptsMade
      BY <1>2, <1>3, <1>6, <2>4 DEF ListenerSave
    <3> QED BY <1>1, <2>2, <3>1 DEF ListenerInv, JobsKept, Enqueued
  <2> QED BY <2>3, <2>4
<1>7. ASSUME NEW q \in Requests, RetryMark(q)
      PROVE  /\ job'[dlq'[i].job].state # "none"
             /\ job'[dlq'[i].job].video = dlq'[i].video
             /\ dlq'[i].attemptsMade = job'[dlq'[i].job].attempts
  <2>1. i \in 1..Len(dlq) BY <1>2, <1>3, <1>7 DEF RetryMark
  <2>2. dlq[i] \in FailedJob BY <1>2, <2>1
  <2>3. /\ dlq'[i].job = dlq[i].job /\ dlq'[i].video = dlq[i].video
        /\ dlq'[i].attemptsMade = dlq[i].attemptsMade
    BY <1>2, <1>7, <2>1, <2>2 DEF RetryMark, FailedJob
  <2> QED BY <1>4, <2>1, <2>3
<1> QED BY <1>5, <1>6, <1>7, ListenerSteps DEF EmitFailed, Crash, ListenerRead, ListenerFault

\* Every step keeps RetriedHasJob: only RetryMark sets the flag, after RetryAdd.
LEMMA RetriedStep ==
  ASSUME TypeOK, JobInv, WorkerInv, RequestInv, RetriedHasJob, Next
  PROVE  RetriedHasJob'
<1>1. JobsKept BY JobsKeptStep
<1>2. dlq \in Seq(FailedJob) BY DEF TypeOK
<1> DEFINE Good(i) == /\ dlq'[i].retryJobId \in Requests
                      /\ job'[dlq'[i].retryJobId].state # "none"
                      /\ job'[dlq'[i].retryJobId].video = dlq'[i].video
                      /\ job'[dlq'[i].retryJobId].attempts = RetryAttempts
<1>3. SUFFICES ASSUME NEW i \in 1..Len(dlq'), dlq'[i].retried PROVE Good(i)
  BY DEF RetriedHasJob
<1>4. ASSUME i \in 1..Len(dlq), dlq'[i] = dlq[i] PROVE Good(i)
  BY <1>1, <1>3, <1>4 DEF RetriedHasJob, JobsKept, Enqueued
<1>5. CASE UNCHANGED dlq BY <1>3, <1>4, <1>5
<1>6. ASSUME NEW t \in listener, ListenerSave(t) PROVE Good(i)
  <2>1. CASE i \in 1..Len(dlq)
    <3>1. dlq'[i] = dlq[i] BY <1>2, <1>6, <2>1 DEF ListenerSave
    <3> QED BY <1>4, <2>1, <3>1
  <2>2. CASE i \notin 1..Len(dlq)
    <3>1. dlq'[i].retried = FALSE BY <1>2, <1>3, <1>6, <2>2 DEF ListenerSave
    <3> QED BY <1>3, <3>1
  <2> QED BY <2>1, <2>2
<1>7. ASSUME NEW q \in Requests, RetryMark(q) PROVE Good(i)
  <2>1. i \in 1..Len(dlq) BY <1>2, <1>3, <1>7 DEF RetryMark
  <2>2. dlq[i] \in FailedJob BY <1>2, <2>1
  <2>3. CASE i = request[q].record
    <3>1. dlq'[i].retryJobId = q /\ dlq'[i].video = dlq[i].video
      BY <1>2, <1>7, <2>1, <2>2, <2>3 DEF RetryMark, FailedJob
    <3>2. /\ Enqueued(q) /\ job[q].video = dlq[i].video
          /\ job[q].attempts = RetryAttempts
      BY <1>7, <2>3 DEF RequestInv, RequestOK, RetryMark, RequestAt, RetryPc
    <3> QED BY <1>1, <3>1, <3>2 DEF JobsKept
  <2>4. CASE i # request[q].record
    <3>1. dlq'[i] = dlq[i] BY <1>2, <1>7, <2>1, <2>4 DEF RetryMark
    <3> QED BY <1>4, <2>1, <3>1
  <2> QED BY <2>3, <2>4
<1> QED BY <1>5, <1>6, <1>7, ListenerSteps DEF EmitFailed, Crash, ListenerRead, ListenerFault

\* Every step keeps QueueJobIdSound.
LEMMA QueueJobIdStep ==
  ASSUME TypeOK, JobInv, WorkerInv, RequestInv, QueueJobIdSound, Next
  PROVE  QueueJobIdSound'
<1>1. JobsKept BY JobsKeptStep
<1>2. video \in [Videos -> Row] BY DEF TypeOK
<1> DEFINE Good(v) == /\ job'[video'[v].queueJobId].state # "none"
                      /\ job'[video'[v].queueJobId].video = v
<1>3. SUFFICES ASSUME NEW v \in Videos, video'[v].queueJobId # None PROVE Good(v)
  BY DEF QueueJobIdSound
<1>4. ASSUME NEW id, id = video'[v].queueJobId, id \in Requests,
             Enqueued(id), job[id].video = v
      PROVE  Good(v)
  BY <1>1, <1>4 DEF JobsKept
<1>5. ASSUME video'[v].queueJobId = video[v].queueJobId PROVE Good(v)
  <2>1. video[v].queueJobId \in Requests BY <1>2, <1>3, <1>5 DEF Row, JobIds
  <2> QED BY <1>3, <1>4, <1>5, <2>1 DEF QueueJobIdSound, Enqueued
<1>6. ASSUME NEW w \in Workers,
             \/ StartAttempt(w) \/ EnhancePrompt(w) \/ GenerateVideo(w)
             \/ Poll(w) \/ Complete(w) \/ MarkFailed(w)
      PROVE  video'[v].queueJobId = video[v].queueJobId
  <2>1. CASE StartAttempt(w) BY <1>2, <2>1 DEF StartAttempt, Row
  <2>2. CASE EnhancePrompt(w) \/ GenerateVideo(w) \/ Poll(w)
    <3>1. \E p : UpdateProgress(VideoOf(w), p) BY <2>2 DEF EnhancePrompt, GenerateVideo, Poll
    <3> QED BY <1>2, <3>1 DEF UpdateProgress, Row
  <2>3. CASE Complete(w) BY <1>2, <2>3 DEF Complete, CompletedRow, Row
  <2>4. CASE MarkFailed(w) BY <1>2, <2>4 DEF MarkFailed, FailedRow, Row
  <2> QED BY <1>6, <2>1, <2>2, <2>3, <2>4
<1>7. ASSUME NEW u \in Videos, NEW q \in Requests, CreateSave(q, u) PROVE Good(v)
  <2>1. video'[v].queueJobId \in {video[v].queueJobId, None}
    BY <1>2, <1>7 DEF CreateSave, EmptyRow
  <2> QED BY <1>3, <1>5, <2>1
<1>8. ASSUME NEW u \in Videos, Remove(u) PROVE Good(v)
  <2>1. video'[v].queueJobId \in {video[v].queueJobId, None}
    BY <1>2, <1>8 DEF Remove, EmptyRow
  <2> QED BY <1>3, <1>5, <2>1
<1>9. ASSUME NEW q \in Requests, CreateLink(q) \/ RetryLink(q) PROVE Good(v)
  <2>1. Enqueued(q) /\ job[q].video = request[q].video
    BY <1>9 DEF RequestInv, RequestOK, CreateLink, RetryLink, RequestAt
  <2>2. \/ video'[v].queueJobId = video[v].queueJobId
        \/ request[q].video = v /\ video'[v].queueJobId = q
    BY <1>2, <1>9 DEF CreateLink, RetryLink, LinkedRow, Row
  <2> QED BY <1>4, <1>5, <2>1, <2>2
<1>10. ASSUME NEW q \in Requests, RetryReset(q) PROVE Good(v)
  <2>1. video'[v].queueJobId \in {video[v].queueJobId, None}
    BY <1>2, <1>10 DEF RetryReset, ResetRow, Row
  <2> QED BY <1>3, <1>5, <2>1
<1>11. ASSUME NEW q \in Requests, PatchUpdate(q) \/ PatchInsert(q) PROVE Good(v)
  <2>1. \/ video'[v].queueJobId = video[v].queueJobId
        \/ request[q].video = v /\ video'[v].queueJobId = request[q].row.queueJobId
    BY <1>2, <1>11 DEF PatchUpdate, PatchInsert, Merge, Row
  <2>2. request[q].row.queueJobId # None =>
          /\ Enqueued(request[q].row.queueJobId)
          /\ job[request[q].row.queueJobId].video = request[q].video
    BY <1>11 DEF RequestInv, RequestOK, PatchUpdate, PatchInsert, RequestAt, PatchPc
  <2>3. request[q].row.queueJobId \in JobIds BY DEF TypeOK, Request, Row
  <2> QED BY <1>3, <1>4, <1>5, <2>1, <2>2, <2>3 DEF JobIds
<1> QED BY <1>5, <1>6, <1>7, <1>8, <1>9, <1>10, <1>11, VideoSteps

\* What the two enqueuing steps leave in the queue.
LEMMA NewJobStep ==
  ASSUME TypeOK, JobInv, WorkerInv, RequestInv, Next, NEW q \in Requests, ~Enqueued(q)
  PROVE  \/ job'[q].state = "none"
         \/ CreateAdd(q) \/ RetryAdd(q)
<1>0. job \in [Requests -> Job] BY DEF TypeOK
<1>1. ASSUME NEW w \in Workers, NEW p \in Requests, Fetch(w, p) PROVE job'[q] = job[q]
  BY <1>0, <1>1 DEF Fetch, Enqueued
<1>2. ASSUME NEW w \in Workers, JobCompleted(w) \/ JobFailed(w) \/ Crash(w)
      PROVE  job'[q] = job[q]
  <2>1. Busy(w) => worker[w].job \in Requests /\ worker[w].job # q
    BY DEF WorkerInv
  <2>2. CASE JobCompleted(w) BY <1>0, <2>1, <2>2 DEF JobCompleted, At, Busy
  <2>3. CASE JobFailed(w) BY <1>0, <2>1, <2>3 DEF JobFailed, At, Busy
  <2>4. CASE Crash(w) BY <1>0, <2>1, <2>4 DEF Crash
  <2> QED BY <1>2, <2>2, <2>3, <2>4
<1>3. ASSUME NEW p \in Requests, LoseLock(p) \/ StalledCheck(p) PROVE job'[q] = job[q]
  BY <1>0, <1>3 DEF LoseLock, StalledCheck, Enqueued
<1>4. ASSUME NEW p \in Requests, CreateAdd(p) \/ RetryAdd(p) PROVE p = q \/ job'[q] = job[q]
  BY <1>0, <1>4 DEF CreateAdd, RetryAdd
<1> QED BY <1>1, <1>2, <1>3, <1>4, JobSteps DEF Enqueued

\* A step removes no DLQ record and changes no record's video.
LEMMA RecordsKept ==
  ASSUME TypeOK, RequestInv, Next, NEW i \in 1..Len(dlq)
  PROVE  i \in 1..Len(dlq') /\ dlq'[i].video = dlq[i].video
<1>0. dlq \in Seq(FailedJob) BY DEF TypeOK
<1>1. ASSUME NEW t \in listener, ListenerSave(t)
      PROVE  i \in 1..Len(dlq') /\ dlq'[i].video = dlq[i].video
  BY <1>0, <1>1 DEF ListenerSave
<1>2. ASSUME NEW q \in Requests, RetryMark(q)
      PROVE  i \in 1..Len(dlq') /\ dlq'[i].video = dlq[i].video
  <2>1. dlq[i] \in FailedJob BY <1>0
  <2> QED BY <1>0, <1>2, <2>1 DEF RetryMark, FailedJob
<1> QED BY <1>1, <1>2, ListenerSteps DEF EmitFailed, Crash, ListenerRead, ListenerFault

\* Every step keeps RequestInv.
LEMMA RequestInvStep ==
  ASSUME TypeOK, JobInv, WorkerInv, RequestInv, QueueJobIdSound, Next
  PROVE  RequestInv'
<1>0. request \in [Requests -> Request] /\ job \in [Requests -> Job] BY DEF TypeOK
<1>1. JobsKept BY JobsKeptStep
<1>2. SUFFICES ASSUME NEW q \in Requests PROVE RequestOK(q)'
  BY DEF RequestInv
<1>3. RequestOK(q) BY DEF RequestInv
<1>4. ASSUME request'[q] = request[q], Enqueued(q) \/ job'[q].state = "none"
      PROVE  RequestOK(q)'
  <2>1. request[q].row.queueJobId \in JobIds BY <1>0 DEF Request, Row
  <2>2. request[q].record \in 1..Len(dlq) =>
          /\ request[q].record \in 1..Len(dlq')
          /\ dlq'[request[q].record].video = dlq[request[q].record].video
    BY RecordsKept
  <2> QED BY <1>1, <1>3, <1>4, <2>1, <2>2 DEF RequestOK, Enqueued, JobsKept, JobIds
<1>5. ASSUME CreateAdd(q) PROVE RequestOK(q)'
  <2>1. request'[q] = [request[q] EXCEPT !.pc = "createLink"] /\ request[q].video \in Videos
    BY <1>0, <1>3, <1>5 DEF CreateAdd, Advance, RequestAt, RequestOK
  <2>2. job'[q] = NewJob(request[q].video, CreateAttempts) BY <1>0, <1>5 DEF CreateAdd
  <2>3. job'[q].state = "wait" /\ job'[q].video = request[q].video
    BY <2>2 DEF NewJob, NoJob
  <2>4. request'[q].pc = "createLink" /\ request'[q].video = request[q].video
    BY <1>0, <2>1 DEF Request
  <2> QED BY <2>1, <2>3, <2>4 DEF RequestOK, Enqueued, RetryPc, PatchPc
<1>6. ASSUME RetryAdd(q) PROVE RequestOK(q)'
  <2>1. /\ request'[q] = [request[q] EXCEPT !.pc = "retryLink"]
        /\ request[q].video \in Videos
        /\ request[q].record \in 1..Len(dlq)
        /\ dlq[request[q].record].video = request[q].video
        /\ UNCHANGED dlq
    BY <1>0, <1>3, <1>6 DEF RetryAdd, Advance, RequestAt, RequestOK, RetryPc
  <2>2. job'[q] = NewJob(request[q].video, RetryAttempts) BY <1>0, <1>6 DEF RetryAdd
  <2>3. /\ job'[q].state = "wait" /\ job'[q].video = request[q].video
        /\ job'[q].attempts = RetryAttempts
    BY <2>2 DEF NewJob, NoJob
  <2>4. /\ request'[q].pc = "retryLink" /\ request'[q].video = request[q].video
        /\ request'[q].record = request[q].record
    BY <1>0, <2>1 DEF Request
  <2> QED BY <2>1, <2>3, <2>4 DEF RequestOK, Enqueued, RetryPc, PatchPc
<1>7. ASSUME RetryReset(q) PROVE RequestOK(q)'
  <2>1. /\ request'[q] = [request[q] EXCEPT !.pc = "retryAdd"]
        /\ request[q].pc = "retryReset" /\ UNCHANGED <<job, dlq>>
    BY <1>0, <1>7 DEF RetryReset, Advance, RequestAt
  <2>2. /\ request'[q].pc = "retryAdd" /\ request'[q].video = request[q].video
        /\ request'[q].record = request[q].record
    BY <1>0, <2>1 DEF Request
  <2> QED BY <1>3, <2>1, <2>2 DEF RequestOK, Enqueued, RetryPc, PatchPc
<1>8. ASSUME RetryLink(q) PROVE RequestOK(q)'
  <2>1. /\ request'[q] = [request[q] EXCEPT !.pc = "retryMark"]
        /\ request[q].pc = "retryLink" /\ UNCHANGED <<job, dlq>>
    BY <1>0, <1>8 DEF RetryLink, Advance, RequestAt
  <2>2. /\ request'[q].pc = "retryMark" /\ request'[q].video = request[q].video
        /\ request'[q].record = request[q].record
    BY <1>0, <2>1 DEF Request
  <2> QED BY <1>3, <2>1, <2>2 DEF RequestOK, Enqueued, RetryPc, PatchPc
<1>9. ASSUME \/ CreateLink(q) \/ RetryMark(q) \/ PatchUpdate(q) \/ PatchInsert(q) \/ Abort(q)
      PROVE  RequestOK(q)'
  <2>1. request'[q].pc \in {"done", "aborted"}
    BY <1>0, <1>9 DEF CreateLink, RetryMark, PatchUpdate, PatchInsert, Abort, Advance, Request
  <2> QED BY <2>1 DEF RequestOK, RetryPc, PatchPc
<1>10. ASSUME PatchSelect(q) PROVE RequestOK(q)'
  <2>1. /\ request[q].pc = "patchSelect" /\ UNCHANGED <<job, dlq>>
        /\ request'[q].pc \in {"patchUpdate", "patchInsert"}
        /\ request'[q].video = request[q].video /\ request'[q].row = request[q].row
    BY <1>0, <1>10 DEF PatchSelect, RequestAt, Request
  <2> QED BY <1>3, <2>1 DEF RequestOK, Enqueued, RetryPc, PatchPc
<1>11. ASSUME NEW v \in Videos, CreateSave(q, v) PROVE RequestOK(q)'
  <2>1. /\ request[q].pc = "idle" /\ UNCHANGED <<job, dlq>>
        /\ request'[q].pc = "createAdd" /\ request'[q].video = v
    BY <1>0, <1>11 DEF CreateSave, RequestAt, Request
  <2> QED BY <1>3, <2>1 DEF RequestOK, Enqueued, RetryPc, PatchPc
<1>12. ASSUME NEW v \in Videos, PatchRead(q, v) PROVE RequestOK(q)'
  <2>1. /\ UNCHANGED <<job, dlq>> /\ request'[q].pc = "patchSelect"
        /\ request'[q].video = v /\ request'[q].row = video[v]
    BY <1>0, <1>12 DEF PatchRead, RequestAt, Request
  <2> QED BY <2>1 DEF RequestOK, Enqueued, RetryPc, PatchPc, QueueJobIdSound
<1>13. ASSUME NEW i \in 1..Len(dlq), RetryRead(q, i) PROVE RequestOK(q)'
  <2>1. /\ request[q].pc = "idle" /\ UNCHANGED <<job, dlq>>
        /\ request'[q].pc \in {"retryReset", "done"}
        /\ request'[q].video = dlq[i].video /\ request'[q].record = i
    BY <1>0, <1>13 DEF RetryRead, RequestAt, Request
  <2>2. dlq \in Seq(FailedJob) BY DEF TypeOK
  <2>3. dlq[i] \in FailedJob BY <2>2
  <2>4. dlq[i].video \in Videos BY <2>3 DEF FailedJob
  <2> QED BY <1>3, <2>1, <2>4 DEF RequestOK, Enqueued, RetryPc, PatchPc
<1>14. CASE Serve(q) \/ Accept(q) \/ Abort(q)
  BY <1>5, <1>6, <1>7, <1>8, <1>9, <1>10, <1>11, <1>12, <1>13, <1>14 DEF Serve, Accept
<1>15. CASE ~(Serve(q) \/ Accept(q) \/ Abort(q))
  <2>1. Enqueued(q) \/ job'[q].state = "none" BY <1>15, NewJobStep DEF Serve
  <2>2. ASSUME NEW p \in Requests \ {q}, Serve(p) \/ Accept(p) \/ Abort(p)
        PROVE  request'[q] = request[q]
    BY <1>0, <2>2 DEF Serve, Accept, Abort, CreateSave, CreateAdd, CreateLink, RetryRead,
       RetryReset, RetryAdd, RetryLink, RetryMark, PatchRead, PatchSelect, PatchUpdate,
       PatchInsert, Advance
  <2>3. request'[q] = request[q] BY <1>15, <2>2, RequestSteps
  <2> QED BY <1>4, <2>1, <2>3
<1> QED BY <1>14, <1>15

\* The inductive invariant holds initially ...
LEMMA InitInv == Init => Inv
<1> SUFFICES ASSUME Init PROVE Inv OBVIOUS
<1> USE DEF Init
<1>1. TypeOK
  <2>1. 0 \in 0..100 OBVIOUS
  <2>2. EmptyRow("NEW") \in Row BY <2>1 DEF EmptyRow, Row, Status, JobIds
  <2>3. NoJob \in Job BY DEF NoJob, Job, JobState
  <2>4. IdleRequest \in Request BY <2>2 DEF IdleRequest, Request, RequestPc
  <2> QED BY <2>2, <2>3, <2>4, IdleType DEF TypeOK
<1>2. JobInv BY DEF JobInv, Enqueued, Live, NoJob
<1>3. WorkerInv BY DEF WorkerInv, Busy, Idle
<1>4. ListenerInv BY DEF ListenerInv
<1>5. RequestInv BY DEF RequestInv, RequestOK, Enqueued, NoJob, IdleRequest, RetryPc, PatchPc
<1>6. RetriedHasJob /\ RecordsAreExhausted BY DEF RetriedHasJob, RecordsAreExhausted
<1>7. QueueJobIdSound BY DEF QueueJobIdSound, EmptyRow
<1> QED BY <1>1, <1>2, <1>3, <1>4, <1>5, <1>6, <1>7 DEF Inv

\* ... is kept by stuttering ...
LEMMA StutterInv == Inv /\ UNCHANGED vars => Inv'
<1> SUFFICES ASSUME Inv, UNCHANGED vars PROVE Inv' OBVIOUS
<1> USE DEF Inv, vars
<1>1. TypeOK' BY DEF TypeOK
<1>2. JobInv' BY DEF JobInv, Enqueued, Live
<1>3. WorkerInv' BY DEF WorkerInv, Enqueued, Busy, JobOf, At, isFinalAttempt
<1>4. ListenerInv' BY DEF ListenerInv, Enqueued
<1>5. RequestInv' BY DEF RequestInv, RequestOK, Enqueued
<1>6. RetriedHasJob' /\ RecordsAreExhausted' /\ QueueJobIdSound'
  BY DEF RetriedHasJob, RecordsAreExhausted, QueueJobIdSound
<1> QED BY <1>1, <1>2, <1>3, <1>4, <1>5, <1>6

\* ... and by every step.
LEMMA NextInv == Inv /\ [Next]_vars => Inv'
<1>1. ASSUME Inv, Next PROVE Inv'
  BY <1>1, TypeStep, JobInvStep, WorkerInvStep, ListenerInvStep, RequestInvStep,
     RetriedStep, RecordsStep, QueueJobIdStep DEF Inv
<1> QED BY <1>1, StutterInv

\* The inductive invariant holds in every reachable state.
THEOREM Invariance == Spec => []Inv
BY InitInv, NextInv, PTL DEF Spec

\* Every variable of the pipeline keeps its type, for any number of videos,
\* requests, workers, polls, crashes and retries.
THEOREM TypeCorrect == Spec => []TypeOK
<1>1. Inv => TypeOK BY DEF Inv
<1> QED BY <1>1, Invariance, PTL

\* A DLQ record marked retried names a job that was enqueued for its video
\* (DlqService.retryFailedJob enqueues before it marks), wherever a request or a
\* process dies.
THEOREM RetriedRecordsHaveJobs == Spec => []RetriedHasJob
<1>1. Inv => RetriedHasJob BY DEF Inv
<1> QED BY <1>1, Invariance, PTL

\* Only deliveries that used the last attempt of their job reach the failed_jobs
\* table (the isFinalAttempt test of the processor), under redelivery and crashes.
THEOREM DlqHoldsExhaustedJobs == Spec => []RecordsAreExhausted
<1>1. Inv => RecordsAreExhausted BY DEF Inv
<1> QED BY <1>1, Invariance, PTL

\* The queueJobId in a row is null or the id of a job of that very video, even
\* when a PATCH writes a stale entity back.
THEOREM RowsLinkTheirJobs == Spec => []QueueJobIdSound
<1>1. Inv => QueueJobIdSound BY DEF Inv
<1> QED BY <1>1, Invariance, PTL

-----------------------------------------------------------------------------
\* A handler about to complete its video has the file stored.
StoredFirst ==
  \A w \in Workers : At(w, "complete") => AlreadyStored \/ VideoOf(w) \in bucket

\* No request is a PATCH.
NoPatching == \A q \in Requests : request[q].pc \notin PatchPc

\* The invariant about rows, inductive relative to Inv.
RowInv == RowConsistent /\ CompletedHasFile /\ StoredFirst /\ NoPatching

\* Without "patch" in Env no request becomes a PATCH.
LEMMA NoPatchingStep ==
  ASSUME "patch" \notin Env, TypeOK, NoPatching, Next PROVE NoPatching'
<1>0. request \in [Requests -> Request] BY DEF TypeOK
<1>1. SUFFICES ASSUME NEW p \in Requests, Serve(p) \/ Accept(p) \/ Abort(p)
               PROVE  NoPatching'
  BY RequestSteps DEF NoPatching
<1>2. ~PatchSelect(p) /\ ~PatchUpdate(p) /\ ~PatchInsert(p) /\ \A v \in Videos : ~PatchRead(p, v)
  BY DEF NoPatching, PatchPc, PatchSelect, PatchUpdate, PatchInsert, PatchRead, RequestAt
<1>3. CASE \E pc \in RequestPc \ PatchPc : Advance(p, pc)
  BY <1>0, <1>3 DEF Advance, NoPatching, Request
<1>4. CASE \E v \in Videos : CreateSave(p, v)
  BY <1>0, <1>4 DEF CreateSave, NoPatching, Request, PatchPc
<1>5. CASE \E i \in 1..Len(dlq) : RetryRead(p, i)
  BY <1>0, <1>5 DEF RetryRead, NoPatching, Request, PatchPc
<1>6. CASE \/ CreateAdd(p) \/ CreateLink(p) \/ RetryReset(p) \/ RetryAdd(p) \/ RetryLink(p)
           \/ RetryMark(p) \/ Abort(p)
  BY <1>3, <1>6 DEF CreateAdd, CreateLink, RetryReset, RetryAdd, RetryLink, RetryMark, Abort,
     RequestPc, RetryPc, PatchPc
<1> QED BY <1>1, <1>2, <1>4, <1>5, <1>6 DEF Serve, Accept

\* Every step keeps StoredFirst: uploads stay in the bucket.
LEMMA StoredFirstStep ==
  ASSUME TypeOK, JobInv, WorkerInv, RequestInv, StoredFirst, Next PROVE StoredFirst'
<1>0. worker \in [Workers -> Worker] BY DEF TypeOK
<1>1. JobsKept BY JobsKeptStep
<1>2. bucket \subseteq bucket' BY OtherSteps DEF Store
<1>3. SUFFICES ASSUME NEW w \in Workers, worker'[w].pc = "complete", ~AlreadyStored
               PROVE  job'[worker'[w].job].video \in bucket'
  BY DEF StoredFirst, At, VideoOf, JobOf
<1>4. CASE worker'[w] = worker[w]
  <2>1. At(w, "complete") /\ Busy(w) BY <1>3, <1>4 DEF At, Busy
  <2>2. worker[w].job \in Requests /\ Enqueued(worker[w].job) BY <2>1 DEF WorkerInv
  <2>3. job[worker[w].job].video \in bucket BY <1>3, <2>1 DEF StoredFirst, VideoOf, JobOf
  <2> QED BY <1>1, <1>2, <1>4, <2>2, <2>3 DEF JobsKept
<1>5. CASE Store(w)
  <2>1. Busy(w) BY <1>5 DEF Store, At, Busy
  <2>2. worker'[w].job = worker[w].job /\ UNCHANGED job
    BY <1>0, <1>5 DEF Store, Goto, Worker
  <2> QED BY <1>5, <2>2 DEF Store, VideoOf, JobOf
<1>6. ASSUME \/ FindById(w) \/ StartAttempt(w) \/ EnhancePrompt(w) \/ GenerateVideo(w)
             \/ Complete(w) \/ ReportCompleted(w) \/ MarkFailed(w) \/ EmitFailed(w)
             \/ Rethrow(w) \/ JobCompleted(w) \/ JobFailed(w) \/ Fault(w)
             \/ MarkFailedFault(w) \/ Crash(w) \/ \E q \in Requests : Fetch(w, q)
      PROVE  worker'[w].pc # "complete"
  <2>1. CASE \E pc \in WorkerPc \ {"complete"} : Goto(w, pc)
    BY <1>0, <2>1 DEF Goto, Worker
  <2>2. CASE worker' = [worker EXCEPT ![w] = Idle]
    BY <1>0, <2>2 DEF Idle
  <2>3. CASE \E q \in Requests : Fetch(w, q)
    BY <1>0, <2>3 DEF Fetch, Idle
  <2>4. CASE FindById(w) /\ Exists(VideoOf(w))
    BY <1>0, <2>4 DEF FindById, Worker
  <2>5. CASE FindById(w) /\ ~Exists(VideoOf(w))
    BY <2>1, <2>5 DEF FindById, WorkerPc
  <2>6. CASE \/ StartAttempt(w) \/ EnhancePrompt(w) \/ GenerateVideo(w)
             \/ Complete(w) \/ ReportCompleted(w) \/ MarkFailed(w) \/ EmitFailed(w)
             \/ Rethrow(w) \/ Fault(w) \/ MarkFailedFault(w)
    BY <2>1, <2>6 DEF StartAttempt, EnhancePrompt, GenerateVideo, Complete, ReportCompleted,
       MarkFailed, EmitFailed, Rethrow, Fault, MarkFailedFault, WorkerPc, TryPc
  <2>7. CASE JobCompleted(w) \/ JobFailed(w) \/ Crash(w)
    BY <2>2, <2>7 DEF JobCompleted, JobFailed, Crash
  <2> QED BY <1>6, <2>3, <2>4, <2>5, <2>6, <2>7
<1>7. ASSUME Poll(w) PROVE worker'[w].pc # "complete"
  <2>1. CASE \E pc \in {"store", "catch"} : Goto(w, pc) BY <1>0, <2>1 DEF Goto, Worker
  <2>2. CASE worker' = [worker EXCEPT ![w].polls = worker[w].polls + 1]
    BY <1>0, <1>7, <2>2 DEF Poll, At, Worker
  <2> QED BY <1>3, <1>7, <2>1, <2>2 DEF Poll
<1>8. ASSUME NEW u \in Workers \ {w},
             \/ Handle(u) \/ Fault(u) \/ MarkFailedFault(u) \/ Crash(u)
             \/ \E q \in Requests : Fetch(u, q)
      PROVE  worker'[w] = worker[w]
  BY <1>0, <1>8 DEF Handle, Fetch, FindById, StartAttempt, EnhancePrompt, GenerateVideo, Poll,
     Store, Complete, ReportCompleted, MarkFailed, EmitFailed, Rethrow, Fault,
     MarkFailedFault, JobCompleted, JobFailed, Crash, Goto
<1> QED BY <1>3, <1>4, <1>5, <1>6, <1>7, <1>8, WorkerSteps DEF Handle

\* What one step may make of the row r of video v when nobody PATCHes: every
\* way in which the handlers and requests write the videos table.
Rewritten(v, r) ==
  LET old == video[v]
  IN  \/ r = old
      \/ /\ old.status \in {"PENDING", "PROCESSING"}
         /\ r = [old EXCEPT !.status = "PROCESSING", !.progress = 10]
      \/ /\ old.status = "PROCESSING"
         /\ \E p \in 10..90 : r = [old EXCEPT !.progress = p]
      \/ /\ old.status = "PROCESSING"
         /\ AlreadyStored \/ v \in bucket
         /\ r = CompletedRow(old)
      \/ /\ old.status \in RowStatus
         /\ \/ r = FailedRow(old)
            \/ r = ResetRow(old)
            \/ \E q \in Requests : r = [old EXCEPT !.queueJobId = q]
            \/ r = EmptyRow("DELETED")
      \/ /\ old.status = "NEW"
         /\ r = EmptyRow("PENDING")

\* Every step rewrites every row in one of these ways.
LEMMA RowWrites ==
  ASSUME TypeOK, JobInv, WorkerInv, RequestInv, StoredFirst, NoPatching, Next
  PROVE  \A v \in Videos : Rewritten(v, video'[v])
<1>0. video \in [Videos -> Row] BY DEF TypeOK
<1>1. SUFFICES ASSUME NEW v \in Videos PROVE Rewritten(v, video'[v]) OBVIOUS
<1>a. ASSUME NEW u \in Videos, NEW r, video' = [video EXCEPT ![u] = r], Rewritten(u, r)
      PROVE  Rewritten(v, video'[v])
  <2>1. CASE u = v BY <1>0, <1>a, <2>1
  <2>2. CASE u # v BY <1>0, <1>a, <2>2 DEF Rewritten
  <2> QED BY <2>1, <2>2
<1>u. ASSUME UNCHANGED video PROVE Rewritten(v, video'[v])
  BY <1>u DEF Rewritten
<1>b. ASSUME NEW u \in Videos, NEW p \in 10..90, UpdateProgress(u, p)
      PROVE  Rewritten(v, video'[v])
  <2>1. CASE video[u].status = "PROCESSING"
    <3>1. video' = [video EXCEPT ![u] = [video[u] EXCEPT !.progress = p]]
      BY <1>0, <1>b, <2>1 DEF UpdateProgress
    <3>2. Rewritten(u, [video[u] EXCEPT !.progress = p]) BY <2>1 DEF Rewritten
    <3> QED BY <1>a, <3>1, <3>2
  <2>2. CASE video[u].status # "PROCESSING" BY <1>b, <1>u, <2>2 DEF UpdateProgress
  <2> QED BY <2>1, <2>2
<1>2. ASSUME NEW w \in Workers, StartAttempt(w) PROVE Rewritten(v, video'[v])
  <2>1. VideoOf(w) \in Videos /\ worker[w] \in Worker
    BY <1>2, BusyFacts DEF StartAttempt, At, Busy
  <2>2. CASE Transitions(VideoOf(w), worker[w].seen, "PROCESSING")
    <3>1. worker[w].seen \in Status BY <2>1 DEF Worker
    <3>2. video[VideoOf(w)].status \in {"PENDING", "PROCESSING"}
      BY <2>2, <3>1 DEF Transitions, VALID_TRANSITIONS
    <3>3. Rewritten(VideoOf(w), [video[VideoOf(w)] EXCEPT !.status = "PROCESSING", !.progress = 10])
      BY <3>2 DEF Rewritten
    <3>4. video' = [video EXCEPT ![VideoOf(w)] =
                     [video[VideoOf(w)] EXCEPT !.status = "PROCESSING", !.progress = 10]]
      BY <1>2, <2>2 DEF StartAttempt
    <3> QED BY <1>a, <2>1, <3>3, <3>4
  <2>3. CASE ~Transitions(VideoOf(w), worker[w].seen, "PROCESSING")
    BY <1>2, <1>u, <2>3 DEF StartAttempt
  <2> QED BY <2>2, <2>3
<1>3. ASSUME NEW w \in Workers, EnhancePrompt(w) \/ GenerateVideo(w)
      PROVE  Rewritten(v, video'[v])
  <2>1. VideoOf(w) \in Videos BY <1>3, BusyFacts DEF EnhancePrompt, GenerateVideo, At, Busy
  <2>2. 20 \in 10..90 /\ 40 \in 10..90 OBVIOUS
  <2> QED BY <1>3, <1>b, <2>1, <2>2 DEF EnhancePrompt, GenerateVideo
<1>4. ASSUME NEW w \in Workers, Poll(w) PROVE Rewritten(v, video'[v])
  <2>1. VideoOf(w) \in Videos /\ worker[w] \in Worker BY <1>4, BusyFacts DEF Poll, At, Busy
  <2>2. worker[w].polls \in Nat BY <2>1, PollAssumption DEF Worker
  <2>3. PollPercent(worker[w].polls + 1) \in 10..90 BY <2>2 DEF PollPercent
  <2> QED BY <1>4, <1>b, <2>1, <2>3 DEF Poll
<1>5. ASSUME NEW w \in Workers, Complete(w) PROVE Rewritten(v, video'[v])
  <2>1. VideoOf(w) \in Videos BY <1>5, BusyFacts DEF Complete, At, Busy
  <2>2. AlreadyStored \/ VideoOf(w) \in bucket BY <1>5 DEF Complete, StoredFirst
  <2>3. CASE Transitions(VideoOf(w), "PROCESSING", "COMPLETED")
    <3>1. Rewritten(VideoOf(w), CompletedRow(video[VideoOf(w)]))
      BY <2>2, <2>3 DEF Rewritten, Transitions
    <3> QED BY <1>5, <1>a, <2>1, <2>3, <3>1 DEF Complete
  <2>4. CASE ~Transitions(VideoOf(w), "PROCESSING", "COMPLETED")
    BY <1>5, <1>u, <2>4 DEF Complete
  <2> QED BY <2>3, <2>4
<1>6. ASSUME NEW w \in Workers, MarkFailed(w) PROVE Rewritten(v, video'[v])
  <2>1. VideoOf(w) \in Videos BY <1>6, BusyFacts DEF MarkFailed, At, Busy
  <2>2. CASE Exists(VideoOf(w))
    <3>1. Rewritten(VideoOf(w), FailedRow(video[VideoOf(w)])) BY <2>2 DEF Rewritten, Exists
    <3> QED BY <1>6, <1>a, <2>1, <2>2, <3>1 DEF MarkFailed
  <2>3. CASE ~Exists(VideoOf(w)) BY <1>6, <1>u, <2>3 DEF MarkFailed
  <2> QED BY <2>2, <2>3
<1>7. ASSUME NEW q \in Requests, NEW u \in Videos, CreateSave(q, u)
      PROVE  Rewritten(v, video'[v])
  <2>1. Rewritten(u, EmptyRow("PENDING")) BY <1>7 DEF Rewritten, CreateSave
  <2> QED BY <1>7, <1>a, <2>1 DEF CreateSave
<1>8. ASSUME NEW q \in Requests, CreateLink(q) \/ RetryLink(q) PROVE Rewritten(v, video'[v])
  <2>1. request[q].video \in Videos
    BY <1>8 DEF RequestInv, RequestOK, Enqueued, CreateLink, RetryLink, RequestAt, RetryPc
  <2>2. video' = LinkedRow(q) BY <1>8 DEF CreateLink, RetryLink
  <2>3. CASE Exists(request[q].video)
    <3>1. Rewritten(request[q].video, [video[request[q].video] EXCEPT !.queueJobId = q])
      BY <2>3 DEF Rewritten, Exists
    <3>2. video' = [video EXCEPT ![request[q].video] =
                      [video[request[q].video] EXCEPT !.queueJobId = q]]
      BY <1>0, <2>1, <2>2, <2>3 DEF LinkedRow
    <3> QED BY <1>a, <2>1, <3>1, <3>2
  <2>4. CASE ~Exists(request[q].video) BY <1>u, <2>2, <2>4 DEF LinkedRow
  <2> QED BY <2>3, <2>4
<1>9. ASSUME NEW q \in Requests, RetryReset(q) PROVE Rewritten(v, video'[v])
  <2>1. request[q].video \in Videos
    BY <1>9 DEF RequestInv, RequestOK, Enqueued, RetryReset, RequestAt, RetryPc
  <2>2. CASE Exists(request[q].video)
    <3>1. Rewritten(request[q].video, ResetRow(video[request[q].video]))
      BY <2>2 DEF Rewritten, Exists
    <3> QED BY <1>9, <1>a, <2>1, <2>2, <3>1 DEF RetryReset
  <2>3. CASE ~Exists(request[q].video) BY <1>9, <1>u, <2>3 DEF RetryReset
  <2> QED BY <2>2, <2>3
<1>10. ASSUME NEW q \in Requests PROVE ~PatchUpdate(q) /\ ~PatchInsert(q)
  BY DEF NoPatching, PatchPc, PatchUpdate, PatchInsert, RequestAt
<1>11. ASSUME NEW u \in Videos, Remove(u) PROVE Rewritten(v, video'[v])
  <2>1. Rewritten(u, EmptyRow("DELETED")) BY <1>11 DEF Rewritten, Remove, Exists
  <2> QED BY <1>11, <1>a, <2>1 DEF Remove
<1> QED BY <1>u, <1>2, <1>3, <1>4, <1>5, <1>6, <1>7, <1>8, <1>9, <1>10, <1>11, VideoSteps

\* RowConsistent, for a single row.
RowOK(r) ==
  /\ r.status = "PROCESSING" => r.progress \in 10..90
  /\ r.status = "COMPLETED"  => r.progress = 100
  /\ r.status \in {"PENDING", "FAILED", "NEW", "DELETED"} => r.progress = 0
  /\ r.error <=> r.status = "FAILED"

\* A rewritten row is consistent if it was.
LEMMA RewrittenRowOK ==
  ASSUME NEW v \in Videos, video[v] \in Row, RowOK(video[v]),
         NEW r, Rewritten(v, r)
  PROVE  RowOK(r)
<1>1. CASE /\ video[v].status \in {"PENDING", "PROCESSING"}
           /\ r = [video[v] EXCEPT !.status = "PROCESSING", !.progress = 10]
  BY <1>1 DEF RowOK, Row
<1>2. CASE /\ video[v].status = "PROCESSING"
           /\ \E p \in 10..90 : r = [video[v] EXCEPT !.progress = p]
  BY <1>2 DEF RowOK, Row
<1>3. CASE r = CompletedRow(video[v]) /\ video[v].status = "PROCESSING"
  BY <1>3 DEF RowOK, Row, CompletedRow
<1>4. CASE r = FailedRow(video[v]) BY <1>4 DEF RowOK, Row, FailedRow
<1>5. CASE r = ResetRow(video[v]) BY <1>5 DEF RowOK, Row, ResetRow
<1>6. CASE \E q \in Requests : r = [video[v] EXCEPT !.queueJobId = q]
  BY <1>6 DEF RowOK, Row
<1>7. CASE r = EmptyRow("DELETED") \/ r = EmptyRow("PENDING")
  BY <1>7 DEF RowOK, EmptyRow
<1> QED BY <1>1, <1>2, <1>3, <1>4, <1>5, <1>6, <1>7 DEF Rewritten

\* Without PATCH, RowInv is inductive relative to Inv.
LEMMA RowInvStep ==
  ASSUME "patch" \notin Env, Inv, RowInv, Next PROVE RowInv'
<1>1. TypeOK /\ JobInv /\ WorkerInv /\ RequestInv BY DEF Inv
<1>2. StoredFirst /\ NoPatching /\ RowConsistent /\ CompletedHasFile BY DEF RowInv
<1>3. \A v \in Videos : Rewritten(v, video'[v]) BY <1>1, <1>2, RowWrites
<1>4. \A v \in Videos : video[v] \in Row BY <1>1 DEF TypeOK
<1>5. RowConsistent'
  <2>1. \A v \in Videos : RowOK(video[v]) BY <1>2 DEF RowConsistent, RowOK
  <2>2. \A v \in Videos : RowOK(video'[v]) BY <1>3, <1>4, <2>1, RewrittenRowOK
  <2> QED BY <2>2 DEF RowConsistent, RowOK
<1>6. CompletedHasFile'
  <2>1. bucket \subseteq bucket' BY OtherSteps DEF Store
  <2>2. SUFFICES ASSUME NEW v \in Videos, video'[v].status = "COMPLETED"
                 PROVE  video'[v].url /\ (AlreadyStored \/ v \in bucket')
    BY DEF CompletedHasFile
  <2>3. Rewritten(v, video'[v]) /\ video[v] \in Row BY <1>3, <1>4
  <2>4. CASE video[v].status = "COMPLETED" /\ video'[v].url = video[v].url
    BY <1>2, <2>1, <2>4 DEF CompletedHasFile
  <2>5. CASE video'[v] = CompletedRow(video[v]) /\ (AlreadyStored \/ v \in bucket)
    BY <2>1, <2>3, <2>5 DEF CompletedRow, Row
  <2>6. CASE \E q \in Requests : video'[v] = [video[v] EXCEPT !.queueJobId = q]
    <3>1. video[v].status = "COMPLETED" /\ video'[v].url = video[v].url
      BY <2>2, <2>3, <2>6 DEF Row
    <3> QED BY <2>4, <3>1
  <2>7. CASE video'[v] = FailedRow(video[v]) \/ video'[v] = ResetRow(video[v])
    BY <2>2, <2>3, <2>7 DEF FailedRow, ResetRow, Row
  <2>8. CASE \/ video'[v] = [video[v] EXCEPT !.status = "PROCESSING", !.progress = 10]
             \/ /\ video[v].status = "PROCESSING"
                /\ \E p \in 10..90 : video'[v] = [video[v] EXCEPT !.progress = p]
    BY <2>2, <2>3, <2>8 DEF Row
  <2>9. CASE video'[v] = EmptyRow("DELETED") \/ video'[v] = EmptyRow("PENDING")
    BY <2>2, <2>9 DEF EmptyRow
  <2> QED BY <2>2, <2>3, <2>4, <2>5, <2>6, <2>7, <2>8, <2>9 DEF Rewritten
<1>7. StoredFirst' BY <1>1, <1>2, StoredFirstStep
<1>8. NoPatching' BY <1>1, <1>2, NoPatchingStep
<1> QED BY <1>5, <1>6, <1>7, <1>8 DEF RowInv

\* RowInv holds initially.
LEMMA RowInit == Init => RowInv
<1> SUFFICES ASSUME Init PROVE RowInv OBVIOUS
<1>1. RowConsistent /\ CompletedHasFile
  BY DEF Init, RowConsistent, CompletedHasFile, EmptyRow
<1>2. StoredFirst BY DEF Init, StoredFirst, At, Idle
<1>3. NoPatching BY DEF Init, NoPatching, IdleRequest, PatchPc
<1> QED BY <1>1, <1>2, <1>3 DEF RowInv

\* RowInv is an invariant when nobody PATCHes.
LEMMA RowInvariance == ASSUME "patch" \notin Env PROVE Spec => []RowInv
<1>1. Inv /\ RowInv /\ [Next]_vars => RowInv'
  <2>1. ASSUME RowInv, UNCHANGED vars PROVE RowInv'
    BY <2>1 DEF RowInv, RowConsistent, CompletedHasFile, StoredFirst, NoPatching, At,
       VideoOf, JobOf, vars
  <2> QED BY <2>1, RowInvStep
<1> QED BY <1>1, RowInit, Invariance, PTL DEF Spec

\* Without PATCH requests the columns of a row agree with its status in every
\* state: no late progress report, concurrent attempt, retry or deletion
\* leaves a row that contradicts itself.
THEOREM RowsAreConsistent == ASSUME "patch" \notin Env PROVE Spec => []RowConsistent
<1>1. RowInv => RowConsistent BY DEF RowInv
<1> QED BY <1>1, RowInvariance, PTL

\* Without PATCH requests a COMPLETED row always has its url, and its file was
\* uploaded before unless the provider stores the file itself.
THEOREM CompletedRowsHaveFiles == ASSUME "patch" \notin Env PROVE Spec => []CompletedHasFile
<1>1. RowInv => CompletedHasFile BY DEF RowInv
<1> QED BY <1>1, RowInvariance, PTL

\* Without PATCH requests no write of the pipeline brings a deleted row back.
THEOREM DeletedRowsStayDeleted == ASSUME "patch" \notin Env PROVE Spec => DeletedStaysDeleted
<1>1. Inv /\ RowInv /\ [Next]_vars =>
        [\A v \in Videos : video[v].status = "DELETED" => video'[v].status = "DELETED"]_vars
  <2>1. ASSUME Inv, RowInv, Next, NEW v \in Videos, video[v].status = "DELETED"
        PROVE  video'[v].status = "DELETED"
    <3>1. Rewritten(v, video'[v]) BY <2>1, RowWrites DEF Inv, RowInv
    <3> QED BY <2>1, <3>1 DEF Rewritten, RowStatus
  <2> QED BY <2>1
<1> QED BY <1>1, RowInvariance, Invariance, PTL DEF Spec, DeletedStaysDeleted
=============================================================================
