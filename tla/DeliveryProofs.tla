--------------------------- MODULE DeliveryProofs ---------------------------
(***************************************************************************)
(* What redelivery, crashes and half-done requests cannot do to a video:   *)
(* strand it unnoticed, retry a failure twice, or lose a failure.          *)
(*                                                                         *)
(* The argument.  The lock of a job is held by the handler of its latest   *)
(* delivery or by nobody (OwnerInv).  Hence whoever leaves a video PENDING *)
(* or PROCESSING hands it on to somebody who will move it (DrivenInv), or  *)
(* leaves its name in lost.  The two other results are about the DLQ:      *)
(* RetryInv says how a record and the jobs made from it keep step,         *)
(* RecordedInv where the news of a failure is until it is a record.        *)
(***************************************************************************)
EXTENDS VideoPipelineProofs

\* The lock of a job belongs to the handler of its latest delivery.
OwnerInv ==
  \A q \in Requests, w \in Workers : job[q].owner = w =>
    /\ job[q].state = "active"
    /\ Busy(w)
    /\ worker[w].job = q
    /\ worker[w].attemptsMade = job[q].attemptsMade

\* The handler of w keeps its delivery.
SameDelivery(w) ==
  /\ worker'[w].job = worker[w].job
  /\ worker'[w].attemptsMade = worker[w].attemptsMade

\* Only its own steps move a handler.
LEMMA OwnMove ==
  ASSUME TypeOK, Next, NEW w \in Workers, worker'[w] # worker[w]
  PROVE  \/ Handle(w) \/ Fault(w) \/ MarkFailedFault(w) \/ Crash(w)
         \/ \E q \in Requests : Fetch(w, q)
<1>0. worker \in [Workers -> Worker] BY DEF TypeOK
<1>1. ASSUME NEW u \in Workers \ {w},
             \/ Handle(u) \/ Fault(u) \/ MarkFailedFault(u) \/ Crash(u)
             \/ \E q \in Requests : Fetch(u, q)
      PROVE  worker'[w] = worker[w]
  BY <1>0, <1>1 DEF Handle, Fetch, FindById, StartAttempt, EnhancePrompt, GenerateVideo, Poll,
     Store, Complete, ReportCompleted, MarkFailed, EmitFailed, Rethrow, Fault,
     MarkFailedFault, JobCompleted, JobFailed, Crash, Goto
<1> QED BY <1>1, WorkerSteps

\* What a step may make of one handler.
LEMMA HandlerMoves ==
  ASSUME TypeOK, Next, NEW w \in Workers
  PROVE  \/ worker'[w] = worker[w]
         \/ Busy(w) /\ worker'[w].pc # "idle" /\ SameDelivery(w) /\ UNCHANGED job
         \/ Busy(w) /\ worker'[w] = Idle /\ (JobCompleted(w) \/ JobFailed(w))
         \/ worker'[w] = Idle /\ Crash(w)
         \/ \E q \in Requests : Fetch(w, q)
<1>0. worker \in [Workers -> Worker] BY DEF TypeOK
<1> USE DEF SameDelivery
<1>a. ASSUME NEW pc \in WorkerPc \ {"idle"}, Goto(w, pc)
      PROVE  worker'[w].pc # "idle" /\ SameDelivery(w)
  BY <1>0, <1>a DEF Goto, Worker
<1>1. CASE \/ StartAttempt(w) \/ EnhancePrompt(w) \/ GenerateVideo(w) \/ Store(w)
           \/ Complete(w) \/ ReportCompleted(w) \/ MarkFailed(w) \/ EmitFailed(w)
           \/ Rethrow(w) \/ Fault(w) \/ MarkFailedFault(w)
  <2>1. Busy(w) /\ \E pc \in WorkerPc \ {"idle"} : Goto(w, pc)
    BY <1>1 DEF StartAttempt, EnhancePrompt, GenerateVideo, Store, Complete, ReportCompleted,
       MarkFailed, EmitFailed, Rethrow, Fault, MarkFailedFault, WorkerPc, TryPc, At, Busy
  <2>2. UNCHANGED job
    BY <1>1 DEF StartAttempt, EnhancePrompt, GenerateVideo, Store, Complete, ReportCompleted,
       MarkFailed, EmitFailed, Rethrow, Fault, MarkFailedFault
  <2> QED BY <1>a, <2>1, <2>2
<1>2. CASE FindById(w)
  <2>1. Busy(w) /\ UNCHANGED job BY <1>2 DEF FindById, At, Busy
  <2>2. CASE Exists(VideoOf(w))
    BY <1>0, <1>2, <2>1, <2>2 DEF FindById, Worker
  <2>3. CASE ~Exists(VideoOf(w))
    BY <1>2, <1>a, <2>1, <2>3 DEF FindById, WorkerPc
  <2> QED BY <2>2, <2>3
<1>3. CASE Poll(w)
  <2>1. Busy(w) /\ UNCHANGED job BY <1>3 DEF Poll, At, Busy
  <2>2. CASE \E pc \in {"complete", "store", "catch"} : Goto(w, pc)
    BY <1>a, <2>1, <2>2 DEF WorkerPc, TryPc
  <2>3. CASE worker' = [worker EXCEPT ![w].polls = worker[w].polls + 1]
    BY <1>0, <1>3, <2>1, <2>3 DEF Poll, At, Worker
  <2> QED BY <1>3, <2>2, <2>3 DEF Poll
<1>4. CASE JobCompleted(w) \/ JobFailed(w)
  BY <1>0, <1>4 DEF JobCompleted, JobFailed, At, Busy
<1>5. CASE Crash(w) BY <1>0, <1>5 DEF Crash
<1> QED BY <1>1, <1>2, <1>3, <1>4, <1>5, OwnMove DEF Handle

\* A lock is only taken by fetching the job.
LEMMA OwnerGain ==
  ASSUME TypeOK, JobInv, WorkerInv, Next, NEW q \in Requests, NEW w \in Workers,
         job'[q].owner = w, job[q].owner # w
  PROVE  Fetch(w, q)
<1>t. job \in [Requests -> Job] BY DEF TypeOK
<1>n. None \notin Workers BY NoneAssumption
<1>1. ASSUME NEW u \in Workers, JobCompleted(u) \/ JobFailed(u) \/ Crash(u) PROVE FALSE
  <2>1. Busy(u) => worker[u].job \in Requests BY BusyFacts
  <2>2. ASSUME JobCompleted(u) PROVE FALSE
    BY <1>t, <1>n, <2>1, <2>2 DEF JobCompleted, Job, At, Busy
  <2>3. ASSUME JobFailed(u) PROVE FALSE
    BY <1>t, <1>n, <2>1, <2>3 DEF JobFailed, Job, JobOf, At, Busy
  <2>4. ASSUME Crash(u) PROVE FALSE
    BY <1>t, <1>n, <2>1, <2>4 DEF Crash, Job
  <2> QED BY <1>1, <2>2, <2>3, <2>4
<1>2. ASSUME NEW p \in Requests, CreateAdd(p) \/ RetryAdd(p) \/ LoseLock(p) \/ StalledCheck(p)
      PROVE  FALSE
  BY <1>t, <1>n, <1>2 DEF CreateAdd, RetryAdd, LoseLock, StalledCheck, NewJob, NoJob, Job
<1>3. ASSUME NEW u \in Workers, NEW p \in Requests, Fetch(u, p) PROVE Fetch(w, q)
  <2>1. u = w /\ p = q BY <1>t, <1>3 DEF Fetch, Job
  <2> QED BY <1>3, <2>1
<1> QED BY <1>1, <1>2, <1>3, JobSteps

\* Every step keeps OwnerInv.
LEMMA OwnerStep ==
  ASSUME Inv, OwnerInv, Next PROVE OwnerInv'
<1>0. TypeOK /\ JobInv /\ WorkerInv /\ RequestInv BY DEF Inv
<1>t. job \in [Requests -> Job] /\ worker \in [Workers -> Worker] BY <1>0 DEF TypeOK
<1>n. None \notin Workers BY NoneAssumption
<1>1. SUFFICES ASSUME NEW q \in Requests, NEW w \in Workers, job'[q].owner = w
               PROVE  /\ job'[q].state = "active"
                      /\ worker'[w].pc # "idle"
                      /\ worker'[w].job = q
                      /\ worker'[w].attemptsMade = job'[q].attemptsMade
  BY DEF OwnerInv, Busy
<1>2. CASE \E p \in Requests : Fetch(w, p) /\ job[q].owner # w
  <2>1. PICK p \in Requests : Fetch(w, p) BY <1>2
  <2>2. p = q BY <1>t, <1>1, <1>2, <2>1 DEF Fetch
  <2> QED BY <1>t, <2>1, <2>2 DEF Fetch, Job, Idle
<1>3. ASSUME job[q].owner # w PROVE \E p \in Requests : Fetch(w, p)
  BY <1>0, <1>1, <1>3, OwnerGain
<1>4. CASE job[q].owner = w
  <2>1. /\ job[q].state = "active" /\ Busy(w) /\ worker[w].job = q
        /\ worker[w].attemptsMade = job[q].attemptsMade
    BY <1>4 DEF OwnerInv
  <2>2. Owns(w) BY <1>4, <2>1 DEF Owns, JobOf
  <2>3. ~JobCompleted(w) /\ ~JobFailed(w) /\ ~Crash(w)
    <3>1. ASSUME JobCompleted(w) PROVE FALSE
      <4>1. job' = [job EXCEPT ![q] = [job[q] EXCEPT !.state = "completed", !.owner = None]]
        BY <2>1, <2>2, <3>1 DEF JobCompleted
      <4> QED BY <1>t, <1>n, <1>1, <4>1 DEF Job
    <3>2. ASSUME JobFailed(w) PROVE FALSE
      <4>1. \E st, made : job' = [job EXCEPT ![q] =
               [job[q] EXCEPT !.state = st, !.attemptsMade = made, !.owner = None]]
        BY <2>1, <2>2, <3>2 DEF JobFailed
      <4> QED BY <1>t, <1>n, <1>1, <4>1 DEF Job
    <3>3. ~Crash(w) BY <1>t, <1>n, <1>1, <2>1, <2>2 DEF Crash, Job
    <3> QED BY <3>1, <3>2, <3>3
  <2>4. worker'[w].pc # "idle" /\ SameDelivery(w)
    BY <1>0, <2>1, <2>3, HandlerMoves DEF SameDelivery, Busy, Fetch
  <2>5. job'[q].state = job[q].state /\ job'[q].attemptsMade = job[q].attemptsMade
    <3>1. ASSUME NEW u \in Workers, u # w, Busy(u), worker[u].job = q PROVE ~Owns(u)
      BY <1>4, <3>1 DEF Owns, JobOf
    <3>2. ASSUME NEW u \in Workers, JobCompleted(u) \/ JobFailed(u) \/ Crash(u)
          PROVE  job'[q] = job[q]
      <4>1. u # w BY <2>3, <3>2
      <4>2. Busy(u) => worker[u].job \in Requests BY <1>0, BusyFacts
      <4>3. Busy(u) \/ Crash(u) BY <3>2 DEF JobCompleted, JobFailed, At, Busy
      <4> QED BY <1>t, <3>1, <3>2, <4>1, <4>2, <4>3 DEF JobCompleted, JobFailed, Crash
    <3>3. ASSUME NEW p \in Requests, CreateAdd(p) \/ RetryAdd(p) \/ LoseLock(p) \/ StalledCheck(p)
          PROVE  job'[q] = job[q]
      <4>1. CASE p # q BY <1>t, <3>3, <4>1 DEF CreateAdd, RetryAdd, LoseLock, StalledCheck
      <4>2. CASE p = q
        <5>1. ~CreateAdd(p) /\ ~RetryAdd(p)
          BY <1>0, <2>1, <4>2 DEF CreateAdd, RetryAdd, RequestInv, RequestOK, Enqueued, RequestAt
        <5>2. ~LoseLock(p) /\ ~StalledCheck(p)
          BY <1>t, <1>n, <1>1, <1>4, <4>2 DEF LoseLock, StalledCheck, Job
        <5> QED BY <3>3, <5>1, <5>2
      <4> QED BY <4>1, <4>2
    <3>4. ASSUME NEW u \in Workers, NEW p \in Requests, Fetch(u, p) PROVE job'[q] = job[q]
      BY <1>t, <2>1, <3>4 DEF Fetch
    <3> QED BY <3>2, <3>3, <3>4, JobSteps
  <2> QED BY <2>1, <2>4, <2>5 DEF SameDelivery
<1> QED BY <1>2, <1>3, <1>4

-----------------------------------------------------------------------------
\* Video v waits for, or is in, generation.
Unsettled(v) == video[v].status \in {"PENDING", "PROCESSING"}

\* A request is about to enqueue a job for v.
Requested(v) ==
  \E q \in Requests : request[q].pc \in {"createAdd", "retryAdd"} /\ request[q].video = v

\* A job for v will be delivered, at once or after the next stalled check.
Queued(v) ==
  \E q \in Requests :
    /\ job[q].video = v
    /\ job[q].state = "wait" \/ (job[q].state = "active" /\ job[q].owner = None)

\* The handler of w will settle its video, or have its job delivered again: it
\* holds the lock and will win the start transition, it has won it and nobody
\* reset the row since, or it failed and the job has attempts left.
Pushes(w) ==
  \/ At(w, "find") /\ Owns(w)
  \/ At(w, "start") /\ Owns(w) /\ worker[w].seen = video[VideoOf(w)].status
  \/ /\ worker[w].pc \in {"enhance", "submit", "poll", "store", "complete"}
     /\ video[VideoOf(w)].status = "PROCESSING"
  \/ At(w, "catch")
  \/ At(w, "reject") /\ ~(Owns(w) /\ isFinalAttempt(w))

\* Somebody will move v.
Driven(v) ==
  \/ Requested(v)
  \/ Queued(v)
  \/ \E w \in Workers : Busy(w) /\ VideoOf(w) = v /\ Pushes(w)

\* Nobody lets go of an unsettled video unseen.
DrivenInv == \A v \in Videos : Unsettled(v) /\ lost[v] = {} => Driven(v)

\* What may have lost a video is never forgotten.
LEMMA LostGrows ==
  ASSUME TypeOK, Next, NEW v \in Videos PROVE lost[v] \subseteq lost'[v]
<1>0. lost \in [Videos -> SUBSET LostCause] BY DEF TypeOK
<1>1. ASSUME NEW u, NEW c, lost' = [lost EXCEPT ![u] = @ \cup {c}] PROVE lost[v] \subseteq lost'[v]
  BY <1>0, <1>1
<1>2. \/ UNCHANGED lost
      \/ \E u, c : lost' = [lost EXCEPT ![u] = @ \cup {c}]
  BY OtherSteps DEF MarkFailedFault, JobFailed, Crash, StalledCheck, Abort, PatchUpdate, PatchInsert
<1> QED BY <1>1, <1>2

\* An unsettled video has the status it had, or the step that gave it this one
\* drives it.
LEMMA StatusMoves ==
  ASSUME Inv, Next, NEW v \in Videos, Unsettled(v)', lost'[v] = {}
  PROVE  video'[v].status = video[v].status \/ Driven(v)'
<1>0. TypeOK /\ JobInv /\ WorkerInv /\ RequestInv BY DEF Inv
<1>t. /\ video \in [Videos -> Row] /\ request \in [Requests -> Request]
      /\ worker \in [Workers -> Worker] /\ lost \in [Videos -> SUBSET LostCause]
  BY <1>0 DEF TypeOK
<1>1. SUFFICES ASSUME video'[v].status # video[v].status PROVE Driven(v)' OBVIOUS
<1>u. ASSUME NEW u, NEW p, UpdateProgress(u, p) PROVE FALSE
  BY <1>t, <1>1, <1>u DEF UpdateProgress, Row
<1>2. ASSUME NEW w \in Workers, StartAttempt(w) PROVE Driven(v)'
  <2>1. VideoOf(w) = v /\ Goto(w, "enhance") /\ video'[v].status = "PROCESSING"
    BY <1>t, <1>1, <1>2 DEF StartAttempt, Row
  <2>2. UNCHANGED job BY <1>2 DEF StartAttempt
  <2>3. worker'[w].pc = "enhance" /\ worker'[w].job = worker[w].job
    BY <1>t, <2>1 DEF Goto, Worker
  <2>4. VideoOf(w)' = v BY <2>1, <2>2, <2>3 DEF VideoOf, JobOf
  <2> QED BY <2>1, <2>3, <2>4 DEF Driven, Pushes, Busy
<1>3. ASSUME NEW w \in Workers,
             EnhancePrompt(w) \/ GenerateVideo(w) \/ Poll(w) \/ Complete(w) \/ MarkFailed(w)
      PROVE  FALSE
  <2>1. ~EnhancePrompt(w) /\ ~GenerateVideo(w) /\ ~Poll(w)
    BY <1>u DEF EnhancePrompt, GenerateVideo, Poll
  <2>2. ASSUME NEW u, NEW r, r \in {CompletedRow(video[u]), FailedRow(video[u])},
               video' = [video EXCEPT ![u] = r]
        PROVE  FALSE
    <3>1. u = v BY <1>t, <1>1, <2>2
    <3>2. r.status \in {"COMPLETED", "FAILED"}
      BY <1>t, <2>2, <3>1 DEF CompletedRow, FailedRow, Row
    <3> QED BY <1>t, <2>2, <3>1, <3>2 DEF Unsettled
  <2>3. ~Complete(w) /\ ~MarkFailed(w)
    BY <1>1, <2>2 DEF Complete, MarkFailed
  <2> QED BY <1>3, <2>1, <2>3
<1>4. ASSUME NEW q \in Requests, NEW u \in Videos, CreateSave(q, u) PROVE Driven(v)'
  <2>1. u = v BY <1>t, <1>1, <1>4 DEF CreateSave
  <2>2. request'[q].pc = "createAdd" /\ request'[q].video = v
    BY <1>t, <1>4, <2>1 DEF CreateSave, Request
  <2> QED BY <2>2 DEF Driven, Requested
<1>5. ASSUME NEW q \in Requests, RetryReset(q) PROVE Driven(v)'
  <2>1. request[q].video = v BY <1>t, <1>1, <1>5 DEF RetryReset
  <2>2. request'[q].pc = "retryAdd" /\ request'[q].video = v
    BY <1>t, <1>5, <2>1 DEF RetryReset, Advance, Request
  <2> QED BY <2>2 DEF Driven, Requested
<1>6. ASSUME NEW q \in Requests, CreateLink(q) \/ RetryLink(q) PROVE FALSE
  BY <1>t, <1>1, <1>6 DEF CreateLink, RetryLink, LinkedRow, Row
<1>7. ASSUME NEW q \in Requests, PatchUpdate(q) PROVE FALSE
  <2>1. request[q].video = v BY <1>t, <1>1, <1>7 DEF PatchUpdate
  <2>2. "status" \in request[q].columns
    BY <1>t, <1>1, <1>7, <2>1 DEF PatchUpdate, Merge
  <2> QED BY <1>t, <1>7, <2>1, <2>2 DEF PatchUpdate
<1>8. ASSUME NEW q \in Requests, PatchInsert(q) PROVE FALSE
  <2>1. request[q].video = v BY <1>t, <1>1, <1>8 DEF PatchInsert
  <2> QED BY <1>t, <1>8, <2>1 DEF PatchInsert
<1>9. ASSUME NEW u \in Videos, Remove(u) PROVE FALSE
  BY <1>t, <1>1, <1>9 DEF Remove, EmptyRow, Unsettled
<1> QED BY <1>1, <1>2, <1>3, <1>4, <1>5, <1>6, <1>7, <1>8, <1>9, VideoSteps

\* The driver is a request: it enqueues the job, or dies and is noted.
LEMMA RequestedStep ==
  ASSUME Inv, Next, NEW v \in Videos, Requested(v), lost'[v] = {} PROVE Driven(v)'
<1>0. TypeOK BY DEF Inv
<1>t. /\ request \in [Requests -> Request] /\ job \in [Requests -> Job]
      /\ lost \in [Videos -> SUBSET LostCause]
  BY <1>0 DEF TypeOK
<1>1. PICK q \in Requests : request[q].pc \in {"createAdd", "retryAdd"} /\ request[q].video = v
  BY DEF Requested
<1>2. CASE request'[q] = request[q] BY <1>1, <1>2 DEF Driven, Requested
<1>3. CASE CreateAdd(q) \/ RetryAdd(q)
  <2>1. job'[q].state = "wait" /\ job'[q].video = v
    <3>1. \E n : job' = [job EXCEPT ![q] = NewJob(v, n)]
      BY <1>1, <1>3 DEF CreateAdd, RetryAdd
    <3> QED BY <1>t, <3>1 DEF NewJob, NoJob
  <2> QED BY <2>1 DEF Driven, Queued
<1>4. ~Abort(q) BY <1>t, <1>1 DEF Abort
<1>5. ASSUME NEW p \in Requests, Serve(p) \/ Accept(p) \/ Abort(p), p # q
      PROVE  request'[q] = request[q]
  BY <1>t, <1>5 DEF Serve, Accept, Abort, CreateSave, CreateAdd, CreateLink, RetryRead, RetryReset,
     RetryAdd, RetryLink, RetryMark, PatchRead, PatchSelect, PatchUpdate, PatchInsert, Advance
<1>6. Serve(q) => CreateAdd(q) \/ RetryAdd(q)
  BY <1>1 DEF Serve, CreateLink, RetryReset, RetryLink, RetryMark, PatchSelect, PatchUpdate,
     PatchInsert, RequestAt
<1>7. ~Accept(q) BY <1>1 DEF Accept, CreateSave, RetryRead, PatchRead, RequestAt
<1> QED BY <1>2, <1>3, <1>4, <1>5, <1>6, <1>7, RequestSteps

\* The driver is a job: it is delivered, put back, or given up and noted.
LEMMA QueuedStep ==
  ASSUME Inv, OwnerInv, Next, NEW v \in Videos, Queued(v), lost'[v] = {} PROVE Driven(v)'
<1>0. TypeOK /\ JobInv /\ WorkerInv /\ RequestInv BY DEF Inv
<1>t. /\ worker \in [Workers -> Worker] /\ job \in [Requests -> Job]
      /\ lost \in [Videos -> SUBSET LostCause]
  BY <1>0 DEF TypeOK
<1>n. None \notin Workers BY NoneAssumption
<1>1. PICK q \in Requests :
        /\ job[q].video = v
        /\ job[q].state = "wait" \/ (job[q].state = "active" /\ job[q].owner = None)
  BY DEF Queued
<1>2. CASE job'[q] = job[q] BY <1>1, <1>2 DEF Driven, Queued
<1>3. ASSUME NEW w \in Workers, Fetch(w, q) PROVE Driven(v)'
  <2>1. worker'[w].pc = "find" /\ worker'[w].job = q /\ job'[q].owner = w /\ job'[q].video = v
    BY <1>t, <1>1, <1>3 DEF Fetch, Idle, Job
  <2>2. Busy(w)' /\ VideoOf(w)' = v /\ Owns(w)' /\ At(w, "find")'
    BY <2>1 DEF Busy, VideoOf, JobOf, Owns, At
  <2> QED BY <2>2 DEF Driven, Pushes
<1>4. ASSUME NEW w \in Workers, NEW p \in Requests, Fetch(w, p), p # q PROVE job'[q] = job[q]
  BY <1>t, <1>4 DEF Fetch
<1>5. ASSUME NEW w \in Workers, JobCompleted(w) \/ JobFailed(w) \/ Crash(w)
      PROVE  job'[q] = job[q]
  <2>1. Busy(w) => worker[w].job \in Requests BY <1>0, BusyFacts
  <2>2. ~(Busy(w) /\ worker[w].job = q /\ Owns(w))
    BY <1>n, <1>1 DEF OwnerInv, Owns, JobOf
  <2> QED BY <1>t, <1>5, <2>1, <2>2 DEF JobCompleted, JobFailed, Crash, At, Busy
<1>6. ASSUME NEW p \in Requests, CreateAdd(p) \/ RetryAdd(p) PROVE job'[q] = job[q]
  <2>1. p # q BY <1>0, <1>1, <1>6 DEF RequestInv, RequestOK, Enqueued, CreateAdd, RetryAdd, RequestAt
  <2> QED BY <1>t, <1>6, <2>1 DEF CreateAdd, RetryAdd
<1>7. ASSUME NEW p \in Requests, LoseLock(p) PROVE job'[q] = job[q]
  BY <1>t, <1>1, <1>7 DEF LoseLock
<1>8. ASSUME StalledCheck(q) PROVE Driven(v)'
  <2>1. job'[q].state = "wait" /\ job'[q].video = v
    BY <1>t, <1>1, <1>8 DEF StalledCheck, Job
  <2> QED BY <2>1 DEF Driven, Queued
<1>9. ASSUME NEW p \in Requests, StalledCheck(p), p # q PROVE job'[q] = job[q]
  BY <1>t, <1>9 DEF StalledCheck
<1> QED BY <1>2, <1>3, <1>4, <1>5, <1>6, <1>7, <1>8, <1>9, JobSteps

\* A handler that keeps running keeps its lock, or its job is put back.
LEMMA OwnerLoss ==
  ASSUME Inv, OwnerInv, Next, NEW w \in Workers, Busy(w), Owns(w),
         ~JobCompleted(w), ~JobFailed(w)
  PROVE  LET q == worker[w].job
         IN  \/ job'[q].owner = w
             \/ job'[q].state = "active" /\ job'[q].owner = None
<1>0. TypeOK /\ JobInv /\ WorkerInv /\ RequestInv BY DEF Inv
<1>t. worker \in [Workers -> Worker] /\ job \in [Requests -> Job] BY <1>0 DEF TypeOK
<1> DEFINE q == worker[w].job
<1>1. q \in Requests /\ job[q].owner = w /\ job[q].state = "active"
  BY <1>0, BusyFacts DEF Owns, JobOf, OwnerInv
<1>n. None \notin Workers BY NoneAssumption
<1>2. ASSUME NEW u \in Workers, u # w, JobCompleted(u) \/ JobFailed(u) \/ Crash(u)
      PROVE  job'[q] = job[q]
  <2>1. Busy(u) => worker[u].job \in Requests BY <1>0, BusyFacts
  <2>2. ~(Busy(u) /\ worker[u].job = q /\ Owns(u)) BY <1>1, <1>2 DEF Owns, JobOf
  <2> QED BY <1>t, <1>1, <1>2, <2>1, <2>2 DEF JobCompleted, JobFailed, Crash, At, Busy
<1>3. ASSUME Crash(w) PROVE job'[q].state = "active" /\ job'[q].owner = None
  BY <1>t, <1>1, <1>3 DEF Crash, Job
<1>4. ASSUME NEW u \in Workers, NEW p \in Requests, Fetch(u, p) PROVE job'[q] = job[q]
  BY <1>t, <1>1, <1>4 DEF Fetch
<1>5. ASSUME NEW p \in Requests, CreateAdd(p) \/ RetryAdd(p) PROVE job'[q] = job[q]
  <2>1. p # q BY <1>0, <1>1, <1>5 DEF RequestInv, RequestOK, Enqueued, CreateAdd, RetryAdd, RequestAt
  <2> QED BY <1>t, <1>1, <1>5, <2>1 DEF CreateAdd, RetryAdd
<1>6. ASSUME NEW p \in Requests, LoseLock(p)
      PROVE  job'[q] = job[q] \/ (job'[q].state = "active" /\ job'[q].owner = None)
  <2>1. CASE p = q BY <1>t, <1>1, <1>6, <2>1 DEF LoseLock, Job
  <2>2. CASE p # q BY <1>t, <1>1, <1>6, <2>2 DEF LoseLock
  <2> QED BY <2>1, <2>2
<1>7. ASSUME NEW p \in Requests, StalledCheck(p) PROVE job'[q] = job[q]
  BY <1>t, <1>n, <1>1, <1>7 DEF StalledCheck
<1> QED BY <1>1, <1>2, <1>3, <1>4, <1>5, <1>6, <1>7, JobSteps

\* The driver is a handler: it goes on, or hands its job back, or is noted.
LEMMA PushedStep ==
  ASSUME Inv, OwnerInv, Next, NEW v \in Videos, Unsettled(v), Unsettled(v)', lost'[v] = {},
         NEW w \in Workers, Busy(w), VideoOf(w) = v, Pushes(w)
  PROVE  Driven(v)'
<1>0. TypeOK /\ JobInv /\ WorkerInv /\ RequestInv BY DEF Inv
<1>t. /\ worker \in [Workers -> Worker] /\ job \in [Requests -> Job]
      /\ video \in [Videos -> Row] /\ lost \in [Videos -> SUBSET LostCause]
  BY <1>0 DEF TypeOK
<1>n. None \notin Workers BY NoneAssumption
<1>s. SUFFICES ASSUME video'[v].status = video[v].status PROVE Driven(v)' BY StatusMoves
<1> DEFINE q == worker[w].job
<1>q. /\ q \in Requests /\ Enqueued(q) /\ job[q].video = v
      /\ job'[q].video = v /\ job'[q].attempts = job[q].attempts
  BY <1>0, BusyFacts, JobsKeptStep DEF WorkerInv, VideoOf, JobOf, JobsKept
<1>a. ASSUME Busy(w)', worker'[w].job = q, Pushes(w)' PROVE Driven(v)'
  <2>1. VideoOf(w)' = v BY <1>a, <1>q DEF VideoOf, JobOf
  <2> QED BY <1>a, <2>1 DEF Driven
<1>b. ASSUME job'[q].state = "wait" \/ (job'[q].state = "active" /\ job'[q].owner = None)
      PROVE  Driven(v)'
  BY <1>b, <1>q DEF Driven, Queued
<1>o. ASSUME Owns(w), ~JobCompleted(w), ~JobFailed(w), worker'[w].job = q
      PROVE  Owns(w)' \/ Driven(v)'
  BY <1>o, <1>b, OwnerLoss DEF Owns, JobOf
<1>1. CASE worker'[w] = worker[w]
  <2>0. Busy(w)' /\ worker'[w].job = q BY <1>1 DEF Busy
  <2>1. ~JobCompleted(w) /\ ~JobFailed(w)
    BY <1>t, <1>1 DEF JobCompleted, JobFailed, At, Busy, Idle
  <2>2. CASE At(w, "find") /\ Owns(w)
    BY <1>1, <1>a, <1>o, <2>0, <2>1, <2>2 DEF Pushes, At
  <2>3. CASE At(w, "start") /\ Owns(w) /\ worker[w].seen = video[v].status
    <3>1. (At(w, "start") /\ worker[w].seen = video[VideoOf(w)].status)'
      BY <1>1, <1>s, <1>q, <2>3 DEF At, VideoOf, JobOf
    <3> QED BY <1>a, <1>o, <2>0, <2>1, <2>3, <3>1 DEF Pushes
  <2>4. CASE worker[w].pc \in {"enhance", "submit", "poll", "store", "complete"} /\ video[v].status = "PROCESSING"
    <3>1. /\ worker'[w].pc \in {"enhance", "submit", "poll", "store", "complete"}
          /\ (video[VideoOf(w)].status)' = "PROCESSING"
      BY <1>1, <1>s, <1>q, <2>4 DEF VideoOf, JobOf
    <3> QED BY <1>a, <2>0, <3>1 DEF Pushes
  <2>5. CASE At(w, "catch") BY <1>1, <1>a, <2>0, <2>5 DEF Pushes, At
  <2>6. CASE At(w, "reject") /\ ~(Owns(w) /\ isFinalAttempt(w))
    <3>1. Owns(w)' => Owns(w)
      <4>1. ~Fetch(w, q) BY DEF Fetch
      <4> QED BY <1>0, <1>1, <1>q, <4>1, OwnerGain DEF Owns, JobOf
    <3>2. isFinalAttempt(w)' => isFinalAttempt(w)
      BY <1>1, <1>q DEF isFinalAttempt, JobOf
    <3> QED BY <1>1, <1>a, <2>0, <2>6, <3>1, <3>2 DEF Pushes, At
  <2> QED BY <2>2, <2>3, <2>4, <2>5, <2>6 DEF Pushes
<1>2. CASE worker'[w].pc # "idle" /\ SameDelivery(w) /\ UNCHANGED job /\ worker'[w] # worker[w]
  <2>0. Busy(w)' /\ worker'[w].job = q BY <1>2 DEF Busy, SameDelivery
  <2>v. VideoOf(w)' = v BY <1>q, <2>0 DEF VideoOf, JobOf
  <2>g. ASSUME NEW pc \in WorkerPc, Goto(w, pc) PROVE worker'[w].pc = pc
    BY <1>t, <2>g DEF Goto, Worker
  <2>c. ASSUME Goto(w, "catch") PROVE Driven(v)'
    BY <1>a, <2>0, <2>g, <2>c DEF Pushes, At, WorkerPc
  <2>1. CASE FindById(w)
    <3>1. At(w, "find") /\ Owns(w) BY <2>1 DEF FindById, Pushes, At
    <3>2. Owns(w)' BY <1>2, <2>0, <3>1 DEF Owns, JobOf
    <3>3. Exists(v) BY DEF Unsettled, Exists, RowStatus
    <3>4. worker'[w].pc = "start" /\ worker'[w].seen = video[v].status
      BY <1>t, <2>1, <3>3 DEF FindById, Worker
    <3>5. (At(w, "start") /\ worker[w].seen = video[VideoOf(w)].status)'
      BY <1>s, <2>v, <3>4 DEF At
    <3> QED BY <1>a, <2>0, <3>2, <3>5 DEF Pushes
  <2>2. CASE StartAttempt(w)
    <3>1. worker[w].seen = video[v].status BY <2>2 DEF StartAttempt, Pushes, At
    <3>2. Transitions(v, worker[w].seen, "PROCESSING")
      BY <3>1 DEF Unsettled, Transitions, VALID_TRANSITIONS, Status, RowStatus
    <3>3. Goto(w, "enhance") /\ video'[v].status = "PROCESSING"
      BY <1>t, <2>2, <3>2 DEF StartAttempt, Row
    <3>4. worker'[w].pc = "enhance" BY <2>g, <3>3 DEF WorkerPc, TryPc
    <3>5. (video[VideoOf(w)].status)' = "PROCESSING" BY <2>v, <3>3
    <3> QED BY <1>a, <2>0, <3>4, <3>5 DEF Pushes
  <2>3. CASE EnhancePrompt(w) \/ GenerateVideo(w) \/ Poll(w) \/ Store(w)
    <3>1. video[v].status = "PROCESSING"
      BY <2>3 DEF EnhancePrompt, GenerateVideo, Poll, Store, Pushes, At
    <3>2. (video[VideoOf(w)].status)' = "PROCESSING" BY <1>s, <2>v, <3>1
    <3>3. \/ \E pc \in {"submit", "poll", "store", "complete", "catch"} : Goto(w, pc)
          \/ At(w, "poll") /\ worker' = [worker EXCEPT ![w].polls = worker[w].polls + 1]
      BY <2>3 DEF EnhancePrompt, GenerateVideo, Poll, Store
    <3>4. worker'[w].pc \in {"submit", "poll", "store", "complete"} \/ Driven(v)'
      <4>1. CASE \E pc \in {"submit", "poll", "store", "complete", "catch"} : Goto(w, pc)
        BY <2>g, <2>c, <4>1 DEF WorkerPc, TryPc
      <4>2. CASE At(w, "poll") /\ worker' = [worker EXCEPT ![w].polls = worker[w].polls + 1]
        BY <1>t, <4>2 DEF Worker, At
      <4> QED BY <3>3, <4>1, <4>2
    <3> QED BY <1>a, <2>0, <3>2, <3>4 DEF Pushes
  <2>4. CASE Complete(w) \/ MarkFailed(w)
    <3>1. video[v].status = "PROCESSING" \/ MarkFailed(w) BY <2>4 DEF Complete, Pushes, At
    <3>2. Exists(v) BY DEF Unsettled, Exists, RowStatus
    <3>3. video' = [video EXCEPT ![v] = CompletedRow(@)] \/ video' = [video EXCEPT ![v] = FailedRow(@)]
      BY <2>4, <3>1, <3>2 DEF Complete, MarkFailed, Transitions, VALID_TRANSITIONS, Status, RowStatus
    <3>4. video'[v] \in {CompletedRow(video[v]), FailedRow(video[v])} BY <1>t, <3>3
    <3> QED BY <1>t, <3>4 DEF CompletedRow, FailedRow, Row, Unsettled
  <2>5. CASE Rethrow(w)
    <3>1. worker'[w].pc = "reject" BY <2>5, <2>g DEF Rethrow, WorkerPc
    <3>2. ~isFinalAttempt(w)' BY <1>2, <2>5 DEF Rethrow, isFinalAttempt, JobOf, SameDelivery
    <3> QED BY <1>a, <2>0, <3>1, <3>2 DEF Pushes, At
  <2>6. CASE Fault(w) BY <2>c, <2>6 DEF Fault
  <2>7. ~MarkFailedFault(w) BY <1>t DEF MarkFailedFault
  <2>8. ~ReportCompleted(w) /\ ~EmitFailed(w) BY DEF ReportCompleted, EmitFailed, Pushes, At
  <2>9. ~JobCompleted(w) /\ ~JobFailed(w) /\ ~Crash(w) /\ \A p \in Requests : ~Fetch(w, p)
    BY <1>t, <1>2 DEF JobCompleted, JobFailed, Crash, Fetch, Idle
  <2> QED BY <1>0, <1>2, <2>1, <2>2, <2>3, <2>4, <2>5, <2>6, <2>7, <2>8, <2>9, OwnMove DEF Handle
<1>3. CASE worker'[w] = Idle /\ (JobCompleted(w) \/ JobFailed(w))
  <2>1. ~JobCompleted(w) BY DEF JobCompleted, Pushes, At
  <2>2. JobFailed(w) /\ At(w, "reject") BY <1>3, <2>1 DEF JobFailed
  <2>3. Owns(w) BY <1>t, <2>2 DEF JobFailed
  <2>4. ~isFinalAttempt(w) BY <2>2, <2>3 DEF Pushes, At
  <2>5. worker[w].attemptsMade = job[q].attemptsMade
    BY <1>q, <2>3 DEF OwnerInv, Owns, JobOf
  <2>6. job[q].attemptsMade + 1 < job[q].attempts
    BY <1>t, <1>q, <2>4, <2>5 DEF isFinalAttempt, JobOf, Job
  <2>7. job' = [job EXCEPT ![q] = [job[q] EXCEPT !.state = "wait",
                  !.attemptsMade = job[q].attemptsMade + 1, !.owner = None]]
    BY <2>2, <2>3, <2>6 DEF JobFailed, JobOf
  <2>8. job'[q].state = "wait" BY <1>t, <1>q, <2>7 DEF Job
  <2> QED BY <1>b, <2>8
<1>4. CASE worker'[w] = Idle /\ Crash(w)
  <2>1. Owns(w) BY <1>t, <1>4 DEF Crash
  <2>3. job[q].state = "active" BY <1>q, <2>1 DEF OwnerInv, Owns, JobOf
  <2>4. job' = [job EXCEPT ![q].owner = None] BY <1>4, <2>1 DEF Crash
  <2>5. job'[q].state = "active" /\ job'[q].owner = None BY <1>t, <1>q, <2>3, <2>4 DEF Job
  <2> QED BY <1>b, <2>5
<1>5. \A p \in Requests : ~Fetch(w, p) BY DEF Fetch
<1> QED BY <1>0, <1>1, <1>2, <1>3, <1>4, <1>5, HandlerMoves

\* Every step keeps DrivenInv.
LEMMA DrivenStep ==
  ASSUME Inv, OwnerInv, DrivenInv, Next PROVE DrivenInv'
<1>1. SUFFICES ASSUME NEW v \in Videos, Unsettled(v)', lost'[v] = {} PROVE Driven(v)'
  BY DEF DrivenInv
<1>2. lost[v] = {} BY <1>1, LostGrows DEF Inv
<1>3. CASE Unsettled(v)
  <2>1. Driven(v) BY <1>2, <1>3 DEF DrivenInv
  <2> QED BY <1>1, <1>3, <2>1, RequestedStep, QueuedStep, PushedStep DEF Driven
<1>4. CASE ~Unsettled(v)
  <2>1. video'[v].status # video[v].status BY <1>1, <1>4 DEF Unsettled
  <2> QED BY <1>1, <2>1, StatusMoves
<1> QED BY <1>3, <1>4

\* OwnerInv and DrivenInv hold in every state.
LEMMA DeliveryInvariance == Spec => [](OwnerInv /\ DrivenInv)
<1>1. Init => OwnerInv /\ DrivenInv
  BY NoneAssumption DEF Init, OwnerInv, DrivenInv, Unsettled, EmptyRow, NoJob
<1>2. Inv /\ OwnerInv /\ DrivenInv /\ [Next]_vars => (OwnerInv /\ DrivenInv)'
  <2>1. ASSUME OwnerInv, DrivenInv, UNCHANGED vars PROVE (OwnerInv /\ DrivenInv)'
    BY <2>1 DEF OwnerInv, DrivenInv, Unsettled, Driven, Requested, Queued, Pushes, Busy, At,
       Owns, VideoOf, JobOf, isFinalAttempt, vars
  <2> QED BY <2>1, OwnerStep, DrivenStep
<1> QED BY <1>1, <1>2, Invariance, PTL DEF Spec

\* Whatever crashes, lost locks, failing calls, deletions, PATCHes and retries
\* interleave, a video is left PENDING or PROCESSING with nobody to move it only
\* in one of the five ways that lost names.
THEOREM VideosAreNotStranded == Spec => []StuckOnlyIfLost
<1>1. DrivenInv => StuckOnlyIfLost
  <2>1. ASSUME NEW v \in Videos, Abandoned(v), Driven(v) PROVE FALSE
    BY <2>1 DEF Abandoned, Driven, Requested, Queued, Live
  <2> QED BY <2>1 DEF DrivenInv, StuckOnlyIfLost, Unsettled
<1> QED BY <1>1, DeliveryInvariance, PTL

-----------------------------------------------------------------------------
\* A request that retries a failed job and has not finished.
Retrying(q) == request[q].pc \in RetryPc

\* Only a retry has a DLQ record.
RecordInv ==
  \A q \in Requests : request[q].pc \in {"idle", "createAdd"} => request[q].record = 0

\* One retry at a time.
RetriesSerialized == \A p, q \in Requests : Retrying(p) /\ Retrying(q) => p = q

\* The record of an enqueued retry is marked, or its request is about to.
EnqueuedIsMarked ==
  \A q \in Requests : request[q].record # 0 /\ Enqueued(q) =>
    \/ request[q].pc \in {"retryLink", "retryMark"}
    \/ request[q].record \in 1..Len(dlq) /\ dlq[request[q].record].retried

\* Nobody retries a record from which another request made a job.
RetryIsFirst ==
  \A p, q \in Requests :
    Retrying(q) /\ request[p].record = request[q].record /\ Enqueued(p) => p = q

\* The invariant about retries, inductive relative to Inv.
RetryInv ==
  RecordInv /\ RetriesSerialized /\ EnqueuedIsMarked /\ RetryIsFirst /\ RetriedOnce

\* A record stays marked.
LEMMA MarksKept ==
  ASSUME TypeOK, RequestInv, Next, NEW i \in 1..Len(dlq), dlq[i].retried
  PROVE  i \in 1..Len(dlq') /\ dlq'[i].retried
<1>0. dlq \in Seq(FailedJob) BY DEF TypeOK
<1>1. ASSUME NEW t \in listener, ListenerSave(t) PROVE i \in 1..Len(dlq') /\ dlq'[i].retried
  BY <1>0, <1>1 DEF ListenerSave
<1>2. ASSUME NEW q \in Requests, RetryMark(q) PROVE i \in 1..Len(dlq') /\ dlq'[i].retried
  <2>1. dlq[i] \in FailedJob BY <1>0
  <2> QED BY <1>0, <1>2, <2>1 DEF RetryMark, FailedJob
<1> QED BY <1>1, <1>2, ListenerSteps DEF EmitFailed, Crash, ListenerRead, ListenerFault

\* Every step keeps RetryInv, when API requests do not die and retries do not
\* overlap.
LEMMA RetryStep ==
  ASSUME "abort" \notin Env, "overlap" \notin Env, Inv, RetryInv, Next
  PROVE  RetryInv'
<1>0. TypeOK /\ JobInv /\ WorkerInv /\ RequestInv BY DEF Inv
<1>t. request \in [Requests -> Request] /\ dlq \in Seq(FailedJob) BY <1>0 DEF TypeOK
<1>r. RecordInv /\ RetriesSerialized /\ EnqueuedIsMarked /\ RetryIsFirst /\ RetriedOnce
  BY DEF RetryInv
<1>m. \A i \in 1..Len(dlq) : dlq[i].retried => i \in 1..Len(dlq') /\ dlq'[i].retried
  BY <1>0, MarksKept
<1>z. \A q \in Requests : Retrying(q) => request[q].record # 0
  BY <1>0, <1>t DEF RequestInv, RequestOK, Retrying
<1>e. \A q \in Requests : Enqueued(q)' /\ ~Enqueued(q) => CreateAdd(q) \/ RetryAdd(q)
  BY <1>0, NewJobStep DEF Enqueued
\* Steps after which the same requests retry the same records.
<1>k. ASSUME \A q \in Requests : Retrying(q)' => Retrying(q),
             \A q \in Requests : request'[q].record = request[q].record,
             \A q \in Requests : request'[q].pc \in {"idle", "createAdd"} => request[q].pc \in {"idle", "createAdd"},
             \A q \in Requests : request[q].pc \in {"retryLink", "retryMark"} =>
                \/ request'[q].pc \in {"retryLink", "retryMark"}
                \/ request[q].record \in 1..Len(dlq') /\ dlq'[request[q].record].retried,
             \A q \in Requests : RetryAdd(q) => request'[q].pc = "retryLink"
      PROVE  RetryInv'
  <2>1. \A q \in Requests : Enqueued(q)' =>
          \/ Enqueued(q) \/ request[q].record = 0
          \/ Retrying(q) /\ request'[q].pc = "retryLink"
    BY <1>e, <1>r, <1>k DEF RecordInv, CreateAdd, RetryAdd, RequestAt, Retrying, RetryPc
  <2>2. RecordInv' BY <1>r, <1>k DEF RecordInv
  <2>3. RetriesSerialized' BY <1>r, <1>k DEF RetriesSerialized
  <2>4. EnqueuedIsMarked' BY <1>r, <1>k, <1>m, <2>1 DEF EnqueuedIsMarked
  <2>5. RetryIsFirst' BY <1>r, <1>k, <1>z, <2>1 DEF RetryIsFirst, RetriesSerialized
  <2>6. RetriedOnce'
    <3>1. ASSUME NEW p \in Requests, NEW q \in Requests,
                 request[p].record = request[q].record, request[p].record # 0,
                 Enqueued(p)', Enqueued(q)'
          PROVE  p = q
      BY <1>r, <2>1, <3>1 DEF RetriedOnce, RetryIsFirst, RetriesSerialized, Enqueued
    <3> QED BY <1>k, <3>1 DEF RetriedOnce, Enqueued
  <2> QED BY <2>2, <2>3, <2>4, <2>5, <2>6 DEF RetryInv
<1>1. CASE UNCHANGED request
  <2>1. \A q \in Requests : ~RetryAdd(q) BY <1>t, <1>1 DEF RetryAdd, Advance, RequestAt, Request
  <2> QED BY <1>1, <1>k, <2>1 DEF Retrying
<1>2. ASSUME NEW p \in Requests, NEW i \in 1..Len(dlq), RetryRead(p, i) PROVE RetryInv'
  <2>1. /\ request'[p].pc = IF dlq[i].retried THEN "done" ELSE "retryReset"
        /\ request'[p].record = i
    BY <1>t, <1>2 DEF RetryRead, Request
  <2>2. \A q \in Requests \ {p} : request'[q] = request[q] BY <1>t, <1>2 DEF RetryRead
  <2>3. \A q \in Requests : ~Retrying(q) BY <1>2 DEF RetryRead, Retrying
  <2>4. UNCHANGED <<job, dlq>> BY <1>2 DEF RetryRead
  <2>5. ~Enqueued(p) BY <1>0, <1>2 DEF RetryRead, RequestAt, RequestInv, RequestOK
  <2>6. \A q \in Requests : Retrying(q)' => q = p /\ ~dlq[i].retried
    BY <2>1, <2>2, <2>3 DEF Retrying, RetryPc
  <2>7. RecordInv' BY <1>r, <2>1, <2>2 DEF RecordInv
  <2>8. RetriesSerialized' BY <2>6 DEF RetriesSerialized
  <2>9. EnqueuedIsMarked' BY <1>r, <2>2, <2>4, <2>5 DEF EnqueuedIsMarked, Enqueued
  <2>10. RetryIsFirst'
    <3>1. ASSUME NEW q \in Requests \ {p}, request[q].record = i, Enqueued(q) PROVE dlq[i].retried
      BY <1>r, <2>3, <3>1 DEF EnqueuedIsMarked, Retrying, RetryPc
    <3> QED BY <2>1, <2>2, <2>4, <2>6, <3>1 DEF RetryIsFirst, Enqueued
  <2>11. RetriedOnce' BY <1>r, <2>2, <2>4, <2>5 DEF RetriedOnce, Enqueued
  <2> QED BY <2>7, <2>8, <2>9, <2>10, <2>11 DEF RetryInv
<1>3. ASSUME NEW p \in Requests, \/ Serve(p) \/ \E v \in Videos : CreateSave(p, v) \/ PatchRead(p, v)
      PROVE  RetryInv'
  <2>a. ASSUME NEW pc, Advance(p, pc)
        PROVE  /\ request'[p].record = request[p].record
               /\ request'[p].pc = pc
    BY <1>t, <2>a DEF Advance, Request
  <2>0. \A q \in Requests \ {p} : request'[q] = request[q]
    BY <1>t, <1>3 DEF Serve, CreateSave, CreateAdd, CreateLink, RetryReset, RetryAdd, RetryLink,
       RetryMark, PatchRead, PatchSelect, PatchUpdate, PatchInsert, Advance
  <2>1. \A q \in Requests \ {p} : request'[q] = request[q] /\ ~RetryAdd(q)
    <3>1. ASSUME NEW q \in Requests, RetryAdd(q) PROVE request'[q] # request[q]
      BY <1>t, <3>1 DEF RetryAdd, Advance, RequestAt, Request
    <3> QED BY <2>0, <3>1
  <2>2. /\ request'[p].record = request[p].record
        /\ request'[p].pc # "idle"
        /\ request'[p].pc = "createAdd" => request[p].pc = "idle"
        /\ Retrying(p)' => Retrying(p)
        /\ request[p].pc = "retryLink" => request'[p].pc = "retryMark"
        /\ RetryAdd(p) => request'[p].pc = "retryLink"
    <3> USE DEF RequestAt, Retrying, RetryPc
    <3>1. CASE \/ CreateAdd(p) \/ CreateLink(p) \/ PatchUpdate(p) \/ PatchInsert(p)
      <4>1. \E pc \in {"createLink", "done"} : Advance(p, pc) /\ request[p].pc # "retryLink"
        BY <3>1 DEF CreateAdd, CreateLink, PatchUpdate, PatchInsert
      <4>2. ~RetryAdd(p) BY <3>1 DEF CreateAdd, CreateLink, PatchUpdate, PatchInsert, RetryAdd
      <4> QED BY <2>a, <4>1, <4>2
    <3>2. CASE RetryReset(p) \/ RetryAdd(p) \/ RetryLink(p) \/ RetryMark(p)
      BY <2>a, <3>2 DEF RetryReset, RetryAdd, RetryLink, RetryMark
    <3>3. CASE PatchSelect(p)
      <4>1. PICK pc \in {"patchUpdate", "patchInsert"} : \E cs :
              request' = [request EXCEPT ![p] = [request[p] EXCEPT !.pc = pc, !.columns = cs]]
        BY <3>3 DEF PatchSelect
      <4>2. request'[p].pc = pc /\ request'[p].record = request[p].record
        BY <1>t, <4>1 DEF Request
      <4>3. request[p].pc = "patchSelect" BY <3>3 DEF PatchSelect
      <4> QED BY <4>1, <4>2, <4>3 DEF RetryAdd
    <3>4. CASE \E v \in Videos : CreateSave(p, v) \/ PatchRead(p, v)
      <4>1. request[p].pc = "idle" BY <3>4 DEF CreateSave, PatchRead
      <4>2. PICK v \in Videos : CreateSave(p, v) \/ PatchRead(p, v) BY <3>4
      <4>3. /\ request'[p].pc \in {"createAdd", "patchSelect"}
            /\ request'[p].record = request[p].record
        <5>1. CASE CreateSave(p, v) BY <1>t, <5>1 DEF CreateSave, Request
        <5>2. CASE PatchRead(p, v) BY <1>t, <5>2 DEF PatchRead, Request
        <5> QED BY <4>2, <5>1, <5>2
      <4> QED BY <4>1, <4>3 DEF RetryAdd
    <3> QED BY <1>3, <3>1, <3>2, <3>3, <3>4 DEF Serve
  <2>3. request[p].pc = "retryMark" =>
          request[p].record \in 1..Len(dlq') /\ dlq'[request[p].record].retried
    <3>1. SUFFICES ASSUME request[p].pc = "retryMark"
                   PROVE  request[p].record \in 1..Len(dlq') /\ dlq'[request[p].record].retried
      OBVIOUS
    <3>2. RetryMark(p)
      BY <1>3, <3>1 DEF Serve, CreateSave, CreateAdd, CreateLink, RetryReset, RetryAdd, RetryLink,
         PatchRead, PatchSelect, PatchUpdate, PatchInsert, RequestAt
    <3>3. request[p].record \in 1..Len(dlq) BY <1>0, <3>1 DEF RequestInv, RequestOK, RetryPc
    <3>4. dlq[request[p].record] \in FailedJob BY <1>t, <3>3
    <3> QED BY <1>t, <3>2, <3>3, <3>4 DEF RetryMark, FailedJob
  <2> QED BY <1>k, <2>1, <2>2, <2>3 DEF Retrying
<1>4. \A p \in Requests : ~Abort(p) BY DEF Abort
<1> QED BY <1>1, <1>2, <1>3, <1>4, RequestSteps DEF Accept

\* RetryInv is an invariant when requests neither die nor overlap.
LEMMA RetryInvariance ==
  ASSUME "abort" \notin Env, "overlap" \notin Env PROVE Spec => []RetryInv
<1>1. Init => RetryInv
  BY DEF Init, RetryInv, RecordInv, RetriesSerialized, EnqueuedIsMarked, RetryIsFirst, RetriedOnce,
     Retrying, RetryPc, IdleRequest, Enqueued
<1>2. Inv /\ RetryInv /\ [Next]_vars => RetryInv'
  <2>1. ASSUME RetryInv, UNCHANGED vars PROVE RetryInv'
    BY <2>1 DEF RetryInv, RecordInv, RetriesSerialized, EnqueuedIsMarked, RetryIsFirst, RetriedOnce,
       Retrying, Enqueued, vars
  <2> QED BY <2>1, RetryStep
<1> QED BY <1>1, <1>2, Invariance, PTL DEF Spec

\* One record, one new job: as long as API requests run to their end and two
\* retries are not in flight at once, no order of crashes, redeliveries, failing
\* calls, deletions and PATCHes makes two jobs from one DLQ record.
THEOREM RecordsAreRetriedOnce ==
  ASSUME "abort" \notin Env, "overlap" \notin Env PROVE Spec => []RetriedOnce
<1>1. RetryInv => RetriedOnce BY DEF RetryInv
<1> QED BY <1>1, RetryInvariance, PTL

-----------------------------------------------------------------------------
\* Record i of v can be retried, and no request has reset v to do so.
Retriable(v, i) ==
  /\ dlq[i].video = v
  /\ ~dlq[i].retried
  /\ \A q \in Requests : request[q].record = i =>
       request[q].pc \notin {"retryAdd", "retryLink", "retryMark"}

\* The failure of v is known to a handler, to a listener, or to the DLQ.
FailureKnown(v) ==
  \/ \E w \in Workers : At(w, "emit") /\ VideoOf(w) = v
  \/ \E t \in listener : t.video = v
  \/ \E i \in 1..Len(dlq) : Retriable(v, i)

\* No failure is forgotten.
RecordedInv == \A v \in Videos : video[v].status = "FAILED" => FailureKnown(v)

\* A video only becomes FAILED under a handler that will tell of it.
LEMMA FailedMoves ==
  ASSUME Inv, NoPatching, Next, NEW v \in Videos, video'[v].status = "FAILED"
  PROVE  video[v].status = "FAILED" \/ FailureKnown(v)'
<1>0. TypeOK /\ JobInv /\ WorkerInv /\ RequestInv BY DEF Inv
<1>t. video \in [Videos -> Row] /\ worker \in [Workers -> Worker] BY <1>0 DEF TypeOK
<1>1. SUFFICES ASSUME video[v].status # "FAILED" PROVE FailureKnown(v)' OBVIOUS
<1>u. ASSUME NEW u, NEW p, UpdateProgress(u, p) PROVE FALSE
  BY <1>t, <1>1, <1>u DEF UpdateProgress, Row
<1>2. ASSUME NEW w \in Workers, MarkFailed(w) PROVE FailureKnown(v)'
  <2>1. VideoOf(w) = v BY <1>t, <1>1, <1>2 DEF MarkFailed
  <2>2. worker'[w].pc = "emit" /\ worker'[w].job = worker[w].job
    BY <1>t, <1>2 DEF MarkFailed, Goto, Worker
  <2>3. At(w, "emit")' /\ VideoOf(w)' = v
    BY <1>2, <2>1, <2>2 DEF MarkFailed, At, VideoOf, JobOf
  <2> QED BY <2>3 DEF FailureKnown
<1>3. ASSUME NEW w \in Workers,
             StartAttempt(w) \/ EnhancePrompt(w) \/ GenerateVideo(w) \/ Poll(w) \/ Complete(w)
      PROVE  FALSE
  <2>1. ~EnhancePrompt(w) /\ ~GenerateVideo(w) /\ ~Poll(w)
    BY <1>u DEF EnhancePrompt, GenerateVideo, Poll
  <2>2. ~StartAttempt(w) BY <1>t, <1>1 DEF StartAttempt, Row
  <2>3. ~Complete(w)
    <3>1. CompletedRow(video[v]).status = "COMPLETED" BY <1>t DEF CompletedRow, Row
    <3> QED BY <1>t, <1>1, <3>1 DEF Complete
  <2> QED BY <1>3, <2>1, <2>2, <2>3
<1>4. ASSUME NEW q \in Requests,
             \/ \E u \in Videos : CreateSave(q, u)
             \/ CreateLink(q) \/ RetryReset(q) \/ RetryLink(q)
      PROVE  FALSE
  <2>1. \A u \in Videos : ~CreateSave(q, u) BY <1>t, <1>1 DEF CreateSave, EmptyRow
  <2>2. ~CreateLink(q) /\ ~RetryLink(q)
    BY <1>t, <1>1 DEF CreateLink, RetryLink, LinkedRow, Row
  <2>3. ~RetryReset(q)
    <3>1. ResetRow(video[v]).status = "PENDING" BY <1>t DEF ResetRow, Row
    <3> QED BY <1>t, <1>1, <3>1 DEF RetryReset
  <2> QED BY <1>4, <2>1, <2>2, <2>3
<1>5. ASSUME NEW q \in Requests PROVE ~PatchUpdate(q) /\ ~PatchInsert(q)
  BY DEF NoPatching, PatchPc, PatchUpdate, PatchInsert, RequestAt
<1>6. ASSUME NEW u \in Videos, Remove(u) PROVE FALSE
  BY <1>t, <1>1, <1>6 DEF Remove, EmptyRow
<1> QED BY <1>1, <1>2, <1>3, <1>4, <1>5, <1>6, VideoSteps

\* Retriable records stay so until their video is reset.
LEMMA RetriableKept ==
  ASSUME Inv, Next, NEW v \in Videos, video'[v].status = "FAILED",
         NEW i \in 1..Len(dlq), Retriable(v, i)
  PROVE  i \in 1..Len(dlq') /\ Retriable(v, i)'
<1>0. TypeOK /\ RequestInv BY DEF Inv
<1>t. /\ dlq \in Seq(FailedJob) /\ request \in [Requests -> Request]
      /\ video \in [Videos -> Row]
  BY <1>0 DEF TypeOK
<1>1. i \in 1..Len(dlq') /\ dlq'[i].video = v /\ ~dlq'[i].retried
  <2>1. ASSUME NEW t \in listener, ListenerSave(t) PROVE dlq'[i] = dlq[i]
    BY <1>t, <2>1 DEF ListenerSave
  <2>2. ASSUME NEW q \in Requests, RetryMark(q) PROVE dlq'[i] = dlq[i]
    <3>1. request[q].record # i BY <2>2 DEF RetryMark, RequestAt, Retriable
    <3> QED BY <1>t, <2>2, <3>1 DEF RetryMark
  <2>3. dlq'[i] = dlq[i]
    BY <2>1, <2>2, ListenerSteps DEF EmitFailed, Crash, ListenerRead, ListenerFault
  <2> QED BY <1>0, <2>3, RecordsKept DEF Retriable
<1>2. ASSUME NEW q \in Requests, request'[q].record = i,
             request'[q].pc \in {"retryAdd", "retryLink", "retryMark"}
      PROVE  FALSE
  <2>1. request'[q] # request[q] BY <1>2 DEF Retriable
  <2>2. ASSUME NEW p \in Requests, Serve(p) \/ Accept(p) \/ Abort(p), p # q
        PROVE  FALSE
    BY <1>t, <2>1, <2>2 DEF Serve, Accept, Abort, CreateSave, CreateAdd, CreateLink, RetryRead, RetryReset,
       RetryAdd, RetryLink, RetryMark, PatchRead, PatchSelect, PatchUpdate, PatchInsert, Advance
  <2>a. ASSUME NEW pc, Advance(q, pc) PROVE request'[q].pc = pc /\ request[q].record = i
    BY <1>t, <1>2, <2>a DEF Advance, Request
  <2>3. ~RetryReset(q)
    <3>1. ASSUME RetryReset(q) PROVE FALSE
      <4>1. request[q].record = i BY <2>a, <3>1 DEF RetryReset
      <4>2. request[q].video = v
        BY <1>0, <3>1, <4>1 DEF RetryReset, RequestAt, RequestInv, RequestOK, RetryPc, Retriable
      <4>3. ResetRow(video[v]).status = "PENDING" BY <1>t DEF ResetRow, Row
      <4> QED BY <1>t, <3>1, <4>2, <4>3 DEF RetryReset, Exists, RowStatus
    <3> QED BY <3>1
  <2>4. ~RetryAdd(q) /\ ~RetryLink(q)
    BY <2>a DEF RetryAdd, RetryLink, RequestAt, Retriable
  <2>5. ~CreateAdd(q) /\ ~CreateLink(q) /\ ~RetryMark(q) /\ ~PatchUpdate(q) /\ ~PatchInsert(q) /\ ~Abort(q)
    BY <1>2, <2>a DEF CreateAdd, CreateLink, RetryMark, PatchUpdate, PatchInsert, Abort
  <2>6. ~PatchSelect(q)
    <3>1. ASSUME NEW pc \in {"patchUpdate", "patchInsert"}, NEW cs,
                 request' = [request EXCEPT ![q] = [request[q] EXCEPT !.pc = pc, !.columns = cs]]
          PROVE  FALSE
      BY <1>t, <1>2, <3>1 DEF Request
    <3> QED BY <3>1 DEF PatchSelect
  <2>7. ASSUME NEW u \in Videos PROVE ~CreateSave(q, u) /\ ~PatchRead(q, u)
    BY <1>t, <1>2 DEF CreateSave, PatchRead, Request
  <2>8. \A j \in 1..Len(dlq) : ~RetryRead(q, j)
    <3>1. ASSUME NEW j, NEW pc \in {"done", "retryReset"},
                 request' = [request EXCEPT ![q] = [request[q] EXCEPT !.pc = pc, !.video = dlq[j].video, !.record = j]]
          PROVE  FALSE
      BY <1>t, <1>2, <3>1 DEF Request
    <3> QED BY <3>1 DEF RetryRead
  <2> QED BY <2>1, <2>2, <2>3, <2>4, <2>5, <2>6, <2>7, <2>8, RequestSteps DEF Serve, Accept
<1> QED BY <1>1, <1>2 DEF Retriable

\* A listener ends by writing its record, if no call fails and no process dies.
LEMMA ListenerKept ==
  ASSUME "crash" \notin Env, "fault" \notin Env, Inv, Next,
         NEW v \in Videos, NEW t \in listener, t.video = v
  PROVE  FailureKnown(v)'
<1>0. TypeOK /\ RequestInv BY DEF Inv
<1>t. dlq \in Seq(FailedJob) /\ request \in [Requests -> Request] /\ listener \subseteq Listener
  BY <1>0 DEF TypeOK
<1>1. CASE t \in listener' BY <1>1 DEF FailureKnown
<1>2. CASE ListenerRead(t)
  <2>1. \E id : [t EXCEPT !.pc = "save", !.queueJobId = id] \in listener'
    BY <1>2 DEF ListenerRead
  <2>2. \E u \in listener' : u.video = v BY <1>t, <2>1 DEF Listener
  <2> QED BY <2>2 DEF FailureKnown
<1>3. CASE ListenerSave(t)
  <2>0. PICK n : n = Len(dlq) + 1 OBVIOUS
  <2>1. n \in 1..Len(dlq') /\ dlq'[n].video = v /\ ~dlq'[n].retried BY <1>t, <1>3, <2>0 DEF ListenerSave
  <2>2. ASSUME NEW q \in Requests, request'[q].record = n
        PROVE  request'[q].pc \notin {"retryAdd", "retryLink", "retryMark"}
    BY <1>0, <1>t, <1>3, <2>0, <2>2 DEF ListenerSave, RequestInv, RequestOK, RetryPc
  <2>3. Retriable(v, n)' BY <2>1, <2>2 DEF Retriable
  <2> QED BY <2>1, <2>3 DEF FailureKnown
<1>4. ASSUME NEW u \in listener, u # t, ListenerRead(u) \/ ListenerSave(u) PROVE t \in listener'
  BY <1>4 DEF ListenerRead, ListenerSave
<1>5. \A u \in listener : ~ListenerFault(u) BY DEF ListenerFault
<1>6. \A w \in Workers : ~Crash(w) BY DEF Crash
<1> QED BY <1>1, <1>2, <1>3, <1>4, <1>5, <1>6, ListenerSteps DEF EmitFailed, RetryMark

\* A handler at the event emits it, if no process dies.
LEMMA EmitKept ==
  ASSUME "crash" \notin Env, Inv, Next,
         NEW v \in Videos, NEW w \in Workers, At(w, "emit"), VideoOf(w) = v
  PROVE  FailureKnown(v)'
<1>0. TypeOK /\ JobInv /\ WorkerInv /\ RequestInv BY DEF Inv
<1>q. Busy(w) /\ worker[w].job \in Requests /\ Enqueued(worker[w].job)
  BY <1>0 DEF WorkerInv, At, Busy
<1>1. CASE worker'[w] = worker[w]
  <2>1. VideoOf(w)' = v BY <1>0, <1>1, <1>q, JobsKeptStep DEF JobsKept, VideoOf, JobOf
  <2> QED BY <1>1, <2>1 DEF FailureKnown, At
<1>2. CASE EmitFailed(w)
  <2> DEFINE t == [process |-> w, job |-> worker[w].job, video |-> VideoOf(w),
                   delivery |-> worker[w].attemptsStarted,
                   attemptsMade |-> worker[w].attemptsMade + 1,
                   pc |-> "read", queueJobId |-> None]
  <2>1. t \in listener' BY <1>2 DEF EmitFailed
  <2>2. t.video = v OBVIOUS
  <2>3. \E u \in listener' : u.video = v BY <2>1, <2>2
  <2> QED BY <2>3 DEF FailureKnown
<1>3. ASSUME Handle(w), ~EmitFailed(w) PROVE FALSE
  BY <1>3 DEF Handle, FindById, StartAttempt, EnhancePrompt, GenerateVideo, Poll, Store, Complete,
     ReportCompleted, MarkFailed, Rethrow, JobCompleted, JobFailed, At
<1>4. ~Fault(w) /\ ~MarkFailedFault(w) /\ ~Crash(w) /\ \A p \in Requests : ~Fetch(w, p)
  BY <1>q DEF Fault, MarkFailedFault, Crash, Fetch, TryPc, At
<1> QED BY <1>0, <1>1, <1>2, <1>3, <1>4, OwnMove

\* RecordedInv holds in every state if no process dies, no call fails and
\* nobody PATCHes.
LEMMA RecordedInvariance ==
  ASSUME "crash" \notin Env, "fault" \notin Env, "patch" \notin Env
  PROVE  Spec => []RecordedInv
<1>1. Init => RecordedInv BY DEF Init, RecordedInv, EmptyRow
<1>2. Inv /\ RowInv /\ RecordedInv /\ [Next]_vars => RecordedInv'
  <2>1. ASSUME RecordedInv, UNCHANGED vars PROVE RecordedInv'
    BY <2>1 DEF RecordedInv, FailureKnown, Retriable, At, VideoOf, JobOf, vars
  <2>2. ASSUME Inv, RowInv, RecordedInv, Next, NEW v \in Videos, video'[v].status = "FAILED"
        PROVE  FailureKnown(v)'
    <3>1. CASE video[v].status # "FAILED" BY <2>2, <3>1, FailedMoves DEF RowInv
    <3>2. CASE FailureKnown(v)
      <4>1. ASSUME NEW i \in 1..Len(dlq), Retriable(v, i) PROVE FailureKnown(v)'
        BY <2>2, <4>1, RetriableKept DEF FailureKnown
      <4> QED BY <2>2, <3>2, <4>1, EmitKept, ListenerKept DEF FailureKnown
    <3> QED BY <2>2, <3>1, <3>2 DEF RecordedInv
  <2> QED BY <2>1, <2>2 DEF RecordedInv
<1> QED BY <1>1, <1>2, Invariance, RowInvariance, PTL DEF Spec

\* Every record is on some page of the list.
LEMMA RecordsAreListed ==
  ASSUME TypeOK, NEW i \in 1..Len(dlq), NEW limit \in {1, 20}
  PROVE  \E page \in 1..Len(dlq) : toDto(i) \in listFailedJobs(page, safeLimit(limit))
<1>0. Len(dlq) \in Nat /\ i \in 1..Len(dlq) BY DEF TypeOK
<1>1. safeLimit(limit) = limit BY DEF safeLimit
<1>2. CASE limit = 1
  <2>1. Len(dlq) - i + 1 \in 1..Len(dlq) BY <1>0
  <2>2. Len(dlq) - i \in ((Len(dlq) - i + 1 - 1) * 1)..((Len(dlq) - i + 1 - 1) * 1 + 1 - 1) BY <1>0
  <2> QED BY <1>1, <1>2, <2>1, <2>2 DEF listFailedJobs
<1>3. CASE limit = 20
  <2>1. PICK k \in Nat : k <= Len(dlq) - i /\ 20 * k <= Len(dlq) - i /\ Len(dlq) - i <= 20 * k + 19
    <3>1. (Len(dlq) - i) \div 20 \in Nat BY <1>0
    <3> QED BY <1>0, <3>1
  <2>2. k + 1 \in 1..Len(dlq) BY <1>0, <2>1
  <2>3. Len(dlq) - i \in ((k + 1 - 1) * 20)..((k + 1 - 1) * 20 + 20 - 1) BY <1>0, <2>1
  <2> QED BY <1>1, <1>3, <2>2, <2>3 DEF listFailedJobs
<1> QED BY <1>2, <1>3

\* A video shown as FAILED can be found and retried by paging through the DLQ,
\* with pages of one record or of twenty, once its handlers and listeners are
\* through: as long as no process dies, no call fails and nobody PATCHes, no
\* interleaving of lost locks, deletions, dying and overlapping requests forgets
\* a failure.
THEOREM FailuresAreRecorded ==
  ASSUME "crash" \notin Env, "fault" \notin Env, "patch" \notin Env
  PROVE  Spec => []FailedIsRecorded
<1>1. Inv /\ RecordedInv => FailedIsRecorded
  <2>1. SUFFICES ASSUME Inv, RecordedInv, NEW v \in Videos, video[v].status = "FAILED",
                        \A w \in Workers : Busy(w) => VideoOf(w) # v,
                        \A t \in listener : t.video # v,
                        NEW limit \in {1, 20}
                 PROVE  \E page \in 1..Len(dlq) : \E item \in listFailedJobs(page, safeLimit(limit)) :
                          item \in FailedJobDto /\ item.video = v /\ ~item.retried
    BY DEF FailedIsRecorded
  <2>2. PICK i \in 1..Len(dlq) : Retriable(v, i)
    BY <2>1 DEF RecordedInv, FailureKnown, At, Busy
  <2>3. dlq[i] \in FailedJob BY <2>1 DEF Inv, TypeOK
  <2>4. toDto(i) \in FailedJobDto /\ toDto(i).video = v /\ ~toDto(i).retried
    BY <2>2, <2>3 DEF toDto, FailedJob, FailedJobDto, Retriable
  <2>5. PICK page \in 1..Len(dlq) : toDto(i) \in listFailedJobs(page, safeLimit(limit))
    BY <2>1, RecordsAreListed DEF Inv
  <2> QED BY <2>4, <2>5
<1> QED BY <1>1, Invariance, RecordedInvariance, PTL
=============================================================================
