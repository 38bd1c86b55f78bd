---------------------------- MODULE CarrierProofs ----------------------------
(***************************************************************************)
(* Who works on a video, when processes die, locks are lost, calls fail,   *)
(* videos are deleted and PATCHed, but no request dies half-way and        *)
(* retries do not overlap.                                                 *)
(*                                                                         *)
(* The argument.  At any moment at most one thing in the system carries a  *)
(* video: a request about to enqueue its job, a waiting job, a handler, a  *)
(* listener, a DLQ record that can be retried, or, at rest, the job that   *)
(* completed it (Carries).  Each step leaves the carriers of a video       *)
(* alone, drops one, or passes the video from its one carrier to the next; *)
(* only the stalled checker makes a second carrier, when it gives a job    *)
(* back whose handler may still run, and then the video is Redelivered.    *)
(* The carrier tells what the video's status must be (Expects), until a    *)
(* PATCH writes the status; a deleted video stays deleted whoever carries  *)
(* it.  Hence two attempts overlap, and the COMPLETED event lies, only for *)
(* a redelivered (or PATCHed) video.  Where no job is ever redelivered,    *)
(* jobs tell the truth of their videos, and, if no call fails, every write *)
(* of a status is a move of the documented state machine.                  *)
(***************************************************************************)
EXTENDS DeliveryProofs

\* The request will enqueue a job, or reset the video to do so.
Asking(q) == request[q].pc \in {"createAdd", "retryReset", "retryAdd"}

\* The handler is through with the last attempt of its job.
Spent(w)   == At(w, "reject") /\ isFinalAttempt(w)
Working(w) == Busy(w) /\ ~Spent(w)

\* Record i can be retried: it was not, and nobody is at it.
Open(i) ==
  /\ ~dlq[i].retried
  /\ \A q \in Requests : Retrying(q) => request[q].record # i

\* The job waits for delivery, or has completed its video.
Holds(q) == job[q].state \in {"wait", "completed"}

\* x can move video v on, or is the job that completed it.
Carries(x, v) ==
  \/ \E q \in Requests : x = <<"request", q>> /\ Asking(q) /\ request[q].video = v
  \/ \E q \in Requests : x = <<"job", q>> /\ Holds(q) /\ job[q].video = v
  \/ \E w \in Workers : x = <<"worker", w>> /\ Working(w) /\ VideoOf(w) = v
  \/ \E t \in listener : x = <<"listener", t>> /\ t.video = v
  \/ \E i \in 1..Len(dlq) : x = <<"record", i>> /\ Open(i) /\ dlq[i].video = v

\* The statuses a request and a handler rely on.
AskStage(q) == IF request[q].pc = "retryReset" THEN {"FAILED"} ELSE {"PENDING"}

\* The statuses between two attempts: COMPLETED when the call that reports it
\* failed.
Unfinished == IF "fault" \in Env THEN {"PENDING", "PROCESSING", "COMPLETED"}
                                ELSE {"PENDING", "PROCESSING"}

Stage(w) ==
  CASE worker[w].pc \in {"find", "catch", "reject"} -> Unfinished
    [] worker[w].pc = "start" -> Unfinished \cap {worker[w].seen}
    [] worker[w].pc \in {"enhance", "submit", "poll", "store", "complete"} -> {"PROCESSING"}
    [] worker[w].pc \in {"report", "resolve"} -> {"COMPLETED"}
    [] OTHER -> {"FAILED"}

\* The statuses carrier x relies on.
Expects(x) ==
  CASE x[1] = "request" -> AskStage(x[2])
    [] x[1] = "job"     -> IF job[x[2]].state = "completed" THEN {"COMPLETED"} ELSE Unfinished
    [] x[1] = "worker"  -> Stage(x[2])
    [] OTHER            -> {"FAILED"}

\* The row of v has a status x relies on.
Suits(x, v) == video[v].status \in Expects(x) \cup {"DELETED"}

\* v has at most one carrier, was inserted before it had one, and has a status
\* that carrier relies on unless a PATCH wrote it.
Carried(v) ==
  /\ \A x, y : Carries(x, v) /\ Carries(y, v) => x = y
  /\ \A x : Carries(x, v) => video[v].status # "NEW"
  /\ \A x : Carries(x, v) => Suits(x, v) \/ Patched(v)

\* Every video is, until a job of it is redelivered.
CarriedInv == \A v \in Videos : Carried(v) \/ Redelivered(v)

\* What a PATCH read was a row.
EntityInv == \A q \in Requests : request[q].pc \in PatchPc => request[q].row.status \in RowStatus

\* A job that was not added yet was not stalled.
FreshInv == \A q \in Requests : ~Enqueued(q) => job[q].stalled = 0

\* What redelivery and PATCHes leave behind.
HistoryInv == EntityInv /\ FreshInv

\* The invariant of runs without half-done or overlapping requests, inductive
\* relative to Inv and OwnerInv.
CarrierInv == CarriedInv /\ HistoryInv

\* Nothing waits for the stalled checker.
ActiveIsHeld == \A q \in Requests : job[q].state = "active" => job[q].owner # None

\* A job fails in its last attempt only.
JobEndInv ==
  \A q \in Requests : job[q].state = "failed" => job[q].attemptsMade = job[q].attempts

\* A row that is not there names no job.
LinkInv ==
  \A v \in Videos : video[v].status \in {"NEW", "DELETED"} => video[v].queueJobId = None

\* No video is Redelivered or Patched.
Untouched == \A v \in Videos : ~Redelivered(v) /\ ~Patched(v)

\* The invariant of quiet runs, inductive relative to Inv, OwnerInv and RowInv.
QuietInv == ActiveIsHeld /\ Untouched /\ JobEndInv /\ LinkInv

-----------------------------------------------------------------------------
\* x carried v before the step, and relied on the same.
Old(x, v) == Carries(x, v) /\ Expects(x)' = Expects(x)

\* A request that retries goes on until it marks its record, or dies.
LEMMA RetryingKept ==
  ASSUME TypeOK, Next, NEW q \in Requests, Retrying(q)
  PROVE  \/ Retrying(q)' /\ request'[q].record = request[q].record
         \/ RetryMark(q) \/ Abort(q)
<1>0. request \in [Requests -> Request] BY DEF TypeOK
<1>1. CASE request'[q] = request[q] BY <1>1 DEF Retrying
<1>2. ASSUME NEW p \in Requests, Serve(p) \/ Accept(p) \/ Abort(p), p # q
      PROVE  request'[q] = request[q]
  BY <1>0, <1>2 DEF Serve, Accept, Abort, CreateSave, CreateAdd, CreateLink, RetryRead, RetryReset,
     RetryAdd, RetryLink, RetryMark, PatchRead, PatchSelect, PatchUpdate, PatchInsert, Advance
<1>3. CASE RetryReset(q) \/ RetryAdd(q) \/ RetryLink(q)
  <2>1. \E pc \in RetryPc : Advance(q, pc) BY <1>3 DEF RetryReset, RetryAdd, RetryLink, RetryPc
  <2> QED BY <1>0, <2>1 DEF Advance, Request, Retrying
<1>4. Serve(q) => RetryReset(q) \/ RetryAdd(q) \/ RetryLink(q) \/ RetryMark(q)
  BY DEF Serve, CreateAdd, CreateLink, PatchSelect, PatchUpdate, PatchInsert, RequestAt,
     Retrying, RetryPc
<1>5. ~Accept(q) BY DEF Accept, CreateSave, RetryRead, PatchRead, RequestAt, Retrying, RetryPc
<1> QED BY <1>1, <1>2, <1>3, <1>4, <1>5, RequestSteps

\* No step opens a record.
LEMMA OpenBefore ==
  ASSUME "abort" \notin Env, Inv, Next, NEW i \in 1..Len(dlq), Open(i)'
  PROVE  Open(i)
<1>0. TypeOK /\ RequestInv BY DEF Inv
<1>t. dlq \in Seq(FailedJob) BY <1>0 DEF TypeOK
<1>1. ~dlq[i].retried BY <1>0, MarksKept DEF Open
<1>2. ASSUME NEW q \in Requests, Retrying(q), request[q].record = i PROVE FALSE
  <2>1. CASE RetryMark(q)
    <3>1. dlq[i] \in FailedJob BY <1>t
    <3>2. dlq'[i].retried BY <1>t, <1>2, <2>1, <3>1 DEF RetryMark, FailedJob
    <3> QED BY <3>2 DEF Open
  <2>2. ~Abort(q) BY DEF Abort
  <2>3. ~(Retrying(q)' /\ request'[q].record = i) BY DEF Open
  <2> QED BY <1>0, <1>2, <2>1, <2>2, <2>3, RetryingKept
<1> QED BY <1>1, <1>2 DEF Open

\* A handler that did not move carries the video it carried.
LEMMA WorkerStays ==
  ASSUME Inv, Next, NEW w \in Workers, worker'[w] = worker[w], Busy(w)
  PROVE  VideoOf(w)' = VideoOf(w) /\ (Working(w)' <=> Working(w))
<1>0. TypeOK /\ JobInv /\ WorkerInv /\ RequestInv BY DEF Inv
<1>1. worker[w].job \in Requests /\ Enqueued(worker[w].job) BY <1>0 DEF WorkerInv
<1>2. /\ job'[worker[w].job].video = job[worker[w].job].video
      /\ job'[worker[w].job].attempts = job[worker[w].job].attempts
  BY <1>0, <1>1, JobsKeptStep DEF JobsKept
<1>3. VideoOf(w)' = VideoOf(w) BY <1>2 DEF VideoOf, JobOf
<1>4. isFinalAttempt(w)' <=> isFinalAttempt(w) BY <1>2 DEF isFinalAttempt, JobOf
<1> QED BY <1>3, <1>4 DEF Working, Spent, Busy, At

\* Carriers that did not move are old; what else may carry a video afterwards.
LEMMA CarriersAfter ==
  ASSUME "abort" \notin Env, Inv, Next, NEW v, NEW x, Carries(x, v)'
  PROVE  \/ Old(x, v)
         \/ \E q \in Requests : x = <<"request", q>> /\ request'[q] # request[q]
         \/ \E q \in Requests : x = <<"job", q>> /\ job'[q] # job[q]
         \/ \E w \in Workers : x = <<"worker", w>> /\ worker'[w] # worker[w]
         \/ \E t \in listener' \ listener : x = <<"listener", t>>
         \/ \E i \in 1..Len(dlq') : x = <<"record", i>> /\ i \notin 1..Len(dlq)
<1>0. TypeOK /\ RequestInv BY DEF Inv
<1>1. ASSUME NEW q \in Requests, x = <<"request", q>>, request'[q] = request[q],
             Asking(q)', request'[q].video = v
      PROVE  Old(x, v)
  <2>1. Carries(x, v) BY <1>1 DEF Carries, Asking
  <2>2. Expects(x)' = Expects(x) BY <1>1 DEF Expects, AskStage
  <2> QED BY <2>1, <2>2 DEF Old
<1>2. ASSUME NEW q \in Requests, x = <<"job", q>>, job'[q] = job[q],
             Holds(q)', job'[q].video = v
      PROVE  Old(x, v)
  BY <1>2 DEF Old, Carries, Expects, Holds
<1>3. ASSUME NEW w \in Workers, x = <<"worker", w>>, worker'[w] = worker[w],
             Working(w)', VideoOf(w)' = v
      PROVE  Old(x, v)
  <2>1. Busy(w) BY <1>3 DEF Working, Busy
  <2>2. Carries(x, v) BY <1>3, <2>1, WorkerStays DEF Carries
  <2>3. Expects(x)' = Expects(x) BY <1>3 DEF Expects, Stage
  <2> QED BY <2>2, <2>3 DEF Old
<1>4. ASSUME NEW t \in listener, x = <<"listener", t>>, t.video = v PROVE Old(x, v)
  BY <1>4 DEF Old, Carries, Expects
<1>5. ASSUME NEW i \in 1..Len(dlq), x = <<"record", i>>, Open(i)', dlq'[i].video = v
      PROVE  Old(x, v)
  <2>1. Open(i) /\ dlq[i].video = v BY <1>0, <1>5, OpenBefore, RecordsKept
  <2> QED BY <1>5, <2>1 DEF Old, Carries, Expects
<1> QED BY <1>1, <1>2, <1>3, <1>4, <1>5 DEF Carries

-----------------------------------------------------------------------------
\* Only the stalled checker counts a job as stalled.
LEMMA StalledMoves ==
  ASSUME Inv, Next, NEW q \in Requests
  PROVE  \/ job'[q].stalled = job[q].stalled
         \/ StalledCheck(q) /\ job'[q].stalled = job[q].stalled + 1
         \/ (CreateAdd(q) \/ RetryAdd(q)) /\ ~Enqueued(q) /\ job'[q].stalled = 0
<1>0. TypeOK /\ JobInv /\ WorkerInv /\ RequestInv BY DEF Inv
<1>t. job \in [Requests -> Job] BY <1>0 DEF TypeOK
<1>1. ASSUME NEW w \in Workers, JobCompleted(w) \/ JobFailed(w) \/ Crash(w)
      PROVE  job'[q].stalled = job[q].stalled
  <2>1. Busy(w) => worker[w].job \in Requests BY <1>0, BusyFacts
  <2>2. CASE JobCompleted(w) BY <1>t, <2>1, <2>2 DEF JobCompleted, At, Busy, Job
  <2>3. CASE JobFailed(w)
    <3>1. worker[w].job \in Requests BY <2>1, <2>3 DEF JobFailed, At, Busy
    <3>2. \/ UNCHANGED job
          \/ \E st, made : job' = [job EXCEPT ![worker[w].job] =
               [job[worker[w].job] EXCEPT !.state = st, !.attemptsMade = made, !.owner = None]]
      BY <2>3 DEF JobFailed
    <3>3. ASSUME NEW st, NEW made, job' = [job EXCEPT ![worker[w].job] =
               [job[worker[w].job] EXCEPT !.state = st, !.attemptsMade = made, !.owner = None]]
          PROVE  job'[q].stalled = job[q].stalled
      BY <1>t, <3>1, <3>3 DEF Job
    <3> QED BY <3>2, <3>3
  <2>4. CASE Crash(w) BY <1>t, <2>1, <2>4 DEF Crash, Job
  <2> QED BY <1>1, <2>2, <2>3, <2>4
<1>2. ASSUME NEW w \in Workers, NEW p \in Requests, Fetch(w, p)
      PROVE  job'[q].stalled = job[q].stalled
  BY <1>t, <1>2 DEF Fetch, Job
<1>3. ASSUME NEW p \in Requests, CreateAdd(p) \/ RetryAdd(p), p # q
      PROVE  job'[q].stalled = job[q].stalled
  BY <1>t, <1>3 DEF CreateAdd, RetryAdd
<1>4. ASSUME CreateAdd(q) \/ RetryAdd(q)
      PROVE  ~Enqueued(q) /\ job'[q].stalled = 0
  <2>1. \E u, n : job' = [job EXCEPT ![q] = NewJob(u, n)] BY <1>4 DEF CreateAdd, RetryAdd
  <2>2. job'[q].stalled = 0 BY <1>t, <2>1 DEF NewJob, NoJob
  <2> QED BY <1>0, <1>4, <2>2 DEF CreateAdd, RetryAdd, RequestAt, RequestInv, RequestOK
<1>5. ASSUME NEW p \in Requests, LoseLock(p) PROVE job'[q].stalled = job[q].stalled
  BY <1>t, <1>5 DEF LoseLock, Job
<1>6. ASSUME NEW p \in Requests, StalledCheck(p)
      PROVE  \/ job'[q].stalled = job[q].stalled
             \/ p = q /\ job'[q].stalled = job[q].stalled + 1
  <2>1. \/ job' = [job EXCEPT ![p] = [job[p] EXCEPT !.state = "wait", !.stalled = job[p].stalled + 1]]
        \/ job' = [job EXCEPT ![p].state = "failed"]
    BY <1>6 DEF StalledCheck
  <2>2. CASE p # q BY <1>t, <2>1, <2>2
  <2>3. CASE p = q
    <3>1. job[q] \in Job BY <1>t
    <3>2. CASE job' = [job EXCEPT ![q] = [job[q] EXCEPT !.state = "wait", !.stalled = job[q].stalled + 1]]
      BY <1>t, <2>3, <3>1, <3>2 DEF Job
    <3>3. CASE job' = [job EXCEPT ![q].state = "failed"] BY <1>t, <3>1, <3>3 DEF Job
    <3> QED BY <2>1, <2>3, <3>2, <3>3
  <2> QED BY <2>2, <2>3
<1>7. CASE \E p \in Requests : CreateAdd(p) \/ RetryAdd(p) BY <1>3, <1>4, <1>7
<1>8. CASE \E p \in Requests : LoseLock(p) \/ StalledCheck(p)
  <2>1. PICK p \in Requests : LoseLock(p) \/ StalledCheck(p) BY <1>8
  <2>2. CASE LoseLock(p) BY <1>5, <2>2
  <2>3. CASE StalledCheck(p) BY <1>6, <2>3
  <2> QED BY <2>1, <2>2, <2>3
<1>9. CASE \E w \in Workers : \/ \E p \in Requests : Fetch(w, p)
                               \/ JobCompleted(w) \/ JobFailed(w) \/ Crash(w)
  BY <1>1, <1>2, <1>9
<1>10. CASE UNCHANGED job BY <1>10
<1> QED BY <1>7, <1>8, <1>9, <1>10, JobSteps

\* Redelivery and PATCHes are not forgotten.
LEMMA ExcusesKept ==
  ASSUME Inv, FreshInv, Next, NEW v \in Videos
  PROVE  /\ Redelivered(v) => Redelivered(v)'
         /\ Patched(v) => Patched(v)'
<1>0. TypeOK /\ JobInv /\ WorkerInv /\ RequestInv BY DEF Inv
<1>t. job \in [Requests -> Job] BY <1>0 DEF TypeOK
<1>1. Patched(v) => Patched(v)' BY <1>0, LostGrows DEF Patched
<1>2. ASSUME NEW q \in Requests, job[q].video = v, job[q].stalled > 0
      PROVE  job'[q].video = v /\ job'[q].stalled > 0
  <2>1. Enqueued(q) BY <1>2 DEF FreshInv
  <2>2. job'[q].video = v BY <1>0, <1>2, <2>1, JobsKeptStep DEF JobsKept
  <2>3. job[q].stalled \in Nat BY <1>t DEF Job
  <2> QED BY <1>2, <2>1, <2>2, <2>3, StalledMoves
<1> QED BY <1>1, <1>2 DEF Redelivered

\* Every step keeps FreshInv.
LEMMA FreshStep ==
  ASSUME Inv, FreshInv, Next PROVE FreshInv'
<1>0. TypeOK /\ JobInv /\ WorkerInv /\ RequestInv BY DEF Inv
<1>1. SUFFICES ASSUME NEW q \in Requests, ~Enqueued(q)' PROVE job'[q].stalled = 0
  BY DEF FreshInv
<1>2. ~Enqueued(q) BY <1>0, <1>1, JobsKeptStep DEF JobsKept, Enqueued
<1>3. ~StalledCheck(q) BY <1>2 DEF StalledCheck, Enqueued
<1> QED BY <1>2, <1>3, StalledMoves DEF FreshInv

\* Every step keeps EntityInv.
LEMMA EntityStep ==
  ASSUME TypeOK, EntityInv, Next PROVE EntityInv'
<1>0. request \in [Requests -> Request] BY DEF TypeOK
<1>1. SUFFICES ASSUME NEW p \in Requests, Serve(p) \/ Accept(p) \/ Abort(p)
               PROVE  EntityInv'
  BY RequestSteps DEF EntityInv
<1>2. CASE \E pc \in RequestPc \ PatchPc : Advance(p, pc)
  BY <1>0, <1>2 DEF Advance, EntityInv, Request
<1>3. CASE \E v \in Videos : CreateSave(p, v)
  BY <1>0, <1>3 DEF CreateSave, EntityInv, Request, PatchPc
<1>4. CASE \E i \in 1..Len(dlq) : RetryRead(p, i)
  BY <1>0, <1>4 DEF RetryRead, EntityInv, Request, PatchPc
<1>5. CASE \E v \in Videos : PatchRead(p, v)
  BY <1>0, <1>5 DEF PatchRead, EntityInv, Request, Exists
<1>6. CASE PatchSelect(p)
  BY <1>0, <1>6 DEF PatchSelect, RequestAt, EntityInv, Request, PatchPc
<1>7. CASE \/ CreateAdd(p) \/ CreateLink(p) \/ RetryReset(p) \/ RetryAdd(p) \/ RetryLink(p)
           \/ RetryMark(p) \/ PatchUpdate(p) \/ PatchInsert(p) \/ Abort(p)
  BY <1>2, <1>7 DEF CreateAdd, CreateLink, RetryReset, RetryAdd, RetryLink, RetryMark, Abort,
     PatchUpdate, PatchInsert, RequestPc, RetryPc, PatchPc
<1> QED BY <1>1, <1>3, <1>4, <1>5, <1>6, <1>7 DEF Serve, Accept

\* A video is inserted once.
LEMMA InsertedOnce ==
  ASSUME Inv, EntityInv, Next, NEW v \in Videos, video[v].status # "NEW"
  PROVE  video'[v].status # "NEW"
<1>0. TypeOK /\ RequestInv BY DEF Inv
<1>t. video \in [Videos -> Row] /\ request \in [Requests -> Request] BY <1>0 DEF TypeOK
<1>a. ASSUME NEW u, NEW r, video' = [video EXCEPT ![u] = r], u = v => r.status # "NEW"
      PROVE  video'[v].status # "NEW"
  BY <1>t, <1>a
<1>u. ASSUME NEW u, NEW p, UpdateProgress(u, p) PROVE video'[v].status # "NEW"
  BY <1>t, <1>u DEF UpdateProgress, Row
<1>1. ASSUME NEW w \in Workers, \/ StartAttempt(w) \/ EnhancePrompt(w) \/ GenerateVideo(w)
                                \/ Poll(w) \/ Complete(w) \/ MarkFailed(w)
      PROVE  video'[v].status # "NEW"
  <2>1. /\ FailedRow(video[v]).status # "NEW"
        /\ CompletedRow(video[v]).status # "NEW"
        /\ [video[v] EXCEPT !.status = "PROCESSING", !.progress = 10].status # "NEW"
    BY <1>t DEF FailedRow, CompletedRow, Row
  <2>2. CASE EnhancePrompt(w) \/ GenerateVideo(w) \/ Poll(w)
    BY <1>u, <2>2 DEF EnhancePrompt, GenerateVideo, Poll
  <2>3. CASE StartAttempt(w) BY <1>t, <2>1, <2>3 DEF StartAttempt
  <2>4. CASE Complete(w) BY <1>t, <2>1, <2>4 DEF Complete
  <2>5. CASE MarkFailed(w) BY <1>t, <2>1, <2>5 DEF MarkFailed
  <2> QED BY <1>1, <2>2, <2>3, <2>4, <2>5
<1>2. ASSUME NEW q \in Requests, \/ \E u \in Videos : CreateSave(q, u)
                                 \/ CreateLink(q) \/ RetryReset(q) \/ RetryLink(q)
      PROVE  video'[v].status # "NEW"
  <2>1. ResetRow(video[v]).status # "NEW" /\ EmptyRow("PENDING").status # "NEW"
    BY <1>t DEF ResetRow, EmptyRow, Row
  <2>2. CASE \E u \in Videos : CreateSave(q, u) BY <1>t, <2>1, <2>2 DEF CreateSave
  <2>3. CASE CreateLink(q) \/ RetryLink(q) BY <1>t, <2>3 DEF CreateLink, RetryLink, LinkedRow, Row
  <2>4. CASE RetryReset(q) BY <1>t, <2>1, <2>4 DEF RetryReset
  <2> QED BY <1>2, <2>2, <2>3, <2>4
<1>3. ASSUME NEW q \in Requests, PatchUpdate(q) \/ PatchInsert(q) PROVE video'[v].status # "NEW"
  <2>1. request[q].row.status \in RowStatus
    BY <1>3 DEF PatchUpdate, PatchInsert, RequestAt, EntityInv, PatchPc
  <2>2. request[q].row.status # "NEW" BY <2>1 DEF RowStatus
  <2>3. CASE PatchUpdate(q)
    <3>1. Merge(video[v], request[q].row, request[q].columns).status # "NEW"
      BY <2>2 DEF Merge
    <3> QED BY <1>t, <2>3, <3>1 DEF PatchUpdate
  <2>4. CASE PatchInsert(q) BY <1>t, <2>2, <2>4 DEF PatchInsert
  <2> QED BY <1>3, <2>3, <2>4
<1>4. ASSUME NEW u \in Videos, Remove(u) PROVE video'[v].status # "NEW"
  BY <1>t, <1>4 DEF Remove, EmptyRow
<1> QED BY <1>1, <1>2, <1>3, <1>4, VideoSteps

-----------------------------------------------------------------------------
\* A video with old carriers only, whose status stayed, was deleted or PATCHed.
LEMMA Kept ==
  ASSUME Inv, HistoryInv, Next, NEW v \in Videos, Carried(v), \A x : Carries(x, v)' => Old(x, v),
         video'[v].status \in {video[v].status, "DELETED"} \/ Patched(v)'
  PROVE  Carried(v)'
<1>1. \A x : Carries(x, v)' => Carries(x, v) /\ Expects(x)' = Expects(x) BY DEF Old
<1>2. \A x : Carries(x, v)' => video'[v].status # "NEW"
  BY <1>1, InsertedOnce DEF Carried, HistoryInv
<1>3. \A x : Carries(x, v)' => Suits(x, v)' \/ Patched(v)'
  BY <1>1, ExcusesKept DEF Carried, Suits, HistoryInv
<1> QED BY <1>1, <1>2, <1>3 DEF Carried

\* A video passed on by its carrier x to y, maybe x itself.
LEMMA HandedOver ==
  ASSUME Inv, HistoryInv, Next, NEW v \in Videos, NEW x, NEW y, Carried(v), Carries(x, v),
         \A z : Carries(z, v)' => z = y \/ (Carries(z, v) /\ z # x),
         video'[v].status \in Expects(y)' \cup {"DELETED"} \/ Patched(v)
  PROVE  Carried(v)'
<1>1. \A z : Carries(z, v)' => z = y BY DEF Carried
<1>2. video'[v].status # "NEW" BY InsertedOnce DEF Carried, HistoryInv
<1>3. Suits(y, v)' \/ Patched(v)' BY ExcusesKept DEF Suits, HistoryInv
<1> QED BY <1>1, <1>2, <1>3 DEF Carried

\* A working handler carries its video.
LEMMA WorkerCarries ==
  ASSUME Inv, NEW w \in Workers, Working(w), Carried(VideoOf(w))
  PROVE  /\ Carries(<<"worker", w>>, VideoOf(w))
         /\ video[VideoOf(w)].status \in Stage(w) \cup {"DELETED"} \/ Patched(VideoOf(w))
<1>1. Carries(<<"worker", w>>, VideoOf(w)) BY DEF Carries
<1>2. Expects(<<"worker", w>>) = Stage(w) BY DEF Expects
<1> QED BY <1>1, <1>2 DEF Carried, Suits

\* Deletion leaves the carriers alone.
LEMMA RemoveStep ==
  ASSUME "abort" \notin Env, Inv, HistoryInv, Next, NEW v \in Videos, Carried(v),
         NEW u \in Videos, Remove(u)
  PROVE  Carried(v)'
<1>t. video \in [Videos -> Row] BY DEF Inv, TypeOK
<1>1. UNCHANGED <<job, worker, listener, dlq, request>> BY DEF Remove
<1>2. \A x : Carries(x, v)' => Old(x, v) BY <1>1, CarriersAfter
<1>3. video'[v].status \in {video[v].status, "DELETED"} BY <1>t DEF Remove, EmptyRow
<1> QED BY <1>2, <1>3, Kept

\* A step within an attempt moves its handler only, and no video but its own.
LEMMA HandlerFrame ==
  ASSUME Inv, NEW w \in Workers,
         \/ FindById(w) \/ StartAttempt(w) \/ EnhancePrompt(w) \/ GenerateVideo(w)
         \/ Poll(w) \/ Store(w) \/ Complete(w) \/ ReportCompleted(w)
         \/ MarkFailed(w) \/ Rethrow(w) \/ Fault(w)
  PROVE  /\ Working(w) /\ VideoOf(w) \in Videos
         /\ UNCHANGED <<job, listener, dlq, request>>
         /\ \A u \in Workers \ {w} : worker'[u] = worker[u]
         /\ worker'[w].job = worker[w].job
         /\ \A v \in Videos \ {VideoOf(w)} : video'[v] = video[v]
<1>t. video \in [Videos -> Row] /\ worker \in [Workers -> Worker] BY DEF Inv, TypeOK
<1>1. Working(w)
  BY DEF Working, Spent, Busy, At, FindById, StartAttempt, EnhancePrompt, GenerateVideo, Poll,
     Store, Complete, ReportCompleted, MarkFailed, Rethrow, Fault, TryPc
<1>2. VideoOf(w) \in Videos BY <1>1, BusyFacts DEF Inv, Working
<1>3. UNCHANGED <<job, listener, dlq, request>>
  BY DEF FindById, StartAttempt, EnhancePrompt, GenerateVideo, Poll,
     Store, Complete, ReportCompleted, MarkFailed, Rethrow, Fault
<1>4. /\ \A u \in Workers \ {w} : worker'[u] = worker[u]
      /\ worker'[w].job = worker[w].job
  <2>1. \/ \E pc : Goto(w, pc)
        \/ \E pc, st : worker' = [worker EXCEPT ![w] = [worker[w] EXCEPT !.pc = pc, !.seen = st]]
        \/ \E k : worker' = [worker EXCEPT ![w].polls = k]
    BY DEF FindById, StartAttempt, EnhancePrompt, GenerateVideo, Poll,
       Store, Complete, ReportCompleted, MarkFailed, Rethrow, Fault
  <2>2. ASSUME NEW pc, Goto(w, pc)
        PROVE  /\ \A u \in Workers \ {w} : worker'[u] = worker[u]
               /\ worker'[w].job = worker[w].job
    BY <1>t, <2>2 DEF Goto, Worker
  <2>3. ASSUME NEW pc, NEW st,
               worker' = [worker EXCEPT ![w] = [worker[w] EXCEPT !.pc = pc, !.seen = st]]
        PROVE  /\ \A u \in Workers \ {w} : worker'[u] = worker[u]
               /\ worker'[w].job = worker[w].job
    BY <1>t, <2>3 DEF Worker
  <2>4. ASSUME NEW k, worker' = [worker EXCEPT ![w].polls = k]
        PROVE  /\ \A u \in Workers \ {w} : worker'[u] = worker[u]
               /\ worker'[w].job = worker[w].job
    BY <1>t, <2>4 DEF Worker
  <2> QED BY <2>1, <2>2, <2>3, <2>4
<1>5. \A v \in Videos \ {VideoOf(w)} : video'[v] = video[v]
  BY <1>t DEF FindById, StartAttempt, EnhancePrompt, GenerateVideo, Poll, UpdateProgress,
     Store, Complete, ReportCompleted, MarkFailed, Rethrow, Fault
<1> QED BY <1>1, <1>2, <1>3, <1>4, <1>5

\* Where a handler may go within its attempt, and what it makes of the status.
LEMMA HandlerStages ==
  ASSUME Inv, NEW w \in Workers, VideoOf(w) \in Videos,
         video[VideoOf(w)].status \in Stage(w) \cup {"DELETED"},
         \/ FindById(w) \/ StartAttempt(w) \/ EnhancePrompt(w) \/ GenerateVideo(w)
         \/ Poll(w) \/ Store(w) \/ Complete(w) \/ ReportCompleted(w)
         \/ MarkFailed(w) \/ Rethrow(w) \/ Fault(w)
  PROVE  video'[VideoOf(w)].status \in Stage(w)' \cup {"DELETED"}
<1>t. video \in [Videos -> Row] /\ worker \in [Workers -> Worker] BY DEF Inv, TypeOK
<1> DEFINE v == VideoOf(w)
<1>g. ASSUME NEW pc, Goto(w, pc) PROVE worker'[w].pc = pc
  BY <1>t, <1>g DEF Goto, Worker
<1>u. ASSUME NEW p, UpdateProgress(v, p) PROVE video'[v].status = video[v].status
  BY <1>t, <1>u DEF UpdateProgress, Row
<1>s. video[v].status \in Stage(w) \cup {"DELETED"} OBVIOUS
<1>4. CASE FindById(w)
  <2>1. UNCHANGED video /\ worker[w].pc = "find" BY <1>4 DEF FindById, At
  <2>2. video[v].status \in Unfinished \cup {"DELETED"} BY <1>s, <2>1 DEF Stage
  <2>3. CASE Exists(v)
    <3>1. /\ worker'[w].pc = "start" /\ worker'[w].seen = video[v].status
         
      BY <1>t, <1>4, <2>3 DEF FindById, Worker
    <3>2. video[v].status # "DELETED" BY <2>3 DEF Exists, RowStatus
    <3>3. video[v].status \in Stage(w)' BY <2>2, <3>1, <3>2 DEF Stage
    <3> QED BY <2>1, <3>1, <3>3
  <2>4. CASE ~Exists(v)
    <3>1. worker'[w].pc = "catch" BY <1>4, <1>g, <2>4 DEF FindById
    <3>2. Stage(w)' = Unfinished BY <3>1 DEF Stage
    <3> QED BY <2>1, <2>2, <3>1, <3>2
  <2> QED BY <2>3, <2>4
<1>5. CASE StartAttempt(w)
  <2>1. worker[w].pc = "start" BY <1>5 DEF StartAttempt, At
  <2>2. \/ video[v].status \in Unfinished /\ video[v].status = worker[w].seen
        \/ video[v].status = "DELETED"
    BY <1>s, <2>1 DEF Stage
  <2>3. CASE Transitions(v, worker[w].seen, "PROCESSING")
    <3>1. Goto(w, "enhance") /\ video'[v].status = "PROCESSING"
      BY <1>t, <1>s, <1>5, <2>3 DEF StartAttempt, Row
    <3>2. worker'[w].pc = "enhance" BY <1>g, <3>1
    <3> QED BY <3>1, <3>2 DEF Stage
  <2>4. CASE ~Transitions(v, worker[w].seen, "PROCESSING")
    <3>1. video[v].status \in {"COMPLETED", "DELETED"}
      BY <2>2, <2>4 DEF Unfinished, Transitions, VALID_TRANSITIONS, Status, RowStatus
    <3>2. UNCHANGED video /\ Goto(w, "resolve") BY <1>5, <2>4 DEF StartAttempt
    <3>3. worker'[w].pc = "resolve" BY <1>g, <3>2
    <3> QED BY <3>1, <3>2, <3>3 DEF Stage
  <2> QED BY <2>3, <2>4
<1>6. CASE EnhancePrompt(w) \/ GenerateVideo(w) \/ Poll(w) \/ Store(w)
  <2>1. worker[w].pc \in {"enhance", "submit", "poll", "store"}
    BY <1>6 DEF EnhancePrompt, GenerateVideo, Poll, Store, At
  <2>2. video[v].status \in {"PROCESSING", "DELETED"} BY <1>s, <2>1 DEF Stage
  <2>3. (\E p : UpdateProgress(v, p)) \/ UNCHANGED video
    BY <1>6 DEF EnhancePrompt, GenerateVideo, Poll, Store
  <2>4. video'[v].status = video[v].status BY <1>u, <2>3
  <2>5. \/ \E pc \in {"submit", "poll", "store", "complete", "catch"} : Goto(w, pc)
        \/ At(w, "poll") /\ worker' = [worker EXCEPT ![w].polls = worker[w].polls + 1]
    BY <1>6 DEF EnhancePrompt, GenerateVideo, Poll, Store
  <2>6. worker'[w].pc \in {"submit", "poll", "store", "complete", "catch"}
    <3>1. CASE \E pc \in {"submit", "poll", "store", "complete", "catch"} : Goto(w, pc)
      BY <1>g, <3>1
    <3>2. CASE At(w, "poll") /\ worker' = [worker EXCEPT ![w].polls = worker[w].polls + 1]
      BY <1>t, <3>2 DEF At, Worker
    <3> QED BY <2>5, <3>1, <3>2
  <2>7. {"PROCESSING"} \subseteq Stage(w)' BY <2>6 DEF Stage, Unfinished
  <2> QED BY <2>2, <2>4, <2>6, <2>7
<1>7. CASE Complete(w)
  <2>1. worker[w].pc = "complete" BY <1>7 DEF Complete, At
  <2>2. video[v].status \in {"PROCESSING", "DELETED"} BY <1>s, <2>1 DEF Stage
  <2>3. worker'[w].pc = "report" BY <1>7, <1>g DEF Complete
  <2>4. video'[v].status \in {"COMPLETED", "DELETED"}
    <3>1. CompletedRow(video[v]).status = "COMPLETED" BY <1>t, <1>s DEF CompletedRow, Row
    <3> QED
      BY <1>t, <1>s, <1>7, <2>2, <3>1 DEF Complete, Transitions, VALID_TRANSITIONS, Status, RowStatus
  <2> QED BY <2>3, <2>4 DEF Stage
<1>8. CASE MarkFailed(w)
  <2>1. worker[w].pc = "catch" BY <1>8 DEF MarkFailed, At
  <2>2. video[v].status \in Unfinished \cup {"DELETED"} BY <1>s, <2>1 DEF Stage
  <2>3. worker'[w].pc = "emit" BY <1>8, <1>g DEF MarkFailed
  <2>4. video'[v].status \in {"FAILED", "DELETED"}
    <3>1. FailedRow(video[v]).status = "FAILED" BY <1>t, <1>s DEF FailedRow, Row
    <3> QED BY <1>t, <1>s, <1>8, <2>2, <3>1 DEF MarkFailed, Exists, RowStatus, Unfinished
  <2> QED BY <2>3, <2>4 DEF Stage
<1>9. CASE ReportCompleted(w) \/ Rethrow(w)
  <2>1. UNCHANGED video BY <1>9 DEF ReportCompleted, Rethrow
  <2>2. \/ worker[w].pc = "report" /\ worker'[w].pc = "resolve"
        \/ worker[w].pc = "catch" /\ worker'[w].pc = "reject"
    BY <1>9, <1>g DEF ReportCompleted, Rethrow, At
  <2>3. Stage(w)' = Stage(w) BY <2>2 DEF Stage
  <2> QED BY <1>s, <2>1, <2>2, <2>3
<1>10. CASE Fault(w)
  <2>1. worker[w].pc \in TryPc /\ UNCHANGED video /\ "fault" \in Env BY <1>10 DEF Fault
  <2>2. worker'[w].pc = "catch" BY <1>10, <1>g DEF Fault
  <2>3. Stage(w) \subseteq {"PENDING", "PROCESSING", "COMPLETED"}
    BY <2>1 DEF Stage, TryPc, Unfinished
  <2>4. Stage(w)' = {"PENDING", "PROCESSING", "COMPLETED"} BY <2>1, <2>2 DEF Stage, Unfinished
  <2> QED BY <1>s, <2>1, <2>2, <2>3, <2>4
<1> QED BY <1>4, <1>5, <1>6, <1>7, <1>8, <1>9, <1>10

\* A handler that goes on within its attempt keeps its video.
LEMMA HandlerStep ==
  ASSUME "abort" \notin Env, Inv, HistoryInv, Next, NEW v \in Videos, Carried(v), NEW w \in Workers,
         \/ FindById(w) \/ StartAttempt(w) \/ EnhancePrompt(w) \/ GenerateVideo(w)
         \/ Poll(w) \/ Store(w) \/ Complete(w) \/ ReportCompleted(w)
         \/ MarkFailed(w) \/ Rethrow(w) \/ Fault(w)
  PROVE  Carried(v)'
<1>1. /\ Working(w) /\ VideoOf(w) \in Videos
      /\ UNCHANGED <<job, listener, dlq, request>>
      /\ \A u \in Workers \ {w} : worker'[u] = worker[u]
      /\ worker'[w].job = worker[w].job
      /\ \A u \in Videos \ {VideoOf(w)} : video'[u] = video[u]
  BY HandlerFrame
<1>2. \A x : Carries(x, v)' => Old(x, v) \/ (x = <<"worker", w>> /\ VideoOf(w)' = v)
  <2>1. ASSUME NEW x, Carries(x, v)', ~Old(x, v) PROVE x = <<"worker", w>>
    BY <1>1, <2>1, CarriersAfter
  <2>2. Carries(<<"worker", w>>, v)' => VideoOf(w)' = v BY DEF Carries
  <2> QED BY <2>1, <2>2
<1>3. VideoOf(w)' = VideoOf(w) BY <1>1 DEF VideoOf, JobOf
<1>4. CASE VideoOf(w) = v
  <2>1. /\ Carries(<<"worker", w>>, v)
        /\ video[v].status \in Stage(w) \cup {"DELETED"} \/ Patched(v)
    BY <1>1, <1>4, WorkerCarries
  <2>2. video'[v].status \in Stage(w)' \cup {"DELETED"} \/ Patched(v)
    BY <1>1, <1>4, <2>1, HandlerStages
  <2>3. Expects(<<"worker", w>>)' = Stage(w)' BY DEF Expects
  <2>4. \A x : Carries(x, v)' => x = <<"worker", w>> \/ (Carries(x, v) /\ x # <<"worker", w>>)
    BY <1>2 DEF Old
  <2> QED BY <2>1, <2>2, <2>3, <2>4, HandedOver
<1>5. CASE VideoOf(w) # v BY <1>1, <1>2, <1>3, <1>5, Kept
<1> QED BY <1>4, <1>5

\* EmitFailed passes the video from the handler to the listener.
LEMMA EmitStep ==
  ASSUME "abort" \notin Env, Inv, HistoryInv, Next, NEW v \in Videos, Carried(v),
         NEW w \in Workers, EmitFailed(w)
  PROVE  Carried(v)'
<1>0. WorkerInv /\ worker \in [Workers -> Worker] BY DEF Inv, TypeOK
<1>1. worker[w].pc = "emit" /\ Working(w) BY DEF EmitFailed, At, Working, Busy, Spent
<1>2. /\ UNCHANGED <<video, job, dlq, request>>
      /\ \A u \in Workers \ {w} : worker'[u] = worker[u]
      /\ worker'[w].pc = "reject" /\ worker'[w].job = worker[w].job
      /\ worker'[w].attemptsMade = worker[w].attemptsMade
  BY <1>0 DEF EmitFailed, Goto, Worker
<1>3. ~Working(w)'
  <2>1. isFinalAttempt(w) BY <1>0, <1>1 DEF WorkerInv, At, Busy
  <2> QED BY <1>2, <2>1 DEF Working, Spent, At, isFinalAttempt, JobOf
<1>4. PICK t : /\ listener' = listener \cup {t}
               /\ t.video = VideoOf(w)
  <2> DEFINE r == [process |-> w, job |-> worker[w].job, video |-> VideoOf(w),
                   delivery |-> worker[w].attemptsStarted,
                   attemptsMade |-> worker[w].attemptsMade + 1,
                   pc |-> "read", queueJobId |-> None]
  <2>1. listener' = listener \cup {r} BY DEF EmitFailed
  <2>2. r.video = VideoOf(w) OBVIOUS
  <2> QED BY <2>1, <2>2
<1>5. \A x : Carries(x, v)' => /\ Old(x, v) \/ (x = <<"listener", t>> /\ t.video = v)
                              /\ x # <<"worker", w>>
  <2>1. ASSUME NEW x, Carries(x, v)', ~Old(x, v) PROVE x = <<"worker", w>> \/ x = <<"listener", t>>
    BY <1>2, <1>4, <2>1, CarriersAfter
  <2>2. ~Carries(<<"worker", w>>, v)' BY <1>3 DEF Carries
  <2>3. Carries(<<"listener", t>>, v)' => t.video = v BY DEF Carries
  <2> QED BY <2>1, <2>2, <2>3
<1>6. CASE VideoOf(w) = v
  <2>1. /\ Carries(<<"worker", w>>, v)
        /\ video[v].status \in {"FAILED", "DELETED"} \/ Patched(v)
    BY <1>1, <1>6, WorkerCarries DEF Stage
  <2>2. Expects(<<"listener", t>>)' = {"FAILED"} BY DEF Expects
  <2>3. \A x : Carries(x, v)' => x = <<"listener", t>> \/ (Carries(x, v) /\ x # <<"worker", w>>)
    BY <1>5 DEF Old
  <2> QED BY <1>2, <2>1, <2>2, <2>3, HandedOver
<1>7. CASE VideoOf(w) # v BY <1>2, <1>4, <1>5, <1>7, Kept
<1> QED BY <1>6, <1>7

\* When markFailed fails, nobody carries the video any more.
LEMMA MarkFailedFaultStep ==
  ASSUME "abort" \notin Env, Inv, HistoryInv, Next, NEW v \in Videos, Carried(v),
         NEW w \in Workers, MarkFailedFault(w)
  PROVE  Carried(v)'
<1>t. worker \in [Workers -> Worker] BY DEF Inv, TypeOK
<1>1. /\ UNCHANGED <<video, job, listener, dlq, request>>
      /\ \A u \in Workers \ {w} : worker'[u] = worker[u]
      /\ worker'[w].pc = "reject" /\ worker'[w].job = worker[w].job
      /\ worker'[w].attemptsMade = worker[w].attemptsMade
      /\ isFinalAttempt(w)
  BY <1>t DEF MarkFailedFault, Goto, Worker
<1>2. ~Working(w)' BY <1>1 DEF Working, Spent, At, isFinalAttempt, JobOf
<1>3. ASSUME NEW x, Carries(x, v)' PROVE Old(x, v)
  <2>1. x # <<"worker", w>> BY <1>2, <1>3 DEF Carries
  <2> QED BY <1>1, <1>3, <2>1, CarriersAfter
<1> QED BY <1>1, <1>3, Kept

\* The end of a handler drops the video or passes it to its job.
LEMMA EndStep ==
  ASSUME "abort" \notin Env, Inv, OwnerInv, HistoryInv, Next, NEW v \in Videos, Carried(v),
         NEW w \in Workers,
         JobCompleted(w) \/ JobFailed(w)
  PROVE  Carried(v)'
<1>0. TypeOK /\ JobInv /\ WorkerInv BY DEF Inv
<1>t. worker \in [Workers -> Worker] /\ job \in [Requests -> Job] BY <1>0 DEF TypeOK
<1>1. /\ UNCHANGED <<video, listener, dlq, request>>
      /\ \A u \in Workers \ {w} : worker'[u] = worker[u]
      /\ worker'[w].pc = "idle" /\ Busy(w)
  BY <1>t DEF JobCompleted, JobFailed, Idle, At, Busy
<1>q. PICK q \in Requests : q = worker[w].job BY <1>0, <1>1, BusyFacts
<1>2. \A p \in Requests \ {q} : job'[p] = job[p]
  BY <1>t, <1>q DEF JobCompleted, JobFailed
<1>3. job'[q].video = job[q].video BY <1>0, <1>1, <1>q, JobsKeptStep DEF Inv, WorkerInv, JobsKept
<1>4. \A x : Carries(x, v)' => /\ Old(x, v) \/ (x = <<"job", q>> /\ Holds(q)' /\ job'[q].video = v)
                              /\ x # <<"worker", w>>
  <2>1. ASSUME NEW x, Carries(x, v)', ~Old(x, v) PROVE x = <<"worker", w>> \/ x = <<"job", q>>
    BY <1>1, <1>2, <2>1, CarriersAfter
  <2>2. ~Carries(<<"worker", w>>, v)' BY <1>1 DEF Carries, Working, Busy
  <2>3. Carries(<<"job", q>>, v)' => Holds(q)' /\ job'[q].video = v BY DEF Carries
  <2> QED BY <2>1, <2>2, <2>3
<1>5. CASE job'[q] # job[q] /\ Holds(q)' /\ job[q].video = v
  <2>1. Owns(w) BY <1>5 DEF JobCompleted, JobFailed
  <2>2. VideoOf(w) = v BY <1>q, <1>5 DEF VideoOf, JobOf
  <2>3. \A x : Carries(x, v)' => x = <<"job", q>> \/ (Carries(x, v) /\ x # <<"worker", w>>)
    BY <1>4 DEF Old
  <2>4. CASE JobCompleted(w)
    <3>1. job' = [job EXCEPT ![q] = [job[q] EXCEPT !.state = "completed", !.owner = None]]
      BY <1>q, <2>1, <2>4 DEF JobCompleted
    <3>2. job'[q].state = "completed" BY <1>t, <3>1 DEF Job
    <3>3. Working(w) /\ worker[w].pc = "resolve"
      BY <1>1, <2>4 DEF Working, Spent, JobCompleted, At
    <3>4. /\ Carries(<<"worker", w>>, v)
          /\ video[v].status \in {"COMPLETED", "DELETED"} \/ Patched(v)
      BY <2>2, <3>3, WorkerCarries DEF Stage
    <3>5. Expects(<<"job", q>>)' = {"COMPLETED"} BY <3>2 DEF Expects
    <3> QED BY <1>1, <2>3, <3>4, <3>5, HandedOver
  <2>5. CASE JobFailed(w)
    <3>1. job' = [job EXCEPT ![q] =
                   [job[q] EXCEPT !.state = IF job[q].attemptsMade + 1 < job[q].attempts THEN "wait" ELSE "failed",
                                  !.attemptsMade = job[q].attemptsMade + 1, !.owner = None]]
      BY <1>q, <2>1, <2>5 DEF JobFailed, JobOf
    <3>2. job'[q].state = IF job[q].attemptsMade + 1 < job[q].attempts THEN "wait" ELSE "failed"
      BY <1>t, <3>1 DEF Job
    <3>3. job[q].attemptsMade + 1 < job[q].attempts /\ job'[q].state = "wait"
      BY <1>5, <3>2 DEF Holds
    <3>4. worker[w].attemptsMade = job[q].attemptsMade
      BY <1>q, <2>1 DEF OwnerInv, Owns, JobOf
    <3>5. ~isFinalAttempt(w) BY <1>t, <1>q, <3>3, <3>4 DEF isFinalAttempt, JobOf, Job
    <3>6. Working(w) /\ worker[w].pc = "reject"
      BY <1>1, <2>5, <3>5 DEF Working, Spent, JobFailed, At
    <3>7. /\ Carries(<<"worker", w>>, v)
          /\ video[v].status \in Unfinished \cup {"DELETED"} \/ Patched(v)
      BY <2>2, <3>6, WorkerCarries DEF Stage
    <3>8. Expects(<<"job", q>>)' = Unfinished BY <3>3 DEF Expects
    <3> QED BY <1>1, <2>3, <3>7, <3>8, HandedOver
  <2> QED BY <2>4, <2>5
<1>6. CASE ~(job'[q] # job[q] /\ Holds(q)' /\ job[q].video = v)
  <2>1. ASSUME job'[q] = job[q], Holds(q)', job[q].video = v PROVE Old(<<"job", q>>, v)
    BY <2>1 DEF Old, Carries, Expects, Holds
  <2> QED BY <1>1, <1>3, <1>4, <1>6, <2>1, Kept
<1> QED BY <1>5, <1>6

\* Delivery passes the video from the job to the handler.
LEMMA FetchStep ==
  ASSUME "abort" \notin Env, Inv, HistoryInv, Next, NEW v \in Videos, Carried(v),
         NEW w \in Workers, NEW q \in Requests, Fetch(w, q)
  PROVE  Carried(v)'
<1>t. worker \in [Workers -> Worker] /\ job \in [Requests -> Job] BY DEF Inv, TypeOK
<1>1. /\ UNCHANGED <<video, listener, dlq, request>>
      /\ \A u \in Workers \ {w} : worker'[u] = worker[u]
      /\ worker'[w].pc = "find" /\ worker'[w].job = q
      /\ \A p \in Requests \ {q} : job'[p] = job[p]
      /\ job[q].state = "wait"
  BY <1>t DEF Fetch, Idle
<1>2. job'[q].state = "active" /\ job'[q].video = job[q].video BY <1>t DEF Fetch, Job
<1>3. VideoOf(w)' = job[q].video BY <1>1, <1>2 DEF VideoOf, JobOf
<1>4. \A x : Carries(x, v)' => /\ Old(x, v) \/ (x = <<"worker", w>> /\ VideoOf(w)' = v)
                              /\ x # <<"job", q>>
  <2>1. ASSUME NEW x, Carries(x, v)', ~Old(x, v) PROVE x = <<"worker", w>> \/ x = <<"job", q>>
    BY <1>1, <2>1, CarriersAfter
  <2>2. ~Carries(<<"job", q>>, v)' BY <1>2 DEF Carries, Holds
  <2>3. Carries(<<"worker", w>>, v)' => VideoOf(w)' = v BY DEF Carries
  <2> QED BY <2>1, <2>2, <2>3
<1>5. CASE job[q].video = v
  <2>1. Carries(<<"job", q>>, v) BY <1>1, <1>5 DEF Carries, Holds
  <2>2. video[v].status \in Unfinished \cup {"DELETED"} \/ Patched(v)
    BY <1>1, <2>1 DEF Carried, Suits, Expects
  <2>3. Expects(<<"worker", w>>)' = Unfinished BY <1>1 DEF Expects, Stage
  <2>4. \A x : Carries(x, v)' => x = <<"worker", w>> \/ (Carries(x, v) /\ x # <<"job", q>>)
    BY <1>4 DEF Old
  <2> QED BY <1>1, <2>1, <2>2, <2>3, <2>4, HandedOver
<1>6. CASE job[q].video # v BY <1>1, <1>3, <1>4, <1>6, Kept
<1> QED BY <1>5, <1>6

\* Enqueueing passes the video from the request to its job.
LEMMA AddStep ==
  ASSUME "abort" \notin Env, Inv, HistoryInv, Next, NEW v \in Videos, Carried(v),
         NEW q \in Requests, CreateAdd(q) \/ RetryAdd(q)
  PROVE  Carried(v)'
<1>t. request \in [Requests -> Request] /\ job \in [Requests -> Job] BY DEF Inv, TypeOK
<1>u. PICK u : u = request[q].video OBVIOUS
<1>1. /\ UNCHANGED <<video, worker, listener, dlq>>
      /\ \A p \in Requests \ {q} : job'[p] = job[p] /\ request'[p] = request[p]
      /\ request[q].pc \in {"createAdd", "retryAdd"}
  BY <1>t DEF CreateAdd, RetryAdd, Advance, RequestAt
<1>2. request'[q].pc \in {"createLink", "retryLink"}
  <2>1. \E pc \in {"createLink", "retryLink"} : Advance(q, pc) BY DEF CreateAdd, RetryAdd
  <2> QED BY <1>t, <2>1 DEF Advance, Request
<1>3. job'[q].video = u /\ job'[q].state = "wait"
  <2>1. \E n : job' = [job EXCEPT ![q] = NewJob(u, n)] BY <1>u DEF CreateAdd, RetryAdd
  <2> QED BY <1>t, <2>1 DEF NewJob, NoJob
<1>4. \A x : Carries(x, v)' => /\ Old(x, v) \/ (x = <<"job", q>> /\ u = v)
                              /\ x # <<"request", q>>
  <2>1. ASSUME NEW x, Carries(x, v)', ~Old(x, v) PROVE x = <<"job", q>> \/ x = <<"request", q>>
    BY <1>1, <2>1, CarriersAfter
  <2>2. ~Carries(<<"request", q>>, v)' BY <1>2 DEF Carries, Asking
  <2>3. Carries(<<"job", q>>, v)' => u = v BY <1>3 DEF Carries
  <2> QED BY <2>1, <2>2, <2>3
<1>5. CASE u = v
  <2>1. Carries(<<"request", q>>, v) BY <1>1, <1>5, <1>u DEF Carries, Asking
  <2>2. video[v].status \in {"PENDING", "DELETED"} \/ Patched(v)
    BY <1>1, <2>1 DEF Carried, Suits, Expects, AskStage
  <2>3. Expects(<<"job", q>>)' = Unfinished BY <1>3 DEF Expects
  <2>4. \A x : Carries(x, v)' => x = <<"job", q>> \/ (Carries(x, v) /\ x # <<"request", q>>)
    BY <1>4 DEF Old
  <2> QED BY <1>1, <2>1, <2>2, <2>3, <2>4, HandedOver DEF Unfinished
<1>6. CASE u # v BY <1>1, <1>4, <1>6, Kept
<1> QED BY <1>5, <1>6

\* Noting the job in the row and marking the record move no video.
LEMMA LinkMarkStep ==
  ASSUME "abort" \notin Env, Inv, HistoryInv, Next, NEW v \in Videos, Carried(v),
         NEW q \in Requests,
         CreateLink(q) \/ RetryLink(q) \/ RetryMark(q)
  PROVE  Carried(v)'
<1>t. /\ request \in [Requests -> Request] /\ video \in [Videos -> Row] /\ dlq \in Seq(FailedJob)
  BY DEF Inv, TypeOK
<1>1. /\ UNCHANGED <<job, worker, listener>>
      /\ \A p \in Requests \ {q} : request'[p] = request[p]
      /\ Len(dlq') = Len(dlq)
  BY <1>t DEF CreateLink, RetryLink, RetryMark, Advance
<1>2. request'[q].pc \in {"done", "retryMark"}
  <2>1. \E pc \in {"done", "retryMark"} : Advance(q, pc) BY DEF CreateLink, RetryLink, RetryMark
  <2> QED BY <1>t, <2>1 DEF Advance, Request
<1>3. video'[v].status = video[v].status
  BY <1>t DEF CreateLink, RetryLink, RetryMark, LinkedRow, Row
<1>4. ASSUME NEW x, Carries(x, v)' PROVE Old(x, v)
  <2>1. ~Carries(<<"request", q>>, v)' BY <1>2 DEF Carries, Asking
  <2> QED BY <1>1, <1>4, <2>1, CarriersAfter
<1> QED BY <1>3, <1>4, Kept

\* The reset leaves the video with the request.
LEMMA ResetStep ==
  ASSUME "abort" \notin Env, Inv, HistoryInv, Next, NEW v \in Videos, Carried(v),
         NEW q \in Requests, RetryReset(q)
  PROVE  Carried(v)'
<1>t. /\ request \in [Requests -> Request] /\ video \in [Videos -> Row] BY DEF Inv, TypeOK
<1>u. PICK u : u = request[q].video OBVIOUS
<1>1. /\ UNCHANGED <<job, worker, listener, dlq>>
      /\ \A p \in Requests \ {q} : request'[p] = request[p]
      /\ request[q].pc = "retryReset"
      /\ \A y \in Videos \ {u} : video'[y] = video[y]
  BY <1>t, <1>u DEF RetryReset, Advance, RequestAt
<1>2. request'[q].pc = "retryAdd" /\ request'[q].video = u
  BY <1>t, <1>u DEF RetryReset, Advance, Request
<1>3. \A x : Carries(x, v)' => Old(x, v) \/ (x = <<"request", q>> /\ u = v)
  <2>1. ASSUME NEW x, Carries(x, v)', ~Old(x, v) PROVE x = <<"request", q>>
    BY <1>1, <2>1, CarriersAfter
  <2>2. Carries(<<"request", q>>, v)' => u = v BY <1>2 DEF Carries
  <2> QED BY <2>1, <2>2
<1>4. CASE u = v
  <2>1. Carries(<<"request", q>>, v) BY <1>1, <1>4, <1>u DEF Carries, Asking
  <2>2. video[v].status \in {"FAILED", "DELETED"} \/ Patched(v)
    BY <1>1, <2>1 DEF Carried, Suits, Expects, AskStage
  <2>3. video'[v].status \in {"PENDING", "DELETED"} \/ Patched(v)
    <3>1. ResetRow(video[v]).status = "PENDING" BY <1>t DEF ResetRow, Row
    <3> QED BY <1>t, <1>u, <1>4, <2>2, <3>1 DEF RetryReset, Exists, RowStatus
  <2>4. Expects(<<"request", q>>)' = {"PENDING"} BY <1>2 DEF Expects, AskStage
  <2>5. \A x : Carries(x, v)' => x = <<"request", q>> \/ (Carries(x, v) /\ x # <<"request", q>>)
    BY <1>3 DEF Old
  <2> QED BY <2>1, <2>3, <2>4, <2>5, HandedOver
<1>5. CASE u # v BY <1>1, <1>3, <1>5, Kept
<1> QED BY <1>4, <1>5

\* A new video is carried by the request that creates it.
LEMMA CreateStep ==
  ASSUME "abort" \notin Env, Inv, HistoryInv, Next, NEW v \in Videos, Carried(v),
         NEW q \in Requests, NEW u \in Videos, CreateSave(q, u)
  PROVE  Carried(v)'
<1>t. /\ request \in [Requests -> Request] /\ video \in [Videos -> Row] BY DEF Inv, TypeOK
<1>1. /\ UNCHANGED <<job, worker, listener, dlq>>
      /\ \A p \in Requests \ {q} : request'[p] = request[p]
      /\ video[u].status = "NEW" /\ video'[u].status = "PENDING"
      /\ \A y \in Videos \ {u} : video'[y] = video[y]
  BY <1>t DEF CreateSave, EmptyRow
<1>2. request'[q].pc = "createAdd" /\ request'[q].video = u BY <1>t DEF CreateSave, Request
<1>3. \A x : Carries(x, v)' => Old(x, v) \/ (x = <<"request", q>> /\ u = v)
  <2>1. ASSUME NEW x, Carries(x, v)', ~Old(x, v) PROVE x = <<"request", q>>
    BY <1>1, <2>1, CarriersAfter
  <2>2. Carries(<<"request", q>>, v)' => u = v BY <1>2 DEF Carries
  <2> QED BY <2>1, <2>2
<1>4. CASE u = v
  <2>1. ASSUME NEW x, Carries(x, v) PROVE FALSE BY <1>1, <1>4, <2>1 DEF Carried
  <2>2. \A x : Carries(x, v)' => x = <<"request", q>> BY <1>3, <2>1 DEF Old
  <2>3. Expects(<<"request", q>>)' = {"PENDING"} BY <1>2 DEF Expects, AskStage
  <2> QED BY <1>1, <1>4, <2>2, <2>3 DEF Carried, Suits
<1>5. CASE u # v BY <1>1, <1>3, <1>5, Kept
<1> QED BY <1>4, <1>5

\* Reading a record passes the video from it to the request.
LEMMA ReadStep ==
  ASSUME Env \cap {"abort", "overlap"} = {}, Inv, HistoryInv, Next, NEW v \in Videos, Carried(v),
         NEW q \in Requests, NEW i \in 1..Len(dlq), RetryRead(q, i)
  PROVE  Carried(v)'
<1>t. /\ request \in [Requests -> Request] BY DEF Inv, TypeOK
<1>e. "abort" \notin Env /\ "overlap" \notin Env OBVIOUS
<1>1. /\ UNCHANGED <<video, job, worker, listener, dlq>>
      /\ \A p \in Requests \ {q} : request'[p] = request[p]
      /\ \A p \in Requests : ~Retrying(p)
  BY <1>t, <1>e DEF RetryRead, Retrying
<1>u. PICK u : u = dlq[i].video OBVIOUS
<1>2. /\ request'[q].pc = IF dlq[i].retried THEN "done" ELSE "retryReset"
      /\ request'[q].video = u /\ request'[q].record = i
  BY <1>t, <1>u DEF RetryRead, Request
<1>3. \A x : Carries(x, v)' => Old(x, v) \/ (x = <<"request", q>> /\ u = v /\ ~dlq[i].retried)
  <2>1. ASSUME NEW x, Carries(x, v)', ~Old(x, v) PROVE x = <<"request", q>>
    BY <1>1, <1>e, <2>1, CarriersAfter
  <2>2. Carries(<<"request", q>>, v)' => u = v /\ ~dlq[i].retried BY <1>2 DEF Carries, Asking
  <2> QED BY <2>1, <2>2
<1>4. CASE u = v /\ ~dlq[i].retried
  <2>1. Carries(<<"record", i>>, v) BY <1>1, <1>4, <1>u DEF Carries, Open
  <2>2. video[v].status \in {"FAILED", "DELETED"} \/ Patched(v) BY <2>1 DEF Carried, Suits, Expects
  <2>3. ~Carries(<<"record", i>>, v)'
    <3>1. ~Open(i)' BY <1>2, <1>4 DEF Open, Retrying, RetryPc
    <3> QED BY <3>1 DEF Carries
  <2>4. Expects(<<"request", q>>)' = {"FAILED"} BY <1>2, <1>4 DEF Expects, AskStage
  <2>5. \A x : Carries(x, v)' => x = <<"request", q>> \/ (Carries(x, v) /\ x # <<"record", i>>)
    BY <1>3, <2>3 DEF Old
  <2> QED BY <1>1, <2>1, <2>2, <2>4, <2>5, HandedOver
<1>5. CASE ~(u = v /\ ~dlq[i].retried) BY <1>1, <1>3, <1>5, Kept
<1> QED BY <1>4, <1>5

\* A listener keeps its video until it has written the record.
LEMMA ListenStep ==
  ASSUME "abort" \notin Env, Inv, HistoryInv, Next, NEW v \in Videos, Carried(v),
         NEW t \in listener,
         ListenerRead(t) \/ ListenerSave(t)
  PROVE  Carried(v)'
<1>t. /\ listener \subseteq Listener /\ dlq \in Seq(FailedJob) BY DEF Inv, TypeOK
<1>1. UNCHANGED <<video, job, worker, request>> BY DEF ListenerRead, ListenerSave
<1>2. \E y : /\ Expects(y)' = {"FAILED"}
             /\ \A x, u : Carries(x, u)' => \/ Old(x, u) /\ x # <<"listener", t>>
                                            \/ x = y /\ u = t.video
  <2>1. CASE ListenerRead(t)
    <3>1. PICK r : listener' = (listener \ {t}) \cup {r} /\ r.video = t.video
      <4>1. PICK id : listener' = (listener \ {t}) \cup {[t EXCEPT !.pc = "save", !.queueJobId = id]}
        BY <2>1 DEF ListenerRead
      <4>2. [t EXCEPT !.pc = "save", !.queueJobId = id].video = t.video BY <1>t DEF Listener
      <4> QED BY <4>1, <4>2
    <3>2. UNCHANGED dlq BY <2>1 DEF ListenerRead
    <3>3. ASSUME NEW x, NEW u, Carries(x, u)'
          PROVE  \/ Old(x, u) /\ x # <<"listener", t>>
                 \/ x = <<"listener", r>> /\ u = t.video
      <4>1. Old(x, u) \/ x = <<"listener", r>> BY <1>1, <3>1, <3>2, <3>3, CarriersAfter
      <4>2. CASE x = <<"listener", r>> BY <3>1, <3>3, <4>2 DEF Carries
      <4>3. CASE x # <<"listener", r>>
        <5>1. x # <<"listener", t>> BY <3>1, <3>3, <4>3 DEF Carries
        <5> QED BY <4>1, <4>3, <5>1
      <4> QED BY <4>2, <4>3
    <3>4. Expects(<<"listener", r>>)' = {"FAILED"} BY DEF Expects
    <3> QED BY <3>3, <3>4
  <2>2. CASE ListenerSave(t)
    <3>n. PICK n : n = Len(dlq) + 1 OBVIOUS
    <3>1. /\ listener' = listener \ {t}
          /\ 1..Len(dlq') = 1..Len(dlq) \cup {n} /\ dlq'[n].video = t.video
      BY <1>t, <2>2, <3>n DEF ListenerSave
    <3>2. ASSUME NEW x, NEW u, Carries(x, u)'
          PROVE  \/ Old(x, u) /\ x # <<"listener", t>>
                 \/ x = <<"record", n>> /\ u = t.video
      <4>1. x # <<"listener", t>> BY <3>1, <3>2 DEF Carries
      <4>2. Old(x, u) \/ x = <<"record", n>> BY <1>1, <3>1, <3>2, CarriersAfter
      <4>3. x = <<"record", n>> => u = t.video BY <3>1, <3>2 DEF Carries
      <4> QED BY <4>1, <4>2, <4>3
    <3>3. Expects(<<"record", n>>)' = {"FAILED"} BY DEF Expects
    <3> QED BY <3>2, <3>3
  <2> QED BY <2>1, <2>2
<1>3. PICK y : /\ Expects(y)' = {"FAILED"}
               /\ \A x, u : Carries(x, u)' => \/ Old(x, u) /\ x # <<"listener", t>>
                                              \/ x = y /\ u = t.video
  BY <1>2
<1>4. CASE t.video = v
  <2>1. Carries(<<"listener", t>>, v) BY <1>4 DEF Carries
  <2>2. video[v].status \in {"FAILED", "DELETED"} \/ Patched(v) BY <2>1 DEF Carried, Suits, Expects
  <2>3. \A x : Carries(x, v)' => x = y \/ (Carries(x, v) /\ x # <<"listener", t>>)
    BY <1>3 DEF Old
  <2> QED BY <1>1, <1>3, <2>1, <2>2, <2>3, HandedOver
<1>5. CASE t.video # v BY <1>1, <1>3, <1>5, Kept
<1> QED BY <1>4, <1>5

\* A listener that fails drops its video.
LEMMA ListenerFaultStep ==
  ASSUME "abort" \notin Env, Inv, HistoryInv, Next, NEW v \in Videos, Carried(v),
         NEW t \in listener, ListenerFault(t)
  PROVE  Carried(v)'
<1>1. UNCHANGED <<video, job, worker, dlq, request>> /\ listener' \subseteq listener
  BY DEF ListenerFault
<1>2. \A x : Carries(x, v)' => Old(x, v) BY <1>1, CarriersAfter
<1> QED BY <1>1, <1>2, Kept

\* A process that dies drops what it carried: nobody carries its job until the
\* stalled checker gives it back.
LEMMA CrashStep ==
  ASSUME "abort" \notin Env, Inv, OwnerInv, HistoryInv, Next, NEW v \in Videos, Carried(v),
         NEW w \in Workers, Crash(w)
  PROVE  Carried(v)'
<1>0. TypeOK /\ JobInv /\ WorkerInv BY DEF Inv
<1>t. worker \in [Workers -> Worker] /\ job \in [Requests -> Job] BY <1>0 DEF TypeOK
<1>1. /\ UNCHANGED <<video, dlq, request>>
      /\ \A u \in Workers \ {w} : worker'[u] = worker[u]
      /\ ~Busy(w)'
      /\ listener' \subseteq listener
  BY <1>t DEF Crash, Idle, Busy
<1>2. ASSUME NEW q \in Requests, job'[q] # job[q] PROVE ~Holds(q)'
  <2>1. Busy(w) /\ Owns(w) /\ worker[w].job \in Requests BY <1>0, <1>2, BusyFacts DEF Crash
  <2>2. q = worker[w].job /\ job[q].owner = w BY <1>t, <1>2, <2>1 DEF Crash, Owns, JobOf
  <2>3. job[q].state = "active" BY <2>2 DEF OwnerInv
  <2>4. job'[q].state = "active" BY <1>t, <2>1, <2>2, <2>3 DEF Crash, Job
  <2> QED BY <2>4 DEF Holds
<1>3. ASSUME NEW x, Carries(x, v)' PROVE Old(x, v)
  <2>1. x # <<"worker", w>> BY <1>1, <1>3 DEF Carries, Working
  <2>2. \A q \in Requests : x = <<"job", q>> => job'[q] = job[q] BY <1>2, <1>3 DEF Carries
  <2> QED BY <1>1, <1>3, <2>1, <2>2, CarriersAfter
<1> QED BY <1>1, <1>3, Kept

\* A lost lock moves no video; the handler that lost it carries on.
LEMMA LoseLockStep ==
  ASSUME "abort" \notin Env, Inv, HistoryInv, Next, NEW v \in Videos, Carried(v),
         NEW q \in Requests, LoseLock(q)
  PROVE  Carried(v)'
<1>t. job \in [Requests -> Job] BY DEF Inv, TypeOK
<1>1. /\ UNCHANGED <<video, worker, listener, dlq, request>>
      /\ \A p \in Requests \ {q} : job'[p] = job[p]
      /\ job'[q].state = "active"
  BY <1>t DEF LoseLock, Job
<1>2. ASSUME NEW x, Carries(x, v)' PROVE Old(x, v)
  <2>1. x # <<"job", q>> BY <1>1, <1>2 DEF Carries, Holds
  <2> QED BY <1>1, <1>2, <2>1, CarriersAfter
<1> QED BY <1>1, <1>2, Kept

\* The stalled checker fails a job, which then carries nothing, or gives it back:
\* the one step that may make a second carrier.
LEMMA StalledStep ==
  ASSUME "abort" \notin Env, Inv, HistoryInv, Next, NEW v \in Videos, Carried(v),
         NEW q \in Requests, StalledCheck(q)
  PROVE  Carried(v)' \/ Redelivered(v)'
<1>t. job \in [Requests -> Job] BY DEF Inv, TypeOK
<1>1. /\ UNCHANGED <<video, worker, listener, dlq, request>>
      /\ \A p \in Requests \ {q} : job'[p] = job[p]
      /\ job'[q].video = job[q].video
      /\ \/ job'[q].state = "failed"
         \/ job'[q].stalled = job[q].stalled + 1
  BY <1>t DEF StalledCheck, Job
<1>2. CASE job'[q].state = "failed" \/ job[q].video # v
  <2>1. ASSUME NEW x, Carries(x, v)' PROVE Old(x, v)
    <3>1. x # <<"job", q>> BY <1>1, <1>2, <2>1 DEF Carries, Holds
    <3> QED BY <1>1, <2>1, <3>1, CarriersAfter
  <2> QED BY <1>1, <2>1, Kept
<1>3. CASE job'[q].state # "failed" /\ job[q].video = v
  <2>1. job[q].stalled \in Nat BY <1>t DEF Job
  <2>2. job'[q].video = v /\ job'[q].stalled > 0 BY <1>1, <1>3, <2>1
  <2> QED BY <2>2 DEF Redelivered
<1> QED BY <1>2, <1>3

\* A PATCH carries nothing; when it writes a status, the video is Patched.
LEMMA PatchStep ==
  ASSUME "abort" \notin Env, Inv, HistoryInv, Next, NEW v \in Videos, Carried(v),
         NEW q \in Requests,
         \/ PatchSelect(q) \/ PatchUpdate(q) \/ PatchInsert(q)
         \/ \E u \in Videos : PatchRead(q, u)
  PROVE  Carried(v)'
<1>t. /\ request \in [Requests -> Request] /\ video \in [Videos -> Row]
      /\ lost \in [Videos -> SUBSET LostCause]
  BY DEF Inv, TypeOK
<1>1. /\ UNCHANGED <<job, worker, listener, dlq>>
      /\ \A p \in Requests \ {q} : request'[p] = request[p]
  BY <1>t DEF PatchSelect, PatchUpdate, PatchInsert, PatchRead, Advance
<1>2. request'[q].pc \in {"patchSelect", "patchUpdate", "patchInsert", "done"}
  <2>1. CASE PatchUpdate(q) \/ PatchInsert(q)
    <3>1. Advance(q, "done") BY <2>1 DEF PatchUpdate, PatchInsert
    <3> QED BY <1>t, <3>1 DEF Advance, Request
  <2>2. CASE PatchSelect(q) BY <1>t, <2>2 DEF PatchSelect, Request
  <2>3. CASE \E u \in Videos : PatchRead(q, u) BY <1>t, <2>3 DEF PatchRead, Request
  <2> QED BY <2>1, <2>2, <2>3
<1>3. ASSUME NEW x, Carries(x, v)' PROVE Old(x, v)
  <2>1. x # <<"request", q>> BY <1>2, <1>3 DEF Carries, Asking
  <2> QED BY <1>1, <1>3, <2>1, CarriersAfter
<1>4. video'[v].status \in {video[v].status, "DELETED"} \/ Patched(v)'
  <2>1. CASE PatchSelect(q) \/ \E u \in Videos : PatchRead(q, u)
    BY <2>1 DEF PatchSelect, PatchRead
  <2>2. CASE PatchUpdate(q)
    <3>1. CASE request[q].video = v /\ "status" \in request[q].columns
      BY <1>t, <2>2, <3>1 DEF PatchUpdate, Patched
    <3>2. CASE request[q].video # v BY <1>t, <2>2, <3>2 DEF PatchUpdate
    <3>3. CASE "status" \notin request[q].columns BY <1>t, <2>2, <3>3 DEF PatchUpdate, Merge
    <3> QED BY <3>1, <3>2, <3>3
  <2>3. CASE PatchInsert(q)
    <3>1. CASE request[q].video = v BY <1>t, <2>3, <3>1 DEF PatchInsert, Patched
    <3>2. CASE request[q].video # v BY <1>t, <2>3, <3>2 DEF PatchInsert
    <3> QED BY <3>1, <3>2
  <2> QED BY <2>1, <2>2, <2>3
<1> QED BY <1>3, <1>4, Kept

\* Every step keeps CarriedInv.
LEMMA CarriedStep ==
  ASSUME Env \cap {"abort", "overlap"} = {}, Inv, OwnerInv, CarrierInv, Next
  PROVE  CarriedInv'
<1>0. "abort" \notin Env /\ HistoryInv BY DEF CarrierInv
<1>a. \A q \in Requests : ~Abort(q) BY <1>0 DEF Abort
<1>1. SUFFICES ASSUME NEW v \in Videos, ~Redelivered(v)' PROVE Carried(v)' BY DEF CarriedInv
<1>2. Carried(v) BY <1>0, <1>1, ExcusesKept DEF CarrierInv, CarriedInv, HistoryInv
<1>3. ASSUME NEW w \in Workers, Handle(w) PROVE Carried(v)'
  BY <1>0, <1>2, <1>3, HandlerStep, EmitStep, EndStep DEF Handle
<1>4. ASSUME NEW w \in Workers, Fault(w) \/ MarkFailedFault(w) \/ Crash(w) PROVE Carried(v)'
  BY <1>0, <1>2, <1>4, HandlerStep, MarkFailedFaultStep, CrashStep
<1>5. ASSUME NEW w \in Workers, NEW q \in Requests, Fetch(w, q) PROVE Carried(v)'
  BY <1>0, <1>2, <1>5, FetchStep
<1>6. ASSUME NEW q \in Requests, Serve(q) PROVE Carried(v)'
  BY <1>0, <1>2, <1>6, AddStep, LinkMarkStep, ResetStep, PatchStep DEF Serve
<1>7. ASSUME NEW q \in Requests, Accept(q) PROVE Carried(v)'
  BY <1>0, <1>2, <1>7, CreateStep, ReadStep, PatchStep DEF Accept
<1>8. ASSUME NEW q \in Requests, StalledCheck(q) \/ LoseLock(q) PROVE Carried(v)'
  BY <1>0, <1>1, <1>2, <1>8, StalledStep, LoseLockStep
<1>9. ASSUME NEW t \in listener, ListenerRead(t) \/ ListenerSave(t) \/ ListenerFault(t)
      PROVE  Carried(v)'
  BY <1>0, <1>2, <1>9, ListenStep, ListenerFaultStep
<1>10. ASSUME NEW u \in Videos, Remove(u) PROVE Carried(v)' BY <1>0, <1>2, <1>10, RemoveStep
<1> QED BY <1>a, <1>3, <1>4, <1>5, <1>6, <1>7, <1>8, <1>9, <1>10 DEF Next, Listen, Disturb

\* Initially nobody carries a video and nothing is redelivered or PATCHed.
LEMMA CarrierInit == Init => CarrierInv
<1> SUFFICES ASSUME Init PROVE CarrierInv OBVIOUS
<1>1. /\ \A q \in Requests : job[q].state = "none" /\ job[q].stalled = 0 /\ ~Asking(q)
      /\ \A q \in Requests : request[q].pc \notin PatchPc
      /\ \A w \in Workers : ~Busy(w)
      /\ listener = {} /\ Len(dlq) = 0
  BY DEF Init, NoJob, IdleRequest, Idle, Asking, Busy, PatchPc
<1>2. \A x, v : ~Carries(x, v) BY <1>1 DEF Carries, Working, Holds
<1> QED BY <1>1, <1>2 DEF CarrierInv, CarriedInv, Carried, HistoryInv, EntityInv, FreshInv

\* A stuttering step keeps CarrierInv.
LEMMA CarrierStutter == CarrierInv /\ UNCHANGED vars => CarrierInv'
BY DEF CarrierInv, CarriedInv, Carried, Suits, Carries, Asking, Holds, Working, Spent, Busy, At,
   isFinalAttempt, VideoOf, JobOf, Open, Retrying, Expects, AskStage, Stage, Redelivered, Patched,
   HistoryInv, EntityInv, FreshInv, Enqueued, vars

\* CarrierInv holds in every state when no request dies half-way and retries do
\* not overlap.
LEMMA CarrierInvariance ==
  ASSUME Env \cap {"abort", "overlap"} = {} PROVE Spec => []CarrierInv
<1>1. Inv /\ OwnerInv /\ CarrierInv /\ [Next]_vars => CarrierInv'
  <2>1. ASSUME Inv, OwnerInv, CarrierInv, Next PROVE CarrierInv'
    <3>1. TypeOK /\ HistoryInv BY <2>1 DEF Inv, CarrierInv
    <3> QED BY <2>1, <3>1, CarriedStep, EntityStep, FreshStep DEF CarrierInv, HistoryInv
  <2> QED BY <2>1, CarrierStutter
<1>2. OwnerInv /\ DrivenInv => OwnerInv OBVIOUS
<1> QED BY <1>1, <1>2, CarrierInit, Invariance, DeliveryInvariance, PTL DEF Spec

\* Two attempts generate one video only if BullMQ gave a job of it back as stalled,
\* whatever processes die, locks expire, calls fail, rows are deleted, inserted
\* again or overwritten.  In every other case the optimistic lock of
\* transitionStatus (video-generation.processor.ts:60-66) is never put to the test;
\* in this one it fails, as the run concurrent_attempts shows.
THEOREM AttemptsOverlapAfterStalls ==
  ASSUME Env \cap {"abort", "overlap"} = {} PROVE Spec => []OverlapOnlyAfterStall
<1>1. Inv /\ CarrierInv => OverlapOnlyAfterStall
  <2>1. SUFFICES ASSUME Inv, CarrierInv, NEW w1 \in Workers, NEW w2 \in Workers, w1 # w2,
                        Generating(w1), Generating(w2), VideoOf(w1) = VideoOf(w2),
                        ~Redelivered(VideoOf(w1))
                 PROVE  FALSE
    BY DEF OverlapOnlyAfterStall
  <2>2. Working(w1) /\ Working(w2)
    BY <2>1 DEF Generating, TryPc, Working, Busy, Spent, At
  <2>3. VideoOf(w1) \in Videos BY <2>1, <2>2, BusyFacts DEF Inv, Working
  <2>4. Carried(VideoOf(w1)) BY <2>1, <2>3 DEF CarrierInv, CarriedInv
  <2>5. Carries(<<"worker", w1>>, VideoOf(w1)) /\ Carries(<<"worker", w2>>, VideoOf(w1))
    BY <2>1, <2>2, <2>4, WorkerCarries
  <2>6. <<"worker", w1>> = <<"worker", w2>> BY <2>4, <2>5 DEF Carried
  <2> QED BY <2>1, <2>6
<1>2. Spec => []CarrierInv BY CarrierInvariance
<1> QED BY <1>1, <1>2, Invariance, PTL

\* VIDEO_EVENTS.COMPLETED is emitted only for a video that is COMPLETED, was deleted,
\* was redelivered or had its status overwritten by a PATCH, although the handler
\* does not look at what its transition to COMPLETED answered
\* (video-generation.processor.ts:147-158).
THEOREM CompletedEventsAreTrue ==
  ASSUME Env \cap {"abort", "overlap"} = {} PROVE Spec => CompletedEventIsTrue
<1>1. Inv /\ CarrierInv =>
        \A w \in Workers : ReportCompleted(w) =>
          \/ video[VideoOf(w)].status \in {"COMPLETED", "DELETED"}
          \/ Redelivered(VideoOf(w)) \/ Patched(VideoOf(w))
  <2>1. SUFFICES ASSUME Inv, CarrierInv, NEW w \in Workers, ReportCompleted(w),
                        ~Redelivered(VideoOf(w))
                 PROVE  video[VideoOf(w)].status \in {"COMPLETED", "DELETED"} \/ Patched(VideoOf(w))
    OBVIOUS
  <2>2. worker[w].pc = "report" /\ Working(w)
    BY <2>1 DEF ReportCompleted, At, Working, Busy, Spent
  <2>3. VideoOf(w) \in Videos BY <2>1, <2>2, BusyFacts DEF Inv, Working
  <2>4. Carried(VideoOf(w)) BY <2>1, <2>3 DEF CarrierInv, CarriedInv
  <2>5. video[VideoOf(w)].status \in Stage(w) \cup {"DELETED"} \/ Patched(VideoOf(w))
    BY <2>1, <2>2, <2>4, WorkerCarries
  <2>6. Stage(w) = {"COMPLETED"} BY <2>2 DEF Stage
  <2> QED BY <2>5, <2>6
<1>2. Spec => []CarrierInv BY CarrierInvariance
<1> QED BY <1>1, <1>2, Invariance, PTL DEF CompletedEventIsTrue

-----------------------------------------------------------------------------
\* Untouched videos suit their carriers; a handler's video in particular.
LEMMA QuietCarriers ==
  ASSUME Inv, CarriedInv, Untouched
  PROVE  /\ \A v \in Videos : \A x : Carries(x, v) => Suits(x, v)
         /\ \A w \in Workers : Working(w) =>
              /\ VideoOf(w) \in Videos
              /\ video[VideoOf(w)].status \in Stage(w) \cup {"DELETED"}
<1>1. \A v \in Videos : Carried(v) /\ ~Patched(v) BY DEF CarriedInv, Untouched
<1>2. \A v \in Videos : \A x : Carries(x, v) => Suits(x, v) BY <1>1 DEF Carried
<1>3. ASSUME NEW w \in Workers, Working(w)
      PROVE  /\ VideoOf(w) \in Videos
             /\ video[VideoOf(w)].status \in Stage(w) \cup {"DELETED"}
  <2>1. VideoOf(w) \in Videos BY <1>3, BusyFacts DEF Inv, Working
  <2> QED BY <1>1, <1>3, <2>1, WorkerCarries
<1> QED BY <1>2, <1>3

\* The documented moves of a status (README.md:103-108).
Path(from, to) ==
  \/ from = "NEW" /\ to = "PENDING"
  \/ from = "PENDING" /\ to = "PROCESSING"
  \/ from = "PROCESSING" /\ to = "COMPLETED"
  \/ from \in {"PENDING", "PROCESSING"} /\ to = "FAILED"
  \/ from = "FAILED" /\ to = "PENDING"
  \/ from \in RowStatus /\ to = "DELETED"

\* A step changes no status, or that of one video along a documented move, when
\* no call fails.
LEMMA StatusPaths ==
  ASSUME "fault" \notin Env, Inv, NoPatching, CarriedInv, Untouched, Next
  PROVE  \/ \A v \in Videos : video'[v].status = video[v].status
         \/ \E v \in Videos : /\ Path(video[v].status, video'[v].status)
                             /\ \A u \in Videos \ {v} : video'[u] = video[u]
<1>0. TypeOK /\ RequestInv BY DEF Inv
<1>t. video \in [Videos -> Row] BY <1>0 DEF TypeOK
<1> DEFINE Goal == \/ \A v \in Videos : video'[v].status = video[v].status
                   \/ \E v \in Videos : /\ Path(video[v].status, video'[v].status)
                                       /\ \A u \in Videos \ {v} : video'[u] = video[u]
<1>a. ASSUME NEW v \in Videos, NEW r, video' = [video EXCEPT ![v] = r],
             r.status = video[v].status \/ Path(video[v].status, r.status)
      PROVE  Goal
  <2>1. video'[v] = r /\ \A u \in Videos \ {v} : video'[u] = video[u] BY <1>t, <1>a
  <2> QED BY <1>a, <2>1
<1>b. ASSUME UNCHANGED video PROVE Goal BY <1>b
<1>c. ASSUME NEW v, NEW p, UpdateProgress(v, p) PROVE Goal
  BY <1>t, <1>c DEF UpdateProgress, Row
<1>1. ASSUME NEW w \in Workers, StartAttempt(w) PROVE Goal
  <2>1. Working(w) /\ worker[w].pc = "start" BY <1>1 DEF StartAttempt, At, Working, Busy, Spent
  <2>2. VideoOf(w) \in Videos BY <2>1, QuietCarriers
  <2>3. CASE Transitions(VideoOf(w), worker[w].seen, "PROCESSING")
    <3>1. video' = [video EXCEPT ![VideoOf(w)] =
                     [video[VideoOf(w)] EXCEPT !.status = "PROCESSING", !.progress = 10]]
      BY <1>1, <2>3 DEF StartAttempt
    <3>2. video[VideoOf(w)].status \in {"PENDING", "PROCESSING"}
      BY <2>1, <2>3, QuietCarriers
         DEF Transitions, VALID_TRANSITIONS, Stage, Unfinished, Status, RowStatus
    <3>3. [video[VideoOf(w)] EXCEPT !.status = "PROCESSING", !.progress = 10].status = "PROCESSING"
      BY <1>t, <2>2 DEF Row
    <3> QED BY <1>a, <2>2, <3>1, <3>2, <3>3 DEF Path
  <2>4. CASE ~Transitions(VideoOf(w), worker[w].seen, "PROCESSING")
    BY <1>1, <1>b, <2>4 DEF StartAttempt
  <2> QED BY <2>3, <2>4
<1>2. ASSUME NEW w \in Workers, EnhancePrompt(w) \/ GenerateVideo(w) \/ Poll(w) PROVE Goal
  BY <1>2, <1>c DEF EnhancePrompt, GenerateVideo, Poll
<1>3. ASSUME NEW w \in Workers, Complete(w) PROVE Goal
  <2>1. Working(w) BY <1>3 DEF Complete, At, Working, Busy, Spent
  <2>2. VideoOf(w) \in Videos BY <2>1, QuietCarriers
  <2>3. CompletedRow(video[VideoOf(w)]).status = "COMPLETED" BY <1>t, <2>2 DEF CompletedRow, Row
  <2>4. CASE Transitions(VideoOf(w), "PROCESSING", "COMPLETED")
    <3>1. video' = [video EXCEPT ![VideoOf(w)] = CompletedRow(video[VideoOf(w)])]
      BY <1>3, <2>4 DEF Complete
    <3> QED BY <1>a, <2>2, <2>3, <2>4, <3>1 DEF Path, Transitions
  <2>5. CASE ~Transitions(VideoOf(w), "PROCESSING", "COMPLETED") BY <1>3, <1>b, <2>5 DEF Complete
  <2> QED BY <2>4, <2>5
<1>4. ASSUME NEW w \in Workers, MarkFailed(w) PROVE Goal
  <2>1. Working(w) /\ worker[w].pc = "catch" BY <1>4 DEF MarkFailed, At, Working, Busy, Spent
  <2>2. VideoOf(w) \in Videos /\ video[VideoOf(w)].status \in {"PENDING", "PROCESSING", "DELETED"}
    BY <2>1, QuietCarriers DEF Stage, Unfinished
  <2>3. FailedRow(video[VideoOf(w)]).status = "FAILED" BY <1>t, <2>2 DEF FailedRow, Row
  <2>4. CASE Exists(VideoOf(w))
    <3>1. video' = [video EXCEPT ![VideoOf(w)] = FailedRow(video[VideoOf(w)])]
      BY <1>4, <2>4 DEF MarkFailed
    <3> QED BY <1>a, <2>2, <2>3, <2>4, <3>1 DEF Path, Exists, RowStatus
  <2>5. CASE ~Exists(VideoOf(w)) BY <1>4, <1>b, <2>5 DEF MarkFailed
  <2> QED BY <2>4, <2>5
<1>5. ASSUME NEW q \in Requests, NEW v \in Videos, CreateSave(q, v) PROVE Goal
  <2>1. video' = [video EXCEPT ![v] = EmptyRow("PENDING")] /\ video[v].status = "NEW"
    BY <1>5 DEF CreateSave
  <2>2. EmptyRow("PENDING").status = "PENDING" BY DEF EmptyRow
  <2> QED BY <1>a, <2>1, <2>2 DEF Path
<1>6. ASSUME NEW q \in Requests, CreateLink(q) \/ RetryLink(q) PROVE Goal
  BY <1>t, <1>6 DEF CreateLink, RetryLink, LinkedRow, Row
<1>7. ASSUME NEW q \in Requests, RetryReset(q) PROVE Goal
  <2> DEFINE v == request[q].video
  <2>1. v \in Videos BY <1>0, <1>7 DEF RetryReset, RequestAt, RequestInv, RequestOK, RetryPc
  <2>2. video[v].status \in {"FAILED", "DELETED"}
    <3>1. Carries(<<"request", q>>, v) BY <1>7 DEF RetryReset, RequestAt, Carries, Asking
    <3>2. Expects(<<"request", q>>) = {"FAILED"}
      BY <1>7 DEF RetryReset, RequestAt, Expects, AskStage
    <3> QED BY <2>1, <3>1, <3>2, QuietCarriers DEF Suits
  <2>3. CASE Exists(v)
    <3>1. video' = [video EXCEPT ![v] = ResetRow(video[v])] BY <1>7, <2>3 DEF RetryReset
    <3>2. ResetRow(video[v]).status = "PENDING" BY <1>t, <2>1 DEF ResetRow, Row
    <3> QED BY <1>a, <2>1, <2>2, <2>3, <3>1, <3>2 DEF Path, Exists, RowStatus
  <2>4. CASE ~Exists(v) BY <1>7, <1>b, <2>4 DEF RetryReset
  <2> QED BY <2>3, <2>4
<1>8. ASSUME NEW q \in Requests PROVE ~PatchUpdate(q) /\ ~PatchInsert(q)
  BY DEF NoPatching, PatchPc, PatchUpdate, PatchInsert, RequestAt
<1>9. ASSUME NEW v \in Videos, Remove(v) PROVE Goal
  <2>1. video' = [video EXCEPT ![v] = EmptyRow("DELETED")] /\ video[v].status \in RowStatus
    BY <1>9 DEF Remove, Exists
  <2>2. EmptyRow("DELETED").status = "DELETED" BY DEF EmptyRow
  <2> QED BY <1>a, <2>1, <2>2 DEF Path
<1>10. Goal BY <1>b, <1>1, <1>2, <1>3, <1>4, <1>5, <1>6, <1>7, <1>8, <1>9, VideoSteps
<1> QED BY <1>10

\* An ended job is left alone.
LEMMA EndedKept ==
  ASSUME Inv, OwnerInv, Next, NEW q \in Requests, job[q].state \in {"completed", "failed"}
  PROVE  job'[q] = job[q]
<1>0. TypeOK /\ JobInv /\ WorkerInv /\ RequestInv BY DEF Inv
<1>t. job \in [Requests -> Job] BY <1>0 DEF TypeOK
<1>1. ASSUME NEW w \in Workers, JobCompleted(w) \/ JobFailed(w) \/ Crash(w)
      PROVE  job'[q] = job[q]
  <2>1. Busy(w) => worker[w].job \in Requests BY <1>0, BusyFacts
  <2>2. ~(Busy(w) /\ worker[w].job = q /\ Owns(w)) BY DEF OwnerInv, Owns, JobOf
  <2> QED BY <1>t, <1>1, <2>1, <2>2 DEF JobCompleted, JobFailed, Crash, At, Busy
<1>2. ASSUME NEW w \in Workers, NEW p \in Requests, Fetch(w, p) PROVE job'[q] = job[q]
  BY <1>t, <1>2 DEF Fetch
<1>3. ASSUME NEW p \in Requests, LoseLock(p) \/ StalledCheck(p) PROVE job'[q] = job[q]
  BY <1>t, <1>3 DEF LoseLock, StalledCheck
<1>4. ASSUME NEW p \in Requests, CreateAdd(p) \/ RetryAdd(p) PROVE job'[q] = job[q]
  <2>1. p # q BY <1>0, <1>4 DEF RequestInv, RequestOK, Enqueued, CreateAdd, RetryAdd, RequestAt
  <2> QED BY <1>t, <1>4, <2>1 DEF CreateAdd, RetryAdd
<1> QED BY <1>1, <1>2, <1>3, <1>4, JobSteps

\* A job ends under a handler, and fails only in its last attempt.
LEMMA JobEnds ==
  ASSUME Env \subseteq {"delete", "fault"}, Inv, OwnerInv, ActiveIsHeld, Next,
         NEW q \in Requests
  PROVE  /\ job'[q].state = "active" => job'[q].owner # None
         /\ job'[q].state = "failed" /\ job[q].state # "failed" =>
              job'[q].attemptsMade = job'[q].attempts
<1>0. TypeOK /\ JobInv /\ WorkerInv /\ RequestInv BY DEF Inv
<1>t. job \in [Requests -> Job] BY <1>0 DEF TypeOK
<1>n. None \notin Workers BY NoneAssumption
<1>1. CASE job'[q] = job[q] BY <1>1 DEF ActiveIsHeld
<1>2. ASSUME NEW w \in Workers, NEW p \in Requests, Fetch(w, p), p = q
      PROVE  job'[q].state = "active" /\ job'[q].owner = w
  BY <1>t, <1>2 DEF Fetch, Job
<1>3. ASSUME NEW w \in Workers, JobCompleted(w), worker[w].job = q, Owns(w)
      PROVE  job'[q].state = "completed"
  <2>1. job' = [job EXCEPT ![q] = [job[q] EXCEPT !.state = "completed", !.owner = None]]
    BY <1>3 DEF JobCompleted
  <2> QED BY <1>t, <2>1 DEF Job
<1>4. ASSUME NEW w \in Workers, JobFailed(w), worker[w].job = q, Owns(w)
      PROVE  /\ job'[q].state \in {"wait", "failed"}
             /\ job'[q].state = "failed" => job'[q].attemptsMade = job'[q].attempts
  <2>1. job' = [job EXCEPT ![q] =
                 [job[q] EXCEPT !.state = IF job[q].attemptsMade + 1 < job[q].attempts THEN "wait" ELSE "failed",
                                !.attemptsMade = job[q].attemptsMade + 1, !.owner = None]]
    BY <1>4 DEF JobFailed, JobOf
  <2>2. job[q].state = "active" BY <1>4 DEF OwnerInv, Owns, JobOf
  <2>3. job[q].attemptsMade < job[q].attempts BY <1>0, <2>2 DEF JobInv, Live
  <2>4. job[q].attemptsMade \in Nat /\ job[q].attempts \in Nat BY <1>t DEF Job
  <2>5. /\ job'[q].state = IF job[q].attemptsMade + 1 < job[q].attempts THEN "wait" ELSE "failed"
        /\ job'[q].attemptsMade = job[q].attemptsMade + 1
        /\ job'[q].attempts = job[q].attempts
    BY <1>t, <2>1 DEF Job
  <2> QED BY <2>3, <2>4, <2>5
<1>5. ASSUME NEW p \in Requests, CreateAdd(p) \/ RetryAdd(p), p = q
      PROVE  job'[q].state = "wait"
  <2>1. \E u, n : job' = [job EXCEPT ![q] = NewJob(u, n)] BY <1>5 DEF CreateAdd, RetryAdd
  <2> QED BY <1>t, <2>1 DEF NewJob, NoJob
<1>6. ASSUME job'[q] # job[q]
      PROVE  \/ \E w \in Workers, p \in Requests : Fetch(w, p) /\ p = q
             \/ \E w \in Workers : (JobCompleted(w) \/ JobFailed(w)) /\ worker[w].job = q /\ Owns(w)
             \/ \E p \in Requests : (CreateAdd(p) \/ RetryAdd(p)) /\ p = q
  <2>1. ASSUME NEW w \in Workers, NEW p \in Requests, Fetch(w, p) PROVE p = q
    BY <1>t, <1>6, <2>1 DEF Fetch
  <2>2. ASSUME NEW w \in Workers, JobCompleted(w) \/ JobFailed(w)
        PROVE  worker[w].job = q /\ Owns(w)
    <3>1. worker[w].job \in Requests BY <1>0, <2>2, BusyFacts DEF JobCompleted, JobFailed, At, Busy
    <3> QED BY <1>t, <1>6, <2>2, <3>1 DEF JobCompleted, JobFailed
  <2>3. ASSUME NEW p \in Requests, CreateAdd(p) \/ RetryAdd(p) PROVE p = q
    BY <1>t, <1>6, <2>3 DEF CreateAdd, RetryAdd
  <2>4. \A w \in Workers : ~Crash(w) BY DEF Crash
  <2>5. \A p \in Requests : ~LoseLock(p) /\ ~StalledCheck(p)
    BY DEF LoseLock, StalledCheck, ActiveIsHeld
  <2> QED BY <1>6, <2>1, <2>2, <2>3, <2>4, <2>5, JobSteps
<1> QED BY <1>n, <1>1, <1>2, <1>3, <1>4, <1>5, <1>6

\* Every step keeps JobEndInv.
LEMMA JobEndStep ==
  ASSUME Env \subseteq {"delete", "fault"}, Inv, OwnerInv, ActiveIsHeld, JobEndInv, Next
  PROVE  JobEndInv'
<1>1. SUFFICES ASSUME NEW q \in Requests, job'[q].state = "failed"
               PROVE  job'[q].attemptsMade = job'[q].attempts
  BY DEF JobEndInv
<1>2. CASE job[q].state = "failed" BY <1>2, EndedKept DEF JobEndInv
<1>3. CASE job[q].state # "failed" BY <1>1, <1>3, JobEnds
<1> QED BY <1>2, <1>3

\* Every step keeps LinkInv.
LEMMA LinkStep ==
  ASSUME Inv, StoredFirst, NoPatching, LinkInv, Next
  PROVE  LinkInv'
<1>1. SUFFICES ASSUME NEW v \in Videos, video'[v].status \in {"NEW", "DELETED"}
               PROVE  video'[v].queueJobId = None
  BY DEF LinkInv
<1>2. Rewritten(v, video'[v]) BY RowWrites DEF Inv
<1>t. video[v] \in Row BY DEF Inv, TypeOK
<1>3. video[v].status \in {"NEW", "DELETED"} => video[v].queueJobId = None BY DEF LinkInv
<1>r. PICK r : r = video'[v] OBVIOUS
<1>e. \A s : EmptyRow(s).queueJobId = None BY DEF EmptyRow
<1>4. CASE video[v].status \notin {"NEW", "DELETED"}
  <2>1. /\ FailedRow(video[v]).status = "FAILED"
        /\ ResetRow(video[v]).status = "PENDING"
        /\ CompletedRow(video[v]).status = "COMPLETED"
        /\ [video[v] EXCEPT !.status = "PROCESSING", !.progress = 10].status = "PROCESSING"
    BY <1>t DEF FailedRow, ResetRow, CompletedRow, Row
  <2>2. Rewritten(v, r) /\ r.status \in {"NEW", "DELETED"} BY <1>1, <1>2, <1>r
  <2>3. ASSUME NEW p, r = [video[v] EXCEPT !.progress = p] PROVE FALSE
    <3>1. r.status = video[v].status BY <1>t, <2>3 DEF Row
    <3> QED BY <1>4, <2>2, <3>1
  <2>4. ASSUME NEW q, r = [video[v] EXCEPT !.queueJobId = q] PROVE FALSE
    <3>1. r.status = video[v].status BY <1>t, <2>4 DEF Row
    <3> QED BY <1>4, <2>2, <3>1
  <2>5. r = EmptyRow("DELETED") BY <1>4, <2>1, <2>2, <2>3, <2>4 DEF Rewritten
  <2> QED BY <1>e, <1>r, <2>5
<1>5. CASE video[v].status \in {"NEW", "DELETED"}
  <2>1. Rewritten(v, r) BY <1>2, <1>r
  <2>2. r = video[v] \/ r = EmptyRow("PENDING") BY <1>5, <2>1 DEF Rewritten, RowStatus
  <2>3. video[v].queueJobId = None BY <1>3, <1>5
  <2> QED BY <1>e, <1>r, <2>2, <2>3
<1> QED BY <1>4, <1>5

-----------------------------------------------------------------------------
\* Every step keeps Untouched.
LEMMA UntouchedStep ==
  ASSUME Inv, FreshInv, NoPatching, ActiveIsHeld, Untouched, Next
  PROVE  Untouched'
<1>0. TypeOK /\ JobInv /\ WorkerInv /\ RequestInv BY DEF Inv
<1>t. job \in [Requests -> Job] /\ lost \in [Videos -> SUBSET LostCause] BY <1>0 DEF TypeOK
<1>1. SUFFICES ASSUME NEW v \in Videos PROVE ~Redelivered(v)' /\ ~Patched(v)' BY DEF Untouched
<1>2. ASSUME NEW q \in Requests, job'[q].video = v PROVE ~(job'[q].stalled > 0)
  <2>1. ~StalledCheck(q) BY DEF StalledCheck, ActiveIsHeld
  <2>2. CASE job'[q].stalled = 0 BY <2>2
  <2>3. CASE job'[q].stalled # 0
    <3>1. job'[q].stalled = job[q].stalled BY <2>1, <2>3, StalledMoves
    <3>2. CASE Enqueued(q)
      <4>1. job[q].video = v BY <1>0, <1>2, <3>2, JobsKeptStep DEF JobsKept
      <4> QED BY <3>1, <4>1 DEF Untouched, Redelivered
    <3>3. CASE ~Enqueued(q) BY <2>3, <3>1, <3>3 DEF Untouched, FreshInv
    <3> QED BY <3>2, <3>3
  <2> QED BY <2>2, <2>3
<1>3. ~Patched(v)'
  <2>1. "patch" \notin lost[v] BY DEF Untouched, Patched
  <2>2. \A q \in Requests : ~PatchUpdate(q) /\ ~PatchInsert(q)
    BY DEF NoPatching, PatchPc, PatchUpdate, PatchInsert, RequestAt
  <2>3. ASSUME NEW u, NEW c \in {"markFailed", "orphan", "stalledOut", "abort"},
               lost' = [lost EXCEPT ![u] = @ \cup {c}]
        PROVE  "patch" \notin lost'[v]
    BY <1>t, <2>1, <2>3
  <2>4. \/ UNCHANGED lost
        \/ \E u, c : /\ c \in {"markFailed", "orphan", "stalledOut", "abort"}
                     /\ lost' = [lost EXCEPT ![u] = @ \cup {c}]
    BY <2>2, OtherSteps DEF MarkFailedFault, JobFailed, Crash, StalledCheck, Abort
  <2> QED BY <2>1, <2>3, <2>4 DEF Patched
<1> QED BY <1>2, <1>3 DEF Redelivered

\* Initially no job exists and no row names one.
LEMMA QuietInit == Init => QuietInv
BY DEF Init, NoJob, EmptyRow, QuietInv, ActiveIsHeld, Untouched, Redelivered, Patched, JobEndInv, LinkInv

\* A stuttering step keeps QuietInv.
LEMMA QuietStutter == QuietInv /\ UNCHANGED vars => QuietInv'
BY DEF QuietInv, ActiveIsHeld, Untouched, Redelivered, Patched, JobEndInv, LinkInv, vars

\* Every step keeps QuietInv.
LEMMA QuietStep ==
  ASSUME Env \subseteq {"delete", "fault"}, Inv, OwnerInv, RowInv, HistoryInv, QuietInv, Next
  PROVE  QuietInv'
<1>1. /\ ActiveIsHeld /\ Untouched /\ JobEndInv /\ LinkInv
      /\ StoredFirst /\ NoPatching
  BY DEF QuietInv, RowInv
<1>2. ActiveIsHeld' BY <1>1, JobEnds DEF ActiveIsHeld
<1>3. Untouched' BY <1>1, UntouchedStep DEF HistoryInv
<1>4. JobEndInv' BY <1>1, JobEndStep
<1>5. LinkInv' BY <1>1, LinkStep
<1> QED BY <1>2, <1>3, <1>4, <1>5 DEF QuietInv

\* QuietInv holds in every state when the environment only deletes and fails calls.
LEMMA QuietInvariance ==
  ASSUME Env \subseteq {"delete", "fault"} PROVE Spec => [](QuietInv /\ CarriedInv)
<1>1. Inv /\ OwnerInv /\ RowInv /\ CarrierInv /\ QuietInv /\ [Next]_vars => QuietInv'
  BY QuietStep, QuietStutter DEF CarrierInv
<1>2. Spec => []RowInv BY RowInvariance
<1>3. Spec => []CarrierInv BY CarrierInvariance
<1>4. OwnerInv /\ DrivenInv => OwnerInv OBVIOUS
<1>5. CarrierInv => CarriedInv BY DEF CarrierInv
<1> QED BY <1>1, <1>2, <1>3, <1>4, <1>5, QuietInit, Invariance, DeliveryInvariance, PTL DEF Spec

-----------------------------------------------------------------------------
\* GET /queue/jobs/:jobId with the queueJobId of a video tells the truth of the
\* video: a job is found, "completed" means that the video is COMPLETED and
\* "failed" that its attempts are used up, even while the row is rewritten by
\* handlers, retries and deletion in any order.
THEOREM JobStatusIsTrue ==
  ASSUME Env \subseteq {"delete", "fault"} PROVE Spec => []JobTellsOfVideo
<1>1. Inv /\ QuietInv /\ CarriedInv => JobTellsOfVideo
  <2>1. SUFFICES ASSUME Inv, QuietInv, CarriedInv, NEW v \in Videos, NEW q, q = video[v].queueJobId, q # None
                 PROVE  /\ getJobStatus(q) \in JobStatusDto
                        /\ getJobStatus(q).state = "completed" => video[v].status = "COMPLETED"
                        /\ getJobStatus(q).state = "failed" =>
                             getJobStatus(q).attemptsMade = getJobStatus(q).maxAttempts
    BY DEF JobTellsOfVideo
  <2>2. video[v] \in Row /\ job \in [Requests -> Job] BY <2>1 DEF Inv, TypeOK
  <2>3. q \in Requests BY <2>1, <2>2 DEF Row, JobIds
  <2>4. job[q] \in Job /\ job[q].state # "none" /\ job[q].video = v
    BY <2>1, <2>2, <2>3 DEF Inv, QueueJobIdSound
  <2>5. getJobStatus(q) \in JobStatusDto BY <2>4 DEF getJobStatus, JobStatusDto, Job
  <2>6. video[v].status \notin {"NEW", "DELETED"} BY <2>1 DEF QuietInv, LinkInv
  <2>7. job[q].state = "completed" => video[v].status = "COMPLETED"
    <3>1. SUFFICES ASSUME job[q].state = "completed" PROVE video[v].status = "COMPLETED" OBVIOUS
    <3>2. Carries(<<"job", q>>, v) BY <2>3, <2>4, <3>1 DEF Carries, Holds
    <3>3. Expects(<<"job", q>>) = {"COMPLETED"} BY <3>1 DEF Expects
    <3>4. Suits(<<"job", q>>, v) BY <2>1, <3>2, QuietCarriers DEF QuietInv
    <3> QED BY <2>6, <3>3, <3>4 DEF Suits
  <2>8. job[q].state = "failed" => job[q].attemptsMade = job[q].attempts
    BY <2>1, <2>3 DEF QuietInv, JobEndInv
  <2> QED BY <2>5, <2>7, <2>8 DEF getJobStatus
<1>2. Spec => [](QuietInv /\ CarriedInv) BY QuietInvariance
<1> QED BY <1>1, <1>2, Invariance, PTL

\* The statuses of all videos follow the state machine of the documentation
\* (README.md:103-108): every step of the pipeline is a move of one video along
\* it, or changes no status at all.
THEOREM StatusesFollowTheLifecycle ==
  ASSUME Env \subseteq {"delete"} PROVE Spec => ImplementsLifecycle
<1>e. "fault" \notin Env /\ "patch" \notin Env /\ Env \subseteq {"delete", "fault"} OBVIOUS
<1> DEFINE status == [v \in Videos |-> video[v].status]
<1>1. Init => Lifecycle!Init
  BY DEF Init, Lifecycle!Init, EmptyRow
<1>2. Inv /\ RowInv /\ QuietInv /\ CarriedInv /\ [Next]_vars => [Lifecycle!Next]_status
  <2>1. ASSUME Inv, NoPatching, CarriedInv, Untouched, Next PROVE [Lifecycle!Next]_status
    <3>1. CASE \A v \in Videos : video'[v].status = video[v].status
      <4>1. status' = status BY <3>1
      <4> QED BY <4>1
    <3>2. ASSUME NEW v \in Videos, Path(video[v].status, video'[v].status),
                 \A u \in Videos \ {v} : video'[u] = video[u]
          PROVE  Lifecycle!Next
      <4>1. status' = [status EXCEPT ![v] = video'[v].status] BY <3>2
      <4>2. status[v] = video[v].status OBVIOUS
      <4> HIDE DEF status
      <4> QED BY <3>2, <4>1, <4>2
              DEF Path, RowStatus, Lifecycle!Next, Lifecycle!Create, Lifecycle!Start,
                  Lifecycle!Complete, Lifecycle!Fail, Lifecycle!Retry, Lifecycle!Delete,
                  Lifecycle!Move, status
    <3> QED BY <1>e, <2>1, <3>1, <3>2, StatusPaths
  <2>2. ASSUME UNCHANGED vars PROVE [Lifecycle!Next]_status BY <2>2 DEF vars
  <2> QED BY <2>1, <2>2 DEF RowInv, QuietInv
<1>3. Spec => [](QuietInv /\ CarriedInv) BY <1>e, QuietInvariance
<1>4. Spec => []RowInv BY <1>e, RowInvariance
<1> QED BY <1>1, <1>2, <1>3, <1>4, Invariance, PTL DEF Spec, ImplementsLifecycle, Lifecycle!Spec
=============================================================================
