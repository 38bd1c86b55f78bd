----------------------------- MODULE Generation -----------------------------
(***************************************************************************)
(* What an attempt does between the start transition and the completed     *)
(* row: AiService and the job map of FakeVideoProvider, the processor's    *)
(* poll loop, StorageService's download and upload with retries, and the   *)
(* S3 key that VideosService later recovers from the url in the row.       *)
(*                                                                         *)
(* VideoPipeline says which attempts run and what becomes of the row; here *)
(* attempts simply begin, at most one at a time in a process (BullMQ's     *)
(* concurrency), and time passes in ticks.                                 *)
(***************************************************************************)
EXTENDS Integers, Sequences

CONSTANTS
  Processes,      \* processes that run the processor and hold a provider
  Videos,
  Attempts,       \* attempts, each also naming the provider job it submits
  Interval,       \* ticks slept before a poll (10 s in the code)
  MaxPolls,       \* maxPollAttempts (30 in the code)
  Delay,          \* completionDelayMs (5 s in the code)
  StoredAnswers,  \* what providers say in alreadyStored (the fake one: TRUE)
  Endpoint,       \* is storage.endpoint configured?
  None

ASSUME IntervalAssumption == Interval \in Nat
ASSUME MaxPollsAssumption == MaxPolls \in Nat \ {0}
ASSUME DelayAssumption    == Delay \in Nat
ASSUME AnswersAssumption  == StoredAnswers \subseteq BOOLEAN
ASSUME EndpointAssumption == Endpoint \in BOOLEAN
ASSUME AbsenceAssumption  == None \notin Nat \cup Processes \cup Videos

VARIABLES
  attempt,   \* what each attempt is doing
  age,       \* ticks since startedAt of its job, None: not in the map
  bucket,    \* keys of the objects in the S3 bucket
  videoUrl   \* the column of each video

vars == <<attempt, age, bucket, videoUrl>>

-----------------------------------------------------------------------------
(* Keys and urls: a url is its host and the segments of its path.          *)

Key(v) == <<"videos", v, "output.mp4">>

FakeUrl(v) == [host |-> "fake-cdn", path |-> Key(v)]
NoUrl      == [host |-> "none", path |-> << >>]

\* Path-style under an endpoint, the bucket in the host name otherwise.
getPublicUrl(key) ==
  IF Endpoint THEN [host |-> "endpoint", path |-> <<"bucket">> \o key]
              ELSE [host |-> "bucket", path |-> key]

Urls == {NoUrl} \cup UNION {{FakeUrl(v), getPublicUrl(Key(v))} : v \in Videos}

\* The path without its first segment, if it has a second one.
extractS3Key(url) ==
  IF Len(url.path) >= 2 THEN Tail(url.path) ELSE url.path

\* The key getVideoResult signs a download for.
ResultKey(v) == extractS3Key(videoUrl[v])

\* Signing asks nobody whether the key names an object: the link works if it
\* does.  (The expiry is left out.)
DownloadWorks(key) == key \in bucket

-----------------------------------------------------------------------------
(* Attempts.  wait: ticks left to sleep; polls: pollAttempts; tries: failed *)
(* PUTs; stored: the url the row will get.                                  *)

RunningPc == {"enhance", "submit", "poll", "download", "put", "complete", "hung"}
AttemptPc == {"new", "done", "failed", "gaveUp", "dead"} \cup RunningPc

MAX_RETRY_ATTEMPTS == 3

Attempt == [pc : AttemptPc, process : Processes \cup {None},
            video : Videos \cup {None}, wait : 0..Interval,
            polls : 0..(MaxPolls - 1), tries : 0..(MAX_RETRY_ATTEMPTS - 1),
            stored : Urls]

Running(a) == attempt[a].pc \in RunningPc
At(a, pc)  == attempt[a].pc = pc

Goto(a, pc) ==
  attempt' = [attempt EXCEPT ![a] = [@ EXCEPT !.pc = pc, !.wait = 0,
                                              !.polls = 0, !.tries = 0]]

\* An attempt whose start transition won.
Begin(a, p, v) ==
  /\ At(a, "new")
  /\ \A b \in Attempts : attempt[b].process = p => ~Running(b)
  /\ attempt' = [attempt EXCEPT ![a] =
       [@ EXCEPT !.pc = "enhance", !.process = p, !.video = v]]
  /\ UNCHANGED <<age, bucket, videoUrl>>

\* OpenAI answers, or the original prompt is kept: never an error.
enhancePrompt(a) ==
  /\ At(a, "enhance")
  /\ Goto(a, "submit")
  /\ UNCHANGED <<age, bucket, videoUrl>>

\* generateVideo: put a job in the map of this process, and fall asleep.
submit(a) ==
  /\ At(a, "submit")
  /\ age' = [age EXCEPT ![a] = 0]
  /\ attempt' = [attempt EXCEPT ![a] =
       [@ EXCEPT !.pc = "poll", !.wait = Interval, !.polls = 0]]
  /\ UNCHANGED <<bucket, videoUrl>>

\* Mutant: elapsed > delay.
isCompleteLate(a) == age[a] # None /\ age[a] > Delay

\* The provider has completed the job.
isComplete(a) == age[a] # None /\ age[a] >= Delay

\* Leave the loop with the url of a result.
Use(a, stored) ==
  attempt' = [attempt EXCEPT ![a] =
    [@ EXCEPT !.pc = IF stored THEN "complete" ELSE "download",
              !.stored = IF stored THEN FakeUrl(attempt[a].video) ELSE NoUrl,
              !.wait = 0, !.polls = 0]]

\* Mutant: completed jobs stay in the map.
PollKeepsJob(a) ==
  /\ At(a, "poll")
  /\ attempt[a].wait = 0
  /\ \/ /\ isComplete(a)
        /\ \E stored \in StoredAnswers : Use(a, stored)
     \/ /\ age[a] = None
        /\ Goto(a, "failed")
     \/ /\ age[a] # None /\ ~isComplete(a)
        /\ IF attempt[a].polls + 1 < MaxPolls
             THEN attempt' = [attempt EXCEPT ![a] =
                    [@ EXCEPT !.polls = attempt[a].polls + 1, !.wait = Interval]]
             ELSE Goto(a, "gaveUp")
  /\ UNCHANGED <<age, bucket, videoUrl>>

\* One turn of the loop.  checkStatus answers 'completed' and forgets the
\* job, 'failed' if it does not know it, or 'processing': then sleep again,
\* unless that was the last poll.
Poll(a) ==
  /\ At(a, "poll")
  /\ attempt[a].wait = 0
  /\ \/ /\ isComplete(a)
        /\ \E stored \in StoredAnswers : Use(a, stored)
        /\ age' = [age EXCEPT ![a] = None]
     \/ /\ age[a] = None
        /\ Goto(a, "failed")
        /\ UNCHANGED age
     \/ /\ age[a] # None /\ ~isComplete(a)
        /\ IF attempt[a].polls + 1 < MaxPolls
             THEN attempt' = [attempt EXCEPT ![a] =
                    [@ EXCEPT !.polls = attempt[a].polls + 1, !.wait = Interval]]
             ELSE Goto(a, "gaveUp")
        /\ UNCHANGED age
  /\ UNCHANGED <<bucket, videoUrl>>

\* downloadToBuffer: the whole body, an error or a status from 400 up, or,
\* as the request has no timeout, no end at all.
downloadToBuffer(a) ==
  /\ At(a, "download")
  /\ Goto(a, "put") \/ Goto(a, "failed") \/ Goto(a, "hung")
  /\ UNCHANGED <<age, bucket, videoUrl>>

\* The PUT succeeds: uploadBuffer returns the public url.
Uploaded(a) ==
  attempt' = [attempt EXCEPT ![a] =
    [@ EXCEPT !.pc = "complete", !.tries = 0,
              !.stored = getPublicUrl(Key(attempt[a].video))]]

\* Mutant: the error of the last try is swallowed.
withRetrySwallows(a) ==
  IF attempt[a].tries + 1 < MAX_RETRY_ATTEMPTS
    THEN attempt' = [attempt EXCEPT ![a].tries = @ + 1]
    ELSE Uploaded(a)

\* Mutant: one try too many.
withRetryOnceMore(a) ==
  IF attempt[a].tries < MAX_RETRY_ATTEMPTS
    THEN attempt' = [attempt EXCEPT ![a].tries = @ + 1]
    ELSE Goto(a, "failed")

\* Mutant: the count starts again instead of giving up.
withRetryForever(a) ==
  attempt' = [attempt EXCEPT ![a].tries = (@ + 1) % MAX_RETRY_ATTEMPTS]

\* The PUT fails: try again, or throw.
withRetry(a) ==
  IF attempt[a].tries + 1 < MAX_RETRY_ATTEMPTS
    THEN attempt' = [attempt EXCEPT ![a].tries = @ + 1]
    ELSE Goto(a, "failed")

\* uploadBuffer.  A PUT that failed may have stored the object all the same:
\* only its answer was lost.
uploadBuffer(a) ==
  /\ At(a, "put")
  /\ \/ /\ Uploaded(a)
        /\ bucket' = bucket \cup {Key(attempt[a].video)}
     \/ /\ withRetry(a)
        /\ bucket' \in {bucket, bucket \cup {Key(attempt[a].video)}}
  /\ UNCHANGED <<age, videoUrl>>

\* The row gets the url, if it is still PROCESSING.
Complete(a) ==
  /\ At(a, "complete")
  /\ videoUrl' \in {videoUrl, [videoUrl EXCEPT ![attempt[a].video] = attempt[a].stored]}
  /\ Goto(a, "done")
  /\ UNCHANGED <<age, bucket>>

\* A call to PostgreSQL or Redis fails: the provider's job is abandoned.
Fault(a) ==
  /\ attempt[a].pc \in {"enhance", "submit", "poll", "download", "complete"}
  /\ Goto(a, "failed")
  /\ UNCHANGED <<age, bucket, videoUrl>>

\* A process dies with its attempt and its map.
Crash(p) ==
  LET own == {a \in Attempts : attempt[a].process = p}
  IN  /\ \E a \in own : Running(a) \/ age[a] # None
      /\ attempt' = [a \in Attempts |->
           IF a \in own /\ Running(a)
             THEN [attempt[a] EXCEPT !.pc = "dead", !.wait = 0, !.polls = 0, !.tries = 0]
             ELSE attempt[a]]
      /\ age' = [a \in Attempts |-> IF a \in own THEN None ELSE age[a]]
      /\ UNCHANGED <<bucket, videoUrl>>

\* A tick.  (A bound: a job that has reached Delay does not grow older.)
Tick ==
  /\ \E a \in Attempts : attempt[a].wait > 0 \/ (age[a] # None /\ age[a] < Delay)
  /\ attempt' = [a \in Attempts |->
       IF attempt[a].wait > 0 THEN [attempt[a] EXCEPT !.wait = @ - 1] ELSE attempt[a]]
  /\ age' = [a \in Attempts |->
       IF age[a] # None /\ age[a] < Delay THEN age[a] + 1 ELSE age[a]]
  /\ UNCHANGED <<bucket, videoUrl>>

-----------------------------------------------------------------------------
Init ==
  /\ attempt  = [a \in Attempts |->
       [pc |-> "new", process |-> None, video |-> None, wait |-> 0,
        polls |-> 0, tries |-> 0, stored |-> NoUrl]]
  /\ age      = [a \in Attempts |-> None]
  /\ bucket   = {}
  /\ videoUrl = [v \in Videos |-> NoUrl]

\* The handler goes one await further.
Step(a) ==
  \/ enhancePrompt(a) \/ submit(a) \/ Poll(a)
  \/ downloadToBuffer(a) \/ uploadBuffer(a) \/ Complete(a)

Next ==
  \/ \E a \in Attempts :
       \/ Step(a) \/ Fault(a)
       \/ \E p \in Processes, v \in Videos : Begin(a, p, v)
  \/ \E p \in Processes : Crash(p)
  \/ Tick

Spec == Init /\ [][Next]_vars

\* Timers fire, and the event loop resumes handlers whose await settled.
FairSpec == Spec /\ WF_vars(Tick) /\ \A a \in Attempts : WF_vars(Step(a))

-----------------------------------------------------------------------------
(* Properties.                                                              *)

\* Every variable keeps its type; at most three tries of a PUT
\* (storage.service.ts:145).
TypeOK ==
  /\ attempt  \in [Attempts -> Attempt]
  /\ age      \in [Attempts -> 0..Delay \cup {None}]
  /\ bucket   \subseteq {Key(v) : v \in Videos}
  /\ videoUrl \in [Videos -> Urls]

\* "AI provider did not return a video" (video-generation.processor.ts:166) is
\* only ever said of a provider that needs more time than all polls leave it:
\* no crash, fault or attempt beside it makes an attempt give up, or find its
\* job gone.
GivesUpOnlyOnSlowProvider ==
  \A a \in Attempts :
    /\ At(a, "poll") => age[a] # None
    /\ At(a, "gaveUp") => MaxPolls * Interval < Delay

\* The provider's map (fake-video.provider.ts:81) keeps, beside the jobs being
\* polled, only jobs whose attempt failed before it read their result: it
\* grows with failures, not with the videos generated.
OnlyAbandonedJobsStay ==
  \A a \in Attempts :
    age[a] # None => attempt[a].pc \in {"poll", "failed", "gaveUp"}

\* The download a client is given is of an object that was stored: the key cut
\* from the url in the row is the key of the upload, "the S3 object key from a
\* full URL" (videos.service.ts:158), and the upload succeeded.  Urls of
\* providers that store the file themselves are not ours.
ResultFindsObject ==
  \A v \in Videos :
    videoUrl[v].host \in {"endpoint", "bucket"} => DownloadWorks(ResultKey(v))

\* Every attempt ends, whatever fails: only a download that never ends
\* (storage.service.ts:123 sets no timeout) can hold it for ever.
AttemptEnds ==
  \A a \in Attempts : Running(a) ~> (~Running(a) \/ At(a, "hung"))
=============================================================================
