-------------------------- MODULE GenerationProofs --------------------------
(***************************************************************************)
(* The safety properties of Generation, for every number of processes,     *)
(* videos and attempts, every interval, bound on polls and delay.          *)
(*                                                                         *)
(* Inv adds to them the clock argument (a poll never comes earlier than    *)
(* its interval after the one before, so age and wait together pay for all *)
(* polls so far) and where the url of an attempt comes from.               *)
(***************************************************************************)
EXTENDS Generation, SequenceTheorems, TLAPS

\* An attempt that polls has waited out every poll before.
Paid(a) ==
  At(a, "poll") =>
    /\ age[a] # None
    /\ age[a] < Delay =>
         age[a] + attempt[a].wait >= (attempt[a].polls + 1) * Interval

GaveUp(a) == At(a, "gaveUp") => MaxPolls * Interval < Delay

\* A url made by getPublicUrl stands for an object in the bucket.
Sound(url) ==
  url.host \in {"endpoint", "bucket"} =>
    \E v \in Videos : url = getPublicUrl(Key(v)) /\ Key(v) \in bucket

Begun(a) == Running(a) => attempt[a].process \in Processes /\ attempt[a].video \in Videos

AttemptInv(a) == Paid(a) /\ GaveUp(a) /\ Begun(a) /\ Sound(attempt[a].stored)

Inv ==
  /\ TypeOK
  /\ OnlyAbandonedJobsStay
  /\ \A a \in Attempts : AttemptInv(a)
  /\ \A v \in Videos : Sound(videoUrl[v])

USE IntervalAssumption, MaxPollsAssumption, DelayAssumption, AnswersAssumption,
    EndpointAssumption, AbsenceAssumption

-----------------------------------------------------------------------------
(* Urls.                                                                    *)

LEMMA UrlHosts ==
  /\ NoUrl.host = "none"
  /\ \A v : FakeUrl(v).host = "fake-cdn"
  /\ \A v : getPublicUrl(Key(v)).host \in {"endpoint", "bucket"}
BY DEF NoUrl, FakeUrl, getPublicUrl

LEMMA TailOfCons ==
  ASSUME NEW S, NEW x \in S, NEW key \in Seq(S)
  PROVE  Len(<<x>> \o key) = Len(key) + 1 /\ Tail(<<x>> \o key) = key
<1> DEFINE s == <<x>>
           t == s \o key
<1>1. s \in Seq(S) /\ Len(s) = 1
  OBVIOUS
<1> HIDE DEF s
<1>2. /\ t \in Seq(S) /\ Len(t) = Len(key) + 1
      /\ \A i \in 1..Len(key) : t[i + 1] = key[i]
  <2>1. /\ t \in Seq(S)
        /\ Len(t) = Len(s) + Len(key)
        /\ \A i \in 1..Len(s) + Len(key) :
             t[i] = IF i <= Len(s) THEN s[i] ELSE key[i - Len(s)]
    BY <1>1, ConcatProperties
  <2> HIDE DEF t
  <2>2. Len(key) \in Nat
    OBVIOUS
  <2>3. ASSUME NEW i \in 1..Len(key)
        PROVE  t[i + 1] = key[i]
    <3>1. i + 1 \in 1..Len(s) + Len(key) /\ ~(i + 1 <= Len(s)) /\ (i + 1) - Len(s) = i
      BY <1>1, <2>2
    <3> QED
      BY <2>1, <3>1
  <2> QED
    BY <1>1, <2>1, <2>2, <2>3
<1> HIDE DEF t
<1>3. t # << >>
  BY <1>2
<1>4. /\ Tail(t) \in Seq(S) /\ Len(Tail(t)) = Len(key)
      /\ \A i \in 1..Len(key) : Tail(t)[i] = t[i + 1]
  BY <1>2, <1>3, HeadTailProperties
<1>5. Tail(t) = key
  BY <1>2, <1>4, SeqEqual
<1> QED
  BY <1>2, <1>5 DEF s, t

\* Under an endpoint the key is cut from the url as it was put in.
LEMMA KeyRoundTrip ==
  ASSUME Endpoint, NEW v
  PROVE  extractS3Key(getPublicUrl(Key(v))) = Key(v)
<1> DEFINE path == <<"bucket">> \o Key(v)
           url == getPublicUrl(Key(v))
<1>1. Key(v) \in Seq({"bucket", "videos", "output.mp4", v}) /\ Len(Key(v)) = 3
  BY DEF Key
<1>2. Len(path) = 4 /\ Tail(path) = Key(v)
  <2> HIDE DEF path
  <2>1. Len(path) = Len(Key(v)) + 1 /\ Tail(path) = Key(v)
    BY <1>1, TailOfCons DEF path
  <2> QED
    BY <1>1, <2>1
<1>3. url.path = path
  BY DEF getPublicUrl
<1>4. extractS3Key(url) = Tail(url.path)
  <2> HIDE DEF url, path
  <2> QED
    BY <1>2, <1>3 DEF extractS3Key
<1> QED
  BY <1>2, <1>3, <1>4

LEMMA UrlTypes ==
  /\ NoUrl \in Urls
  /\ \A v \in Videos : FakeUrl(v) \in Urls /\ getPublicUrl(Key(v)) \in Urls
BY DEF Urls

\* More objects in the bucket, same or fewer urls: still sound.
LEMMA SoundStays ==
  ASSUME NEW url, Sound(url), bucket \subseteq bucket'
  PROVE  Sound(url)'
BY DEF Sound

-----------------------------------------------------------------------------
LEMMA InitInv == Init => Inv
<1> SUFFICES ASSUME Init PROVE Inv
  OBVIOUS
<1>1. TypeOK
  BY UrlTypes DEF Init, TypeOK, Attempt, AttemptPc, RunningPc, MAX_RETRY_ATTEMPTS
<1>2. \A a \in Attempts : AttemptInv(a)
  BY UrlHosts DEF Init, AttemptInv, Paid, GaveUp, Begun, Sound, At, Running, RunningPc
<1>3. \A v \in Videos : Sound(videoUrl[v])
  BY UrlHosts DEF Init, Sound
<1>4. OnlyAbandonedJobsStay
  BY DEF Init, OnlyAbandonedJobsStay
<1> QED
  BY <1>1, <1>2, <1>3, <1>4 DEF Inv

LEMMA Zeros ==
  /\ 0 \in 0..Interval /\ Interval \in 0..Interval
  /\ 0 \in 0..(MaxPolls - 1)
  /\ 0 \in 0..(MAX_RETRY_ATTEMPTS - 1)
  /\ 0 \in 0..Delay
BY DEF MAX_RETRY_ATTEMPTS

\* The fields of a record that is an attempt.
LEMMA AttemptFields ==
  ASSUME Inv, NEW a \in Attempts
  PROVE  /\ attempt[a] \in Attempt
         /\ attempt[a].process \in Processes \cup {None}
         /\ attempt[a].video \in Videos \cup {None}
         /\ attempt[a].wait \in 0..Interval
         /\ attempt[a].polls \in 0..(MaxPolls - 1)
         /\ attempt[a].tries \in 0..(MAX_RETRY_ATTEMPTS - 1)
         /\ attempt[a].stored \in Urls
         /\ age[a] \in 0..Delay \cup {None}
<1>1. attempt[a] \in Attempt /\ age[a] \in 0..Delay \cup {None}
  BY DEF Inv, TypeOK
<1> QED
  BY <1>1 DEF Attempt

\* What is left to show of an action in which only attempt a acts.
LEMMA OneActs ==
  ASSUME Inv,
         NEW a \in Attempts, NEW r \in Attempt, NEW g \in 0..Delay \cup {None},
         attempt' = [attempt EXCEPT ![a] = r],
         age' = [age EXCEPT ![a] = g],
         bucket \subseteq bucket',
         bucket' \subseteq {Key(v) : v \in Videos},
         videoUrl' \in [Videos -> Urls],
         \A v \in Videos : Sound(videoUrl[v])',
         AttemptInv(a)',
         g # None => r.pc \in {"poll", "failed", "gaveUp"}
  PROVE  Inv'
<1>1. TypeOK'
  BY DEF Inv, TypeOK
<1>2. \A b \in Attempts :
        b # a => attempt'[b] = attempt[b] /\ age'[b] = age[b]
  BY DEF Inv, TypeOK
<1>3. attempt'[a] = r /\ age'[a] = g
  BY DEF Inv, TypeOK
<1>4. OnlyAbandonedJobsStay'
  BY <1>2, <1>3 DEF Inv, OnlyAbandonedJobsStay
<1>5. ASSUME NEW b \in Attempts, b # a
      PROVE  AttemptInv(b)'
  <2>1. AttemptInv(b)
    BY DEF Inv
  <2>2. Sound(attempt[b].stored)'
    BY <1>2, <1>5, <2>1 DEF AttemptInv, Sound
  <2> QED
    BY <1>2, <1>5, <2>1, <2>2
    DEF AttemptInv, Paid, GaveUp, Begun, At, Running
<1> QED
  BY <1>1, <1>4, <1>5 DEF Inv

\* The same when bucket, rows and the provider's map are left alone and the
\* attempt does not poll.
LEMMA OneMoves ==
  ASSUME Inv,
         NEW a \in Attempts, NEW r \in Attempt,
         attempt' = [attempt EXCEPT ![a] = r],
         UNCHANGED <<age, bucket, videoUrl>>,
         r.pc # "poll",
         r.pc = "gaveUp" => MaxPolls * Interval < Delay,
         r.pc \in RunningPc => r.process \in Processes /\ r.video \in Videos,
         age[a] # None => r.pc \in {"failed", "gaveUp"},
         Sound(r.stored)
  PROVE  Inv'
<1>1. attempt'[a] = r /\ age' = [age EXCEPT ![a] = age[a]]
  BY DEF Inv, TypeOK
<1>2. age[a] \in 0..Delay \cup {None}
  BY DEF Inv, TypeOK
<1>3. AttemptInv(a)'
  BY <1>1 DEF AttemptInv, Paid, GaveUp, Begun, Sound, At, Running
<1>4. \A v \in Videos : Sound(videoUrl[v])'
  BY DEF Inv, Sound
<1> QED
  BY <1>1, <1>2, <1>3, <1>4, OneActs DEF Inv, TypeOK

-----------------------------------------------------------------------------
(* One lemma per action.                                                    *)

LEMMA BeginStep ==
  ASSUME Inv, NEW a \in Attempts, NEW p \in Processes, NEW v \in Videos, Begin(a, p, v)
  PROVE  Inv'
<1> DEFINE r == [attempt[a] EXCEPT !.pc = "enhance", !.process = p, !.video = v]
<1>1. r \in Attempt /\ r.pc = "enhance" /\ r.process = p /\ r.video = v
      /\ r.stored = attempt[a].stored
  BY AttemptFields DEF Attempt, AttemptPc, RunningPc
<1>2. attempt' = [attempt EXCEPT ![a] = r]
  BY DEF Begin
<1>3. age[a] = None
  BY DEF Begin, At, Inv, OnlyAbandonedJobsStay
<1>4. Sound(r.stored)
  BY <1>1 DEF Inv, AttemptInv
<1> HIDE DEF r
<1> QED
  BY <1>1, <1>2, <1>3, <1>4, OneMoves DEF Begin

\* An attempt goes to a pc behind the loop, its url in hand.
LEMMA GotoStep ==
  ASSUME Inv, NEW a \in Attempts,
         NEW pc \in {"submit", "put", "failed", "gaveUp", "hung"},
         Goto(a, pc),
         UNCHANGED <<age, bucket, videoUrl>>,
         Running(a),
         pc = "gaveUp" => MaxPolls * Interval < Delay,
         age[a] # None => pc \in {"failed", "gaveUp"}
  PROVE  Inv'
<1> DEFINE r == [attempt[a] EXCEPT !.pc = pc, !.wait = 0, !.polls = 0, !.tries = 0]
<1>1. r \in Attempt /\ r.pc = pc /\ r.process = attempt[a].process
      /\ r.video = attempt[a].video /\ r.stored = attempt[a].stored
  BY AttemptFields, Zeros DEF Attempt, AttemptPc, RunningPc
<1>2. attempt' = [attempt EXCEPT ![a] = r]
  BY DEF Goto
<1>3. Sound(r.stored) /\ r.process \in Processes /\ r.video \in Videos
  BY <1>1 DEF Inv, AttemptInv, Begun
<1> HIDE DEF r
<1> QED
  BY <1>1, <1>2, <1>3, OneMoves

LEMMA SubmitStep ==
  ASSUME Inv, NEW a \in Attempts, submit(a)
  PROVE  Inv'
<1> DEFINE r == [attempt[a] EXCEPT !.pc = "poll", !.wait = Interval, !.polls = 0]
<1>1. /\ r \in Attempt /\ r.pc = "poll" /\ r.wait = Interval
      /\ r.polls = 0 /\ r.process = attempt[a].process
      /\ r.video = attempt[a].video /\ r.stored = attempt[a].stored
  BY AttemptFields, Zeros DEF Attempt, AttemptPc, RunningPc
<1>2. attempt' = [attempt EXCEPT ![a] = r] /\ age' = [age EXCEPT ![a] = 0]
      /\ UNCHANGED <<bucket, videoUrl>>
  BY DEF submit
<1> HIDE DEF r
<1>3. attempt'[a] = r /\ age'[a] = 0
  BY <1>2 DEF Inv, TypeOK
<1>4. Running(a)
  BY DEF submit, At, Running, RunningPc
<1>5. Paid(a)'
  BY <1>1, <1>3 DEF Paid, At
<1>6. Sound(attempt[a].stored)' /\ \A v \in Videos : Sound(videoUrl[v])'
  BY <1>1, <1>2, <1>3 DEF Inv, AttemptInv, Sound
<1>7. AttemptInv(a)'
  BY <1>1, <1>3, <1>4, <1>5, <1>6
  DEF Inv, AttemptInv, GaveUp, Begun, At, Running, RunningPc
<1>8. bucket' \subseteq {Key(v) : v \in Videos} /\ videoUrl' \in [Videos -> Urls]
  BY <1>2 DEF Inv, TypeOK
<1>9. 0 \in 0..Delay \cup {None}
  BY Zeros
<1> QED
  BY <1>1, <1>2, <1>6, <1>7, <1>8, <1>9, OneActs

\* One more poll is one more interval.
LEMMA OneMoreInterval ==
  ASSUME NEW n \in Nat
  PROVE  (n + 1 + 1) * Interval = (n + 1) * Interval + Interval
BY DEF IntervalAssumption

LEMMA PollStep ==
  ASSUME Inv, NEW a \in Attempts, Poll(a)
  PROVE  Inv'
<1>0. /\ Running(a) /\ attempt[a].pc = "poll" /\ attempt[a].wait = 0
      /\ attempt[a].process \in Processes /\ attempt[a].video \in Videos
      /\ age[a] \in 0..Delay
      /\ age[a] < Delay => age[a] >= (attempt[a].polls + 1) * Interval
  <2>1. Running(a) /\ attempt[a].pc = "poll" /\ attempt[a].wait = 0
    BY DEF Poll, At, Running, RunningPc
  <2>2. Paid(a) /\ Begun(a)
    BY DEF Inv, AttemptInv
  <2>3. age[a] \in 0..Delay
    BY <2>1, <2>2, AttemptFields DEF Paid, At
  <2>4. attempt[a].polls \in Nat /\ age[a] \in Nat
    BY <2>3, AttemptFields
  <2>5. age[a] < Delay => age[a] >= (attempt[a].polls + 1) * Interval
    BY <2>1, <2>2, <2>4 DEF Paid, At
  <2> QED
    BY <2>1, <2>2, <2>3, <2>5 DEF Begun
<1>1. /\ UNCHANGED <<bucket, videoUrl>>
      /\ bucket' \subseteq {Key(v) : v \in Videos} /\ videoUrl' \in [Videos -> Urls]
      /\ \A v \in Videos : Sound(videoUrl[v])'
  BY DEF Poll, Inv, TypeOK, Sound
<1>2. CASE isComplete(a)
  <2>1. PICK stored \in StoredAnswers : Use(a, stored) /\ age' = [age EXCEPT ![a] = None]
    BY <1>0, <1>2 DEF Poll, isComplete
  <2> DEFINE pc == IF stored THEN "complete" ELSE "download"
             url == IF stored THEN FakeUrl(attempt[a].video) ELSE NoUrl
             r == [attempt[a] EXCEPT !.pc = pc, !.stored = url, !.wait = 0, !.polls = 0]
  <2>2. pc \in {"complete", "download"} /\ url \in Urls
        /\ url.host \notin {"endpoint", "bucket"}
    BY <1>0, UrlTypes, UrlHosts
  <2>3. attempt' = [attempt EXCEPT ![a] = r]
    BY <2>1 DEF Use
  <2> HIDE DEF pc, url
  <2>4. /\ r \in Attempt /\ r.pc = pc /\ r.stored = url
        /\ r.process = attempt[a].process /\ r.video = attempt[a].video
    BY <2>2, AttemptFields, Zeros DEF Attempt, AttemptPc, RunningPc
  <2> HIDE DEF r
  <2>5. attempt'[a] = r /\ age'[a] = None
    BY <2>1, <2>3 DEF Inv, TypeOK
  <2>6. AttemptInv(a)'
    BY <1>0, <2>2, <2>4, <2>5
    DEF AttemptInv, Paid, GaveUp, Begun, Sound, At, Running, RunningPc
  <2> QED
    BY <1>1, <2>1, <2>3, <2>4, <2>6, OneActs
<1>3. CASE ~isComplete(a)
  <2>1. age[a] # None /\ age[a] < Delay
    BY <1>0, <1>3, AbsenceAssumption DEF isComplete
  <2>0. /\ UNCHANGED age
        /\ IF attempt[a].polls + 1 < MaxPolls
             THEN attempt' = [attempt EXCEPT ![a] =
                    [@ EXCEPT !.polls = attempt[a].polls + 1, !.wait = Interval]]
             ELSE Goto(a, "gaveUp")
    BY <1>3, <2>1 DEF Poll
  <2>2. attempt[a].polls \in Nat /\ attempt[a].polls < MaxPolls
    BY AttemptFields
  <2>3. CASE attempt[a].polls + 1 < MaxPolls
    <3> DEFINE r == [attempt[a] EXCEPT !.polls = attempt[a].polls + 1, !.wait = Interval]
    <3>1. attempt' = [attempt EXCEPT ![a] = r]
      BY <2>0, <2>3
    <3>2. attempt[a].polls + 1 \in 0..(MaxPolls - 1)
      BY <2>2, <2>3
    <3>3. /\ r \in Attempt /\ r.pc = "poll" /\ r.wait = Interval
          /\ r.polls = attempt[a].polls + 1 /\ r.stored = attempt[a].stored
          /\ r.process = attempt[a].process /\ r.video = attempt[a].video
      BY <1>0, <3>2, AttemptFields, Zeros DEF Attempt
    <3> HIDE DEF r
    <3>4. attempt'[a] = r /\ age'[a] = age[a] /\ age' = [age EXCEPT ![a] = age[a]]
      BY <2>0, <3>1 DEF Inv, TypeOK
    <3>5. age[a] + Interval >= (r.polls + 1) * Interval
      <4>1. age[a] >= (attempt[a].polls + 1) * Interval
        BY <1>0, <2>1
      <4>2. (r.polls + 1) * Interval = (attempt[a].polls + 1) * Interval + Interval
        BY <2>2, <3>3, OneMoreInterval
      <4>3. (attempt[a].polls + 1) * Interval \in Nat /\ age[a] \in Nat
        BY <1>0, <2>2
      <4> QED
        BY <4>1, <4>2, <4>3
    <3>6. Paid(a)'
      BY <1>0, <2>1, <3>3, <3>4, <3>5 DEF Paid, At
    <3>7. Sound(attempt[a].stored)'
      BY <1>1, <3>3, <3>4 DEF Inv, AttemptInv, Sound
    <3>8. AttemptInv(a)'
      BY <1>0, <3>3, <3>4, <3>6, <3>7 DEF AttemptInv, GaveUp, Begun, At
    <3>9. age[a] \in 0..Delay \cup {None}
      BY <1>0
    <3> QED
      BY <1>1, <3>1, <3>3, <3>4, <3>8, <3>9, OneActs
  <2>4. CASE ~(attempt[a].polls + 1 < MaxPolls)
    <3>1. Goto(a, "gaveUp")
      BY <2>0, <2>4
    <3>2. attempt[a].polls + 1 = MaxPolls
      BY <2>2, <2>4
    <3>3. MaxPolls * Interval < Delay
      BY <1>0, <2>1, <3>2
    <3> QED
      BY <1>0, <1>1, <2>0, <3>1, <3>3, GotoStep
  <2> QED
    BY <2>3, <2>4
<1> QED
  BY <1>2, <1>3

\* The object of a begun attempt is one of those the bucket may hold.
LEMMA UploadStep ==
  ASSUME Inv, NEW a \in Attempts, uploadBuffer(a)
  PROVE  Inv'
<1> DEFINE v == attempt[a].video
           url == getPublicUrl(Key(v))
<1>1. /\ At(a, "put") /\ Running(a) /\ UNCHANGED <<age, videoUrl>>
      /\ v \in Videos /\ attempt[a].process \in Processes
  BY DEF uploadBuffer, At, Running, RunningPc, Inv, AttemptInv, Begun
<1>2. age[a] = None
  BY <1>1 DEF At, Inv, OnlyAbandonedJobsStay
<1>3. /\ bucket \subseteq bucket'
      /\ bucket' \subseteq {Key(w) : w \in Videos} /\ videoUrl' \in [Videos -> Urls]
      /\ \A w \in Videos : Sound(videoUrl[w])'
  <2>1. bucket' \in {bucket, bucket \cup {Key(v)}}
    BY DEF uploadBuffer
  <2>2. bucket \subseteq bucket' /\ bucket' \subseteq {Key(w) : w \in Videos}
        /\ videoUrl' \in [Videos -> Urls]
    BY <1>1, <2>1 DEF Inv, TypeOK
  <2>3. ASSUME NEW w \in Videos PROVE Sound(videoUrl[w])'
    <3>1. Sound(videoUrl[w])
      BY DEF Inv
    <3> QED
      BY <1>1, <2>2, <3>1 DEF Sound
  <2> QED
    BY <2>2, <2>3
<1>4. age' = [age EXCEPT ![a] = None]
  BY <1>1, <1>2 DEF Inv, TypeOK
<1>5. ASSUME Uploaded(a), bucket' = bucket \cup {Key(v)}
      PROVE  Inv'
  <2> DEFINE r == [attempt[a] EXCEPT !.pc = "complete", !.tries = 0, !.stored = url]
  <2>1. attempt' = [attempt EXCEPT ![a] = r]
    BY <1>5 DEF Uploaded
  <2>2. url \in Urls
    BY <1>1, UrlTypes
  <2> HIDE DEF url
  <2>3. /\ r \in Attempt /\ r.pc = "complete" /\ r.stored = url
        /\ r.process = attempt[a].process /\ r.video = v
    BY <2>2, AttemptFields, Zeros DEF Attempt, AttemptPc, RunningPc
  <2> HIDE DEF r
  <2>4. attempt'[a] = r /\ age'[a] = None
    BY <1>4, <2>1 DEF Inv, TypeOK
  <2>5. Sound(attempt[a].stored)'
    BY <1>1, <1>5, <2>3, <2>4 DEF Sound, url
  <2>6. AttemptInv(a)'
    BY <1>1, <2>3, <2>4, <2>5 DEF AttemptInv, Paid, GaveUp, Begun, At
  <2> QED
    BY <1>3, <1>4, <2>1, <2>3, <2>6, OneActs
<1>6. ASSUME NEW r \in Attempt, attempt' = [attempt EXCEPT ![a] = r],
             r.pc \in {"put", "failed"}, r.stored = attempt[a].stored,
             r.process = attempt[a].process, r.video = v
      PROVE  Inv'
  <2>1. attempt'[a] = r
    BY <1>6 DEF Inv, TypeOK
  <2>2. Sound(attempt[a].stored)'
    BY <1>3, <1>6, <2>1 DEF Inv, AttemptInv, Sound
  <2>3. AttemptInv(a)'
    BY <1>1, <1>6, <2>1, <2>2 DEF AttemptInv, Paid, GaveUp, Begun, At
  <2> QED
    BY <1>3, <1>4, <1>6, <2>3, OneActs
<1>7. ASSUME withRetry(a)
      PROVE  Inv'
  <2>1. CASE attempt[a].tries + 1 < MAX_RETRY_ATTEMPTS
    <3> DEFINE r == [attempt[a] EXCEPT !.tries = attempt[a].tries + 1]
    <3>1. attempt' = [attempt EXCEPT ![a] = r]
      <4>1. attempt' = [attempt EXCEPT ![a].tries = attempt[a].tries + 1]
        BY <1>7, <2>1 DEF withRetry
      <4> QED
        BY <4>1 DEF Inv, TypeOK
    <3>2. attempt[a].tries + 1 \in 0..(MAX_RETRY_ATTEMPTS - 1)
      BY <2>1, AttemptFields DEF MAX_RETRY_ATTEMPTS
    <3>3. /\ r \in Attempt /\ r.pc = "put" /\ r.stored = attempt[a].stored
          /\ r.process = attempt[a].process /\ r.video = v
      BY <1>1, <3>2, AttemptFields DEF Attempt, At
    <3> QED
      BY <1>6, <3>1, <3>3
  <2>2. CASE ~(attempt[a].tries + 1 < MAX_RETRY_ATTEMPTS)
    <3> DEFINE r == [attempt[a] EXCEPT !.pc = "failed", !.wait = 0, !.polls = 0, !.tries = 0]
    <3>1. attempt' = [attempt EXCEPT ![a] = r]
      BY <1>7, <2>2 DEF withRetry, Goto
    <3>2. /\ r \in Attempt /\ r.pc = "failed" /\ r.stored = attempt[a].stored
          /\ r.process = attempt[a].process /\ r.video = v
      BY AttemptFields, Zeros DEF Attempt, AttemptPc
    <3> QED
      BY <1>6, <3>1, <3>2
  <2> QED
    BY <2>1, <2>2
<1> QED
  BY <1>5, <1>7 DEF uploadBuffer

LEMMA CompleteStep ==
  ASSUME Inv, NEW a \in Attempts, Complete(a)
  PROVE  Inv'
<1> DEFINE r == [attempt[a] EXCEPT !.pc = "done", !.wait = 0, !.polls = 0, !.tries = 0]
<1>1. /\ r \in Attempt /\ r.pc = "done" /\ r.stored = attempt[a].stored
  BY AttemptFields, Zeros DEF Attempt, AttemptPc
<1>2. attempt' = [attempt EXCEPT ![a] = r] /\ UNCHANGED <<age, bucket>>
      /\ At(a, "complete")
      /\ videoUrl' \in {videoUrl, [videoUrl EXCEPT ![attempt[a].video] = attempt[a].stored]}
  BY DEF Complete, Goto
<1> HIDE DEF r
<1>3. age[a] = None /\ attempt'[a] = r /\ age' = [age EXCEPT ![a] = None]
  BY <1>2 DEF At, Inv, TypeOK, OnlyAbandonedJobsStay
<1>4. attempt[a].video \in Videos /\ Sound(attempt[a].stored) /\ attempt[a].stored \in Urls
  BY <1>2, AttemptFields DEF Inv, AttemptInv, Begun, At, Running, RunningPc
<1>5. videoUrl' \in [Videos -> Urls] /\ bucket' \subseteq {Key(v) : v \in Videos}
  BY <1>2, <1>4 DEF Inv, TypeOK
<1>6. ASSUME NEW v \in Videos PROVE Sound(videoUrl[v])'
  <2>1. videoUrl'[v] = videoUrl[v] \/ videoUrl'[v] = attempt[a].stored
    BY <1>2 DEF Inv, TypeOK
  <2>2. Sound(videoUrl[v])
    BY DEF Inv
  <2> QED
    BY <1>2, <1>4, <2>1, <2>2 DEF Sound
<1>7. AttemptInv(a)'
  BY <1>1, <1>2, <1>3, <1>4
  DEF AttemptInv, Paid, GaveUp, Begun, Sound, At, Running, RunningPc
<1> QED
  BY <1>1, <1>2, <1>3, <1>5, <1>6, <1>7, OneActs

LEMMA CrashStep ==
  ASSUME Inv, NEW p \in Processes, Crash(p)
  PROVE  Inv'
<1> DEFINE own == {a \in Attempts : attempt[a].process = p}
           dead(a) == [attempt[a] EXCEPT !.pc = "dead", !.wait = 0, !.polls = 0, !.tries = 0]
<1>1. /\ attempt' = [a \in Attempts |->
            IF a \in own /\ Running(a) THEN dead(a) ELSE attempt[a]]
      /\ age' = [a \in Attempts |-> IF a \in own THEN None ELSE age[a]]
      /\ UNCHANGED <<bucket, videoUrl>>
  BY DEF Crash
<1>2. ASSUME NEW a \in Attempts
      PROVE  /\ dead(a) \in Attempt /\ dead(a).pc = "dead"
             /\ dead(a).stored = attempt[a].stored
  BY AttemptFields, Zeros DEF Attempt, AttemptPc
<1> HIDE DEF dead
<1>3. TypeOK'
  BY <1>1, <1>2, AttemptFields DEF Inv, TypeOK
<1>4. ASSUME NEW a \in Attempts
      PROVE  /\ \/ attempt'[a] = attempt[a] /\ (a \in own => ~Running(a))
                \/ attempt'[a] = dead(a) /\ a \in own
             /\ age'[a] = IF a \in own THEN None ELSE age[a]
  BY <1>1
<1>5. ASSUME NEW a \in Attempts
      PROVE  AttemptInv(a)'
  <2>1. AttemptInv(a)
    BY DEF Inv
  <2>2. Sound(attempt[a].stored)'
    BY <1>1, <1>2, <1>4, <2>1 DEF AttemptInv, Sound
  <2>3. CASE attempt'[a] = attempt[a] /\ (a \in own => ~Running(a))
    BY <1>4, <2>1, <2>2, <2>3
    DEF AttemptInv, Paid, GaveUp, Begun, At, Running, RunningPc
  <2>4. CASE attempt'[a] = dead(a) /\ a \in own
    BY <1>2, <2>2, <2>4 DEF AttemptInv, Paid, GaveUp, Begun, At, Running, RunningPc
  <2> QED
    BY <1>4, <2>3, <2>4
<1>6. OnlyAbandonedJobsStay'
  BY <1>4 DEF Inv, OnlyAbandonedJobsStay
<1>7. \A v \in Videos : Sound(videoUrl[v])'
  BY <1>1 DEF Inv, Sound
<1> QED
  BY <1>3, <1>5, <1>6, <1>7 DEF Inv

\* A tick takes from wait at most what it gives to age.
LEMMA TickStep ==
  ASSUME Inv, Tick
  PROVE  Inv'
<1> DEFINE rested(a) == [attempt[a] EXCEPT !.wait = attempt[a].wait - 1]
<1>1. /\ attempt' = [a \in Attempts |->
            IF attempt[a].wait > 0 THEN rested(a) ELSE attempt[a]]
      /\ age' = [a \in Attempts |->
            IF age[a] # None /\ age[a] < Delay THEN age[a] + 1 ELSE age[a]]
      /\ UNCHANGED <<bucket, videoUrl>>
  BY DEF Tick
<1>2. ASSUME NEW a \in Attempts, attempt[a].wait > 0
      PROVE  /\ rested(a) \in Attempt
             /\ rested(a).pc = attempt[a].pc /\ rested(a).stored = attempt[a].stored
             /\ rested(a).process = attempt[a].process
             /\ rested(a).video = attempt[a].video
             /\ rested(a).polls = attempt[a].polls
             /\ rested(a).wait = attempt[a].wait - 1
  <2>1. attempt[a].wait - 1 \in 0..Interval
    BY <1>2, AttemptFields
  <2> QED
    BY <2>1, AttemptFields DEF Attempt
<1> HIDE DEF rested
<1>3. ASSUME NEW a \in Attempts
      PROVE  /\ attempt'[a] = IF attempt[a].wait > 0 THEN rested(a) ELSE attempt[a]
             /\ age'[a] = IF age[a] # None /\ age[a] < Delay THEN age[a] + 1 ELSE age[a]
  BY <1>1
<1>4. ASSUME NEW a \in Attempts
      PROVE  /\ attempt'[a] \in Attempt
             /\ attempt'[a].pc = attempt[a].pc
             /\ attempt'[a].stored = attempt[a].stored
             /\ attempt'[a].process = attempt[a].process
             /\ attempt'[a].video = attempt[a].video
             /\ attempt'[a].polls = attempt[a].polls
             /\ attempt'[a].wait >= attempt[a].wait - 1
  BY <1>2, <1>3, AttemptFields
<1>5. ASSUME NEW a \in Attempts
      PROVE  /\ age'[a] \in 0..Delay \cup {None}
             /\ age[a] = None <=> age'[a] = None
             /\ age[a] # None /\ age[a] < Delay => age'[a] = age[a] + 1
             /\ age[a] # None /\ ~(age[a] < Delay) => age'[a] = age[a]
  BY <1>3, AttemptFields, AbsenceAssumption
<1>6. TypeOK'
  <2>1. attempt' \in [Attempts -> Attempt]
    BY <1>1, <1>4
  <2>2. age' \in [Attempts -> 0..Delay \cup {None}]
    BY <1>1, <1>5
  <2> QED
    BY <1>1, <2>1, <2>2 DEF Inv, TypeOK
<1>7. ASSUME NEW a \in Attempts
      PROVE  AttemptInv(a)'
  <2>1. AttemptInv(a)
    BY DEF Inv
  <2>2. Paid(a)'
    <3>1. SUFFICES ASSUME attempt[a].pc = "poll", age'[a] < Delay
                   PROVE  age'[a] + attempt'[a].wait >= (attempt[a].polls + 1) * Interval
      BY <1>4, <1>5, <2>1 DEF AttemptInv, Paid, At
    <3>2. age[a] # None /\ age[a] \in Nat
      BY <2>1, <3>1, AttemptFields DEF AttemptInv, Paid, At
    <3>3. age[a] < Delay /\ age'[a] = age[a] + 1
      BY <1>5, <3>1, <3>2
    <3>4. age[a] + attempt[a].wait >= (attempt[a].polls + 1) * Interval
      BY <2>1, <3>1, <3>3 DEF AttemptInv, Paid, At
    <3>5. attempt[a].polls \in Nat /\ attempt[a].wait \in Nat /\ attempt'[a].wait \in Nat
      BY <1>4, AttemptFields DEF Attempt
    <3>6. (attempt[a].polls + 1) * Interval \in Nat
      BY <3>5
    <3> QED
      BY <1>4, <3>2, <3>3, <3>4, <3>5, <3>6
  <2>3. Sound(attempt[a].stored)'
    BY <1>1, <1>4, <2>1 DEF AttemptInv, Sound
  <2> QED
    BY <1>4, <2>1, <2>2, <2>3 DEF AttemptInv, GaveUp, Begun, At, Running
<1>8. OnlyAbandonedJobsStay'
  BY <1>4, <1>5 DEF Inv, OnlyAbandonedJobsStay
<1>9. \A v \in Videos : Sound(videoUrl[v])'
  BY <1>1 DEF Inv, Sound
<1> QED
  BY <1>6, <1>7, <1>8, <1>9 DEF Inv

-----------------------------------------------------------------------------
LEMMA NextInv == Inv /\ [Next]_vars => Inv'
<1> SUFFICES ASSUME Inv, [Next]_vars PROVE Inv'
  OBVIOUS
<1>1. ASSUME NEW a \in Attempts, enhancePrompt(a)
      PROVE  Inv'
  <2>1. Running(a) /\ age[a] = None
    BY <1>1 DEF enhancePrompt, At, Running, RunningPc, Inv, OnlyAbandonedJobsStay
  <2> QED
    BY <1>1, <2>1, GotoStep DEF enhancePrompt
<1>2. ASSUME NEW a \in Attempts, downloadToBuffer(a)
      PROVE  Inv'
  <2>1. Running(a) /\ age[a] = None
    BY <1>2 DEF downloadToBuffer, At, Running, RunningPc, Inv, OnlyAbandonedJobsStay
  <2>2. PICK pc \in {"put", "failed", "hung"} : Goto(a, pc)
    BY <1>2 DEF downloadToBuffer
  <2> QED
    BY <1>2, <2>1, <2>2, GotoStep DEF downloadToBuffer
<1>3. ASSUME NEW a \in Attempts, Fault(a)
      PROVE  Inv'
  <2>1. Running(a)
    BY <1>3 DEF Fault, Running, RunningPc
  <2> QED
    BY <1>3, <2>1, GotoStep DEF Fault
<1>4. ASSUME NEW a \in Attempts, Step(a)
      PROVE  Inv'
  BY <1>1, <1>2, <1>4, SubmitStep, PollStep, UploadStep, CompleteStep DEF Step
<1>5. CASE UNCHANGED vars
  BY <1>5
  DEF vars, Inv, TypeOK, OnlyAbandonedJobsStay, AttemptInv, Paid, GaveUp, Begun,
      Sound, At, Running
<1>6. CASE Next
  BY <1>3, <1>4, <1>6, BeginStep, CrashStep, TickStep DEF Next
<1> QED
  BY <1>5, <1>6

LEMMA Invariance == Spec => []Inv
BY InitInv, NextInv, PTL DEF Spec

-----------------------------------------------------------------------------
(* Theorems.                                                                *)

\* Every variable keeps its type (columns, locals of the handler, the map of
\* FakeVideoProvider), in every instance.
THEOREM GenerationTypeCorrect == Spec => []TypeOK
<1>1. Inv => TypeOK
  BY DEF Inv
<1> QED
  BY <1>1, Invariance, PTL

\* An attempt gives up, in the throw behind the poll loop
\* (video-generation.processor.ts:166), only on a provider that needs more
\* than MaxPolls intervals, and no poll finds its job gone.
THEOREM GivesUpRightly == Spec => []GivesUpOnlyOnSlowProvider
<1>1. Inv => GivesUpOnlyOnSlowProvider
  BY DEF Inv, AttemptInv, Paid, GaveUp, GivesUpOnlyOnSlowProvider
<1> QED
  BY <1>1, Invariance, PTL

\* The map of FakeVideoProvider grows with failed attempts only.
THEOREM MapHoldsFailuresOnly == Spec => []OnlyAbandonedJobsStay
<1>1. Inv => OnlyAbandonedJobsStay
  BY DEF Inv
<1> QED
  BY <1>1, Invariance, PTL

\* With an endpoint configured, the key extractS3Key cuts from a url of
\* getPublicUrl is that of an object whose PUT was confirmed.
THEOREM ResultIsThere == ASSUME Endpoint PROVE Spec => []ResultFindsObject
<1>1. Inv => ResultFindsObject
  <2> SUFFICES ASSUME Inv, NEW v \in Videos, videoUrl[v].host \in {"endpoint", "bucket"}
               PROVE  DownloadWorks(ResultKey(v))
    BY DEF ResultFindsObject
  <2>1. PICK w \in Videos : videoUrl[v] = getPublicUrl(Key(w)) /\ Key(w) \in bucket
    BY DEF Inv, Sound
  <2>2. ResultKey(v) = Key(w)
    BY <2>1, KeyRoundTrip DEF ResultKey
  <2> QED
    BY <2>1, <2>2 DEF DownloadWorks
<1> QED
  BY <1>1, Invariance, PTL
=============================================================================
