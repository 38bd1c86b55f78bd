--------------------------- MODULE VideoFeedProofs ---------------------------
(***************************************************************************)
(* What holds of VideoFeed for every number of clients and processes.      *)
(*                                                                         *)
(* First, the composition only adds to the pipeline (FeedIsPipeline), so   *)
(* the invariants of VideoPipelineProofs carry over.  Then types, and that *)
(* the progress a client is shown goes back only when it hears why.  Last  *)
(* and hardest, that no end is missed: what a step of a handler does to    *)
(* the statuses, to its own place and to the clients of its process is     *)
(* put into a few cases (Outcome), and HandlerInv and ClientInv are looked *)
(* at case by case.                                                        *)
(***************************************************************************)
EXTENDS VideoFeed, VideoPipelineProofs

Ends == {"COMPLETED", "FAILED"}

\* c is in the room that hears of the handler in process w.
Watches(c, w) == client[c].at = w /\ client[c].room = VideoOf(w)

\* What an event makes of the view of a client.
LEMMA StartPushed ==
  ASSUME NEW w \in Workers, NEW c \in Clients, onProcessingStarted(w)
  PROVE  client'[c] = IF Watches(c, w)
                        THEN [client[c] EXCEPT !.percent = 0, !.known = {}] ELSE client[c]
BY DEF onProcessingStarted, InRoom, Watches

LEMMA ProgressPushed ==
  ASSUME NEW w \in Workers, NEW c \in Clients, NEW percent, onProgressUpdated(w, percent)
  PROVE  client'[c] = IF Watches(c, w)
                        THEN [client[c] EXCEPT !.percent = percent] ELSE client[c]
BY DEF onProgressUpdated, InRoom, Watches

LEMMA EndPushed ==
  ASSUME NEW w \in Workers, NEW c \in Clients, NEW status, onVideoEnded(w, status)
  PROVE  client'[c] = IF Watches(c, w)
                        THEN [client[c] EXCEPT !.known = @ \cup {status}] ELSE client[c]
BY DEF onVideoEnded, InRoom, Watches

\* Every step of the composition is a step of the pipeline, or leaves it alone.
LEMMA FeedSteps == FeedNext => [Next]_vars
<1>1. ASSUME NEW w \in Workers, HandleAndEmit(w) PROVE Next
  BY <1>1 DEF HandleAndEmit, Next, Handle
<1>2. ASSUME NEW w \in Workers, CrashAndDisconnect(w) PROVE Next
  BY <1>2 DEF CrashAndDisconnect, Next, Disturb
<1>3. ASSUME Silent PROVE Next
  BY <1>3 DEF Silent, Next, Disturb
<1>4. ASSUME NEW c \in Clients, NEW p \in Workers, Connect(c, p) PROVE UNCHANGED vars
  BY <1>4 DEF Connect
<1>5. ASSUME NEW c \in Clients, NEW v \in Videos, handleSubscribe(c, v) PROVE UNCHANGED vars
  BY <1>5 DEF handleSubscribe
<1>6. ASSUME NEW c \in Clients, handleUnsubscribe(c) \/ getStatus(c) \/ Disconnect(c)
      PROVE  UNCHANGED vars
  BY <1>6 DEF handleUnsubscribe, getStatus, Disconnect
<1> QED BY <1>1, <1>2, <1>3, <1>4, <1>5, <1>6 DEF FeedNext

\* The clients owe nothing and hold nothing up: every behaviour of the
\* composition is one of the pipeline.
THEOREM FeedIsPipeline == FeedSpec => Spec
<1>1. FeedInit => Init BY DEF FeedInit
<1>2. [FeedNext]_allVars => [Next]_vars
  BY FeedSteps DEF allVars
<1> QED BY <1>1, <1>2, PTL DEF FeedSpec, Spec

-----------------------------------------------------------------------------
\* An event is pushed to all clients at once.
LEMMA PushedAtOnce ==
  ASSUME NEW w \in Workers, NEW percent, NEW status,
         \/ onProcessingStarted(w) \/ onProgressUpdated(w, percent) \/ onVideoEnded(w, status)
  PROVE  client' = [c \in Clients |-> client'[c]]
BY DEF onProcessingStarted, onProgressUpdated, onVideoEnded, InRoom

\* The progress shown by a poll is a percentage, and grows with the polls.
LEMMA PollPercents ==
  ASSUME NEW k \in Nat
  PROVE  PollPercent(k) \in 0..100 /\ PollPercent(k) <= PollPercent(k + 1)
BY DEF PollPercent

\* A handler at an await of the processor: its locals.
LEMMA PollLocals ==
  ASSUME Inv, NEW w \in Workers, Busy(w)
  PROVE  worker[w].polls \in Nat /\ VideoOf(w) \in Videos
<1>1. worker[w] \in Worker /\ VideoOf(w) \in Videos BY BusyFacts DEF Inv
<1> QED BY <1>1, PollAssumption DEF Worker

\* What a step of the handler in process w may do to a client: it neither
\* connects nor subscribes nor asks, and only those who watch are told.
LEMMA HandlerToClients ==
  ASSUME Inv, FeedTypeOK, NEW w \in Workers, HandleAndEmit(w)
  PROVE  /\ client' \in [Clients -> Client]
         /\ \A c \in Clients :
              /\ client'[c].at = client[c].at
              /\ client'[c].room = client[c].room
              /\ client'[c].fetched = client[c].fetched
              /\ Watches(c, w) \/ client'[c] = client[c]
<1> DEFINE P(c) == /\ client'[c] \in Client
                   /\ client'[c].at = client[c].at
                   /\ client'[c].room = client[c].room
                   /\ client'[c].fetched = client[c].fetched
                   /\ Watches(c, w) \/ client'[c] = client[c]
<1>0. client \in [Clients -> Client] BY DEF FeedTypeOK
<1>1. SUFFICES /\ client' = [c \in Clients |-> client'[c]]
               /\ \A c \in Clients : P(c)
  <2>1. ASSUME client' = [c \in Clients |-> client'[c]], \A c \in Clients : client'[c] \in Client
        PROVE  client' \in [Clients -> Client]
    BY <2>1
  <2> QED BY <2>1
<1>2. CASE onProcessingStarted(w)
  <2>1. ASSUME NEW c \in Clients PROVE P(c)
    <3>1. client[c] \in Client BY <1>0
    <3>2. client'[c] = client[c] \/ client'[c] = [client[c] EXCEPT !.percent = 0, !.known = {}]
      BY <1>2, StartPushed
    <3>3. Watches(c, w) \/ client'[c] = client[c] BY <1>2, StartPushed
    <3> DEFINE r == [[client[c] EXCEPT !.percent = 0] EXCEPT !.known = {}]
    <3>4. [client[c] EXCEPT !.percent = 0] \in Client BY <3>1 DEF Client
    <3>5. /\ r \in Client /\ r.at = client[c].at /\ r.room = client[c].room
          /\ r.fetched = client[c].fetched
      BY <3>1, <3>4 DEF Client
    <3> QED BY <3>1, <3>2, <3>3, <3>5
  <2> QED BY <1>2, <2>1, PushedAtOnce
<1>3. CASE Poll(w) /\ onProgressUpdated(w, PollPercent(worker[w].polls + 1))
  <2> DEFINE percent == PollPercent(worker[w].polls + 1)
  <2>0. percent \in 0..100
    <3>1. worker[w].polls + 1 \in Nat BY <1>3, PollLocals DEF Poll, At, Busy
    <3> QED BY <3>1, PollPercents
  <2> HIDE DEF percent
  <2>1. ASSUME NEW c \in Clients PROVE P(c)
    <3>1. client[c] \in Client BY <1>0
    <3>2. client'[c] = client[c] \/ client'[c] = [client[c] EXCEPT !.percent = percent]
      BY <1>3, ProgressPushed DEF percent
    <3>3. Watches(c, w) \/ client'[c] = client[c] BY <1>3, ProgressPushed
    <3> QED BY <2>0, <3>1, <3>2, <3>3 DEF Client
  <2> QED BY <1>3, <2>1, PushedAtOnce
<1>4. ASSUME NEW status \in Ends, onVideoEnded(w, status)
      PROVE  client' = [c \in Clients |-> client'[c]] /\ \A c \in Clients : P(c)
  <2>1. ASSUME NEW c \in Clients PROVE P(c)
    <3>1. client[c] \in Client BY <1>0
    <3>2. client'[c] = client[c] \/ client'[c] = [client[c] EXCEPT !.known = @ \cup {status}]
      BY <1>4, EndPushed
    <3>3. Watches(c, w) \/ client'[c] = client[c] BY <1>4, EndPushed
    <3> QED BY <3>1, <3>2, <3>3 DEF Client, Ends
  <2> QED BY <1>4, <2>1, PushedAtOnce
<1>5. CASE UNCHANGED client BY <1>0, <1>5
<1> QED BY <1>2, <1>3, <1>4, <1>5 DEF HandleAndEmit, Ends

\* Every step keeps the types.
LEMMA FeedTypeStep ==
  ASSUME Inv, FeedTypeOK, FeedNext PROVE FeedTypeOK'
<1>0. client \in [Clients -> Client] /\ writer \in [Videos -> Workers \cup {None}]
  BY DEF FeedTypeOK
<1>a. Offline \in Client BY DEF Offline, Client
<1>1. CASE \E w \in Workers : HandleAndEmit(w)
  <2>1. PICK w \in Workers : HandleAndEmit(w) BY <1>1
  <2>2. writer' \in [Videos -> Workers \cup {None}] BY <1>0, <2>1 DEF HandleAndEmit
  <2> QED BY <2>1, <2>2, HandlerToClients DEF FeedTypeOK
<1>2. CASE \E w \in Workers : CrashAndDisconnect(w)
  BY <1>0, <1>2, <1>a DEF CrashAndDisconnect, FeedTypeOK, Offline
<1>3. CASE Silent BY <1>3 DEF Silent, FeedTypeOK, feedVars
<1>b. ASSUME NEW c \in Clients, NEW r \in Client, r.room # None => r.at # None,
             client' = [client EXCEPT ![c] = r], UNCHANGED writer
      PROVE  FeedTypeOK'
  <2>1. client' \in [Clients -> Client] BY <1>0, <1>b
  <2>2. \A d \in Clients : client'[d].room # None => client'[d].at # None
    BY <1>0, <1>b DEF FeedTypeOK
  <2> QED BY <1>0, <1>b, <2>1, <2>2 DEF FeedTypeOK
<1>4. ASSUME NEW c \in Clients, NEW p \in Workers, Connect(c, p) PROVE FeedTypeOK'
  <2>1. client[c] \in Client /\ p \in ApiProcesses /\ p # None
    BY <1>0, <1>4, NoneAssumption DEF Connect, HasGateway
  <2>2. [client[c] EXCEPT !.at = p] \in Client BY <2>1 DEF Client
  <2>3. client' = [client EXCEPT ![c] = [client[c] EXCEPT !.at = p]]
    BY <1>4 DEF Connect
  <2> QED BY <1>4, <1>b, <2>1, <2>2, <2>3 DEF Connect, Client
<1>5. ASSUME NEW c \in Clients, NEW v \in Videos, handleSubscribe(c, v) PROVE FeedTypeOK'
  <2>1. client[c] \in Client /\ client[c].at # None BY <1>0, <1>5 DEF handleSubscribe
  <2>2. [client[c] EXCEPT !.room = v] \in Client BY <2>1 DEF Client
  <2>3. client' = [client EXCEPT ![c] = [client[c] EXCEPT !.room = v]]
    BY <1>5 DEF handleSubscribe
  <2> QED BY <1>5, <1>b, <2>1, <2>2, <2>3 DEF handleSubscribe, Client
<1>6. ASSUME NEW c \in Clients, handleUnsubscribe(c) PROVE FeedTypeOK'
  <2>1. client[c] \in Client BY <1>0
  <2>2. [Offline EXCEPT !.at = client[c].at] \in Client BY <1>a, <2>1 DEF Client
  <2> QED BY <1>6, <1>b, <2>2 DEF handleUnsubscribe, Offline
<1>7. ASSUME NEW c \in Clients, getStatus(c) PROVE FeedTypeOK'
  <2> DEFINE end == EndIn(StatusResponse(client[c].room))
             r   == [client[c] EXCEPT !.fetched = TRUE, !.known = @ \cup end]
  <2>1. end \subseteq Ends BY DEF EndIn, Ends
  <2>2. client[c] \in Client /\ (client[c].room # None => client[c].at # None)
    BY <1>0 DEF FeedTypeOK
  <2>3. client' = [client EXCEPT ![c] = r] BY <1>7 DEF getStatus
  <2> HIDE DEF end
  <2>4. r \in Client /\ r.room = client[c].room /\ r.at = client[c].at
    BY <2>1, <2>2 DEF Client, Ends
  <2> HIDE DEF r
  <2> QED BY <1>7, <1>b, <2>2, <2>3, <2>4 DEF getStatus
<1>8. ASSUME NEW c \in Clients, Disconnect(c) PROVE FeedTypeOK'
  BY <1>0, <1>8, <1>a DEF Disconnect, FeedTypeOK, Offline
<1> QED BY <1>1, <1>2, <1>3, <1>4, <1>5, <1>6, <1>7, <1>8 DEF FeedNext

LEMMA FeedTypeInit == FeedInit => FeedTypeOK
BY DEF FeedInit, FeedTypeOK, Offline, Client

\* The invariant of the pipeline, and the types of the rest.
FeedInv == Inv /\ FeedTypeOK

LEMMA FeedInvStep == FeedInv /\ [FeedNext]_allVars => FeedInv'
<1>1. ASSUME FeedInv, FeedNext PROVE FeedInv'
  BY <1>1, FeedSteps, NextInv, FeedTypeStep DEF FeedInv
<1>2. ASSUME FeedInv, UNCHANGED allVars PROVE FeedInv'
  <2>1. FeedTypeOK' BY <1>2 DEF FeedInv, FeedTypeOK, allVars, feedVars
  <2> QED BY <1>2, <2>1, StutterInv DEF FeedInv, allVars
<1> QED BY <1>1, <1>2

LEMMA FeedInvariance == FeedSpec => []FeedInv
<1>1. FeedInit => FeedInv BY InitInv, FeedTypeInit DEF FeedInit, FeedInv
<1> QED BY <1>1, FeedInvStep, PTL DEF FeedSpec

\* The views of the clients and the history of the writers keep their types;
\* only a connected socket is in a room (VideoGateway, handleDisconnect).
THEOREM FeedTypeCorrect == FeedSpec => []FeedTypeOK
<1>1. FeedInv => FeedTypeOK BY DEF FeedInv
<1> QED BY <1>1, FeedInvariance, PTL

-----------------------------------------------------------------------------
\* A handler that does not move stays with its video.
LEMMA SameVideo ==
  ASSUME FeedInv, FeedNext, NEW w \in Workers, Busy(w), worker'[w].job = worker[w].job
  PROVE  VideoOf(w)' = VideoOf(w)
<1>1. Next \/ UNCHANGED vars BY FeedSteps
<1>2. CASE Next
  <2>1. JobsKept BY <1>2, JobsKeptStep DEF FeedInv, Inv
  <2>2. worker[w].job \in Requests /\ Enqueued(worker[w].job) BY DEF FeedInv, Inv, WorkerInv
  <2> QED BY <2>1, <2>2 DEF JobsKept, VideoOf, JobOf
<1>3. CASE UNCHANGED vars BY <1>3 DEF vars, VideoOf, JobOf
<1> QED BY <1>1, <1>2, <1>3

\* A step of the handler in process w moves no other handler.
LEMMA OneHandlerMoves ==
  ASSUME FeedInv, NEW w \in Workers, HandleAndEmit(w), NEW o \in Workers \ {w}
  PROVE  worker'[o] = worker[o]
<1>0. worker \in [Workers -> Worker] BY DEF FeedInv, Inv, TypeOK
<1> QED BY <1>0 DEF HandleAndEmit, FindById, StartAttempt, EnhancePrompt, GenerateVideo, Poll,
       Store, Complete, ReportCompleted, MarkFailed, EmitFailed, Rethrow, JobCompleted,
       JobFailed, Goto

\* Goto only changes the await, and forgets polls.
LEMMA GotoMoves ==
  ASSUME worker \in [Workers -> Worker], NEW w \in Workers, NEW pc, Goto(w, pc)
  PROVE  worker'[w].pc = pc /\ worker'[w].job = worker[w].job /\ worker'[w].polls = 0
BY DEF Goto, Worker

\* How a handler may move.
LEMMA WorkerMoves ==
  ASSUME FeedInv, FeedNext, NEW w \in Workers
  PROVE  \/ worker'[w] = worker[w]
         \/ HandleAndEmit(w)
         \/ worker'[w].pc \in {"idle", "find"} /\ (Busy(w) => CrashAndDisconnect(w))
         \/ /\ "fault" \in Env
            /\ worker'[w].pc \in {"catch", "reject"}
            /\ worker'[w].job = worker[w].job
<1>0. worker \in [Workers -> Worker] /\ worker[w] \in Worker BY DEF FeedInv, Inv, TypeOK
<1>1. CASE \E u \in Workers : HandleAndEmit(u) BY <1>1, OneHandlerMoves
<1>2. CASE \E u \in Workers : CrashAndDisconnect(u)
  <2>1. PICK u \in Workers : CrashAndDisconnect(u) BY <1>2
  <2>2. worker' = [worker EXCEPT ![u] = Idle] BY <2>1 DEF CrashAndDisconnect, Crash
  <2> QED BY <1>0, <2>1, <2>2 DEF Idle
<1>3. CASE Silent
  <2>1. ASSUME NEW u \in Workers, NEW q \in Requests, Fetch(u, q)
        PROVE  worker'[w] = worker[w] \/ (worker'[w].pc = "find" /\ ~Busy(w))
    BY <1>0, <2>1 DEF Fetch, Idle
  <2>2. ASSUME NEW u \in Workers, Fault(u) \/ MarkFailedFault(u)
        PROVE  \/ worker'[w] = worker[w]
               \/ /\ "fault" \in Env
                  /\ worker'[w].pc \in {"catch", "reject"}
                  /\ worker'[w].job = worker[w].job
    <3>1. CASE u = w BY <1>0, <2>2, <3>1, GotoMoves DEF Fault, MarkFailedFault
    <3>2. CASE u # w BY <1>0, <2>2, <3>2 DEF Fault, MarkFailedFault, Goto
    <3> QED BY <3>1, <3>2
  <2>3. ASSUME NEW q \in Requests,
               Serve(q) \/ Accept(q) \/ StalledCheck(q) \/ LoseLock(q) \/ Abort(q)
        PROVE  UNCHANGED worker
    BY <2>3 DEF Serve, Accept, StalledCheck, LoseLock, Abort, CreateSave, CreateAdd, CreateLink,
       RetryRead, RetryReset, RetryAdd, RetryLink, RetryMark, PatchRead, PatchSelect,
       PatchUpdate, PatchInsert
  <2>4. ASSUME Listen PROVE UNCHANGED worker
    BY <2>4 DEF Listen, ListenerRead, ListenerSave
  <2>5. ASSUME NEW t \in listener, ListenerFault(t) PROVE UNCHANGED worker
    BY <2>5 DEF ListenerFault
  <2>6. ASSUME NEW v \in Videos, Remove(v) PROVE UNCHANGED worker
    BY <2>6 DEF Remove
  <2> QED BY <1>3, <2>1, <2>2, <2>3, <2>4, <2>5, <2>6 DEF Silent
<1>4. CASE \E c \in Clients :
             \/ \E p \in Workers : Connect(c, p)
             \/ \E v \in Videos : handleSubscribe(c, v)
             \/ handleUnsubscribe(c) \/ getStatus(c) \/ Disconnect(c)
  BY <1>4 DEF Connect, handleSubscribe, handleUnsubscribe, getStatus, Disconnect, vars
<1> QED BY <1>1, <1>2, <1>3, <1>4 DEF FeedNext

\* How the view of a client may change.
LEMMA ClientMoves ==
  ASSUME FeedInv, FeedNext, NEW c \in Clients
  PROVE  \/ client'[c] = client[c]
         \/ \E w \in Workers : HandleAndEmit(w) /\ Watches(c, w)
         \/ client'[c] = Offline
         \/ \E p \in Workers \cup {None} : client'[c] = [Offline EXCEPT !.at = p]
         \/ /\ client[c].room = None
            /\ UNCHANGED worker
            /\ \/ \E p \in Workers : client'[c] = [client[c] EXCEPT !.at = p]
               \/ \E v \in Videos : client'[c] = [client[c] EXCEPT !.room = v]
         \/ getStatus(c)
<1>0. client \in [Clients -> Client] /\ client[c] \in Client BY DEF FeedInv, FeedTypeOK
<1>1. CASE \E w \in Workers : HandleAndEmit(w)
  BY <1>1, HandlerToClients DEF FeedInv
<1>2. CASE \E w \in Workers : CrashAndDisconnect(w)
  BY <1>2 DEF CrashAndDisconnect
<1>3. CASE Silent BY <1>3 DEF Silent, feedVars
<1>4. ASSUME NEW d \in Clients, NEW p \in Workers, Connect(d, p)
      PROVE  \/ client'[c] = client[c]
             \/ /\ client[c].room = None /\ UNCHANGED worker
                /\ client'[c] = [client[c] EXCEPT !.at = p]
  BY <1>0, <1>4 DEF Connect, FeedInv, FeedTypeOK, vars
<1>5. ASSUME NEW d \in Clients, NEW v \in Videos, handleSubscribe(d, v)
      PROVE  \/ client'[c] = client[c]
             \/ /\ client[c].room = None /\ UNCHANGED worker
                /\ client'[c] = [client[c] EXCEPT !.room = v]
  BY <1>0, <1>5 DEF handleSubscribe, vars
<1>6. ASSUME NEW d \in Clients, handleUnsubscribe(d)
      PROVE  client'[c] = client[c] \/ client'[c] = [Offline EXCEPT !.at = client[c].at]
  BY <1>0, <1>6 DEF handleUnsubscribe
<1>7. ASSUME NEW d \in Clients, getStatus(d)
      PROVE  client'[c] = client[c] \/ getStatus(c)
  <2>1. CASE d = c BY <1>7, <2>1
  <2>2. CASE d # c BY <1>0, <1>7, <2>2 DEF getStatus
  <2> QED BY <2>1, <2>2
<1>8. ASSUME NEW d \in Clients, Disconnect(d)
      PROVE  client'[c] = client[c] \/ client'[c] = Offline
  BY <1>0, <1>8 DEF Disconnect
<1>9. client[c].at \in Workers \cup {None} BY <1>0, ApiAssumption DEF Client
<1> QED BY <1>1, <1>2, <1>3, <1>4, <1>5, <1>6, <1>7, <1>8, <1>9 DEF FeedNext

-----------------------------------------------------------------------------
\* What a client has been shown is not ahead of the handler it watches.
PercentInv ==
  /\ \A c \in Clients : client[c].room = None => client[c].percent = 0 /\ ~client[c].fetched
  /\ \A c \in Clients, w \in Workers : Watches(c, w) =>
       /\ At(w, "submit") => client[c].percent = 0
       /\ At(w, "poll") => client[c].percent <= PollPercent(worker[w].polls)

\* How a handler gets to the awaits PercentInv is about.
LEMMA TowardsPoll ==
  ASSUME FeedInv, NEW w \in Workers, HandleAndEmit(w)
  PROVE  /\ worker'[w].pc = "submit" =>
              EnhancePrompt(w) /\ onProcessingStarted(w) /\ worker'[w].job = worker[w].job
         /\ worker'[w].pc = "poll" =>
              /\ \/ GenerateVideo(w) /\ UNCHANGED client /\ worker'[w].polls = 0
                 \/ /\ Poll(w) /\ onProgressUpdated(w, PollPercent(worker[w].polls + 1))
                    /\ worker'[w].polls = worker[w].polls + 1
              /\ worker'[w].job = worker[w].job
<1>0. worker \in [Workers -> Worker] /\ worker[w] \in Worker BY DEF FeedInv, Inv, TypeOK
<1>1. CASE EnhancePrompt(w) /\ onProcessingStarted(w)
  BY <1>0, <1>1, GotoMoves DEF EnhancePrompt
<1>2. CASE GenerateVideo(w) /\ UNCHANGED client
  BY <1>0, <1>2, GotoMoves DEF GenerateVideo
<1>3. CASE Poll(w) /\ onProgressUpdated(w, PollPercent(worker[w].polls + 1))
  <2>1. CASE \E pc \in {"complete", "store", "catch"} : Goto(w, pc)
    BY <1>0, <2>1, GotoMoves
  <2>2. CASE worker' = [worker EXCEPT ![w].polls = worker[w].polls + 1]
    BY <1>0, <1>3, <2>2 DEF Worker, Poll, At
  <2> QED BY <1>3, <2>1, <2>2 DEF Poll
<1>4. CASE \/ FindById(w) \/ StartAttempt(w) \/ Store(w) \/ Complete(w) \/ ReportCompleted(w)
           \/ MarkFailed(w) \/ EmitFailed(w) \/ Rethrow(w) \/ JobCompleted(w) \/ JobFailed(w)
  <2>1. CASE \E pc \in {"enhance", "catch", "resolve", "complete", "report", "emit", "reject"} : Goto(w, pc)
    BY <1>0, <2>1, GotoMoves
  <2>2. CASE worker' = [worker EXCEPT ![w] = Idle] BY <1>0, <2>2 DEF Idle
  <2>3. CASE worker'[w].pc = "start" BY <2>3
  <2> QED BY <1>0, <1>4, <2>1, <2>2, <2>3 DEF FindById, StartAttempt, Store, Complete,
           ReportCompleted, MarkFailed, EmitFailed, Rethrow, JobCompleted, JobFailed, Worker
<1> QED BY <1>1, <1>2, <1>3, <1>4 DEF HandleAndEmit

\* What an event makes of the progress shown.
LEMMA PercentPushed ==
  ASSUME FeedInv, NEW w \in Workers, HandleAndEmit(w), NEW c \in Clients
  PROVE  \/ client'[c].percent = client[c].percent
         \/ EnhancePrompt(w) /\ Watches(c, w)
         \/ /\ Poll(w) /\ Watches(c, w)
            /\ client'[c].percent = PollPercent(worker[w].polls + 1)
<1>0. client[c] \in Client BY DEF FeedInv, FeedTypeOK
<1>1. CASE EnhancePrompt(w) /\ onProcessingStarted(w)
  <2>1. Watches(c, w) \/ client'[c] = client[c] BY <1>1, StartPushed
  <2> QED BY <1>1, <2>1
<1>2. ASSUME NEW percent, onProgressUpdated(w, percent)
      PROVE  \/ client'[c].percent = client[c].percent
             \/ Watches(c, w) /\ client'[c].percent = percent
  <2>1. CASE Watches(c, w)
    <3>1. client'[c] = [client[c] EXCEPT !.percent = percent] BY <1>2, <2>1, ProgressPushed
    <3> QED BY <1>0, <2>1, <3>1 DEF Client
  <2>2. CASE ~Watches(c, w) BY <1>2, <2>2, ProgressPushed
  <2> QED BY <2>1, <2>2
<1>3. ASSUME NEW status, onVideoEnded(w, status) PROVE client'[c].percent = client[c].percent
  <2>1. \/ client'[c] = [client[c] EXCEPT !.known = @ \cup {status}]
        \/ client'[c] = client[c]
    BY <1>3, EndPushed
  <2> QED BY <1>0, <2>1 DEF Client
<1> QED BY <1>1, <1>2, <1>3 DEF HandleAndEmit, Ends

\* PercentInv is inductive relative to FeedInv.
LEMMA PercentStep ==
  ASSUME FeedInv, PercentInv, FeedNext PROVE PercentInv'
<1>0. /\ client \in [Clients -> Client]
      /\ \A c \in Clients : client[c] \in Client
  BY DEF FeedInv, FeedTypeOK
<1>1. ASSUME NEW c \in Clients, client'[c].room = None
      PROVE  client'[c].percent = 0 /\ ~client'[c].fetched
  <2>1. CASE client'[c] = client[c] BY <1>1, <2>1 DEF PercentInv
  <2>2. ASSUME NEW w \in Workers, HandleAndEmit(w), Watches(c, w) PROVE FALSE
    <3>1. Busy(w) BY <2>2 DEF HandleAndEmit, Busy, At, FindById, StartAttempt, EnhancePrompt,
            GenerateVideo, Poll, Store, Complete, ReportCompleted, MarkFailed, EmitFailed,
            Rethrow, JobCompleted, JobFailed
    <3>2. client[c].room \in Videos BY <2>2, <3>1, PollLocals DEF FeedInv, Watches
    <3>3. client'[c].room = client[c].room BY <2>2, HandlerToClients DEF FeedInv
    <3> QED BY <1>1, <3>2, <3>3, NoneAssumption
  <2>3. CASE /\ client'[c].percent = client[c].percent /\ client[c].room = None
             /\ client'[c].fetched = client[c].fetched
    BY <2>3 DEF PercentInv
  <2>4. ASSUME getStatus(c) PROVE FALSE
    <3>1. client'[c].room = client[c].room BY <1>0, <2>4 DEF getStatus, Client
    <3> QED BY <1>1, <2>4, <3>1 DEF getStatus
  <2>5. CASE client'[c] = Offline BY <2>5 DEF Offline
  <2>6. ASSUME NEW p, client'[c] = [Offline EXCEPT !.at = p]
        PROVE  client'[c].percent = 0 /\ ~client'[c].fetched
    BY <2>6 DEF Offline
  <2>7. ASSUME client[c].room = None,
               \/ \E p \in Workers : client'[c] = [client[c] EXCEPT !.at = p]
               \/ \E v \in Videos : client'[c] = [client[c] EXCEPT !.room = v]
        PROVE  client'[c].percent = 0 /\ ~client'[c].fetched
    <3>1. client'[c].percent = client[c].percent /\ client'[c].fetched = client[c].fetched
      BY <1>0, <2>7 DEF Client
    <3> QED BY <2>3, <2>7, <3>1
  <2> QED BY <2>1, <2>2, <2>4, <2>5, <2>6, <2>7, ClientMoves
<1>2. ASSUME NEW c \in Clients, NEW w \in Workers, Watches(c, w)',
             worker'[w].pc \in {"submit", "poll"}
      PROVE  /\ worker'[w].pc = "submit" => client'[c].percent = 0
             /\ worker'[w].pc = "poll" => client'[c].percent <= PollPercent(worker'[w].polls)
  <2> DEFINE G == /\ worker'[w].pc = "submit" => client'[c].percent = 0
                  /\ worker'[w].pc = "poll" => client'[c].percent <= PollPercent(worker'[w].polls)
  <2>1. CASE HandleAndEmit(w)
    <3>1. worker'[w].job = worker[w].job /\ Busy(w)
      BY <1>2, <2>1, TowardsPoll DEF EnhancePrompt, GenerateVideo, Poll, At, Busy
    <3>2. VideoOf(w)' = VideoOf(w) BY <3>1, SameVideo
    <3>3. Watches(c, w)
      BY <1>2, <2>1, <3>2, HandlerToClients DEF Watches, FeedInv
    <3>4. CASE worker'[w].pc = "submit"
      <4>1. client'[c] = [client[c] EXCEPT !.percent = 0, !.known = {}]
        BY <2>1, <3>3, <3>4, TowardsPoll, StartPushed
      <4>2. [client[c] EXCEPT !.percent = 0] \in Client BY <1>0 DEF Client
      <4>3. client'[c].percent = 0 BY <1>0, <4>1, <4>2 DEF Client
      <4> QED BY <3>4, <4>3
    <3>5. CASE worker'[w].pc = "poll" /\ GenerateVideo(w) /\ UNCHANGED client /\ worker'[w].polls = 0
      <4>1. client'[c].percent = 0 BY <3>3, <3>5 DEF PercentInv, GenerateVideo
      <4>2. PollPercent(0) \in 0..100 BY PollPercents
      <4>3. worker'[w].pc # "submit" /\ PollPercent(worker'[w].polls) = PollPercent(0) BY <3>5
      <4> QED BY <4>1, <4>2, <4>3
    <3>6. CASE /\ worker'[w].pc = "poll" /\ Poll(w)
               /\ onProgressUpdated(w, PollPercent(worker[w].polls + 1))
               /\ worker'[w].polls = worker[w].polls + 1
      <4> DEFINE percent == PollPercent(worker[w].polls + 1)
      <4>0. client'[c] = [client[c] EXCEPT !.percent = percent]
        BY <3>3, <3>6, ProgressPushed
      <4> HIDE DEF percent
      <4>3. client'[c].percent = percent BY <1>0, <4>0 DEF Client
      <4>1. client'[c].percent = PollPercent(worker[w].polls + 1) BY <4>3 DEF percent
      <4>2. PollPercent(worker[w].polls + 1) \in 0..100
        BY <3>1, PollLocals, PollPercents DEF FeedInv
      <4> QED BY <3>6, <4>1, <4>2
    <3> QED BY <1>2, <2>1, <3>4, <3>5, <3>6, TowardsPoll
  <2>2. CASE worker'[w] = worker[w] /\ ~HandleAndEmit(w)
    <3>1. VideoOf(w)' = VideoOf(w) BY <1>2, <2>2, SameVideo DEF Busy
    <3>2. VideoOf(w) \in Videos /\ worker[w].polls \in Nat
      BY <1>2, <2>2, PollLocals DEF Busy, FeedInv
    <3>3. client'[c].at = w /\ client'[c].room = VideoOf(w) BY <1>2, <3>1 DEF Watches
    <3>4. CASE /\ client'[c].percent = client[c].percent
               /\ client'[c].at = client[c].at /\ client'[c].room = client[c].room
      <4>1. Watches(c, w) BY <3>3, <3>4 DEF Watches
      <4> QED BY <2>2, <3>4, <4>1 DEF PercentInv, At
    <3>5. ASSUME NEW u \in Workers, HandleAndEmit(u), Watches(c, u) PROVE FALSE
      BY <2>2, <3>3, <3>5, HandlerToClients DEF Watches, FeedInv
    <3>6. CASE client'[c] = Offline
      <4>1. client'[c].room = None BY <3>6 DEF Offline
      <4> QED BY <3>2, <3>3, <4>1, NoneAssumption
    <3>7. ASSUME NEW p, client'[c] = [Offline EXCEPT !.at = p] PROVE FALSE
      BY <3>2, <3>3, <3>7, NoneAssumption DEF Offline
    <3>8. CASE /\ client[c].room = None
               /\ \/ \E p \in Workers : client'[c] = [client[c] EXCEPT !.at = p]
                  \/ \E v \in Videos : client'[c] = [client[c] EXCEPT !.room = v]
      <4>1. client'[c].percent = client[c].percent BY <1>0, <3>8 DEF Client
      <4>2. client'[c].percent = 0 BY <3>8, <4>1 DEF PercentInv
      <4>3. PollPercent(worker[w].polls) \in 0..100 BY <3>2, PollPercents
      <4> QED BY <2>2, <4>2, <4>3
    <3>9. CASE getStatus(c)
      <4>1. /\ client'[c].percent = client[c].percent
            /\ client'[c].at = client[c].at /\ client'[c].room = client[c].room
        BY <1>0, <3>9 DEF getStatus, Client
      <4> QED BY <3>4, <4>1
    <3> QED BY <3>4, <3>5, <3>6, <3>7, <3>8, <3>9, ClientMoves
  <2> QED BY <1>2, <2>1, <2>2, WorkerMoves
<1> QED BY <1>1, <1>2 DEF PercentInv, At

LEMMA PercentInvariance == FeedSpec => []PercentInv
<1>1. FeedInit => PercentInv
  BY DEF FeedInit, Init, PercentInv, Offline, Idle, At
<1>2. FeedInv /\ PercentInv /\ [FeedNext]_allVars => PercentInv'
  <2>1. ASSUME PercentInv, UNCHANGED allVars PROVE PercentInv'
    BY <2>1 DEF PercentInv, Watches, At, VideoOf, JobOf, allVars, vars, feedVars
  <2> QED BY <2>1, PercentStep
<1> QED BY <1>1, <1>2, FeedInvariance, PTL DEF FeedSpec

\* The progress a client is shown goes back only when the gateway tells it that
\* a new attempt has started, or when it leaves the room: redelivered jobs,
\* overlapping attempts and crashes included.
THEOREM ProgressGoesForward == FeedSpec => ForwardOnly
<1>1. ASSUME FeedInv, PercentInv, FeedNext, NEW c \in Clients,
             client'[c].percent < client[c].percent
      PROVE  \/ client'[c].room = None
             \/ \E w \in Workers : EnhancePrompt(w) /\ w = client[c].at
  <2>0. client \in [Clients -> Client] /\ client[c] \in Client BY <1>1 DEF FeedInv, FeedTypeOK
  <2>1. ASSUME NEW w \in Workers, HandleAndEmit(w), Watches(c, w)
        PROVE  EnhancePrompt(w) /\ w = client[c].at
    <3>1. ASSUME Poll(w), client'[c].percent = PollPercent(worker[w].polls + 1) PROVE FALSE
      <4>1. client[c].percent <= PollPercent(worker[w].polls)
        BY <1>1, <2>1, <3>1 DEF PercentInv, Poll
      <4>2. worker[w].polls \in Nat BY <1>1, <3>1, PollLocals DEF FeedInv, Poll, At, Busy
      <4>3. /\ PollPercent(worker[w].polls) <= PollPercent(worker[w].polls + 1)
            /\ PollPercent(worker[w].polls) \in 0..100
            /\ PollPercent(worker[w].polls + 1) \in 0..100
        BY <4>2, PollPercents
      <4>4. client[c].percent \in 0..100 BY <2>0 DEF Client
      <4>5. PollPercent(worker[w].polls + 1) < client[c].percent BY <1>1, <3>1
      <4>6. \A x, y, z \in 0..100 : x <= y /\ y <= z => ~(z < x) OBVIOUS
      <4> QED BY <4>1, <4>3, <4>4, <4>5, <4>6
    <3>2. client[c].percent \in 0..100 BY <2>0 DEF Client
    <3> QED BY <1>1, <2>1, <3>1, <3>2, PercentPushed DEF Watches
  <2>2. client[c].percent \in 0..100 BY <2>0 DEF Client
  <2>3. client'[c] # client[c] BY <1>1, <2>2
  <2>4. CASE client'[c] = Offline BY <2>4 DEF Offline
  <2>5. ASSUME NEW p, client'[c] = [Offline EXCEPT !.at = p] PROVE client'[c].room = None
    BY <2>5 DEF Offline
  <2>6. ASSUME \/ \E p \in Workers : client'[c] = [client[c] EXCEPT !.at = p]
               \/ \E v \in Videos : client'[c] = [client[c] EXCEPT !.room = v]
               \/ getStatus(c)
        PROVE  FALSE
    <3>1. client'[c].percent = client[c].percent BY <2>0, <2>6 DEF getStatus, Client
    <3>2. client[c].percent < client[c].percent BY <1>1, <3>1
    <3> QED BY <2>2, <3>2
  <2> QED BY <1>1, <2>1, <2>3, <2>4, <2>5, <2>6, ClientMoves
<1>2. FeedInv /\ PercentInv /\ [FeedNext]_allVars =>
        [\A c \in Clients :
           client'[c].percent < client[c].percent =>
             \/ client'[c].room = None
             \/ \E w \in Workers : EnhancePrompt(w) /\ w = client[c].at]_allVars
  BY <1>1
<1> QED BY <1>2, FeedInvariance, PercentInvariance, PTL DEF FeedSpec, ForwardOnly

-----------------------------------------------------------------------------
\* The handler in process w brought v to its end.
Ended(v, w) == writer[v] = w /\ video[v].status \in Ends

WorkingPc == {"enhance", "submit", "poll", "store", "complete"}

\* A handler at work has not ended its video, and one about to emit an event
\* announces the end it brought.
HandlerInv ==
  \A w \in Workers :
    /\ worker[w].pc \in WorkingPc => ~Ended(VideoOf(w), w)
    /\ At(w, "report") /\ Ended(VideoOf(w), w) => video[VideoOf(w)].status = "COMPLETED"
    /\ At(w, "emit") /\ Ended(VideoOf(w), w) => video[VideoOf(w)].status = "FAILED"

\* c has heard of the end of v, or the handler that brought it is about to tell.
Told(c, v) ==
  LET w == client[c].at
  IN  \/ video[v].status \in client[c].known
      \/ worker[w].pc \in {"report", "emit"} /\ VideoOf(w) = v

\* A client that fetched has been told of the end its own process brought.
ClientInv ==
  \A c \in Clients :
    LET v == client[c].room
    IN  v # None /\ client[c].fetched /\ Ended(v, client[c].at) => Told(c, v)

\* What a step of the handler in process w does to the status of v.
LEMMA HandlerStatus ==
  ASSUME FeedInv, NEW w \in Workers, HandleAndEmit(w), NEW v \in Videos
  PROVE  /\ writer'[v] = IF video'[v].status # video[v].status THEN w ELSE writer[v]
         /\ \/ video'[v].status = video[v].status
            \/ StartAttempt(w) /\ v = VideoOf(w) /\ video'[v].status = "PROCESSING"
            \/ Complete(w) /\ v = VideoOf(w) /\ video'[v].status = "COMPLETED"
            \/ MarkFailed(w) /\ v = VideoOf(w) /\ video'[v].status = "FAILED"
<1>0. video \in [Videos -> Row] /\ video[v] \in Row BY DEF FeedInv, Inv, TypeOK
<1>1. writer'[v] = IF video'[v].status # video[v].status THEN w ELSE writer[v]
  BY DEF HandleAndEmit
<1>a. ASSUME NEW u, NEW p, UpdateProgress(u, p) PROVE video'[v].status = video[v].status
  BY <1>0, <1>a DEF UpdateProgress, Row
<1>2. CASE EnhancePrompt(w) \/ GenerateVideo(w) \/ Poll(w)
  BY <1>1, <1>2, <1>a DEF EnhancePrompt, GenerateVideo, Poll
<1>3. CASE StartAttempt(w)
  <2> DEFINE r == [video[VideoOf(w)] EXCEPT !.status = "PROCESSING", !.progress = 10]
  <2>1. video' = [video EXCEPT ![VideoOf(w)] = r] \/ UNCHANGED video BY <1>3 DEF StartAttempt
  <2>2. VideoOf(w) \in Videos => r.status = "PROCESSING"
    <3>1. ASSUME VideoOf(w) \in Videos PROVE [video[VideoOf(w)] EXCEPT !.status = "PROCESSING"] \in Row
      BY <1>0, <3>1 DEF Row, Status, RowStatus
    <3> QED BY <1>0, <3>1 DEF Row
  <2> QED BY <1>0, <1>1, <1>3, <2>1, <2>2
<1>4. CASE Complete(w)
  <2>1. \/ video' = [video EXCEPT ![VideoOf(w)] = CompletedRow(video[VideoOf(w)])]
        \/ UNCHANGED video
    BY <1>4 DEF Complete
  <2>2. VideoOf(w) \in Videos => CompletedRow(video[VideoOf(w)]).status = "COMPLETED"
    BY <1>0 DEF CompletedRow, Row
  <2> QED BY <1>0, <1>1, <1>4, <2>1, <2>2
<1>5. CASE MarkFailed(w)
  <2>1. \/ video' = [video EXCEPT ![VideoOf(w)] = FailedRow(video[VideoOf(w)])]
        \/ UNCHANGED video
    BY <1>5 DEF MarkFailed
  <2>2. VideoOf(w) \in Videos => FailedRow(video[VideoOf(w)]).status = "FAILED"
    BY <1>0 DEF FailedRow, Row
  <2> QED BY <1>0, <1>1, <1>5, <2>1, <2>2
<1>6. CASE \/ FindById(w) \/ Store(w) \/ ReportCompleted(w) \/ EmitFailed(w) \/ Rethrow(w)
           \/ JobCompleted(w) \/ JobFailed(w)
  BY <1>1, <1>6 DEF FindById, Store, ReportCompleted, EmitFailed, Rethrow, JobCompleted, JobFailed
<1> QED BY <1>2, <1>3, <1>4, <1>5, <1>6 DEF HandleAndEmit

\* No other step brings a video to its end.
LEMMA OtherStatus ==
  ASSUME FeedInv, NoPatching, FeedNext, NEW v \in Videos,
         \A w \in Workers : ~HandleAndEmit(w), video'[v].status \in Ends
  PROVE  video'[v].status = video[v].status /\ writer'[v] = writer[v]
<1>0. video \in [Videos -> Row] /\ video[v] \in Row BY DEF FeedInv, Inv, TypeOK
<1>1. CASE \E w \in Workers : CrashAndDisconnect(w)
  BY <1>1 DEF CrashAndDisconnect, Crash
<1>2. CASE Silent
  <2>0. writer' = writer BY <1>2 DEF Silent, feedVars
  <2>1. ASSUME NEW q \in Requests, NEW u \in Videos, CreateSave(q, u)
        PROVE  video'[v].status = video[v].status
    BY <1>0, <2>1 DEF CreateSave, EmptyRow, Ends
  <2>2. ASSUME NEW q \in Requests, CreateLink(q) \/ RetryLink(q)
        PROVE  video'[v].status = video[v].status
    <3>1. video' = LinkedRow(q) BY <2>2 DEF CreateLink, RetryLink
    <3> QED BY <1>0, <3>1 DEF LinkedRow, Row
  <2>3. ASSUME NEW q \in Requests, RetryReset(q)
        PROVE  video'[v].status = video[v].status
    <3>1. \/ video' = [video EXCEPT ![request[q].video] = ResetRow(video[request[q].video])]
          \/ UNCHANGED video
      BY <2>3 DEF RetryReset
    <3>2. ResetRow(video[v]).status = "PENDING" BY <1>0 DEF ResetRow, Row
    <3> QED BY <1>0, <3>1, <3>2 DEF Ends
  <2>4. ASSUME NEW u \in Videos, Remove(u) PROVE video'[v].status = video[v].status
    BY <1>0, <2>4 DEF Remove, EmptyRow, Ends
  <2>5. ASSUME NEW q \in Requests, PatchUpdate(q) \/ PatchInsert(q) PROVE FALSE
    BY <2>5 DEF NoPatching, PatchPc, PatchUpdate, PatchInsert, RequestAt
  <2>6. ASSUME NEW q \in Requests,
               \/ CreateAdd(q) \/ RetryAdd(q) \/ RetryMark(q) \/ PatchSelect(q)
               \/ StalledCheck(q) \/ LoseLock(q) \/ Abort(q)
               \/ \E u \in Videos : PatchRead(q, u)
               \/ \E i \in 1..Len(dlq) : RetryRead(q, i)
        PROVE  UNCHANGED video
    BY <2>6 DEF CreateAdd, RetryAdd, RetryMark, PatchSelect, StalledCheck, LoseLock, Abort,
       PatchRead, RetryRead
  <2>7. ASSUME NEW w \in Workers,
               \/ \E q \in Requests : Fetch(w, q)
               \/ Fault(w) \/ MarkFailedFault(w)
        PROVE  UNCHANGED video
    BY <2>7 DEF Fetch, Fault, MarkFailedFault
  <2>8. ASSUME Listen \/ \E t \in listener : ListenerFault(t) PROVE UNCHANGED video
    BY <2>8 DEF Listen, ListenerRead, ListenerSave, ListenerFault
  <2> QED BY <1>2, <2>0, <2>1, <2>2, <2>3, <2>4, <2>5, <2>6, <2>7, <2>8 DEF Silent, Serve, Accept
<1>3. CASE \E c \in Clients :
             \/ \E p \in Workers : Connect(c, p)
             \/ \E u \in Videos : handleSubscribe(c, u)
             \/ handleUnsubscribe(c) \/ getStatus(c) \/ Disconnect(c)
  BY <1>3 DEF Connect, handleSubscribe, handleUnsubscribe, getStatus, Disconnect, vars
<1> QED BY <1>1, <1>2, <1>3 DEF FeedNext

\* Only the handler in process w makes w the one that ended v.
LEMMA EndedByItself ==
  ASSUME FeedInv, NoPatching, FeedNext, NEW v \in Videos, NEW w \in Workers,
         ~HandleAndEmit(w), Ended(v, w)'
  PROVE  Ended(v, w) /\ video'[v].status = video[v].status
<1>1. CASE \E u \in Workers : HandleAndEmit(u)
  <2>1. PICK u \in Workers : HandleAndEmit(u) BY <1>1
  <2>2. writer'[v] = IF video'[v].status # video[v].status THEN u ELSE writer[v]
    BY <2>1, HandlerStatus
  <2> QED BY <2>1, <2>2 DEF Ended
<1>2. CASE \A u \in Workers : ~HandleAndEmit(u)
  BY <1>2, OtherStatus DEF Ended
<1> QED BY <1>1, <1>2

\* Where a step may leave the handler that takes it: at work, about to tell of
\* the end it brought, or past both.
LEMMA Outcome ==
  ASSUME FeedInv, NEW w \in Workers, HandleAndEmit(w)
  PROVE  \/ worker'[w].pc \notin WorkingPc \cup {"report", "emit"}
         \/ /\ worker'[w].job = worker[w].job
            /\ Busy(w)
            /\ \/ /\ worker'[w].pc \in WorkingPc
                  /\ \/ worker[w].pc \in WorkingPc \ {"complete"}
                     \/ StartAttempt(w) /\ Transitions(VideoOf(w), worker[w].seen, "PROCESSING")
               \/ Complete(w) /\ worker'[w].pc = "report"
               \/ MarkFailed(w) /\ worker'[w].pc = "emit"
<1>0. worker \in [Workers -> Worker] /\ worker[w] \in Worker BY DEF FeedInv, Inv, TypeOK
<1>1. CASE EnhancePrompt(w)
  BY <1>0, <1>1, GotoMoves DEF EnhancePrompt, At, Busy, WorkingPc
<1>2. CASE GenerateVideo(w)
  BY <1>0, <1>2, GotoMoves DEF GenerateVideo, At, Busy, WorkingPc
<1>3. CASE Poll(w)
  <2>1. /\ worker'[w].job = worker[w].job
        /\ worker'[w].pc \in {"complete", "store", "catch", "poll"}
    <3>1. CASE \E pc \in {"complete", "store", "catch"} : Goto(w, pc)
      BY <1>0, <3>1, GotoMoves
    <3>2. CASE worker' = [worker EXCEPT ![w].polls = worker[w].polls + 1]
      BY <1>0, <1>3, <3>2 DEF Worker, Poll, At
    <3> QED BY <1>3, <3>1, <3>2 DEF Poll
  <2>2. At(w, "poll") BY <1>3 DEF Poll
  <2> QED BY <2>1, <2>2 DEF At, Busy, WorkingPc
<1>4. CASE Store(w)
  BY <1>0, <1>4, GotoMoves DEF Store, At, Busy, WorkingPc
<1>5. CASE StartAttempt(w)
  <2> DEFINE started == Transitions(VideoOf(w), worker[w].seen, "PROCESSING")
  <2>1. Goto(w, IF started THEN "enhance" ELSE "resolve") /\ At(w, "start")
    BY <1>5 DEF StartAttempt
  <2>2. CASE started BY <1>0, <1>5, <2>1, <2>2, GotoMoves DEF At, Busy, WorkingPc
  <2>3. CASE ~started
    <3>1. worker'[w].pc = "resolve" BY <1>0, <2>1, <2>3, GotoMoves
    <3> QED BY <3>1 DEF WorkingPc
  <2> QED BY <2>2, <2>3
<1>6. CASE Complete(w)
  BY <1>0, <1>6, GotoMoves DEF Complete, At, Busy
<1>7. CASE MarkFailed(w)
  BY <1>0, <1>7, GotoMoves DEF MarkFailed, At, Busy
<1>8. CASE \/ FindById(w) \/ ReportCompleted(w) \/ EmitFailed(w) \/ Rethrow(w)
           \/ JobCompleted(w) \/ JobFailed(w)
  <2>1. CASE \E pc \in {"catch", "resolve", "reject"} : Goto(w, pc)
    BY <1>0, <2>1, GotoMoves DEF WorkingPc
  <2>2. CASE worker' = [worker EXCEPT ![w] = Idle] BY <1>0, <2>2 DEF Idle, WorkingPc
  <2>3. CASE worker'[w].pc = "start" BY <2>3 DEF WorkingPc
  <2> QED BY <1>0, <1>8, <2>1, <2>2, <2>3 DEF FindById, ReportCompleted, EmitFailed, Rethrow,
           JobCompleted, JobFailed, Worker
<1> QED BY <1>1, <1>2, <1>3, <1>4, <1>5, <1>6, <1>7, <1>8 DEF HandleAndEmit

\* HandlerInv is inductive when no call fails.
LEMMA HandlerInvStep ==
  ASSUME "fault" \notin Env, FeedInv, NoPatching, HandlerInv, FeedNext PROVE HandlerInv'
<1> DEFINE P(w) ==
      /\ worker[w].pc \in WorkingPc => ~Ended(VideoOf(w), w)
      /\ At(w, "report") /\ Ended(VideoOf(w), w) => video[VideoOf(w)].status = "COMPLETED"
      /\ At(w, "emit") /\ Ended(VideoOf(w), w) => video[VideoOf(w)].status = "FAILED"
<1>0. SUFFICES ASSUME NEW w \in Workers PROVE P(w)' BY DEF HandlerInv
<1>1. P(w) BY DEF HandlerInv
<1>a. CASE worker'[w].pc \notin WorkingPc \cup {"report", "emit"} BY <1>a DEF At
<1>2. CASE HandleAndEmit(w)
  <2>1. ASSUME worker'[w].job = worker[w].job, Busy(w)
        PROVE  VideoOf(w)' = VideoOf(w) /\ VideoOf(w) \in Videos
    BY <2>1, SameVideo, PollLocals DEF FeedInv
  <2>2. ASSUME worker'[w].job = worker[w].job, Busy(w), worker'[w].pc \in WorkingPc,
               worker[w].pc \in WorkingPc \ {"complete"}
        PROVE  P(w)'
    <3>1. ~StartAttempt(w) /\ ~Complete(w) /\ ~MarkFailed(w)
      BY <2>2 DEF StartAttempt, Complete, MarkFailed, At, WorkingPc
    <3>2. video'[VideoOf(w)].status = video[VideoOf(w)].status
      BY <1>2, <2>1, <2>2, <3>1, HandlerStatus
    <3>3. ~Ended(VideoOf(w), w) BY <1>1, <2>2
    <3>4. ~Ended(VideoOf(w), w)'
      BY <1>2, <2>1, <2>2, <3>2, <3>3, HandlerStatus DEF Ended
    <3> QED BY <2>2, <3>4 DEF WorkingPc, At
  <2>3. ASSUME worker'[w].job = worker[w].job, Busy(w), worker'[w].pc \in WorkingPc,
               StartAttempt(w), Transitions(VideoOf(w), worker[w].seen, "PROCESSING")
        PROVE  P(w)'
    <3>1. video' = [video EXCEPT ![VideoOf(w)] =
                      [video[VideoOf(w)] EXCEPT !.status = "PROCESSING", !.progress = 10]]
      BY <2>3 DEF StartAttempt
    <3>2. video \in [Videos -> Row] /\ video[VideoOf(w)] \in Row
      BY <2>1, <2>3 DEF FeedInv, Inv, TypeOK
    <3>3. [video[VideoOf(w)] EXCEPT !.status = "PROCESSING"] \in Row
      BY <3>2 DEF Row, Status, RowStatus
    <3>4. video'[VideoOf(w)].status = "PROCESSING" BY <2>1, <2>3, <3>1, <3>2, <3>3 DEF Row
    <3>5. ~Ended(VideoOf(w), w)' BY <2>1, <2>3, <3>4 DEF Ended, Ends
    <3> QED BY <2>3, <3>5 DEF WorkingPc, At
  <2>4. ASSUME worker'[w].job = worker[w].job, Busy(w), Complete(w), worker'[w].pc = "report"
        PROVE  P(w)'
    <3>1. ~Ended(VideoOf(w), w) BY <1>1, <2>4 DEF Complete, At, WorkingPc
    <3>2. ~StartAttempt(w) /\ ~MarkFailed(w) BY <2>4 DEF Complete, StartAttempt, MarkFailed, At
    <3>3. \/ video'[VideoOf(w)].status = "COMPLETED"
          \/ /\ video'[VideoOf(w)].status = video[VideoOf(w)].status
             /\ writer'[VideoOf(w)] = writer[VideoOf(w)]
      BY <1>2, <2>1, <2>4, <3>2, HandlerStatus
    <3>4. Ended(VideoOf(w), w)' => video'[VideoOf(w)].status = "COMPLETED"
      BY <2>1, <2>4, <3>1, <3>3 DEF Ended
    <3>5. VideoOf(w)' = VideoOf(w) BY <2>1, <2>4
    <3> QED BY <2>4, <3>4, <3>5 DEF WorkingPc, At
  <2>5. ASSUME worker'[w].job = worker[w].job, Busy(w), MarkFailed(w), worker'[w].pc = "emit"
        PROVE  P(w)'
    <3>1. VideoOf(w)' = VideoOf(w) /\ VideoOf(w) \in Videos BY <2>1, <2>5
    <3>2. video \in [Videos -> Row] /\ video[VideoOf(w)] \in Row
      BY <3>1 DEF FeedInv, Inv, TypeOK
    <3>3. CASE Exists(VideoOf(w))
      <4>1. video' = [video EXCEPT ![VideoOf(w)] = FailedRow(video[VideoOf(w)])]
        BY <2>5, <3>3 DEF MarkFailed
      <4>2. video'[VideoOf(w)].status = "FAILED" BY <3>1, <3>2, <4>1 DEF FailedRow, Row
      <4> QED BY <2>5, <3>1, <4>2 DEF WorkingPc, At
    <3>4. CASE ~Exists(VideoOf(w))
      <4>1. video' = video BY <2>5, <3>4 DEF MarkFailed
      <4>2. ~Ended(VideoOf(w), w)' BY <3>1, <3>4, <4>1 DEF Ended, Ends, Exists, RowStatus
      <4> QED BY <2>5, <4>2 DEF WorkingPc, At
    <3> QED BY <3>3, <3>4
  <2> QED BY <1>2, <1>a, <2>2, <2>3, <2>4, <2>5, Outcome
<1>3. CASE ~HandleAndEmit(w) /\ worker'[w] = worker[w] /\ Busy(w)
  <2>1. VideoOf(w)' = VideoOf(w) /\ VideoOf(w) \in Videos
    BY <1>3, SameVideo, PollLocals DEF FeedInv
  <2>2. Ended(VideoOf(w), w)' =>
          Ended(VideoOf(w), w) /\ video'[VideoOf(w)].status = video[VideoOf(w)].status
    <3>1. Ended(VideoOf(w), w)' => writer'[VideoOf(w)] = w /\ video'[VideoOf(w)].status \in Ends
      BY <2>1 DEF Ended
    <3> DEFINE v == VideoOf(w)
    <3>2. v \in Videos BY <2>1
    <3> HIDE DEF v
    <3>3. writer'[v] = w /\ video'[v].status \in Ends =>
            Ended(v, w) /\ video'[v].status = video[v].status
      BY <1>3, <3>2, EndedByItself DEF Ended
    <3> QED BY <3>1, <3>3 DEF v
  <2> QED BY <1>1, <1>3, <2>1, <2>2 DEF At
<1>4. CASE worker'[w].pc \in {"idle", "find"} BY <1>a, <1>4 DEF WorkingPc
<1>5. CASE worker'[w] = worker[w] /\ ~Busy(w) BY <1>a, <1>5 DEF Busy, WorkingPc
<1> QED BY <1>2, <1>3, <1>4, <1>5, WorkerMoves
\* ClientInv is inductive when no call fails.
LEMMA ClientInvStep ==
  ASSUME "fault" \notin Env, FeedInv, PercentInv, NoPatching, HandlerInv, ClientInv, FeedNext
  PROVE  ClientInv'
<1>0. /\ client \in [Clients -> Client]
      /\ FeedTypeOK'
  BY FeedTypeStep DEF FeedInv, FeedTypeOK
<1>1. SUFFICES ASSUME NEW c \in Clients, NEW w, NEW v, w = client'[c].at, v = client'[c].room,
                      v # None, client'[c].fetched, Ended(v, w)'
               PROVE  \/ video'[v].status \in client'[c].known
                      \/ worker'[w].pc \in {"report", "emit"} /\ VideoOf(w)' = v
  BY DEF ClientInv, Told
<1>2. w \in Workers /\ v \in Videos /\ client[c] \in Client /\ client'[c] \in Client
  BY <1>0, <1>1, ApiAssumption DEF FeedTypeOK, Client
<1>3. ASSUME client[c].at = w, client[c].room = v, client[c].fetched, Ended(v, w)
      PROVE  \/ video[v].status \in client[c].known
             \/ worker[w].pc \in {"report", "emit"} /\ VideoOf(w) = v
  BY <1>1, <1>3 DEF ClientInv, Told
<1>4. CASE HandleAndEmit(w)
  <2>0. client[c].at = w /\ client[c].room = v /\ client[c].fetched
    BY <1>1, <1>4, <1>2, HandlerToClients DEF FeedInv
  <2>a. writer'[v] = w /\ video'[v].status \in Ends BY <1>1 DEF Ended
  <2>b. ~StartAttempt(w) \/ v # VideoOf(w) \/ video'[v].status = video[v].status
    BY <1>2, <1>4, <2>a, HandlerStatus DEF Ends, StartAttempt, Complete, MarkFailed, At
  <2>1. CASE v # VideoOf(w)
    <3>1. client'[c] = client[c]
      BY <1>2, <1>4, <2>0, <2>1, HandlerToClients DEF Watches, FeedInv
    <3>2. video'[v].status = video[v].status /\ writer'[v] = writer[v]
      BY <1>2, <1>4, <2>1, HandlerStatus
    <3> QED BY <1>3, <2>0, <2>1, <2>a, <3>1, <3>2 DEF Ended
  <2>2. CASE v = VideoOf(w) /\ Complete(w)
    <3>1. worker'[w].pc = "report" /\ worker'[w].job = worker[w].job /\ Busy(w)
      BY <1>2, <2>2, GotoMoves DEF Complete, FeedInv, Inv, TypeOK, At, Busy
    <3> QED BY <1>2, <2>2, <3>1, SameVideo
  <2>3. CASE v = VideoOf(w) /\ MarkFailed(w)
    <3>1. worker'[w].pc = "emit" /\ worker'[w].job = worker[w].job /\ Busy(w)
      BY <1>2, <2>3, GotoMoves DEF MarkFailed, FeedInv, Inv, TypeOK, At, Busy
    <3> QED BY <1>2, <2>3, <3>1, SameVideo
  <2>4. CASE v = VideoOf(w) /\ ~Complete(w) /\ ~MarkFailed(w)
    <3>1. video'[v].status = video[v].status /\ writer'[v] = writer[v]
      BY <1>2, <1>4, <2>4, <2>b, HandlerStatus
    <3>2. Ended(v, w) BY <2>a, <3>1 DEF Ended
    <3>3. worker[w].pc \notin WorkingPc BY <1>2, <2>4, <3>2 DEF HandlerInv
    <3>4. ASSUME NEW status, onVideoEnded(w, status), video[v].status = status
          PROVE  video'[v].status \in client'[c].known
      <4>1. client'[c] = [client[c] EXCEPT !.known = @ \cup {status}]
        BY <1>2, <2>0, <2>4, <3>4, EndPushed DEF Watches
      <4> QED BY <1>2, <3>1, <3>4, <4>1 DEF Client
    <3>5. CASE ReportCompleted(w) /\ onVideoEnded(w, "COMPLETED")
      <4>1. video[v].status = "COMPLETED"
        BY <1>2, <2>4, <3>2, <3>5 DEF HandlerInv, ReportCompleted
      <4> QED BY <3>4, <3>5, <4>1
    <3>6. CASE EmitFailed(w) /\ onVideoEnded(w, "FAILED")
      <4>1. video[v].status = "FAILED"
        BY <1>2, <2>4, <3>2, <3>6 DEF HandlerInv, EmitFailed
      <4> QED BY <3>4, <3>6, <4>1
    <3>7. CASE UNCHANGED client /\ worker[w].pc \notin {"report", "emit"}
      BY <1>3, <2>0, <3>1, <3>2, <3>7
    <3>8. ASSUME EnhancePrompt(w) \/ Poll(w) PROVE FALSE
      BY <3>3, <3>8 DEF EnhancePrompt, Poll, At, WorkingPc
    <3>9. ASSUME \/ FindById(w) \/ StartAttempt(w) \/ GenerateVideo(w) \/ Store(w)
                 \/ Rethrow(w) \/ JobCompleted(w) \/ JobFailed(w)
          PROVE  worker[w].pc \notin {"report", "emit"}
      BY <3>9 DEF FindById, StartAttempt, GenerateVideo, Store, Rethrow, JobCompleted, JobFailed, At
    <3> QED BY <1>4, <2>4, <3>5, <3>6, <3>7, <3>8, <3>9 DEF HandleAndEmit
  <2> QED BY <2>1, <2>2, <2>3, <2>4
<1>5. CASE ~HandleAndEmit(w)
  <2>0. Ended(v, w) /\ video'[v].status = video[v].status
    BY <1>1, <1>2, <1>5, EndedByItself
  <2>1. CASE client'[c] = client[c]
    <3>1. CASE video[v].status \in client[c].known BY <2>0, <2>1, <3>1
    <3>2. CASE worker[w].pc \in {"report", "emit"} /\ VideoOf(w) = v
      <4>1. Busy(w) BY <3>2 DEF Busy
      <4>2. ~CrashAndDisconnect(w)
        <5>1. ASSUME CrashAndDisconnect(w) PROVE client'[c] = Offline
          BY <1>1, <2>1, <5>1 DEF CrashAndDisconnect
        <5> QED BY <1>1, <5>1 DEF Offline
      <4>3. worker'[w] = worker[w] BY <1>2, <1>5, <4>1, <4>2, WorkerMoves
      <4> QED BY <1>2, <3>2, <4>1, <4>3, SameVideo
    <3> QED BY <1>1, <1>3, <2>0, <2>1, <3>1, <3>2
  <2>2. ASSUME NEW u \in Workers, HandleAndEmit(u), Watches(c, u) PROVE FALSE
    BY <1>1, <1>5, <2>2, HandlerToClients DEF Watches, FeedInv
  <2>3. ASSUME \/ client'[c] = Offline
               \/ \E p \in Workers \cup {None} : client'[c] = [Offline EXCEPT !.at = p]
        PROVE  FALSE
    <3>1. ~Offline.fetched /\ \A p : ~[Offline EXCEPT !.at = p].fetched BY DEF Offline
    <3> QED BY <1>1, <2>3, <3>1
  <2>4. ASSUME client[c].room = None,
               \/ \E p \in Workers : client'[c] = [client[c] EXCEPT !.at = p]
               \/ \E u \in Videos : client'[c] = [client[c] EXCEPT !.room = u]
        PROVE  FALSE
    BY <1>1, <1>2, <2>4 DEF PercentInv, Client
  <2>5. CASE getStatus(c)
    <3> DEFINE end == EndIn(StatusResponse(client[c].room))
    <3>1. client'[c] = [client[c] EXCEPT !.fetched = TRUE, !.known = client[c].known \cup end]
      BY <1>0, <2>5 DEF getStatus
    <3> HIDE DEF end
    <3>2. client'[c].known = client[c].known \cup end /\ client'[c].room = client[c].room
      BY <1>2, <3>1 DEF Client
    <3>3. video[v].status \in end BY <1>1, <2>0, <3>2 DEF end, EndIn, StatusResponse, Ended, Ends
    <3> QED BY <2>0, <3>2, <3>3
  <2> QED BY <2>1, <2>2, <2>3, <2>4, <2>5, ClientMoves
<1> QED BY <1>4, <1>5

\* When neither PATCH requests nor failing calls are about, a client that asked
\* for the status has heard of every end its own process brought, however
\* handlers, other processes, crashes and other clients interleave.
THEOREM EndsAreTold ==
  ASSUME "patch" \notin Env, "fault" \notin Env PROVE FeedSpec => []MissedOnlyElsewhere
<1> DEFINE I == HandlerInv /\ ClientInv
<1>1. FeedInit => I
  BY DEF FeedInit, Init, HandlerInv, ClientInv, Idle, At, WorkingPc, Offline
<1>2. FeedInv /\ PercentInv /\ RowInv /\ I /\ [FeedNext]_allVars => I'
  <2>1. ASSUME I, UNCHANGED allVars PROVE I'
    BY <2>1 DEF HandlerInv, ClientInv, Told, Ended, At, VideoOf, JobOf, allVars, vars, feedVars
  <2> QED BY <2>1, HandlerInvStep, ClientInvStep DEF RowInv
<1>3. FeedInv /\ I => MissedOnlyElsewhere
  <2>1. ASSUME FeedInv, NEW c \in Clients, client[c].room # None PROVE client[c].at \in Workers
    BY <2>1, ApiAssumption DEF FeedInv, FeedTypeOK, Client
  <2> QED BY <2>1 DEF ClientInv, Told, Ended, Ends, MissedOnlyElsewhere
<1>4. FeedSpec => []RowInv
  <2>1. Spec => []RowInv BY RowInvariance
  <2> QED BY <2>1, FeedIsPipeline, PTL
<1> HIDE DEF I
<1> QED BY <1>1, <1>2, <1>3, <1>4, FeedInvariance, PercentInvariance, PTL DEF FeedSpec
=============================================================================
