----------------------------- MODULE VideoFeed -----------------------------
(***************************************************************************)
(* The pipeline with the clients that watch it: the Socket.IO rooms of     *)
(* VideoGateway, fed by the domain events of the handlers that run in the  *)
(* same process, and GET /videos/:id, which any process answers from the   *)
(* row.                                                                     *)
(*                                                                         *)
(* EventEmitter2 stays within a process, and only AppModule imports        *)
(* GatewayModule: what the processor of a WorkerAppModule emits reaches no *)
(* client.  video.created is left out: it tells neither of the progress    *)
(* nor of the end of an attempt.                                           *)
(***************************************************************************)
EXTENDS VideoPipeline

CONSTANTS
  ApiProcesses,  \* the processes among Workers that run AppModule
  Clients

ASSUME ApiAssumption == ApiProcesses \subseteq Workers

VARIABLES
  client,  \* connection and knowledge of each client
  writer   \* history: the process that last changed the status of a row

feedVars == <<client, writer>>
allVars  == <<vars, feedVars>>

\* at: the process the socket is connected to; room: the video subscribed to
\* (a bound: one at a time); percent: the progress last pushed; fetched: has the
\* client asked for the status since it subscribed?  known: the ends it has
\* heard of since the start of the last attempt it heard of.
Client == [at : ApiProcesses \cup {None}, room : Videos \cup {None},
           percent : 0..100, fetched : BOOLEAN, known : SUBSET {"COMPLETED", "FAILED"}]

Offline == [at |-> None, room |-> None, percent |-> 0, fetched |-> FALSE, known |-> {}]

-----------------------------------------------------------------------------
(* Clients.                                                                 *)

\* GatewayModule is among the imports of AppModule, and not among those of
\* WorkerAppModule.
HasGateway(p) == p \in ApiProcesses

Connect(c, p) ==
  /\ HasGateway(p)
  /\ client[c].at = None
  /\ client' = [client EXCEPT ![c].at = p]
  /\ UNCHANGED <<vars, writer>>

\* Mutant: the room keeps the socket.
DisconnectKeepsRoom(c) ==
  /\ client[c].at # None
  /\ client' = [client EXCEPT ![c].at = None]
  /\ UNCHANGED <<vars, writer>>

\* The socket leaves its rooms.
Disconnect(c) ==
  /\ client[c].at # None
  /\ client' = [client EXCEPT ![c] = Offline]
  /\ UNCHANGED <<vars, writer>>

\* Nobody looks whether there is such a video.
handleSubscribe(c, v) ==
  /\ client[c].at # None
  /\ client[c].room = None
  /\ client' = [client EXCEPT ![c].room = v]
  /\ UNCHANGED <<vars, writer>>

handleUnsubscribe(c) ==
  /\ client[c].room # None
  /\ client' = [client EXCEPT ![c] = [Offline EXCEPT !.at = client[c].at]]
  /\ UNCHANGED <<vars, writer>>

\* What the answer says of row v.
StatusResponse(v) == [status |-> video[v].status,
                      resultReady |-> video[v].status = "COMPLETED"]

\* The end an answer tells of, if any.
EndIn(response) ==
  IF response.resultReady THEN {"COMPLETED"} ELSE {response.status} \cap {"FAILED"}

\* GET /videos/:id of a subscriber; 404 if the row is gone.
getStatus(c) ==
  LET v == client[c].room
  IN  /\ v # None
      /\ Exists(v)
      /\ client' = [client EXCEPT ![c] =
           [@ EXCEPT !.fetched = TRUE,
                     !.known = client[c].known \cup EndIn(StatusResponse(v))]]
      /\ UNCHANGED <<vars, writer>>

-----------------------------------------------------------------------------
(* Domain events of the handler in process w, forwarded to the room.        *)

\* The client is in the room of the video that w works on.
InRoom(c, w) == client[c].at = w /\ client[c].room = VideoOf(w)

\* Mutant: the start of an attempt is not forwarded.
onProcessingStartedSilent(w) == UNCHANGED client

onProcessingStarted(w) ==
  client' = [c \in Clients |->
    IF InRoom(c, w) THEN [client[c] EXCEPT !.percent = 0, !.known = {}] ELSE client[c]]

onProgressUpdated(w, percent) ==
  client' = [c \in Clients |->
    IF InRoom(c, w) THEN [client[c] EXCEPT !.percent = percent] ELSE client[c]]

\* Mutant: only a client that has not asked meanwhile is told.
onVideoEndedUnfetched(w, status) ==
  client' = [c \in Clients |->
    IF InRoom(c, w) /\ ~client[c].fetched
      THEN [client[c] EXCEPT !.known = @ \cup {status}] ELSE client[c]]

\* onVideoCompleted and onVideoFailed.
onVideoEnded(w, status) ==
  client' = [c \in Clients |->
    IF InRoom(c, w) THEN [client[c] EXCEPT !.known = @ \cup {status}] ELSE client[c]]

\* The handler of w goes one await further; the events it emits on its way
\* are forwarded at once.
HandleAndEmit(w) ==
  /\ \/ EnhancePrompt(w) /\ onProcessingStarted(w)
     \/ Poll(w) /\ onProgressUpdated(w, PollPercent(worker[w].polls + 1))
     \/ ReportCompleted(w) /\ onVideoEnded(w, "COMPLETED")
     \/ EmitFailed(w) /\ onVideoEnded(w, "FAILED")
     \/ /\ \/ FindById(w) \/ StartAttempt(w) \/ GenerateVideo(w) \/ Store(w)
           \/ Complete(w) \/ MarkFailed(w) \/ Rethrow(w) \/ JobCompleted(w) \/ JobFailed(w)
        /\ UNCHANGED client
  /\ writer' = [v \in Videos |->
       IF video'[v].status # video[v].status THEN w ELSE writer[v]]

\* A process dies with its sockets.
CrashAndDisconnect(w) ==
  /\ Crash(w)
  /\ client' = [c \in Clients |-> IF client[c].at = w THEN Offline ELSE client[c]]
  /\ UNCHANGED writer

\* Everything else of the pipeline, without an event.  (A fault behind the
\* start event is taken for one before it.)
Silent ==
  /\ \/ \E w \in Workers :
          \/ \E q \in Requests : Fetch(w, q)
          \/ Fault(w) \/ MarkFailedFault(w)
     \/ \E q \in Requests :
          Serve(q) \/ Accept(q) \/ StalledCheck(q) \/ LoseLock(q) \/ Abort(q)
     \/ Listen
     \/ \E t \in listener : ListenerFault(t)
     \/ \E v \in Videos : Remove(v)
  /\ UNCHANGED feedVars

-----------------------------------------------------------------------------
FeedInit ==
  /\ Init
  /\ client = [c \in Clients |-> Offline]
  /\ writer = [v \in Videos |-> None]

FeedNext ==
  \/ \E w \in Workers : HandleAndEmit(w) \/ CrashAndDisconnect(w)
  \/ Silent
  \/ \E c \in Clients :
       \/ \E p \in Workers : Connect(c, p)
       \/ \E v \in Videos : handleSubscribe(c, v)
       \/ handleUnsubscribe(c) \/ getStatus(c) \/ Disconnect(c)

\* Clients owe nothing, the pipeline is as fair as it is alone.
FeedSpec == FeedInit /\ [][FeedNext]_allVars /\ Fairness

-----------------------------------------------------------------------------
(* Properties.                                                              *)

\* Every variable keeps its type; only a connected socket is in a room.
FeedTypeOK ==
  /\ client \in [Clients -> Client]
  /\ writer \in [Videos -> Workers \cup {None}]
  /\ \A c \in Clients : client[c].room # None => client[c].at # None

\* A client that subscribed and then asked for the status hears of the end of
\* its video, from the answer or from the event (video.gateway.ts:106-122),
\* unless the attempt that ended it ran in another process than the one the
\* socket is connected to, or is still on its way to the emit.
MissedOnlyElsewhere ==
  \A c \in Clients :
    LET v == client[c].room
    IN  /\ v # None
        /\ client[c].fetched
        /\ video[v].status \in {"COMPLETED", "FAILED"}
        /\ writer[v] = client[c].at
        /\ \A w \in Workers : worker[w].pc \in {"report", "emit"} => VideoOf(w) # v
        => video[v].status \in client[c].known

\* The progress a client is shown only goes back when it is told that a new
\* attempt has started, or gives up watching.
ForwardOnly ==
  [][\A c \in Clients :
       client'[c].percent < client[c].percent =>
         \/ client'[c].room = None
         \/ \E w \in Workers : EnhancePrompt(w) /\ w = client[c].at]_allVars
=============================================================================
