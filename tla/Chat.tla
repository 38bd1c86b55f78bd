-------------------------------- MODULE Chat --------------------------------
(***************************************************************************)
(* One room of ChatGateway (rooms have nothing to do with each other): the *)
(* sockets of one API process, the handlers of join_room, leave_room and   *)
(* send_message, and the messages table.                                   *)
(*                                                                         *)
(* Membership lives in the process (there is no Socket.IO adapter), rows   *)
(* in PostgreSQL.  handleJoinRoom enters the room before it asks for the   *)
(* history, handleSendMessage saves before it broadcasts: between the two  *)
(* steps of one handler, those of any other run.                           *)
(***************************************************************************)
EXTENDS Integers, FiniteSets

CONSTANTS
  Sockets,   \* clients, each with one connection at a time
  Messages,  \* calls of send_message that pass validation
  Limit      \* length of the history (50 in the code)

ASSUME LimitAssumption == Limit \in Nat \ {0}

VARIABLES
  online,    \* sockets whose handshake the JWT middleware accepted
  members,   \* sockets in the room
  join,      \* where the handleJoinRoom of a socket stands
  snapshot,  \* the history that handler has read
  settled,   \* members whose history has arrived since they entered
  got,       \* what each client has been sent since it entered
  send,      \* where the handleSendMessage of a message stands
  table,     \* the messages table
  createdAt, \* its createdAt column
  clock      \* PostgreSQL's now()

sockets == <<online, members, join, snapshot, settled, got>>
rows    == <<table, createdAt, clock>>
vars    == <<sockets, send, rows>>

\* orphan: saved, but the handler was told it was not; kept: saved, but the
\* process died before the broadcast.
SendPc == {"none", "begin", "save", "broadcast", "sent", "lost", "orphan", "kept"}
JoinPc == {"idle", "query", "reply"}

-----------------------------------------------------------------------------
(* Connections.                                                             *)

\* The middleware verified the token (otherwise the handshake is refused).
Connect(s) ==
  /\ s \notin online
  /\ online' = online \cup {s}
  /\ UNCHANGED <<members, join, snapshot, settled, got, send, rows>>

\* The sockets in S are out of the room; the client's view is void.
Exit(S) ==
  /\ members' = members \ S
  /\ settled' = settled \ S
  /\ got' = [s \in Sockets |-> IF s \in S THEN {} ELSE got[s]]

\* Mutant: the room keeps the socket.
DisconnectKeepsRoom(s) ==
  /\ s \in online
  /\ online' = online \ {s}
  /\ join' = [join EXCEPT ![s] = "idle"]
  /\ UNCHANGED <<members, settled, got, snapshot, send, rows>>

\* The socket leaves its rooms; what its handlers still send reaches nobody.
Disconnect(s) ==
  /\ s \in online
  /\ online' = online \ {s}
  /\ Exit({s})
  /\ join' = [join EXCEPT ![s] = "idle"]
  /\ UNCHANGED <<snapshot, send, rows>>

\* leave_room.
handleLeaveRoom(s) ==
  /\ s \in online
  /\ Exit({s})
  /\ UNCHANGED <<online, join, snapshot, send, rows>>

-----------------------------------------------------------------------------
(* handleJoinRoom.                                                          *)

\* Enter the room ...  (A bound: one join_room of a socket at a time.)
JoinRoom(s) ==
  /\ s \in online
  /\ join[s] = "idle"
  /\ members' = members \cup {s}
  /\ join' = [join EXCEPT ![s] = "query"]
  /\ UNCHANGED <<online, snapshot, settled, got, send, rows>>

\* S is an answer to: the last Limit messages, newest first.
LatestRows(S) ==
  /\ S \subseteq table
  /\ IF S = table THEN Cardinality(S) <= Limit ELSE Cardinality(S) = Limit
  /\ \A m \in table \ S, n \in S : createdAt[n] >= createdAt[m]

\* ... select the history ...
getRoomHistory(s) ==
  /\ join[s] = "query"
  /\ \E S \in SUBSET table :
       LatestRows(S) /\ snapshot' = [snapshot EXCEPT ![s] = S]
  /\ join' = [join EXCEPT ![s] = "reply"]
  /\ UNCHANGED <<online, members, settled, got, send, rows>>

\* ... and send it to the socket.  (A client that has left ignores it.)
ReplyHistory(s) ==
  /\ join[s] = "reply"
  /\ join' = [join EXCEPT ![s] = "idle"]
  /\ IF s \in members
       THEN /\ settled' = settled \cup {s}
            /\ got' = [got EXCEPT ![s] = @ \cup snapshot[s]]
       ELSE UNCHANGED <<settled, got>>
  /\ UNCHANGED <<online, members, snapshot, send, rows>>

\* The SELECT fails: the client hears 'exception' and stays in the room.
HistoryFault(s) ==
  /\ join[s] = "query"
  /\ join' = [join EXCEPT ![s] = "idle"]
  /\ UNCHANGED <<online, members, snapshot, settled, got, send, rows>>

-----------------------------------------------------------------------------
(* handleSendMessage: pc names the await it is about to make.               *)

Step(m, pc) == send' = [send EXCEPT ![m] = pc]

\* Only members may send.
handleSendMessage(s, m) ==
  /\ s \in members
  /\ send[m] = "none"
  /\ Step(m, "begin")
  /\ UNCHANGED <<sockets, rows>>

\* save() opens a transaction, whose start is what now() answers in it ...
BeginSave(m) ==
  /\ send[m] = "begin"
  /\ clock' \in {clock, clock + 1}
  /\ createdAt' = [createdAt EXCEPT ![m] = clock']
  /\ Step(m, "save")
  /\ UNCHANGED <<sockets, table>>

\* ... and commits.
saveMessage(m) ==
  /\ send[m] = "save"
  /\ table' = table \cup {m}
  /\ Step(m, "broadcast")
  /\ UNCHANGED <<sockets, createdAt, clock>>

\* Mutant: the error is swallowed, and the broadcast goes on.
SaveFaultSwallowed(m) ==
  /\ send[m] \in {"begin", "save"}
  /\ Step(m, "broadcast")
  /\ UNCHANGED <<sockets, rows>>

\* save() throws: nothing is broadcast.  The row may be there nevertheless,
\* when only the answer to COMMIT was lost.
SaveFault(m) ==
  /\ \/ /\ send[m] \in {"begin", "save"}
        /\ Step(m, "lost")
        /\ UNCHANGED table
     \/ /\ send[m] = "save"
        /\ Step(m, "orphan")
        /\ table' = table \cup {m}
  /\ UNCHANGED <<sockets, createdAt, clock>>

\* Mutant: a socket is in the room only once its history was sent.
BroadcastToSettled(m) ==
  /\ send[m] = "broadcast"
  /\ got' = [s \in Sockets |-> IF s \in settled THEN got[s] \cup {m} ELSE got[s]]
  /\ Step(m, "sent")
  /\ UNCHANGED <<online, members, join, snapshot, settled, rows>>

\* server.to(room).emit: everyone who is in the room now.
Broadcast(m) ==
  /\ send[m] = "broadcast"
  /\ got' = [s \in Sockets |-> IF s \in members THEN got[s] \cup {m} ELSE got[s]]
  /\ Step(m, "sent")
  /\ UNCHANGED <<online, members, join, snapshot, settled, rows>>

\* The process dies with its sockets and handlers; a COMMIT on its way is
\* executed or not.
Crash ==
  /\ online # {} \/ \E m \in Messages : send[m] \in {"begin", "save", "broadcast"}
  /\ online' = {}
  /\ Exit(Sockets)
  /\ join' = [s \in Sockets |-> "idle"]
  /\ \E committed \in SUBSET {m \in Messages : send[m] = "save"} :
       /\ table' = table \cup committed
       /\ send' = [m \in Messages |->
            IF send[m] = "broadcast" \/ m \in committed THEN "kept"
            ELSE IF send[m] \in {"begin", "save"} THEN "lost" ELSE send[m]]
  /\ UNCHANGED <<snapshot, createdAt, clock>>

-----------------------------------------------------------------------------
Init ==
  /\ online    = {}
  /\ members   = {}
  /\ join      = [s \in Sockets |-> "idle"]
  /\ snapshot  = [s \in Sockets |-> {}]
  /\ settled   = {}
  /\ got       = [s \in Sockets |-> {}]
  /\ send      = [m \in Messages |-> "none"]
  /\ table     = {}
  /\ createdAt = [m \in Messages |-> 0]
  /\ clock     = 0

Next ==
  \/ \E s \in Sockets :
       \/ Connect(s) \/ Disconnect(s) \/ handleLeaveRoom(s)
       \/ JoinRoom(s) \/ getRoomHistory(s) \/ ReplyHistory(s) \/ HistoryFault(s)
       \/ \E m \in Messages : handleSendMessage(s, m)
  \/ \E m \in Messages :
       BeginSave(m) \/ saveMessage(m) \/ SaveFault(m) \/ Broadcast(m)
  \/ Crash

Spec == Init /\ [][Next]_vars

-----------------------------------------------------------------------------
(* Properties.                                                              *)

\* Every variable keeps its type.
TypeOK ==
  /\ online    \subseteq Sockets
  /\ members   \subseteq online
  /\ join      \in [Sockets -> JoinPc]
  /\ snapshot  \in [Sockets -> SUBSET Messages]
  /\ settled   \subseteq members
  /\ got       \in [Sockets -> SUBSET Messages]
  /\ send      \in [Messages -> SendPc]
  /\ table     \subseteq Messages
  /\ createdAt \in [Messages -> Nat]
  /\ clock     \in Nat

\* The rows a history may show instead of m.
AsNew(m) == {n \in table \ {m} : createdAt[n] >= createdAt[m]}

\* m is out of reach of a history.
Displaced(m) == \E S \in SUBSET AsNew(m) : Cardinality(S) = Limit

\* Joining leaves no hole (handleJoinRoom, chat.gateway.ts:105-109): a member
\* whose history has arrived has been sent every message that was broadcast,
\* before or after it entered, and those whose broadcast a crash prevented,
\* except the ones that Limit others push out of the history.
NothingMissed ==
  \A s \in settled, m \in Messages :
    send[m] \in {"sent", "kept"} => m \in got[s] \/ Displaced(m)

\* Nobody is shown a message that is not in the table (saveMessage is awaited
\* before the emit, chat.gateway.ts:146-163): what members saw, a later join
\* will find.
NoGhosts ==
  \A s \in Sockets : got[s] \subseteq table
=============================================================================
