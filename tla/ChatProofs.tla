---------------------------- MODULE ChatProofs ----------------------------
(***************************************************************************)
(* What holds of Chat for any number of sockets and messages and any       *)
(* length of the history.                                                  *)
(***************************************************************************)
EXTENDS Chat, TLAPS

\* The messages members are owed.
Published(m) == send[m] \in {"sent", "kept"}

\* The rows of the table are the messages whose transaction was committed.
RowsInv ==
  \A m \in Messages :
    m \in table <=> send[m] \in {"broadcast", "sent", "orphan", "kept"}

\* A history that is about to be sent to a member lacks nothing the member has
\* not been sent since it entered.
SnapshotInv ==
  \A s \in members : join[s] = "reply" =>
    \A m \in Messages :
      Published(m) => m \in snapshot[s] \cup got[s] \/ Displaced(m)

ChatInv ==
  /\ TypeOK
  /\ RowsInv
  /\ \A s \in Sockets : snapshot[s] \subseteq table
  /\ NoGhosts
  /\ SnapshotInv
  /\ NothingMissed

-----------------------------------------------------------------------------
\* Every step keeps the types.
LEMMA TypeStep == ASSUME TypeOK, Next PROVE TypeOK'
<1> USE DEF TypeOK, JoinPc, SendPc
<1>1. ASSUME NEW s \in Sockets, Connect(s) \/ Disconnect(s) \/ handleLeaveRoom(s) PROVE TypeOK'
  BY <1>1 DEF Connect, Disconnect, handleLeaveRoom, Exit, rows
<1>2. ASSUME NEW s \in Sockets, JoinRoom(s) \/ ReplyHistory(s) \/ HistoryFault(s) PROVE TypeOK'
  BY <1>2 DEF JoinRoom, ReplyHistory, HistoryFault, rows
<1>3. ASSUME NEW s \in Sockets, getRoomHistory(s) PROVE TypeOK'
  BY <1>3 DEF getRoomHistory, rows
<1>4. ASSUME NEW s \in Sockets, NEW m \in Messages, handleSendMessage(s, m) PROVE TypeOK'
  BY <1>4 DEF handleSendMessage, Step, sockets, rows
<1>5. ASSUME NEW m \in Messages, BeginSave(m) PROVE TypeOK'
  <2>1. clock' \in Nat BY <1>5 DEF BeginSave
  <2> QED BY <1>5, <2>1 DEF BeginSave, Step, sockets
<1>6. ASSUME NEW m \in Messages, saveMessage(m) \/ SaveFault(m) PROVE TypeOK'
  BY <1>6 DEF saveMessage, SaveFault, Step, sockets
<1>7. ASSUME NEW m \in Messages, Broadcast(m) PROVE TypeOK'
  BY <1>7 DEF Broadcast, Step, rows
<1>8. ASSUME Crash PROVE TypeOK' BY <1>8 DEF Crash, Exit
<1> QED BY <1>1, <1>2, <1>3, <1>4, <1>5, <1>6, <1>7, <1>8 DEF Next

\* Every step keeps the table in line with the handlers.
LEMMA RowsStep == ASSUME TypeOK, RowsInv, Next PROVE RowsInv'
<1> USE DEF RowsInv, TypeOK
<1>1. ASSUME UNCHANGED <<send, table>> PROVE RowsInv' BY <1>1
<1>2. ASSUME NEW m \in Messages,
             \/ \E s \in Sockets : handleSendMessage(s, m)
             \/ BeginSave(m) \/ saveMessage(m) \/ SaveFault(m) \/ Broadcast(m)
      PROVE  RowsInv'
  BY <1>2 DEF handleSendMessage, BeginSave, saveMessage, SaveFault, Broadcast, Step, rows
<1>3. ASSUME Crash PROVE RowsInv' BY <1>3 DEF Crash, SendPc
<1> QED BY <1>1, <1>2, <1>3 DEF Next, Connect, Disconnect, handleLeaveRoom, JoinRoom,
        getRoomHistory, ReplyHistory, HistoryFault, rows

\* Rows stay as they are, so what is displaced remains so.
LEMMA TableGrows ==
  ASSUME TypeOK, RowsInv, Next
  PROVE  /\ table \subseteq table'
         /\ \A m \in table : createdAt'[m] = createdAt[m]
<1>1. ASSUME NEW n \in Messages, BeginSave(n)
      PROVE  \A m \in table : createdAt'[m] = createdAt[m]
  <2>1. n \notin table BY <1>1 DEF BeginSave, RowsInv
  <2> QED BY <1>1, <2>1 DEF BeginSave, TypeOK
<1>2. UNCHANGED createdAt \/ \E n \in Messages : BeginSave(n)
  BY DEF Next, Connect, Disconnect, handleLeaveRoom, JoinRoom, getRoomHistory, ReplyHistory,
     HistoryFault, handleSendMessage, saveMessage, SaveFault, Broadcast, Crash, rows
<1>3. table \subseteq table'
  BY DEF Next, Connect, Disconnect, handleLeaveRoom, JoinRoom, getRoomHistory, ReplyHistory,
     HistoryFault, handleSendMessage, BeginSave, saveMessage, SaveFault, Broadcast, Crash, rows
<1> QED BY <1>1, <1>2, <1>3

LEMMA DisplacedStep ==
  ASSUME TypeOK, RowsInv, Next, NEW m \in table, Displaced(m)
  PROVE  Displaced(m)'
<1>1. AsNew(m) \subseteq AsNew(m)' BY TableGrows DEF AsNew
<1> QED BY <1>1 DEF Displaced

\* A history lacks a row only if Limit others are as new.
LEMMA HistoryIsComplete ==
  ASSUME NEW S \in SUBSET table, LatestRows(S), NEW m \in table
  PROVE  m \in S \/ Displaced(m)
<1>1. CASE m \notin S
  <2>1. S \subseteq AsNew(m) BY <1>1 DEF LatestRows, AsNew
  <2>2. Cardinality(S) = Limit BY <1>1 DEF LatestRows
  <2> QED BY <2>1, <2>2 DEF Displaced
<1> QED BY <1>1

\* A message becomes one that members are owed by its broadcast or a crash.
LEMMA PublishStep ==
  ASSUME TypeOK, Next, NEW m \in Messages, Published(m)'
  PROVE  Published(m) \/ Broadcast(m) \/ Crash
<1>1. ASSUME NEW n \in Messages,
             \/ \E s \in Sockets : handleSendMessage(s, n)
             \/ BeginSave(n) \/ saveMessage(n) \/ SaveFault(n) \/ Broadcast(n)
      PROVE  Published(m) \/ Broadcast(m)
  BY <1>1 DEF Published, TypeOK, handleSendMessage, BeginSave, saveMessage, SaveFault,
     Broadcast, Step
<1>2. ASSUME UNCHANGED send PROVE Published(m) BY <1>2 DEF Published
<1> QED BY <1>1, <1>2 DEF Next, Connect, Disconnect, handleLeaveRoom, JoinRoom,
        getRoomHistory, ReplyHistory, HistoryFault

-----------------------------------------------------------------------------
\* Every step keeps what clients and handlers hold within the table.
LEMMA GhostStep ==
  ASSUME ChatInv, Next
  PROVE  (\A s \in Sockets : snapshot'[s] \subseteq table') /\ NoGhosts'
<1>0. TypeOK /\ RowsInv /\ NoGhosts /\ \A s \in Sockets : snapshot[s] \subseteq table
  BY DEF ChatInv
<1>1. table \subseteq table' BY <1>0, TableGrows
<1>2. ASSUME NEW s \in Sockets PROVE snapshot'[s] \subseteq table'
  <2>1. CASE \E o \in Sockets : getRoomHistory(o)
    BY <1>0, <1>1, <2>1 DEF getRoomHistory, TypeOK, rows
  <2>2. CASE UNCHANGED snapshot BY <1>0, <1>1, <2>2
  <2> QED BY <2>1, <2>2 DEF Next, Connect, Disconnect, handleLeaveRoom, JoinRoom, ReplyHistory,
     HistoryFault, handleSendMessage, BeginSave, saveMessage, SaveFault, Broadcast, Crash, sockets
<1>3. ASSUME NEW s \in Sockets PROVE got'[s] \subseteq table'
  <2>0. got[s] \subseteq table' /\ snapshot[s] \subseteq table' BY <1>0, <1>1 DEF NoGhosts
  <2>1. CASE \E o \in Sockets : ReplyHistory(o)
    BY <1>0, <2>0, <2>1 DEF ReplyHistory, TypeOK
  <2>2. CASE \E S \in SUBSET Sockets : Exit(S) BY <2>0, <2>2 DEF Exit
  <2>3. CASE \E m \in Messages : Broadcast(m)
    BY <1>0, <2>0, <2>3 DEF Broadcast, RowsInv, rows
  <2>4. CASE UNCHANGED got BY <2>0, <2>4
  <2> QED BY <2>1, <2>2, <2>3, <2>4 DEF Next, Connect, Disconnect, handleLeaveRoom, JoinRoom,
     getRoomHistory, HistoryFault, handleSendMessage, BeginSave, saveMessage, SaveFault, Crash, sockets
<1> QED BY <1>2, <1>3 DEF NoGhosts

\* What a member was sent it keeps as long as it stays.
LEMMA MemberKeeps ==
  ASSUME ChatInv, Next, NEW s \in members, s \in members'
  PROVE  got[s] \subseteq got'[s]
<1>0. TypeOK BY DEF ChatInv
<1>1. CASE \E S \in SUBSET Sockets : Exit(S) BY <1>0, <1>1 DEF Exit, TypeOK
<1>2. CASE \E o \in Sockets : ReplyHistory(o) BY <1>0, <1>2 DEF ReplyHistory, TypeOK
<1>3. CASE \E n \in Messages : Broadcast(n) BY <1>0, <1>3 DEF Broadcast, TypeOK
<1>4. CASE UNCHANGED got BY <1>4
<1> QED BY <1>1, <1>2, <1>3, <1>4 DEF Next, Connect, Disconnect, handleLeaveRoom, JoinRoom,
     getRoomHistory, HistoryFault, handleSendMessage, BeginSave, saveMessage, SaveFault, Crash, sockets

\* Every step keeps the histories on their way complete.
LEMMA SnapshotStep == ASSUME ChatInv, Next PROVE SnapshotInv'
<1>0. TypeOK /\ RowsInv /\ SnapshotInv BY DEF ChatInv
<1> SUFFICES ASSUME NEW s \in members', join'[s] = "reply", NEW m \in Messages, Published(m)'
             PROVE  m \in snapshot'[s] \cup got'[s] \/ Displaced(m)'
  BY DEF SnapshotInv
<1>1. s \in Sockets BY <1>0, TypeStep DEF TypeOK
<1>2. CASE getRoomHistory(s)
  <2>1. Published(m) /\ m \in table BY <1>0, <1>2 DEF getRoomHistory, Published, RowsInv
  <2>2. PICK S \in SUBSET table : LatestRows(S) /\ snapshot' = [snapshot EXCEPT ![s] = S]
    BY <1>2 DEF getRoomHistory
  <2>3. m \in S \/ Displaced(m) BY <2>1, <2>2, HistoryIsComplete
  <2> QED BY <1>0, <1>1, <2>1, <2>2, <2>3, DisplacedStep DEF TypeOK
<1>3. CASE ~getRoomHistory(s)
  <2>1. ~Crash BY <1>0, <1>1 DEF Crash, Exit, TypeOK
  <2>2. join[s] = "reply" /\ s \in members /\ snapshot'[s] = snapshot[s]
    BY <1>0, <1>1, <1>3, <2>1 DEF TypeOK, Next, Connect, Disconnect, handleLeaveRoom, Exit,
       JoinRoom, getRoomHistory, ReplyHistory, HistoryFault, handleSendMessage, BeginSave,
       saveMessage, SaveFault, Broadcast, sockets
  <2>3. CASE Broadcast(m)
    BY <1>1, <2>2, <2>3 DEF Broadcast
  <2>4. CASE Published(m)
    <3>1. m \in table BY <1>0, <2>4 DEF Published, RowsInv
    <3>2. m \in snapshot[s] \cup got[s] \/ Displaced(m) BY <1>0, <2>2, <2>4 DEF SnapshotInv
    <3>3. got[s] \subseteq got'[s] BY <2>2, MemberKeeps
    <3> QED BY <1>0, <2>2, <3>1, <3>2, <3>3, DisplacedStep
  <2> QED BY <1>0, <2>1, <2>3, <2>4, PublishStep
<1> QED BY <1>2, <1>3

\* Every step keeps NothingMissed.
LEMMA MissedStep == ASSUME ChatInv, Next PROVE NothingMissed'
<1>0. TypeOK /\ RowsInv /\ SnapshotInv /\ NothingMissed BY DEF ChatInv
<1> SUFFICES ASSUME NEW s \in settled', NEW m \in Messages, Published(m)'
             PROVE  m \in got'[s] \/ Displaced(m)'
  BY DEF NothingMissed, Published
<1>1. s \in Sockets /\ s \in members' BY <1>0, TypeStep DEF TypeOK
<1>2. ~Crash BY <1>0, <1>1 DEF Crash, Exit, TypeOK
<1>3. CASE ReplyHistory(s)
  <2>1. s \in members /\ join[s] = "reply" /\ Published(m) /\ got'[s] = got[s] \cup snapshot[s]
    BY <1>0, <1>1, <1>3 DEF ReplyHistory, TypeOK, Published
  <2>2. m \in table BY <1>0, <2>1 DEF Published, RowsInv
  <2> QED BY <1>0, <2>1, <2>2, DisplacedStep DEF SnapshotInv
<1>4. CASE ~ReplyHistory(s)
  <2>1. s \in settled /\ s \in members
    BY <1>0, <1>1, <1>2, <1>4 DEF TypeOK, Next, Connect, Disconnect, handleLeaveRoom, Exit,
       JoinRoom, getRoomHistory, ReplyHistory, HistoryFault, handleSendMessage, BeginSave,
       saveMessage, SaveFault, Broadcast, sockets
  <2>2. CASE Broadcast(m) BY <1>1, <2>1, <2>2 DEF Broadcast
  <2>3. CASE Published(m)
    <3>1. m \in table BY <1>0, <2>3 DEF Published, RowsInv
    <3>2. m \in got[s] \/ Displaced(m) BY <1>0, <2>1, <2>3 DEF NothingMissed, Published
    <3>3. got[s] \subseteq got'[s] BY <1>1, <2>1, MemberKeeps
    <3> QED BY <1>0, <3>1, <3>2, <3>3, DisplacedStep
  <2> QED BY <1>0, <1>2, <2>2, <2>3, PublishStep
<1> QED BY <1>3, <1>4

-----------------------------------------------------------------------------
LEMMA ChatInductive == Spec => []ChatInv
<1>1. Init => ChatInv
  BY DEF Init, ChatInv, TypeOK, RowsInv, NoGhosts, SnapshotInv, NothingMissed, JoinPc, SendPc
<1>2. ChatInv /\ [Next]_vars => ChatInv'
  <2>1. ASSUME ChatInv, Next PROVE ChatInv'
    BY <2>1, TypeStep, RowsStep, GhostStep, SnapshotStep, MissedStep DEF ChatInv
  <2>2. ASSUME ChatInv, UNCHANGED vars PROVE ChatInv'
    BY <2>2 DEF ChatInv, TypeOK, RowsInv, NoGhosts, SnapshotInv, NothingMissed, Published,
       Displaced, AsNew, vars, sockets, rows
  <2> QED BY <2>1, <2>2
<1> QED BY <1>1, <1>2, PTL DEF Spec

\* Every variable of the chat room keeps its type.
THEOREM ChatTypeCorrect == Spec => []TypeOK
BY ChatInductive, PTL DEF ChatInv

\* No interleaving of joins, sends, leaves and crashes leaves a hole between
\* the history of handleJoinRoom and the broadcasts of handleSendMessage.
THEOREM MembersMissNothing == Spec => []NothingMissed
BY ChatInductive, PTL DEF ChatInv

\* What any client was shown is in the messages table.
THEOREM MembersSeeRowsOnly == Spec => []NoGhosts
BY ChatInductive, PTL DEF ChatInv
=============================================================================
