--------------------------- MODULE LibraryProofs ---------------------------
(***************************************************************************)
(* What holds of Library for every number of accounts, names, videos and   *)
(* items per page: types, that nobody is refused an account without        *)
(* another registration having won it, that no video outlives its account, *)
(* and what paging by offset costs a client while the list changes.        *)
(*                                                                         *)
(* The first three are proved together.  The types need that the videos a  *)
(* walk loses or gains in a step are finitely many; RefusedByAWinner needs *)
(* that every account in the table is that of a call that was let in, with *)
(* the email of that call (AccountsRegistered); VideosHaveOwners needs     *)
(* that the insert of an account never replaces one.                       *)
(*                                                                         *)
(* The walk.  The videos of a list have places, and one that leaves or     *)
(* enters moves the places behind it by one.  So a departure carries at    *)
(* most one unseen video to where the client has been (Passed), and an     *)
(* arrival carries at most one seen video to where it has yet to go        *)
(* (Ahead).  Reading a page turns what stood ahead on it into repetitions. *)
(***************************************************************************)
EXTENDS Library, FiniteSetTheorems, TLAPS

\* A row that was inserted is an account.
LEMMA AccountsAreRows == \A r \in Account : r # None
BY NoneAssumption DEF Account

\* Only videos match a query, and finitely many of them.
LEMMA MatchingSize ==
  ASSUME NEW t, NEW s PROVE Cardinality(Matching(t) \ Matching(s)) \in Nat
<1>1. Matching(t) \ Matching(s) \subseteq Videos BY DEF Matching
<1>2. IsFiniteSet(Matching(t) \ Matching(s)) BY <1>1, FiniteAssumption, FS_Subset
<1> QED BY <1>2, FS_CardinalityType

\* Writing a table of videos keeps the type of the walk.
LEMMA WriteType ==
  ASSUME TypeOK, NEW t \in [Videos -> Video], Write(t)
  PROVE  video' \in [Videos -> Video] /\ walk' \in Walk
<1>1. /\ Cardinality(Matching(t) \ Matching(video)) \in Nat
      /\ Cardinality(Matching(video) \ Matching(t)) \in Nat
  BY MatchingSize
<1> DEFINE came == walk.came + Cardinality(Matching(t) \ Matching(video))
           left == walk.left + Cardinality(Matching(video) \ Matching(t))
           stayed == walk.stayed \cap Matching(t)
<1>2. came \in Nat /\ left \in Nat /\ stayed \in SUBSET Videos BY <1>1 DEF TypeOK, Walk
<1>3. walk' = [[[walk EXCEPT !.stayed = stayed] EXCEPT !.came = came] EXCEPT !.left = left]
  BY DEF Write, TypeOK, Walk
<1> HIDE DEF came, left, stayed
<1>4. [walk EXCEPT !.stayed = stayed] \in Walk BY <1>2 DEF TypeOK, Walk
<1>5. [[walk EXCEPT !.stayed = stayed] EXCEPT !.came = came] \in Walk BY <1>2, <1>4 DEF Walk
<1>6. walk' \in Walk BY <1>2, <1>3, <1>5 DEF Walk
<1> QED BY <1>6 DEF Write


\* A registration that has not inserted its row yet knows what to insert, and
\* its account does not exist.
NotYetInserted ==
  \A u \in Users :
    /\ register[u].pc \in {"idle", "insert"} => user[u] = None
    /\ register[u].pc = "insert" => register[u].email # None

\* A video that is being created, or exists, has an owner.
OwnersKnown ==
  \A v \in Videos : video[v].pc \in {"auth", "insert", "row"} => video[v].owner \in Users

\* An account is that of a call that was let in, and has kept its email.
AccountsRegistered ==
  \A u \in Users :
    Exists(u) => register[u].pc = "created" /\ register[u].email = user[u].email

\* The inductive invariant.
LibraryInv ==
  /\ TypeOK /\ NotYetInserted /\ OwnersKnown
  /\ AccountsRegistered /\ RefusedByAWinner /\ VideosHaveOwners

\* The row a registration inserts.
LEMMA InsertedRow ==
  ASSUME TypeOK, NotYetInserted, NEW u \in Users, CreateUser(u)
  PROVE  [email |-> register[u].email, username |-> register[u].username] \in Account
BY DEF TypeOK, NotYetInserted, CreateUser, Registration, Account

LEMMA TypeStep == ASSUME TypeOK, NotYetInserted, Next PROVE TypeOK'
<1>0. /\ user \in [Users -> Account \cup {None}] /\ register \in [Users -> Registration]
      /\ video \in [Videos -> Video] /\ clock \in Nat /\ walk \in Walk /\ moves \in 0..MaxMoves
  BY DEF TypeOK
<1>a. ASSUME NEW pc \in VideoPc PROVE Blank(pc) \in Video
  BY <1>a DEF Blank, Video, Statuses
<1>b. ASSUME NEW t \in [Videos -> Video], Write(t), UNCHANGED <<register, clock>>,
             user' \in [Users -> Account \cup {None}], moves' \in 0..MaxMoves
      PROVE  TypeOK'
  <2>1. video' \in [Videos -> Video] /\ walk' \in Walk BY <1>b, WriteType
  <2> QED BY <1>0, <1>b, <2>1 DEF TypeOK
<1>1. ASSUME NEW u \in Users, NEW e \in Emails, NEW n \in Usernames \cup {None}, Register(u, e, n)
      PROVE  TypeOK'
  BY <1>0, <1>1 DEF Register, TypeOK, Registration
<1>2. ASSUME NEW u \in Users, CreateUser(u) PROVE TypeOK'
  <2>1. user' \in [Users -> Account \cup {None}]
    BY <1>0, <1>2, InsertedRow DEF CreateUser
  <2>2. register' \in [Users -> Registration] BY <1>0, <1>2 DEF CreateUser, Registration
  <2> QED BY <1>0, <1>2, <2>1, <2>2 DEF CreateUser, TypeOK
<1>3. ASSUME NEW u \in Users, NEW n \in Usernames, UpdateMe(u, n) PROVE TypeOK'
  <2>1. user[u] \in Account BY <1>0, <1>3 DEF UpdateMe, Exists
  <2>2. [user[u] EXCEPT !.username = n] \in Account BY <2>1 DEF Account
  <2> QED BY <1>0, <1>3, <2>2 DEF UpdateMe, TypeOK
<1>4. ASSUME NEW u \in Users, RemoveUser(u) PROVE TypeOK'
  <2> DEFINE t == [v \in Videos |-> IF video[v].pc = "row" /\ video[v].owner = u
                                      THEN Blank("gone") ELSE video[v]]
  <2>1. t \in [Videos -> Video] BY <1>0, <1>a DEF VideoPc
  <2>2. Write(t) BY <1>4 DEF RemoveUser
  <2> HIDE DEF t
  <2> QED BY <1>0, <1>4, <1>b, <2>1, <2>2 DEF RemoveUser
<1>5. ASSUME NEW u \in Users, NEW f \in {{"asked"}, Statuses}, StartWalk(u, f) PROVE TypeOK'
  <2> DEFINE stayed == {v \in Videos : /\ video[v].pc = "row" /\ video[v].owner = u
                                       /\ video[v].status \in f}
  <2>1. f \in SUBSET Statuses /\ stayed \in SUBSET Videos BY DEF Statuses
  <2>2. walk' = [[[[[walk EXCEPT !.pc = "items"] EXCEPT !.user = u] EXCEPT !.filter = f]
                  EXCEPT !.page = 1] EXCEPT !.stayed = stayed]
    BY <1>0, <1>5 DEF StartWalk, Walk
  <2> HIDE DEF stayed
  <2>3. [[walk EXCEPT !.pc = "items"] EXCEPT !.user = u] \in Walk BY <1>0 DEF Walk
  <2>4. [[[walk EXCEPT !.pc = "items"] EXCEPT !.user = u] EXCEPT !.filter = f] \in Walk
    BY <2>1, <2>3 DEF Walk
  <2>5. walk' \in Walk BY <2>1, <2>2, <2>4 DEF Walk
  <2> QED BY <1>0, <1>5, <2>5 DEF StartWalk, TypeOK
<1>6. ASSUME NEW v \in Videos, NEW u \in Users, validate(v, u) PROVE TypeOK'
  <2>1. [[video[v] EXCEPT !.pc = "auth"] EXCEPT !.owner = u] \in Video
    BY <1>0 DEF Video, VideoPc
  <2>2. video' = [video EXCEPT ![v] = [[video[v] EXCEPT !.pc = "auth"] EXCEPT !.owner = u]]
    BY <1>0, <1>6 DEF validate, Video
  <2> QED BY <1>0, <1>6, <2>1, <2>2 DEF validate, TypeOK
<1>7. ASSUME NEW v \in Videos, BeginCreate(v) PROVE TypeOK'
  <2>1. clock' \in Nat BY <1>0, <1>7 DEF BeginCreate
  <2>2. [[video[v] EXCEPT !.pc = "insert"] EXCEPT !.createdAt = clock'] \in Video
    BY <1>0, <2>1 DEF Video, VideoPc
  <2>3. video' = [video EXCEPT ![v] =
                    [[video[v] EXCEPT !.pc = "insert"] EXCEPT !.createdAt = clock']]
    BY <1>0, <1>7 DEF BeginCreate, Video
  <2> QED BY <1>0, <1>7, <2>1, <2>2, <2>3 DEF BeginCreate, TypeOK
<1>8. ASSUME NEW v \in Videos, createAndQueue(v) PROVE TypeOK'
  <2> DEFINE t == [video EXCEPT ![v] =
       IF Exists(video[v].owner) THEN [video[v] EXCEPT !.pc = "row"] ELSE Blank("gone")]
  <2>1. [video[v] EXCEPT !.pc = "row"] \in Video BY <1>0 DEF Video, VideoPc
  <2>2. t \in [Videos -> Video] BY <1>0, <1>a, <2>1 DEF VideoPc
  <2>3. Write(t) BY <1>8 DEF createAndQueue
  <2> HIDE DEF t
  <2> QED BY <1>0, <1>8, <1>b, <2>2, <2>3 DEF createAndQueue
<1>9. ASSUME NEW v \in Videos, NEW u \in Users, RemoveVideo(v, u) PROVE TypeOK'
  <2>1. [video EXCEPT ![v] = Blank("gone")] \in [Videos -> Video]
    BY <1>0, <1>a DEF VideoPc
  <2> QED BY <1>0, <1>9, <1>b, <2>1 DEF RemoveVideo
<1>10. ASSUME NEW v \in Videos, MoveVideo(v) PROVE TypeOK'
  <2>1. PICK s \in Statuses : Write([video EXCEPT ![v].status = s]) BY <1>10 DEF MoveVideo
  <2>2. [video EXCEPT ![v].status = s] \in [Videos -> Video] BY <1>0 DEF Video
  <2>3. moves' \in 0..MaxMoves BY <1>0, <1>10, MovesAssumption DEF MoveVideo
  <2> QED BY <1>0, <1>10, <1>b, <2>1, <2>2, <2>3 DEF MoveVideo
<1>11. ASSUME SelectItems PROVE TypeOK'
  <2> DEFINE shown == [v \in Videos |-> IF v \in Matching(video) /\ OnPage(v, walk.page)
                                          THEN walk.shown[v] + 1 ELSE walk.shown[v]]
  <2>1. shown \in [Videos -> Nat] BY <1>0 DEF Walk
  <2>2. \/ walk' = [[walk EXCEPT !.pc = "total"] EXCEPT !.shown = shown]
        \/ walk' = [walk EXCEPT !.pc = "refused"]
    BY <1>0, <1>11 DEF SelectItems, Walk
  <2> HIDE DEF shown
  <2>3. walk' \in Walk BY <1>0, <2>1, <2>2 DEF Walk
  <2> QED BY <1>0, <1>11, <2>3 DEF SelectItems, TypeOK
<1>12. ASSUME SelectTotal PROVE TypeOK'
  <2>1. \/ walk' = [[walk EXCEPT !.pc = "items"] EXCEPT !.page = walk.page + 1]
        \/ walk' = [walk EXCEPT !.pc = "done"]
    BY <1>0, <1>12 DEF SelectTotal, Walk
  <2>2. walk.page + 1 \in Nat BY <1>0 DEF Walk
  <2>3. [walk EXCEPT !.pc = "items"] \in Walk BY <1>0 DEF Walk
  <2>4. walk' \in Walk BY <1>0, <2>1, <2>2, <2>3 DEF Walk
  <2> QED BY <1>0, <1>12, <2>4 DEF SelectTotal, TypeOK
<1> QED BY <1>1, <1>2, <1>3, <1>4, <1>5, <1>6, <1>7, <1>8, <1>9, <1>10, <1>11, <1>12 DEF Next

-----------------------------------------------------------------------------
\* The steps that write the users table.
LEMMA UserSteps ==
  ASSUME Next
  PROVE  \/ UNCHANGED <<user, register>>
         \/ \E u \in Users : \/ \E e \in Emails, n \in Usernames \cup {None} : Register(u, e, n)
                             \/ CreateUser(u) \/ RemoveUser(u)
                             \/ \E n \in Usernames : UpdateMe(u, n)
BY DEF Next, StartWalk, validate, RemoveVideo, BeginCreate, createAndQueue, MoveVideo,
   SelectItems, SelectTotal

\* Between its two steps nobody inserts the account of a registration.
LEMMA NotYetStep == ASSUME TypeOK, NotYetInserted, Next PROVE NotYetInserted'
<1>0. user \in [Users -> Account \cup {None}] /\ register \in [Users -> Registration]
  BY DEF TypeOK
<1>1. CASE UNCHANGED <<user, register>> BY <1>1 DEF NotYetInserted
<1>2. ASSUME NEW u \in Users, NEW e \in Emails, NEW n \in Usernames \cup {None}, Register(u, e, n)
      PROVE  NotYetInserted'
  BY <1>0, <1>2, NoneAssumption DEF Register, NotYetInserted, Registration
<1>3. ASSUME NEW u \in Users, CreateUser(u) PROVE NotYetInserted'
  BY <1>0, <1>3 DEF CreateUser, NotYetInserted, Registration
<1>4. ASSUME NEW u \in Users, RemoveUser(u) PROVE NotYetInserted'
  BY <1>0, <1>4 DEF RemoveUser, NotYetInserted
<1>5. ASSUME NEW u \in Users, NEW n \in Usernames, UpdateMe(u, n) PROVE NotYetInserted'
  BY <1>0, <1>5 DEF UpdateMe, NotYetInserted, Exists
<1> QED BY <1>1, <1>2, <1>3, <1>4, <1>5, UserSteps

\* Only an insert makes an account, and no write of one changes its email.
LEMMA AccountsStep ==
  ASSUME TypeOK, NotYetInserted, AccountsRegistered, Next PROVE AccountsRegistered'
<1>0. user \in [Users -> Account \cup {None}] /\ register \in [Users -> Registration]
  BY DEF TypeOK
<1>1. CASE UNCHANGED <<user, register>> BY <1>1 DEF AccountsRegistered, Exists
<1>2. ASSUME NEW u \in Users, NEW e \in Emails, NEW n \in Usernames \cup {None}, Register(u, e, n)
      PROVE  AccountsRegistered'
  BY <1>0, <1>2 DEF Register, AccountsRegistered, NotYetInserted, Exists
<1>3. ASSUME NEW u \in Users, CreateUser(u) PROVE AccountsRegistered'
  <2>1. user[u] = None BY <1>3 DEF CreateUser, NotYetInserted
  <2> QED BY <1>0, <1>3, <2>1 DEF CreateUser, AccountsRegistered, Exists, Registration
<1>4. ASSUME NEW u \in Users, RemoveUser(u) PROVE AccountsRegistered'
  BY <1>0, <1>4 DEF RemoveUser, AccountsRegistered, Exists
<1>5. ASSUME NEW u \in Users, NEW n \in Usernames, UpdateMe(u, n) PROVE AccountsRegistered'
  <2>1. user[u] \in Account BY <1>0, <1>5 DEF UpdateMe, Exists
  <2>2. [user[u] EXCEPT !.username = n].email = user[u].email BY <2>1 DEF Account
  <2> QED BY <1>0, <1>5, <2>2 DEF UpdateMe, AccountsRegistered, Exists
<1> QED BY <1>1, <1>2, <1>3, <1>4, <1>5, UserSteps

\* The check and the indexes refuse for the sake of a row in the table, which
\* is that of a call that was let in; and such a call stays let in.
LEMMA WinnersStep ==
  ASSUME TypeOK, NotYetInserted, AccountsRegistered, RefusedByAWinner, Next
  PROVE  RefusedByAWinner'
<1>0. user \in [Users -> Account \cup {None}] /\ register \in [Users -> Registration]
  BY DEF TypeOK
<1> DEFINE Won(r, x) == \E o \in Users \ {x} :
             /\ r[o].pc = "created"
             /\ \/ r[o].email = r[x].email
                \/ r[x].pc = "error" /\ r[x].username # None
<1>1. CASE UNCHANGED register BY <1>1 DEF RefusedByAWinner
<1>2. ASSUME NEW u \in Users, NEW e \in Emails, NEW n \in Usernames \cup {None}, Register(u, e, n)
      PROVE  RefusedByAWinner'
  <2> SUFFICES ASSUME NEW x \in Users, register'[x].pc \in {"conflict", "error"}
               PROVE  Won(register', x)
    BY DEF RefusedByAWinner
  <2>1. \A o \in Users : register[o].pc = "created" => o # u BY <1>2 DEF Register
  <2>2. CASE x # u
    <3>1. Won(register, x) BY <1>0, <1>2, <2>2 DEF Register, RefusedByAWinner
    <3> QED BY <1>0, <1>2, <2>1, <2>2, <3>1 DEF Register
  <2>3. CASE x = u
    <3>1. PICK o \in Users : Exists(o) /\ user[o].email = e
      BY <1>0, <1>2, <2>3 DEF Register
    <3>2. register[o].pc = "created" /\ register[o].email = e /\ o # u
      BY <2>1, <3>1 DEF AccountsRegistered
    <3>3. register'[o] = register[o] /\ register'[u].email = e
      BY <1>0, <1>2, <3>2 DEF Register
    <3> QED BY <2>3, <3>2, <3>3
  <2> QED BY <2>2, <2>3
<1>3. ASSUME NEW u \in Users, CreateUser(u) PROVE RefusedByAWinner'
  <2> SUFFICES ASSUME NEW x \in Users, register'[x].pc \in {"conflict", "error"}
               PROVE  Won(register', x)
    BY DEF RefusedByAWinner
  <2>1. ASSUME NEW o \in Users, o # u PROVE register'[o] = register[o]
    BY <1>0, <1>3, <2>1 DEF CreateUser
  <2>2. /\ register'[u].email = register[u].email
        /\ register'[u].username = register[u].username
    BY <1>0, <1>3 DEF CreateUser, Registration
  <2>3. register[u].pc = "insert" BY <1>3 DEF CreateUser
  <2>4. CASE x # u
    <3>1. register[x].pc \in {"conflict", "error"} BY <2>1, <2>4
    <3>2. PICK o \in Users \ {x} :
            /\ register[o].pc = "created"
            /\ \/ register[o].email = register[x].email
               \/ register[x].pc = "error" /\ register[x].username # None
      BY <3>1 DEF RefusedByAWinner
    <3>3. register'[o] = register[o] /\ register'[x] = register[x]
      BY <2>1, <2>4, <2>3, <3>2
    <3> QED BY <3>2, <3>3
  <2>5. CASE x = u
    <3>1. register'[u].pc = "error" /\ ~IndexesAllow(u, register[u].email, register[u].username)
      BY <1>0, <1>3, <2>5 DEF CreateUser, Registration
    <3>2. PICK o \in Users \ {u} :
            /\ Exists(o)
            /\ user[o].email = register[u].email \/ register[u].username # None
      BY <3>1 DEF IndexesAllow
    <3>3. register[o].pc = "created" /\ register[o].email = user[o].email
      BY <3>2 DEF AccountsRegistered
    <3>4. register'[o] = register[o] BY <2>1, <3>2
    <3> QED BY <2>5, <2>2, <3>1, <3>2, <3>3, <3>4
  <2> QED BY <2>4, <2>5
<1>4. CASE \E u \in Users : RemoveUser(u) BY <1>1, <1>4 DEF RemoveUser
<1>5. CASE \E u \in Users, n \in Usernames : UpdateMe(u, n) BY <1>1, <1>5 DEF UpdateMe
<1> QED BY <1>1, <1>2, <1>3, <1>4, <1>5, UserSteps

\* The steps that write the videos table.
LEMMA VideoSteps ==
  ASSUME Next
  PROVE  \/ UNCHANGED video
         \/ \E u \in Users : RemoveUser(u)
         \/ \E v \in Videos : \/ \E u \in Users : validate(v, u) \/ RemoveVideo(v, u)
                              \/ BeginCreate(v) \/ createAndQueue(v) \/ MoveVideo(v)
BY DEF Next, Register, CreateUser, UpdateMe, StartWalk, SelectItems, SelectTotal

\* A row keeps its owner; a row that appears was about to be inserted, by an
\* account that is there.
LEMMA RowsKeepOwners ==
  ASSUME TypeOK, OwnersKnown, Next
  PROVE  /\ OwnersKnown'
         /\ \A v \in Videos : video'[v].pc = "row" =>
              /\ video'[v].owner = video[v].owner
              /\ video[v].pc = "row" \/ (UNCHANGED user /\ Exists(video[v].owner))
<1>0. video \in [Videos -> Video] BY DEF TypeOK
<1> DEFINE P(v) == /\ video'[v].pc \in {"auth", "insert", "row"} => video'[v].owner \in Users
                   /\ video'[v].pc = "row" =>
                        /\ video'[v].owner = video[v].owner
                        /\ video[v].pc = "row" \/ (UNCHANGED user /\ Exists(video[v].owner))
<1>1. SUFFICES ASSUME NEW v \in Videos PROVE P(v) BY DEF OwnersKnown
<1>2. P(v) \/ video'[v] # video[v] BY DEF OwnersKnown
<1>3. ASSUME NEW x \in Videos, NEW u \in Users, validate(x, u) PROVE P(v)
  BY <1>0, <1>2, <1>3 DEF validate, Video
<1>4. ASSUME NEW x \in Videos, BeginCreate(x) PROVE P(v)
  BY <1>0, <1>2, <1>4 DEF BeginCreate, Video, OwnersKnown
<1>5. ASSUME NEW x \in Videos, createAndQueue(x) PROVE P(v)
  BY <1>0, <1>2, <1>5 DEF createAndQueue, Write, Blank, Video, OwnersKnown
<1>6. ASSUME NEW x \in Videos, NEW u \in Users, RemoveVideo(x, u) PROVE P(v)
  BY <1>0, <1>2, <1>6 DEF RemoveVideo, Write, Blank
<1>7. ASSUME NEW x \in Videos, MoveVideo(x) PROVE P(v)
  BY <1>0, <1>2, <1>7 DEF MoveVideo, Write, Video, OwnersKnown
<1>8. ASSUME NEW u \in Users, RemoveUser(u) PROVE P(v)
  BY <1>0, <1>2, <1>8 DEF RemoveUser, Write, Blank
<1> QED BY <1>2, <1>3, <1>4, <1>5, <1>6, <1>7, <1>8, VideoSteps

\* The foreign key checks the insert, the cascade the removal, and neither an
\* insert nor a PATCH of an account takes one away.
LEMMA OwnersStep ==
  ASSUME TypeOK, NotYetInserted, OwnersKnown, VideosHaveOwners, Next PROVE VideosHaveOwners'
<1>0. user \in [Users -> Account \cup {None}] /\ video \in [Videos -> Video]
  BY DEF TypeOK
<1>1. SUFFICES ASSUME NEW v \in Videos, video'[v].pc = "row" PROVE user'[video'[v].owner] # None
  BY DEF VideosHaveOwners, Exists
<1>2. /\ video'[v].owner = video[v].owner /\ video'[v].owner \in Users
      /\ video[v].pc = "row" \/ (UNCHANGED user /\ Exists(video[v].owner))
  BY <1>1, RowsKeepOwners DEF OwnersKnown
<1>3. user[video[v].owner] # None BY <1>2 DEF VideosHaveOwners, Exists
<1>4. CASE UNCHANGED user BY <1>2, <1>3, <1>4
<1>5. ASSUME NEW u \in Users, CreateUser(u) PROVE user'[video[v].owner] # None
  BY <1>0, <1>2, <1>3, <1>5, InsertedRow, AccountsAreRows DEF CreateUser
<1>6. ASSUME NEW u \in Users, NEW n \in Usernames, UpdateMe(u, n)
      PROVE  user'[video[v].owner] # None
  <2>1. user[u] \in Account BY <1>0, <1>6 DEF UpdateMe, Exists
  <2>2. [user[u] EXCEPT !.username = n] \in Account BY <2>1 DEF Account
  <2> QED BY <1>0, <1>2, <1>3, <1>6, <2>2, AccountsAreRows DEF UpdateMe
<1>7. ASSUME NEW u \in Users, RemoveUser(u) PROVE user'[video[v].owner] # None
  <2>1. video[v].owner # u \/ video'[v].pc = "gone"
    BY <1>0, <1>2, <1>7 DEF RemoveUser, Write, Blank, Exists
  <2> QED BY <1>0, <1>1, <1>2, <1>3, <1>7, <2>1 DEF RemoveUser
<1>8. CASE \E u \in Users, e \in Emails, n \in Usernames \cup {None} : Register(u, e, n)
  BY <1>4, <1>8 DEF Register
<1> QED BY <1>2, <1>4, <1>5, <1>6, <1>7, <1>8, UserSteps

-----------------------------------------------------------------------------
LEMMA LibraryInvariance == Spec => []LibraryInv
<1>1. Init => LibraryInv
  <2> SUFFICES ASSUME Init PROVE LibraryInv OBVIOUS
  <2>1. TypeOK
    <3>1. video \in [Videos -> Video] BY DEF Init, Blank, Video, VideoPc, Statuses
    <3>2. walk \in Walk BY DEF Init, Walk
    <3> QED BY <3>1, <3>2, MovesAssumption DEF Init, TypeOK, Registration
  <2>2. NotYetInserted /\ OwnersKnown BY DEF Init, NotYetInserted, OwnersKnown, Blank
  <2>3. AccountsRegistered /\ RefusedByAWinner /\ VideosHaveOwners
    BY DEF Init, AccountsRegistered, RefusedByAWinner, VideosHaveOwners, Exists, Blank
  <2> QED BY <2>1, <2>2, <2>3 DEF LibraryInv
<1>2. LibraryInv /\ [Next]_vars => LibraryInv'
  <2>1. ASSUME LibraryInv, UNCHANGED vars PROVE LibraryInv'
    BY <2>1 DEF LibraryInv, TypeOK, NotYetInserted, OwnersKnown, AccountsRegistered,
       RefusedByAWinner, VideosHaveOwners, Exists, vars
  <2> QED BY <2>1, TypeStep, NotYetStep, AccountsStep, WinnersStep, RowsKeepOwners, OwnersStep
     DEF LibraryInv
<1> QED BY <1>1, <1>2, PTL DEF Spec

\* The tables, the registrations and the walk keep their types.
THEOREM LibraryTypeCorrect == Spec => []TypeOK
<1>1. LibraryInv => TypeOK BY DEF LibraryInv
<1> QED BY <1>1, LibraryInvariance, PTL

\* Whoever is refused an account was refused for a registration that was let
\* in, in every race of calls of register, PATCH /users/me and DELETE
\* /users/:id.
THEOREM RefusalsHaveWinners == Spec => []RefusedByAWinner
<1>1. LibraryInv => RefusedByAWinner BY DEF LibraryInv
<1> QED BY <1>1, LibraryInvariance, PTL

\* No video outlives its account, in every race of POST /videos, register and
\* DELETE /users/:id.
THEOREM VideosKeepTheirOwners == Spec => []VideosHaveOwners
<1>1. LibraryInv => VideosHaveOwners BY DEF LibraryInv
<1> QED BY <1>1, LibraryInvariance, PTL

-----------------------------------------------------------------------------
(* Places in a list of videos, newest first.                                *)

\* How many videos of M stand before v, by the times of table t.
Before(M, t, v) == {w \in M : t[w].createdAt > t[v].createdAt}
Place(M, t, v)  == Cardinality(Before(M, t, v))

\* No two videos of M have the same time.
Apart(M, t) ==
  \A v \in M : /\ t[v].createdAt \in Nat
               /\ \A w \in M \ {v} : t[w].createdAt # t[v].createdAt

\* Sets of videos are finite.
LEMMA VideoSets ==
  ASSUME NEW S \in SUBSET Videos
  PROVE  IsFiniteSet(S) /\ Cardinality(S) \in Nat
BY FiniteAssumption, FS_Subset, FS_CardinalityType

\* A place is a number below the length of the list.
LEMMA PlaceBound ==
  ASSUME NEW M \in SUBSET Videos, NEW t, Apart(M, t), NEW v \in M
  PROVE  Place(M, t, v) \in Nat /\ Place(M, t, v) < Cardinality(M)
<1>1. IsFiniteSet(M) /\ Cardinality(M) \in Nat BY VideoSets
<1>2. IsFiniteSet(M \ {v}) /\ Cardinality(M \ {v}) = Cardinality(M) - 1
  BY <1>1, FS_RemoveElement
<1>3. ~(t[v].createdAt > t[v].createdAt) BY DEF Apart
<1>4. Before(M, t, v) \in SUBSET (M \ {v}) BY <1>3 DEF Before
<1>5. Cardinality(Before(M, t, v)) <= Cardinality(M \ {v}) BY <1>2, <1>4, FS_Subset
<1>6. Place(M, t, v) \in Nat BY <1>4, VideoSets DEF Place
<1> QED BY <1>1, <1>2, <1>5, <1>6 DEF Place

\* A newer video has a lower place.
LEMMA PlaceOrder ==
  ASSUME NEW M \in SUBSET Videos, NEW t, Apart(M, t), NEW v \in M, NEW w \in M,
         t[w].createdAt > t[v].createdAt
  PROVE  Place(M, t, w) < Place(M, t, v)
<1>1. w \in Before(M, t, v) BY DEF Before
<1>2. Before(M, t, w) \in SUBSET (Before(M, t, v) \ {w})
  <2>1. t[v].createdAt \in Nat /\ t[w].createdAt \in Nat BY DEF Apart
  <2>2. ASSUME NEW x \in M, t[x].createdAt > t[w].createdAt
        PROVE  t[x].createdAt > t[v].createdAt /\ x # w
    <3>1. t[x].createdAt \in Nat BY DEF Apart
    <3> QED BY <2>1, <2>2, <3>1
  <2> QED BY <2>2 DEF Before
<1>3. IsFiniteSet(Before(M, t, v)) /\ Cardinality(Before(M, t, v)) \in Nat
  BY VideoSets DEF Before
<1>4. /\ IsFiniteSet(Before(M, t, v) \ {w})
      /\ Cardinality(Before(M, t, v) \ {w}) = Cardinality(Before(M, t, v)) - 1
  BY <1>1, <1>3, FS_RemoveElement
<1>5. Cardinality(Before(M, t, w)) <= Cardinality(Before(M, t, v) \ {w})
  BY <1>2, <1>4, FS_Subset
<1>6. Cardinality(Before(M, t, w)) \in Nat BY VideoSets DEF Before
<1> QED BY <1>3, <1>4, <1>5, <1>6 DEF Place

\* No two videos have the same place.
LEMMA PlacesApart ==
  ASSUME NEW M \in SUBSET Videos, NEW t, Apart(M, t), NEW v \in M, NEW w \in M,
         Place(M, t, v) = Place(M, t, w)
  PROVE  v = w
<1>1. SUFFICES ASSUME v # w PROVE FALSE OBVIOUS
<1>2. t[v].createdAt \in Nat /\ t[w].createdAt \in Nat /\ t[w].createdAt # t[v].createdAt
  BY <1>1 DEF Apart
<1>3. t[w].createdAt > t[v].createdAt \/ t[v].createdAt > t[w].createdAt BY <1>2
<1>4. Place(M, t, v) \in Nat /\ Place(M, t, w) \in Nat BY PlaceBound
<1> QED BY <1>3, <1>4, PlaceOrder

\* When w leaves the list, the videos behind it move up by one.
LEMMA PlaceWithout ==
  ASSUME NEW M \in SUBSET Videos, NEW t, NEW u, NEW w \in M, NEW N, N = M \ {w}, NEW v \in N,
         \A x \in N : u[x].createdAt = t[x].createdAt
  PROVE  Place(N, u, v) = IF t[w].createdAt > t[v].createdAt
                            THEN Place(M, t, v) - 1 ELSE Place(M, t, v)
<1>1. Before(N, u, v) = Before(M, t, v) \ {w} BY DEF Before
<1>2. IsFiniteSet(Before(M, t, v)) BY VideoSets DEF Before
<1>3. w \in Before(M, t, v) <=> t[w].createdAt > t[v].createdAt BY DEF Before
<1>4. Cardinality(Before(M, t, v) \ {w}) =
        IF w \in Before(M, t, v) THEN Cardinality(Before(M, t, v)) - 1
                                 ELSE Cardinality(Before(M, t, v))
  BY <1>2, FS_RemoveElement
<1> QED BY <1>1, <1>3, <1>4 DEF Place

\* A set with at most one new element has grown by one at most.
LEMMA OneMore ==
  ASSUME NEW S \in SUBSET Videos, NEW T \in SUBSET Videos, \A x, y \in T \ S : x = y
  PROVE  Cardinality(T) <= Cardinality(S) + 1
<1>0. /\ IsFiniteSet(S) /\ Cardinality(S) \in Nat
      /\ IsFiniteSet(T) /\ Cardinality(T) \in Nat
  BY VideoSets
<1>1. CASE T \subseteq S
  <2>1. Cardinality(T) <= Cardinality(S) BY <1>0, <1>1, FS_Subset
  <2> QED BY <1>0, <2>1
<1>2. CASE \E x \in T : x \notin S
  <2>1. PICK x \in T : x \notin S BY <1>2
  <2>2. T \subseteq S \cup {x} BY <2>1
  <2>3. IsFiniteSet(S \cup {x}) /\ Cardinality(S \cup {x}) = Cardinality(S) + 1
    BY <1>0, <2>1, FS_AddElement
  <2>4. Cardinality(T) <= Cardinality(S \cup {x}) BY <2>2, <2>3, FS_Subset
  <2> QED BY <2>3, <2>4
<1> QED BY <1>1, <1>2

\* The pages up to the last one hold the whole list.
LEMMA PagesSuffice ==
  ASSUME NEW total \in Nat, NEW page \in Nat, ~(page < totalPages(total))
  PROVE  total <= page * Limit
BY LimitAssumption DEF totalPages

-----------------------------------------------------------------------------
(* The walk through the pages.                                              *)

\* The client reads pages; the rows its pages have covered so far.
Reading == walk.pc \in {"items", "total"}
Reached == IF walk.pc = "items" THEN (walk.page - 1) * Limit ELSE walk.page * Limit

\* Videos of the list that the client was not shown, those that stand where it
\* has already been, and those it was shown and that stand further on.
Unseen == {v \in walk.stayed : walk.shown[v] = 0}
Passed == {v \in Unseen : Rank(v) < Reached}
Ahead  == {v \in Matching(video) : walk.shown[v] # 0 /\ Rank(v) >= Reached}

\* The repetitions that RepeatsAtMostArrivals counts.
Repeated == {x \in Videos \X (2..(Cardinality(Videos) + MaxMoves + 1)) : walk.shown[x[1]] >= x[2]}

\* Videos that have a time have one of their own, in the past.
TimesApart ==
  \A v \in Videos : video[v].pc \in {"insert", "row"} =>
    /\ video[v].createdAt <= clock
    /\ \A w \in Videos \ {v} :
         video[w].pc \in {"insert", "row"} => video[w].createdAt # video[v].createdAt

\* What stands where the client has been without being shown has a departure
\* to thank for it, and what was shown and stands further on, or was shown
\* again, an arrival.
WalkInv ==
  /\ walk.stayed \subseteq Matching(video)
  /\ walk.pc = "idle" => \A v \in Videos : walk.shown[v] = 0
  /\ Reading => /\ walk.page # 0
                /\ Cardinality(Passed) <= walk.left
                /\ Cardinality(Repeated) + Cardinality(Ahead) <= walk.came
  /\ walk.pc = "done" => Cardinality(Unseen) <= walk.left
  /\ Cardinality(Repeated) <= walk.came

\* A step that may change the list under the client: nothing happens, all of it
\* goes, one video goes, or one comes.
ListMoves ==
  /\ walk'.pc = walk.pc /\ walk'.page = walk.page /\ walk'.shown = walk.shown
  /\ walk'.stayed = walk.stayed \cap Matching(video)'
  /\ walk'.came = walk.came + Cardinality(Matching(video)' \ Matching(video))
  /\ walk'.left = walk.left + Cardinality(Matching(video) \ Matching(video)')
  /\ \A v \in Matching(video)' : video'[v].createdAt = video[v].createdAt
  /\ \/ Matching(video)' = Matching(video)
     \/ Matching(video)' = {}
     \/ \E w \in Matching(video) : Matching(video)' = Matching(video) \ {w}
     \/ \E w \in Videos \ Matching(video) : Matching(video)' = Matching(video) \cup {w}

\* The times stay apart.
LEMMA TimesStep == ASSUME TypeOK, TimesApart, Next PROVE TimesApart'
<1>0. video \in [Videos -> Video] /\ clock \in Nat BY DEF TypeOK
<1>1. ASSUME UNCHANGED clock,
             \A v \in Videos : video'[v].pc \in {"insert", "row"} =>
               video[v].pc \in {"insert", "row"} /\ video'[v].createdAt = video[v].createdAt
      PROVE  TimesApart'
  BY <1>1 DEF TimesApart
<1>2. ASSUME NEW v \in Videos, BeginCreate(v) PROVE TimesApart'
  <2>1. /\ video'[v].createdAt = clock + 1 /\ clock' = clock + 1
        /\ \A w \in Videos \ {v} : video'[w] = video[w]
    BY <1>0, <1>2 DEF BeginCreate, Video
  <2>2. \A w \in Videos : video[w].createdAt \in Nat BY <1>0 DEF Video
  <2> QED BY <1>0, <2>1, <2>2 DEF TimesApart
<1>3. ASSUME NEW v \in Videos, NEW u \in Users, validate(v, u) PROVE TimesApart'
  BY <1>0, <1>1, <1>3 DEF validate, Video
<1>4. ASSUME NEW v \in Videos, createAndQueue(v) PROVE TimesApart'
  BY <1>0, <1>1, <1>4 DEF createAndQueue, Write, Blank, Video
<1>5. ASSUME NEW v \in Videos, NEW u \in Users, RemoveVideo(v, u) PROVE TimesApart'
  BY <1>0, <1>1, <1>5 DEF RemoveVideo, Write, Blank, Video
<1>6. ASSUME NEW v \in Videos, MoveVideo(v) PROVE TimesApart'
  BY <1>0, <1>1, <1>6 DEF MoveVideo, Write, Video
<1>7. ASSUME NEW u \in Users, RemoveUser(u) PROVE TimesApart'
  BY <1>0, <1>1, <1>7 DEF RemoveUser, Write, Blank
<1>8. CASE UNCHANGED <<video, clock>> BY <1>8 DEF TimesApart
<1> QED
  BY <1>2, <1>3, <1>4, <1>5, <1>6, <1>7, <1>8 DEF Next, Register, CreateUser, UpdateMe, StartWalk,
     SelectItems, SelectTotal

\* What writing table t does to the walk.
LEMMA WriteMoves ==
  ASSUME TypeOK, NEW t, Write(t)
  PROVE  /\ walk'.pc = walk.pc /\ walk'.page = walk.page /\ walk'.shown = walk.shown
         /\ video' = t /\ Matching(video)' = Matching(t)
         /\ walk'.stayed = walk.stayed \cap Matching(t)
         /\ walk'.came = walk.came + Cardinality(Matching(t) \ Matching(video))
         /\ walk'.left = walk.left + Cardinality(Matching(video) \ Matching(t))
<1>t. walk \in Walk BY DEF TypeOK
<1>1. /\ video' = t
      /\ walk' = [walk EXCEPT !.stayed = walk.stayed \cap Matching(t),
                              !.came = walk.came + Cardinality(Matching(t) \ Matching(video)),
                              !.left = walk.left + Cardinality(Matching(video) \ Matching(t))]
  BY DEF Write
<1> DEFINE S == walk.stayed \cap Matching(t)
           C == walk.came + Cardinality(Matching(t) \ Matching(video))
           D == walk.left + Cardinality(Matching(video) \ Matching(t))
<1>2. walk' = [walk EXCEPT !.stayed = S, !.came = C, !.left = D] BY <1>1
<1> HIDE DEF S, C, D
<1>3. /\ walk'.pc = walk.pc /\ walk'.page = walk.page /\ walk'.shown = walk.shown
      /\ walk'.user = walk.user /\ walk'.filter = walk.filter
      /\ walk'.stayed = S /\ walk'.came = C /\ walk'.left = D
  BY <1>t, <1>2 DEF Walk
<1>4. Matching(video)' = Matching(t) BY <1>1, <1>3 DEF Matching
<1> QED BY <1>1, <1>3, <1>4 DEF S, C, D

\* Writing one row takes it out of the list, into it, or neither.
LEMMA OneMoves ==
  ASSUME TypeOK, NEW v \in Videos, NEW r,
         Write([video EXCEPT ![v] = r]),
         r.pc = "row" => r.createdAt = video[v].createdAt
  PROVE  ListMoves
<1>t. video \in [Videos -> Video] BY DEF TypeOK
<1>0. PICK t : t = [video EXCEPT ![v] = r] OBVIOUS
<1>1. Write(t) BY <1>0
<1>2. /\ t[v] = r /\ \A x \in Videos \ {v} : t[x] = video[x]
  BY <1>t, <1>0
<1>3. \A x \in Matching(t) : t[x].createdAt = video[x].createdAt
  BY <1>2 DEF Matching
<1>4. \A x \in Videos \ {v} : x \in Matching(t) <=> x \in Matching(video)
  BY <1>2 DEF Matching
<1>5. Matching(t) \subseteq Videos /\ Matching(video) \subseteq Videos BY DEF Matching
<1>6. \/ Matching(t) = Matching(video)
      \/ v \in Matching(video) /\ Matching(t) = Matching(video) \ {v}
      \/ v \notin Matching(video) /\ Matching(t) = Matching(video) \cup {v}
  BY <1>4, <1>5
<1> QED BY <1>1, <1>3, <1>6, WriteMoves DEF ListMoves

\* Every step but the client's own is a move of the list.
LEMMA ListStep ==
  ASSUME TypeOK, WalkInv, Next
  PROVE  \/ ListMoves
         \/ \E u \in Users, f \in {{"asked"}, Statuses} : StartWalk(u, f)
         \/ SelectItems \/ SelectTotal
<1>t. video \in [Videos -> Video] /\ walk \in Walk BY DEF TypeOK
<1>0. Blank("gone").pc = "gone" BY DEF Blank
<1>s. ASSUME UNCHANGED walk, Matching(video)' = Matching(video),
             \A v \in Matching(video) : video'[v].createdAt = video[v].createdAt
      PROVE  ListMoves
  <2>1. Cardinality(Matching(video) \ Matching(video)) = 0
    <3>1. Matching(video) \ Matching(video) = {} OBVIOUS
    <3> QED BY <3>1, FS_EmptySet
  <2>2. walk.came \in Nat /\ walk.left \in Nat BY <1>t DEF Walk
  <2>3. walk.stayed = walk.stayed \cap Matching(video) BY DEF WalkInv
  <2> QED BY <1>s, <2>1, <2>2, <2>3 DEF ListMoves
<1>1. CASE UNCHANGED <<video, walk>> BY <1>s, <1>1 DEF Matching
<1>2. ASSUME NEW v \in Videos, NEW u \in Users, validate(v, u) PROVE ListMoves
  <2>1. UNCHANGED walk /\ video[v].pc # "row" /\ video'[v].pc # "row"
        /\ \A x \in Videos \ {v} : video'[x] = video[x]
    BY <1>t, <1>2 DEF validate, Video
  <2>2. Matching(video)' = Matching(video) BY <2>1 DEF Matching
  <2>3. \A x \in Matching(video) : video'[x] = video[x] BY <2>1 DEF Matching
  <2> QED BY <1>s, <2>1, <2>2, <2>3
<1>3. ASSUME NEW v \in Videos, BeginCreate(v) PROVE ListMoves
  <2>1. UNCHANGED walk /\ video[v].pc # "row" /\ video'[v].pc # "row"
        /\ \A x \in Videos \ {v} : video'[x] = video[x]
    BY <1>t, <1>3 DEF BeginCreate, Video
  <2>2. Matching(video)' = Matching(video) BY <2>1 DEF Matching
  <2>3. \A x \in Matching(video) : video'[x] = video[x] BY <2>1 DEF Matching
  <2> QED BY <1>s, <2>1, <2>2, <2>3
<1>4. ASSUME NEW v \in Videos, createAndQueue(v) PROVE ListMoves
  <2>1. PICK r : r = IF Exists(video[v].owner) THEN [video[v] EXCEPT !.pc = "row"] ELSE Blank("gone")
    OBVIOUS
  <2>2. Write([video EXCEPT ![v] = r]) BY <1>4, <2>1 DEF createAndQueue
  <2>3. r.pc = "row" => r.createdAt = video[v].createdAt BY <1>t, <1>0, <2>1 DEF Video
  <2> QED BY <2>2, <2>3, OneMoves
<1>5. ASSUME NEW v \in Videos, NEW u \in Users, RemoveVideo(v, u) PROVE ListMoves
  BY <1>0, <1>5, OneMoves DEF RemoveVideo
<1>6. ASSUME NEW v \in Videos, MoveVideo(v) PROVE ListMoves
  <2>1. PICK s \in Statuses : Write([video EXCEPT ![v].status = s]) BY <1>6 DEF MoveVideo
  <2>2. PICK r : r = [video[v] EXCEPT !.status = s] OBVIOUS
  <2>3. Write([video EXCEPT ![v] = r]) BY <2>1, <2>2
  <2>4. r.createdAt = video[v].createdAt BY <1>t, <2>2 DEF Video
  <2> QED BY <2>3, <2>4, OneMoves
<1>7. ASSUME NEW u \in Users, RemoveUser(u) PROVE ListMoves
  <2>1. PICK t : t = [v \in Videos |-> IF video[v].pc = "row" /\ video[v].owner = u
                                         THEN Blank("gone") ELSE video[v]]
    OBVIOUS
  <2>2. Write(t) BY <1>7, <2>1 DEF RemoveUser
  <2>3. \A v \in Videos : t[v] = IF video[v].pc = "row" /\ video[v].owner = u
                                   THEN Blank("gone") ELSE video[v]
    BY <2>1
  <2>4. \A v \in Matching(t) : t[v] = video[v] BY <1>0, <2>3 DEF Matching
  <2>5. CASE walk.user = u
    <3>1. Matching(t) = {} BY <1>0, <2>3, <2>5 DEF Matching
    <3> QED BY <2>2, <2>4, <3>1, WriteMoves DEF ListMoves
  <2>6. CASE walk.user # u
    <3>1. Matching(t) = Matching(video) BY <1>0, <2>3, <2>6 DEF Matching
    <3> QED BY <2>2, <2>4, <3>1, WriteMoves DEF ListMoves
  <2> QED BY <2>5, <2>6
<1> QED
  BY <1>1, <1>2, <1>3, <1>4, <1>5, <1>6, <1>7 DEF Next, Register, CreateUser, UpdateMe

\* When a video leaves the list, one other at most falls below a given place,
\* and none reaches it.
LEMMA Departure ==
  ASSUME NEW M \in SUBSET Videos, NEW t, NEW u, Apart(M, t), NEW w \in M, NEW R \in Nat,
         NEW N, N = M \ {w}, \A x \in N : u[x].createdAt = t[x].createdAt
  PROVE  /\ \A x, y \in N : /\ Place(N, u, x) < R /\ Place(M, t, x) >= R
                            /\ Place(N, u, y) < R /\ Place(M, t, y) >= R
                            => x = y
         /\ \A x \in N : Place(N, u, x) >= R => Place(M, t, x) >= R
<1>1. \A x \in N : x \in M /\ Place(M, t, x) \in Nat BY PlaceBound
<1>2. \A x \in N : Place(N, u, x) \in {Place(M, t, x) - 1, Place(M, t, x)}
  BY PlaceWithout
<1>3. \A x \in N : Place(N, u, x) < R /\ Place(M, t, x) >= R => Place(M, t, x) = R
  BY <1>1, <1>2
<1>4. ASSUME NEW x \in N, NEW y \in N, Place(M, t, x) = R, Place(M, t, y) = R
      PROVE  x = y
  BY <1>1, <1>4, PlacesApart
<1>5. ASSUME NEW x \in N, Place(N, u, x) >= R PROVE Place(M, t, x) >= R
  BY <1>1, <1>2, <1>5
<1> QED BY <1>3, <1>4, <1>5

\* When a video enters the list, one video at most reaches a given place, the
\* new one or another, and none falls below it.
LEMMA Arrival ==
  ASSUME NEW M \in SUBSET Videos, NEW t, NEW u, NEW w \in Videos \ M, NEW R \in Nat,
         NEW N, N = M \cup {w}, Apart(M, t), Apart(N, u),
         \A x \in M : u[x].createdAt = t[x].createdAt
  PROVE  /\ \A x, y \in N : /\ Place(N, u, x) >= R /\ (x = w \/ Place(M, t, x) < R)
                            /\ Place(N, u, y) >= R /\ (y = w \/ Place(M, t, y) < R)
                            => x = y
         /\ \A x \in M : Place(N, u, x) < R => Place(M, t, x) < R
<1>0. N \in SUBSET Videos /\ N \ {w} = M /\ w \in N /\ M \subseteq N OBVIOUS
<1>1. /\ \A x \in M : x \in N /\ Place(M, t, x) \in Nat
      /\ \A x \in N : Place(N, u, x) \in Nat
  BY <1>0, PlaceBound
<1>2. ASSUME NEW x \in M
      PROVE  Place(M, t, x) = IF u[w].createdAt > u[x].createdAt
                                THEN Place(N, u, x) - 1 ELSE Place(N, u, x)
  <2>1. M = N \ {w} /\ \A y \in M : t[y].createdAt = u[y].createdAt BY <1>0
  <2> QED BY <1>0, <2>1, PlaceWithout
<1>3. ASSUME NEW x \in M, Place(N, u, x) >= R, Place(M, t, x) < R
      PROVE  Place(N, u, x) = R /\ u[w].createdAt > u[x].createdAt
  <2>1. Place(N, u, x) \in Nat BY <1>1
  <2>2. Place(M, t, x) # Place(N, u, x) BY <1>3, <2>1
  <2>3. u[w].createdAt > u[x].createdAt /\ Place(M, t, x) = Place(N, u, x) - 1 BY <1>2, <2>2
  <2> QED BY <1>3, <2>1, <2>3
<1>4. ASSUME NEW x \in M, Place(N, u, x) >= R, Place(M, t, x) < R, Place(N, u, w) >= R
      PROVE  FALSE
  <2>1. Place(N, u, w) < Place(N, u, x) BY <1>0, <1>1, <1>3, <1>4, PlaceOrder
  <2>2. Place(N, u, w) \in Nat BY <1>0, <1>1
  <2>3. Place(N, u, x) = R BY <1>3, <1>4
  <2> QED BY <1>4, <2>1, <2>2, <2>3
<1>5. ASSUME NEW x \in M, NEW y \in M, Place(N, u, x) >= R, Place(M, t, x) < R,
             Place(N, u, y) >= R, Place(M, t, y) < R
      PROVE  x = y
  <2>1. Place(N, u, x) = R /\ Place(N, u, y) = R BY <1>3, <1>5
  <2>2. x \in N /\ y \in N BY <1>1
  <2> QED BY <1>0, <2>1, <2>2, PlacesApart
<1>6. ASSUME NEW x \in M, Place(N, u, x) < R PROVE Place(M, t, x) < R
  <2>1. Place(N, u, x) \in Nat BY <1>1
  <2>2. Place(M, t, x) \in {Place(N, u, x) - 1, Place(N, u, x)} BY <1>2
  <2> QED BY <1>6, <2>1, <2>2
<1>7. \A x \in N : x = w \/ x \in M OBVIOUS
<1>8. \A x, y \in N :
        /\ Place(N, u, x) >= R /\ (x = w \/ Place(M, t, x) < R)
        /\ Place(N, u, y) >= R /\ (y = w \/ Place(M, t, y) < R)
        => x = y
  BY <1>4, <1>5, <1>7
<1> QED BY <1>6, <1>8

\* The client has reached some number of rows.
LEMMA ReachedType == ASSUME TypeOK, Reading, walk.page # 0 PROVE Reached \in Nat
<1>1. walk.page \in Nat \ {0} BY DEF TypeOK, Walk
<1>2. walk.page - 1 \in Nat BY <1>1
<1> QED BY <1>1, <1>2, LimitAssumption DEF Reached, Reading

\* A rank is a place in the list, whose videos have times of their own.
LEMMA Ranks ==
  ASSUME TypeOK, TimesApart
  PROVE  /\ Matching(video) \in SUBSET Videos
         /\ Apart(Matching(video), video)
         /\ \A v : Rank(v) = Place(Matching(video), video, v)
<1>1. \A v \in Videos : video[v].createdAt \in Nat BY DEF TypeOK, Video
<1>2. \A v \in Matching(video) : v \in Videos /\ video[v].pc = "row" BY DEF Matching
<1>3. Apart(Matching(video), video) BY <1>1, <1>2 DEF TimesApart, Apart
<1> QED BY <1>2, <1>3 DEF Rank, Place, Before

\* Smaller sets of videos have fewer.
LEMMA Fewer ==
  ASSUME NEW S \in SUBSET Videos, NEW T \in SUBSET S
  PROVE  Cardinality(T) <= Cardinality(S)
BY VideoSets, FS_Subset

\* A move of the list under a client that is reading: a departure hides one
\* video from it at most, an arrival shows it one again at most.
LEMMA ReadingMoves ==
  ASSUME TypeOK, TypeOK', TimesApart, TimesApart', WalkInv, ListMoves, Reading
  PROVE  /\ Cardinality(Passed)' <= Cardinality(Passed) + Cardinality(Matching(video) \ Matching(video)')
         /\ Cardinality(Ahead)' <= Cardinality(Ahead) + Cardinality(Matching(video)' \ Matching(video))
<1>1. PICK M, N, t, u, R, P, Q, A, B :
        /\ M = Matching(video) /\ N = Matching(video)' /\ t = video /\ u = video' /\ R = Reached
        /\ P = Passed /\ Q = Passed' /\ A = Ahead /\ B = Ahead'
  OBVIOUS
<1>2. R \in Nat /\ R = Reached'
  <2>1. R \in Nat BY <1>1, ReachedType DEF WalkInv
  <2>2. Reached' = Reached BY DEF ListMoves, Reached
  <2> QED BY <1>1, <2>1, <2>2
<1>3. /\ M \in SUBSET Videos /\ Apart(M, t) /\ \A v : Rank(v) = Place(M, t, v)
      /\ N \in SUBSET Videos /\ Apart(N, u) /\ \A v : Rank(v)' = Place(N, u, v)
  <2>1. M \in SUBSET Videos /\ Apart(M, t) /\ \A v : Rank(v) = Place(M, t, v) BY <1>1, Ranks
  <2>2. /\ (Matching(video) \in SUBSET Videos)'
        /\ Apart(Matching(video), video)'
        /\ (\A v : Rank(v) = Place(Matching(video), video, v))'
    BY Ranks, PTL
  <2>3. N \in SUBSET Videos /\ Apart(N, u) /\ \A v : Rank(v)' = Place(N, u, v)
    BY <1>1, <2>2 DEF Apart, Place, Before
  <2> QED BY <2>1, <2>3
<1>4. \A x \in N : u[x].createdAt = t[x].createdAt BY <1>1 DEF ListMoves
<1>5. /\ \A v : v \in P <=> v \in walk.stayed /\ walk.shown[v] = 0 /\ Place(M, t, v) < R
      /\ \A v : v \in Q <=> v \in walk.stayed /\ v \in N /\ walk.shown[v] = 0 /\ Place(N, u, v) < R
      /\ \A v : v \in A <=> v \in M /\ walk.shown[v] # 0 /\ Place(M, t, v) >= R
      /\ \A v : v \in B <=> v \in N /\ walk.shown[v] # 0 /\ Place(N, u, v) >= R
      /\ walk.stayed \subseteq M
  <2>1. walk'.stayed = walk.stayed \cap N /\ walk'.shown = walk.shown BY <1>1 DEF ListMoves
  <2>2. \A v : v \in Q <=> v \in walk.stayed /\ v \in N /\ walk.shown[v] = 0 /\ Place(N, u, v) < R
    BY <1>1, <1>2, <1>3, <2>1 DEF Passed, Unseen
  <2>3. \A v : v \in B <=> v \in N /\ walk.shown[v] # 0 /\ Place(N, u, v) >= R
    BY <1>1, <1>2, <1>3, <2>1 DEF Ahead
  <2>4. \A v : v \in P <=> v \in walk.stayed /\ walk.shown[v] = 0 /\ Place(M, t, v) < R
    BY <1>1, <1>3 DEF Passed, Unseen
  <2>5. \A v : v \in A <=> v \in M /\ walk.shown[v] # 0 /\ Place(M, t, v) >= R
    BY <1>1, <1>3 DEF Ahead
  <2>6. walk.stayed \subseteq M BY <1>1 DEF WalkInv
  <2> QED BY <2>2, <2>3, <2>4, <2>5, <2>6
<1>6. /\ P \in SUBSET Videos /\ Q \in SUBSET Videos /\ A \in SUBSET Videos /\ B \in SUBSET Videos
      /\ \A v \in M : Place(M, t, v) \in Nat
      /\ \A v \in N : Place(N, u, v) \in Nat
  BY <1>3, <1>5, PlaceBound
<1>7. Cardinality(P) \in Nat /\ Cardinality(A) \in Nat
      /\ Cardinality(M \ N) \in Nat /\ Cardinality(N \ M) \in Nat
  <2>1. M \ N \in SUBSET Videos /\ N \ M \in SUBSET Videos BY <1>3
  <2> QED BY <1>6, <2>1, VideoSets
<1> DEFINE Goal == /\ Cardinality(Q) <= Cardinality(P) + Cardinality(M \ N)
                   /\ Cardinality(B) <= Cardinality(A) + Cardinality(N \ M)
<1>a. ASSUME Q \subseteq P, B \subseteq A PROVE Goal
  <2>1. Cardinality(Q) <= Cardinality(P) BY <1>6, <1>a, Fewer
  <2>2. Cardinality(B) <= Cardinality(A) BY <1>6, <1>a, Fewer
  <2>3. Cardinality(Q) \in Nat /\ Cardinality(B) \in Nat BY <1>6, VideoSets
  <2> QED BY <1>7, <2>1, <2>2, <2>3
<1>8. ASSUME N = M PROVE Goal
  <2>1. \A v \in M : Before(N, u, v) = Before(M, t, v) BY <1>4, <1>8 DEF Before
  <2>2. \A v \in M : Place(N, u, v) = Place(M, t, v) BY <2>1 DEF Place
  <2> QED BY <1>a, <1>5, <1>8, <2>2
<1>9. ASSUME N = {} PROVE Goal BY <1>a, <1>5, <1>9
<1>10. ASSUME NEW w \in M, N = M \ {w} PROVE Goal
  <2>1. M \ N = {w} /\ N \ M = {} BY <1>10
  <2>2. Cardinality(M \ N) = 1 /\ Cardinality(N \ M) = 0 BY <2>1, FS_Singleton, FS_EmptySet
  <2>3. /\ \A x, y \in N : /\ Place(N, u, x) < R /\ Place(M, t, x) >= R
                           /\ Place(N, u, y) < R /\ Place(M, t, y) >= R
                           => x = y
        /\ \A x \in N : Place(N, u, x) >= R => Place(M, t, x) >= R
    BY <1>2, <1>3, <1>4, <1>10, Departure
  <2>4. \A x \in Q \ P : x \in N /\ Place(N, u, x) < R /\ Place(M, t, x) >= R
    BY <1>2, <1>5, <1>6
  <2>5. \A x, y \in Q \ P : x = y BY <2>3, <2>4
  <2>6. Cardinality(Q) <= Cardinality(P) + 1 BY <1>6, <2>5, OneMore
  <2>7. B \subseteq A BY <1>5, <1>10, <2>3
  <2>8. Cardinality(B) <= Cardinality(A) BY <1>6, <2>7, Fewer
  <2> QED BY <1>7, <2>2, <2>6, <2>8
<1>11. ASSUME NEW w \in Videos \ M, N = M \cup {w} PROVE Goal
  <2>1. M \ N = {} /\ N \ M = {w} BY <1>11
  <2>2. Cardinality(M \ N) = 0 /\ Cardinality(N \ M) = 1 BY <2>1, FS_Singleton, FS_EmptySet
  <2>3. /\ \A x, y \in N : /\ Place(N, u, x) >= R /\ (x = w \/ Place(M, t, x) < R)
                           /\ Place(N, u, y) >= R /\ (y = w \/ Place(M, t, y) < R)
                           => x = y
        /\ \A x \in M : Place(N, u, x) < R => Place(M, t, x) < R
    <3>1. \A x \in M : u[x].createdAt = t[x].createdAt BY <1>4, <1>11
    <3> QED BY <1>2, <1>3, <1>11, <3>1, Arrival
  <2>4. \A x \in B \ A : x \in N /\ Place(N, u, x) >= R /\ (x = w \/ Place(M, t, x) < R)
    BY <1>2, <1>5, <1>6, <1>11
  <2>5. \A x, y \in B \ A : x = y BY <2>3, <2>4
  <2>6. Cardinality(B) <= Cardinality(A) + 1 BY <1>6, <2>5, OneMore
  <2>7. Q \subseteq P BY <1>5, <2>3
  <2>8. Cardinality(Q) <= Cardinality(P) BY <1>6, <2>7, Fewer
  <2> QED BY <1>7, <2>2, <2>6, <2>8
<1>12. Goal BY <1>1, <1>8, <1>9, <1>10, <1>11 DEF ListMoves
<1> QED BY <1>1, <1>12

\* The repetitions can be counted.
LEMMA RepeatedFinite ==
  ASSUME TypeOK
  PROVE  IsFiniteSet(Repeated) /\ Cardinality(Repeated) \in Nat
<1>1. Cardinality(Videos) \in Nat BY VideoSets
<1>2. IsFiniteSet(2..(Cardinality(Videos) + MaxMoves + 1)) BY <1>1, MovesAssumption, FS_Interval
<1>3. IsFiniteSet(Videos \X (2..(Cardinality(Videos) + MaxMoves + 1)))
  BY <1>2, FiniteAssumption, FS_Product
<1>4. Repeated \in SUBSET (Videos \X (2..(Cardinality(Videos) + MaxMoves + 1))) BY DEF Repeated
<1>5. IsFiniteSet(Repeated) BY <1>3, <1>4, FS_Subset
<1> QED BY <1>5, FS_CardinalityType

\* The counts of the invariant are numbers.
LEMMA WalkCounts ==
  ASSUME TypeOK, WalkInv
  PROVE  /\ Unseen \in SUBSET Videos /\ Passed \in SUBSET Unseen /\ Ahead \in SUBSET Videos
         /\ Cardinality(Unseen) \in Nat /\ Cardinality(Passed) \in Nat
         /\ Cardinality(Ahead) \in Nat /\ Cardinality(Repeated) \in Nat
         /\ walk.came \in Nat /\ walk.left \in Nat
<1>1. walk.stayed \subseteq Videos /\ walk.came \in Nat /\ walk.left \in Nat BY DEF TypeOK, Walk
<1>2. Unseen \in SUBSET Videos /\ Passed \in SUBSET Unseen /\ Ahead \in SUBSET Videos
  BY <1>1 DEF Unseen, Passed, Ahead, Matching
<1> QED BY <1>1, <1>2, VideoSets, RepeatedFinite

\* A move of the list keeps WalkInv.
LEMMA MovesStep ==
  ASSUME TypeOK, TypeOK', TimesApart, TimesApart', WalkInv, ListMoves
  PROVE  WalkInv'
<1>1. PICK C, D : /\ C = Cardinality(Matching(video)' \ Matching(video))
                  /\ D = Cardinality(Matching(video) \ Matching(video)')
  OBVIOUS
<1>2. C \in Nat /\ D \in Nat
  <2>1. Matching(video) \ Matching(video)' \in SUBSET Videos BY DEF Matching
  <2>2. Matching(video)' \ Matching(video) \in SUBSET Videos BY DEF Matching
  <2> QED BY <1>1, <2>1, <2>2, VideoSets
<1>3. /\ walk'.pc = walk.pc /\ walk'.page = walk.page /\ walk'.shown = walk.shown
      /\ walk'.stayed = walk.stayed \cap Matching(video)'
      /\ walk'.came = walk.came + C /\ walk'.left = walk.left + D
  BY <1>1 DEF ListMoves
<1>4. UNCHANGED Repeated BY <1>3 DEF Repeated
<1>5. Cardinality(Unseen)' <= Cardinality(Unseen)
  <2>1. Unseen' \in SUBSET Unseen BY <1>3 DEF Unseen
  <2>2. Cardinality(Unseen') <= Cardinality(Unseen) BY <2>1, WalkCounts, Fewer
  <2> QED BY <2>2
<1>6. Reading => /\ Cardinality(Passed)' <= Cardinality(Passed) + D
                 /\ Cardinality(Ahead)' <= Cardinality(Ahead) + C
  BY <1>1, ReadingMoves
<1>7. PICK p, q, a, b, n, m, r :
        /\ p = Cardinality(Passed) /\ q = Cardinality(Passed)'
        /\ a = Cardinality(Ahead) /\ b = Cardinality(Ahead)'
        /\ n = Cardinality(Unseen) /\ m = Cardinality(Unseen)' /\ r = Cardinality(Repeated)
  OBVIOUS
<1>8. /\ walk.came \in Nat /\ walk.left \in Nat
      /\ p \in Nat /\ a \in Nat /\ n \in Nat /\ r \in Nat
  BY <1>7, WalkCounts
<1>9. q \in Nat /\ b \in Nat /\ m \in Nat
  <2>1. walk'.stayed \subseteq Videos BY DEF TypeOK, Walk
  <2>2. Unseen' \in SUBSET Videos /\ Passed' \in SUBSET Videos /\ Ahead' \in SUBSET Videos
    BY <2>1 DEF Unseen, Passed, Ahead, Matching
  <2> QED BY <1>7, <2>2, VideoSets
<1>10. Reading' <=> Reading BY <1>3 DEF Reading
<1>11. Reading => /\ walk'.page # 0 /\ q <= walk'.left /\ r + b <= walk'.came
  <2>1. SUFFICES ASSUME Reading
                 PROVE  walk'.page # 0 /\ q <= walk'.left /\ r + b <= walk'.came
    OBVIOUS
  <2>2. walk.page # 0 /\ p <= walk.left /\ r + a <= walk.came BY <1>7, <2>1 DEF WalkInv
  <2>3. q <= p + D /\ b <= a + C BY <1>6, <1>7, <2>1
  <2> QED BY <1>2, <1>3, <1>8, <1>9, <2>2, <2>3
<1>12. walk.pc = "done" => m <= walk'.left
  BY <1>2, <1>3, <1>5, <1>7, <1>8, <1>9 DEF WalkInv
<1>13. r <= walk'.came BY <1>2, <1>3, <1>7, <1>8 DEF WalkInv
<1>14. walk'.stayed \subseteq Matching(video)' BY <1>3
<1> QED BY <1>3, <1>4, <1>7, <1>10, <1>11, <1>12, <1>13, <1>14 DEF WalkInv

\* A page is shown: what stood ahead on it is repeated, the rest of it is shown
\* for the first time.
LEMMA ItemsStep ==
  ASSUME TypeOK, TimesApart, WalkInv, SelectItems, Exists(walk.user)
  PROVE  WalkInv'
<1>t. walk \in Walk /\ walk.page \in Nat /\ walk.shown \in [Videos -> Nat] BY DEF TypeOK, Walk
<1> DEFINE M == Matching(video)
           L == walk.page * Limit
           K == (walk.page - 1) * Limit
           P == {v \in M : OnPage(v, walk.page) /\ walk.shown[v] # 0}
           J == {<<v, walk.shown[v] + 1>> : v \in P}
<1>1. /\ walk.pc = "items" /\ walk'.pc = "total" /\ walk'.page = walk.page
      /\ walk'.stayed = walk.stayed /\ walk'.came = walk.came /\ walk'.left = walk.left
      /\ walk'.user = walk.user /\ walk'.filter = walk.filter
      /\ walk'.shown = [v \in Videos |-> IF v \in M /\ OnPage(v, walk.page)
                                           THEN walk.shown[v] + 1 ELSE walk.shown[v]]
      /\ UNCHANGED video
  BY <1>t DEF SelectItems, Walk
<1>2. Matching(video)' = M BY <1>1 DEF Matching
<1>3. \A v : Rank(v)' = Rank(v) BY <1>1, <1>2 DEF Rank
<1>4. Reached = K /\ Reached' = L BY <1>1 DEF Reached
<1>5. walk.page # 0 BY <1>1 DEF WalkInv, Reading
<1>6. K \in Nat /\ L \in Nat /\ K <= L
  <2>1. walk.page - 1 \in Nat /\ walk.page - 1 <= walk.page /\ Limit \in Nat
    BY <1>t, <1>5, LimitAssumption
  <2> QED BY <1>t, <2>1
<1>7. M \in SUBSET Videos /\ \A v \in M : Rank(v) \in Nat BY Ranks, PlaceBound
<1>8. \A v \in M : OnPage(v, walk.page) <=> Rank(v) >= K /\ Rank(v) < L BY DEF OnPage
<1>9. \A v \in M : walk'.shown[v] = IF Rank(v) >= K /\ Rank(v) < L THEN walk.shown[v] + 1
                                                                  ELSE walk.shown[v]
  BY <1>1, <1>7, <1>8
<1>10. \A v \in M : walk.shown[v] \in Nat BY <1>t, <1>7
<1>11. \A v \in P : v \in M /\ walk.shown[v] # 0 /\ Rank(v) >= K /\ Rank(v) < L BY <1>8
<1>12. \A v \in M : walk.shown[v] # 0 /\ Rank(v) >= K /\ Rank(v) < L => v \in P BY <1>8
<1>13. Repeated' \subseteq Repeated \cup J
  <2>1. SUFFICES ASSUME NEW x \in Repeated', x \notin Repeated PROVE x \in J OBVIOUS
  <2>2. PICK v \in Videos, k \in 2..(Cardinality(Videos) + MaxMoves + 1) :
          x = <<v, k>> /\ walk'.shown[v] >= k /\ ~(walk.shown[v] >= k)
    BY <2>1 DEF Repeated
  <2>3. k \in Nat /\ k >= 2
    <3>1. Cardinality(Videos) \in Nat BY VideoSets
    <3> QED BY <2>2, <3>1, MovesAssumption
  <2>4. walk.shown[v] \in Nat BY <1>t
  <2>5. v \in M /\ OnPage(v, walk.page) /\ walk'.shown[v] = walk.shown[v] + 1
    BY <1>1, <2>2
  <2>6. k = walk.shown[v] + 1 BY <2>2, <2>3, <2>4, <2>5
  <2>7. walk.shown[v] # 0 BY <2>3, <2>4, <2>6
  <2> QED BY <2>2, <2>5, <2>6, <2>7
<1> HIDE DEF M, K, L, P
<1>14. P \in SUBSET Ahead /\ Ahead \in SUBSET Videos
  BY <1>4, <1>7, <1>11 DEF Ahead, M
<1>15. Ahead' \in SUBSET (Ahead \ P)
  <2>1. SUFFICES ASSUME NEW v \in M, walk'.shown[v] # 0, Rank(v) >= L
                 PROVE  walk.shown[v] # 0 /\ Rank(v) >= K /\ v \notin P
    BY <1>2, <1>3, <1>4 DEF Ahead, M
  <2>2. Rank(v) \in Nat BY <1>7
  <2>3. Rank(v) >= K /\ ~(Rank(v) < L) BY <1>6, <2>1, <2>2
  <2> QED BY <1>9, <1>11, <2>1, <2>3
<1>16. Passed' \in SUBSET Passed
  <2>1. SUFFICES ASSUME NEW v \in walk.stayed, walk'.shown[v] = 0, Rank(v) < L
                 PROVE  walk.shown[v] = 0 /\ Rank(v) < K
    BY <1>1, <1>3, <1>4 DEF Passed, Unseen
  <2>2. v \in M BY DEF WalkInv, M
  <2>3. Rank(v) \in Nat /\ walk.shown[v] \in Nat BY <1>7, <1>10, <2>2
  <2>4. ~(Rank(v) >= K)
    <3>1. CASE Rank(v) >= K
      <4>1. walk'.shown[v] = walk.shown[v] + 1 BY <1>9, <2>1, <2>2, <3>1
      <4> QED BY <2>1, <2>3, <4>1
    <3> QED BY <3>1
  <2> QED BY <1>6, <1>9, <2>1, <2>2, <2>3, <2>4
<1>17. IsFiniteSet(P) /\ Cardinality(P) \in Nat
  <2>1. P \in SUBSET Videos BY <1>14
  <2> QED BY <2>1, VideoSets
<1>18. IsFiniteSet(J) /\ Cardinality(J) <= Cardinality(P) /\ Cardinality(J) \in Nat
  <2> DEFINE f == [v \in P |-> <<v, walk.shown[v] + 1>>]
  <2>1. f \in [P -> J] /\ \A y \in J : \E v \in P : f[v] = y OBVIOUS
  <2>2. f \in Surjection(P, J) BY <2>1 DEF Surjection
  <2> HIDE DEF J, f
  <2>3. IsFiniteSet(J) /\ Cardinality(J) <= Cardinality(P) BY <1>17, <2>2, FS_Surjection
  <2> QED BY <2>3, FS_CardinalityType
<1> HIDE DEF J
<1>19. Cardinality(Repeated)' <= Cardinality(Repeated) + Cardinality(P)
  <2>1. IsFiniteSet(Repeated) /\ Cardinality(Repeated) \in Nat BY RepeatedFinite
  <2>2. /\ IsFiniteSet(Repeated \cup J)
        /\ Cardinality(Repeated \cup J) =
             Cardinality(Repeated) + Cardinality(J) - Cardinality(Repeated \cap J)
    BY <1>18, <2>1, FS_Union
  <2>3. IsFiniteSet(Repeated \cap J) BY <2>1, FS_Intersection
  <2>4. Cardinality(Repeated \cap J) \in Nat BY <2>3, FS_CardinalityType
  <2>5. IsFiniteSet(Repeated') /\ Cardinality(Repeated') <= Cardinality(Repeated \cup J)
    BY <1>13, <2>2, FS_Subset
  <2>6. Cardinality(Repeated') \in Nat BY <2>5, FS_CardinalityType
  <2>7. Cardinality(Repeated') <= Cardinality(Repeated) + Cardinality(P)
    BY <1>17, <1>18, <2>1, <2>2, <2>4, <2>5, <2>6
  <2> QED BY <2>7
<1>20. Cardinality(Ahead)' <= Cardinality(Ahead) - Cardinality(P)
  <2>1. IsFiniteSet(Ahead) BY <1>14, VideoSets
  <2>2. /\ IsFiniteSet(Ahead \ P)
        /\ Cardinality(Ahead \ P) = Cardinality(Ahead) - Cardinality(Ahead \cap P)
    BY <2>1, FS_Difference
  <2>3. Ahead \cap P = P BY <1>14
  <2>4. Cardinality(Ahead') <= Cardinality(Ahead \ P) BY <1>15, <2>2, FS_Subset
  <2>5. Cardinality(Ahead') <= Cardinality(Ahead) - Cardinality(P) BY <2>2, <2>3, <2>4
  <2> QED BY <2>5
<1>21. Cardinality(Passed)' <= Cardinality(Passed)
  <2>1. Passed \in SUBSET Videos BY WalkCounts
  <2>2. Cardinality(Passed') <= Cardinality(Passed) BY <1>16, <2>1, Fewer
  <2> QED BY <2>2
<1>22. PICK p, q, a, b, r, s, k :
        /\ p = Cardinality(Passed) /\ q = Cardinality(Passed)'
        /\ a = Cardinality(Ahead) /\ b = Cardinality(Ahead)'
        /\ r = Cardinality(Repeated) /\ s = Cardinality(Repeated)' /\ k = Cardinality(P)
  OBVIOUS
<1>23. /\ walk.came \in Nat /\ walk.left \in Nat
       /\ p \in Nat /\ a \in Nat /\ r \in Nat /\ k \in Nat
  BY <1>17, <1>22, WalkCounts
<1>24. q \in Nat /\ b \in Nat /\ s \in Nat
  <2>1. Passed' \in SUBSET Videos /\ Ahead' \in SUBSET Videos
    BY <1>14, <1>15, <1>16, WalkCounts
  <2>2. IsFiniteSet(Repeated \cup J) BY <1>18, RepeatedFinite, FS_Union
  <2>3. IsFiniteSet(Repeated') BY <1>13, <2>2, FS_Subset
  <2>4. Cardinality(Repeated') \in Nat BY <2>3, FS_CardinalityType
  <2>5. Cardinality(Passed') \in Nat /\ Cardinality(Ahead') \in Nat BY <2>1, VideoSets
  <2> QED BY <1>22, <2>4, <2>5
<1>25. p <= walk.left /\ r + a <= walk.came BY <1>1, <1>22 DEF WalkInv, Reading
<1>26. q <= p /\ s <= r + k /\ b <= a - k BY <1>19, <1>20, <1>21, <1>22
<1>27. q <= walk.left /\ s + b <= walk.came /\ s <= walk.came
  BY <1>23, <1>24, <1>25, <1>26
<1>28. walk'.stayed \subseteq Matching(video)' BY <1>1, <1>2 DEF WalkInv, M
<1> QED BY <1>1, <1>5, <1>22, <1>27, <1>28 DEF WalkInv, Reading

\* A request that is refused ends the walk and shows nothing.
LEMMA RefusedStep ==
  ASSUME TypeOK, WalkInv, SelectItems, ~Exists(walk.user)
  PROVE  WalkInv'
<1>t. walk \in Walk BY DEF TypeOK
<1>1. /\ walk'.pc = "refused" /\ walk'.shown = walk.shown /\ walk'.stayed = walk.stayed
      /\ walk'.came = walk.came /\ walk'.user = walk.user /\ walk'.filter = walk.filter
      /\ UNCHANGED video
  BY <1>t DEF SelectItems, Walk
<1>2. UNCHANGED <<Matching(video), Repeated>> BY <1>1 DEF Matching, Repeated
<1> QED BY <1>1, <1>2 DEF WalkInv, Reading

\* The client turns the page, or there is none left and every video of the list
\* stands where it has been.
LEMMA TotalStep ==
  ASSUME TypeOK, TimesApart, WalkInv, SelectTotal
  PROVE  WalkInv'
<1>t. walk \in Walk /\ walk.page \in Nat BY DEF TypeOK, Walk
<1>1. /\ walk.pc = "total" /\ walk'.shown = walk.shown /\ walk'.stayed = walk.stayed
      /\ walk'.came = walk.came /\ walk'.left = walk.left
      /\ walk'.user = walk.user /\ walk'.filter = walk.filter
      /\ UNCHANGED video
  BY <1>t DEF SelectTotal, Walk
<1>2. UNCHANGED <<Matching(video), Repeated>> BY <1>1 DEF Matching, Repeated
<1>3. \A v : Rank(v)' = Rank(v) BY <1>1, <1>2 DEF Rank
<1>4. /\ walk.page # 0 /\ Cardinality(Passed) <= walk.left
      /\ Cardinality(Repeated) + Cardinality(Ahead) <= walk.came
      /\ Cardinality(Repeated) <= walk.came
      /\ walk.stayed \subseteq Matching(video)
  BY <1>1 DEF WalkInv, Reading
<1>5. CASE walk.page < totalPages(Cardinality(Matching(video)))
  <2>1. walk'.pc = "items" /\ walk'.page = walk.page + 1
    BY <1>t, <1>5 DEF SelectTotal, Walk
  <2>2. Reached' = Reached
    <3>1. Reached' = (walk'.page - 1) * Limit BY <2>1 DEF Reached
    <3>2. walk'.page - 1 = walk.page BY <1>t, <2>1
    <3>3. Reached = walk.page * Limit BY <1>1 DEF Reached
    <3> QED BY <3>1, <3>2, <3>3
  <2>3. Passed' = Passed BY <1>1, <1>3, <2>2 DEF Passed, Unseen
  <2>4. Ahead' = Ahead BY <1>1, <1>2, <1>3, <2>2 DEF Ahead
  <2>5. walk'.page # 0 BY <1>t, <2>1
  <2> QED BY <1>1, <1>2, <1>4, <2>1, <2>3, <2>4, <2>5 DEF WalkInv, Reading
<1>6. CASE ~(walk.page < totalPages(Cardinality(Matching(video))))
  <2>1. walk'.pc = "done" BY <1>t, <1>6 DEF SelectTotal, Walk
  <2>2. Matching(video) \in SUBSET Videos /\ Cardinality(Matching(video)) \in Nat
    BY Ranks, VideoSets
  <2>3. Cardinality(Matching(video)) <= walk.page * Limit
    BY <1>t, <1>6, <2>2, PagesSuffice
  <2>4. Reached = walk.page * Limit /\ walk.page * Limit \in Nat
    BY <1>t, <1>1, LimitAssumption DEF Reached
  <2>5. ASSUME NEW v \in Unseen PROVE v \in Passed
    <3>1. v \in Matching(video) BY <1>4, <2>5 DEF Unseen
    <3>2. Rank(v) \in Nat /\ Rank(v) < Cardinality(Matching(video))
      BY <2>2, <3>1, Ranks, PlaceBound
    <3>3. Rank(v) < Reached BY <2>2, <2>3, <2>4, <3>2
    <3> QED BY <2>5, <3>3 DEF Passed
  <2>6. Unseen' = Passed
    <3>1. Unseen' = Unseen BY <1>1 DEF Unseen
    <3> QED BY <2>5, <3>1 DEF Passed
  <2> QED BY <1>1, <1>2, <1>4, <2>1, <2>6 DEF WalkInv, Reading
<1> QED BY <1>5, <1>6

\* A walk starts where nothing has been passed, shown or repeated.
LEMMA StartStep ==
  ASSUME TypeOK, WalkInv, NEW u \in Users, NEW f \in {{"asked"}, Statuses}, StartWalk(u, f)
  PROVE  WalkInv'
<1>t. walk \in Walk /\ walk.came \in Nat /\ walk.left \in Nat BY DEF TypeOK, Walk
<1>1. /\ walk.pc = "idle" /\ walk'.pc = "items" /\ walk'.page = 1 /\ walk'.user = u
      /\ walk'.filter = f /\ walk'.shown = walk.shown
      /\ walk'.came = walk.came /\ walk'.left = walk.left
      /\ walk'.stayed = {v \in Videos : /\ video[v].pc = "row" /\ video[v].owner = u
                                        /\ video[v].status \in f}
      /\ UNCHANGED video
  BY <1>t DEF StartWalk, Walk
<1>2. walk'.stayed = Matching(video)' BY <1>1 DEF Matching
<1>3. \A v \in Videos : walk.shown[v] = 0 BY <1>1 DEF WalkInv
<1>4. Reached' = 0
  <2>1. Reached' = (1 - 1) * Limit BY <1>1 DEF Reached
  <2>2. (1 - 1) * Limit = 0 BY LimitAssumption
  <2> QED BY <2>1, <2>2
<1>5. Passed' = {}
  <2>1. SUFFICES ASSUME NEW v \in Matching(video)' PROVE ~(Rank(v)' < 0)
    BY <1>2, <1>4 DEF Passed, Unseen
  <2>2. Rank(v)' \in Nat
    <3>1. {w \in Matching(video)' : video'[w].createdAt > video'[v].createdAt} \in SUBSET Videos
      BY DEF Matching
    <3>2. Cardinality({w \in Matching(video)' : video'[w].createdAt > video'[v].createdAt}) \in Nat
      BY <3>1, VideoSets
    <3> QED BY <3>2 DEF Rank
  <2> QED BY <2>2
<1>6. Ahead' = {} BY <1>1, <1>3 DEF Ahead, Matching
<1>7. Repeated = {} /\ Repeated' = {}
  <2>1. Cardinality(Videos) \in Nat BY VideoSets
  <2>2. \A k \in 2..(Cardinality(Videos) + MaxMoves + 1) : ~(0 >= k) BY <2>1, MovesAssumption
  <2> QED BY <1>1, <1>3, <2>2 DEF Repeated
<1> QED BY <1>t, <1>1, <1>2, <1>5, <1>6, <1>7, FS_EmptySet DEF WalkInv, Reading

\* The walk's counts hold in every reachable state.
LEMMA WalkInvariance == Spec => [](TimesApart /\ WalkInv)
<1>1. Init => TimesApart /\ WalkInv
  <2> SUFFICES ASSUME Init PROVE TimesApart /\ WalkInv OBVIOUS
  <2>1. TimesApart BY DEF Init, TimesApart, Blank
  <2>2. /\ walk.pc = "idle" /\ walk.stayed = {} /\ walk.came = 0
        /\ \A v \in Videos : walk.shown[v] = 0
    BY DEF Init
  <2>3. Repeated = {}
    <3>1. Cardinality(Videos) \in Nat BY VideoSets
    <3>2. \A k \in 2..(Cardinality(Videos) + MaxMoves + 1) : ~(0 >= k) BY <3>1, MovesAssumption
    <3> QED BY <2>2, <3>2 DEF Repeated
  <2> QED BY <2>1, <2>2, <2>3, FS_EmptySet DEF WalkInv, Reading
<1>2. ASSUME TypeOK, TypeOK', TimesApart, WalkInv, [Next]_vars PROVE TimesApart' /\ WalkInv'
  <2>1. CASE UNCHANGED vars
    <3>1. TimesApart' BY <1>2, <2>1 DEF TimesApart, vars
    <3>2. UNCHANGED <<Matching(video), Repeated>> BY <2>1 DEF Matching, Repeated, vars
    <3>3. \A v : Rank(v)' = Rank(v) BY <2>1, <3>2 DEF Rank, vars
    <3>4. UNCHANGED <<Reading, Reached, Unseen>> BY <2>1 DEF Reading, Reached, Unseen, vars
    <3>5. UNCHANGED <<Passed, Ahead>>
      BY <2>1, <3>2, <3>3, <3>4 DEF Passed, Ahead, vars
    <3> QED BY <1>2, <2>1, <3>1, <3>2, <3>4, <3>5 DEF WalkInv, vars
  <2>2. CASE Next
    <3>1. TimesApart' BY <1>2, <2>2, TimesStep
    <3> QED BY <1>2, <2>2, <3>1, ListStep, MovesStep, StartStep, ItemsStep, RefusedStep, TotalStep
  <2> QED BY <1>2, <2>1, <2>2
<1> QED BY <1>1, <1>2, LibraryTypeCorrect, PTL DEF Spec

\* A client that followed hasNextPage to the end (videos.service.ts:57-87) has
\* missed at most one video per departure, for every page size, every number of
\* videos and every interleaving with inserts, removals and status changes.
THEOREM WalksMissAtMostDepartures == Spec => []MissesAtMostDepartures
<1>1. WalkInv => MissesAtMostDepartures BY DEF WalkInv, MissesAtMostDepartures, Unseen
<1> QED BY <1>1, WalkInvariance, PTL

\* The same client is shown a video again at most once per arrival.
THEOREM WalksRepeatAtMostArrivals == Spec => []RepeatsAtMostArrivals
<1>1. WalkInv => RepeatsAtMostArrivals BY DEF WalkInv, RepeatsAtMostArrivals, Repeated
<1> QED BY <1>1, WalkInvariance, PTL
=============================================================================
