------------------------------ MODULE Library ------------------------------
(***************************************************************************)
(* Accounts and the videos they own, as the API sees them: AuthService and *)
(* UsersService on the users table, the rows that POST, DELETE and the     *)
(* worker change in the videos table, and a client that walks through the  *)
(* pages of GET /videos while all this goes on.                            *)
(*                                                                         *)
(* A request is authenticated by JwtStrategy.validate before its handler   *)
(* runs, and a page is two queries, one for the items and one for the      *)
(* total; everything else may happen in between.                           *)
(***************************************************************************)
EXTENDS Integers, FiniteSets

CONSTANTS
  Users,     \* calls of register, each also naming the id of its account
  Emails,
  Usernames,
  Videos,
  Limit,     \* items per page (20 by default)
  MaxMoves,  \* bound on the status changes during a walk
  None

ASSUME LimitAssumption == Limit \in Nat \ {0}
ASSUME MovesAssumption == MaxMoves \in Nat
ASSUME NoneAssumption  ==
  None \notin Users \cup Emails \cup Usernames \cup
              [email : Emails, username : Usernames \cup {None}]
ASSUME FiniteAssumption == IsFiniteSet(Videos)

VARIABLES
  user,      \* the users table
  register,  \* where each call of register stands
  video,     \* the videos table and the requests that fill it
  clock,     \* PostgreSQL's now(), taken to be distinct in every transaction
  walk,      \* the client that reads page after page
  moves      \* number of status changes so far (bounded by MaxMoves)

vars == <<user, register, video, clock, walk, moves>>

-----------------------------------------------------------------------------
(* Accounts.                                                                *)

Account == [email : Emails, username : Usernames \cup {None}]

Registration == [pc : {"idle", "insert", "created", "conflict", "error"},
                 email : Emails \cup {None}, username : Usernames \cup {None}]

Exists(u) == user[u] # None

\* The unique indexes of the users table; NULL equals nothing.
IndexesAllow(u, email, username) ==
  \A o \in Users \ {u} :
    Exists(o) => /\ user[o].email # email
                 /\ username # None => user[o].username # username

\* Mutant: the email is not handed on.
RegisterLosesEmail(u, email, username) ==
  /\ register[u].pc = "idle"
  /\ register' = [register EXCEPT ![u] =
       [pc |-> IF \E o \in Users : Exists(o) /\ user[o].email = email
                 THEN "conflict" ELSE "insert",
        email |-> None, username |-> username]]
  /\ UNCHANGED <<user, video, clock, walk, moves>>

\* Mutant: a call that has passed the check keeps others from passing it, and
\* nothing says that its own insert will succeed.
RegisterReservesEmail(u, email, username) ==
  /\ register[u].pc = "idle"
  /\ register' = [register EXCEPT ![u] =
       [pc |-> IF \/ \E o \in Users : Exists(o) /\ user[o].email = email
                  \/ \E o \in Users : register[o].pc = "insert" /\ register[o].email = email
                 THEN "conflict" ELSE "insert",
        email |-> email, username |-> username]]
  /\ UNCHANGED <<user, video, clock, walk, moves>>

\* findByEmail: 409 if the address is taken, otherwise hash the password ...
Register(u, email, username) ==
  /\ register[u].pc = "idle"
  /\ register' = [register EXCEPT ![u] =
       [pc |-> IF \E o \in Users : Exists(o) /\ user[o].email = email
                 THEN "conflict" ELSE "insert",
        email |-> email, username |-> username]]
  /\ UNCHANGED <<user, video, clock, walk, moves>>

\* ... and insert the row; an index that refuses it is an error 500.
CreateUser(u) ==
  LET r  == register[u]
      ok == IndexesAllow(u, r.email, r.username)
  IN  /\ r.pc = "insert"
      /\ user' = IF ok THEN [user EXCEPT ![u] = [email |-> r.email, username |-> r.username]]
                       ELSE user
      /\ register' = [register EXCEPT ![u].pc = IF ok THEN "created" ELSE "error"]
      /\ UNCHANGED <<video, clock, walk, moves>>

\* PATCH /users/me: UPDATE the username (the DTO omits the email).
UpdateMe(u, username) ==
  /\ Exists(u)
  /\ IndexesAllow(u, user[u].email, username)
  /\ user' = [user EXCEPT ![u].username = username]
  /\ UNCHANGED <<register, video, clock, walk, moves>>

-----------------------------------------------------------------------------
(* The list of an account's videos.                                         *)

\* "open" stands for the statuses a filter does not ask for; DLQ retries lead
\* back to them.
Statuses == {"open", "asked"}

VideoPc == {"none", "auth", "insert", "row", "gone"}

Video == [pc : VideoPc, owner : Users \cup {None}, createdAt : Nat, status : Statuses]

Blank(pc) == [pc |-> pc, owner |-> None, createdAt |-> 0, status |-> "open"]

Walk == [pc : {"idle", "items", "total", "done", "refused"}, user : Users \cup {None},
         filter : SUBSET Statuses, page : Nat, shown : [Videos -> Nat],
         stayed : SUBSET Videos, came : Nat, left : Nat]

\* The rows the client's query asks for, in table t.
Matching(t) ==
  {v \in Videos : t[v].pc = "row" /\ t[v].owner = walk.user /\ t[v].status \in walk.filter}

\* Write table t: what it does to the rows asked for is history of the walk.
Write(t) ==
  /\ video' = t
  /\ walk' = [walk EXCEPT !.stayed = @ \cap Matching(t),
                          !.came = @ + Cardinality(Matching(t) \ Matching(video)),
                          !.left = @ + Cardinality(Matching(video) \ Matching(t))]

\* POST /videos: the token is valid and its account still there ...
validate(v, u) ==
  /\ video[v].pc = "none"
  /\ Exists(u)
  /\ video' = [video EXCEPT ![v] = [@ EXCEPT !.pc = "auth", !.owner = u]]
  /\ UNCHANGED <<user, register, clock, walk, moves>>

\* ... open the transaction, whose start becomes createdAt ...
BeginCreate(v) ==
  /\ video[v].pc = "auth"
  /\ clock' = clock + 1
  /\ video' = [video EXCEPT ![v] = [@ EXCEPT !.pc = "insert", !.createdAt = clock']]
  /\ UNCHANGED <<user, register, walk, moves>>

\* Mutant: no foreign key.
InsertUnchecked(v) ==
  /\ video[v].pc = "insert"
  /\ Write([video EXCEPT ![v].pc = "row"])
  /\ UNCHANGED <<user, register, clock, moves>>

\* ... and insert the row; the foreign key refuses it (500) if the account has
\* gone meanwhile.
createAndQueue(v) ==
  /\ video[v].pc = "insert"
  /\ Write([video EXCEPT ![v] =
       IF Exists(video[v].owner) THEN [@ EXCEPT !.pc = "row"] ELSE Blank("gone")])
  /\ UNCHANGED <<user, register, clock, moves>>

\* The row exists (404 otherwise) and is u's (403 otherwise).
findOneForUser(v, u) == video[v].pc = "row" /\ video[v].owner = u

\* DELETE /videos/:id.
RemoveVideo(v, u) ==
  /\ Exists(u)
  /\ findOneForUser(v, u)
  /\ Write([video EXCEPT ![v] = Blank("gone")])
  /\ UNCHANGED <<user, register, clock, moves>>

\* The pipeline, or a retry, changes the status.
MoveVideo(v) ==
  /\ video[v].pc = "row"
  /\ moves < MaxMoves
  /\ moves' = moves + 1
  /\ \E s \in Statuses \ {video[v].status} : Write([video EXCEPT ![v].status = s])
  /\ UNCHANGED <<user, register, clock>>

\* DELETE /users/:id by an admin: the row goes, and by ON DELETE CASCADE the
\* videos with it.
RemoveUser(u) ==
  /\ Exists(u)
  /\ user' = [user EXCEPT ![u] = None]
  /\ Write([v \in Videos |->
       IF video[v].pc = "row" /\ video[v].owner = u
         THEN Blank("gone") ELSE video[v]])
  /\ UNCHANGED <<register, clock, moves>>

-----------------------------------------------------------------------------
(* GET /videos?page=&limit=&status=                                         *)

\* How many rows stand before v in ORDER BY createdAt DESC.
Rank(v) == Cardinality({w \in Matching(video) : video[w].createdAt > video[v].createdAt})

\* Mutant: one row more than asked for.
OnPageAndOne(v, page) == Rank(v) >= (page - 1) * Limit /\ Rank(v) <= page * Limit

\* skip((page - 1) * limit).take(limit)
OnPage(v, page) == Rank(v) >= (page - 1) * Limit /\ Rank(v) < page * Limit

\* Mutant: Math.floor.
totalPagesFloor(total) == total \div Limit

\* Math.ceil(total / limit)
totalPages(total) == (total + Limit - 1) \div Limit

\* The client asks for its first page.
StartWalk(u, filter) ==
  /\ walk.pc = "idle"
  /\ Exists(u)
  /\ walk' = [walk EXCEPT !.pc = "items", !.user = u, !.filter = filter, !.page = 1,
       !.stayed = {v \in Videos : /\ video[v].pc = "row" /\ video[v].owner = u
                                  /\ video[v].status \in filter}]
  /\ UNCHANGED <<user, register, video, clock, moves>>

\* The request is authenticated and selects its items ...
SelectItems ==
  /\ walk.pc = "items"
  /\ walk' = IF Exists(walk.user)
               THEN [walk EXCEPT !.pc = "total", !.shown = [v \in Videos |->
                      IF v \in Matching(video) /\ OnPage(v, walk.page)
                        THEN walk.shown[v] + 1 ELSE walk.shown[v]]]
               ELSE [walk EXCEPT !.pc = "refused"]
  /\ UNCHANGED <<user, register, video, clock, moves>>

\* ... then the total; the client goes on while hasNextPage.
SelectTotal ==
  /\ walk.pc = "total"
  /\ walk' = IF walk.page < totalPages(Cardinality(Matching(video)))
               THEN [walk EXCEPT !.pc = "items", !.page = @ + 1]
               ELSE [walk EXCEPT !.pc = "done"]
  /\ UNCHANGED <<user, register, video, clock, moves>>

-----------------------------------------------------------------------------
Init ==
  /\ user     = [u \in Users |-> None]
  /\ register = [u \in Users |-> [pc |-> "idle", email |-> None, username |-> None]]
  /\ video    = [v \in Videos |-> Blank("none")]
  /\ clock    = 0
  /\ walk     = [pc |-> "idle", user |-> None, filter |-> {}, page |-> 0,
                 shown |-> [v \in Videos |-> 0], stayed |-> {}, came |-> 0, left |-> 0]
  /\ moves    = 0

Next ==
  \/ \E u \in Users :
       \/ \E e \in Emails, n \in Usernames \cup {None} : Register(u, e, n)
       \/ CreateUser(u) \/ RemoveUser(u)
       \/ \E n \in Usernames : UpdateMe(u, n)
       \/ \E f \in {{"asked"}, Statuses} : StartWalk(u, f)
  \/ \E v \in Videos :
       \/ \E u \in Users : validate(v, u) \/ RemoveVideo(v, u)
       \/ BeginCreate(v) \/ createAndQueue(v) \/ MoveVideo(v)
  \/ SelectItems \/ SelectTotal

Spec == Init /\ [][Next]_vars

-----------------------------------------------------------------------------
(* Properties.                                                              *)

\* Every variable keeps its type.
TypeOK ==
  /\ user     \in [Users -> Account \cup {None}]
  /\ register \in [Users -> Registration]
  /\ video    \in [Videos -> Video]
  /\ clock    \in Nat
  /\ walk     \in Walk
  /\ moves    \in 0..MaxMoves

\* A person is turned away for an account that somebody got: register checks
\* the email long before it inserts (auth.service.ts:23-29) and nobody checks
\* the username, so of several calls for one address any number may pass the
\* check and any number may be refused, by the check (409) or by the table
\* (500), but never all of them for one another's sake.  The winner may have
\* been removed since.
RefusedByAWinner ==
  \A u \in Users : register[u].pc \in {"conflict", "error"} =>
    \E o \in Users \ {u} :
      /\ register[o].pc = "created"
      /\ \/ register[o].email = register[u].email
         \/ register[u].pc = "error" /\ register[u].username # None

\* A video never outlives its account (video.entity.ts:63), also when the
\* account is removed between the authentication of POST /videos and its
\* insert.
VideosHaveOwners ==
  \A v \in Videos : video[v].pc = "row" => Exists(video[v].owner)

\* A client that followed hasNextPage to the end (videos.service.ts:57-87) has
\* seen every video that was in its list all the time, except at most one per
\* video that left the list meanwhile: each moves the later pages up by one.
MissesAtMostDepartures ==
  walk.pc = "done" =>
    Cardinality({v \in walk.stayed : walk.shown[v] = 0}) <= walk.left

\* It is shown a video again at most once per video that entered the list
\* meanwhile: each moves the later pages down by one.
RepeatsAtMostArrivals ==
  Cardinality({x \in Videos \X (2..(Cardinality(Videos) + MaxMoves + 1)) :
                 walk.shown[x[1]] >= x[2]}) <= walk.came
=============================================================================
