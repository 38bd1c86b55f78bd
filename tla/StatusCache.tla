---------------------------- MODULE StatusCache ----------------------------
(***************************************************************************)
(* The Redis status cache of JobStatusService, for one video (each video   *)
(* has a key of its own).  transitionStatus and updateProgress write the   *)
(* row and then send a SET nobody waits for; markFailed evicts;            *)
(* getCachedStatus reads the cache, or the row and then fills the cache.   *)
(* A retry from the DLQ and a deletion write the row and leave the cache   *)
(* alone.  Of a snapshot only the status is kept.                          *)
(*                                                                         *)
(* Time is counted in ticks; an entry lives for TTL of them.               *)
(***************************************************************************)
EXTENDS Integers, Sequences

CONSTANTS
  Processes,   \* processes that run VideoGenerationProcessor
  Readers,     \* calls of getCachedStatus in flight
  None,        \* no entry under the key
  TTL,         \* CACHE_TTL_SECONDS, in ticks
  MaxReports,  \* bound on the progress reports of one attempt
  MaxRetries   \* bound on the number of retries from the DLQ

Status == {"PENDING", "PROCESSING", "COMPLETED", "FAILED", "DELETED"}

ASSUME TTLAssumption    == TTL \in Nat \ {0}
ASSUME ReportAssumption == MaxReports \in Nat
ASSUME RetryAssumption  == MaxRetries \in Nat
ASSUME NoneAssumption   == None \notin Status

VARIABLES
  row,      \* status of the row, or DELETED
  cache,    \* status in the snapshot under the key, or None
  ttl,      \* ticks the entry has left
  process,  \* what each attempt is doing
  out,      \* commands each process has issued and Redis not yet executed
  reader,   \* where each getCachedStatus stands
  retries,  \* number of retries so far (bounded by MaxRetries)
  since,    \* history: ticks since the row last had each status
  trouble   \* history: the worst that has happened so far

vars == <<row, cache, ttl, process, out, reader, retries, since, trouble>>

\* More ticks than any entry can live, and "the row never had this status".
LongAgo == TTL + 1
Never   == TTL + 2

(***************************************************************************)
(*  Calm      nothing out of the ordinary                                  *)
(*  Missed    a write of the row missed the cache: a command was lost with *)
(*            its process or rejected (the first of a process always is:   *)
(*            lazyConnect without an offline queue), a backfill came late, *)
(*            an attempt began before the commands of the last one were    *)
(*            executed, or a reset left FAILED behind                      *)
(*  Disorder  attempts overlapped, a record was retried after its video    *)
(*            had moved on, the row was deleted under an attempt, or a     *)
(*            command or a backfill took a tick                            *)
(***************************************************************************)
Calm     == 0
Missed   == 1
Disorder == 2

Raise(level) == trouble' = IF trouble < level THEN level ELSE trouble

\* Commands: SET to a status, DEL.
Del     == "DEL"
Command == Status \cup {Del}

\* attempts: "start" has read the row, "work" won the transition, "report" has
\* a ready video and its job is not told yet, "catch" found no row, "evict"
\* waits for its DEL.
Pc      == {"idle", "start", "work", "report", "catch", "evict"}
Process == [pc : Pc, seen : Status, reports : 0..MaxReports]
Idle    == [pc |-> "idle", seen |-> "PENDING", reports |-> 0]

Reader  == [pc : {"idle", "load", "backfill"}, status : Status]

At(p, pc) == process[p].pc = pc

\* The row now has status s: remember when it last had the others.
WriteRow(s) ==
  /\ row' = s
  /\ since' = [since EXCEPT ![s] = 0]

\* ioredis sends the commands of a process in the order they were issued.
Send(p, command) == out' = [out EXCEPT ![p] = Append(@, command)]

\* The attempt of p goes on to pc, where nobody asks for seen or reports any more.
ReadyTo(p, pc) == process' = [process EXCEPT ![p] = [Idle EXCEPT !.pc = pc]]

-----------------------------------------------------------------------------
(* The calls of VideoGenerationProcessor.                                   *)

\* An attempt is delivered and reads the row; findById throws if there is none.
\* (A bound: the queue of p itself is empty; its commands would be executed in
\* order anyway.)
Begin(p) ==
  /\ At(p, "idle")
  /\ out[p] = << >>
  /\ process' = [process EXCEPT ![p] =
       [Idle EXCEPT !.pc = IF row = "DELETED" THEN "catch" ELSE "start", !.seen = row]]
  /\ Raise(IF \E o \in Processes : ~At(o, "idle") THEN Disorder
           ELSE IF \E o \in Processes : out[o] # << >> THEN Missed ELSE Calm)
  /\ UNCHANGED <<row, cache, ttl, out, reader, retries, since>>

VALID_TRANSITIONS ==
  [s \in Status |->
     CASE s = "PENDING"    -> {"PROCESSING", "FAILED"}
       [] s = "PROCESSING" -> {"PROCESSING", "COMPLETED", "FAILED"}
       [] OTHER            -> {}]

\* The table allows the step and the optimistic UPDATE finds the row.
Applies(expectedStatus, newStatus) ==
  newStatus \in VALID_TRANSITIONS[expectedStatus] /\ row = expectedStatus

\* Mutant: the snapshot is cached whether or not the row was updated.
CachesUnapplied(p, expectedStatus, newStatus) ==
  /\ Send(p, newStatus)
  /\ IF Applies(expectedStatus, newStatus)
       THEN WriteRow(newStatus) ELSE UNCHANGED <<row, since>>

\* Write the row under the optimistic guard, then cache what was written.
transitionStatus(p, expectedStatus, newStatus) ==
  IF Applies(expectedStatus, newStatus)
    THEN WriteRow(newStatus) /\ Send(p, newStatus)
    ELSE UNCHANGED <<row, since, out>>

\* The start transition; the attempt goes on if it was applied.
StartAttempt(p) ==
  /\ At(p, "start")
  /\ transitionStatus(p, process[p].seen, "PROCESSING")
  /\ ReadyTo(p, IF Applies(process[p].seen, "PROCESSING") THEN "work" ELSE "idle")
  /\ UNCHANGED <<cache, ttl, reader, retries, trouble>>

\* The row keeps its status, whichever it is; PROCESSING is cached regardless.
updateProgress(p) ==
  /\ At(p, "work")
  /\ process[p].reports < MaxReports
  /\ process' = [process EXCEPT ![p].reports = @ + 1]
  /\ Send(p, "PROCESSING")
  /\ UNCHANGED <<row, cache, ttl, reader, retries, since, trouble>>

\* The video is ready; whether the transition is applied is not looked at.
Complete(p) ==
  /\ At(p, "work")
  /\ transitionStatus(p, "PROCESSING", "COMPLETED")
  /\ ReadyTo(p, "report")
  /\ UNCHANGED <<cache, ttl, reader, retries, trouble>>

\* job.updateProgress(100) succeeds and the handler returns; if it fails, the
\* attempt ends like any other that throws.
Report(p) ==
  /\ At(p, "report")
  /\ ReadyTo(p, "idle")
  /\ UNCHANGED <<row, cache, ttl, out, reader, retries, since, trouble>>

\* Where an attempt may throw.
MayThrow(p) == process[p].pc \in {"start", "work", "report", "catch"}

\* An attempt that is not the last one throws.
Rethrow(p) ==
  /\ MayThrow(p)
  /\ ReadyTo(p, "idle")
  /\ UNCHANGED <<row, cache, ttl, out, reader, retries, since, trouble>>

\* Mutant: the old entry is left to expire.
MarkFailedKeepsCache(p) ==
  /\ MayThrow(p)
  /\ IF row = "DELETED" THEN UNCHANGED <<row, since>> ELSE WriteRow("FAILED")
  /\ ReadyTo(p, "idle")
  /\ UNCHANGED <<cache, ttl, out, reader, retries, trouble>>

\* The last attempt failed: write the row, then evict ...
markFailed(p) ==
  /\ MayThrow(p)
  /\ IF row = "DELETED" THEN UNCHANGED <<row, since>> ELSE WriteRow("FAILED")
  /\ Send(p, Del)
  /\ ReadyTo(p, "evict")
  /\ UNCHANGED <<cache, ttl, reader, retries, trouble>>

\* ... and wait for it (a failed DEL is only logged).
Evicted(p) ==
  /\ At(p, "evict")
  /\ out[p] = << >>
  /\ ReadyTo(p, "idle")
  /\ UNCHANGED <<row, cache, ttl, out, reader, retries, since, trouble>>

-----------------------------------------------------------------------------
(* Redis.                                                                   *)

\* Mutant: the entry outlives CACHE_TTL_SECONDS.
SetTooLong(s) ==
  /\ cache' = s
  /\ ttl' = TTL + 1

\* Mutant: SET without EX, here as a life longer than any history.
SetForever(s) ==
  /\ cache' = s
  /\ ttl' = Never

\* SET key value EX CACHE_TTL_SECONDS
Set(s) ==
  /\ cache' = s
  /\ ttl' = TTL

\* Redis executes the oldest command of p ...
Execute(p) ==
  /\ out[p] # << >>
  /\ IF Head(out[p]) = Del THEN cache' = None /\ ttl' = 0 ELSE Set(Head(out[p]))
  /\ out' = [out EXCEPT ![p] = Tail(@)]
  /\ UNCHANGED <<row, process, reader, retries, since, trouble>>

\* ... or rejects it, and the error is logged.
Reject(p) ==
  /\ out[p] # << >>
  /\ out' = [out EXCEPT ![p] = Tail(@)]
  /\ Raise(Missed)
  /\ UNCHANGED <<row, cache, ttl, process, reader, retries, since>>

\* A process dies, with the commands it has not sent yet.
Crash(p) ==
  /\ ~At(p, "idle") \/ out[p] # << >>
  /\ process' = [process EXCEPT ![p] = Idle]
  /\ out' = [out EXCEPT ![p] = << >>]
  /\ Raise(IF out[p] # << >> THEN Missed ELSE Calm)
  /\ UNCHANGED <<row, cache, ttl, reader, retries, since>>

\* A tick passes; an entry whose time is over is gone.
Tick ==
  /\ ttl' = IF ttl = 0 THEN 0 ELSE ttl - 1
  /\ cache' = IF ttl <= 1 THEN None ELSE cache
  /\ since' = [s \in Status |-> IF s = row THEN 0
                                ELSE IF since[s] < LongAgo THEN since[s] + 1
                                ELSE since[s]]
  /\ Raise(IF \/ \E p \in Processes : out[p] # << >>
              \/ \E r \in Readers : reader[r].pc = "backfill"
           THEN Disorder ELSE Calm)
  /\ UNCHANGED <<row, process, out, reader, retries>>

-----------------------------------------------------------------------------
(* getCachedStatus: GET, on a miss or an error SELECT, then SET.            *)

\* A hit changes nothing and is not shown; a miss and a failed GET go on.
Get(r) ==
  /\ reader[r].pc = "idle"
  /\ reader' = [reader EXCEPT ![r].pc = "load"]
  /\ UNCHANGED <<row, cache, ttl, process, out, retries, since, trouble>>

\* loadFromDb: null for a row that is gone.
Load(r) ==
  /\ reader[r].pc = "load"
  /\ reader' = [reader EXCEPT ![r] = IF row = "DELETED" THEN [@ EXCEPT !.pc = "idle"]
                                     ELSE [pc |-> "backfill", status |-> row]]
  /\ UNCHANGED <<row, cache, ttl, process, out, retries, since, trouble>>

Backfill(r) ==
  /\ reader[r].pc = "backfill"
  /\ Set(reader[r].status)
  /\ Raise(IF reader[r].status # row THEN Missed ELSE Calm)
  /\ reader' = [reader EXCEPT ![r].pc = "idle"]
  /\ UNCHANGED <<row, process, out, retries, since>>

\* The SELECT or the SET fails: null.
ReadFault(r) ==
  /\ reader[r].pc # "idle"
  /\ reader' = [reader EXCEPT ![r].pc = "idle"]
  /\ UNCHANGED <<row, cache, ttl, process, out, retries, since, trouble>>

-----------------------------------------------------------------------------
(* Writers of the row that do not know of the cache.                        *)

\* retryFailedJob: of a FAILED video, or, when attempts or retries overlap, of
\* one that failed before.
RetryReset ==
  /\ since["FAILED"] # Never
  /\ row # "DELETED"
  /\ retries < MaxRetries
  /\ retries' = retries + 1
  /\ WriteRow("PENDING")
  /\ Raise(IF row # "FAILED" THEN Disorder
           ELSE IF cache = "FAILED" THEN Missed ELSE Calm)
  /\ UNCHANGED <<cache, ttl, process, out, reader>>

Remove ==
  /\ row # "DELETED"
  /\ WriteRow("DELETED")
  /\ Raise(IF \E p \in Processes : At(p, "work") THEN Disorder ELSE Calm)
  /\ UNCHANGED <<cache, ttl, process, out, reader, retries>>

-----------------------------------------------------------------------------
Init ==
  /\ row     = "PENDING"
  /\ cache   = None
  /\ ttl     = 0
  /\ process = [p \in Processes |-> Idle]
  /\ out     = [p \in Processes |-> << >>]
  /\ reader  = [r \in Readers |-> [pc |-> "idle", status |-> "PENDING"]]
  /\ retries = 0
  /\ since   = [s \in Status |-> IF s = "PENDING" THEN 0 ELSE Never]
  /\ trouble = Calm

Next ==
  \/ \E p \in Processes :
       \/ Begin(p) \/ StartAttempt(p) \/ updateProgress(p) \/ Complete(p)
       \/ Report(p) \/ Rethrow(p) \/ markFailed(p) \/ Evicted(p)
       \/ Execute(p) \/ Reject(p) \/ Crash(p)
  \/ \E r \in Readers : Get(r) \/ Load(r) \/ Backfill(r) \/ ReadFault(r)
  \/ RetryReset \/ Remove \/ Tick

Spec == Init /\ [][Next]_vars

-----------------------------------------------------------------------------
(* Properties.                                                              *)

\* Every variable keeps its type.
TypeOK ==
  /\ row     \in Status
  /\ cache   \in Status \cup {None}
  /\ ttl     \in 0..TTL
  /\ process \in [Processes -> Process]
  /\ out     \in [Processes -> Seq(Command)]
  /\ reader  \in [Readers -> Reader]
  /\ retries \in 0..MaxRetries
  /\ since   \in [Status -> 0..Never]
  /\ trouble \in Calm..Disorder

\* The cache never claims what was never true: whatever is cached was the
\* status of the row once (transitionStatus caches only what it wrote), even
\* with overlapping attempts, crashes, lost commands and slow readers.
CacheNeverInvents ==
  cache # None => since[cache] # Never

\* What the cache says was true at most TTL ago: "stale data at most 5
\* minutes" (docs/6, section 8), through lost commands, crashes, late backfills
\* and resets, as long as attempts keep their order.
StaleAtMostTTL ==
  trouble # Disorder /\ cache # None => since[cache] <= TTL

\* Until something goes wrong, the entry of a row that is still there agrees
\* with it, or there is none, as soon as the commands of the attempts are
\* executed: every status an attempt writes reaches the cache or evicts it,
\* and a retry finds it evicted.
CacheSettles ==
  /\ trouble = Calm
  /\ \A p \in Processes : out[p] = << >>
  /\ row # "DELETED"
  => cache \in {None, row}
=============================================================================
