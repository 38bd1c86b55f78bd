------------------------- MODULE StatusCacheProofs -------------------------
(***************************************************************************)
(* What holds of StatusCache for any number of processes and readers, any  *)
(* TTL and any number of reports and retries.                              *)
(*                                                                         *)
(* CacheNeverInvents and StaleAtMostTTL rest on the same idea: what is     *)
(* true of the cached status must already be true of every status on its   *)
(* way into the cache, in a command that is not executed yet or in a       *)
(* reader that has done its SELECT and not its SET.  CacheSettles needs    *)
(* more: who may have commands under way (OneSender), and that the last    *)
(* of them brings the entry into agreement with the row (NewestFits).      *)
(***************************************************************************)
EXTENDS StatusCache, TLAPS

\* s is on its way into the cache.
Queued(s)  == \E p \in Processes : \E i \in 1..Len(out[p]) : out[p][i] = s
Loaded(s)  == \E r \in Readers : reader[r].pc = "backfill" /\ reader[r].status = s
Coming(s)  == Queued(s) \/ Loaded(s)

\* A busy attempt.
Busy(p) == process[p].pc # "idle"

-----------------------------------------------------------------------------
(* Types.                                                                   *)

\* Writing the row keeps the types of row and since.
LEMMA WriteRowType ==
  ASSUME TypeOK, NEW s \in Status, WriteRow(s)
  PROVE  row' \in Status /\ since' \in [Status -> 0..Never]
<1>1. 0 \in 0..Never BY TTLAssumption DEF Never
<1> QED BY <1>1 DEF TypeOK, WriteRow

\* Sending a command keeps the type of out.
LEMMA SendType ==
  ASSUME TypeOK, NEW p \in Processes, NEW c \in Command, Send(p, c)
  PROVE  out' \in [Processes -> Seq(Command)]
BY DEF TypeOK, Send

\* Moving an attempt on keeps the type of process.
LEMMA ReadyToType ==
  ASSUME TypeOK, NEW p \in Processes, NEW pc \in Pc, ReadyTo(p, pc)
  PROVE  process' \in [Processes -> Process]
<1>1. 0 \in 0..MaxReports BY ReportAssumption
<1>2. [Idle EXCEPT !.pc = pc] \in Process BY <1>1 DEF Idle, Process, Status
<1> QED BY <1>2 DEF TypeOK, ReadyTo

\* A transition keeps the types of row, since and out.
LEMMA TransitionType ==
  ASSUME TypeOK, NEW p \in Processes, NEW e \in Status, NEW s \in Status,
         transitionStatus(p, e, s)
  PROVE  /\ row' \in Status /\ since' \in [Status -> 0..Never]
         /\ out' \in [Processes -> Seq(Command)]
<1>1. CASE Applies(e, s)
  BY <1>1, WriteRowType, SendType DEF transitionStatus, Command
<1>2. CASE ~Applies(e, s) BY <1>2 DEF transitionStatus, TypeOK
<1> QED BY <1>1, <1>2

\* Trouble only grows.
LEMMA TroubleStep ==
  ASSUME TypeOK, Next
  PROVE  trouble' \in Calm..Disorder /\ trouble <= trouble'
<1>0. trouble \in 0..2 BY DEF TypeOK, Calm, Disorder
<1>1. ASSUME NEW level \in 0..2, Raise(level)
      PROVE  trouble' \in 0..2 /\ trouble <= trouble'
  BY <1>0, <1>1 DEF Raise
<1>2. UNCHANGED trouble \/ \E level \in 0..2 : Raise(level)
  BY DEF Next, Begin, StartAttempt, updateProgress, Complete, Report, Rethrow, markFailed, Evicted,
     Execute, Reject, Crash, Get, Load, Backfill, ReadFault, RetryReset, Remove, Tick,
     Calm, Missed, Disorder
<1> QED BY <1>0, <1>1, <1>2 DEF Calm, Disorder

\* Every step keeps the types.
LEMMA TypeStep == ASSUME TypeOK, Next PROVE TypeOK'
<1>t. trouble' \in Calm..Disorder BY TroubleStep
<1>0. 0 \in 0..TTL /\ TTL \in 0..TTL /\ 0 \in 0..MaxReports /\ 0 \in 0..Never
  BY TTLAssumption, ReportAssumption DEF Never
<1>i. Idle \in Process BY <1>0 DEF Idle, Process, Pc, Status
<1>1. ASSUME NEW p \in Processes, Begin(p) PROVE TypeOK'
  <2>1. \A pc \in Pc : [Idle EXCEPT !.pc = pc, !.seen = row] \in Process
    BY <1>0 DEF Idle, Process, TypeOK
  <2> QED BY <1>t, <1>1, <2>1 DEF Begin, TypeOK, Pc
<1>2. ASSUME NEW p \in Processes, StartAttempt(p) PROVE TypeOK'
  <2>1. process[p].seen \in Status BY DEF TypeOK, Process
  <2>2. row' \in Status /\ since' \in [Status -> 0..Never] /\ out' \in [Processes -> Seq(Command)]
    BY <1>2, <2>1, TransitionType DEF StartAttempt, Status
  <2>3. process' \in [Processes -> Process] BY <1>2, ReadyToType DEF StartAttempt, Pc
  <2> QED BY <1>t, <1>2, <2>2, <2>3 DEF StartAttempt, TypeOK
<1>3. ASSUME NEW p \in Processes, updateProgress(p) PROVE TypeOK'
  <2>1. process[p].reports + 1 \in 0..MaxReports
    BY <1>3, ReportAssumption DEF updateProgress, TypeOK, Process
  <2>2. process' \in [Processes -> Process] BY <1>3, <2>1 DEF updateProgress, TypeOK, Process
  <2>3. out' \in [Processes -> Seq(Command)]
    BY <1>3, SendType DEF updateProgress, Command, Status
  <2> QED BY <1>t, <1>3, <2>2, <2>3 DEF updateProgress, TypeOK
<1>4. ASSUME NEW p \in Processes, Complete(p) PROVE TypeOK'
  <2>1. row' \in Status /\ since' \in [Status -> 0..Never] /\ out' \in [Processes -> Seq(Command)]
    BY <1>4, TransitionType DEF Complete, Status
  <2>2. process' \in [Processes -> Process] BY <1>4, ReadyToType DEF Complete, Pc
  <2> QED BY <1>t, <1>4, <2>1, <2>2 DEF Complete, TypeOK
<1>5. ASSUME NEW p \in Processes, Report(p) \/ Rethrow(p) \/ Evicted(p) PROVE TypeOK'
  <2>1. process' \in [Processes -> Process]
    BY <1>5, ReadyToType DEF Report, Rethrow, Evicted, Pc
  <2> QED BY <1>t, <1>5, <2>1 DEF Report, Rethrow, Evicted, TypeOK
<1>6. ASSUME NEW p \in Processes, markFailed(p) PROVE TypeOK'
  <2>1. row' \in Status /\ since' \in [Status -> 0..Never]
    BY <1>6, WriteRowType DEF markFailed, TypeOK, Status
  <2>2. out' \in [Processes -> Seq(Command)] BY <1>6, SendType DEF markFailed, Command
  <2>3. process' \in [Processes -> Process] BY <1>6, ReadyToType DEF markFailed, Pc
  <2> QED BY <1>t, <1>6, <2>1, <2>2, <2>3 DEF markFailed, TypeOK
<1>7. ASSUME NEW p \in Processes, Execute(p) PROVE TypeOK'
  <2>1. out[p] \in Seq(Command) /\ out[p] # << >> BY <1>7 DEF Execute, TypeOK
  <2>2. Head(out[p]) \in Command /\ Tail(out[p]) \in Seq(Command) BY <2>1
  <2>3. out' \in [Processes -> Seq(Command)] BY <1>7, <2>2 DEF Execute, TypeOK
  <2>4. cache' \in Status \cup {None} /\ ttl' \in 0..TTL
    BY <1>0, <1>7, <2>2 DEF Execute, Set, Command
  <2> QED BY <1>t, <1>7, <2>3, <2>4 DEF Execute, TypeOK
<1>8. ASSUME NEW p \in Processes, Reject(p) PROVE TypeOK'
  <2>1. out[p] \in Seq(Command) /\ out[p] # << >> BY <1>8 DEF Reject, TypeOK
  <2>2. Tail(out[p]) \in Seq(Command) BY <2>1
  <2> QED BY <1>t, <1>8, <2>2 DEF Reject, TypeOK
<1>9. ASSUME NEW p \in Processes, Crash(p) PROVE TypeOK'
  <2>1. << >> \in Seq(Command) OBVIOUS
  <2> QED BY <1>t, <1>9, <1>i, <2>1 DEF Crash, TypeOK
<1>10. ASSUME NEW r \in Readers, Get(r) \/ ReadFault(r) PROVE TypeOK'
  BY <1>t, <1>10 DEF Get, ReadFault, TypeOK, Reader
<1>11. ASSUME NEW r \in Readers, Load(r) PROVE TypeOK'
  <2>1. [reader[r] EXCEPT !.pc = "idle"] \in Reader BY DEF TypeOK, Reader
  <2>2. [pc |-> "backfill", status |-> row] \in Reader BY DEF TypeOK, Reader
  <2> QED BY <1>t, <1>11, <2>1, <2>2 DEF Load, TypeOK
<1>12. ASSUME NEW r \in Readers, Backfill(r) PROVE TypeOK'
  BY <1>0, <1>t, <1>12 DEF Backfill, Set, TypeOK, Reader
<1>13. ASSUME RetryReset PROVE TypeOK'
  <2>1. row' \in Status /\ since' \in [Status -> 0..Never]
    BY <1>13, WriteRowType DEF RetryReset, Status
  <2>2. retries' \in 0..MaxRetries BY <1>13, RetryAssumption DEF RetryReset, TypeOK
  <2> QED BY <1>t, <1>13, <2>1, <2>2 DEF RetryReset, TypeOK
<1>14. ASSUME Remove PROVE TypeOK'
  <2>1. row' \in Status /\ since' \in [Status -> 0..Never]
    BY <1>14, WriteRowType DEF Remove, Status
  <2> QED BY <1>t, <1>14, <2>1 DEF Remove, TypeOK
<1>15. ASSUME Tick PROVE TypeOK'
  <2>1. ttl' \in 0..TTL BY <1>15, TTLAssumption DEF Tick, TypeOK
  <2>2. cache' \in Status \cup {None} BY <1>15 DEF Tick, TypeOK
  <2>3. since' \in [Status -> 0..Never]
    <3>1. \A s \in Status : since[s] \in 0..Never BY DEF TypeOK
    <3>2. \A s \in Status : since[s] < LongAgo => since[s] + 1 \in 0..Never
      BY <3>1, TTLAssumption DEF LongAgo, Never
    <3> QED BY <1>0, <1>15, <3>1, <3>2 DEF Tick
  <2> QED BY <1>t, <1>15, <2>1, <2>2, <2>3 DEF Tick, TypeOK
<1> QED BY <1>1, <1>2, <1>3, <1>4, <1>5, <1>6, <1>7, <1>8, <1>9, <1>10, <1>11, <1>12,
           <1>13, <1>14, <1>15 DEF Next

\* The types hold initially.
LEMMA TypeInit == Init => TypeOK
<1> SUFFICES ASSUME Init PROVE TypeOK OBVIOUS
<1>1. /\ 0 \in 0..TTL /\ 0 \in 0..MaxReports /\ 0 \in 0..MaxRetries
      /\ 0 \in 0..Never /\ Never \in 0..Never
  BY TTLAssumption, ReportAssumption, RetryAssumption DEF Never
<1>2. Idle \in Process BY <1>1 DEF Idle, Process, Pc, Status
<1>3. << >> \in Seq(Command) OBVIOUS
<1>4. "PENDING" \in Status BY DEF Status
<1>5. [pc |-> "idle", status |-> "PENDING"] \in Reader BY <1>4 DEF Reader
<1>6. Calm \in Calm..Disorder BY DEF Calm, Disorder
<1> QED BY <1>1, <1>2, <1>3, <1>4, <1>5, <1>6 DEF Init, TypeOK

\* Every variable of the cache model keeps its type.
THEOREM CacheTypeCorrect == Spec => []TypeOK
<1>1. TypeOK /\ UNCHANGED vars => TypeOK' BY DEF TypeOK, vars
<1> QED BY <1>1, TypeInit, TypeStep, PTL DEF Spec

-----------------------------------------------------------------------------
(* How a step touches the row, the cache and what is on its way there.      *)

\* A step that is not a tick writes the row with its history, or leaves both.
LEMMA RowStep ==
  ASSUME TypeOK, Next
  PROVE  \/ Tick
         \/ UNCHANGED <<row, since>>
         \/ row' \in Status /\ since' = [since EXCEPT ![row'] = 0]
<1>1. ASSUME NEW p \in Processes, StartAttempt(p) \/ Complete(p) \/ markFailed(p)
      PROVE  UNCHANGED <<row, since>> \/ (row' \in Status /\ since' = [since EXCEPT ![row'] = 0])
  BY <1>1 DEF StartAttempt, Complete, markFailed, transitionStatus, WriteRow, Status
<1>2. ASSUME RetryReset \/ Remove
      PROVE  row' \in Status /\ since' = [since EXCEPT ![row'] = 0]
  BY <1>2 DEF RetryReset, Remove, WriteRow, Status
<1> QED
  BY <1>1, <1>2 DEF Next, Begin, updateProgress, Report, Rethrow, Evicted, Execute, Reject, Crash,
     Get, Load, Backfill, ReadFault

\* A step keeps the entry, drops it, or fills in a status that was coming.
LEMMA CacheStep ==
  ASSUME TypeOK, Next
  PROVE  \/ Tick
         \/ UNCHANGED <<cache, ttl>>
         \/ cache' = None
         \/ cache' \in Status /\ Coming(cache') /\ ttl' = TTL
<1>1. ASSUME NEW p \in Processes, Execute(p)
      PROVE  \/ cache' = None
             \/ cache' \in Status /\ Coming(cache') /\ ttl' = TTL
  <2>1. out[p] \in Seq(Command) /\ out[p] # << >> BY <1>1 DEF Execute, TypeOK
  <2>2. Head(out[p]) = out[p][1] /\ 1 \in 1..Len(out[p]) /\ out[p][1] \in Command BY <2>1
  <2>3. CASE Head(out[p]) = Del BY <1>1, <2>3 DEF Execute
  <2>4. CASE Head(out[p]) # Del
    <3>1. cache' = out[p][1] /\ ttl' = TTL BY <1>1, <2>2, <2>4 DEF Execute, Set
    <3>2. out[p][1] \in Status BY <2>2, <2>4 DEF Command
    <3> QED BY <2>2, <3>1, <3>2 DEF Coming, Queued
  <2> QED BY <2>3, <2>4
<1>2. ASSUME NEW r \in Readers, Backfill(r)
      PROVE  cache' \in Status /\ Coming(cache') /\ ttl' = TTL
  BY <1>2 DEF Backfill, Set, Coming, Loaded, TypeOK, Reader
<1> QED
  BY <1>1, <1>2 DEF Next, Begin, StartAttempt, updateProgress, Complete, Report, Rethrow, markFailed,
     Evicted, Reject, Crash, Get, Load, ReadFault, RetryReset, Remove

\* Sending a command puts only that command on its way.
LEMMA SendQueues ==
  ASSUME TypeOK, NEW p \in Processes, NEW c \in Command, Send(p, c),
         NEW s \in Status, Queued(s)'
  PROVE  Queued(s) \/ s = c
<1>0. PICK o \in Processes : \E i \in 1..Len(out'[o]) : out'[o][i] = s BY DEF Queued
<1>1. PICK i \in 1..Len(out'[o]) : out'[o][i] = s BY <1>0
<1>2. CASE o # p BY <1>1, <1>2 DEF TypeOK, Send, Queued
<1>3. CASE o = p
  <2>1. out[p] \in Seq(Command) /\ out'[p] = Append(out[p], c) BY DEF TypeOK, Send
  <2>2. CASE i \in 1..Len(out[p])
    <3>1. out[p][i] = s BY <1>1, <1>3, <2>1, <2>2
    <3> QED BY <2>2, <3>1 DEF Queued
  <2>3. CASE i = Len(out[p]) + 1 BY <1>1, <1>3, <2>1, <2>3
  <2> QED BY <1>1, <1>3, <2>1, <2>2, <2>3
<1> QED BY <1>2, <1>3

\* Dropping the oldest command puts nothing on its way.
LEMMA TailQueues ==
  ASSUME TypeOK, NEW p \in Processes, out[p] # << >>,
         out' = [out EXCEPT ![p] = Tail(out[p])], NEW s \in Status, Queued(s)'
  PROVE  Queued(s)
<1>0. PICK o \in Processes : \E i \in 1..Len(out'[o]) : out'[o][i] = s BY DEF Queued
<1>1. PICK i \in 1..Len(out'[o]) : out'[o][i] = s BY <1>0
<1>2. CASE o # p BY <1>1, <1>2 DEF TypeOK, Queued
<1>3. CASE o = p
  <2>1. out[p] \in Seq(Command) /\ out'[p] = Tail(out[p]) BY DEF TypeOK
  <2>2. Len(Tail(out[p])) = Len(out[p]) - 1 /\ Len(out[p]) \in Nat BY <2>1
  <2>3. i \in 1..(Len(out[p]) - 1) BY <1>1, <1>3, <2>1, <2>2
  <2>4. Tail(out[p])[i] = out[p][i + 1] BY <2>1, <2>3
  <2>5. i + 1 \in 1..Len(out[p]) BY <2>2, <2>3
  <2> QED BY <1>1, <1>3, <2>1, <2>4, <2>5 DEF Queued
<1> QED BY <1>2, <1>3

\* What comes into the way of the cache: the status a step writes, the status
\* a reader finds, or PROCESSING sent by an attempt at work.
LEMMA ComingStep ==
  ASSUME TypeOK, Next, NEW s \in Status, Coming(s)'
  PROVE  \/ Coming(s) \/ s = row \/ s = row'
         \/ s = "PROCESSING" /\ \E p \in Processes : At(p, "work")
<1>0. Del \notin Status BY DEF Del, Status
<1>1. ASSUME UNCHANGED out, UNCHANGED reader PROVE Coming(s)
  BY <1>1 DEF Coming, Queued, Loaded
<1>t. ASSUME NEW p \in Processes, NEW e \in Status, NEW n \in Status,
             transitionStatus(p, e, n), UNCHANGED reader
      PROVE  Coming(s) \/ s = row'
  <2>1. CASE Applies(e, n)
    <3>1. row' = n /\ Send(p, n) BY <1>t, <2>1 DEF transitionStatus, WriteRow
    <3>2. CASE Queued(s)' BY <3>1, <3>2, SendQueues DEF Coming, Command
    <3>3. CASE Loaded(s)' BY <1>t, <3>3 DEF Coming, Loaded
    <3> QED BY <3>2, <3>3 DEF Coming
  <2>2. CASE ~Applies(e, n) BY <1>1, <1>t, <2>2 DEF transitionStatus
  <2> QED BY <2>1, <2>2
<1>2. ASSUME NEW p \in Processes, StartAttempt(p) PROVE Coming(s) \/ s = row'
  <2>1. process[p].seen \in Status BY DEF TypeOK, Process
  <2> QED BY <1>2, <1>t, <2>1 DEF StartAttempt, Status
<1>3. ASSUME NEW p \in Processes, Complete(p) PROVE Coming(s) \/ s = row'
  BY <1>3, <1>t DEF Complete, Status
<1>4. ASSUME NEW p \in Processes, updateProgress(p)
      PROVE  Coming(s) \/ (s = "PROCESSING" /\ At(p, "work"))
  <2>1. CASE Queued(s)' BY <1>4, <2>1, SendQueues DEF updateProgress, Coming, Command, Status
  <2>2. CASE Loaded(s)' BY <1>4, <2>2 DEF updateProgress, Coming, Loaded
  <2> QED BY <2>1, <2>2 DEF Coming
<1>5. ASSUME NEW p \in Processes, markFailed(p) PROVE Coming(s)
  <2>1. CASE Queued(s)' BY <1>0, <1>5, <2>1, SendQueues DEF markFailed, Coming, Command
  <2>2. CASE Loaded(s)' BY <1>5, <2>2 DEF markFailed, Coming, Loaded
  <2> QED BY <2>1, <2>2 DEF Coming
<1>6. ASSUME NEW p \in Processes, Execute(p) \/ Reject(p) PROVE Coming(s)
  <2>1. CASE Queued(s)' BY <1>6, <2>1, TailQueues DEF Execute, Reject, Coming
  <2>2. CASE Loaded(s)' BY <1>6, <2>2 DEF Execute, Reject, Coming, Loaded
  <2> QED BY <2>1, <2>2 DEF Coming
<1>7. ASSUME NEW p \in Processes, Crash(p) PROVE Coming(s)
  <2>1. CASE Queued(s)'
    <3>0. PICK o \in Processes : \E i \in 1..Len(out'[o]) : out'[o][i] = s BY <2>1 DEF Queued
    <3>1. PICK i \in 1..Len(out'[o]) : out'[o][i] = s BY <3>0
    <3>2. out'[p] = << >> BY <1>7 DEF Crash, TypeOK
    <3>3. o # p BY <3>1, <3>2
    <3> QED BY <1>7, <3>1, <3>3 DEF Crash, TypeOK, Coming, Queued
  <2>2. CASE Loaded(s)' BY <1>7, <2>2 DEF Crash, Coming, Loaded
  <2> QED BY <2>1, <2>2 DEF Coming
<1>8. ASSUME NEW r \in Readers, Get(r) \/ Load(r) \/ Backfill(r) \/ ReadFault(r)
      PROVE  Coming(s) \/ s = row
  <2>1. CASE Queued(s)' BY <1>8, <2>1 DEF Get, Load, Backfill, ReadFault, Coming, Queued
  <2>2. CASE Loaded(s)'
    <3>1. PICK o \in Readers : reader'[o].pc = "backfill" /\ reader'[o].status = s
      BY <2>2 DEF Loaded
    <3>2. CASE o # r
      BY <1>8, <3>1, <3>2 DEF Get, Load, Backfill, ReadFault, TypeOK, Coming, Loaded
    <3>3. CASE o = r /\ Load(r) BY <3>1, <3>3 DEF Load, TypeOK, Reader
    <3>4. CASE o = r /\ (Get(r) \/ Backfill(r) \/ ReadFault(r))
      BY <3>1, <3>4 DEF Get, Backfill, ReadFault, TypeOK, Reader
    <3> QED BY <1>8, <3>2, <3>3, <3>4
  <2> QED BY <2>1, <2>2 DEF Coming
<1>9. ASSUME \/ \E p \in Processes : Begin(p) \/ Report(p) \/ Rethrow(p) \/ Evicted(p)
             \/ RetryReset \/ Remove \/ Tick
      PROVE  Coming(s)
  BY <1>1, <1>9 DEF Begin, Report, Rethrow, Evicted, RetryReset, Remove, Tick
<1> QED BY <1>2, <1>3, <1>4, <1>5, <1>6, <1>7, <1>8, <1>9 DEF Next

\* An attempt is at work because it was, or because it just made the row
\* PROCESSING.
LEMMA WorkStep ==
  ASSUME TypeOK, Next, NEW p \in Processes, At(p, "work")'
  PROVE  At(p, "work") \/ (StartAttempt(p) /\ row' = "PROCESSING")
<1>0. process \in [Processes -> Process] BY DEF TypeOK
<1>1. CASE StartAttempt(p)
  BY <1>0, <1>1 DEF StartAttempt, ReadyTo, At, Process, transitionStatus, WriteRow
<1>2. CASE \E o \in Processes \ {p} : StartAttempt(o)
  BY <1>0, <1>2 DEF StartAttempt, ReadyTo, At
<1>3. CASE \E o \in Processes : Begin(o) \/ Crash(o)
  <2>1. PICK o \in Processes : Begin(o) \/ Crash(o) BY <1>3
  <2>2. CASE o = p /\ Begin(p)
    <3>1. \E pc \in {"start", "catch"} : process'[p] = [Idle EXCEPT !.pc = pc, !.seen = row]
      BY <1>0, <2>2 DEF Begin
    <3>2. process'[p].pc \in {"start", "catch"} BY <3>1 DEF Idle
    <3> QED BY <3>2 DEF At
  <2>3. CASE o = p /\ Crash(p) BY <1>0, <2>3 DEF Crash, At, Idle
  <2>4. CASE o # p
    <3>1. process'[p] = process[p] BY <1>0, <2>1, <2>4 DEF Begin, Crash
    <3> QED BY <3>1 DEF At
  <2> QED BY <2>1, <2>2, <2>3, <2>4
<1>4. CASE \E o \in Processes :
             Complete(o) \/ Report(o) \/ Rethrow(o) \/ markFailed(o) \/ Evicted(o)
  <2>1. PICK o \in Processes, pc \in {"idle", "report", "evict"} : ReadyTo(o, pc)
    BY <1>4 DEF Complete, Report, Rethrow, markFailed, Evicted
  <2>2. CASE o = p
    <3>1. process'[p] = [Idle EXCEPT !.pc = pc] BY <1>0, <2>1, <2>2 DEF ReadyTo
    <3>2. process'[p].pc = pc BY <3>1 DEF Idle
    <3> QED BY <3>2 DEF At
  <2>3. CASE o # p
    <3>1. process'[p] = process[p] BY <1>0, <2>1, <2>3 DEF ReadyTo
    <3> QED BY <3>1 DEF At
  <2> QED BY <2>2, <2>3
<1>5. CASE \E o \in Processes : updateProgress(o)
  BY <1>0, <1>5 DEF updateProgress, At, Process
<1>6. CASE UNCHANGED process BY <1>6 DEF At
<1> QED
  BY <1>1, <1>2, <1>3, <1>4, <1>5, <1>6 DEF Next, Execute, Reject, Get, Load, Backfill,
     ReadFault, RetryReset, Remove, Tick

-----------------------------------------------------------------------------
(* The cache never claims what was never true.                              *)

\* The inductive invariant: the row's status, PROCESSING while an attempt is at
\* work, and everything cached or on its way there was true once.
TrueOnce ==
  /\ TypeOK
  /\ since[row] # Never
  /\ (\E p \in Processes : At(p, "work")) => since["PROCESSING"] # Never
  /\ \A s \in Status : Coming(s) => since[s] # Never
  /\ CacheNeverInvents

\* What was true once stays so.
LEMMA OnceStep ==
  ASSUME TypeOK, Next, NEW s \in Status, since[s] # Never PROVE since'[s] # Never
<1>1. since[s] \in 0..Never BY DEF TypeOK
<1>2. CASE Tick
  <2>1. 0 # Never /\ (since[s] < LongAgo => since[s] + 1 # Never)
    BY <1>1, TTLAssumption DEF LongAgo, Never
  <2>2. \/ since'[s] = 0 \/ since'[s] = since[s]
        \/ since[s] < LongAgo /\ since'[s] = since[s] + 1
    BY <1>2 DEF Tick
  <2> QED BY <2>1, <2>2
<1>3. CASE row' \in Status /\ since' = [since EXCEPT ![row'] = 0]
  <2>1. 0 # Never BY TTLAssumption DEF Never
  <2> QED BY <1>3, <2>1 DEF TypeOK
<1> QED BY <1>2, <1>3, RowStep

\* Every step keeps TrueOnce.
LEMMA TrueOnceStep == ASSUME TrueOnce, Next PROVE TrueOnce'
<1>0. TypeOK BY DEF TrueOnce
<1>1. TypeOK' BY <1>0, TypeStep
<1>2. since'[row'] # Never
  <2>1. row \in Status /\ since[row] # Never BY <1>0 DEF TrueOnce, TypeOK
  <2>2. since'[row] # Never BY <1>0, <2>1, OnceStep
  <2>3. CASE row' = row BY <2>2, <2>3
  <2>4. CASE row' \in Status /\ since' = [since EXCEPT ![row'] = 0]
    <3>1. 0 # Never BY TTLAssumption DEF Never
    <3> QED BY <1>0, <2>4, <3>1 DEF TypeOK
  <2> QED BY <1>0, <2>3, <2>4, RowStep DEF Tick
<1>3. ASSUME NEW p \in Processes, At(p, "work")' PROVE since'["PROCESSING"] # Never
  <2>1. "PROCESSING" \in Status BY DEF Status
  <2>2. CASE At(p, "work") BY <1>0, <2>1, <2>2, OnceStep DEF TrueOnce
  <2>3. CASE row' = "PROCESSING" BY <1>2, <2>3
  <2> QED BY <1>0, <1>3, <2>2, <2>3, WorkStep
<1>4. ASSUME NEW s \in Status, Coming(s)' PROVE since'[s] # Never
  <2>1. CASE s = row' BY <1>2, <2>1
  <2>2. CASE Coming(s) \/ s = row \/ (s = "PROCESSING" /\ \E p \in Processes : At(p, "work"))
    <3>1. since[s] # Never BY <1>4, <2>2 DEF TrueOnce
    <3> QED BY <1>0, <1>4, <3>1, OnceStep
  <2> QED BY <1>0, <1>4, <2>1, <2>2, ComingStep
<1>5. CacheNeverInvents'
  <2>1. CASE cache' = None BY <2>1 DEF CacheNeverInvents
  <2>2. CASE cache' = cache /\ cache # None
    <3>1. cache \in Status /\ since[cache] # Never
      BY <1>0, <2>2 DEF TrueOnce, CacheNeverInvents, TypeOK
    <3> QED BY <1>0, <2>2, <3>1, OnceStep DEF CacheNeverInvents
  <2>3. CASE cache' \in Status /\ Coming(cache')
    <3>1. since[cache'] # Never BY <2>3 DEF TrueOnce
    <3> QED BY <1>0, <2>3, <3>1, OnceStep DEF CacheNeverInvents
  <2>4. Tick => cache' = None \/ cache' = cache BY DEF Tick
  <2> QED BY <1>0, <2>1, <2>2, <2>3, <2>4, CacheStep
<1>6. (\E p \in Processes : At(p, "work"))' => since'["PROCESSING"] # Never BY <1>3
<1>7. \A s \in Status : Coming(s)' => since'[s] # Never BY <1>4
<1> QED BY <1>1, <1>2, <1>5, <1>6, <1>7 DEF TrueOnce

\* TrueOnce holds initially.
LEMMA TrueOnceInit == Init => TrueOnce
<1> SUFFICES ASSUME Init PROVE TrueOnce OBVIOUS
<1>1. TypeOK BY TypeInit
<1>2. since[row] # Never
  <2>1. "PENDING" \in Status /\ 0 # Never BY TTLAssumption DEF Status, Never
  <2> QED BY <2>1 DEF Init
<1>3. ~ \E p \in Processes : At(p, "work") BY DEF Init, At, Idle
<1>4. \A s \in Status : ~Coming(s) BY DEF Init, Coming, Queued, Loaded
<1>5. CacheNeverInvents BY DEF Init, CacheNeverInvents
<1> QED BY <1>1, <1>2, <1>3, <1>4, <1>5 DEF TrueOnce

\* Whatever the Redis cache holds was the status of the row once, however
\* attempts overlap, processes die, commands get lost and readers lag: what
\* transitionStatus, updateProgress and the backfill of getCachedStatus send
\* is never ahead of the database.
THEOREM CachedStatusesWereTrue == Spec => []CacheNeverInvents
<1>1. TrueOnce /\ [Next]_vars => TrueOnce'
  <2>1. ASSUME TrueOnce, UNCHANGED vars PROVE TrueOnce'
    BY <2>1 DEF TrueOnce, TypeOK, CacheNeverInvents, Coming, Queued, Loaded, At, vars
  <2> QED BY <2>1, TrueOnceStep
<1>2. TrueOnce => CacheNeverInvents BY DEF TrueOnce
<1> QED BY <1>1, <1>2, TrueOnceInit, PTL DEF Spec

-----------------------------------------------------------------------------
(* What the cache says was true at most TTL ago.                            *)

\* Attempts have not overlapped so far, and so on.
Orderly == trouble # Disorder

\* While things are in order: one attempt at a time, and the row is PROCESSING
\* while it works; what is on its way is true now; an entry is no older than
\* the part of its life that is over.
FreshInv ==
  /\ TypeOK
  /\ since[row] = 0
  /\ \A p, o \in Processes : Busy(p) /\ Busy(o) => p = o
  /\ \A p \in Processes : At(p, "work") => row = "PROCESSING"
  /\ \A s \in Status : Coming(s) => since[s] = 0
  /\ cache # None => since[cache] + ttl <= TTL

\* Disorder never ends, and a step that ends order raises it.
LEMMA OrderStep ==
  ASSUME TypeOK, Next, Orderly'
  PROVE  /\ Orderly
         /\ \A p, o \in Processes : Begin(p) => At(o, "idle")
         /\ Tick => \A p \in Processes : out[p] = << >>
         /\ Tick => \A r \in Readers : reader[r].pc # "backfill"
         /\ RetryReset => row = "FAILED"
         /\ Remove => \A p \in Processes : ~At(p, "work")
<1>0. trouble \in 0..2 /\ trouble' \in 0..2 /\ trouble <= trouble'
  BY TroubleStep DEF TypeOK, Calm, Disorder
<1>1. ~Raise(Disorder) BY <1>0 DEF Raise, Orderly, Disorder
<1>2. Orderly BY <1>0 DEF Orderly, Disorder
<1> QED BY <1>1, <1>2 DEF Begin, Tick, RetryReset, Remove

\* Only a delivery makes a process busy.
LEMMA BusyStep ==
  ASSUME TypeOK, Next, NEW p \in Processes, Busy(p)'
  PROVE  Busy(p) \/ Begin(p)
<1>0. process \in [Processes -> Process] BY DEF TypeOK
<1>1. CASE UNCHANGED process BY <1>1 DEF Busy
<1>2. ASSUME NEW q \in Processes, NEW pc, ReadyTo(q, pc), Busy(q) PROVE Busy(p)
  BY <1>0, <1>2 DEF ReadyTo, Busy
<1>3. ASSUME NEW q \in Processes,
             \/ StartAttempt(q) \/ Complete(q) \/ Report(q)
             \/ Rethrow(q) \/ markFailed(q) \/ Evicted(q)
      PROVE  Busy(p)
  <2>1. Busy(q) BY <1>3
    DEF StartAttempt, Complete, Report, Rethrow, markFailed, MayThrow, Evicted, At, Busy
  <2>2. \E pc : ReadyTo(q, pc)
    BY <1>3 DEF StartAttempt, Complete, Report, Rethrow, markFailed, Evicted
  <2> QED BY <1>2, <2>1, <2>2
<1>4. ASSUME NEW q \in Processes, Crash(q) PROVE Busy(p)
  BY <1>0, <1>4 DEF Crash, Busy, Idle
<1>5. ASSUME NEW q \in Processes, updateProgress(q) PROVE Busy(p)
  BY <1>0, <1>5 DEF updateProgress, Busy, Process
<1>6. ASSUME NEW q \in Processes, Begin(q), q # p PROVE Busy(p)
  BY <1>0, <1>6 DEF Begin, Busy
<1> QED
  BY <1>1, <1>3, <1>4, <1>5, <1>6 DEF Next, Execute, Reject, Get, Load, Backfill,
     ReadFault, RetryReset, Remove, Tick

\* At most one attempt is busy after a step.
LEMMA ExclusiveStep ==
  ASSUME Orderly', FreshInv, Next
  PROVE  \A p, o \in Processes : Busy(p)' /\ Busy(o)' => p = o
<1>0. TypeOK /\ \A p, o \in Processes : Busy(p) /\ Busy(o) => p = o BY DEF FreshInv
<1>1. \A p, o \in Processes : Begin(p) => ~Busy(o)
  BY <1>0, OrderStep DEF At, Busy
<1>2. process \in [Processes -> Process] BY <1>0 DEF TypeOK
<1>3. ASSUME NEW p \in Processes, NEW o \in Processes, Begin(p), Busy(o)' PROVE p = o
  BY <1>1, <1>2, <1>3 DEF Begin, Busy
<1> QED BY <1>0, <1>3, BusyStep

\* The row is PROCESSING while an attempt is at work.
LEMMA WorkingStep ==
  ASSUME Orderly', FreshInv, Next, NEW p \in Processes, At(p, "work")'
  PROVE  row' = "PROCESSING"
<1>0. TypeOK /\ process \in [Processes -> Process] BY DEF FreshInv, TypeOK
<1>1. CASE StartAttempt(p) /\ row' = "PROCESSING" BY <1>1
<1>2. CASE At(p, "work")
  <2>1. row = "PROCESSING" BY <1>2 DEF FreshInv
  <2>2. \A o \in Processes : Busy(o) => o = p BY <1>2 DEF FreshInv, Busy, At
  <2>3. CASE \E o \in Processes : StartAttempt(o) \/ Complete(o) \/ markFailed(o)
    <3>1. PICK o \in Processes : StartAttempt(o) \/ Complete(o) \/ markFailed(o) BY <2>3
    <3>2. o = p BY <2>2, <3>1 DEF StartAttempt, Complete, markFailed, MayThrow, At, Busy
    <3>3. ~StartAttempt(p) BY <1>2 DEF StartAttempt, At
    <3>4. \E pc \in {"report", "evict"} : ReadyTo(p, pc)
      BY <3>1, <3>2, <3>3 DEF Complete, markFailed
    <3>5. process'[p].pc # "work" BY <1>0, <3>4 DEF ReadyTo, Process
    <3> QED BY <3>5 DEF At
  <2>4. ~RetryReset /\ ~Remove BY <1>0, <1>2, <2>1, OrderStep
  <2>5. CASE UNCHANGED row BY <2>1, <2>5
  <2> QED
    BY <2>3, <2>4, <2>5 DEF Next, Begin, updateProgress, Report, Rethrow, Evicted, Execute, Reject,
       Crash, Get, Load, Backfill, ReadFault, Tick
<1> QED BY <1>0, <1>1, <1>2, WorkStep

\* The status of the row is true now.
LEMMA NowStep == ASSUME TypeOK, since[row] = 0, Next PROVE since'[row'] = 0
<1>1. CASE Tick BY <1>1 DEF Tick, TypeOK
<1>2. CASE row' \in Status /\ since' = [since EXCEPT ![row'] = 0] BY <1>2 DEF TypeOK
<1> QED BY <1>1, <1>2, RowStep

\* Every orderly step keeps FreshInv.
LEMMA FreshStep == ASSUME Orderly', FreshInv, Next PROVE FreshInv'
<1>0. TypeOK /\ since[row] = 0 BY DEF FreshInv
<1>1. TypeOK' BY <1>0, TypeStep
<1>2. since'[row'] = 0 BY <1>0, NowStep
<1>4. ASSUME Tick PROVE \A s \in Status : ~Coming(s)
  <2>1. /\ \A p \in Processes : Len(out[p]) = 0
        /\ \A r \in Readers : reader[r].pc # "backfill"
    BY <1>0, <1>4, OrderStep
  <2> QED BY <2>1 DEF Coming, Queued, Loaded
<1>5. ASSUME ~Tick, NEW s \in Status, since[s] = 0 PROVE since'[s] = 0
  <2>1. CASE row' \in Status /\ since' = [since EXCEPT ![row'] = 0]
    BY <1>0, <1>5, <2>1 DEF TypeOK
  <2> QED BY <1>0, <1>5, <2>1, RowStep
<1>6. ASSUME NEW s \in Status, Coming(s)' PROVE since'[s] = 0
  <2>1. CASE Tick
    <3>1. Coming(s) BY <1>6, <2>1 DEF Tick, Coming, Queued, Loaded
    <3> QED BY <1>4, <2>1, <3>1
  <2>2. CASE ~Tick
    <3>1. CASE s = row' BY <1>2, <3>1
    <3>2. CASE Coming(s) \/ s = row \/ (s = "PROCESSING" /\ \E p \in Processes : At(p, "work"))
      <4>1. since[s] = 0 BY <1>6, <3>2 DEF FreshInv
      <4> QED BY <1>5, <1>6, <2>2, <4>1
    <3> QED BY <1>0, <1>6, <3>1, <3>2, ComingStep
  <2> QED BY <2>1, <2>2
<1>7. ASSUME cache' # None PROVE since'[cache'] + ttl' <= TTL
  <2>1. CASE Tick
    <3>1. ttl > 1 /\ ttl' = ttl - 1 /\ cache' = cache
      BY <1>0, <1>7, <2>1, TTLAssumption DEF Tick, TypeOK
    <3>2. cache \in Status /\ since[cache] \in 0..Never /\ ttl \in 0..TTL
      BY <1>0, <1>7, <3>1 DEF TypeOK
    <3>3. since[cache] + ttl <= TTL BY <1>7, <3>1 DEF FreshInv
    <3>4. since[cache] < LongAgo BY <3>1, <3>2, <3>3, TTLAssumption DEF LongAgo, Never
    <3>5. since'[cache] = 0 \/ since'[cache] = since[cache] + 1 BY <2>1, <3>2, <3>4 DEF Tick
    <3> QED BY <3>1, <3>2, <3>3, <3>5, TTLAssumption DEF Never
  <2>2. CASE ~Tick /\ UNCHANGED <<cache, ttl>>
    <3>1. cache \in Status /\ since[cache] \in 0..Never /\ ttl \in 0..TTL
      BY <1>0, <1>7, <2>2 DEF TypeOK
    <3>2. since[cache] + ttl <= TTL BY <1>7, <2>2 DEF FreshInv
    <3>3. CASE UNCHANGED since BY <2>2, <3>2, <3>3
    <3>4. CASE row' \in Status /\ since' = [since EXCEPT ![row'] = 0]
      <4>1. since'[cache] = 0 \/ since'[cache] = since[cache] BY <1>0, <3>1, <3>4 DEF TypeOK
      <4> QED BY <2>2, <3>1, <3>2, <4>1, TTLAssumption DEF Never
    <3> QED BY <1>0, <2>2, <3>3, <3>4, RowStep
  <2>3. CASE ~Tick /\ cache' \in Status /\ Coming(cache') /\ ttl' = TTL
    <3>1. since[cache'] = 0 BY <2>3 DEF FreshInv
    <3>2. since'[cache'] = 0 BY <1>5, <2>3, <3>1
    <3> QED BY <2>3, <3>2, TTLAssumption
  <2> QED BY <1>0, <1>7, <2>1, <2>2, <2>3, CacheStep
<1>8. \A p, o \in Processes : Busy(p)' /\ Busy(o)' => p = o BY ExclusiveStep
<1>9. \A p \in Processes : At(p, "work")' => row' = "PROCESSING" BY WorkingStep
<1>10. \A s \in Status : Coming(s)' => since'[s] = 0 BY <1>6
<1> QED BY <1>1, <1>2, <1>7, <1>8, <1>9, <1>10 DEF FreshInv

\* FreshInv holds initially.
LEMMA FreshInit == Init => FreshInv
<1> SUFFICES ASSUME Init PROVE FreshInv OBVIOUS
<1>1. TypeOK BY TypeInit
<1>2. since[row] = 0
  <2>1. "PENDING" \in Status BY DEF Status
  <2> QED BY <2>1 DEF Init
<1>3. \A p \in Processes : ~Busy(p) /\ ~At(p, "work") BY DEF Init, Busy, At, Idle
<1>4. \A s \in Status : ~Coming(s) BY DEF Init, Coming, Queued, Loaded
<1>5. cache = None BY DEF Init
<1> QED BY <1>1, <1>2, <1>3, <1>4, <1>5 DEF FreshInv

\* While attempts keep their order and Redis executes commands promptly, no
\* cached status is older than CACHE_TTL_SECONDS, whatever commands are lost,
\* processes die, readers race with writers and retries reset the row behind
\* the cache's back.
THEOREM CachedStatusesAreRecent == Spec => []StaleAtMostTTL
<1> DEFINE Inv == TypeOK /\ (Orderly => FreshInv)
<1>1. Init => Inv BY TypeInit, FreshInit
<1>2. Inv /\ [Next]_vars => Inv'
  <2>1. ASSUME Inv, UNCHANGED vars PROVE Inv'
    BY <2>1 DEF Orderly, FreshInv, TypeOK, Busy, Coming, Queued, Loaded, At, vars
  <2>2. ASSUME Inv, Next PROVE Inv'
    <3>1. TypeOK' BY <2>2, TypeStep
    <3>2. ASSUME Orderly' PROVE FreshInv'
      <4>1. Orderly BY <2>2, <3>2, OrderStep
      <4> QED BY <2>2, <3>2, <4>1, FreshStep
    <3> QED BY <3>1, <3>2
  <2> QED BY <2>1, <2>2
<1>3. Inv => StaleAtMostTTL
  <2>1. ASSUME FreshInv, cache # None PROVE since[cache] <= TTL
    <3>1. since[cache] \in 0..Never /\ ttl \in 0..TTL BY <2>1 DEF FreshInv, TypeOK
    <3>2. since[cache] + ttl <= TTL BY <2>1 DEF FreshInv
    <3> QED BY <3>1, <3>2, TTLAssumption DEF Never
  <2> QED BY <2>1 DEF StaleAtMostTTL, Orderly
<1> QED BY <1>1, <1>2, <1>3, PTL DEF Spec

-----------------------------------------------------------------------------
(* When the commands of the attempts are executed, the cache agrees with    *)
(* the row.                                                                 *)

\* p has commands that Redis did not execute yet; the last of them.
Pending(p) == out[p] # << >>
Newest(p)  == out[p][Len(out[p])]

\* Commands that wait are those of one process, which no attempt of another
\* one overtakes.
OneSender ==
  \A p, o \in Processes : Pending(p) /\ (Pending(o) \/ Busy(o)) => p = o

\* The last of them evicts the entry or sets it to the status of the row; it
\* evicts the entry of a FAILED one.
NewestFits ==
  row # "DELETED" =>
    \A p \in Processes :
      Pending(p) => Newest(p) = Del \/ (Newest(p) = row /\ row # "FAILED")

\* The invariant of calm states, inductive relative to FreshInv.
SettledInv == OneSender /\ NewestFits /\ CacheSettles

\* A step that keeps calm.
LEMMA CalmStep ==
  ASSUME TypeOK, Next, trouble' = Calm
  PROVE  /\ trouble = Calm /\ Orderly /\ Orderly'
         /\ \A p, o \in Processes : Begin(p) => ~Pending(o)
         /\ \A p \in Processes : ~Reject(p)
         /\ \A p \in Processes : Crash(p) => ~Pending(p)
         /\ \A r \in Readers : Backfill(r) => reader[r].status = row
         /\ RetryReset => row = "FAILED" /\ cache # "FAILED"
<1>0. trouble \in 0..2 /\ trouble' \in 0..2 /\ trouble <= trouble'
  BY TroubleStep DEF TypeOK, Calm, Disorder
<1>1. trouble = Calm /\ Orderly /\ Orderly' BY <1>0 DEF Orderly, Calm, Disorder
<1>2. ~Raise(Missed) /\ ~Raise(Disorder) BY <1>0 DEF Raise, Calm, Missed, Disorder
<1> QED BY <1>1, <1>2 DEF Begin, Reject, Crash, Backfill, RetryReset, Pending

\* A deleted row never comes back.
LEMMA GoneStep == ASSUME TypeOK, Next, row = "DELETED" PROVE row' = "DELETED"
<1>1. ASSUME NEW p, NEW e \in Status, NEW s, transitionStatus(p, e, s) PROVE row' = row
  BY <1>1 DEF transitionStatus, Applies, VALID_TRANSITIONS
<1>2. ASSUME NEW p \in Processes, StartAttempt(p) \/ Complete(p) PROVE row' = row
  <2>1. process[p].seen \in Status /\ "PROCESSING" \in Status BY DEF TypeOK, Process, Status
  <2> QED BY <1>1, <1>2, <2>1 DEF StartAttempt, Complete
<1>3. ASSUME NEW p \in Processes, markFailed(p) PROVE row' = row BY <1>3 DEF markFailed
<1>4. ~RetryReset /\ ~Remove BY DEF RetryReset, Remove
<1> QED
  BY <1>2, <1>3, <1>4 DEF Next, Begin, updateProgress, Report, Rethrow, Evicted, Execute, Reject,
     Crash, Get, Load, Backfill, ReadFault, Tick

\* What a calm step does: an attempt sends a command that fits the row, Redis
\* executes one, or the commands stay and the row or the cache may change.
LEMMA CalmSteps ==
  ASSUME FreshInv, Next, trouble' = Calm
  PROVE  \/ \E p \in Processes, c \in Command :
              /\ Busy(p) /\ Send(p, c)
              /\ c = Del \/ (c = row' /\ row' # "FAILED")
         \/ \E p \in Processes : Execute(p)
         \/ /\ UNCHANGED out
            /\ \/ row' = row /\ cache' \in {cache, None, row}
               \/ row' = "DELETED"
               \/ RetryReset
<1>0. TypeOK BY DEF FreshInv
<1>t. out \in [Processes -> Seq(Command)] /\ process \in [Processes -> Process]
  BY <1>0 DEF TypeOK
<1> DEFINE Sends == \E p \in Processes, c \in Command :
                      /\ Busy(p) /\ Send(p, c)
                      /\ c = Del \/ (c = row' /\ row' # "FAILED")
           Stays == UNCHANGED out /\ row' = row /\ cache' \in {cache, None, row}
<1>1. ASSUME NEW p \in Processes, StartAttempt(p) PROVE Sends \/ Stays
  <2>1. Busy(p) BY <1>1 DEF StartAttempt, At, Busy
  <2>2. "PROCESSING" \in Command BY DEF Command, Status
  <2> QED BY <1>1, <2>1, <2>2 DEF StartAttempt, transitionStatus, WriteRow
<1>2. ASSUME NEW p \in Processes, updateProgress(p) \/ Complete(p) PROVE Sends \/ Stays
  <2>1. Busy(p) /\ row = "PROCESSING" BY <1>2 DEF updateProgress, Complete, At, Busy, FreshInv
  <2>2. "PROCESSING" \in Command /\ "COMPLETED" \in Command BY DEF Command, Status
  <2> QED BY <1>2, <2>1, <2>2 DEF updateProgress, Complete, transitionStatus, WriteRow
<1>3. ASSUME NEW p \in Processes, markFailed(p) PROVE Sends
  BY <1>3 DEF markFailed, MayThrow, Busy, Command
<1>4. ASSUME NEW p \in Processes, Begin(p) \/ Report(p) \/ Rethrow(p) \/ Evicted(p) PROVE Stays
  BY <1>4 DEF Begin, Report, Rethrow, Evicted
<1>5. ASSUME NEW p \in Processes, Crash(p) PROVE Stays
  <2>1. out[p] = << >> BY <1>0, <1>5, CalmStep DEF Pending
  <2> QED BY <1>t, <1>5, <2>1 DEF Crash
<1>6. ASSUME NEW r \in Readers, Get(r) \/ Load(r) \/ Backfill(r) \/ ReadFault(r) PROVE Stays
  <2>1. Backfill(r) => reader[r].status = row BY <1>0, CalmStep
  <2> QED BY <1>6, <2>1 DEF Get, Load, Backfill, ReadFault, Set
<1>7. CASE RetryReset BY <1>7 DEF RetryReset
<1>8. CASE Remove BY <1>8 DEF Remove, WriteRow
<1>9. CASE Tick BY <1>9 DEF Tick
<1>10. \A p \in Processes : ~Reject(p) BY <1>0, CalmStep
<1> QED BY <1>1, <1>2, <1>3, <1>4, <1>5, <1>6, <1>7, <1>8, <1>9, <1>10 DEF Next

\* An attempt sends a command: it is the only sender, and the command is its
\* newest.
LEMMA SendSettles ==
  ASSUME FreshInv, SettledInv, Next, trouble' = Calm,
         NEW p \in Processes, NEW c \in Command, Busy(p), Send(p, c),
         c = Del \/ (c = row' /\ row' # "FAILED")
  PROVE  SettledInv'
<1>0. TypeOK /\ \A o \in Processes : Busy(o) => o = p BY DEF FreshInv
<1>t. out \in [Processes -> Seq(Command)] BY <1>0 DEF TypeOK
<1>1. \A o \in Processes : Pending(o) => o = p BY DEF SettledInv, OneSender
<1>2. out'[p] = Append(out[p], c) /\ \A o \in Processes \ {p} : out'[o] = out[o]
  BY <1>t DEF Send
<1>3. out[p] \in Seq(Command) BY <1>t
<1>4. out'[p] # << >> /\ out'[p][Len(out'[p])] = c BY <1>2, <1>3
<1>5. \A o \in Processes : Pending(o)' => o = p BY <1>1, <1>2 DEF Pending
<1>6. ASSUME NEW o \in Processes, Busy(o)' PROVE o = p
  <2>1. process \in [Processes -> Process] BY <1>0 DEF TypeOK
  <2>2. Orderly' BY <1>0, CalmStep
  <2>3. Begin(o) => FALSE BY <1>0, <2>2, OrderStep DEF Busy, At
  <2> QED BY <1>0, <1>6, <2>3, BusyStep
<1>7. OneSender' BY <1>5, <1>6 DEF OneSender
<1>8. NewestFits' BY <1>4, <1>5 DEF NewestFits, Newest
<1>9. CacheSettles' BY <1>4 DEF CacheSettles
<1> QED BY <1>7, <1>8, <1>9 DEF SettledInv

\* Redis executes a command: the last one leaves the cache as the row is.
LEMMA ExecuteSettles ==
  ASSUME FreshInv, SettledInv, NEW p \in Processes, Execute(p)
  PROVE  SettledInv'
<1>0. TypeOK BY DEF FreshInv
<1>t. out[p] \in Seq(Command) /\ out[p] # << >> /\ out \in [Processes -> Seq(Command)]
  BY <1>0 DEF TypeOK, Execute
<1>1. /\ UNCHANGED <<row, process>>
      /\ out'[p] = Tail(out[p]) /\ \A o \in Processes \ {p} : out'[o] = out[o]
  BY <1>t DEF Execute
<1>2. \A o \in Processes : Pending(o) => o = p BY <1>t DEF SettledInv, OneSender, Pending
<1>3. \A o \in Processes : Pending(o)' => o = p BY <1>1, <1>2 DEF Pending
<1>4. OneSender'
  BY <1>1, <1>3, <1>t DEF SettledInv, OneSender, Pending, Busy
<1>5. NewestFits'
  <2>1. SUFFICES ASSUME row # "DELETED", Pending(p)'
                 PROVE  Newest(p)' = Del \/ (Newest(p)' = row /\ row # "FAILED")
    BY <1>1, <1>3 DEF NewestFits
  <2>2. Tail(out[p]) # << >> BY <1>1, <2>1 DEF Pending
  <2>3. Tail(out[p])[Len(Tail(out[p]))] = out[p][Len(out[p])] BY <1>t, <2>2
  <2>4. Newest(p)' = Newest(p) BY <1>1, <2>3 DEF Newest
  <2> QED BY <1>t, <2>1, <2>4 DEF SettledInv, NewestFits, Pending
<1>6. CacheSettles'
  <2>1. SUFFICES ASSUME row # "DELETED", Tail(out[p]) = << >>
                 PROVE  cache' \in {None, row}
    BY <1>1 DEF CacheSettles
  <2>2. Len(out[p]) = 1 /\ Head(out[p]) = out[p][Len(out[p])]
    <3>1. Len(Tail(out[p])) = Len(out[p]) - 1 /\ Len(out[p]) \in Nat BY <1>t
    <3>2. PICK t : t = Tail(out[p]) OBVIOUS
    <3>3. Len(t) = 0 BY <2>1, <3>2
    <3>4. Len(out[p]) = 1 BY <3>1, <3>2, <3>3
    <3> QED BY <1>t, <3>4
  <2>3. Head(out[p]) \in {Del, row} BY <1>t, <2>1, <2>2 DEF SettledInv, NewestFits, Pending, Newest
  <2> QED BY <2>3 DEF Execute, Set
<1> QED BY <1>4, <1>5, <1>6 DEF SettledInv

\* The commands stay: a reset finds the entry of the FAILED row evicted or
\* about to be.
LEMMA StaySettles ==
  ASSUME FreshInv, SettledInv, Next, trouble' = Calm, UNCHANGED out,
         \/ row' = row /\ cache' \in {cache, None, row}
         \/ row' = "DELETED"
         \/ RetryReset
  PROVE  SettledInv'
<1>0. TypeOK BY DEF FreshInv
<1>1. OneSender'
  <2>1. ASSUME NEW p \in Processes, NEW o \in Processes, Pending(p)', Pending(o)' \/ Busy(o)'
        PROVE  p = o
    <3>1. Pending(p) /\ (Pending(o)' => Pending(o)) BY <2>1 DEF Pending
    <3>2. ~Begin(o) BY <1>0, <3>1, CalmStep
    <3>3. Busy(o)' => Busy(o) BY <1>0, <3>2, BusyStep
    <3> QED BY <2>1, <3>1, <3>3 DEF SettledInv, OneSender
  <2> QED BY <2>1 DEF OneSender
<1>2. row' # "DELETED" => row # "DELETED" BY <1>0, GoneStep
<1>3. CASE row' = "DELETED" BY <1>1, <1>3 DEF SettledInv, NewestFits, CacheSettles
<1>4. CASE row' = row /\ cache' \in {cache, None, row}
  <2>1. trouble = Calm BY <1>0, CalmStep
  <2>2. NewestFits' BY <1>4 DEF SettledInv, NewestFits, Pending, Newest
  <2>3. CacheSettles' BY <1>4, <2>1 DEF SettledInv, CacheSettles
  <2> QED BY <1>1, <2>2, <2>3 DEF SettledInv
<1>5. CASE RetryReset
  <2>1. trouble = Calm /\ row = "FAILED" /\ cache # "FAILED" BY <1>0, <1>5, CalmStep
  <2>2. UNCHANGED cache /\ row' = "PENDING" BY <1>5 DEF RetryReset, WriteRow
  <2>3. \A p \in Processes : Pending(p) => Newest(p) = Del
    BY <2>1 DEF SettledInv, NewestFits
  <2>4. NewestFits' BY <2>3 DEF NewestFits, Pending, Newest
  <2>5. CacheSettles' BY <2>1, <2>2 DEF SettledInv, CacheSettles
  <2> QED BY <1>1, <2>4, <2>5 DEF SettledInv
<1> QED BY <1>3, <1>4, <1>5

\* Until something goes wrong, the entry of a row that is still there agrees
\* with it, or there is none, as soon as the commands of the attempts are
\* executed: the SETs of transitionStatus and updateProgress, which nobody
\* waits for, the DEL of markFailed and the backfills of readers may race with
\* each other and with retries, resets and deletion in any way.
THEOREM CacheFollowsTheRow == Spec => []CacheSettles
<1> DEFINE Inv == /\ TypeOK
                  /\ Orderly => FreshInv
                  /\ trouble = Calm => SettledInv
<1>1. Init => Inv
  <2>1. ASSUME Init PROVE SettledInv
    BY <2>1 DEF Init, SettledInv, OneSender, NewestFits, CacheSettles, Pending
  <2> QED BY <2>1, TypeInit, FreshInit
<1>2. Inv /\ [Next]_vars => Inv'
  <2>1. ASSUME Inv, UNCHANGED vars PROVE Inv'
    BY <2>1 DEF Orderly, FreshInv, TypeOK, Busy, Coming, Queued, Loaded, At, SettledInv,
       OneSender, NewestFits, CacheSettles, Pending, Newest, vars
  <2>2. ASSUME Inv, Next PROVE Inv'
    <3>1. TypeOK' BY <2>2, TypeStep
    <3>2. Orderly' => FreshInv' BY <2>2, OrderStep, FreshStep
    <3>3. ASSUME trouble' = Calm PROVE SettledInv'
      <4>1. trouble = Calm /\ Orderly BY <2>2, <3>3, CalmStep
      <4>2. FreshInv /\ SettledInv BY <2>2, <4>1
      <4> QED BY <2>2, <3>3, <4>2, CalmSteps, SendSettles, ExecuteSettles, StaySettles
    <3> QED BY <3>1, <3>2, <3>3
  <2> QED BY <2>1, <2>2
<1>3. Inv => CacheSettles BY DEF SettledInv, CacheSettles
<1> QED BY <1>1, <1>2, <1>3, PTL DEF Spec
=============================================================================
