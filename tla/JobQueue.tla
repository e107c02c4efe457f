------------------------------ MODULE JobQueue ------------------------------
(***************************************************************************)
(* The PostgreSQL job queue of app/core/tasks.py: rows of the table Job,   *)
(* the producers that enqueue them (web views, the scheduler, ingestion),  *)
(* the worker processes that claim and execute them, the heartbeat thread  *)
(* of each execution, the pause switch and the concurrency limits of       *)
(* SiteSettings, and the purge of old rows by app/core/storage.py.         *)
(*                                                                         *)
(* Times are kept relative to the present, in ticks: row[j].lease is       *)
(* lease_until - now and row[j].wait is available_at - now, so the clock   *)
(* never runs out.  Both stop falling once no comparison can tell their    *)
(* values apart (see Tick).                                                *)
(*                                                                         *)
(* A claim captures `now' once (tasks.py:48) and may then wait for the     *)
(* settings row up to the lock timeout of settings.py:66: wk[w].lag is the *)
(* age of the captured instant.  Each UPDATE of the code is one step: READ *)
(* COMMITTED re-evaluates its WHERE clause on the locked row.              *)
(*                                                                         *)
(* A definition marked `Fault' is a variant of the one that follows it, in *)
(* which one thing is wrong.  Nothing here uses it: put in the place of    *)
(* the right one it must break a property, or the property says nothing.   *)
(***************************************************************************)
EXTENDS Integers, FiniteSets

CONSTANTS
  Jobs,             \* the keys jobs are enqueued under (Job.key is unique)
  Queue,            \* the queue of each job
  Enrichable,       \* the jobs of kind "enrich"
  Workers,          \* worker processes
  Serves,           \* the queue each worker process was started for
  Producers,        \* callers of enqueue that may run concurrently
  Tokens,           \* the uuid4 owners of claims
  NoToken,          \* owner = None
  NoJob,            \* what an idle worker or producer works on
  Priorities,       \* the priorities callers pass (smaller is served first)
  URGENT,           \* 10: a priority that also cancels a postponement
  MAX_ATTEMPTS,     \* 4
  COLLECT_LIMIT,    \* 6
  MAX_CONCURRENCY,  \* 4, the largest ai_concurrency the form accepts
  LEASE,            \* 90 seconds
  BEAT,             \* 20 seconds
  LOCK_TIMEOUT,     \* 5 seconds
  BACKOFF,          \* attempts -> min(3600, 30 * 2 ** attempts)
  DEFERRALS         \* the delays a BudgetExceeded may ask for

Queues == {"collect", "ai", "maintenance"}
Pausable == {"collect", "ai"}
Statuses == {"absent", "pending", "running", "completed", "failed"}

ASSUME QueueAssumption ==
  /\ IsFiniteSet(Jobs)
  /\ Queue \in [Jobs -> Queues]
  /\ Serves \in [Workers -> Queues]
  /\ Enrichable \subseteq Jobs
  /\ NoJob \notin Jobs
  /\ NoToken \notin Tokens

ASSUME NumberAssumption ==
  /\ Priorities \subseteq Nat
  /\ URGENT \in Nat
  /\ MAX_ATTEMPTS \in Nat \ {0}
  /\ COLLECT_LIMIT \in Nat \ {0}
  /\ MAX_CONCURRENCY \in Nat \ {0}
  /\ LEASE \in Nat \ {0}
  /\ BEAT \in Nat \ {0}
  /\ LOCK_TIMEOUT \in Nat
  /\ BACKOFF \in [1 .. MAX_ATTEMPTS -> Nat]
  /\ DEFERRALS \subseteq Nat

\* A renewal, a stalled claim and the interval between two renewals fit in a
\* lease: 20 + 5 + 5 < 90.
ASSUME LeaseAssumption == BEAT + LOCK_TIMEOUT + LOCK_TIMEOUT < LEASE

VARIABLES
  row,          \* the table Job
  wk,           \* the worker processes, with what execute() keeps in memory
  req,          \* the enqueue() calls between their read and their UPDATE
  paused,       \* SiteSettings.paused
  pausedFor,    \* ticks since paused was set (history, capped)
  concurrency   \* SiteSettings.ai_concurrency

vars == <<row, wk, req, paused, pausedFor, concurrency>>

-----------------------------------------------------------------------------
(* The records. *)

Row == [status : Statuses, priority : Nat, attempts : Nat, wait : Int,
        lease : Int, owner : Tokens \cup {NoToken}]

Worker == [pc : {"idle", "claiming", "executing"}, lag : Nat,
           job : Jobs \cup {NoJob}, token : Tokens \cup {NoToken},
           attempts : Nat, beating : BOOLEAN, beat : Nat]

Request == [job : Jobs \cup {NoJob}, priority : Nat, seen : Statuses,
            seenPriority : Nat]

\* No row has this key: its other fields are read by nobody.
Absent == [status |-> "absent", priority |-> 0, attempts |-> 0, wait |-> 0,
           lease |-> 0, owner |-> NoToken]

Idle == [pc |-> "idle", lag |-> 0, job |-> NoJob, token |-> NoToken,
         attempts |-> 0, beating |-> FALSE, beat |-> 0]

NoRequest == [job |-> NoJob, priority |-> 0, seen |-> "absent",
              seenPriority |-> 0]

TypeOK ==
  /\ row \in [Jobs -> Row]
  /\ wk \in [Workers -> Worker]
  /\ req \in [Producers -> Request]
  /\ paused \in BOOLEAN
  /\ pausedFor \in 0 .. LOCK_TIMEOUT + 1
  /\ concurrency \in 1 .. MAX_CONCURRENCY

Init ==
  /\ row = [j \in Jobs |-> Absent]
  /\ wk = [w \in Workers |-> Idle]
  /\ req = [p \in Producers |-> NoRequest]
  /\ paused = FALSE
  /\ pausedFor = 0
  /\ concurrency \in 1 .. MAX_CONCURRENCY

Least(a, b) == IF a < b THEN a ELSE b
Most(a, b) == IF a < b THEN b ELSE a

-----------------------------------------------------------------------------
(* enqueue(kind, key, ..., priority) *)

\* get_or_create: an unknown key becomes a pending row, available at once.
Create(j, prio) ==
  /\ row[j].status = "absent"
  /\ row' = [row EXCEPT ![j] = [Absent EXCEPT !.status = "pending",
                                              !.priority = prio]]
  /\ UNCHANGED <<wk, req, paused, pausedFor, concurrency>>

\* Does the read row call for an UPDATE?  A completed enrichment is reopened
\* when its translation is missing (a fact about the article, so any value);
\* a pending row is promoted by a smaller priority, or by an urgent caller
\* that finds it postponed.
WantsUpdate(j, prio) ==
  \/ j \in Enrichable /\ row[j].status = "completed"
  \/ /\ row[j].status = "pending"
     /\ prio < row[j].priority \/ (prio <= URGENT /\ row[j].wait > 0)

\* The key exists: the caller keeps the row it read until its UPDATE.
EnqueueRead(p, j, prio) ==
  /\ req[p].job = NoJob
  /\ WantsUpdate(j, prio)
  /\ req' = [req EXCEPT ![p] =
               [job |-> j, priority |-> prio, seen |-> row[j].status,
                seenPriority |-> row[j].priority]]
  /\ UNCHANGED <<row, wk, paused, pausedFor, concurrency>>

Reopened(r, q) == [r EXCEPT !.status = "pending",
                            !.priority = Least(q.seenPriority, q.priority),
                            !.attempts = 0, !.wait = 0]

Promoted(r, q) == [r EXCEPT !.priority = Least(q.priority, q.seenPriority),
                            !.wait = 0]

\* The UPDATE, whose WHERE clause re-checks the status that was read.
EnqueueWrite(p) ==
  LET q == req[p]
      j == q.job
  IN /\ j # NoJob
     /\ row' = IF row[j].status # q.seen THEN row
               ELSE [row EXCEPT ![j] = IF q.seen = "completed"
                                       THEN Reopened(@, q)
                                       ELSE Promoted(@, q)]
     /\ req' = [req EXCEPT ![p] = NoRequest]
     /\ UNCHANGED <<wk, paused, pausedFor, concurrency>>

-----------------------------------------------------------------------------
(* claim(queue) *)

\* Fault: a lease that has not been renewed for one interval counts as expired.
ExpiredEager(r, lag) == r.status = "running" /\ r.lease + lag < LEASE - BEAT

\* lease_until < now, for the instant the claim captured `lag' ticks ago.
Expired(r, lag) == r.status = "running" /\ r.lease + lag < 0

\* lease_until > now, as the concurrency counts have it.
Live(r, lag) == r.status = "running" /\ r.lease + lag > 0

\* Fault: attempts__gt=4 for attempts__gte=4.
SweptLenient(r, lag) ==
  IF ~ Expired(r, lag) THEN r
  ELSE IF r.attempts > MAX_ATTEMPTS
       THEN [r EXCEPT !.status = "failed", !.lease = 0]
       ELSE [r EXCEPT !.status = "pending", !.owner = NoToken, !.lease = 0]

\* Fault: the first UPDATE is missing.
SweptRetriedOnly(r, lag) ==
  IF ~ Expired(r, lag) \/ r.attempts >= MAX_ATTEMPTS THEN r
  ELSE [r EXCEPT !.status = "pending", !.owner = NoToken, !.lease = 0]

\* The two UPDATEs over expired leases.  A row that has used its attempts
\* keeps its owner; the other rows lose it.  (lease is only read on running
\* rows: it is 0 on all others.)
Swept(r, lag) ==
  IF ~ Expired(r, lag) THEN r
  ELSE IF r.attempts >= MAX_ATTEMPTS
       THEN [r EXCEPT !.status = "failed", !.lease = 0]
       ELSE [r EXCEPT !.status = "pending", !.owner = NoToken, !.lease = 0]

SweptRows(lag) == [j \in Jobs |-> Swept(row[j], lag)]

\* The worker's poll reads `paused' without a lock.  Paused: the sweep is
\* committed and nothing is claimed.
PausedPoll(w) ==
  /\ wk[w].pc = "idle"
  /\ paused /\ Serves[w] \in Pausable
  /\ row' = SweptRows(0)
  /\ UNCHANGED <<wk, req, paused, pausedFor, concurrency>>

\* Fault: the pause is not looked at.
ClaimBeginAlways(w) ==
  /\ wk[w].pc = "idle"
  /\ wk' = [wk EXCEPT ![w].pc = "claiming"]
  /\ UNCHANGED <<row, req, paused, pausedFor, concurrency>>

ClaimBegin(w) ==
  /\ wk[w].pc = "idle"
  /\ ~ (paused /\ Serves[w] \in Pausable)
  /\ wk' = [wk EXCEPT ![w].pc = "claiming"]
  /\ UNCHANGED <<row, req, paused, pausedFor, concurrency>>

Running(rows, q) == {j \in Jobs : Queue[j] = q /\ rows[j].status = "running"}
LiveJobs(rows, q, lag) == {j \in Jobs : Queue[j] = q /\ Live(rows[j], lag)}

\* Fault: > for >=.
AtLimitOffByOne(rows, q, lag) ==
  \/ q = "collect" /\ Cardinality(LiveJobs(rows, q, lag)) > COLLECT_LIMIT
  \/ q = "ai" /\ Cardinality(LiveJobs(rows, q, lag)) > concurrency

\* The limit on running jobs of each queue; maintenance has none.
AtLimit(rows, q, lag) ==
  \/ q = "collect" /\ Cardinality(LiveJobs(rows, q, lag)) >= COLLECT_LIMIT
  \/ q = "ai" /\ Cardinality(LiveJobs(rows, q, lag)) >= concurrency

\* available_at <= now, again for the captured instant.
Ready(rows, q, lag) ==
  {j \in Jobs : /\ Queue[j] = q
                /\ rows[j].status = "pending"
                /\ rows[j].wait + lag <= 0}

\* SKIP LOCKED passes over rows an UPDATE of a producer may hold.
Lockable == {req[p].job : p \in {p \in Producers : req[p].job # NoJob}}

\* Equal priorities are ordered by created_at or available_at: any order here.
Foremost(S, rows) ==
  {j \in S : \A k \in S : rows[j].priority <= rows[k].priority}

InUse(o) == (\E j \in Jobs : row[j].owner = o) \/ (\E w \in Workers : wk[w].token = o)

\* Nothing to take, or the limit is reached: only the sweep is committed.
ClaimNothing(w) ==
  LET lag == wk[w].lag
      rows == SweptRows(lag)
  IN /\ wk[w].pc = "claiming"
     /\ \/ AtLimit(rows, Serves[w], lag)
        \/ Ready(rows, Serves[w], lag) \subseteq Lockable
     /\ row' = rows
     /\ wk' = [wk EXCEPT ![w] = Idle]
     /\ UNCHANGED <<req, paused, pausedFor, concurrency>>

\* Fault: the first lease is as short as the interval of the heartbeat.
StartedBriefly(r, o, lag) ==
  [r EXCEPT !.status = "running", !.owner = o, !.lease = BEAT - lag,
            !.attempts = r.attempts + 1]

Started(r, o, lag) ==
  [r EXCEPT !.status = "running", !.owner = o, !.lease = LEASE - lag,
            !.attempts = r.attempts + 1]

\* The first unlocked row runs under a new owner and a 90 s lease counted from
\* the captured instant; execute() starts with a heartbeat thread.
Take(w, j, o) ==
  LET lag == wk[w].lag
      rows == SweptRows(lag)
      ready == Ready(rows, Serves[w], lag)
  IN /\ wk[w].pc = "claiming"
     /\ ~ AtLimit(rows, Serves[w], lag)
     /\ \E locked \in SUBSET Lockable : j \in Foremost(ready \ locked, rows)
     /\ ~ InUse(o)
     /\ row' = [rows EXCEPT ![j] = Started(rows[j], o, lag)]
     /\ wk' = [wk EXCEPT ![w] =
                 [pc |-> "executing", lag |-> 0, job |-> j, token |-> o,
                  attempts |-> row[j].attempts + 1, beating |-> TRUE,
                  beat |-> BEAT]]
     /\ UNCHANGED <<req, paused, pausedFor, concurrency>>

ClaimCommit(w) == ClaimNothing(w) \/ \E j \in Jobs, o \in Tokens : Take(w, j, o)

\* The lock timeout or any database error: the transaction is rolled back and
\* the worker process ends; it is restarted by its service manager.
ClaimAbort(w) ==
  /\ wk[w].pc = "claiming"
  /\ wk' = [wk EXCEPT ![w] = Idle]
  /\ UNCHANGED <<row, req, paused, pausedFor, concurrency>>

-----------------------------------------------------------------------------
(* execute(job): the heartbeat thread and the three outcomes.              *)

\* Fault: the WHERE clause names the job and not the owner.
HoldsUnfenced(w) == wk[w].pc = "executing"

\* The WHERE clause pk=job.pk, owner=job.owner of every UPDATE of execute.
Holds(w) == row[wk[w].job].owner = wk[w].token

\* Fault: a lease is renewed only once it has run out.
RenewLate(w) ==
  row' = IF Holds(w) /\ row[wk[w].job].status = "running" /\ row[wk[w].job].lease <= 0
         THEN [row EXCEPT ![wk[w].job].lease = LEASE]
         ELSE row

Renew(w) ==
  row' = IF Holds(w) /\ row[wk[w].job].status = "running"
         THEN [row EXCEPT ![wk[w].job].lease = LEASE]
         ELSE row

Beat(w) ==
  /\ wk[w].pc = "executing"
  /\ wk[w].beating
  /\ Renew(w)
  /\ wk' = [wk EXCEPT ![w].beat = BEAT]
  /\ UNCHANGED <<req, paused, pausedFor, concurrency>>

\* An exception ends the heartbeat thread while the job goes on, or the whole
\* process stalls: from here on no renewal comes in time.
LoseBeat(w) ==
  /\ wk[w].pc = "executing"
  /\ wk[w].beating
  /\ wk' = [wk EXCEPT ![w].beating = FALSE, ![w].beat = 0]
  /\ UNCHANGED <<row, req, paused, pausedFor, concurrency>>

\* A stalled process resumes: its thread renews whatever it still owns.
LateBeat(w) ==
  /\ wk[w].pc = "executing"
  /\ ~ wk[w].beating
  /\ Renew(w)
  /\ UNCHANGED <<wk, req, paused, pausedFor, concurrency>>

Outcome(w, result) ==
  /\ wk[w].pc = "executing"
  /\ row' = IF Holds(w) THEN [row EXCEPT ![wk[w].job] = result] ELSE row
  /\ wk' = [wk EXCEPT ![w] = Idle]
  /\ UNCHANGED <<req, paused, pausedFor, concurrency>>

Succeed(w) ==
  Outcome(w, [row[wk[w].job] EXCEPT !.status = "completed", !.lease = 0])

\* BudgetExceeded: the row waits for quota with its attempts forgotten.
Defer(w, delay) ==
  Outcome(w, [row[wk[w].job] EXCEPT !.status = "pending", !.attempts = 0,
                                    !.wait = delay, !.lease = 0])

\* Any other exception, judged by the attempts execute() was given.
Fail(w) ==
  Outcome(w, [row[wk[w].job] EXCEPT
                !.status = IF wk[w].attempts >= MAX_ATTEMPTS
                           THEN "failed" ELSE "pending",
                !.wait = BACKOFF[wk[w].attempts], !.lease = 0])

Finish(w) == Succeed(w) \/ Fail(w) \/ \E d \in DEFERRALS : Defer(w, d)

\* The process dies in mid-execution and is restarted with nothing in memory.
Crash(w) ==
  /\ wk[w].pc = "executing"
  /\ wk' = [wk EXCEPT ![w] = Idle]
  /\ UNCHANGED <<row, req, paused, pausedFor, concurrency>>

-----------------------------------------------------------------------------
(* The rest of the system, as the queue sees it. *)

\* maintain() deletes, in one statement, the finished rows created 14 days
\* ago: of the age of a row only this is observed, so any of them may go.
Purge(dead) ==
  /\ dead # {}
  /\ \A j \in dead : row[j].status \in {"completed", "failed"}
  /\ row' = [j \in Jobs |-> IF j \in dead THEN Absent ELSE row[j]]
  /\ UNCHANGED <<wk, req, paused, pausedFor, concurrency>>

\* maintain() pauses and resumes by the free disk space it measured.
SetPaused(value) ==
  /\ paused # value
  /\ paused' = value
  /\ pausedFor' = 0
  /\ UNCHANGED <<row, wk, req, concurrency>>

\* The settings form.
SetConcurrency(n) ==
  /\ concurrency # n
  /\ concurrency' = n
  /\ UNCHANGED <<row, wk, req, paused, pausedFor>>

Aged(r) ==
  IF r.status = "absent" THEN r
  ELSE [r EXCEPT !.wait = Most(@ - 1, 0 - LOCK_TIMEOUT),
                 !.lease = IF r.status = "running"
                           THEN Most(@ - 1, 0 - (LOCK_TIMEOUT + 1)) ELSE 0]

\* Time passes.  A heartbeat on schedule is not late, and no claim outlives
\* the lock timeout.
Tick ==
  /\ \A w \in Workers : wk[w].beating => wk[w].beat > 0
  /\ \A w \in Workers : wk[w].pc = "claiming" => wk[w].lag < LOCK_TIMEOUT
  /\ row' = [j \in Jobs |-> Aged(row[j])]
  /\ wk' = [w \in Workers |->
              [wk[w] EXCEPT
                 !.lag = IF wk[w].pc = "claiming" THEN @ + 1 ELSE @,
                 !.beat = IF wk[w].beating THEN @ - 1 ELSE @]]
  /\ pausedFor' = IF paused THEN Least(pausedFor + 1, LOCK_TIMEOUT + 1) ELSE 0
  /\ UNCHANGED <<req, paused, concurrency>>

-----------------------------------------------------------------------------
Next ==
  \/ \E j \in Jobs, prio \in Priorities : Create(j, prio)
  \/ \E p \in Producers, j \in Jobs, prio \in Priorities : EnqueueRead(p, j, prio)
  \/ \E p \in Producers : EnqueueWrite(p)
  \/ \E w \in Workers : PausedPoll(w)
  \/ \E w \in Workers : ClaimBegin(w)
  \/ \E w \in Workers : ClaimNothing(w)
  \/ \E w \in Workers, j \in Jobs, o \in Tokens : Take(w, j, o)
  \/ \E w \in Workers : ClaimAbort(w)
  \/ \E w \in Workers : Beat(w)
  \/ \E w \in Workers : LoseBeat(w)
  \/ \E w \in Workers : LateBeat(w)
  \/ \E w \in Workers : Succeed(w)
  \/ \E w \in Workers : Fail(w)
  \/ \E w \in Workers, d \in DEFERRALS : Defer(w, d)
  \/ \E w \in Workers : Crash(w)
  \/ \E dead \in SUBSET Jobs : Purge(dead)
  \/ \E value \in BOOLEAN : SetPaused(value)
  \/ \E n \in 1 .. MAX_CONCURRENCY : SetConcurrency(n)
  \/ Tick

Spec == Init /\ [][Next]_vars

-----------------------------------------------------------------------------
(* Properties. *)

\* A job is started at most MAX_ATTEMPTS times between two decisions to start
\* over (creation, reopening, budget deferral), whatever mix of exceptions,
\* crashes, expired leases and late results ends the attempts: a pending row
\* has an attempt left and a running one is in an attempt it was allowed
\* (tasks.py:50-53, 79, 149).
RetryBound ==
  \A j \in Jobs :
    /\ row[j].status = "pending" => row[j].attempts < MAX_ATTEMPTS
    /\ row[j].status = "running" => row[j].attempts \in 1 .. MAX_ATTEMPTS

\* Renewing every 20 s a lease of 90 s is enough: an execution whose heartbeat
\* is on schedule still owns its running row under a live lease, so no sweep
\* or claim, however long it was stalled, gives its job to a second worker
\* (tasks.py:49, 78, 115-120).
HeartbeatKeepsClaim ==
  \A w \in Workers :
    wk[w].beating =>
      LET r == row[wk[w].job]
      IN r.status = "running" /\ r.owner = wk[w].token /\ r.lease > LOCK_TIMEOUT

\* Two executions never work on one job while both believe, rightly, that
\* their heartbeat protects them.
NoTwinExecution ==
  \A v, w \in Workers :
    wk[v].beating /\ wk[w].beating /\ wk[v].job = wk[w].job => v = w

\* Neither expired nor live for a claim that captured the instant a lease ends on.
Tied(lag) == {j \in Jobs : row[j].status = "running" /\ row[j].lease + lag = 0}

\* The number of running rows of a limited queue grows only up to the limit in
\* force, although the claim counts only live leases and lets late heartbeats
\* revive the others.  The claim passes over no row but those whose lease ends on the
\* very instant it captured (tasks.py:49, 56-67).
GrowthWithinLimit ==
  [][\A q \in {"ai", "collect"} :
       LET limit == IF q = "ai" THEN concurrency ELSE COLLECT_LIMIT
       IN Cardinality(Running(row', q)) > Cardinality(Running(row, q)) =>
            \E w \in Workers :
              /\ wk[w].pc = "claiming" /\ wk'[w].pc = "executing"
              /\ Cardinality(Running(row', q) \ Tied(wk[w].lag)) <= limit]_vars

\* The pause is read without a lock before the claim may have to wait, yet no
\* collect or AI job starts later than one lock timeout into a pause
\* (tasks.py:54-55; storage.py:137).
PauseTakesEffect ==
  [][\A j \in Jobs :
       /\ Queue[j] \in Pausable
       /\ row[j].status # "running" /\ row'[j].status = "running"
       => ~ paused \/ pausedFor <= LOCK_TIMEOUT]_vars

\* The result of a completed job stands: no late answer of a superseded
\* execution, sweep or failure takes it back.  Only a new request for a
\* missing translation reopens it, and only the purge removes it.
CompletedStands ==
  [][\A j \in Jobs :
       row[j].status = "completed" =>
         \/ row'[j].status = "completed"
         \/ row'[j].status = "absent"
         \/ row'[j].status = "pending" /\ j \in Enrichable]_vars

\* The promise to the rest of the program, at the level of one job.
Lifecycle ==
  INSTANCE JobLifecycle WITH
    status <- [j \in Jobs |-> row[j].status],
    holder <- [j \in Jobs |-> row[j].owner],
    sheltered <- [j \in Jobs |->
                    \E w \in Workers : wk[w].beating /\ wk[w].job = j]

ImplementsLifecycle == Lifecycle!Spec

-----------------------------------------------------------------------------
(* Fairness: time passes, idle workers poll every 2 seconds, a claim ends, *)
(* not always by the lock timeout, threads on schedule beat, and every     *)
(* dispatched job ends (each network call and statement it makes has a     *)
(* timeout).  Nothing is assumed of producers, stalls and crashes.         *)

FairSpec ==
  /\ Spec
  /\ WF_vars(Tick)
  /\ \A w \in Workers : /\ SF_vars(PausedPoll(w) \/ ClaimBegin(w))
                        /\ SF_vars(ClaimCommit(w))
                        /\ WF_vars(ClaimCommit(w) \/ ClaimAbort(w))
                        /\ WF_vars(Beat(w))
                        /\ WF_vars(Finish(w))

\* No job stays running for ever, whichever of its workers crash, stall or
\* lose their heartbeat, even while the site is paused (tasks.py:49-55).
RunningEnds == \A j \in Jobs : row[j].status = "running" ~> row[j].status # "running"

=============================================================================
