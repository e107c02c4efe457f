--------------------------- MODULE JobQueueProofs ---------------------------
(***************************************************************************)
(* The inductive invariant of JobQueue and the theorems that follow from   *)
(* it, for any number of jobs, workers, producers and any timing constants *)
(* that satisfy the assumptions of JobQueue.                               *)
(***************************************************************************)
EXTENDS JobQueue, FiniteSetTheorems, TLAPS

\* Only an executing worker remembers a claim; no claim waits longer than the
\* lock timeout, no heartbeat is set further away than its period.
WorkerShape ==
  \A w \in Workers :
    /\ wk[w].pc # "executing" => /\ wk[w].job = NoJob
                                 /\ wk[w].token = NoToken
                                 /\ ~ wk[w].beating
    /\ wk[w].pc = "executing" => /\ wk[w].job \in Jobs
                                 /\ wk[w].token \in Tokens
                                 /\ wk[w].attempts \in 1 .. MAX_ATTEMPTS
    /\ wk[w].lag <= LOCK_TIMEOUT
    /\ wk[w].beat <= BEAT

\* An enqueue() that is about to UPDATE read a pending row, or the completed
\* row of an enrichment.
RequestShape ==
  \A p \in Producers :
    req[p].job # NoJob =>
      \/ req[p].seen = "pending"
      \/ req[p].seen = "completed" /\ req[p].job \in Enrichable

\* No two workers remember the same claim.
ClaimsDistinct ==
  \A v, w \in Workers :
    wk[v].token \in Tokens /\ wk[v].token = wk[w].token => v = w

\* A worker whose token is still on the row works on that very attempt, and
\* nobody has recorded a result for it (a sweep may have given it up).
ClaimMatches ==
  \A w \in Workers :
    wk[w].pc = "executing" /\ row[wk[w].job].owner = wk[w].token =>
      /\ row[wk[w].job].status \in {"running", "failed"}
      /\ row[wk[w].job].attempts = wk[w].attempts

\* A scheduled heartbeat: at most LOCK_TIMEOUT of the lease was lost to a slow
\* claim, and at most one period to the wait for the next renewal.
BeatKeepsLease ==
  \A w \in Workers :
    wk[w].beating =>
      /\ row[wk[w].job].status = "running"
      /\ row[wk[w].job].owner = wk[w].token
      /\ row[wk[w].job].lease + (BEAT - wk[w].beat) >= LEASE - LOCK_TIMEOUT

\* A claim that began before the pause is at least as old as the pause.
PauseSeen ==
  \A w \in Workers :
    wk[w].pc = "claiming" /\ Serves[w] \in Pausable /\ paused
      => pausedFor <= wk[w].lag

\* No lease is longer than a fresh one.
LeaseBound == \A j \in Jobs : row[j].lease <= LEASE

IInv ==
  /\ TypeOK
  /\ WorkerShape
  /\ RequestShape
  /\ ClaimsDistinct
  /\ ClaimMatches
  /\ BeatKeepsLease
  /\ PauseSeen
  /\ LeaseBound
  /\ RetryBound

-----------------------------------------------------------------------------
(* Lemmas about the records and the operators on them. *)

\* A row with one column changed within its type is a row (tasks.py builds every
\* new row by such changes).
LEMMA RowUpdate ==
  ASSUME NEW r \in Row
  PROVE  /\ \A x \in Statuses : [r EXCEPT !.status = x] \in Row
         /\ \A x \in Nat : [r EXCEPT !.priority = x] \in Row
         /\ \A x \in Nat : [r EXCEPT !.attempts = x] \in Row
         /\ \A x \in Int : [r EXCEPT !.wait = x] \in Row
         /\ \A x \in Int : [r EXCEPT !.lease = x] \in Row
         /\ \A x \in Tokens \cup {NoToken} : [r EXCEPT !.owner = x] \in Row
  BY DEF Row

\* The same for what a worker process keeps in memory.
LEMMA WorkerUpdate ==
  ASSUME NEW v \in Worker
  PROVE  /\ \A x \in {"idle", "claiming", "executing"} : [v EXCEPT !.pc = x] \in Worker
         /\ \A x \in Nat : [v EXCEPT !.lag = x] \in Worker
         /\ \A x \in BOOLEAN : [v EXCEPT !.beating = x] \in Worker
         /\ \A x \in Nat : [v EXCEPT !.beat = x] \in Worker
  BY DEF Worker

\* The blank records of an unused key, an idle worker and no request are typed.
LEMMA Blank == Absent \in Row /\ Idle \in Worker /\ NoRequest \in Request
  BY DEF Absent, Idle, NoRequest, Row, Worker, Request, Statuses

\* What the sweep of claim() does to one row.
LEMMA SweptFacts ==
  ASSUME NEW r \in Row, NEW lag \in Nat
  PROVE  /\ Swept(r, lag) \in Row
         /\ Swept(r, lag).attempts = r.attempts
         /\ Swept(r, lag).lease \in {r.lease, 0}
         /\ \/ Swept(r, lag) = r
            \/ /\ r.status = "running" /\ r.lease + lag < 0
               /\ Swept(r, lag).status = "failed"
               /\ Swept(r, lag).owner = r.owner
            \/ /\ r.status = "running" /\ r.lease + lag < 0
               /\ Swept(r, lag).status = "pending"
               /\ Swept(r, lag).owner = NoToken
               /\ r.attempts < MAX_ATTEMPTS
<1>1. /\ "failed" \in Statuses /\ "pending" \in Statuses /\ 0 \in Int
      /\ NoToken \in Tokens \cup {NoToken}
  BY DEF Statuses
<1>2. Swept(r, lag) \in Row
  BY <1>1, RowUpdate DEF Swept
<1>3. r.attempts \in Nat
  BY DEF Row
<1> QED
  BY <1>2, <1>3, NumberAssumption DEF Swept, Expired, Row

\* One tick of a row.
LEMMA AgedFacts ==
  ASSUME NEW r \in Row
  PROVE  /\ Aged(r) \in Row
         /\ Aged(r).status = r.status
         /\ Aged(r).owner = r.owner
         /\ Aged(r).attempts = r.attempts
         /\ r.status = "running" => Aged(r).lease >= r.lease - 1
<1>1. /\ r.wait \in Int /\ r.lease \in Int
      /\ \A a \in Int, b \in Int : Most(a, b) \in Int
  BY DEF Row, Most
<1>2. /\ Most(r.wait - 1, 0 - LOCK_TIMEOUT) \in Int
      /\ (IF r.status = "running"
          THEN Most(r.lease - 1, 0 - (LOCK_TIMEOUT + 1)) ELSE 0) \in Int
  BY <1>1, NumberAssumption DEF Most
<1>3. Aged(r) \in Row
  <2> DEFINE s == [r EXCEPT !.wait = Most(r.wait - 1, 0 - LOCK_TIMEOUT)]
  <2>1. s \in Row /\ s.lease = r.lease
    BY <1>2, RowUpdate DEF Row
  <2>2. [s EXCEPT !.lease = IF r.status = "running"
                            THEN Most(r.lease - 1, 0 - (LOCK_TIMEOUT + 1)) ELSE 0] \in Row
    <3> HIDE DEF s
    <3> QED BY <1>2, <2>1, RowUpdate
  <2> QED
    BY <2>1, <2>2 DEF Aged
<1> QED
  BY <1>1, <1>3, NumberAssumption DEF Aged, Most, Row

\* The UPDATEs of enqueue().
LEMMA EnqueuedFacts ==
  ASSUME NEW r \in Row, NEW q \in Request
  PROVE  /\ Reopened(r, q) \in Row
         /\ Reopened(r, q).status = "pending" /\ Reopened(r, q).attempts = 0
         /\ Promoted(r, q) \in Row
         /\ Promoted(r, q).status = r.status
         /\ Promoted(r, q).attempts = r.attempts
<1>1. /\ q.priority \in Nat /\ q.seenPriority \in Nat /\ 0 \in Nat /\ 0 \in Int
      /\ "pending" \in Statuses
      /\ \A a \in Nat, b \in Nat : Least(a, b) \in Nat
  BY DEF Request, Least, Statuses
<1>2. Reopened(r, q) \in Row /\ Promoted(r, q) \in Row
  BY <1>1, RowUpdate DEF Reopened, Promoted
<1> QED
  BY <1>2 DEF Reopened, Promoted, Row

-----------------------------------------------------------------------------
(* Steps that start no claim and report no outcome. *)

\* A change to a row that a claim held under a long enough lease survives, and
\* that no other claim gains by.
Tame(r, s) ==
  /\ s \in Row
  /\ s.lease <= LEASE
  /\ s.status = "pending" => s.attempts < MAX_ATTEMPTS
  /\ s.status = "running" => s.attempts \in 1 .. MAX_ATTEMPTS
  /\ s.owner \in {r.owner, NoToken}
  /\ s.owner # NoToken /\ r.status \in {"running", "failed"} =>
       s.status \in {"running", "failed"} /\ s.attempts = r.attempts
  /\ r.status = "running" /\ r.lease > LOCK_TIMEOUT =>
       s.status = "running" /\ s.owner = r.owner /\ s.lease >= r.lease

\* A lease that lost no more than BeatKeepsLease allows outlasts a lock timeout.
LEMMA LeaseLeft ==
  ASSUME NEW l \in Int, NEW b \in Nat, b <= BEAT,
         l + (BEAT - b) >= LEASE - LOCK_TIMEOUT
  PROVE  l > LOCK_TIMEOUT
  BY NumberAssumption, LeaseAssumption

\* A heartbeat on schedule leaves more than the lock timeout on its lease, so that
\* no claim, however long it waited, can find it expired (tasks.py:49, 115-120).
LEMMA BeatingLease ==
  ASSUME TypeOK, WorkerShape, BeatKeepsLease, NEW w \in Workers, wk[w].beating
  PROVE  /\ wk[w].pc = "executing" /\ wk[w].job \in Jobs
         /\ row[wk[w].job].status = "running"
         /\ row[wk[w].job].owner = wk[w].token
         /\ row[wk[w].job].lease > LOCK_TIMEOUT
<1>1. wk[w] \in Worker
  BY DEF TypeOK
<1>2. wk[w].pc = "executing" /\ wk[w].job \in Jobs
  BY <1>1 DEF WorkerShape, Worker
<1>3. row[wk[w].job] \in Row
  BY <1>2 DEF TypeOK
<1>4. row[wk[w].job].lease \in Int /\ wk[w].beat \in Nat /\ wk[w].beat <= BEAT
  BY <1>1, <1>3 DEF Row, Worker, WorkerShape
<1>5. /\ row[wk[w].job].status = "running"
      /\ row[wk[w].job].owner = wk[w].token
      /\ row[wk[w].job].lease + (BEAT - wk[w].beat) >= LEASE - LOCK_TIMEOUT
  BY DEF BeatKeepsLease
<1> QED
  BY <1>2, <1>4, <1>5, LeaseLeft

\* A longer lease keeps what BeatKeepsLease says of the shorter one.
LEMMA LeaseGrows ==
  ASSUME NEW old \in Int, NEW new \in Int, NEW b \in Nat, new >= old,
         old + (BEAT - b) >= LEASE - LOCK_TIMEOUT
  PROVE  new + (BEAT - b) >= LEASE - LOCK_TIMEOUT
  BY NumberAssumption

\* A step that leaves the workers alone and changes rows tamely, as producers,
\* sweeps and the purge do, keeps the invariant.
LEMMA QuietStep ==
  ASSUME IInv,
         row' \in [Jobs -> Row], \A k \in Jobs : Tame(row[k], row'[k]),
         wk' \in [Workers -> Worker], \A w \in Workers : wk'[w] \in {wk[w], Idle},
         req' \in [Producers -> Request], RequestShape',
         paused' \in BOOLEAN, pausedFor' \in 0 .. LOCK_TIMEOUT + 1,
         concurrency' \in 1 .. MAX_CONCURRENCY, PauseSeen'
  PROVE  IInv'
<1>1. TypeOK'
  BY DEF TypeOK
<1>2. WorkerShape'
  BY NumberAssumption DEF IInv, WorkerShape, Idle
<1>3. ClaimsDistinct'
  BY QueueAssumption DEF IInv, ClaimsDistinct, Idle
<1>4. ClaimMatches'
  <2> SUFFICES ASSUME NEW w \in Workers, wk'[w].pc = "executing",
                      row'[wk'[w].job].owner = wk'[w].token
               PROVE  /\ row'[wk'[w].job].status \in {"running", "failed"}
                      /\ row'[wk'[w].job].attempts = wk'[w].attempts
    BY DEF ClaimMatches
  <2>1. wk'[w] = wk[w] /\ wk[w].job \in Jobs /\ wk[w].token \in Tokens
    BY DEF IInv, WorkerShape, Idle
  <2>2. row[wk[w].job].owner = wk[w].token
    BY <2>1, QueueAssumption DEF Tame
  <2> QED
    BY <2>1, <2>2, QueueAssumption DEF IInv, ClaimMatches, Tame
<1>5. BeatKeepsLease'
  <2> SUFFICES ASSUME NEW w \in Workers, wk'[w].beating
               PROVE  /\ row'[wk'[w].job].status = "running"
                      /\ row'[wk'[w].job].owner = wk'[w].token
                      /\ row'[wk'[w].job].lease + (BEAT - wk'[w].beat)
                           >= LEASE - LOCK_TIMEOUT
    BY DEF BeatKeepsLease
  <2>1. wk'[w] = wk[w]
    BY DEF Idle
  <2>2. /\ wk[w].job \in Jobs
        /\ row[wk[w].job].status = "running"
        /\ row[wk[w].job].owner = wk[w].token
        /\ row[wk[w].job].lease > LOCK_TIMEOUT
    BY <2>1, BeatingLease DEF IInv
  <2>3. /\ row'[wk[w].job].status = "running"
        /\ row'[wk[w].job].owner = wk[w].token
        /\ row'[wk[w].job].lease >= row[wk[w].job].lease
    BY <2>2 DEF Tame
  <2>4. row[wk[w].job] \in Row /\ row'[wk[w].job] \in Row /\ wk[w] \in Worker
    BY <2>2 DEF IInv, TypeOK
  <2>5. row[wk[w].job].lease \in Int /\ row'[wk[w].job].lease \in Int
    BY <2>4 DEF Row
  <2>6. wk[w].beat \in Nat
    BY <2>4 DEF Worker
  <2>7. row[wk[w].job].lease + (BEAT - wk[w].beat) >= LEASE - LOCK_TIMEOUT
    BY <2>1 DEF IInv, BeatKeepsLease
  <2>8. row'[wk[w].job].lease + (BEAT - wk[w].beat) >= LEASE - LOCK_TIMEOUT
    BY <2>3, <2>5, <2>6, <2>7, LeaseGrows
  <2> QED
    BY <2>1, <2>3, <2>8
<1>6. RetryBound' /\ LeaseBound'
  BY DEF RetryBound, LeaseBound, Tame
<1> QED
  BY <1>1, <1>2, <1>3, <1>4, <1>5, <1>6 DEF IInv

\* A row that does not change changes tamely.
LEMMA TameStay ==
  ASSUME IInv, NEW k \in Jobs
  PROVE  Tame(row[k], row[k])
  BY DEF IInv, TypeOK, RetryBound, LeaseBound, Tame, Row

\* So does a row swept by a claim that waited no longer than the lock timeout.
LEMMA TameSweep ==
  ASSUME IInv, NEW k \in Jobs, NEW lag \in Nat, lag <= LOCK_TIMEOUT
  PROVE  Tame(row[k], Swept(row[k], lag))
<1>1. row[k] \in Row /\ row[k].lease \in Int /\ row[k].attempts \in Nat
  BY DEF IInv, TypeOK, Row
<1>2. CASE Swept(row[k], lag) = row[k]
  BY <1>2, TameStay
<1>3. CASE Swept(row[k], lag) # row[k]
  <2> DEFINE s == Swept(row[k], lag)
  <2>1. /\ s \in Row /\ s.attempts = row[k].attempts
        /\ s.lease \in {row[k].lease, 0}
        /\ row[k].status = "running" /\ row[k].lease + lag < 0
        /\ \/ s.status = "failed" /\ s.owner = row[k].owner
           \/ /\ s.status = "pending" /\ s.owner = NoToken
              /\ row[k].attempts < MAX_ATTEMPTS
    BY <1>1, <1>3, SweptFacts
  <2>2. ~ (row[k].lease > LOCK_TIMEOUT)
    BY <1>1, <2>1, NumberAssumption
  <2> HIDE DEF s
  <2>3. s.lease <= LEASE
    BY <2>1, NumberAssumption DEF IInv, LeaseBound
  <2>4. Tame(row[k], s)
    BY <2>1, <2>2, <2>3 DEF Tame
  <2> QED
    BY <2>4 DEF s
<1> QED
  BY <1>2, <1>3

\* get_or_create of an unknown key keeps the invariant (tasks.py:16-18).
LEMMA CreateStep ==
  ASSUME IInv, NEW j \in Jobs, NEW prio \in Priorities, Create(j, prio)
  PROVE  IInv'
<1> DEFINE s == [Absent EXCEPT !.status = "pending", !.priority = prio]
<1>1. /\ s \in Row /\ s.status = "pending" /\ s.attempts = 0
      /\ s.owner = NoToken /\ s.lease = 0
  <2>1. prio \in Nat /\ "pending" \in Statuses
    BY NumberAssumption DEF Statuses
  <2>2. s \in Row
    BY <2>1, Blank, RowUpdate
  <2> QED
    BY <2>2 DEF Absent
<1>2. row' = [row EXCEPT ![j] = s] /\ row[j].status = "absent"
  BY DEF Create
<1> HIDE DEF s
<1>3. Tame(row[j], s)
  BY <1>1, <1>2, NumberAssumption DEF Tame
<1>4. row' \in [Jobs -> Row] /\ \A k \in Jobs : Tame(row[k], row'[k])
  BY <1>1, <1>2, <1>3, TameStay DEF IInv, TypeOK
<1> QED
  BY <1>4, QuietStep DEF Create, IInv, TypeOK, RequestShape, PauseSeen

\* Reading an existing row in enqueue() keeps the invariant (tasks.py:21-38).
LEMMA EnqueueReadStep ==
  ASSUME IInv, NEW p \in Producers, NEW j \in Jobs, NEW prio \in Priorities,
         EnqueueRead(p, j, prio)
  PROVE  IInv'
<1> DEFINE q == [job |-> j, priority |-> prio, seen |-> row[j].status,
                 seenPriority |-> row[j].priority]
<1>1. row[j] \in Row
  BY DEF IInv, TypeOK
<1>2. q \in Request
  BY <1>1, NumberAssumption DEF Request, Row
<1>3. q.seen = "pending" \/ (q.seen = "completed" /\ q.job \in Enrichable)
  BY DEF EnqueueRead, WantsUpdate
<1>4. req' = [req EXCEPT ![p] = q]
  BY DEF EnqueueRead
<1> HIDE DEF q
<1>5. req' \in [Producers -> Request] /\ RequestShape'
  BY <1>2, <1>3, <1>4 DEF IInv, TypeOK, RequestShape
<1>6. \A k \in Jobs : Tame(row[k], row'[k])
  BY TameStay DEF EnqueueRead
<1> QED
  BY <1>5, <1>6, QuietStep DEF EnqueueRead, IInv, TypeOK, PauseSeen

\* The UPDATE of enqueue() keeps the invariant although the row may have changed
\* since it was read (tasks.py:31-41).
LEMMA EnqueueWriteStep ==
  ASSUME IInv, NEW p \in Producers, EnqueueWrite(p)
  PROVE  IInv'
<1> DEFINE q == req[p]
           j == q.job
           s == IF q.seen = "completed" THEN Reopened(row[j], q)
                                        ELSE Promoted(row[j], q)
<1>1. q \in Request /\ j \in Jobs /\ row[j] \in Row
  BY DEF EnqueueWrite, IInv, TypeOK, Request
<1>2. q.seen = "pending" \/ q.seen = "completed"
  BY <1>1 DEF EnqueueWrite, IInv, RequestShape
<1>3. req' \in [Producers -> Request] /\ RequestShape'
  <2>1. req' = [req EXCEPT ![p] = NoRequest] /\ NoRequest.job = NoJob
    BY DEF EnqueueWrite, NoRequest
  <2> QED
    BY <2>1, Blank DEF IInv, TypeOK, RequestShape
<1>4. row' = row \/ (row[j].status = q.seen /\ row' = [row EXCEPT ![j] = s])
  BY DEF EnqueueWrite
<1>5. CASE row' = row
  BY <1>3, <1>5, TameStay, QuietStep DEF EnqueueWrite, IInv, TypeOK, PauseSeen
<1>6. CASE row[j].status = q.seen /\ row' = [row EXCEPT ![j] = s]
  <2>1. /\ s \in Row /\ s.status = "pending" /\ s.owner = row[j].owner
        /\ s.lease = row[j].lease /\ row[j].lease <= LEASE
        /\ s.attempts = 0 \/ s.attempts = row[j].attempts
    BY <1>1, <1>2, <1>6, EnqueuedFacts DEF Reopened, Promoted, Row, IInv, LeaseBound
  <2>2. row[j].status = "pending" => row[j].attempts < MAX_ATTEMPTS
    BY <1>1 DEF IInv, RetryBound
  <2>3. q.seen = "completed" => s.attempts = 0
    BY <1>1, EnqueuedFacts
  <2> HIDE DEF s
  <2>4. Tame(row[j], s)
    BY <1>1, <1>2, <1>6, <2>1, <2>2, <2>3, NumberAssumption DEF Tame
  <2>5. row' \in [Jobs -> Row] /\ \A k \in Jobs : Tame(row[k], row'[k])
    BY <1>6, <2>1, <2>4, TameStay DEF IInv, TypeOK
  <2> QED
    BY <1>3, <2>5, QuietStep DEF EnqueueWrite, IInv, TypeOK, PauseSeen
<1> QED
  BY <1>4, <1>5, <1>6

\* The sweep changes every row tamely (tasks.py:49-53).
LEMMA SweptRowsTame ==
  ASSUME IInv, NEW lag \in Nat, lag <= LOCK_TIMEOUT
  PROVE  /\ SweptRows(lag) \in [Jobs -> Row]
         /\ \A k \in Jobs : Tame(row[k], SweptRows(lag)[k])
  BY TameSweep, SweptFacts DEF SweptRows, IInv, TypeOK

\* A claim that stops at the pause keeps the invariant (tasks.py:54-55).
LEMMA PausedPollStep ==
  ASSUME IInv, NEW w \in Workers, PausedPoll(w)
  PROVE  IInv'
<1>1. row' \in [Jobs -> Row] /\ \A k \in Jobs : Tame(row[k], row'[k])
  BY SweptRowsTame, NumberAssumption DEF PausedPoll
<1> QED
  BY <1>1, QuietStep DEF PausedPoll, IInv, TypeOK, RequestShape, PauseSeen

\* A worker that is back in its polling loop remembers nothing.
LEMMA IdleStep ==
  ASSUME IInv, NEW w \in Workers, wk' = [wk EXCEPT ![w] = Idle]
  PROVE  /\ wk' \in [Workers -> Worker]
         /\ \A v \in Workers : wk'[v] \in {wk[v], Idle}
         /\ paused' = paused /\ pausedFor' = pausedFor => PauseSeen'
  BY Blank DEF IInv, TypeOK, PauseSeen, Idle

\* A claim that takes nothing keeps the invariant (tasks.py:56-74).
LEMMA ClaimNothingStep ==
  ASSUME IInv, NEW w \in Workers, ClaimNothing(w)
  PROVE  IInv'
<1>1. wk[w].lag \in Nat /\ wk[w].lag <= LOCK_TIMEOUT
  BY DEF IInv, TypeOK, Worker, WorkerShape
<1>2. row' \in [Jobs -> Row] /\ \A k \in Jobs : Tame(row[k], row'[k])
  BY <1>1, SweptRowsTame DEF ClaimNothing
<1>3. wk' = [wk EXCEPT ![w] = Idle] /\ UNCHANGED <<req, paused, pausedFor, concurrency>>
  BY DEF ClaimNothing
<1> QED
  BY <1>2, <1>3, IdleStep, QuietStep DEF IInv, TypeOK, RequestShape

\* A worker process that ends, or is rolled back, keeps the invariant: the row
\* stays as it is until its lease runs out (tasks.py:159-168).
LEMMA ForgetStep ==
  ASSUME IInv, NEW w \in Workers, ClaimAbort(w) \/ Crash(w)
  PROVE  IInv'
<1>1. /\ wk' = [wk EXCEPT ![w] = Idle]
      /\ UNCHANGED <<row, req, paused, pausedFor, concurrency>>
  BY DEF ClaimAbort, Crash
<1> QED
  BY <1>1, IdleStep, TameStay, QuietStep DEF IInv, TypeOK, RequestShape

\* Deleting finished rows keeps the invariant (storage.py:61).
LEMMA PurgeStep ==
  ASSUME IInv, NEW dead \in SUBSET Jobs, Purge(dead)
  PROVE  IInv'
<1>1. \A k \in dead : Tame(row[k], Absent)
  BY Blank, NumberAssumption DEF Purge, Tame, Absent
<1>2. row' \in [Jobs -> Row] /\ \A k \in Jobs : Tame(row[k], row'[k])
  BY <1>1, Blank, TameStay DEF Purge, IInv, TypeOK
<1> QED
  BY <1>2, QuietStep DEF Purge, IInv, TypeOK, RequestShape, PauseSeen

\* Changing the pause or the concurrency keeps the invariant (storage.py:137,
\* forms.py:94-104).
LEMMA SettingsStep ==
  ASSUME IInv,
         \/ \E value \in BOOLEAN : SetPaused(value)
         \/ \E n \in 1 .. MAX_CONCURRENCY : SetConcurrency(n)
  PROVE  IInv'
<1>1. row' = row /\ wk' = wk /\ req' = req
  BY DEF SetPaused, SetConcurrency
<1>2. /\ paused' \in BOOLEAN /\ pausedFor' \in 0 .. LOCK_TIMEOUT + 1
      /\ concurrency' \in 1 .. MAX_CONCURRENCY
      /\ pausedFor' = 0 \/ (paused' = paused /\ pausedFor' = pausedFor)
  BY NumberAssumption DEF SetPaused, SetConcurrency, IInv, TypeOK
<1>3. \A w \in Workers : wk[w].lag \in Nat
  BY DEF IInv, TypeOK, Worker
<1>4. PauseSeen'
  <2>1. CASE pausedFor' = 0
    BY <1>1, <1>3, <2>1 DEF PauseSeen
  <2>2. CASE paused' = paused /\ pausedFor' = pausedFor
    BY <1>1, <2>2 DEF PauseSeen, IInv
  <2> QED
    BY <1>2, <2>1, <2>2
<1> QED
  BY <1>1, <1>2, <1>4, TameStay, QuietStep DEF IInv, TypeOK, RequestShape

-----------------------------------------------------------------------------
(* Steps of a claim and of an execution. *)

\* A poll that passes the pause check keeps the invariant (tasks.py:46-55).
LEMMA ClaimBeginStep ==
  ASSUME IInv, NEW w \in Workers, ClaimBegin(w)
  PROVE  IInv'
<1> DEFINE v == [wk[w] EXCEPT !.pc = "claiming"]
<1>1. /\ wk[w] \in Worker /\ wk[w].pc = "idle"
      /\ wk' = [wk EXCEPT ![w] = v]
      /\ UNCHANGED <<row, req, paused, pausedFor, concurrency>>
      /\ ~ (paused /\ Serves[w] \in Pausable)
  BY DEF ClaimBegin, IInv, TypeOK
<1>2. v \in Worker
  BY <1>1, WorkerUpdate
<1>3. /\ v.pc = "claiming" /\ v.job = wk[w].job /\ v.token = wk[w].token
      /\ v.beating = wk[w].beating /\ v.lag = wk[w].lag /\ v.beat = wk[w].beat
  BY <1>1 DEF Worker
<1> HIDE DEF v
<1>4. TypeOK'
  BY <1>1, <1>2 DEF IInv, TypeOK
<1>5. WorkerShape' /\ ClaimsDistinct'
  BY <1>1, <1>3 DEF IInv, WorkerShape, ClaimsDistinct
<1>6. ClaimMatches' /\ PauseSeen'
  BY <1>1, <1>3 DEF IInv, ClaimMatches, PauseSeen
<1>7. BeatKeepsLease'
  BY <1>1, <1>3 DEF IInv, BeatKeepsLease, WorkerShape
<1>8. RequestShape' /\ RetryBound' /\ LeaseBound'
  BY <1>1 DEF IInv, RequestShape, RetryBound, LeaseBound
<1> QED
  BY <1>4, <1>5, <1>6, <1>7, <1>8 DEF IInv

\* What a claim that takes job j does to the row and to the worker.
LEMMA TakeFacts ==
  ASSUME IInv, NEW w \in Workers, NEW j \in Jobs, NEW o \in Tokens, Take(w, j, o)
  PROVE  /\ wk[w].pc = "claiming" /\ wk[w].lag \in Nat /\ wk[w].lag <= LOCK_TIMEOUT
         /\ ~ InUse(o)
         /\ SweptRows(wk[w].lag)[j].status = "pending"
         /\ row[j].attempts < MAX_ATTEMPTS
         /\ row' \in [Jobs -> Row]
         /\ \A k \in Jobs \ {j} : row'[k] = SweptRows(wk[w].lag)[k]
         /\ row'[j].status = "running" /\ row'[j].owner = o
         /\ row'[j].lease = LEASE - wk[w].lag
         /\ row'[j].attempts = row[j].attempts + 1
         /\ wk' = [wk EXCEPT ![w] =
                     [pc |-> "executing", lag |-> 0, job |-> j, token |-> o,
                      attempts |-> row[j].attempts + 1, beating |-> TRUE,
                      beat |-> BEAT]]
<1> DEFINE lag == wk[w].lag
           r == SweptRows(lag)[j]
           s == Started(r, o, lag)
<1>1. wk[w].pc = "claiming" /\ lag \in Nat /\ lag <= LOCK_TIMEOUT
  BY DEF Take, IInv, TypeOK, Worker, WorkerShape
<1>2. ~ InUse(o) /\ r.status = "pending"
  BY DEF Take, Foremost, Ready
<1>3. /\ SweptRows(lag) \in [Jobs -> Row] /\ r \in Row
      /\ r.attempts = row[j].attempts
      /\ row[j].attempts \in Nat /\ Tame(row[j], r)
  BY <1>1, SweptRowsTame, SweptFacts DEF SweptRows, IInv, TypeOK, Row
<1>4. row[j].attempts < MAX_ATTEMPTS
  BY <1>2, <1>3 DEF Tame
<1>5. s \in Row
  <2>1. /\ "running" \in Statuses /\ o \in Tokens \cup {NoToken}
        /\ LEASE - lag \in Int /\ r.attempts + 1 \in Nat
    BY <1>1, <1>3, NumberAssumption DEF Statuses
  <2> DEFINE a == [r EXCEPT !.status = "running"]
             b == [a EXCEPT !.owner = o]
             c == [b EXCEPT !.lease = LEASE - lag]
  <2>2. a \in Row /\ a.attempts = r.attempts
    BY <1>3, <2>1, RowUpdate DEF Row
  <2>3. b \in Row /\ b.attempts = r.attempts
    <3> HIDE DEF a
    <3> QED BY <2>1, <2>2, RowUpdate DEF Row
  <2>4. c \in Row
    <3> HIDE DEF b
    <3> QED BY <2>1, <2>3, RowUpdate
  <2>5. [c EXCEPT !.attempts = r.attempts + 1] \in Row
    <3> HIDE DEF c
    <3> QED BY <2>1, <2>4, RowUpdate
  <2> QED
    BY <2>5 DEF Started
<1>6. row' = [SweptRows(lag) EXCEPT ![j] = s]
  BY DEF Take
<1>7. /\ s.status = "running" /\ s.owner = o /\ s.lease = LEASE - lag
      /\ s.attempts = row[j].attempts + 1
  BY <1>3 DEF Started, Row
<1>8. row' \in [Jobs -> Row] /\ row'[j] = s
      /\ \A k \in Jobs \ {j} : row'[k] = SweptRows(lag)[k]
  <2> HIDE DEF s
  <2> QED BY <1>3, <1>5, <1>6
<1> HIDE DEF s
<1> QED
  BY <1>1, <1>2, <1>4, <1>7, <1>8 DEF Take

\* Starting a job keeps the invariant: its owner is new, its attempt is allowed
\* and its lease outlasts the first heartbeat (tasks.py:75-80).
LEMMA TakeStep ==
  ASSUME IInv, NEW w \in Workers, NEW j \in Jobs, NEW o \in Tokens, Take(w, j, o)
  PROVE  IInv'
<1> DEFINE lag == wk[w].lag
           rows == SweptRows(lag)
           v == [pc |-> "executing", lag |-> 0, job |-> j, token |-> o,
                 attempts |-> row[j].attempts + 1, beating |-> TRUE, beat |-> BEAT]
<1>1. /\ wk[w].pc = "claiming" /\ lag \in Nat /\ lag <= LOCK_TIMEOUT
      /\ ~ InUse(o) /\ rows[j].status = "pending"
      /\ row[j].attempts < MAX_ATTEMPTS
      /\ row' \in [Jobs -> Row]
      /\ \A k \in Jobs \ {j} : row'[k] = rows[k]
      /\ row'[j].status = "running" /\ row'[j].owner = o
      /\ row'[j].lease = LEASE - lag
      /\ row'[j].attempts = row[j].attempts + 1
      /\ wk' = [wk EXCEPT ![w] = v]
  BY TakeFacts
<1>2. /\ UNCHANGED <<req, paused, pausedFor, concurrency>>
  BY DEF Take
<1>3. row[j].attempts \in Nat
  BY DEF IInv, TypeOK, Row
<1>4. v \in Worker
  BY <1>3, NumberAssumption DEF Worker
<1>5. /\ v.pc = "executing" /\ v.lag = 0 /\ v.job = j /\ v.token = o
      /\ v.attempts = row[j].attempts + 1 /\ v.beating = TRUE /\ v.beat = BEAT
  OBVIOUS
<1>6. \A k \in Jobs : Tame(row[k], rows[k])
  BY <1>1, SweptRowsTame
<1> HIDE DEF v, rows, lag
<1>7. TypeOK'
  BY <1>1, <1>2, <1>4 DEF IInv, TypeOK
<1>8. WorkerShape'
  BY <1>1, <1>3, <1>5, NumberAssumption DEF IInv, WorkerShape
<1>9. ClaimsDistinct'
  BY <1>1, <1>5 DEF IInv, ClaimsDistinct, InUse
<1>10. ClaimMatches'
  <2> SUFFICES ASSUME NEW u \in Workers, wk'[u].pc = "executing",
                      row'[wk'[u].job].owner = wk'[u].token
               PROVE  /\ row'[wk'[u].job].status \in {"running", "failed"}
                      /\ row'[wk'[u].job].attempts = wk'[u].attempts
    BY DEF ClaimMatches
  <2>1. CASE u = w
    BY <1>1, <1>5, <2>1 DEF IInv, TypeOK
  <2>2. CASE u # w
    <3>1. /\ wk'[u] = wk[u] /\ wk[u].job \in Jobs /\ wk[u].token \in Tokens
          /\ wk[u].token # o
      BY <1>1, <2>2 DEF IInv, TypeOK, WorkerShape, InUse
    <3>2. wk[u].job # j /\ row'[wk[u].job] = rows[wk[u].job]
      BY <1>1, <3>1
    <3>3. row[wk[u].job].owner = wk[u].token
      BY <1>6, <3>1, <3>2, QueueAssumption DEF Tame
    <3> QED
      BY <1>6, <3>1, <3>2, <3>3, QueueAssumption DEF IInv, ClaimMatches, Tame
  <2> QED
    BY <2>1, <2>2
<1>11. BeatKeepsLease'
  <2> SUFFICES ASSUME NEW u \in Workers, wk'[u].beating
               PROVE  /\ row'[wk'[u].job].status = "running"
                      /\ row'[wk'[u].job].owner = wk'[u].token
                      /\ row'[wk'[u].job].lease + (BEAT - wk'[u].beat)
                           >= LEASE - LOCK_TIMEOUT
    BY DEF BeatKeepsLease
  <2>1. CASE u = w
    BY <1>1, <1>5, <2>1, NumberAssumption DEF IInv, TypeOK
  <2>2. CASE u # w
    <3>1. wk'[u] = wk[u]
      BY <1>1, <2>2 DEF IInv, TypeOK
    <3>2. /\ wk[u].job \in Jobs
          /\ row[wk[u].job].status = "running"
          /\ row[wk[u].job].owner = wk[u].token
          /\ row[wk[u].job].lease > LOCK_TIMEOUT
      BY <3>1, BeatingLease DEF IInv
    <3>3. /\ rows[wk[u].job].status = "running"
          /\ rows[wk[u].job].owner = wk[u].token
          /\ rows[wk[u].job].lease >= row[wk[u].job].lease
      BY <1>6, <3>2 DEF Tame
    <3>4. wk[u].job # j /\ row'[wk[u].job] = rows[wk[u].job]
      BY <1>1, <3>2, <3>3
    <3>5. row[wk[u].job].lease \in Int /\ row'[wk[u].job].lease \in Int
      <4>1. row[wk[u].job] \in Row /\ row'[wk[u].job] \in Row
        BY <1>1, <3>2 DEF IInv, TypeOK
      <4> QED
        BY <4>1 DEF Row
    <3>6. wk[u].beat \in Nat
      BY DEF IInv, TypeOK, Worker
    <3>7. row[wk[u].job].lease + (BEAT - wk[u].beat) >= LEASE - LOCK_TIMEOUT
      BY <3>1 DEF IInv, BeatKeepsLease
    <3>8. row'[wk[u].job].lease >= row[wk[u].job].lease
      BY <3>3, <3>4
    <3>9. row'[wk[u].job].lease + (BEAT - wk[u].beat) >= LEASE - LOCK_TIMEOUT
      BY <3>5, <3>6, <3>7, <3>8, LeaseGrows
    <3> QED
      BY <3>1, <3>3, <3>4, <3>9
  <2> QED
    BY <2>1, <2>2
<1>12. PauseSeen'
  BY <1>1, <1>2, <1>5 DEF IInv, PauseSeen, TypeOK
<1>13. RetryBound'
  BY <1>1, <1>3, <1>6, NumberAssumption DEF RetryBound, Tame
<1>15. LeaseBound'
  BY <1>1, <1>6, NumberAssumption DEF LeaseBound, Tame
<1>14. RequestShape'
  BY <1>2 DEF IInv, RequestShape
<1> QED
  BY <1>7, <1>8, <1>9, <1>10, <1>11, <1>12, <1>13, <1>14, <1>15 DEF IInv

\* The UPDATE of a heartbeat.
LEMMA RenewFacts ==
  ASSUME IInv, NEW w \in Workers, wk[w].pc = "executing", Renew(w)
  PROVE  /\ row' \in [Jobs -> Row]
         /\ \A k \in Jobs : Tame(row[k], row'[k])
         /\ wk[w].beating => row'[wk[w].job].lease = LEASE
<1> DEFINE j == wk[w].job
           s == [row[j] EXCEPT !.lease = LEASE]
<1>1. j \in Jobs /\ row[j] \in Row /\ row[j].lease \in Int
  BY DEF IInv, TypeOK, WorkerShape, Row
<1>2. s \in Row
  BY <1>1, RowUpdate, NumberAssumption
<1>3. /\ s.status = row[j].status /\ s.owner = row[j].owner
      /\ s.attempts = row[j].attempts /\ s.lease = LEASE
  BY <1>1 DEF Row
<1>4. \/ row' = row /\ ~ (Holds(w) /\ row[j].status = "running")
      \/ row' = [row EXCEPT ![j] = s]
  BY DEF Renew
<1>5. wk[w].beating => Holds(w) /\ row[j].status = "running"
  BY DEF IInv, BeatKeepsLease, Holds
<1> HIDE DEF s
<1>6. Tame(row[j], s)
  BY <1>1, <1>2, <1>3, NumberAssumption DEF Tame, IInv, RetryBound, LeaseBound
<1> QED
  BY <1>1, <1>2, <1>3, <1>4, <1>5, <1>6, TameStay DEF IInv, TypeOK

\* A renewal that comes too late keeps the invariant (tasks.py:118-120).
LEMMA LateBeatStep ==
  ASSUME IInv, NEW w \in Workers, LateBeat(w)
  PROVE  IInv'
<1>1. row' \in [Jobs -> Row] /\ \A k \in Jobs : Tame(row[k], row'[k])
  BY RenewFacts DEF LateBeat
<1> QED
  BY <1>1, QuietStep DEF LateBeat, IInv, TypeOK, RequestShape, PauseSeen

\* A heartbeat on schedule, or its loss: the row changes tamely, and one worker
\* changes only its heartbeat.
LEMMA HeartbeatStep ==
  ASSUME IInv, NEW w \in Workers, wk[w].pc = "executing",
         row' \in [Jobs -> Row], \A k \in Jobs : Tame(row[k], row'[k]),
         UNCHANGED <<req, paused, pausedFor, concurrency>>,
         NEW v \in Worker, wk' = [wk EXCEPT ![w] = v],
         v.pc = wk[w].pc, v.job = wk[w].job, v.token = wk[w].token,
         v.attempts = wk[w].attempts, v.lag = wk[w].lag, v.beat <= BEAT,
         v.beating => row'[wk[w].job].lease + (BEAT - v.beat) >= LEASE - LOCK_TIMEOUT,
         v.beating => wk[w].beating
  PROVE  IInv'
<1>1. TypeOK' /\ RequestShape'
  BY DEF IInv, TypeOK, RequestShape
<1>2. WorkerShape' /\ ClaimsDistinct' /\ PauseSeen'
  BY DEF IInv, TypeOK, WorkerShape, ClaimsDistinct, PauseSeen
<1>3. \A u \in Workers : /\ wk'[u].pc = wk[u].pc /\ wk'[u].job = wk[u].job
                         /\ wk'[u].token = wk[u].token
                         /\ wk'[u].attempts = wk[u].attempts
                         /\ wk'[u].beating => wk[u].beating
                         /\ u # w => wk'[u] = wk[u]
  BY DEF IInv, TypeOK
<1>4. ClaimMatches'
  <2> SUFFICES ASSUME NEW u \in Workers, wk[u].pc = "executing",
                      row'[wk[u].job].owner = wk[u].token
               PROVE  /\ row'[wk[u].job].status \in {"running", "failed"}
                      /\ row'[wk[u].job].attempts = wk[u].attempts
    BY <1>3 DEF ClaimMatches
  <2>1. wk[u].job \in Jobs /\ wk[u].token \in Tokens
    BY DEF IInv, WorkerShape
  <2>2. row[wk[u].job].owner = wk[u].token
    BY <2>1, QueueAssumption DEF Tame
  <2> QED
    BY <2>1, <2>2, QueueAssumption DEF IInv, ClaimMatches, Tame
<1>5. BeatKeepsLease'
  <2> SUFFICES ASSUME NEW u \in Workers, wk'[u].beating
               PROVE  /\ row'[wk[u].job].status = "running"
                      /\ row'[wk[u].job].owner = wk[u].token
                      /\ row'[wk[u].job].lease + (BEAT - wk'[u].beat)
                           >= LEASE - LOCK_TIMEOUT
    BY <1>3 DEF BeatKeepsLease
  <2>1. /\ wk[u].job \in Jobs
        /\ row[wk[u].job].status = "running"
        /\ row[wk[u].job].owner = wk[u].token
        /\ row[wk[u].job].lease > LOCK_TIMEOUT
    BY <1>3, BeatingLease DEF IInv
  <2>2. /\ row'[wk[u].job].status = "running"
        /\ row'[wk[u].job].owner = wk[u].token
        /\ row'[wk[u].job].lease >= row[wk[u].job].lease
    BY <2>1 DEF Tame
  <2>3. CASE u = w
    BY <2>2, <2>3 DEF IInv, TypeOK
  <2>4. CASE u # w
    <3>1. /\ wk'[u] = wk[u]
          /\ row[wk[u].job].lease + (BEAT - wk[u].beat) >= LEASE - LOCK_TIMEOUT
      BY <1>3, <2>4 DEF IInv, BeatKeepsLease
    <3>2. row[wk[u].job] \in Row /\ row'[wk[u].job] \in Row /\ wk[u] \in Worker
      BY <2>1 DEF IInv, TypeOK
    <3>3. row[wk[u].job].lease \in Int /\ row'[wk[u].job].lease \in Int
      BY <3>2 DEF Row
    <3>4. wk[u].beat \in Nat
      BY <3>2 DEF Worker
    <3>5. row'[wk[u].job].lease + (BEAT - wk[u].beat) >= LEASE - LOCK_TIMEOUT
      BY <2>2, <3>1, <3>3, <3>4, LeaseGrows
    <3> QED
      BY <2>2, <3>1, <3>5
  <2> QED
    BY <2>3, <2>4
<1>6. RetryBound' /\ LeaseBound'
  BY DEF RetryBound, LeaseBound, Tame
<1> QED
  BY <1>1, <1>2, <1>4, <1>5, <1>6 DEF IInv

\* A renewal on schedule keeps the invariant (tasks.py:118-120).
LEMMA BeatStep ==
  ASSUME IInv, NEW w \in Workers, Beat(w)
  PROVE  IInv'
<1> DEFINE v == [wk[w] EXCEPT !.beat = BEAT]
<1>1. /\ wk[w].pc = "executing" /\ wk[w].beating /\ wk[w] \in Worker
      /\ wk' = [wk EXCEPT ![w] = v]
      /\ UNCHANGED <<req, paused, pausedFor, concurrency>>
  BY DEF Beat, IInv, TypeOK
<1>2. /\ row' \in [Jobs -> Row] /\ \A k \in Jobs : Tame(row[k], row'[k])
      /\ row'[wk[w].job].lease = LEASE
  BY <1>1, RenewFacts DEF Beat
<1>3. v \in Worker
  BY <1>1, WorkerUpdate, NumberAssumption
<1>4. /\ v.pc = wk[w].pc /\ v.job = wk[w].job /\ v.token = wk[w].token
      /\ v.attempts = wk[w].attempts /\ v.lag = wk[w].lag /\ v.beat = BEAT
      /\ v.beating = wk[w].beating
  BY <1>1 DEF Worker
<1> HIDE DEF v
<1>5. /\ v.beat <= BEAT
      /\ row'[wk[w].job].lease + (BEAT - v.beat) >= LEASE - LOCK_TIMEOUT
  BY <1>2, <1>4, NumberAssumption
<1> QED
  BY <1>1, <1>2, <1>3, <1>4, <1>5, HeartbeatStep

\* Losing the heartbeat keeps the invariant: less is promised from then on.
LEMMA LoseBeatStep ==
  ASSUME IInv, NEW w \in Workers, LoseBeat(w)
  PROVE  IInv'
<1> DEFINE v == [wk[w] EXCEPT !.beating = FALSE, !.beat = 0]
<1>1. /\ wk[w].pc = "executing" /\ wk[w] \in Worker
      /\ wk' = [wk EXCEPT ![w] = v] /\ row' = row
      /\ UNCHANGED <<req, paused, pausedFor, concurrency>>
  BY DEF LoseBeat, IInv, TypeOK
<1>2. row' \in [Jobs -> Row] /\ \A k \in Jobs : Tame(row[k], row'[k])
  BY <1>1, TameStay DEF IInv, TypeOK
<1>3. v \in Worker
  BY <1>1, WorkerUpdate
<1>4. /\ v.pc = wk[w].pc /\ v.job = wk[w].job /\ v.token = wk[w].token
      /\ v.attempts = wk[w].attempts /\ v.lag = wk[w].lag /\ v.beat <= BEAT
      /\ ~ v.beating
  BY <1>1, NumberAssumption DEF Worker
<1> HIDE DEF v
<1> QED
  BY <1>1, <1>2, <1>3, <1>4, HeartbeatStep

\* Whatever execute() records at the end, only the holder of the claim records
\* it, and it starts no attempt that the limit forbids.
LEMMA OutcomeStep ==
  ASSUME IInv, NEW w \in Workers, NEW s \in Row, Outcome(w, s),
         s.status \in {"pending", "completed", "failed"},
         s.owner = row[wk[w].job].owner, s.lease <= LEASE,
         Holds(w) /\ s.status = "pending" => s.attempts < MAX_ATTEMPTS
  PROVE  IInv'
<1> DEFINE j == wk[w].job
<1>1. /\ wk[w].pc = "executing" /\ j \in Jobs /\ wk[w].token \in Tokens
      /\ wk' = [wk EXCEPT ![w] = Idle]
      /\ UNCHANGED <<req, paused, pausedFor, concurrency>>
  BY DEF Outcome, IInv, WorkerShape
<1>2. CASE ~ Holds(w)
  <2>1. row' = row
    BY <1>2 DEF Outcome
  <2> QED
    BY <1>1, <2>1, IdleStep, TameStay, QuietStep DEF IInv, TypeOK, RequestShape
<1>3. CASE Holds(w)
  <2>1. row' = [row EXCEPT ![j] = s] /\ row[j].owner = wk[w].token
    BY <1>3 DEF Outcome, Holds
  <2>2. row'[j] = s /\ \A k \in Jobs \ {j} : row'[k] = row[k]
    BY <1>1, <2>1 DEF IInv, TypeOK
  <2>3. /\ wk' \in [Workers -> Worker] /\ wk'[w] = Idle
        /\ \A u \in Workers \ {w} : wk'[u] = wk[u]
    BY <1>1, Blank DEF IInv, TypeOK
  <2>4. TypeOK' /\ RequestShape'
    BY <1>1, <2>1, <2>3 DEF IInv, TypeOK, RequestShape
  <2>5. WorkerShape' /\ ClaimsDistinct' /\ PauseSeen'
    BY <1>1, <2>3, NumberAssumption, QueueAssumption
       DEF IInv, WorkerShape, ClaimsDistinct, PauseSeen, Idle
  <2>6. ASSUME NEW u \in Workers, wk'[u].pc = "executing",
               row'[wk'[u].job].owner = wk'[u].token
        PROVE  /\ wk'[u] = wk[u] /\ wk[u].job \in Jobs /\ wk[u].job # j
               /\ row'[wk[u].job] = row[wk[u].job]
    <3>1. u # w /\ wk'[u] = wk[u]
      BY <2>3, <2>6 DEF Idle
    <3>2. wk[u].job \in Jobs
      BY <2>6, <3>1 DEF IInv, WorkerShape
    <3>3. wk[u].job # j
      BY <1>1, <2>1, <2>2, <2>6, <3>1 DEF IInv, ClaimsDistinct
    <3> QED
      BY <2>2, <3>1, <3>2, <3>3
  <2>7. ClaimMatches'
    BY <2>6 DEF IInv, ClaimMatches
  <2>8. BeatKeepsLease'
    <3> SUFFICES ASSUME NEW u \in Workers, wk'[u].beating
                 PROVE  /\ row'[wk'[u].job].status = "running"
                        /\ row'[wk'[u].job].owner = wk'[u].token
                        /\ row'[wk'[u].job].lease + (BEAT - wk'[u].beat)
                             >= LEASE - LOCK_TIMEOUT
      BY DEF BeatKeepsLease
    <3>1. u # w /\ wk'[u] = wk[u]
      BY <2>3 DEF Idle
    <3>2. wk[u].job \in Jobs /\ row[wk[u].job].owner = wk[u].token
      BY <3>1, BeatingLease DEF IInv
    <3>3. wk[u].job # j
      BY <1>1, <2>1, <3>1, <3>2 DEF IInv, ClaimsDistinct
    <3> QED
      BY <2>2, <3>1, <3>2, <3>3 DEF IInv, BeatKeepsLease
  <2>9. RetryBound'
    BY <1>3, <2>2 DEF IInv, RetryBound
  <2>10. LeaseBound'
    BY <2>2 DEF IInv, LeaseBound
  <2> QED
    BY <2>4, <2>5, <2>7, <2>8, <2>9, <2>10 DEF IInv
<1> QED
  BY <1>2, <1>3

\* Each of the three outcomes of execute() keeps the invariant (tasks.py:125-153).
LEMMA FinishStep ==
  ASSUME IInv, NEW w \in Workers,
         Succeed(w) \/ Fail(w) \/ \E d \in DEFERRALS : Defer(w, d)
  PROVE  IInv'
<1> DEFINE j == wk[w].job
           r == row[j]
<1>1. /\ wk[w].pc = "executing" /\ r \in Row /\ wk[w].attempts \in 1 .. MAX_ATTEMPTS
      /\ Holds(w) => r.attempts = wk[w].attempts
  BY DEF Succeed, Fail, Defer, Outcome, IInv, TypeOK, WorkerShape, ClaimMatches, Holds
<1>2. /\ {"pending", "completed", "failed"} \subseteq Statuses
      /\ 0 \in Nat /\ 0 \in Int /\ 0 <= LEASE /\ 0 < MAX_ATTEMPTS
      /\ BACKOFF[wk[w].attempts] \in Int /\ DEFERRALS \subseteq Int
  BY <1>1, NumberAssumption DEF Statuses
<1>3. CASE Succeed(w)
  <2> DEFINE s == [r EXCEPT !.status = "completed", !.lease = 0]
  <2>1. s \in Row
    BY <1>1, <1>2, RowUpdate
  <2>2. s.status = "completed" /\ s.owner = r.owner /\ s.lease = 0
    BY <1>1 DEF Row
  <2>3. Outcome(w, s)
    BY <1>3 DEF Succeed
  <2> HIDE DEF s
  <2> QED
    BY <1>2, <2>1, <2>2, <2>3, OutcomeStep
<1>4. CASE Fail(w)
  <2> DEFINE x == IF wk[w].attempts >= MAX_ATTEMPTS THEN "failed" ELSE "pending"
             a == [r EXCEPT !.status = x]
             b == [a EXCEPT !.wait = BACKOFF[wk[w].attempts]]
             s == [b EXCEPT !.lease = 0]
  <2>1. x \in {"pending", "failed"} /\ x \in Statuses
    BY <1>2
  <2>2. x = "pending" => wk[w].attempts < MAX_ATTEMPTS
    BY <1>1, NumberAssumption
  <2> HIDE DEF x
  <2>3. a \in Row /\ a.status = x /\ a.owner = r.owner /\ a.attempts = r.attempts
    BY <1>1, <2>1, RowUpdate DEF Row
  <2> HIDE DEF a
  <2>4. b \in Row /\ b.status = x /\ b.owner = r.owner /\ b.attempts = r.attempts
    BY <1>2, <2>3, RowUpdate DEF Row
  <2> HIDE DEF b
  <2>5. /\ s \in Row /\ s.status = x /\ s.owner = r.owner
        /\ s.attempts = r.attempts /\ s.lease = 0
    BY <1>2, <2>4, RowUpdate DEF Row
  <2>6. Outcome(w, s)
    BY <1>4 DEF Fail, x, a, b
  <2> HIDE DEF s
  <2> QED
    BY <1>1, <1>2, <2>1, <2>2, <2>5, <2>6, OutcomeStep
<1>5. ASSUME NEW d \in DEFERRALS, Defer(w, d)
      PROVE  IInv'
  <2> DEFINE a == [r EXCEPT !.status = "pending", !.attempts = 0]
             s == [a EXCEPT !.wait = d, !.lease = 0]
  <2>1. a \in Row /\ a.status = "pending" /\ a.owner = r.owner /\ a.attempts = 0
    <3>1. a \in Row
      BY <1>1, <1>2, RowUpdate
    <3> QED
      BY <1>1, <3>1 DEF Row
  <2> HIDE DEF a
  <2>2. s \in Row
    BY <1>2, <2>1, RowUpdate
  <2>3. s.status = "pending" /\ s.owner = r.owner /\ s.attempts = 0 /\ s.lease = 0
    BY <2>1 DEF Row
  <2>4. Outcome(w, s)
    BY <1>5 DEF Defer, a
  <2> HIDE DEF s
  <2> QED
    BY <1>2, <2>2, <2>3, <2>4, OutcomeStep
<1> QED
  BY <1>3, <1>4, <1>5

\* The passing of time keeps the invariant: no lease with a heartbeat on schedule
\* comes near its end (tasks.py:78, 116, 119).
LEMMA TickStep ==
  ASSUME IInv, Tick
  PROVE  IInv'
<1> DEFINE v(w) == [wk[w] EXCEPT
                      !.lag = IF wk[w].pc = "claiming" THEN @ + 1 ELSE @,
                      !.beat = IF wk[w].beating THEN @ - 1 ELSE @]
<1>1. /\ \A k \in Jobs : row'[k] = Aged(row[k])
      /\ row' \in [Jobs -> Row]
      /\ UNCHANGED <<req, paused, concurrency>>
  BY AgedFacts DEF Tick, IInv, TypeOK
<1>2. \A k \in Jobs : /\ row'[k].status = row[k].status
                      /\ row'[k].owner = row[k].owner
                      /\ row'[k].attempts = row[k].attempts
                      /\ row[k].status = "running" =>
                           row'[k].lease >= row[k].lease - 1
  BY <1>1, AgedFacts DEF IInv, TypeOK
<1>3. ASSUME NEW w \in Workers
      PROVE  /\ wk'[w] \in Worker
             /\ wk'[w].pc = wk[w].pc /\ wk'[w].job = wk[w].job
             /\ wk'[w].token = wk[w].token /\ wk'[w].attempts = wk[w].attempts
             /\ wk'[w].beating = wk[w].beating
             /\ wk'[w].lag <= LOCK_TIMEOUT /\ wk'[w].beat <= BEAT
             /\ wk[w].pc = "claiming" => wk'[w].lag = wk[w].lag + 1
             /\ wk[w].beating => wk'[w].beat = wk[w].beat - 1
  <2>1. /\ wk[w] \in Worker /\ wk[w].lag \in Nat /\ wk[w].beat \in Nat
        /\ wk[w].lag <= LOCK_TIMEOUT /\ wk[w].beat <= BEAT
        /\ wk[w].beating \in BOOLEAN
    BY DEF IInv, TypeOK, WorkerShape, Worker
  <2>2. /\ wk[w].pc = "claiming" => wk[w].lag < LOCK_TIMEOUT
        /\ wk[w].beating => wk[w].beat > 0
    BY DEF Tick
  <2> DEFINE l == IF wk[w].pc = "claiming" THEN wk[w].lag + 1 ELSE wk[w].lag
             b == IF wk[w].beating THEN wk[w].beat - 1 ELSE wk[w].beat
             a == [wk[w] EXCEPT !.lag = l]
  <2>3. l \in Nat /\ l <= LOCK_TIMEOUT
    BY <2>1, <2>2, NumberAssumption
  <2>4. b \in Nat /\ b <= BEAT
    BY <2>1, <2>2, NumberAssumption
  <2>5. wk'[w] = [a EXCEPT !.beat = b]
    BY <2>1 DEF Tick, Worker
  <2>6. /\ wk[w].pc = "claiming" => l = wk[w].lag + 1
        /\ wk[w].beating => b = wk[w].beat - 1
    OBVIOUS
  <2> HIDE DEF l, b
  <2>7. /\ a \in Worker /\ a.lag = l /\ a.pc = wk[w].pc /\ a.job = wk[w].job
        /\ a.token = wk[w].token /\ a.attempts = wk[w].attempts
        /\ a.beating = wk[w].beating
    BY <2>1, <2>3, WorkerUpdate DEF Worker
  <2> HIDE DEF a
  <2>8. wk'[w] \in Worker
    BY <2>4, <2>5, <2>7, WorkerUpdate
  <2> QED
    BY <2>3, <2>4, <2>5, <2>6, <2>7, <2>8 DEF Worker
<1>4. wk' \in [Workers -> Worker]
  <2>1. wk' = [w \in Workers |-> wk'[w]]
    BY DEF Tick
  <2> QED
    BY <1>3, <2>1
<1>5. pausedFor' \in 0 .. LOCK_TIMEOUT + 1 /\ pausedFor' <= pausedFor + 1
  <2>1. pausedFor \in 0 .. LOCK_TIMEOUT + 1
    BY DEF IInv, TypeOK
  <2>2. \/ pausedFor' = 0
        \/ pausedFor' = pausedFor + 1 /\ pausedFor + 1 < LOCK_TIMEOUT + 1
        \/ pausedFor' = LOCK_TIMEOUT + 1 /\ ~ (pausedFor + 1 < LOCK_TIMEOUT + 1)
    BY DEF Tick, Least
  <2> QED
    BY <2>1, <2>2, NumberAssumption
<1>6. TypeOK' /\ RequestShape'
  BY <1>1, <1>4, <1>5 DEF IInv, TypeOK, RequestShape
<1>7. WorkerShape' /\ ClaimsDistinct'
  BY <1>3 DEF IInv, WorkerShape, ClaimsDistinct
<1>8. ClaimMatches'
  BY <1>2, <1>3 DEF IInv, ClaimMatches, WorkerShape
<1>9. BeatKeepsLease'
  <2> SUFFICES ASSUME NEW w \in Workers, wk[w].beating
               PROVE  /\ row'[wk[w].job].status = "running"
                      /\ row'[wk[w].job].owner = wk[w].token
                      /\ row'[wk[w].job].lease + (BEAT - wk'[w].beat)
                           >= LEASE - LOCK_TIMEOUT
    BY <1>3 DEF BeatKeepsLease
  <2>1. /\ wk[w].job \in Jobs
        /\ row[wk[w].job].status = "running"
        /\ row[wk[w].job].owner = wk[w].token
    BY BeatingLease DEF IInv
  <2>2. /\ row[wk[w].job] \in Row /\ row'[wk[w].job] \in Row /\ wk[w] \in Worker
    BY <1>1, <2>1 DEF IInv, TypeOK
  <2>3. row[wk[w].job].lease \in Int /\ row'[wk[w].job].lease \in Int
    BY <2>2 DEF Row
  <2>4. wk[w].beat \in Nat
    BY <2>2 DEF Worker
  <2>5. row[wk[w].job].lease + (BEAT - wk[w].beat) >= LEASE - LOCK_TIMEOUT
    BY DEF IInv, BeatKeepsLease
  <2>6. /\ row'[wk[w].job].lease >= row[wk[w].job].lease - 1
        /\ wk'[w].beat = wk[w].beat - 1
    BY <1>2, <1>3, <2>1
  <2>7. row'[wk[w].job].lease + (BEAT - wk'[w].beat) >= LEASE - LOCK_TIMEOUT
    <3>1. \A l1 \in Int, l2 \in Int, b \in Nat :
             l1 + (BEAT - b) >= LEASE - LOCK_TIMEOUT /\ l2 >= l1 - 1 =>
               l2 + (BEAT - (b - 1)) >= LEASE - LOCK_TIMEOUT
      BY NumberAssumption
    <3> QED
      BY <2>3, <2>4, <2>5, <2>6, <3>1
  <2> QED
    BY <1>2, <2>1, <2>7
<1>10. PauseSeen'
  <2> SUFFICES ASSUME NEW w \in Workers, wk[w].pc = "claiming",
                      Serves[w] \in Pausable, paused
               PROVE  pausedFor' <= wk'[w].lag
    BY <1>1, <1>3 DEF PauseSeen
  <2>1. wk'[w].lag = wk[w].lag + 1 /\ pausedFor <= wk[w].lag
    BY <1>3 DEF IInv, PauseSeen
  <2>2. wk[w].lag \in Nat
    BY DEF IInv, TypeOK, Worker
  <2>3. pausedFor \in 0 .. LOCK_TIMEOUT + 1
    BY DEF IInv, TypeOK
  <2> QED
    BY <1>5, <2>1, <2>2, <2>3, NumberAssumption
<1>11. LeaseBound'
  <2> SUFFICES ASSUME NEW k \in Jobs
               PROVE  Aged(row[k]).lease <= LEASE
    BY <1>1 DEF LeaseBound
  <2>1. row[k] \in Row /\ row[k].lease \in Int /\ row[k].lease <= LEASE
    BY DEF IInv, TypeOK, LeaseBound, Row
  <2>2. CASE row[k].status = "absent"
    BY <2>1, <2>2 DEF Aged
  <2>3. CASE row[k].status # "absent"
    <3>1. Aged(row[k]).lease =
            IF row[k].status = "running"
            THEN Most(row[k].lease - 1, 0 - (LOCK_TIMEOUT + 1)) ELSE 0
      BY <2>1, <2>3 DEF Aged, Row
    <3> QED
      BY <2>1, <3>1, NumberAssumption DEF Most
  <2> QED
    BY <2>2, <2>3
<1>12. RetryBound'
  BY <1>2 DEF IInv, RetryBound
<1> QED
  BY <1>6, <1>7, <1>8, <1>9, <1>10, <1>11, <1>12 DEF IInv

-----------------------------------------------------------------------------
(* The theorems. *)

\* The empty queue satisfies the invariant.
LEMMA InitIInv == Init => IInv
<1> SUFFICES ASSUME Init PROVE IInv
  OBVIOUS
<1>1. TypeOK
  <2>1. row \in [Jobs -> Row] /\ wk \in [Workers -> Worker] /\ req \in [Producers -> Request]
    BY Blank DEF Init
  <2>2. 0 \in 0 .. LOCK_TIMEOUT + 1
    BY NumberAssumption
  <2> QED
    BY <2>1, <2>2 DEF Init, TypeOK
<1>2. WorkerShape /\ RequestShape /\ ClaimsDistinct
  BY NumberAssumption, QueueAssumption
     DEF Init, WorkerShape, RequestShape, ClaimsDistinct, Idle, NoRequest
<1>3. ClaimMatches /\ BeatKeepsLease /\ PauseSeen
  BY DEF Init, ClaimMatches, BeatKeepsLease, PauseSeen, Idle
<1>4. LeaseBound /\ RetryBound
  BY NumberAssumption DEF Init, LeaseBound, RetryBound, Absent
<1> QED
  BY <1>1, <1>2, <1>3, <1>4 DEF IInv

\* The invariant is inductive: one case for each action of Next.
LEMMA NextIInv == IInv /\ [Next]_vars => IInv'
<1> SUFFICES ASSUME IInv, [Next]_vars PROVE IInv'
  OBVIOUS
<1>1. CASE UNCHANGED vars
  BY <1>1 DEF vars, IInv, TypeOK, WorkerShape, RequestShape, ClaimsDistinct,
     ClaimMatches, BeatKeepsLease, PauseSeen, LeaseBound, RetryBound
<1>2. CASE \E j \in Jobs, prio \in Priorities : Create(j, prio)
  BY <1>2, CreateStep
<1>3. CASE \E p \in Producers, j \in Jobs, prio \in Priorities : EnqueueRead(p, j, prio)
  BY <1>3, EnqueueReadStep
<1>4. CASE \E p \in Producers : EnqueueWrite(p)
  BY <1>4, EnqueueWriteStep
<1>5. CASE \E w \in Workers : PausedPoll(w)
  BY <1>5, PausedPollStep
<1>6. CASE \E w \in Workers : ClaimBegin(w)
  BY <1>6, ClaimBeginStep
<1>7. CASE \E w \in Workers : ClaimNothing(w)
  BY <1>7, ClaimNothingStep
<1>8. CASE \E w \in Workers, j \in Jobs, o \in Tokens : Take(w, j, o)
  BY <1>8, TakeStep
<1>9. CASE \E w \in Workers : ClaimAbort(w)
  BY <1>9, ForgetStep
<1>10. CASE \E w \in Workers : Beat(w)
  BY <1>10, BeatStep
<1>11. CASE \E w \in Workers : LoseBeat(w)
  BY <1>11, LoseBeatStep
<1>12. CASE \E w \in Workers : LateBeat(w)
  BY <1>12, LateBeatStep
<1>13. CASE \/ \E w \in Workers : Succeed(w)
            \/ \E w \in Workers : Fail(w)
            \/ \E w \in Workers, d \in DEFERRALS : Defer(w, d)
  BY <1>13, FinishStep
<1>14. CASE \E w \in Workers : Crash(w)
  BY <1>14, ForgetStep
<1>15. CASE \E dead \in SUBSET Jobs : Purge(dead)
  BY <1>15, PurgeStep
<1>16. CASE \/ \E value \in BOOLEAN : SetPaused(value)
            \/ \E n \in 1 .. MAX_CONCURRENCY : SetConcurrency(n)
  BY <1>16, SettingsStep
<1>17. CASE Tick
  BY <1>17, TickStep
<1> QED
  BY <1>1, <1>2, <1>3, <1>4, <1>5, <1>6, <1>7, <1>8, <1>9, <1>10, <1>11, <1>12,
     <1>13, <1>14, <1>15, <1>16, <1>17 DEF Next

\* The table, the workers and the requests keep their shape, and the invariant
\* the other theorems rest on holds throughout (app/core/tasks.py).
THEOREM Invariance == Spec => []IInv
  BY InitIInv, NextIInv, PTL DEF Spec

\* Every reachable state is typed: no column or field leaves its range.
THEOREM TypeCorrect == Spec => []TypeOK
<1>1. IInv => TypeOK
  BY DEF IInv
<1> QED
  BY <1>1, Invariance, PTL

\* For any number of jobs and workers, no mix of exceptions, crashes, expired
\* leases and late results starts a job more often than MAX_ATTEMPTS between
\* two decisions to start over (tasks.py:50-53, 79, 149).
THEOREM RetriesBounded == Spec => []RetryBound
<1>1. IInv => RetryBound
  BY DEF IInv
<1> QED
  BY <1>1, Invariance, PTL

\* For any lease, heartbeat period and lock timeout with BEAT + 2 LOCK_TIMEOUT
\* < LEASE, an execution whose heartbeat is on schedule keeps its claim
\* (tasks.py:49, 78, 115-120).
THEOREM HeartbeatSuffices == Spec => []HeartbeatKeepsClaim
<1>1. IInv => HeartbeatKeepsClaim
  BY BeatingLease DEF IInv, HeartbeatKeepsClaim
<1> QED
  BY <1>1, Invariance, PTL

\* Hence two such executions never share a job.
THEOREM ExclusiveExecution == Spec => []NoTwinExecution
<1>1. IInv => NoTwinExecution
  <2> SUFFICES ASSUME IInv, NEW v \in Workers, NEW w \in Workers,
                      wk[v].beating, wk[w].beating, wk[v].job = wk[w].job
               PROVE  v = w
    BY DEF NoTwinExecution
  <2>1. wk[v].token = wk[w].token /\ wk[v].token \in Tokens
    BY BeatingLease DEF IInv, WorkerShape
  <2> QED
    BY <2>1 DEF IInv, ClaimsDistinct
<1> QED
  BY <1>1, Invariance, PTL

\* Only a claim makes a row run, and only one row that was not running.
LEMMA OnlyTakeStarts ==
  ASSUME IInv, [Next]_vars, NEW j \in Jobs,
         row[j].status # "running", row'[j].status = "running"
  PROVE  \E w \in Workers, o \in Tokens : Take(w, j, o)
<1>1. row[j] \in Row
  BY DEF IInv, TypeOK
<1>2. \A lag \in Nat : Swept(row[j], lag).status # "running"
  BY <1>1, SweptFacts
<1>3. \A w \in Workers : wk[w].lag \in Nat
  BY DEF IInv, TypeOK, Worker
<1>4. \A i \in Jobs, prio \in Priorities : ~ Create(i, prio)
  BY DEF Create, Absent, IInv, TypeOK
<1>5. \A p \in Producers : ~ EnqueueWrite(p)
  <2> SUFFICES ASSUME NEW p \in Producers, EnqueueWrite(p) PROVE FALSE
    OBVIOUS
  <2>1. req[p] \in Request
    BY DEF IInv, TypeOK
  <2> QED
    BY <1>1, <2>1, EnqueuedFacts DEF EnqueueWrite, IInv, TypeOK
<1>6. \A w \in Workers : ~ PausedPoll(w) /\ ~ ClaimNothing(w)
  BY <1>2, <1>3, NumberAssumption DEF PausedPoll, ClaimNothing, SweptRows
<1>7. \A w \in Workers : ~ Beat(w) /\ ~ LateBeat(w)
  <2> SUFFICES ASSUME NEW w \in Workers, Beat(w) \/ LateBeat(w) PROVE FALSE
    OBVIOUS
  <2>1. Renew(w)
    BY DEF Beat, LateBeat
  <2>2. row[j] # row'[j] => wk[w].job = j /\ row[j].status = "running"
    BY <2>1 DEF Renew, IInv, TypeOK
  <2> QED
    BY <2>2
<1>8. \A w \in Workers : ~ Succeed(w) /\ ~ Fail(w) /\ \A d \in DEFERRALS : ~ Defer(w, d)
  <2> TAKE w \in Workers
  <2>1. \A s : Outcome(w, s) => s.status = "running"
    BY DEF Outcome, IInv, TypeOK
  <2>2. wk[w].pc = "executing" => row[wk[w].job] \in Row
    BY DEF IInv, TypeOK, WorkerShape
  <2>3. ASSUME Succeed(w)
        PROVE  FALSE
    <3> DEFINE s == [row[wk[w].job] EXCEPT !.status = "completed", !.lease = 0]
    <3>1. s.status # "running"
      BY <2>2, <2>3 DEF Succeed, Outcome, Row
    <3>2. Outcome(w, s)
      BY <2>3 DEF Succeed
    <3> HIDE DEF s
    <3> QED
      BY <2>1, <3>1, <3>2
  <2>4. ASSUME Fail(w)
        PROVE  FALSE
    <3> DEFINE s == [row[wk[w].job] EXCEPT
                       !.status = IF wk[w].attempts >= MAX_ATTEMPTS
                                  THEN "failed" ELSE "pending",
                       !.wait = BACKOFF[wk[w].attempts], !.lease = 0]
    <3>1. s.status # "running"
      BY <2>2, <2>4 DEF Fail, Outcome, Row
    <3>2. Outcome(w, s)
      BY <2>4 DEF Fail
    <3> HIDE DEF s
    <3> QED
      BY <2>1, <3>1, <3>2
  <2>5. ASSUME NEW d \in DEFERRALS, Defer(w, d)
        PROVE  FALSE
    <3> DEFINE s == [row[wk[w].job] EXCEPT !.status = "pending",
                       !.attempts = 0, !.wait = d, !.lease = 0]
    <3>1. s.status # "running"
      BY <2>2, <2>5 DEF Defer, Outcome, Row
    <3>2. Outcome(w, s)
      BY <2>5 DEF Defer
    <3> HIDE DEF s
    <3> QED
      BY <2>1, <3>1, <3>2
  <2> QED
    BY <2>3, <2>4, <2>5
<1>9. \A dead \in SUBSET Jobs : ~ Purge(dead)
  BY DEF Purge, Absent
<1>10. ~ Tick
  BY <1>1, AgedFacts DEF Tick
<1>11. ~ (row' = row)
  OBVIOUS
<1>12. \A w \in Workers, i \in Jobs, o \in Tokens : Take(w, i, o) => i = j
  BY <1>2, <1>3, TakeFacts DEF SweptRows
<1> QED
  BY <1>4, <1>5, <1>6, <1>7, <1>8, <1>9, <1>10, <1>11, <1>12
     DEF Next, vars, EnqueueRead, ClaimBegin, ClaimAbort, LoseBeat, Crash,
         SetPaused, SetConcurrency

\* However slow a claim, no collect or AI job starts later than one lock
\* timeout into a pause (tasks.py:54-55).
THEOREM PauseIsPrompt == Spec => PauseTakesEffect
<1> DEFINE Effect ==
      \A j \in Jobs :
        /\ Queue[j] \in Pausable
        /\ row[j].status # "running" /\ row'[j].status = "running"
        => ~ paused \/ pausedFor <= LOCK_TIMEOUT
<1>1. IInv /\ [Next]_vars => Effect
  <2> SUFFICES ASSUME IInv, [Next]_vars, NEW j \in Jobs, Queue[j] \in Pausable,
                      row[j].status # "running", row'[j].status = "running", paused
               PROVE  pausedFor <= LOCK_TIMEOUT
    OBVIOUS
  <2>1. PICK w \in Workers, o \in Tokens : Take(w, j, o)
    BY OnlyTakeStarts
  <2>2. wk[w].pc = "claiming" /\ Serves[w] = Queue[j]
    BY <2>1 DEF Take, Foremost, Ready
  <2>3. pausedFor <= wk[w].lag /\ wk[w].lag <= LOCK_TIMEOUT
    BY <2>2 DEF IInv, PauseSeen, WorkerShape
  <2>4. wk[w].lag \in Nat
    BY DEF IInv, TypeOK, Worker
  <2>5. pausedFor \in Nat
    BY NumberAssumption DEF IInv, TypeOK
  <2> QED
    BY <2>3, <2>4, <2>5, NumberAssumption
<1> QED
  BY <1>1, Invariance, PTL DEF Spec, PauseTakesEffect

\* Every running row that survives the sweep of a claim is counted by it, except those
\* whose lease ends on the instant it captured.
LEMMA TakeWithinLimit ==
  ASSUME IInv, NEW q \in {"ai", "collect"}, NEW limit \in Nat,
         limit = (IF q = "ai" THEN concurrency ELSE COLLECT_LIMIT),
         NEW w \in Workers, NEW j \in Jobs, NEW o \in Tokens, Take(w, j, o),
         Queue[j] = q
  PROVE  Cardinality(Running(row', q) \ Tied(wk[w].lag)) <= limit
<1> DEFINE lag == wk[w].lag
           rows == SweptRows(lag)
           live == LiveJobs(rows, q, lag)
           counted == Running(row', q) \ Tied(lag)
<1>1. lag \in Nat /\ Serves[w] = q
  BY DEF Take, Foremost, Ready, IInv, TypeOK, Worker
<1>2. live \subseteq Jobs /\ IsFiniteSet(live) /\ Cardinality(live) \in Nat
  <2>1. live \subseteq Jobs
    BY DEF LiveJobs
  <2>2. IsFiniteSet(live)
    BY <2>1, FS_Subset, QueueAssumption
  <2> QED
    BY <2>1, <2>2, FS_CardinalityType
<1>3. Cardinality(live) < limit
  <2>1. ~ AtLimit(rows, q, lag)
    BY <1>1 DEF Take
  <2>2. ~ (Cardinality(live) >= limit)
    BY <2>1 DEF AtLimit
  <2> QED
    BY <1>2, <2>2
<1>4. counted \subseteq live \cup {j}
  <2> SUFFICES ASSUME NEW k \in Jobs, Queue[k] = q, row'[k].status = "running", k # j,
                      k \notin Tied(lag)
               PROVE  Live(rows[k], lag)
    BY DEF Running, LiveJobs
  <2>1. row[k] \in Row /\ row[k].lease \in Int
    BY DEF IInv, TypeOK, Row
  <2>2. rows[k].status = "running" /\ rows[k] = Swept(row[k], lag)
    BY TakeFacts DEF SweptRows
  <2>3. rows[k] = row[k]
    BY <1>1, <2>1, <2>2, SweptFacts
  <2>4. ~ Expired(row[k], lag)
    BY <2>2, <2>3, NumberAssumption DEF Swept, Expired
  <2>5. row[k].lease + lag # 0
    BY <2>2, <2>3 DEF Tied
  <2> QED
    BY <1>1, <2>1, <2>2, <2>3, <2>4, <2>5 DEF Live, Expired
<1> HIDE DEF live, counted
<1>5. /\ IsFiniteSet(live \cup {j}) /\ Cardinality(live \cup {j}) <= Cardinality(live) + 1
      /\ Cardinality(live \cup {j}) \in Nat
  <2>1. /\ IsFiniteSet(live \cup {j})
        /\ Cardinality(live \cup {j})
             = IF j \in live THEN Cardinality(live) ELSE Cardinality(live) + 1
    BY <1>2, FS_AddElement
  <2> QED
    BY <1>2, <2>1
<1>6. Cardinality(counted) <= Cardinality(live \cup {j}) /\ Cardinality(counted) \in Nat
  BY <1>4, <1>5, FS_Subset, FS_CardinalityType
<1>7. Cardinality(counted) <= limit
  BY <1>2, <1>3, <1>5, <1>6
<1> QED
  BY <1>7 DEF counted

\* The number of running rows of a limited queue grows only by a claim that counted
\* no more than the limit in force, but for leases that end on its very instant,
\* whatever leases expire and are revived meanwhile (tasks.py:56-67).
THEOREM LimitsHold == Spec => GrowthWithinLimit
<1> DEFINE Limit(q) == IF q = "ai" THEN concurrency ELSE COLLECT_LIMIT
           Within(q) ==
             Cardinality(Running(row', q)) > Cardinality(Running(row, q)) =>
               \E w \in Workers :
                 /\ wk[w].pc = "claiming" /\ wk'[w].pc = "executing"
                 /\ Cardinality(Running(row', q) \ Tied(wk[w].lag)) <= Limit(q)
<1>1. ASSUME IInv, [Next]_vars, NEW q \in {"ai", "collect"}
      PROVE  Within(q)
  <2>1. IsFiniteSet(Running(row, q)) /\ IsFiniteSet(Running(row', q))
    BY FS_Subset, QueueAssumption DEF Running
  <2>2. /\ Cardinality(Running(row, q)) \in Nat
        /\ Cardinality(Running(row', q)) \in Nat
    BY <2>1, FS_CardinalityType
  <2>3. CASE Running(row', q) \subseteq Running(row, q)
    BY <2>1, <2>2, <2>3, FS_Subset
  <2>4. CASE ~ (Running(row', q) \subseteq Running(row, q))
    <3>1. PICK j \in Jobs : /\ Queue[j] = q /\ row'[j].status = "running"
                            /\ row[j].status # "running"
      BY <2>4 DEF Running
    <3>2. PICK w \in Workers, o \in Tokens : Take(w, j, o)
      BY <1>1, <3>1, OnlyTakeStarts
    <3>3. wk[w].pc = "claiming" /\ wk'[w].pc = "executing"
      BY <1>1, <3>2 DEF Take, IInv, TypeOK
    <3>4. Limit(q) \in Nat
      <4>1. concurrency \in 1 .. MAX_CONCURRENCY
        BY <1>1 DEF IInv, TypeOK
      <4> QED
        BY <4>1, NumberAssumption
    <3>5. Cardinality(Running(row', q) \ Tied(wk[w].lag)) <= Limit(q)
      BY <1>1, <3>1, <3>2, <3>4, TakeWithinLimit
    <3> QED
      BY <3>3, <3>5
  <2> QED
    BY <2>3, <2>4
<1>2. IInv /\ [Next]_vars => \A q \in {"ai", "collect"} : Within(q)
  BY <1>1
<1> QED
  BY <1>2, Invariance, PTL DEF Spec, GrowthWithinLimit

-----------------------------------------------------------------------------
(* The refinement of JobLifecycle: what happens to one key in each step. *)

\* The claim on this key has a heartbeat on schedule.
Shelter(j) == \E w \in Workers : wk[w].beating /\ wk[w].job = j

\* A step that changes neither status nor owner of a row, and starts no
\* heartbeat, is no event of the lifecycle or the loss of the heartbeat.
LEMMA KeptMove ==
  ASSUME NEW j \in Jobs, row'[j].status = row[j].status, row'[j].owner = row[j].owner,
         Shelter(j)' => Shelter(j)
  PROVE  Lifecycle!Move(j)
<1>1. CASE Shelter(j) /\ ~ Shelter(j)'
  BY <1>1 DEF Lifecycle!Move, Lifecycle!Expose, Lifecycle!Becomes, Shelter
<1>2. CASE Shelter(j)' <=> Shelter(j)
  BY <1>2 DEF Lifecycle!Move, Lifecycle!Stay, Lifecycle!Becomes, Shelter
<1> QED
  BY <1>1, <1>2

\* The heartbeats that remain after a step other than a claim ran before it.
LEMMA ShelterShrinks ==
  ASSUME \A w \in Workers : wk'[w].beating => wk[w].beating /\ wk'[w].job = wk[w].job,
         NEW j
  PROVE  Shelter(j)' => Shelter(j)
  BY DEF Shelter

\* A row that does not run has no heartbeat.
LEMMA ShelterRuns ==
  ASSUME IInv, NEW j \in Jobs, Shelter(j)
  PROVE  row[j].status = "running" /\ row[j].lease > LOCK_TIMEOUT
  BY BeatingLease DEF Shelter, IInv

\* The same after a step that keeps the invariant.
LEMMA ShelterRunsNext ==
  ASSUME IInv', NEW j \in Jobs, Shelter(j)'
  PROVE  row'[j].status = "running"
  BY DEF Shelter, IInv, BeatKeepsLease

\* A sweep keeps the row, or withdraws a claim whose heartbeat was lost
\* (tasks.py:49-53).
LEMMA SweptMove ==
  ASSUME IInv, IInv', NEW j \in Jobs, NEW lag \in Nat, lag <= LOCK_TIMEOUT,
         row'[j] = Swept(row[j], lag), Shelter(j)' => Shelter(j)
  PROVE  Lifecycle!Move(j)
<1>1. row[j] \in Row /\ row[j].lease \in Int
  BY DEF IInv, TypeOK, Row
<1>2. CASE row'[j] = row[j]
  BY <1>2, KeptMove
<1>3. CASE row'[j] # row[j]
  <2>1. /\ row[j].status = "running" /\ row[j].lease + lag < 0
        /\ \/ row'[j].status = "failed" /\ row'[j].owner = row[j].owner
           \/ row'[j].status = "pending" /\ row'[j].owner = NoToken
    BY <1>1, <1>3, SweptFacts
  <2>2. ~ (row[j].lease > LOCK_TIMEOUT)
    BY <1>1, <2>1, NumberAssumption
  <2>3. ~ Shelter(j)
    BY <2>2, ShelterRuns
  <2>4. ~ Shelter(j)'
    BY <2>3
  <2> QED
    BY <2>1, <2>3, <2>4
       DEF Lifecycle!Move, Lifecycle!Withdraw, Lifecycle!Becomes, Shelter
<1> QED
  BY <1>2, <1>3

\* A claim starts a waiting job, or withdraws an expired claim and makes a new
\* one in the same transaction; what else it sweeps is withdrawn (tasks.py:46-80).
LEMMA TakeMove ==
  ASSUME IInv, IInv', NEW w \in Workers, NEW i \in Jobs, NEW o \in Tokens,
         Take(w, i, o), NEW j \in Jobs
  PROVE  Lifecycle!Move(j)
<1> DEFINE v == [pc |-> "executing", lag |-> 0, job |-> i, token |-> o,
                 attempts |-> row[i].attempts + 1, beating |-> TRUE, beat |-> BEAT]
<1>1. /\ wk[w].pc = "claiming" /\ wk[w].lag \in Nat /\ wk[w].lag <= LOCK_TIMEOUT
      /\ ~ InUse(o) /\ SweptRows(wk[w].lag)[i].status = "pending"
      /\ \A k \in Jobs \ {i} : row'[k] = SweptRows(wk[w].lag)[k]
      /\ row'[i].status = "running" /\ row'[i].owner = o
      /\ wk' = [wk EXCEPT ![w] = v]
  BY TakeFacts
<1>2. /\ v.job = i /\ v.beating = TRUE
      /\ wk'[w] = v /\ \A u \in Workers \ {w} : wk'[u] = wk[u]
  BY <1>1 DEF IInv, TypeOK
<1> HIDE DEF v
<1>3. CASE j = i
  <2>1. Shelter(j)'
    BY <1>2, <1>3 DEF Shelter
  <2>2. \A k \in Jobs : row[k].owner # o
    BY <1>1 DEF InUse
  <2>3. \/ row[j].status = "pending"
        \/ row[j].status = "running" /\ ~ Shelter(j)
    <3>1. row[j] \in Row /\ row[j].lease \in Int
      BY DEF IInv, TypeOK, Row
    <3>2. SweptRows(wk[w].lag)[i] = Swept(row[j], wk[w].lag)
      BY <1>3 DEF SweptRows
    <3>3. \/ row[j].status = "pending"
          \/ row[j].status = "running" /\ row[j].lease + wk[w].lag < 0
      BY <1>1, <3>1, <3>2, SweptFacts
    <3>4. row[j].lease + wk[w].lag < 0 => ~ (row[j].lease > LOCK_TIMEOUT)
      BY <1>1, <3>1, NumberAssumption
    <3> QED
      BY <3>3, <3>4, ShelterRuns
  <2>4. Lifecycle!NewClaim(j)
    BY <1>1, <1>3, <2>1, <2>2 DEF Lifecycle!NewClaim, Lifecycle!Becomes, Shelter
  <2>5. CASE row[j].status = "pending"
    BY <2>4, <2>5 DEF Lifecycle!Move, Lifecycle!Start
  <2>6. CASE row[j].status = "running" /\ ~ Shelter(j)
    BY <2>4, <2>6 DEF Lifecycle!Move, Lifecycle!Withdraw, Shelter
  <2> QED
    BY <2>3, <2>5, <2>6
<1>4. CASE j # i
  <2>1. Shelter(j)' => Shelter(j)
    BY <1>2, <1>4 DEF Shelter
  <2>2. row'[j] = Swept(row[j], wk[w].lag)
    BY <1>1, <1>4 DEF SweptRows
  <2> QED
    BY <1>1, <2>1, <2>2, SweptMove
<1> QED
  BY <1>3, <1>4

\* The UPDATE of enqueue() reopens a completed enrichment or changes no status
\* and no owner (tasks.py:31-41).
LEMMA EnqueueMove ==
  ASSUME IInv, IInv', NEW p \in Producers, EnqueueWrite(p), NEW j \in Jobs
  PROVE  Lifecycle!Move(j)
<1> DEFINE q == req[p]
<1>1. /\ q \in Request /\ row[j] \in Row /\ q.job # NoJob
      /\ q.seen = "pending" \/ (q.seen = "completed" /\ q.job \in Enrichable)
  BY DEF EnqueueWrite, IInv, TypeOK, RequestShape
<1>2. Shelter(j)' => Shelter(j)
  BY DEF EnqueueWrite, Shelter
<1>3. \/ row'[j] = row[j]
      \/ row[j].status = q.seen /\ j = q.job /\ q.seen = "completed"
           /\ row'[j] = Reopened(row[j], q)
      \/ row'[j] = Promoted(row[j], q)
  BY DEF EnqueueWrite, IInv, TypeOK
<1>4. CASE row'[j] = row[j]
  BY <1>2, <1>4, KeptMove
<1>5. CASE row'[j] = Promoted(row[j], q)
  <2>1. row'[j].status = row[j].status /\ row'[j].owner = row[j].owner
    BY <1>1, <1>5 DEF Promoted, Row
  <2> QED
    BY <1>2, <2>1, KeptMove
<1>6. CASE row[j].status = q.seen /\ j = q.job /\ q.seen = "completed"
             /\ row'[j] = Reopened(row[j], q)
  <2>1. row'[j].status = "pending" /\ row'[j].owner = row[j].owner
    BY <1>1, <1>6 DEF Reopened, Row
  <2>2. ~ Shelter(j)'
    BY <2>1, ShelterRunsNext
  <2> QED
    BY <1>1, <1>6, <2>1, <2>2
       DEF Lifecycle!Move, Lifecycle!Reopen, Lifecycle!Becomes, Shelter
<1> QED
  BY <1>3, <1>4, <1>5, <1>6

\* Each of the three outcomes ends the attempt under the claim of the row.
LEMMA OutcomeRows ==
  ASSUME IInv, NEW w \in Workers,
         Succeed(w) \/ Fail(w) \/ \E d \in DEFERRALS : Defer(w, d)
  PROVE  \E s : /\ Outcome(w, s) /\ s.owner = row[wk[w].job].owner
                /\ s.status \in {"pending", "completed", "failed"}
<1> DEFINE r == row[wk[w].job]
<1>1. r \in Row
  BY DEF Succeed, Fail, Defer, Outcome, IInv, TypeOK, WorkerShape
<1>2. CASE Succeed(w)
  <2> DEFINE s == [r EXCEPT !.status = "completed", !.lease = 0]
  <2>1. s.status = "completed" /\ s.owner = r.owner
    BY <1>1 DEF Row
  <2>2. Outcome(w, s)
    BY <1>2 DEF Succeed
  <2> HIDE DEF s
  <2> QED
    BY <2>1, <2>2
<1>3. CASE Fail(w)
  <2> DEFINE s == [r EXCEPT
                     !.status = IF wk[w].attempts >= MAX_ATTEMPTS
                                THEN "failed" ELSE "pending",
                     !.wait = BACKOFF[wk[w].attempts], !.lease = 0]
  <2>1. s.status \in {"failed", "pending"} /\ s.owner = r.owner
    BY <1>1 DEF Row
  <2>2. Outcome(w, s)
    BY <1>3 DEF Fail
  <2> HIDE DEF s
  <2> QED
    BY <2>1, <2>2
<1>4. ASSUME NEW d \in DEFERRALS, Defer(w, d)
      PROVE  \E s : /\ Outcome(w, s) /\ s.owner = row[wk[w].job].owner
                    /\ s.status \in {"pending", "completed", "failed"}
  <2> DEFINE s == [r EXCEPT !.status = "pending", !.attempts = 0, !.wait = d,
                            !.lease = 0]
  <2>1. s.status = "pending" /\ s.owner = r.owner
    BY <1>1 DEF Row
  <2>2. Outcome(w, s)
    BY <1>4 DEF Defer
  <2> HIDE DEF s
  <2> QED
    BY <2>1, <2>2
<1> QED
  BY <1>2, <1>3, <1>4

\* An outcome counts only under the claim that is still on the row: it is the
\* report of the running attempt, or the late one of an attempt given up
\* (tasks.py:125-153).
LEMMA FinishMove ==
  ASSUME IInv, IInv', NEW w \in Workers,
         Succeed(w) \/ Fail(w) \/ \E d \in DEFERRALS : Defer(w, d),
         NEW j \in Jobs
  PROVE  Lifecycle!Move(j)
<1>1. PICK s : /\ Outcome(w, s) /\ s.owner = row[wk[w].job].owner
               /\ s.status \in {"pending", "completed", "failed"}
  BY OutcomeRows
<1>2. /\ wk[w].pc = "executing" /\ wk[w].job \in Jobs
      /\ \A k \in Jobs : \/ row'[k] = row[k]
                         \/ k = wk[w].job /\ Holds(w) /\ row'[k] = s
  <2>1. wk[w].pc = "executing" /\ wk[w].job \in Jobs
    BY <1>1 DEF Outcome, IInv, WorkerShape
  <2>2. \/ row' = row
        \/ Holds(w) /\ row' = [row EXCEPT ![wk[w].job] = s]
    BY <1>1 DEF Outcome
  <2>3. \A k \in Jobs : \/ row'[k] = row[k]
                        \/ k = wk[w].job /\ Holds(w) /\ row'[k] = s
    <3>1. row \in [Jobs -> Row]
      BY DEF IInv, TypeOK
    <3>2. CASE row' = row
      BY <3>2
    <3>3. CASE Holds(w) /\ row' = [row EXCEPT ![wk[w].job] = s]
      BY <3>1, <3>3
    <3> QED
      BY <2>2, <3>2, <3>3
  <2> QED
    BY <2>1, <2>3
<1>3. Shelter(j)' => Shelter(j)
  <2>1. \A u \in Workers : wk'[u] \in {wk[u], Idle}
    BY <1>1 DEF Outcome, IInv, TypeOK
  <2> QED
    BY <2>1 DEF Idle, Shelter
<1>4. CASE row'[j] = row[j]
  BY <1>3, <1>4, KeptMove
<1>5. CASE j = wk[w].job /\ Holds(w) /\ row'[j] = s
  <2>1. row[j].status \in {"running", "failed"}
    BY <1>2, <1>5 DEF IInv, ClaimMatches, Holds
  <2>2. ~ Shelter(j)' /\ row'[j].owner = row[j].owner
    BY <1>1, <1>5, ShelterRunsNext
  <2>3. CASE row[j].status = "running"
    BY <1>1, <1>5, <2>2, <2>3
       DEF Lifecycle!Move, Lifecycle!Report, Lifecycle!Becomes, Shelter
  <2>4. CASE row[j].status = "failed" /\ s.status \in {"pending", "completed"}
    BY <1>5, <2>2, <2>4
       DEF Lifecycle!Move, Lifecycle!LateReport, Lifecycle!Becomes, Shelter
  <2>5. CASE row[j].status = "failed" /\ s.status = "failed"
    BY <1>3, <1>5, <2>2, <2>5, KeptMove
  <2> QED
    BY <1>1, <2>1, <2>3, <2>4, <2>5
<1> QED
  BY <1>2, <1>4, <1>5

\* The steps of claims, heartbeats and processes that touch neither the status
\* nor the owner of any row.
LEMMA QuietMove ==
  ASSUME IInv, NEW w \in Workers, NEW j \in Jobs,
         \/ ClaimBegin(w) \/ ClaimAbort(w) \/ Crash(w)
         \/ Beat(w) \/ LoseBeat(w) \/ LateBeat(w)
  PROVE  Lifecycle!Move(j)
<1>1. wk \in [Workers -> Worker] /\ row \in [Jobs -> Row]
  BY DEF IInv, TypeOK
<1>2. \A u \in Workers : wk'[u].beating => wk[u].beating /\ wk'[u].job = wk[u].job
  <2>1. \A u \in Workers \ {w} : wk'[u] = wk[u]
    BY <1>1 DEF ClaimBegin, ClaimAbort, Crash, Beat, LoseBeat, LateBeat
  <2>2. wk'[w].beating => wk[w].beating /\ wk'[w].job = wk[w].job
    BY <1>1 DEF ClaimBegin, ClaimAbort, Crash, Beat, LoseBeat, LateBeat, Idle, Worker
  <2> QED
    BY <2>1, <2>2
<1>3. row'[j].status = row[j].status /\ row'[j].owner = row[j].owner
  <2>1. CASE row' = row
    BY <2>1
  <2>2. CASE Beat(w) \/ LateBeat(w)
    <3>1. Renew(w)
      BY <2>2 DEF Beat, LateBeat
    <3>2. \/ row'[j] = row[j]
          \/ row'[j] = [row[j] EXCEPT !.lease = LEASE]
      BY <1>1, <3>1 DEF Renew
    <3> QED
      BY <1>1, <3>2 DEF Row
  <2> QED
    BY <2>1, <2>2 DEF ClaimBegin, ClaimAbort, Crash, LoseBeat
<1> QED
  BY <1>2, <1>3, ShelterShrinks, KeptMove

\* Every step of the queue is, for every key, an event of the lifecycle: one
\* case for each action of Next.
LEMMA NextMove ==
  ASSUME IInv, [Next]_vars, NEW j \in Jobs
  PROVE  Lifecycle!Move(j)
<1>0. IInv'
  BY NextIInv
<1>1. row \in [Jobs -> Row] /\ wk \in [Workers -> Worker]
  BY DEF IInv, TypeOK
<1>2. \A w \in Workers : wk[w].lag \in Nat /\ wk[w].lag <= LOCK_TIMEOUT
  BY DEF IInv, TypeOK, Worker, WorkerShape
<1>3. CASE row' = row /\ wk' = wk
  BY <1>3, KeptMove DEF Shelter
<1>4. ASSUME NEW i \in Jobs, NEW prio \in Priorities, Create(i, prio)
      PROVE  Lifecycle!Move(j)
  <2>1. Shelter(j)' => Shelter(j)
    BY <1>4 DEF Create, Shelter
  <2>2. CASE j # i
    BY <1>1, <1>4, <2>1, <2>2, KeptMove DEF Create
  <2>3. CASE j = i
    <3>1. /\ row[j].status = "absent" /\ row'[j].status = "pending"
          /\ row'[j].owner = NoToken
      BY <1>1, <1>4, <2>3 DEF Create, Absent
    <3>2. ~ Shelter(j)'
      BY <1>0, <3>1, ShelterRunsNext
    <3> QED
      BY <3>1, <3>2 DEF Lifecycle!Move, Lifecycle!Submit, Lifecycle!Becomes, Shelter
  <2> QED
    BY <2>2, <2>3
<1>5. CASE \E p \in Producers : EnqueueWrite(p)
  BY <1>0, <1>5, EnqueueMove
<1>6. ASSUME NEW w \in Workers, PausedPoll(w) \/ ClaimNothing(w)
      PROVE  Lifecycle!Move(j)
  <2>1. \E lag \in Nat : lag <= LOCK_TIMEOUT /\ row'[j] = Swept(row[j], lag)
    BY <1>2, <1>6, NumberAssumption DEF PausedPoll, ClaimNothing, SweptRows
  <2>2. Shelter(j)' => Shelter(j)
    <3>1. \A u \in Workers : wk'[u] \in {wk[u], Idle}
      BY <1>1, <1>6 DEF PausedPoll, ClaimNothing
    <3> QED
      BY <3>1 DEF Idle, Shelter
  <2> QED
    BY <1>0, <2>1, <2>2, SweptMove
<1>7. CASE \E w \in Workers, i \in Jobs, o \in Tokens : Take(w, i, o)
  BY <1>0, <1>7, TakeMove
<1>8. CASE \E w \in Workers : \/ ClaimBegin(w) \/ ClaimAbort(w) \/ Crash(w)
                              \/ Beat(w) \/ LoseBeat(w) \/ LateBeat(w)
  BY <1>8, QuietMove
<1>9. CASE \/ \E w \in Workers : Succeed(w)
           \/ \E w \in Workers : Fail(w)
           \/ \E w \in Workers, d \in DEFERRALS : Defer(w, d)
  BY <1>0, <1>9, FinishMove
<1>10. ASSUME NEW dead \in SUBSET Jobs, Purge(dead)
       PROVE  Lifecycle!Move(j)
  <2>1. Shelter(j)' => Shelter(j)
    BY <1>10 DEF Purge, Shelter
  <2>2. CASE j \notin dead
    BY <1>10, <2>1, <2>2, KeptMove DEF Purge
  <2>3. CASE j \in dead
    <3>1. /\ row[j].status \in {"completed", "failed"} /\ row'[j].status = "absent"
          /\ row'[j].owner = NoToken
      BY <1>10, <2>3 DEF Purge, Absent
    <3>2. ~ Shelter(j)'
      BY <1>0, <3>1, ShelterRunsNext
    <3> QED
      BY <3>1, <3>2 DEF Lifecycle!Move, Lifecycle!Forget, Lifecycle!Becomes, Shelter
  <2> QED
    BY <2>2, <2>3
<1>11. CASE Tick
  <2>1. row'[j].status = row[j].status /\ row'[j].owner = row[j].owner
    BY <1>1, <1>11, AgedFacts DEF Tick
  <2>2. \A w \in Workers : wk'[w].beating = wk[w].beating /\ wk'[w].job = wk[w].job
    BY <1>1, <1>11 DEF Tick, Worker
  <2> QED
    BY <2>1, <2>2, ShelterShrinks, KeptMove
<1> QED
  BY <1>3, <1>4, <1>5, <1>6, <1>7, <1>8, <1>9, <1>10, <1>11
     DEF Next, vars, EnqueueRead, SetPaused, SetConcurrency

\* A late answer of a superseded execution, a sweep or a failure never takes
\* back the result of a completed job (tasks.py:31-41, 49-53, 125-153).
THEOREM ResultStands == Spec => CompletedStands
<1> DEFINE Stands ==
      \A j \in Jobs :
        row[j].status = "completed" =>
          \/ row'[j].status = "completed"
          \/ row'[j].status = "absent"
          \/ row'[j].status = "pending" /\ j \in Enrichable
<1>1. IInv /\ [Next]_vars => Stands
  <2> SUFFICES ASSUME IInv, [Next]_vars, NEW j \in Jobs, row[j].status = "completed"
               PROVE  \/ row'[j].status \in {"completed", "absent"}
                      \/ row'[j].status = "pending" /\ j \in Enrichable
    OBVIOUS
  <2>1. Lifecycle!Move(j)
    BY NextMove
  <2> QED
    BY <2>1 DEF Lifecycle!Move, Lifecycle!Stay, Lifecycle!Submit, Lifecycle!Start,
       Lifecycle!Expose, Lifecycle!Report, Lifecycle!Withdraw, Lifecycle!LateReport,
       Lifecycle!Reopen, Lifecycle!Forget, Lifecycle!Becomes
<1> QED
  BY <1>1, Invariance, PTL DEF Spec, CompletedStands

\* The queue keeps its promise to the rest of the program: with its clock,
\* leases, priorities, limits and processes hidden, every key goes through the
\* lifecycle of JobLifecycle and nothing else (app/core/tasks.py:14-153).
THEOREM QueueImplementsLifecycle == Spec => ImplementsLifecycle
<1>1. Init => Lifecycle!Init
  BY DEF Init, Lifecycle!Init, Absent, Idle
<1>2. IInv /\ [Next]_vars => [Lifecycle!Next]_(Lifecycle!lvars)
  <2> SUFFICES ASSUME IInv, [Next]_vars PROVE Lifecycle!Next
    OBVIOUS
  <2>1. \A j \in Jobs : Lifecycle!Move(j)
    BY NextMove
  <2> QED
    BY <2>1 DEF Lifecycle!Next
<1> QED
  BY <1>1, <1>2, Invariance, PTL DEF Spec, ImplementsLifecycle, Lifecycle!Spec

=============================================================================
