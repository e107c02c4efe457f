-------------------------- MODULE EnrichmentProofs --------------------------
(***************************************************************************)
(* The inductive invariant of Enrichment and its theorems, for any         *)
(* articles and versions, any number of workers and of jobs per version,   *)
(* and any provider.                                                       *)
(***************************************************************************)
EXTENDS Enrichment, TLAPS

-----------------------------------------------------------------------------
(* The inductive invariant. *)

\* A job that waits has an attempt left.
Attempts ==
  \A j \in Keys \X Versions : job[j].status = "pending" => job[j].attempts < MAX_ATTEMPTS

\* Executions of one version that meet are recorded.
Met ==
  \A x, y \in Workers :
    x # y /\ ex[x].pc # "idle" /\ ex[y].pc # "idle" /\ ex[x].version = ex[y].version
      => ex[x].version \in twins

\* A lone execution does not ask for what was answered.
Answered ==
  \A v \in answered \ twins :
    /\ gen[v].status = "completed"
    /\ \A x \in Workers : ex[x].version = v => ex[x].pc # "asking"

\* Whoever has a text of a version has a usable one, or nobody has: the article's
\* own, one of the provider's, or none for a hopeless article.
Usable(v, text) ==
  IF v \in Chinese THEN text = Own
  ELSE IF ArticleOf(v) \in Hopeless THEN text = Empty ELSE text \in Outputs

Consistent ==
  /\ \A x \in Workers :
       /\ ex[x].pc = "asking" => ex[x].version \notin Chinese
       /\ ex[x].pc \in {"saving", "filling"} => Usable(ex[x].version, ex[x].text)
  /\ \A v \in Versions :
       /\ gen[v].status = "completed" => Usable(v, gen[v].output)
       /\ zh[v] # Empty => Usable(v, zh[v])

\* An item without a text, drafted or printed, whose version has one will be filled,
\* or is known to be left out.
Pending ==
  \A v \in Versions :
    item[v].state # "none" /\ item[v].zh = Empty /\ zh[v] # Empty
      => \/ v \in missed
         \/ \E x \in Workers : ex[x].pc = "filling" /\ ex[x].version = v

\* An execution that is about to write the index has the current version.
Indexing ==
  \A x \in Workers :
    ex[x].pc = "indexing" /\ ArticleOf(ex[x].version) \notin raced => OnTop(ex[x].version)

IInv ==
  TypeOK /\ Attempts /\ Met /\ Answered /\ Consistent /\ Pending /\ Indexing /\ IndexFollows

-----------------------------------------------------------------------------
(* What the operators on records return. *)

Waiting == [NoJob EXCEPT !.status = "pending"]
Completed == [NoJob EXCEPT !.status = "completed"]

\* A job has at least one attempt.
LEMMA AnAttempt == MAX_ATTEMPTS \in Nat /\ 0 < MAX_ATTEMPTS
<1>1. MAX_ATTEMPTS \in Nat \ {0}
  BY EnrichmentAssumption
<1> QED
  BY <1>1

\* The blank records, and those of a waiting and of a completed job, are typed.
LEMMA Records ==
  /\ Idle \in Execution /\ Idle.pc = "idle"
  /\ NoJob \in Job /\ NoJob.status = "absent" /\ NoJob.attempts = 0
  /\ Waiting \in Job /\ Waiting.attempts = 0
  /\ Completed \in Job /\ Completed.status = "completed"
<1>1. PICK a \in Articles : <<a, 1>> \in Versions
  BY EnrichmentAssumption DEF Versions
<1>2. Idle \in Execution /\ Idle.pc = "idle"
  <2>1. (CHOOSE k \in Keys : TRUE) \in Keys
    BY EnrichmentAssumption
  <2>2. (CHOOSE v \in Versions : TRUE) \in Versions
    BY <1>1
  <2>3. Empty \in Texts
    BY DEF Texts
  <2> QED
    BY <2>1, <2>2, <2>3 DEF Idle, Execution
<1>3. NoJob \in Job /\ NoJob.status = "absent" /\ NoJob.attempts = 0
  BY EnrichmentAssumption DEF NoJob, Job
<1> QED
  BY <1>2, <1>3 DEF Job, Waiting, Completed

\* A version is an article and a number.
LEMMA VersionParts ==
  ASSUME NEW v \in Versions
  PROVE  ArticleOf(v) \in Articles /\ v[2] \in 1 .. MAX_VERSION /\ v = <<ArticleOf(v), v[2]>>
<1> QED
  BY DEF Versions, ArticleOf

\* Every article has a current version, which is one of its own.
LEMMA CurrentVersion ==
  ASSUME TypeOK, NEW a \in Articles
  PROVE  Current(a) \in Versions /\ ArticleOf(Current(a)) = a
<1> QED
  BY DEF TypeOK, Current, Versions, ArticleOf

\* A fill writes a text that was missing, and none that was there.
LEMMA FilledItem ==
  ASSUME NEW i \in Item, NEW v, NEW text \in Texts
  PROVE  /\ Filled(i, v, text) \in Item /\ Filled(i, v, text).state = i.state
         /\ i.zh # Empty => Filled(i, v, text).zh = i.zh
         /\ i.state = "printed" /\ i.zh = Empty => Filled(i, v, text).zh = text
<1> QED
  BY DEF Filled, Item

\* A job that is asked for has all its attempts.
LEMMA EnqueuedJobs ==
  ASSUME IInv, NEW Asked, EnqueueAll(Asked)
  PROVE  (job \in [Keys \X Versions -> Job] /\ Attempts)'
<1>1. ASSUME NEW j \in Keys \X Versions
      PROVE  job'[j] \in Job /\ (job'[j].status = "pending" => job'[j].attempts < MAX_ATTEMPTS)
  <2>1. /\ job[j] \in Job
        /\ job[j].status = "pending" => job[j].attempts < MAX_ATTEMPTS
    BY DEF IInv, TypeOK, Attempts
  <2>2. job'[j] = job[j] \/ job'[j] = Waiting
    BY DEF EnqueueAll, Enqueued, Waiting
  <2> QED
    BY <2>1, <2>2, Records, AnAttempt
<1> QED
  BY <1>1 DEF EnqueueAll, Attempts

\* One job changes to row.
LEMMA ChangedJob ==
  ASSUME IInv, NEW j \in Keys \X Versions, NEW row \in Job,
         row.status = "pending" => row.attempts < MAX_ATTEMPTS,
         job' = [job EXCEPT ![j] = row]
  PROVE  (job \in [Keys \X Versions -> Job] /\ Attempts)'
<1> QED
  BY DEF IInv, TypeOK, Attempts

-----------------------------------------------------------------------------
(* The actions. *)

\* Nothing was asked, answered or printed.
LEMMA Starts == Init => IInv
<1> SUFFICES ASSUME Init PROVE IInv
  OBVIOUS
<1>1. TypeOK
  <2>1. Empty \in Texts /\ 1 \in 1 .. MAX_VERSION /\ 0 \in 0 .. MAX_TROUBLES
    BY EnrichmentAssumption DEF Texts
  <2> QED
    BY <2>1, Records DEF Init, TypeOK, Item, Generation
<1>2. Attempts /\ Met /\ Answered /\ Consistent
  BY Records DEF Init, Attempts, Met, Answered, Consistent
<1>3. Pending /\ Indexing /\ IndexFollows
  BY Records DEF Init, Pending, Indexing, IndexFollows
<1> QED
  BY <1>1, <1>2, <1>3 DEF IInv

\* A new version has no texts and no item; whoever was about to index the former one
\* is recorded (raced).
LEMMA NewVersionIInv ==
  ASSUME IInv, NEW a \in Articles, NewVersion(a)
  PROVE  IInv'
<1> USE DEF NewVersion
<1>1. PICK Asked : EnqueueAll(Asked)
  OBVIOUS
<1>2. (job \in [Keys \X Versions -> Job] /\ Attempts)'
  BY <1>1, EnqueuedJobs
<1>3. current' \in [Articles -> 1 .. MAX_VERSION] /\ current'[a] \in 1 .. MAX_VERSION
  BY EnrichmentAssumption DEF IInv, TypeOK
<1>4. index' \in [Articles -> [version : 1 .. MAX_VERSION, zh : Texts]]
  BY <1>3 DEF IInv, TypeOK, Texts
<1>5. TypeOK'
  BY <1>2, <1>3, <1>4 DEF IInv, TypeOK
<1>6. (Met /\ Answered /\ Consistent /\ Pending)'
  BY DEF IInv, Met, Answered, Consistent, Usable, Pending
<1>7. Indexing'
  <2> SUFFICES ASSUME NEW x \in Workers, ex[x].pc = "indexing",
                      ArticleOf(ex[x].version) \notin raced'
               PROVE  OnTop(ex[x].version)'
    BY DEF Indexing
  <2>1. ArticleOf(ex[x].version) # a /\ ArticleOf(ex[x].version) \notin raced
    OBVIOUS
  <2>2. ArticleOf(ex[x].version) \in Articles
    BY VersionParts DEF IInv, TypeOK, Execution
  <2> QED
    BY <2>1, <2>2 DEF IInv, TypeOK, Indexing, OnTop, Current
<1>8. IndexFollows'
  BY <1>3 DEF IInv, TypeOK, IndexFollows
<1> QED
  BY <1>2, <1>5, <1>6, <1>7, <1>8 DEF IInv

\* The versions that are Chinese already get their own text, in every place.
LEMMA LocaliseIInv ==
  ASSUME IInv, NEW Rows \in SUBSET Missing, Localise(Rows), NEW Asked, EnqueueAll(Asked),
         UNCHANGED <<current, gen, ex, troubles, twins, answered, raced>>
  PROVE  IInv'
<1> DEFINE Local == {v \in Rows : v \in Chinese}
<1>1. Local \subseteq Versions /\ Own \in Texts /\ Own # Empty
  BY EnrichmentAssumption DEF Missing, Texts
<1>2. (job \in [Keys \X Versions -> Job] /\ Attempts)'
  BY EnqueuedJobs
<1>3. /\ zh' = [v \in Versions |-> IF v \in Local THEN Own ELSE zh[v]]
      /\ item' = [v \in Versions |-> IF v \in Local THEN Filled(item[v], v, Own) ELSE item[v]]
      /\ index' = [a \in Articles |-> IF Current(a) \in Local
                                      THEN [version |-> current[a], zh |-> Own] ELSE index[a]]
      /\ missed' = missed \cup {v \in Local : Unfilled(v)}
  BY DEF Localise
<1> HIDE DEF Local
<1>4. item' \in [Versions -> Item]
  BY <1>1, <1>3, FilledItem DEF IInv, TypeOK
<1>5. TypeOK'
  BY <1>1, <1>2, <1>3, <1>4 DEF IInv, TypeOK
<1>6. (Met /\ Answered /\ Indexing)'
  BY DEF IInv, Met, Answered, Indexing, OnTop, Current
<1>7. Consistent'
  <2>1. \A v \in Local : v \in Chinese
    BY DEF Local
  <2> QED
    BY <1>1, <1>3, <2>1 DEF IInv, Consistent, Usable
<1>8. Pending'
  <2> SUFFICES ASSUME NEW v \in Versions, item'[v].state # "none", item'[v].zh = Empty,
                      zh'[v] # Empty
               PROVE  \/ v \in missed'
                      \/ \E x \in Workers : ex[x].pc = "filling" /\ ex[x].version = v
    BY DEF Pending
  <2>1. item[v] \in Item
    BY DEF IInv, TypeOK
  <2>2. CASE v \in Local
    <3>1. item'[v] = Filled(item[v], v, Own)
      BY <1>3, <2>2
    <3>2. item[v].state = "drafted" /\ item[v].zh = Empty
      BY <1>1, <2>1, <3>1, FilledItem DEF Item
    <3> QED
      BY <1>3, <2>2, <3>2 DEF Unfilled
  <2>3. CASE v \notin Local
    BY <1>3, <2>3 DEF IInv, Pending
  <2> QED
    BY <2>2, <2>3
<1>9. IndexFollows'
  BY <1>3 DEF IInv, IndexFollows
<1> QED
  BY <1>2, <1>5, <1>6, <1>7, <1>8, <1>9 DEF IInv

\* Jobs are added or reopened; nothing else changes.
LEMMA AskIInv ==
  ASSUME IInv, Prepare \/ \E k \in Keys : Backfill(k)
  PROVE  IInv'
<1>1. CASE Prepare
  <2>1. PICK Key \in [Articles -> Keys] : PrepareAI(Key)
    BY <1>1 DEF Prepare
  <2>2. Window(Missing) \in SUBSET Missing
    BY DEF Window
  <2> QED
    BY <2>1, <2>2, LocaliseIInv DEF PrepareAI
<1>2. CASE \E k \in Keys : Backfill(k)
  BY <1>2, LocaliseIInv DEF Backfill
<1> QED
  BY <1>1, <1>2

\* The steps that change jobs and nothing else.
LEMMA JobsOnly ==
  ASSUME IInv, (job \in [Keys \X Versions -> Job] /\ Attempts)',
         UNCHANGED <<current, shown, gen, ex, history>>, troubles' \in 0 .. MAX_TROUBLES
  PROVE  IInv'
<1> QED
  BY DEF shown, history, IInv, TypeOK, Met, Answered, Consistent, Usable, Pending, Indexing,
     OnTop, Current, IndexFollows

\* A person asks again: the job starts over.
LEMMA ManualIInv ==
  ASSUME IInv, NEW j \in Keys \X Versions, Manual(j) \/ Purge(j)
  PROVE  IInv'
<1>1. PICK row \in {Waiting, NoJob} : job' = [job EXCEPT ![j] = row]
  BY DEF Manual, Purge, Waiting
<1>2. row \in Job /\ row.attempts = 0
  BY Records
<1>3. (job \in [Keys \X Versions -> Job] /\ Attempts)'
  BY <1>1, <1>2, ChangedJob, AnAttempt
<1>4. UNCHANGED <<current, shown, gen, ex, troubles, history>>
  BY DEF Manual, Purge
<1> QED
  BY <1>3, <1>4, JobsOnly DEF IInv, TypeOK

\* A sweep withdraws a job, which starts again or fails (tasks.py:49-53).
LEMMA ExpireIInv ==
  ASSUME IInv, NEW j \in Keys \X Versions, Expire(j)
  PROVE  IInv'
<1> DEFINE old == job[j]
           row == IF GivenUp(old) THEN [old EXCEPT !.status = "failed"]
                  ELSE [old EXCEPT !.status = "pending", !.owner = Nobody]
<1>1. old \in Job /\ job' = [job EXCEPT ![j] = row]
  BY DEF IInv, TypeOK, Expire
<1>2. row \in Job /\ (row.status = "pending" => row.attempts < MAX_ATTEMPTS)
  <2> HIDE DEF old
  <2>1. CASE GivenUp(old)
    BY <1>1, <2>1 DEF Job
  <2>2. CASE ~ GivenUp(old)
    <3>1. old.attempts \in 0 .. MAX_ATTEMPTS /\ old.attempts < MAX_ATTEMPTS
      BY <1>1, <2>2, AnAttempt DEF Job, GivenUp
    <3> QED
      BY <1>1, <2>2, <3>1 DEF Job
  <2> QED
    BY <2>1, <2>2
<1>3. troubles' \in 0 .. MAX_TROUBLES
  BY EnrichmentAssumption DEF IInv, TypeOK, Expire, Trouble
<1> HIDE DEF row
<1> QED
  BY <1>1, <1>2, <1>3, ChangedJob, JobsOnly DEF Expire

\* A briefing reads the text that a version has, and prints what it read.
LEMMA DraftIInv ==
  ASSUME IInv, NEW v \in Versions, Draft(v)
  PROVE  IInv'
<1>1. item' = [item EXCEPT ![v] = [state |-> "drafted", zh |-> zh[v]]]
  BY DEF Draft
<1>2. TypeOK'
  BY <1>1 DEF Draft, history, IInv, TypeOK, Item
<1>3. Pending'
  BY <1>1 DEF Draft, history, IInv, TypeOK, Pending
<1> QED
  BY <1>2, <1>3
     DEF Draft, history, IInv, Attempts, Met, Answered, Consistent, Usable, Indexing, OnTop,
         Current, IndexFollows

\* An item is printed as it stands: with the text of its version, or without one.
LEMMA PrintItemIInv ==
  ASSUME IInv, NEW v \in Versions, PrintItem(v)
  PROVE  IInv'
<1> DEFINE Asked == IF item[v].zh = Empty THEN {<<"enrich", v>>} ELSE {}
<1>1. EnqueueAll(Asked)
  BY DEF PrintItem
<1> HIDE DEF Asked
<1>2. (job \in [Keys \X Versions -> Job] /\ Attempts)'
  BY <1>1, EnqueuedJobs
<1>3. /\ item' \in [Versions -> Item] /\ item'[v].zh = item[v].zh
      /\ item[v].state # "none" /\ \A u \in Versions \ {v} : item'[u] = item[u]
  BY DEF PrintItem, IInv, TypeOK, Item
<1>4. TypeOK'
  BY <1>2, <1>3 DEF PrintItem, history, IInv, TypeOK
<1>5. Pending'
  BY <1>3 DEF PrintItem, history, IInv, Pending
<1> QED
  BY <1>2, <1>4, <1>5
     DEF PrintItem, history, IInv, Met, Answered, Consistent, Usable, Indexing, OnTop,
         Current, IndexFollows

\* An execution begins; one that meets another of its version is recorded (twins).
LEMMA TakeIInv ==
  ASSUME IInv, NEW x \in Workers, NEW j \in Keys \X Versions, Take(x, j)
  PROVE  IInv'
<1> DEFINE row == [status |-> "running", attempts |-> job[j].attempts + 1, owner |-> x]
           r == [pc |-> "ready", key |-> j[1], version |-> j[2], text |-> Empty]
<1>1. j[1] \in Keys /\ j[2] \in Versions /\ Empty \in Texts
  BY DEF Texts
<1>2. /\ job' = [job EXCEPT ![j] = row] /\ row \in Job
      /\ ex' = [ex EXCEPT ![x] = r] /\ r \in Execution
  BY <1>1, AnAttempt DEF Take, IInv, TypeOK, Attempts, Job, Execution
<1>3. (job \in [Keys \X Versions -> Job] /\ Attempts)'
  BY <1>2, ChangedJob
<1>4. /\ ex' \in [Workers -> Execution] /\ ex'[x] = r
      /\ \A y \in Workers \ {x} : ex'[y] = ex[y]
  BY <1>2 DEF IInv, TypeOK
<1>5. twins' \subseteq Versions /\ twins \subseteq twins'
  BY <1>1 DEF Take, IInv, TypeOK
<1>6. TypeOK'
  BY <1>3, <1>4, <1>5 DEF Take, shown, IInv, TypeOK
<1>7. Met'
  <2>1. ASSUME NEW y \in Workers \ {x}, ex[y].pc # "idle", ex[y].version = j[2]
        PROVE  j[2] \in twins'
    BY <2>1 DEF Take
  <2> QED
    BY <1>4, <1>5, <2>1 DEF IInv, Met
<1>8. Answered'
  BY <1>4, <1>5 DEF Take, IInv, Answered
<1>9. Consistent'
  BY <1>4 DEF Take, shown, IInv, Consistent, Usable
<1>10. Pending'
  BY <1>4 DEF Take, shown, IInv, Pending
<1>11. Indexing'
  BY <1>4 DEF Take, IInv, Indexing, OnTop, Current
<1> QED
  BY <1>3, <1>6, <1>7, <1>8, <1>9, <1>10, <1>11 DEF Take, shown, IInv, IndexFollows

-----------------------------------------------------------------------------
(* The steps of an execution: it goes on, from its record to r. *)

Continues(x, r) ==
  /\ ex' = [ex EXCEPT ![x] = r]
  /\ r \in Execution
  /\ r.pc # "idle" => ex[x].pc # "idle" /\ r.version = ex[x].version

\* An execution that goes on with its version meets nobody new.
LEMMA Continued ==
  ASSUME IInv, NEW x \in Workers, NEW r, Continues(x, r), UNCHANGED twins
  PROVE  /\ ex' \in [Workers -> Execution] /\ ex'[x] = r
         /\ \A y \in Workers \ {x} : ex'[y] = ex[y]
         /\ Met'
<1>1. /\ ex' \in [Workers -> Execution] /\ ex'[x] = r
      /\ \A y \in Workers \ {x} : ex'[y] = ex[y]
  BY DEF IInv, TypeOK, Continues
<1> QED
  BY <1>1 DEF IInv, Met, Continues

\* The generation is read: a stored answer, or one's own text, is used instead of a
\* call (services.py:214-222).
LEMMA ReadIInv ==
  ASSUME IInv, NEW x \in Workers, Read(x)
  PROVE  IInv'
<1> DEFINE v == ex[x].version
           pc == IF v \in Chinese \/ Cached(v) THEN "saving" ELSE "asking"
           text == IF v \in Chinese THEN Own ELSE IF Cached(v) THEN gen[v].output ELSE Empty
           old == ex[x]
           r == [old EXCEPT !.pc = pc, !.text = text]
<1>1. old \in Execution /\ old.pc = "ready" /\ v \in Versions /\ gen[v] \in Generation
  BY DEF IInv, TypeOK, Execution, Read
<1>2. text \in Texts
  BY <1>1 DEF Texts, Generation
<1>3. pc \in {"saving", "asking"}
  OBVIOUS
<1>4. ex' = [ex EXCEPT ![x] = r]
  BY DEF Read
<1>5. pc = "saving" => Usable(v, text)
  BY <1>1 DEF Cached, Usable, IInv, Consistent
<1>6. pc = "asking" => v \notin Chinese /\ ~ Cached(v)
  OBVIOUS
<1> HIDE DEF pc, text
<1>7. r \in Execution /\ r.pc = pc /\ r.text = text /\ r.version = v
  <2>1. v = old.version
    OBVIOUS
  <2> HIDE DEF old, v
  <2> QED
    BY <1>1, <1>2, <1>3, <2>1 DEF Execution
<1> HIDE DEF r
<1>8. Continues(x, r) /\ UNCHANGED twins
  BY <1>1, <1>4, <1>7 DEF Continues, Read, history
<1>9. /\ ex' \in [Workers -> Execution] /\ ex'[x] = r /\ Met'
      /\ \A y \in Workers \ {x} : ex'[y] = ex[y]
  BY <1>8, Continued
<1>10. /\ gen' \in [Versions -> Generation]
       /\ \A u \in Versions : /\ gen[u].status = "completed" => gen'[u] = gen[u]
                              /\ gen'[u].status = "completed" => gen'[u] = gen[u]
  <2>1. gen' = gen \/ (gen[v].status = "absent" /\ gen' = [gen EXCEPT ![v].status = "pending"])
    BY DEF Read
  <2> HIDE DEF v
  <2> QED
    BY <1>1, <2>1 DEF IInv, TypeOK, Generation
<1>11. TypeOK'
  BY <1>9, <1>10 DEF Read, shown, history, IInv, TypeOK
<1>12. Answered'
  BY <1>6, <1>7, <1>9, <1>10 DEF Read, history, IInv, TypeOK, Answered, Cached
<1>13. Consistent'
  BY <1>5, <1>6, <1>7, <1>9, <1>10, <1>3 DEF Read, shown, IInv, Consistent, Usable
<1>14. Pending'
  BY <1>1, <1>9 DEF Read, shown, history, IInv, Pending
<1>15. (Attempts /\ Indexing /\ IndexFollows)'
  BY <1>3, <1>7, <1>9
     DEF Read, shown, history, IInv, Attempts, Indexing, OnTop, Current, IndexFollows
<1> QED
  BY <1>9, <1>11, <1>12, <1>13, <1>14, <1>15 DEF IInv

\* The provider answers: the generation is completed with a usable text
\* (services.py:223-237).
LEMMA AnswerIInv ==
  ASSUME IInv, NEW x \in Workers, NEW text \in Outputs \cup {Empty}, Answer(x, text)
  PROVE  IInv'
<1> DEFINE v == ex[x].version
           old == ex[x]
           r == [old EXCEPT !.pc = "saving", !.text = text]
<1>1. old \in Execution /\ old.pc = "asking" /\ v \in Versions /\ text \in Texts
  BY DEF IInv, TypeOK, Execution, Answer, Texts
<1>2. ex' = [ex EXCEPT ![x] = r]
  BY DEF Answer
<1>3. r \in Execution /\ r.pc = "saving" /\ r.text = text /\ r.version = v
  <2>1. v = old.version
    OBVIOUS
  <2> HIDE DEF old, v
  <2> QED
    BY <1>1, <2>1 DEF Execution
<1> HIDE DEF r
<1>4. Continues(x, r) /\ UNCHANGED twins
  BY <1>1, <1>2, <1>3 DEF Continues, Answer
<1>5. /\ ex' \in [Workers -> Execution] /\ ex'[x] = r /\ Met'
      /\ \A y \in Workers \ {x} : ex'[y] = ex[y]
  BY <1>4, Continued
<1>6. Usable(v, text)
  <2>1. v \notin Chinese
    BY <1>1 DEF IInv, Consistent
  <2>2. text \in Outputs => text # Empty
    BY EnrichmentAssumption
  <2> QED
    BY <2>1, <2>2 DEF Answer, Usable
<1>7. /\ gen' \in [Versions -> Generation] /\ gen'[v] = [status |-> "completed", output |-> text]
      /\ \A u \in Versions \ {v} : gen'[u] = gen[u]
  BY <1>1 DEF Answer, IInv, TypeOK, Generation
<1>8. TypeOK'
  BY <1>1, <1>5, <1>7 DEF Answer, shown, IInv, TypeOK
<1>9. Answered'
  <2> SUFFICES ASSUME NEW u \in answered' \ twins
               PROVE  /\ gen'[u].status = "completed"
                      /\ \A y \in Workers : ex'[y].version = u => ex'[y].pc # "asking"
    BY <1>4 DEF Answered
  <2>1. CASE u = v
    <3>1. \A y \in Workers \ {x} : ex[y].version = v => ex[y].pc # "asking"
      BY <1>1, <2>1 DEF IInv, Met
    <3> QED
      BY <1>3, <1>5, <1>7, <2>1, <3>1
  <2>2. CASE u # v
    <3>1. u \in answered \ twins /\ u \in Versions
      BY <2>2 DEF Answer, IInv, TypeOK
    <3> QED
      BY <1>3, <1>5, <1>7, <2>2, <3>1 DEF IInv, Answered
  <2> QED
    BY <2>1, <2>2
<1>10. Consistent'
  BY <1>3, <1>5, <1>6, <1>7 DEF Answer, shown, IInv, Consistent, Usable
<1>11. Pending'
  BY <1>1, <1>5 DEF Answer, shown, IInv, Pending
<1>12. (Attempts /\ Indexing /\ IndexFollows)'
  BY <1>3, <1>5 DEF Answer, shown, IInv, Attempts, Indexing, OnTop, Current, IndexFollows
<1> QED
  BY <1>5, <1>8, <1>9, <1>10, <1>11, <1>12 DEF IInv

\* An execution ends; if it was filling the briefings of its version, that is missed.
LEMMA Ended ==
  ASSUME IInv, NEW x \in Workers, ex' = [ex EXCEPT ![x] = Idle],
         UNCHANGED <<current, shown, twins, answered, raced>>,
         missed \subseteq missed', missed' \subseteq Versions,
         ex[x].pc = "filling" => ex[x].version \in missed'
  PROVE  /\ ex' \in [Workers -> Execution] /\ ex'[x] = Idle
         /\ \A y \in Workers \ {x} : ex'[y] = ex[y]
         /\ (Met /\ Pending /\ Indexing /\ IndexFollows)'
<1>1. Continues(x, Idle)
  BY Records DEF Continues
<1>2. /\ ex' \in [Workers -> Execution] /\ ex'[x] = Idle /\ Met'
      /\ \A y \in Workers \ {x} : ex'[y] = ex[y]
  BY <1>1, Continued
<1>3. Pending'
  BY <1>2 DEF shown, IInv, Pending
<1>4. (Indexing /\ IndexFollows)'
  BY <1>2, Records DEF shown, IInv, Indexing, OnTop, Current, IndexFollows
<1> QED
  BY <1>2, <1>3, <1>4

\* A call fails: the generation is not completed, and a lone execution had no
\* answer.
LEMMA FailIInv ==
  ASSUME IInv, NEW x \in Workers, NEW refused \in BOOLEAN, Fail(x, refused)
  PROVE  IInv'
<1> DEFINE v == ex[x].version  j == JobOf(x)
           over == ~ refused /\ GivenUp(job[j])
           after == [status |-> IF over THEN "failed" ELSE "pending",
                     attempts |-> IF refused \/ over THEN 0 ELSE job[j].attempts,
                     owner |-> Nobody]
<1>1. ex[x].pc = "asking" /\ v \in Versions /\ j \in Keys \X Versions
  BY DEF IInv, TypeOK, Execution, Fail, JobOf
<1>2. (job \in [Keys \X Versions -> Job] /\ Attempts)'
  <2>1. job[j] \in Job
    BY <1>1 DEF IInv, TypeOK
  <2>2. after \in Job /\ (after.status = "pending" => after.attempts < MAX_ATTEMPTS)
    <3>1. job[j].attempts \in 0 .. MAX_ATTEMPTS
      BY <2>1 DEF Job
    <3> HIDE DEF j
    <3> QED
      BY <3>1, AnAttempt DEF Job, GivenUp
  <2>3. job' = job \/ job' = [job EXCEPT ![j] = after]
    BY DEF Fail
  <2> HIDE DEF after, j
  <2> QED
    BY <1>1, <2>2, <2>3, ChangedJob DEF IInv, TypeOK, Attempts
<1>3. /\ ex' = [ex EXCEPT ![x] = Idle] /\ gen' = [gen EXCEPT ![v].status = "failed"]
      /\ UNCHANGED <<current, shown, history>> /\ troubles' \in 0 .. MAX_TROUBLES
  BY EnrichmentAssumption DEF Fail, IInv, TypeOK, Trouble
<1> HIDE DEF j, over, after
<1>4. /\ ex' \in [Workers -> Execution] /\ ex'[x] = Idle
      /\ \A y \in Workers \ {x} : ex'[y] = ex[y]
      /\ (Met /\ Pending /\ Indexing /\ IndexFollows)'
  BY <1>1, <1>3, Ended DEF history, IInv, TypeOK
<1>5. /\ gen' \in [Versions -> Generation] /\ gen'[v].status = "failed"
      /\ \A u \in Versions \ {v} : gen'[u] = gen[u]
  BY <1>1, <1>3 DEF IInv, TypeOK, Generation
<1>6. TypeOK'
  BY <1>2, <1>3, <1>4, <1>5 DEF shown, history, IInv, TypeOK
<1>7. Answered'
  <2>1. v \notin answered \ twins
    BY <1>1 DEF IInv, Answered
  <2>2. UNCHANGED <<answered, twins>>
    BY <1>3 DEF history
  <2>3. answered \subseteq Versions
    BY DEF IInv, TypeOK
  <2> HIDE DEF v
  <2> QED
    BY <1>4, <1>5, <2>1, <2>2, <2>3, Records DEF IInv, Answered
<1>8. Consistent'
  BY <1>3, <1>4, <1>5, Records DEF shown, IInv, Consistent, Usable
<1> QED
  BY <1>2, <1>4, <1>6, <1>7, <1>8 DEF IInv

\* An execution dies with what it remembered.
LEMMA CrashIInv ==
  ASSUME IInv, NEW x \in Workers, Crash(x)
  PROVE  IInv'
<1>1. /\ ex' = [ex EXCEPT ![x] = Idle] /\ troubles' \in 0 .. MAX_TROUBLES
      /\ UNCHANGED <<current, shown, job, gen, twins, answered, raced>>
  BY EnrichmentAssumption DEF Crash, Trouble, IInv, TypeOK
<1>2. ex[x].version \in Versions
  BY DEF IInv, TypeOK, Execution
<1>3. /\ ex' \in [Workers -> Execution] /\ ex'[x] = Idle
      /\ \A y \in Workers \ {x} : ex'[y] = ex[y]
      /\ (Met /\ Pending /\ Indexing /\ IndexFollows)'
  BY <1>1, <1>2, Ended DEF Crash, IInv, TypeOK
<1>4. TypeOK'
  BY <1>1, <1>2, <1>3 DEF Crash, shown, IInv, TypeOK
<1>5. (Attempts /\ Answered /\ Consistent)'
  BY <1>1, <1>3, Records DEF shown, IInv, Attempts, Answered, Consistent, Usable
<1> QED
  BY <1>3, <1>4, <1>5 DEF IInv

\* The job ends with its execution.
LEMMA CompleteIInv ==
  ASSUME IInv, NEW x \in Workers, Complete(x)
  PROVE  IInv'
<1>1. JobOf(x) \in Keys \X Versions
  BY DEF IInv, TypeOK, Execution, JobOf
<1>2. (job \in [Keys \X Versions -> Job] /\ Attempts)'
  <2>1. job' = job \/ job' = [job EXCEPT ![JobOf(x)] = Completed]
    BY DEF Complete, Completed
  <2> QED
    BY <1>1, <2>1, ChangedJob, Records DEF IInv, TypeOK, Attempts
<1>3. /\ ex' = [ex EXCEPT ![x] = Idle] /\ ex[x].pc = "ending"
      /\ UNCHANGED <<current, shown, gen, troubles, history>>
  BY DEF Complete
<1>4. /\ ex' \in [Workers -> Execution] /\ ex'[x] = Idle
      /\ \A y \in Workers \ {x} : ex'[y] = ex[y]
      /\ (Met /\ Pending /\ Indexing /\ IndexFollows)'
  BY <1>3, Ended DEF history, IInv, TypeOK
<1>5. TypeOK'
  BY <1>2, <1>3, <1>4 DEF shown, history, IInv, TypeOK
<1>6. (Answered /\ Consistent)'
  BY <1>3, <1>4, Records DEF shown, history, IInv, Answered, Consistent, Usable
<1> QED
  BY <1>2, <1>4, <1>5, <1>6 DEF IInv

\* The text goes to the article; who has an item without one is about to be filled
\* (services.py:306-308).
LEMMA SaveIInv ==
  ASSUME IInv, NEW x \in Workers, Save(x)
  PROVE  IInv'
<1> DEFINE v == ex[x].version
           old == ex[x]
           r == [old EXCEPT !.pc = "filling"]
<1>1. /\ old \in Execution /\ old.pc = "saving" /\ v \in Versions
      /\ old.text \in Texts /\ Usable(v, old.text)
  BY DEF IInv, TypeOK, Execution, Save, Consistent
<1>2. ex' = [ex EXCEPT ![x] = r]
  BY DEF Save
<1>3. /\ r \in Execution /\ r.pc = "filling" /\ r.text = old.text /\ r.version = v
  <2>1. v = old.version
    OBVIOUS
  <2> HIDE DEF old, v
  <2> QED
    BY <1>1, <2>1 DEF Execution
<1> HIDE DEF r
<1>4. Continues(x, r) /\ UNCHANGED twins
  BY <1>1, <1>2, <1>3 DEF Continues, Save, history
<1>5. /\ ex' \in [Workers -> Execution] /\ ex'[x] = r /\ Met'
      /\ \A y \in Workers \ {x} : ex'[y] = ex[y]
  BY <1>4, Continued
<1>6. /\ zh' \in [Versions -> Texts] /\ zh'[v] = old.text
      /\ \A u \in Versions \ {v} : zh'[u] = zh[u]
  BY <1>1 DEF Save, IInv, TypeOK
<1>7. TypeOK'
  BY <1>5, <1>6 DEF Save, history, IInv, TypeOK
<1>8. Consistent'
  BY <1>1, <1>3, <1>5, <1>6 DEF Save, IInv, Consistent, Usable
<1>9. Pending'
  <2> SUFFICES ASSUME NEW u \in Versions, item[u].state # "none", item[u].zh = Empty,
                      zh'[u] # Empty
               PROVE  \/ u \in missed
                      \/ \E y \in Workers : ex'[y].pc = "filling" /\ ex'[y].version = u
    BY DEF Pending, Save, history
  <2>1. CASE u = v
    BY <1>3, <1>5, <2>1
  <2>2. CASE u # v
    BY <1>1, <1>5, <1>6, <2>2 DEF IInv, Pending
  <2> QED
    BY <2>1, <2>2
<1>10. (Attempts /\ Answered /\ Indexing /\ IndexFollows)'
  BY <1>3, <1>5
     DEF Save, history, IInv, Attempts, Answered, Indexing, OnTop, Current, IndexFollows
<1> QED
  BY <1>5, <1>7, <1>8, <1>9, <1>10 DEF IInv

\* Whoever fills the briefings of a version with a text has one.
LEMMA FillIInv ==
  ASSUME IInv, NEW x \in Workers, Fill(x)
  PROVE  IInv'
<1> DEFINE v == ex[x].version
           old == ex[x]
           pc == IF OnTop(v) THEN "indexing" ELSE "ending"
           r == [old EXCEPT !.pc = pc, !.text = zh[v]]
<1>1. /\ old \in Execution /\ old.pc = "filling" /\ v \in Versions
      /\ old.text \in Texts /\ Usable(v, old.text) /\ zh[v] \in Texts /\ item[v] \in Item
  BY DEF IInv, TypeOK, Execution, Fill, Consistent
<1>2. ex' = [ex EXCEPT ![x] = r]
  BY DEF Fill
<1>3. pc \in {"indexing", "ending"} /\ (pc = "indexing" => OnTop(v))
  OBVIOUS
<1> HIDE DEF pc
<1>4. r \in Execution /\ r.pc = pc /\ r.version = v
  <2>1. v = old.version
    OBVIOUS
  <2> HIDE DEF old, v
  <2> QED
    BY <1>1, <1>3, <2>1 DEF Execution
<1> HIDE DEF r
<1>5. Continues(x, r) /\ UNCHANGED twins
  BY <1>1, <1>2, <1>4 DEF Continues, Fill
<1>6. /\ ex' \in [Workers -> Execution] /\ ex'[x] = r /\ Met'
      /\ \A y \in Workers \ {x} : ex'[y] = ex[y]
  BY <1>5, Continued
<1>7. /\ item' \in [Versions -> Item] /\ item'[v] = Filled(item[v], v, old.text)
      /\ \A u \in Versions \ {v} : item'[u] = item[u]
  BY <1>1, FilledItem DEF Fill, IInv, TypeOK
<1>8. missed' = missed \cup {u \in {v} : Unfilled(u)}
  BY DEF Fill
<1>9. TypeOK'
  BY <1>1, <1>6, <1>7, <1>8 DEF Fill, IInv, TypeOK
<1>10. Consistent'
  BY <1>3, <1>4, <1>6 DEF Fill, IInv, Consistent, Usable
<1>11. Pending'
  <2> SUFFICES ASSUME NEW u \in Versions, item'[u].state # "none", item'[u].zh = Empty,
                      zh[u] # Empty
               PROVE  \/ u \in missed'
                      \/ \E y \in Workers : ex'[y].pc = "filling" /\ ex'[y].version = u
    BY DEF Pending, Fill
  <2>1. CASE u = v
    <3>1. old.text # Empty
      <4>1. Usable(v, zh[v])
        BY <1>1, <2>1 DEF IInv, Consistent
      <4> QED
        BY <1>1, <2>1, <4>1, EnrichmentAssumption DEF Usable
    <3>2. item[v].state = "drafted" /\ item[v].zh = Empty
      BY <1>1, <1>7, <2>1, <3>1, FilledItem DEF Item
    <3> QED
      BY <1>8, <2>1, <3>2 DEF Unfilled
  <2>2. CASE u # v
    BY <1>6, <1>7, <1>8, <2>2 DEF IInv, Pending
  <2> QED
    BY <2>1, <2>2
<1>12. Indexing'
  BY <1>3, <1>4, <1>6 DEF Fill, IInv, Indexing, OnTop, Current
<1>13. (Attempts /\ Answered /\ IndexFollows)'
  BY <1>3, <1>4, <1>6 DEF Fill, IInv, Attempts, Answered, IndexFollows
<1> QED
  BY <1>6, <1>9, <1>10, <1>11, <1>12, <1>13 DEF IInv

\* The index gets the version of the execution, which is the current one unless a
\* newer one raced it (services.py:309-311).
LEMMA IndexIInv ==
  ASSUME IInv, NEW x \in Workers, Index(x)
  PROVE  IInv'
<1> DEFINE v == ex[x].version
           old == ex[x]
           r == [old EXCEPT !.pc = "ending"]
<1>1. old \in Execution /\ old.pc = "indexing" /\ v \in Versions /\ old.text \in Texts
  BY DEF IInv, TypeOK, Execution, Index
<1>2. ex' = [ex EXCEPT ![x] = r]
  BY DEF Index
<1>3. r \in Execution /\ r.pc = "ending" /\ r.version = v
  <2>1. v = old.version
    OBVIOUS
  <2> HIDE DEF old, v
  <2> QED
    BY <1>1, <2>1 DEF Execution
<1> HIDE DEF r
<1>4. Continues(x, r) /\ UNCHANGED twins
  BY <1>1, <1>2, <1>3 DEF Continues, Index, history
<1>5. /\ ex' \in [Workers -> Execution] /\ ex'[x] = r /\ Met'
      /\ \A y \in Workers \ {x} : ex'[y] = ex[y]
  BY <1>4, Continued
<1>6. ArticleOf(v) \in Articles /\ v[2] \in 1 .. MAX_VERSION
  BY <1>1, VersionParts
<1>7. index' = [index EXCEPT ![ArticleOf(v)] = [version |-> v[2], zh |-> old.text]]
  BY DEF Index
<1>8. TypeOK'
  BY <1>1, <1>5, <1>6, <1>7 DEF Index, history, IInv, TypeOK
<1>9. IndexFollows'
  <2>1. ArticleOf(v) \notin raced => v[2] = current[ArticleOf(v)]
    BY <1>1 DEF IInv, Indexing, OnTop, Current
  <2> HIDE DEF v
  <2> QED
    BY <1>6, <1>7, <2>1 DEF Index, history, IInv, TypeOK, IndexFollows
<1>10. (Attempts /\ Answered /\ Consistent /\ Pending /\ Indexing)'
  BY <1>1, <1>3, <1>5
     DEF Index, history, IInv, Attempts, Answered, Consistent, Usable, Pending, Indexing,
         OnTop, Current
<1> QED
  BY <1>5, <1>8, <1>9, <1>10 DEF IInv

-----------------------------------------------------------------------------
(* The theorems. *)

\* The invariant is inductive: one case for each action of Next.
LEMMA NextIInv == IInv /\ [Next]_vars => IInv'
<1> SUFFICES ASSUME IInv, [Next]_vars PROVE IInv'
  OBVIOUS
<1>1. ASSUME NEW a \in Articles, NewVersion(a) PROVE IInv'
  BY <1>1, NewVersionIInv
<1>2. CASE Prepare \/ \E k \in Keys : Backfill(k)
  BY <1>2, AskIInv
<1>3. ASSUME NEW j \in Keys \X Versions, Manual(j) \/ Purge(j) PROVE IInv'
  BY <1>3, ManualIInv
<1>4. ASSUME NEW v \in Versions, Draft(v) PROVE IInv'
  BY <1>4, DraftIInv
<1>5. ASSUME NEW v \in Versions, PrintItem(v) PROVE IInv'
  BY <1>5, PrintItemIInv
<1>6. ASSUME NEW x \in Workers, NEW j \in Keys \X Versions, Take(x, j) PROVE IInv'
  BY <1>6, TakeIInv
<1>7. ASSUME NEW j \in Keys \X Versions, Expire(j) PROVE IInv'
  BY <1>7, ExpireIInv
<1>8. ASSUME NEW x \in Workers, Work(x) \/ Answer(x, Empty) PROVE IInv'
  BY <1>8, ReadIInv, AnswerIInv, SaveIInv, FillIInv, IndexIInv, CompleteIInv DEF Work
<1>9. ASSUME NEW x \in Workers, NEW refused \in BOOLEAN, Fail(x, refused) PROVE IInv'
  BY <1>9, FailIInv
<1>10. ASSUME NEW x \in Workers, Crash(x) PROVE IInv'
  BY <1>10, CrashIInv
<1>11. CASE UNCHANGED vars
  BY <1>11
     DEF vars, shown, history, IInv, TypeOK, Attempts, Met, Answered, Consistent, Usable,
         Pending, Indexing, OnTop, Current, IndexFollows
<1> QED
  BY <1>1, <1>2, <1>3, <1>4, <1>5, <1>6, <1>7, <1>8, <1>9, <1>10, <1>11 DEF Next

\* The invariant behind the theorems below holds throughout (ai/services.py:205-320).
THEOREM Invariance == Spec => []IInv
<1> QED
  BY Starts, NextIInv, PTL DEF Spec

\* Rows, items and executions keep their types; in particular no job is tried more
\* often than MAX_ATTEMPTS times (tasks.py:50-53, 79, 149).
THEOREM TypeCorrect == Spec => []TypeOK
<1>1. IInv => TypeOK
  BY DEF IInv
<1> QED
  BY <1>1, Invariance, PTL

\* What was answered once stays answered, unless two executions of one version met
\* (services.py:220-243).
THEOREM AnswersPaidOnce == Spec => []PaidOnce
<1>1. IInv => PaidOnce
  BY DEF IInv, Answered, PaidOnce
<1> QED
  BY <1>1, Invariance, PTL

\* A printed item has the text of its version, or an execution is about to fill it,
\* or it is known to be left out (services.py:306-308).
THEOREM SnapshotsFilled == Spec => []SnapshotFilled
<1>1. IInv => SnapshotFilled
  <2> SUFFICES ASSUME IInv, NEW v \in Versions, item[v].state = "printed",
                      item[v].zh = Empty, zh[v] # Empty
               PROVE  \/ v \in missed
                      \/ \E x \in Workers : ex[x].pc = "filling" /\ ex[x].version = v
    BY DEF SnapshotFilled
  <2> QED
    BY DEF IInv, Pending
<1> QED
  BY <1>1, Invariance, PTL

\* The search finds an article by its current version, unless a version arrived
\* between an execution's look and its write (services.py:309-311).
THEOREM SearchFollows == Spec => []IndexFollows
<1>1. IInv => IndexFollows
  BY DEF IInv
<1> QED
  BY <1>1, Invariance, PTL

\* The text of an item is filled once: no step touches a text that is there
\* (services.py:254-260).
THEOREM SnapshotsFinal == Spec => SnapshotOnce
<1> DEFINE Kept(v) == item[v].state # "none" /\ item[v].zh # Empty => item'[v].zh = item[v].zh
           Step == \A v \in Versions : Kept(v)
<1>1. IInv /\ [Next]_vars => [Step]_vars
  <2> SUFFICES ASSUME IInv, Next, NEW v \in Versions PROVE Kept(v)
    OBVIOUS
  <2>1. item \in [Versions -> Item] /\ item[v] \in Item
    BY DEF IInv, TypeOK
  <2>2. ASSUME NEW Rows \in SUBSET Missing, Localise(Rows) PROVE Kept(v)
    <3>1. item'[v] = item[v] \/ item'[v] = Filled(item[v], v, Own)
      BY <2>2 DEF Localise
    <3>2. Own \in Texts
      BY DEF Texts
    <3> QED
      BY <2>1, <3>1, <3>2, FilledItem
  <2>3. Window(Missing) \in SUBSET Missing
    BY DEF Window
  <2>4. CASE Prepare \/ \E k \in Keys : Backfill(k)
    BY <2>2, <2>3, <2>4 DEF Prepare, PrepareAI, Backfill
  <2>5. ASSUME NEW u \in Versions, Draft(u) \/ PrintItem(u) PROVE Kept(v)
    BY <2>1, <2>5 DEF Draft, PrintItem, Item
  <2>6. ASSUME NEW x \in Workers, Fill(x) PROVE Kept(v)
    <3>1. ex[x].text \in Texts
      BY DEF IInv, TypeOK, Execution
    <3>2. item'[v] = item[v] \/ item'[v] = Filled(item[v], v, ex[x].text)
      BY <2>1, <2>6 DEF Fill, IInv, TypeOK
    <3> QED
      BY <2>1, <3>1, <3>2, FilledItem
  <2>7. CASE UNCHANGED item
    BY <2>7
  <2> QED
    BY <2>4, <2>5, <2>6, <2>7
       DEF Next, shown, NewVersion, Manual, Take, Expire, Purge, Work, Read, Answer, Save,
           Index, Complete, Fail, Crash
<1> QED
  BY <1>1, Invariance, PTL DEF Spec, SnapshotOnce

=============================================================================
