----------------------------- MODULE Enrichment -----------------------------
(***************************************************************************)
(* The Chinese texts of the articles: who asks for them (ingest(),         *)
(* prepare_ai(), queue_backfill(), a briefing, a person), the jobs that    *)
(* wait for them, the generations that keep what the provider answered,    *)
(* and the places that show them: the version, the items of briefings and  *)
(* the search index (enrich_article() of app/ai/services.py).              *)
(*                                                                         *)
(* An execution commits after each of its steps: it reads the generation,  *)
(* asks, saves the version, fills the briefings and looks whether the      *)
(* version is current, and writes the index.  Two executions of one        *)
(* version meet when its article asks under two keys, or when a lease      *)
(* ends.  The queue is that of JobQueue, without priorities and times; a   *)
(* refusal of the budget is one of the provider's answers here.            *)
(*                                                                         *)
(* A definition marked `Fault' is a variant of the one that follows it, in *)
(* which one thing is wrong and which must break a property.               *)
(***************************************************************************)
EXTENDS Integers, FiniteSets

CONSTANTS
  Articles,
  MAX_VERSION,   \* bound on the versions of an article
  Chinese,       \* versions whose text is Chinese already
  Briefed,       \* articles that briefings take
  Hopeless,      \* articles for which the provider has no usable answer
  Rank,          \* the order of prepare_ai() among articles
  FIRST,         \* how many articles prepare_ai() looks at: 40
  Keys,          \* the jobs a version may have: "enrich", and others under which a
                 \* backfill or a person asks (backfill-enrich:.., manual-enrich:<uuid>)
  Workers, Nobody,
  Outputs,       \* the texts of the provider
  Own,           \* the article's own text
  Empty,         \* title_zh = ""
  MAX_ATTEMPTS,  \* 4
  MAX_TROUBLES   \* bound on failures, refusals, crashes and lost leases

Versions == Articles \X (1 .. MAX_VERSION)

ASSUME EnrichmentAssumption ==
  /\ Articles # {} /\ Chinese \subseteq Versions
  /\ Briefed \cup Hopeless \subseteq Articles
  /\ Rank \in [Articles -> Nat] /\ \A a, b \in Articles : Rank[a] = Rank[b] => a = b
  /\ FIRST \in Nat /\ "enrich" \in Keys
  /\ Nobody \notin Workers
  /\ Own # Empty /\ {Own, Empty} \cap Outputs = {}
  /\ MAX_ATTEMPTS \in Nat \ {0} /\ MAX_VERSION \in Nat \ {0} /\ MAX_TROUBLES \in Nat

ArticleOf(v) == v[1]
Texts == Outputs \cup {Own, Empty}

VARIABLES
  current,   \* the number of the current version of each article
  zh,        \* title_zh and summary_zh of each version
  item,      \* the item of a version in a briefing
  index,     \* the version and the text the search finds an article by
  job,       \* the enrich jobs
  gen,       \* the generation of each version
  ex,        \* the executions
  troubles,
  twins,     \* versions that had two executions at once (history)
  answered,  \* versions whose generation was completed once (history)
  missed,    \* versions whose briefings could not be filled (history)
  raced      \* articles that changed under a write of the index (history)

shown == <<zh, item, index>>
history == <<twins, answered, missed, raced>>
vars == <<current, shown, job, gen, ex, troubles, history>>

Item == [state : {"none", "drafted", "printed"}, zh : Texts]

\* The owner and the attempts of a row whose execution is over are forgotten.
Job == [status : {"absent", "pending", "running", "completed", "failed"},
        attempts : 0 .. MAX_ATTEMPTS, owner : Workers \cup {Nobody}]

NoJob == [status |-> "absent", attempts |-> 0, owner |-> Nobody]

Generation == [status : {"absent", "pending", "completed", "failed"}, output : Texts]

Execution == [pc : {"idle", "ready", "asking", "saving", "filling", "indexing", "ending"},
              key : Keys, version : Versions, text : Texts]

\* What an idle worker last did is forgotten.
Idle == [pc |-> "idle", key |-> CHOOSE k \in Keys : TRUE,
         version |-> CHOOSE v \in Versions : TRUE, text |-> Empty]

TypeOK ==
  /\ current \in [Articles -> 1 .. MAX_VERSION]
  /\ zh \in [Versions -> Texts]
  /\ item \in [Versions -> Item]
  /\ index \in [Articles -> [version : 1 .. MAX_VERSION, zh : Texts]]
  /\ job \in [Keys \X Versions -> Job]
  /\ gen \in [Versions -> Generation]
  /\ ex \in [Workers -> Execution]
  /\ troubles \in 0 .. MAX_TROUBLES
  /\ twins \subseteq Versions /\ answered \subseteq Versions
  /\ missed \subseteq Versions /\ raced \subseteq Articles

Init ==
  /\ current = [a \in Articles |-> 1]
  /\ zh = [v \in Versions |-> Empty]
  /\ item = [v \in Versions |-> [state |-> "none", zh |-> Empty]]
  /\ index = [a \in Articles |-> [version |-> 1, zh |-> Empty]]
  /\ job = [j \in Keys \X Versions |-> NoJob]
  /\ gen = [v \in Versions |-> [status |-> "absent", output |-> Empty]]
  /\ ex = [x \in Workers |-> Idle]
  /\ troubles = 0
  /\ twins = {} /\ answered = {} /\ missed = {} /\ raced = {}

Current(a) == <<a, current[a]>>
Trouble == troubles < MAX_TROUBLES /\ troubles' = troubles + 1

-----------------------------------------------------------------------------
(* Asking for a text *)

\* enqueue(): a new row, or a completed one opened again if the text is missing.
Enqueued(row, v) ==
  IF row.status = "absent" \/ (row.status = "completed" /\ zh[v] = Empty)
  THEN [NoJob EXCEPT !.status = "pending"] ELSE row

EnqueueAll(Asked) ==
  job' = [j \in Keys \X Versions |-> IF j \in Asked THEN Enqueued(job[j], j[2]) ELSE job[j]]

\* A new version is indexed and, unless the process dies first, asked for.
NewVersion(a) ==
  /\ current[a] < MAX_VERSION
  /\ current' = [current EXCEPT ![a] = @ + 1]
  /\ index' = [index EXCEPT ![a] = [version |-> current'[a], zh |-> Empty]]
  /\ \E Asked \in {{}, {<<"enrich", <<a, current'[a]>>>>}} : EnqueueAll(Asked)
  /\ raced' = raced \cup {b \in {a} : \E x \in Workers :
                            ex[x].pc = "indexing" /\ ArticleOf(ex[x].version) = a}
  /\ UNCHANGED <<zh, item, gen, ex, troubles, twins, answered, missed>>

Missing == {v \in Versions : v = Current(ArticleOf(v)) /\ zh[v] = Empty}

\* Fault: one article too few.
WindowShort(Rows) ==
  {v \in Rows : Cardinality({u \in Rows : Rank[u[1]] <= Rank[v[1]]}) < FIRST}

\* The first 40.
Window(Rows) ==
  {v \in Rows : Cardinality({u \in Rows : Rank[u[1]] <= Rank[v[1]]}) <= FIRST}

\* Fault: nothing is filled that is not on top.
FilledIfCurrent(i, v, text) ==
  IF i.state = "printed" /\ i.zh = Empty /\ v = Current(ArticleOf(v))
  THEN [i EXCEPT !.zh = text] ELSE i

\* Fault: without the condition title_zh="".
FilledAgain(i, v, text) ==
  IF i.state = "printed" /\ text # Empty THEN [i EXCEPT !.zh = text] ELSE i

\* sync_brief_localizations(): the items that still have no Chinese text.
Filled(i, v, text) ==
  IF i.state = "printed" /\ i.zh = Empty THEN [i EXCEPT !.zh = text] ELSE i

Unfilled(v) == item[v].state = "drafted" /\ item[v].zh = Empty

\* keep_existing_chinese() of the Rows that are Chinese.
Localise(Rows) ==
  LET Local == {v \in Rows : v \in Chinese}
  IN /\ zh' = [v \in Versions |-> IF v \in Local THEN Own ELSE zh[v]]
     /\ item' = [v \in Versions |-> IF v \in Local THEN Filled(item[v], v, Own) ELSE item[v]]
     /\ index' = [a \in Articles |-> IF Current(a) \in Local
                                     THEN [version |-> current[a], zh |-> Own] ELSE index[a]]
     /\ missed' = missed \cup {v \in Local : Unfilled(v)}

\* prepare_ai(): the key depends on the priority, which falls with the age.
PrepareAI(Key) ==
  LET Rows == Window(Missing)
  IN /\ Localise(Rows)
     /\ EnqueueAll({<<Key[v[1]], v>> : v \in {u \in Rows : u \notin Chinese}})
     /\ UNCHANGED <<current, gen, ex, troubles, twins, answered, raced>>

Prepare == \E Key \in [Articles -> Keys] : PrepareAI(Key)

\* queue_backfill().
Backfill(k) ==
  /\ k # "enrich" /\ Missing # {}
  /\ Localise(Missing)
  /\ EnqueueAll({k} \X {v \in Missing : v \notin Chinese})
  /\ UNCHANGED <<current, gen, ex, troubles, twins, answered, raced>>

\* A person asks: the key is new every time.
Manual(j) ==
  /\ j[1] # "enrich" /\ job[j].status \notin {"pending", "running"}
  /\ j[2][2] <= current[ArticleOf(j[2])]
  /\ job' = [job EXCEPT ![j] = [NoJob EXCEPT !.status = "pending"]]
  /\ UNCHANGED <<current, shown, gen, ex, troubles, history>>

\* A briefing reads its articles, and adds their items when it commits.
Draft(v) ==
  /\ ArticleOf(v) \in Briefed /\ v = Current(ArticleOf(v)) /\ item[v].state = "none"
  /\ item' = [item EXCEPT ![v] = [state |-> "drafted", zh |-> zh[v]]]
  /\ UNCHANGED <<current, zh, index, job, gen, ex, troubles, history>>

PrintItem(v) ==
  /\ item[v].state = "drafted"
  /\ item' = [item EXCEPT ![v].state = "printed"]
  /\ EnqueueAll(IF item[v].zh = Empty THEN {<<"enrich", v>>} ELSE {})
  /\ UNCHANGED <<current, zh, index, gen, ex, troubles, history>>

-----------------------------------------------------------------------------
(* The queue *)

Take(x, j) ==
  /\ ex[x].pc = "idle" /\ job[j].status = "pending"
  /\ job' = [job EXCEPT ![j] = [status |-> "running", attempts |-> @.attempts + 1, owner |-> x]]
  /\ ex' = [ex EXCEPT ![x] = [pc |-> "ready", key |-> j[1], version |-> j[2], text |-> Empty]]
  /\ twins' = twins \cup {v \in {j[2]} : \E y \in Workers : ex[y].pc # "idle" /\ ex[y].version = v}
  /\ UNCHANGED <<current, shown, gen, troubles, answered, missed, raced>>

JobOf(x) == <<ex[x].key, ex[x].version>>
Mine(x) == job[JobOf(x)].owner = x

GivenUp(row) == row.attempts >= MAX_ATTEMPTS

Orphaned(j) == \A x \in Workers : ex[x].pc # "idle" /\ JobOf(x) = j => ~ Mine(x)

\* A lease ends because its worker is gone or stalls.
Expire(j) ==
  /\ job[j].status = "running"
  /\ IF Orphaned(j) THEN UNCHANGED troubles ELSE Trouble
  /\ job' = [job EXCEPT ![j] = IF GivenUp(@)
                               THEN [@ EXCEPT !.status = "failed"]
                               ELSE [@ EXCEPT !.status = "pending", !.owner = Nobody]]
  /\ UNCHANGED <<current, shown, gen, ex, history>>

Old(row) == row.status \in {"completed", "failed"}

\* maintain(), after 14 days.
Purge(j) ==
  /\ Old(job[j])
  /\ ~ \E x \in Workers : ex[x].pc # "idle" /\ JobOf(x) = j
  /\ job' = [job EXCEPT ![j] = NoJob]
  /\ UNCHANGED <<current, shown, gen, ex, troubles, history>>

-----------------------------------------------------------------------------
(* enrich_article() *)

\* Fault: what was answered before is asked again.
CachedNever(v) == FALSE

Cached(v) == gen[v].status = "completed"

\* keep_existing_chinese(), then structured() up to the call.
Read(x) ==
  LET v == ex[x].version
      local == v \in Chinese
  IN /\ ex[x].pc = "ready"
     /\ ex' = [ex EXCEPT ![x] =
                  [@ EXCEPT !.pc = IF local \/ Cached(v) THEN "saving" ELSE "asking",
                            !.text = IF local THEN Own
                                     ELSE IF Cached(v) THEN gen[v].output ELSE Empty]]
     /\ gen' = IF local \/ gen[v].status # "absent" THEN gen
               ELSE [gen EXCEPT ![v].status = "pending"]
     /\ UNCHANGED <<current, shown, job, troubles, history>>

\* The answer is valid, and the generation saved.
Answer(x, text) ==
  LET v == ex[x].version
  IN /\ ex[x].pc = "asking"
     /\ text \in Outputs => ArticleOf(v) \notin Hopeless
     /\ text = Empty => ArticleOf(v) \in Hopeless
     /\ gen' = [gen EXCEPT ![v] = [status |-> "completed", output |-> text]]
     /\ ex' = [ex EXCEPT ![x] = [@ EXCEPT !.pc = "saving", !.text = text]]
     /\ answered' = answered \cup {v}
     /\ UNCHANGED <<current, shown, job, troubles, twins, missed, raced>>

\* An exception, also that of the budget, marks the generation; a refusal of the
\* budget leaves the job its attempts.
Fail(x, refused) ==
  LET v == ex[x].version  j == JobOf(x)
      over == ~ refused /\ GivenUp(job[j])
      after == [status |-> IF over THEN "failed" ELSE "pending",
                attempts |-> IF refused \/ over THEN 0 ELSE job[j].attempts, owner |-> Nobody]
  IN /\ ex[x].pc = "asking"
     /\ IF ArticleOf(v) \in Hopeless THEN UNCHANGED troubles ELSE Trouble
     /\ gen' = [gen EXCEPT ![v].status = "failed"]
     /\ job' = IF Mine(x) THEN [job EXCEPT ![j] = after] ELSE job
     /\ ex' = [ex EXCEPT ![x] = Idle]
     /\ UNCHANGED <<current, shown, history>>

Save(x) ==
  /\ ex[x].pc = "saving"
  /\ zh' = [zh EXCEPT ![ex[x].version] = ex[x].text]
  /\ ex' = [ex EXCEPT ![x].pc = "filling"]
  /\ UNCHANGED <<current, item, index, job, gen, troubles, history>>

\* Fault: every version is indexed.
OnTopAlways(v) == TRUE

OnTop(v) == v = Current(ArticleOf(v))

\* sync_brief_localizations(), and the article is read again.
Fill(x) ==
  LET v == ex[x].version
  IN /\ ex[x].pc = "filling"
     /\ item' = [item EXCEPT ![v] = Filled(@, v, ex[x].text)]
     /\ missed' = missed \cup {u \in {v} : Unfilled(u)}
     /\ ex' = [ex EXCEPT ![x] = [@ EXCEPT !.pc = IF OnTop(v) THEN "indexing" ELSE "ending",
                                          !.text = zh[v]]]
     /\ UNCHANGED <<current, zh, index, job, gen, troubles, twins, answered, raced>>

\* index_article() with the article as it was read.
Index(x) ==
  LET v == ex[x].version
  IN /\ ex[x].pc = "indexing"
     /\ index' = [index EXCEPT ![ArticleOf(v)] = [version |-> v[2], zh |-> ex[x].text]]
     /\ ex' = [ex EXCEPT ![x].pc = "ending"]
     /\ UNCHANGED <<current, zh, item, job, gen, troubles, history>>

Complete(x) ==
  /\ ex[x].pc = "ending"
  /\ job' = IF Mine(x) THEN [job EXCEPT ![JobOf(x)] = [NoJob EXCEPT !.status = "completed"]] ELSE job
  /\ ex' = [ex EXCEPT ![x] = Idle]
  /\ UNCHANGED <<current, shown, gen, troubles, history>>

\* What was asked is lost; a saved text may not have reached the briefings.
Crash(x) ==
  /\ ex[x].pc # "idle" /\ Trouble
  /\ missed' = missed \cup {v \in {ex[x].version} : ex[x].pc = "filling"}
  /\ ex' = [ex EXCEPT ![x] = Idle]
  /\ UNCHANGED <<current, shown, job, gen, twins, answered, raced>>

-----------------------------------------------------------------------------

Work(x) == Read(x) \/ (\E text \in Outputs : Answer(x, text)) \/ Save(x) \/ Fill(x)
           \/ Index(x) \/ Complete(x)

Next ==
  \/ \E a \in Articles : NewVersion(a)
  \/ Prepare
  \/ \E k \in Keys : Backfill(k)
  \/ \E j \in Keys \X Versions : Manual(j)
  \/ \E v \in Versions : Draft(v)
  \/ \E v \in Versions : PrintItem(v)
  \/ \E x \in Workers, j \in Keys \X Versions : Take(x, j)
  \/ \E j \in Keys \X Versions : Expire(j)
  \/ \E j \in Keys \X Versions : Purge(j)
  \/ \E x \in Workers : Work(x)
  \/ \E x \in Workers : Answer(x, Empty)
  \/ \E x \in Workers, refused \in BOOLEAN : Fail(x, refused)
  \/ \E x \in Workers : Crash(x)

Spec == Init /\ [][Next]_vars

\* The code runs prepare_ai every ten minutes, workers poll, sweeps and purges
\* recur, a call ends.  That every job gets its turn (SF) assumes that budget and
\* workers suffice: claim() takes the newest of a priority first.
Fairness ==
  /\ WF_vars(Prepare)
  /\ \A j \in Keys \X Versions :
       /\ SF_vars(\E x \in Workers : Take(x, j))
       /\ WF_vars(Orphaned(j) /\ Expire(j))
       /\ WF_vars(Purge(j))
  /\ \A x \in Workers :
       /\ WF_vars(Work(x))
       /\ WF_vars(ArticleOf(ex[x].version) \in Hopeless
                    /\ (Answer(x, Empty) \/ \E refused \in BOOLEAN : Fail(x, refused)))

FairSpec == Spec /\ Fairness

-----------------------------------------------------------------------------
(* Properties. *)

\* What the provider answered once is not asked, and paid, again; only a second
\* execution that was under way at the same time asks too, and its failure takes
\* the mark of the answer away (services.py:220-243).
PaidOnce == \A v \in answered \ twins : gen[v].status = "completed"

\* docs/architecture.md:23: the Chinese snapshot of a briefing is filled once; a
\* second execution with another text does not touch it (services.py:254-260).
SnapshotOnce ==
  [][\A v \in Versions :
       item[v].state # "none" /\ item[v].zh # Empty => item'[v].zh = item[v].zh]_vars

\* The same passage: a briefing does not stay in the original language.  The text
\* of a version reaches its items whether they are printed before or after it; only
\* a briefing that had read the version and not committed when its items were
\* filled, or a crash between the two writes, is left out (services.py:306-308).
SnapshotFilled ==
  \A v \in Versions :
    item[v].state = "printed" /\ item[v].zh = Empty /\ zh[v] # Empty
      => \/ v \in missed
         \/ \E x \in Workers : ex[x].pc = "filling" /\ ex[x].version = v

\* The search finds an article by its current version, although executions of an
\* older one end later; only a version that arrives between an execution's look at
\* the article and its write is covered by it (services.py:309-311).
IndexFollows == \A a \in Articles \ raced : index[a].version = current[a]

\* Whatever fails, crashes or is lost on the way, an article gets its Chinese text
\* or a newer version, as long as fewer than FIRST articles have no usable answer:
\* prepare_ai() offers only the first ones, and those whose jobs failed keep their
\* places (services.py:904-942).
Translated ==
  \A a \in Articles \ Hopeless, n \in 1 .. MAX_VERSION :
    current[a] = n ~> (zh[<<a, n>>] # Empty \/ current[a] # n)

=============================================================================
