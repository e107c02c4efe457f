# A formal model of TrendRadar NewsDigest

TrendRadar NewsDigest is a private news workstation: it crawls RSS feeds, keeps
versioned articles, has them translated and linked into events by an AI
provider under a daily token budget, publishes briefings, and answers questions
to its archive. It is one Django code base on one PostgreSQL database, run as
several processes (web, scheduler, and workers for the queues `collect`, `ai`
and `maintenance`). All that these processes share is in the database, under
READ COMMITTED: the modules here are about what happens when their statements
interleave, processes die, leases run out and clocks cross midnight.

Line references are to files under `src/`; `tasks.py` is `app/core/tasks.py`,
`views.py` is `app/core/views.py`, `storage.py` is `app/core/storage.py`, and
`services.py` without a directory is `app/ai/services.py`.

## Inventory

| Component | State | Operations | Hard behaviour | What makes it correct |
|---|---|---|---|---|
| Job queue (`tasks.py`) | table Job, `paused`, `ai_concurrency`; in each worker the claimed job and a heartbeat thread | `enqueue`, `claim`, `execute`, heartbeat, purge, settings | leases against stalls and crashes, late results, racing producers, a claim that waits for a lock with an old `now` | a heartbeat on schedule keeps its claim; attempts are bounded; results stand; limits and the pause hold; running rows end |
| Token budget (`services.py`, UsageDay) | per day: used, reserved, the same per lane | `reserve`, `settle` around each provider call | overlapping calls, leaks by crashes, midnight between the two, a limit that changes, rounding | no day passes its limit; the tenth for urgent calls is there; lanes keep pace; settlements find their reservation |
| Feeds and crawler (`crawler.py`, `tasks.py`) | table Feed, DomainLease; in a crawl the row it read | `collect`, scheduling of feeds, `boost`, feed form | read, long network call, save; a lease that is not renewed; overtaking crawls | hosts are not crawled twice within a lease; ETags never skip entries; feeds stay in rotation |
| Briefings and their schedule (`briefs/services.py`, `tasks.py`) | Briefing, BriefItem, `last_schedule`, `briefing_times` | `schedule_once`, `generate`, revision | downtime, two schedulers; jobs run late, twice, out of order; articles committed late | windows join, a version is news once, nothing is passed over, every slot gets a job |
| Ingestion (`news/services.py`, `importer.py`) | Article, ArticleVersion, FeedIdentity, Tombstone | `ingest`, live and imported | advisory lock per URL, identities under two URLs, imports out of order, deletion in between | imports cover nothing newer, what was deleted does not return |
| Retention (`storage.py`) | the same tables, and all that refers to versions | `maintain`: batches of old articles, superseded versions, tombstones | references added after the last check | referenced versions survive |
| Capacity and settings (`storage.py`, `views.py`) | `paused`, `last_backup` of SiteSettings | `maintain`, settings form, `backup-complete` | saves of rows read long before | the pause follows the space; a recorded backup is remembered |
| Events and timelines (`events/services.py`, `services.py`, `views.py`) | Event, Candidate, Node, NodeReport, EventReview | `discover`, `confirm_node`, create, edit, remove, merge, split, `event_ai`, scans for major events, audit | human and automatic decisions interleave over slow AI calls, jobs run twice, articles get new versions | confirmed nodes have reports; decisions are kept; an article is published once; a review says "selected" of what went into an event |
| Enrichment (`services.py`) | Generation, `title_zh`, the items of briefings, the search index, enrich jobs | `structured`, `enrich_article`, `sync_brief_localizations`, `prepare_ai`, `queue_backfill`, a person's command | one generation in two executions, new versions in between, failed jobs that fill the first 40 places | a paid answer is kept; snapshots are filled once; the search follows the current version; every article gets its turn |
| Archive answers (`services.py`, `views.py`) | Job, Message | `api_answer`, `answer_archive`, `job_stream` | check then enqueue, previews of superseded executions, retries | a completed job shows a stored answer; what the page was told is final; one open question; one answer |
| Backup (`deploy/backup.py`) | the archives in a folder, `last_backup` | stream, verify, rotate, record | two backups at once, death between deletions, clocks that go back | the archives promised are there; a recorded backup can be restored |
| Login throttle (`auth.py`) | LoginAttempt | `post` | concurrent attempts, reset by success | see "Not modelled" |
| Search, partitions, command line, verification, UI | | | | see "Not modelled" |

How they interact: producers (views, scheduler, `ingest` on commit, `prepare_ai`,
`discover`, `generate`) call `enqueue`; a worker's `claim` and `execute` run
`collect`, `generate`, `maintain`, `discover`, `prepare_ai` or one of the AI
jobs; every AI job calls `structured` or `response_call`, which reserve and
settle tokens; `BudgetExceeded` goes back to `execute`, which postpones the job.
`maintain` deletes what is not protected, and a pending or running job protects
its articles. `SiteSettings` is the shared singleton: its row lock serialises
claims of the limited queues and the scheduler, `maintain` writes the pause, the
settings form writes the rest.

The hazards found while reading, each at its line, are in `PROJECT.json`.

## Modules

A specification has one variable per table or per kind of process, and one
action per statement or short transaction. What a process keeps in memory
between two transactions is in the record of the process (`wk`, `call`, `cr`,
`gen`, `an`, `sc`, `ing`, `ex`, ...), so a value that is read, kept and used
later can be old when it is used. Variables marked "(history)" in the modules are
written by actions and read only by properties: they say which exceptions a
property makes, no more.

* `JobQueue`: the queue. `row` is the table Job, `wk` a worker process with what
  `execute` keeps in memory, `req` an `enqueue` between its read and its UPDATE.
  `Create`, `EnqueueRead`, `EnqueueWrite` (`enqueue`); `PausedPoll`, `ClaimBegin`,
  `ClaimNothing`, `Take`, `ClaimAbort` (`claim`); `Beat`, `LoseBeat`, `LateBeat`,
  `Succeed`, `Fail`, `Defer`, `Crash` (`execute` and its thread); `Purge`,
  `SetPaused`, `SetConcurrency`. Time is relative (`lease` is `lease_until - now`),
  so `Tick` never runs out. `claim` captures `now` once and may then wait for the
  settings row up to the lock timeout: `wk[w].lag` is the age of that instant.
* `JobLifecycle`: the abstract specification. Per key: which state follows which,
  and on whose word; a claim that keeps its heartbeat (`sheltered`) ends only by
  its own report. `JobQueue!Lifecycle` instantiates it with a refinement mapping;
  `ImplementsLifecycle` is checked as a property and proved.
* `TokenBudget`: `usage` is the table UsageDay, `call` a provider call: `Ask`
  (limit and date are read before the row lock), `Admit` or `Refuse` under it,
  `Settle`, `SettleUnknown`, `Crash`; `SetLimit`, `LaterToday`, `Midnight`.
  The shares of LANE_LIMITS and the part kept for urgent calls (URGENT_PART, 10
  in the code) are constants, so that what holds for any of them is told apart
  from what holds for the present ones, and so that a limit of 4 or 6 has such a
  part in a small instance.
* `Crawler`: `feed` and `lease` are tables, `cr` a run of `collect` with the row
  it read, `form` the feed form with the row it read. `Start`, `Enter`, `Busy`,
  `Fetched`, `Ingested`, `NotModified`, `RateLimited`, `Broken`, `Save`, `Crash`
  follow `collect`; `Schedule` is the feed loop of `schedule_once` with SKIP
  LOCKED; `Boost`, `EditOpen`, `EditSave`, `Request`, `Publish` are the others
  who act. The queue appears as jobs that wait, are held, return or are lost,
  which is what `JobLifecycle` allows.
* `Briefing`: `last`, `sched` and `queued` are `last_schedule`, the schedulers with
  the instant they captured, and the brief jobs; `article` is the table Article
  with its current version, `incoming` a version that is stamped and not yet
  committed; `gen` is a run of `generate` with the briefing it makes, `briefings`
  the published ones, `imported` those of the former system. `ScheduleBegin`,
  `ScheduleCommit` are `schedule_once`; `Stamp`, `Store`, `IngestFails` the part of
  `ingest` that matters here; `BeginScheduled`, `BeginManual`, `BeginRevision` the
  three ways into `generate` (which ends at once when the briefing is there);
  `Read`, `Commit`, `Abort` the rest of it; `Import`. A new briefing's number and
  start are described by the values they may have (`Numbered`, `Follows`), which
  is what the two queries with `first()` find.
* `Archive`: ingestion composed with retention. `Look` (tombstones), `Map` (the
  advisory lock, identity and article), `SaveKnown` or `SaveNew` (the row lock and
  all writes), `Abort` follow `ingest`, for live items and for imported ones, which
  bring their own stamps. `Select`, `Recheck`, `Delete`, `RollBack` are a batch of
  `maintain`; `DropVersion`, `ExpireTombstones` the rest of it. `Pin`, `Quote`,
  `Unpin`, `AddJob`, `EndJob` are those who refer to an article: favourites, items
  of briefings, confirmed nodes, and jobs.
* `Timeline`: the rows of events, candidates, nodes with their reports, and reviews.
  A person's command is one transaction and one step: `EditEvent`, `CreateNode`,
  `RejectCandidate`, `Confirm`, `DropDraft`, `RemoveNode`, `MergeNodes`,
  `SplitNode`, `EditNode`. `event_ai` reads (`Analyse`), waits, and ends with
  `Filter`, `Publish`, `Overtaken` (the decision is there) or `Abandon`; a node that
  it finds under its key, made by itself or left as a draft by an earlier release, is
  confirmed as people have left it. A scan (`ScanNews`, `Audit`) reads, waits, and
  `Apply` is the whole of `apply_major_event_scan`: the proposals one after the other
  (`Through`), then the retirements, then the reviews. `Discover`, `Age`, `Revise`, `ExpireCandidate`
  are the background.
* `Enrichment`: `zh`, `item`, `index` are the three places that show a translation,
  `gen` the table Generation, `job` the enrich jobs, `ex` the executions. `Read`,
  `Answer`, `Fail`, `Save`, `Fill`, `Index`, `Complete` are the commits of
  `enrich_article` with `structured`; `NewVersion`, `Prepare`, `Backfill`, `Manual`,
  `Draft`, `PrintItem` those who ask for texts or show them; `Take`, `Expire`,
  `Purge`, `Crash` the queue, as `JobQueue` has it without times and priorities.
* `Operations`: the row SiteSettings with the settings form, `maintain` and the
  record of a backup (`OpenForm`, `SaveForm`, `RefuseForm`, `StartKeeper`, `FreeSpace`,
  `Measure`, `KeeperDies`, `Space`), composed with the backups on the workstation
  (`Stream`, `SaveArchive`, `List`, `Unlink`, `Mark`, `GiveUp`). Which archives are
  kept is the operator `Kept`.
* `Answers`: `Check`, `Ask` are the two halves of `api_answer`; `Delta`, `Tools`,
  `Answer`, `Fail`, `Complete`, `Crash` an execution of `answer_archive` within
  `run_job`; `Take`, `Expire`, `Purge` the queue; `Watch` what the page is told.
* `JobQueueProofs`, `TokenBudgetProofs`, `CrawlerProofs`, `BriefingProofs`,
  `TimelineProofs`, `EnrichmentProofs`, `AnswersProofs`, and `StorageProofs` for
  `Archive` and `Operations`, the two sides of `maintain`: the inductive invariant of
  each of these modules, a lemma per action, and theorems.
* `MCJobQueue`, `MCTokenBudget`, `MCCrawler`, `MCBriefing`, `MCArchive`,
  `MCTimeline`, `MCEnrichment`, `MCOperations`, `MCAnswers`: instances for TLC.

The queue appears in four modules, in full only in `JobQueue`. `Crawler`,
`Enrichment` and `Answers` use what their own properties need of it: that a job
may be executed twice, that a result is fenced by its owner, and that attempts
are counted. The refusal of the budget is in them one of the ends of a call.

A definition whose comment begins with "Fault" is a variant of the next one with
one plausible bug. Nothing uses it; put in the place of the right definition it
makes a property fail, which shows that the property is about the code.

## Runs

| Run | Question | Bounds |
|---|---|---|
| `queue_limits` | bounded retries, a heartbeat that keeps its claim, no twin execution under it, prompt pause, growth within `ai_concurrency` while it changes | 2 jobs, 2 workers, lease 4, beat 1, lock timeout 1, 2 attempts, limits 1 and 2 |
| `queue_recovery` | no job stays running for ever; completed stands; refinement of the life cycle, with a producer that races | 1 reopenable job, 2 workers, 1 producer, fairness |
| `budget` | daily limit, urgent part, pace of the lanes, settlements across midnight, limit changing | 2 callers, 2 days, 2 lanes, reservations of 4, responses that use 2 or 5, limits 8 and 12, half of it for urgent calls |
| `crawler_hosts` | second crawl of a host only after the lease; no entry skipped by an ETag | 1 feed, 2 crawlers, lease 2, 2 documents after the first |
| `crawler_rotation` | feeds stay in rotation | 1 feed, 1 crawler, boosts and edits, fairness |
| `briefing_windows` | windows that join, news once, nothing passed over, slots answered | 2 articles of one feed with room for one, 2 generators, 1 scheduler, 2 slots, 3 briefings, 2 versions in all, 1 imported briefing |
| `archive_retention` | referenced versions stay; imports cover nothing newer; what was deleted stays away for a month | 2 URLs, 1 GUID they share, 2 texts, 2 ingestions, 1 batch, 2 instants |
| `timeline_events` | evidence, decisions and publication once, beside a scan and with drafts of an earlier release; reviews that match what a scan used | 2 articles of two feeds, 2 events, 2 nodes, 2 versions, 2 executions of event_ai, 1 scan with 2 proposals, 2 commands of a person |
| `enrichment_twins` | a paid answer is kept; snapshots filled, and once; the search follows the current version | 1 article with 2 versions, 2 executions, 2 outputs, 2 attempts, 2 troubles |
| `enrichment_liveness` | every article gets its text | 2 articles, one without a usable answer and first in order, a window of 2, 1 worker, 2 troubles, fairness |
| `operations_backup` | the pause follows the space; the record is remembered; rotation keeps what is promised; a recorded backup can be restored | 2 backups, 4 stamps in weeks of two, 1 kept and 2 weeks, 1 record, fairness |
| `answers_stream` | completed means stored; what was told is final; one open question; one answer | 2 questions, 2 workers, 1 round of tools, 2 attempts, 4 troubles |

Why the bounds are enough. Ticks are coarse but keep the order the code relies
on: beat plus twice the lock timeout is less than a lease, as 20 + 5 + 5 < 90.
A lease stops falling once no claim can tell its values apart, so no behaviour
is cut off by a last instant. Two workers and one job are what a race over a
claim takes (the holder and the usurper), two jobs what a limit or a joint sweep
takes. Two attempts give a first, a retried and a last attempt. For the budget
half of 8 or of 12 is kept for urgent calls, of 12 for one call and what two calls
can use beyond their reservations (the slack that the properties allow), and two
calls of the other lane would take it if they could; two callers overlap in every
order, and crashes leak reservations at will. In `crawler_hosts` a crawler that ends late can itself be
the third party that a wrongly ended lease lets in, so two suffice. The bounds
MAX_QUEUED and MAX_DOCUMENT cap counters; MAX_FAILURES is 8 in the code and is
only the last place of the table of delays.

In `briefing_windows` three briefings are what it takes for a late job to publish
one between two others; two articles of one source meet the limit; two versions
are one article that changes after it was briefed, or two that compete; HORIZON
leaves an instant between the two slots for a manual briefing and for an import.
A second scheduler overlaps nothing but `last_schedule`, and is left to the proof
(`SlotsHaveJobs`). All instants lie within DAY, the length of the first window.
This leaves out one case: the very first briefings of an installation, when the
job of the earlier is executed after another one that ends more than 24 hours
later has been published; then the first window of 24 hours of each is all there
is, and the time between the two is in no briefing.

In `archive_retention` two URLs with one GUID are the least that the lock by URL
does not serialise; two texts are a current and a superseded version, two stamps
an older and a newer one. In `timeline_events` two analyses are an execution and
its successor, two nodes are a source and a target, two articles of different
feeds are what founds an event; two commands are what a person needs to decide
and to revise the decision while the AI waits. They also reach the draft that a person
merged with a node of the scan and that then overrides a rejection; longer sequences
of merges and splits are left to the proofs. In `enrichment_twins` two outputs
are an answer and one that differs, two versions a current and a superseded one.
In `enrichment_liveness` the window is one more than the articles without an
answer, the least that can work; with a window of one the property fails. In
`operations_backup` four stamps in weeks of two are two whole weeks, one kept
archive meets a week's last one and differs from it. In `answers_stream` four
troubles exhaust the attempts of one question twice, or of both once.

Deadlock is checked except in two runs. In `timeline_events` a person's commands are
bounded, so the model stops where the system would go on. In `answers_stream` the questions are finite, and all of them may be answered, told and purged.

Symmetry is used over owners, workers of one queue, crawlers, generators and other
executions, questions, and the articles of `briefing_windows`, in runs without
liveness properties.

Fairness. `JobQueue!FairSpec`: time passes; an idle worker polls (every 2 s) and
its claims do not all end by the lock timeout; a thread on schedule beats; a
dispatched job ends, since every network call and statement has a timeout.
Nothing is assumed of producers, and crashes and stalls may happen at any time.
`Crawler!FairSpec`: time passes and the scheduler, which looks every 15 s, does
not find a feed's row locked every time; workers and administrators are free to
stop. `Enrichment!FairSpec`: `prepare_ai` is enqueued every ten minutes, sweeps
and purges recur, a call ends. Strong fairness of `Take` says that every job gets
its turn: `claim` takes the newest of a priority first, so this assumes that
budget and workers keep up with what comes in; and the site is not paused for
ever. `Operations!FairOpsSpec`: a capacity job is added every hour, also while the
site is paused (strong fairness of `Measure`: it is not killed each time).

Bounds on rare events (`troubles`, `commands`, `marks`) limit how many happen, not
when. For `Translated` the bound is part of the statement: failures must end.

## Proofs

`JobQueueProofs` proves, for any jobs, workers, producers and timing constants that
satisfy the assumptions of `JobQueue` (the essential one, LeaseAssumption, is BEAT +
2 LOCK_TIMEOUT < LEASE): TypeCorrect, RetriesBounded, HeartbeatSuffices,
ExclusiveExecution, PauseIsPrompt, LimitsHold, ResultStands and
QueueImplementsLifecycle. The inductive invariant `IInv` is needed because none of
these is inductive: that a beating execution keeps its claim rests on
`BeatKeepsLease` (at most one lock timeout of the lease was lost to a slow claim and
at most one period to the wait for the next beat), on `ClaimsDistinct` (tokens are
used once) and on `ClaimMatches` (a worker whose token is still on the row works on
that very attempt), which also gives the bound on attempts when a late failure meets
the row. `PauseSeen` relates the age of a claim that passed the pause check to the
age of the pause. Each action has a lemma; `NextIInv` combines them. `LimitsHold`
has one claim behind any growth of a limited queue, and bounds all rows that run
after it but those whose lease ends on the very instant it captured: such a lease is
neither expired nor counted, and one job more than the limit can start.

`TokenBudgetProofs` proves, for any callers, days, limits, shares, urgent parts
and hours that satisfy BudgetAssumption, and however much responses exceed their
reservations: TypeCorrect, ReservationsThere, WithinLimit, UrgentFindsTenth and
LanesInPace. `reserve` is a forecast and `settle` books whatever the provider
reports, so a limit can be passed; the theorems say by how much: N * OVERRUN, what
the calls that were under way at once used beyond their reservations, on a whole day
and not per call. There are two invariants. `BookInv` keeps the books: a day's
columns are the sums over its lanes, and each lane has reserved at least what its
open calls are owed. The sum over callers is given by a function of partial sums,
which a call changes from its own place onwards, so no induction over the callers is
needed. On it rests `BoundInv`: totals, routine lanes together below what is not kept
for urgent calls (`TenthKept`), pace, and untouched rows of later days, which put
every lane in pace at midnight. Each bound has a margin of OVERRUN for every caller
that has no call under way there: a call that settles adds to the margin what it may
add to the row, and a call that is let in takes its share back when the row is below
the limit itself, so the excess never adds up.

`BriefingProofs` proves, for any articles, generators, schedulers, slots and limits
that satisfy BriefingAssumption: TypeCorrect, WindowsJoin, OnceNews, AllConsidered
and SlotsHaveJobs; the last four are the properties of `briefing_windows`. None of
them but the last is inductive. `Complete` strengthens NoGap to the whole day up to
the end of any briefing; a new window keeps it because of `Anchored` (a window in
the making starts where a briefing ends, or before the day) and because nobody else
publishes in between (`Alone`, the advisory lock). `FreshItems` says that what is
being written is in no briefing yet, which gives NewsOnce at the commit. For
NothingMissed the open ends have to be followed: `RunComplete` and `RunNoted` say of
a briefing that is read and not committed what NothingMissed and `LateNoted` say of
the published ones, for articles that are there and for versions that are incoming;
`Past` (nothing is known of the future) keeps a new stamp, which is later than now,
out of every window.

`QueueImplementsLifecycle` shows that `JobQueue` implements `JobLifecycle`, and
`ResultStands` (CompletedStands) follows from it: in each step every key stays, or
goes one way of the lifecycle (`NextMove`, by cases on the actions). The heartbeats
make the mapping hard: `sheltered` may fall at any time, but a claim may be
withdrawn only after it fell. `SweptMove` has that from `BeatKeepsLease` (a sheltered
claim has more left than any claim can have waited), `FinishMove` from
`ClaimMatches` (whoever still owns the row reports on a running or a given-up
attempt), and `TakeMove` makes a new claim from a token that is nowhere in use.

`CrawlerProofs` proves, for any feeds, hosts, crawlers, leases and documents that
satisfy CrawlerAssumption: TypeCorrect, OneCrawlPerLease and NoEntrySkipped. `Held`
is the strengthening of the first: a crawl that has not outstayed its lease is the
owner of the lease of its host, which has exactly the rest of its time left; two
such crawls would be two owners. `Known` follows the ETag through every place that
can write it back: the row, the memory of each crawl, and the open form.

`StorageProofs` proves of `Archive`, for any URLs, GUIDs, texts, items and ingestions that satisfy
ArchiveAssumption: TypeCorrect, ReferencesSafe, ImportsKeepNewer and DeletedStaysAway.
`StoredRow` says once what storing a version does to an article. `Looked` is what
DeletedStaysAway needs of an ingestion under way: nothing with one of its keys was
deleted, or it is recorded that the deletion came after its look; `Buried` says that
every deletion of the last month has its tombstones.

`TimelineProofs` proves, for any articles, sources, executions and scans, and any
numbers of events, nodes, versions, proposals and commands that satisfy
TimelineAssumption: TypeCorrect, EvidenceStays, SelectionsStand, DecisionsStand and
PublishedOnlyOnce, so the properties of its run. Three parts of the
invariant make them inductive. `GoodNodes`: a row that is in use has reports, and no
two nodes share a key; a split keeps a report on each side because sets of versions
are finite. `Published`: an article that a node of event_ai was made for is decided in
its event for good; so an execution that finds its candidate pending finds no such
node (`PublishFirst`), and a node under its key can only be a draft, which is how
DecisionsStand gets to its one exception for event_ai (`PublishDecision`). `Covered`
is what a step needs on its way there: a node that is made is a node of event_ai
before its candidate is accepted. `Asked` gives the types. The actions of a person,
of event_ai and of a scan share `PutNode` and `StillPublished`, which say once what
writing one row does, and the first two `ConfirmedMove`, what confirming a node does.

The loop over the proposals of a scan (`Through`) is a recursive function. That it is
defined for a sequence of any length (`StepsExist`), and that each of its steps keeps
the tables good (`ThroughMove`), are inductions; they are made without the library's
induction theorems, whose parameter is an operator, by looking at the least number
for which the claim fails (`LeastElement`, from the theorem on well-founded orders).
`Adopted` is the loop's invariant: good tables, decisions that stand, one free row
for each proposal to come, nothing decided but articles of the request, and
everything that was used decided. `ProposedMove` is its step.

`EnrichmentProofs` proves, for any articles, versions, workers and answers that satisfy
EnrichmentAssumption (there is at least one article): TypeCorrect, AnswersPaidOnce,
SnapshotsFilled, SearchFollows and SnapshotsFinal. `Answered` says of a lone execution
that it does not ask for what was answered; `Met` that those who meet are recorded.
SnapshotsFilled is not inductive: it needs `Consistent` (two executions of one version
have the same kind of text, so a fill cannot put an empty one into an item), and
`Pending`, which says the same of an item that is drafted and not yet printed.
`Indexing` carries SearchFollows from the look at the article to the write.

`StorageProofs` proves of `Operations`, for any number of backups, stamps, archives and weeks to keep
that satisfy OperationsAssumption: OpsTypeCorrect, RotationSafe, CanRestore and
LastBackupKnown. The rotation is computed from what is on disk, the promise is about
all archives ever made, and another backup works from an older list: `Doomed` says
that what is on a list is expendable among all that were made, which stays true as
more are made. Since RotationKeeps itself puts the newest archives and weeks on disk,
what a new list dooms among the files is expendable among all. The maximum of a set
of stamps exists by the library's theorem on well-founded orders.

`AnswersProofs` proves, for any questions, workers, rounds, attempts and failures:
TypeCorrect, AnswersStored, WordStands, OneOpenQuestion and OneAnswer. None is
inductive. `Executing` says that an execution which owns a job that is no longer
running was given up by a sweep (`hasty`), so only such a job comes back after the
page was told its end; `Alone` and `Answering` say that a question which lost no lease
has its job running under its only execution, which goes straight from the stored
answer to the completion; `Overlapping` follows the requests that have looked and not
asked yet.

The type invariants of these modules are theorems; only that of `Archive` is in a run,
since it says more than types (an article has a current version, and it is there).

Only model-checked:

* The liveness properties `RunningEnds`, `FeedsKeepComing`, `Translated` and
  `PauseFollowsSpace`: liveness under fairness is out of the prover's reach. Every
  other property of a run is a theorem.

## What the properties leave room for

The models contain some behaviour that the documentation does not suggest. No
property forbids it; where one would be too strong it names the exception.

* A job given up at its last attempt can come back. The sweep fails the job but
  leaves its owner on the row (tasks.py:50-52); when the execution that lost the
  lease then ends with `BudgetExceeded`, its UPDATE still matches and the failed
  job is pending again with no attempts counted (tasks.py:138-144).
  docs/architecture.md:19 speaks of at most 4 retries. (`hasty` in `Answers`.)
* A lease that ends on the very microsecond that a claim captured is neither swept
  nor counted by it (tasks.py:49, 56-67), so one job more than the limit may start.
  (`Tied` in `GrowthWithinLimit`.)
* A call uses more tokens than were reserved for it when the estimate was too small
  (services.py:150-153); a day can pass its limit by what the calls under way at once
  use beyond their reservations. (`Slack` in `TokenBudget`.)
* A crawl that takes longer than the lease of 3 minutes, which is not renewed, is
  joined by a second crawl of the same domain (crawler.py:54);
  docs/architecture.md:21 has one at a time. (`SecondCrawlOnlyAfterLease` is what
  holds.)
* A boost that meets a crawl under way is overwritten with the `next_fetch` the
  crawl had read (crawler.py:123); docs/architecture.md:21 names 2 minutes.
* The first new version of a scheduled briefing is number 1 again: `generate`
  looks for the former version by the text of its end (briefs/services.py:20-24),
  in local time for a scheduled briefing (tasks.py:195, 204) and in UTC when it
  comes from the database (views.py:404).
* A scan for major events sets candidates to accepted that a person had rejected,
  also while the scan waited (services.py:562); docs/architecture.md:27 has manual
  changes kept. (The second exception of `DecisionKept`.)
* `event_ai` confirms the node that it finds under its key as it is
  (services.py:377-389). A draft of an earlier release into which a person merged
  other reports takes their candidates along, rejected ones too (the third exception
  of `DecisionKept`). When the person moved the article itself out of it, the draft is
  confirmed and the candidate stays pending, so the article is asked about again; what
  `PublishedOnce` says does not count such a draft.
* When 40 articles have no usable answer, `prepare_ai` offers no others until
  their jobs are purged after 14 days (services.py:924). (The premise of
  `Translated`.)
* Two requests that overlap both pass the check for an open question
  (views.py:550). (`overlapped` in `Answers`.)
* An article deleted between an ingestion's look for tombstones and its write is
  stored again (news/services.py:116). (`late` in `Archive`.)

## Plan

Done: all modules and their proofs: each safety property that a run checks is a
theorem, and so is the refinement of `JobLifecycle`.

Worth doing next, in this order:

1. `Crawler`, `Enrichment` and `Answers` each have a smaller queue of their own. That
   these allow whatever `JobLifecycle` allows is argued above and not stated.
2. `refresh_overview` with its text, which two transactions can write in either order.

## Not modelled

* Search, cursors, parsing and cleaning of feeds, prompts and the provider's
  protocol, rendering, statistics: computations without shared state.
* Texts, citations and the archive's search in `Answers`; questions and apologies
  are stored as messages too, also once more by each retry (services.py:712).
* Drafts and their reports in `Archive`: a draft's reports do not protect an
  article. The tables of a node are in `Timeline`, where articles are not deleted.
* `refresh_overview` in `Timeline` beyond its time: it overwrites the overview
  of an event with what it was asked to write.
* Priorities and times of the queue outside `JobQueue`, shares and lanes outside
  `TokenBudget`.
* The login throttle: one row under one lock.
* Partitions, migrations, installation and deployment scripts, the command line,
  the benchmark and the verification commands: run once, by one person, or
  without state of their own.
* The user interface.
