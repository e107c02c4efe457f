------------------------------ MODULE Crawler ------------------------------
(***************************************************************************)
(* Feeds and their crawls: collect() of app/news/crawler.py with the lease *)
(* on a host, the feed part of schedule_once() in app/core/tasks.py,       *)
(* boost() of app/events/services.py and the feed form of                  *)
(* app/core/views.py.  Every one of them reads a Feed row, works, and      *)
(* saves some of its columns.                                              *)
(*                                                                         *)
(* A tick is a minute.  Instants are kept as the ticks left until then:    *)
(* feed[f].due is next_fetch - now, feed[f].boost is boost_until - now,    *)
(* lease[h].until is until - now, and 0 stands for the past.  An instant   *)
(* in the memory of a crawl or a form comes nearer in the same way.        *)
(*                                                                         *)
(* The queue is JobQueue as seen from here: collect jobs of a feed wait,   *)
(* are in the hands of a crawl, come back after a failure or a lost lease, *)
(* or are given up.  The document of a feed is a number that grows.        *)
(*                                                                         *)
(* A definition marked `Fault' is a variant of the one that follows it, in *)
(* which one thing is wrong and which must break a property.               *)
(***************************************************************************)
EXTENDS Integers

CONSTANTS
  Feeds, Hosts,
  Edited,      \* the feeds an administrator boosts and edits
  Host,        \* the host name in the URL of each feed
  Crawlers,    \* the collect workers
  Nobody,      \* owner = ""
  NoFeed,      \* what an idle crawler or a closed form has open
  LEASE,       \* 3 minutes
  INTERVAL,    \* Feed.interval_seconds, at least 120 seconds
  BOOSTED,     \* 120 seconds
  BOOST_FOR,   \* 6 hours
  MAX_FAILURES,   \* 7, past which failures make no difference
  BACKOFF,     \* failures -> min(21600, 120 * 2 ** failures) + random
  RetryAfter,  \* the waits a 429 response may ask for
  MAX_QUEUED,  \* bound on the waiting jobs of one feed
  MAX_DOCUMENT \* bound on the documents a feed publishes

ASSUME CrawlerAssumption ==
  /\ Host \in [Feeds -> Hosts] /\ Edited \subseteq Feeds
  /\ Nobody \notin Crawlers /\ NoFeed \notin Feeds
  /\ LEASE \in Nat \ {0}
  /\ INTERVAL \in Nat /\ BOOSTED \in Nat \ {0} /\ BOOSTED <= INTERVAL
  /\ BOOST_FOR \in Nat
  /\ MAX_FAILURES \in Nat \ {0}
  /\ BACKOFF \in [1 .. MAX_FAILURES -> Nat]
  /\ RetryAfter \subseteq Nat
  /\ MAX_QUEUED \in Nat \ {0}
  /\ MAX_DOCUMENT \in Nat

VARIABLES
  feed,      \* the table Feed
  lease,     \* the table DomainLease
  queued,    \* the collect jobs that wait for a worker, per feed
  minted,    \* when the scheduler last made a key feed:<pk>:<minute>
  cr,        \* the crawlers
  form,      \* the feed form, between the read of its row and the save
  document,  \* the document each feed's server offers now
  stored     \* up to which document all entries of a feed were ingested

vars == <<feed, lease, queued, minted, cr, form, document, stored>>

-----------------------------------------------------------------------------
(* The records. *)

\* etag = 0 is the empty string: no condition is sent.
Row == [enabled : BOOLEAN, due : Nat, boost : Nat, failures : 0 .. MAX_FAILURES,
        etag : 0 .. MAX_DOCUMENT]

Crawl == [pc : {"idle", "entering", "fetching", "ingesting", "saving"},
          feed : Feeds \cup {NoFeed},
          row : Row,                  \* the row as it was read, then edited
          got : 0 .. MAX_DOCUMENT,    \* the document in the response
          age : 0 .. LEASE,           \* ticks since the host was leased (history)
          claimed : BOOLEAN]          \* is the job still this worker's?

NewRow == [enabled |-> TRUE, due |-> 0, boost |-> 0, failures |-> 0, etag |-> 0]

NoCrawl == [pc |-> "idle", feed |-> NoFeed, row |-> NewRow, got |-> 0, age |-> 0,
            claimed |-> FALSE]

Form == [feed : Feeds \cup {NoFeed}, row : Row]

NoForm == [feed |-> NoFeed, row |-> NewRow]

TypeOK ==
  /\ feed \in [Feeds -> Row]
  /\ lease \in [Hosts -> [until : 0 .. LEASE, owner : Crawlers \cup {Nobody}]]
  /\ queued \in [Feeds -> 0 .. MAX_QUEUED]
  /\ minted \in [Feeds -> {"never", "earlier", "now"}]
  /\ cr \in [Crawlers -> Crawl]
  /\ form \in Form
  /\ document \in [Feeds -> 0 .. MAX_DOCUMENT]
  /\ stored \in [Feeds -> 0 .. MAX_DOCUMENT]

Init ==
  /\ feed = [f \in Feeds |-> NewRow]
  /\ lease = [h \in Hosts |-> [until |-> 0, owner |-> Nobody]]
  /\ queued = [f \in Feeds |-> 0]
  /\ minted = [f \in Feeds |-> "never"]
  /\ cr = [c \in Crawlers |-> NoCrawl]
  /\ form = NoForm
  /\ document = [f \in Feeds |-> 0]
  /\ stored = [f \in Feeds |-> 0]

Sooner(n) == IF n > 0 THEN n - 1 ELSE 0
Least(a, b) == IF a < b THEN a ELSE b
Most(a, b) == IF a < b THEN b ELSE a

-----------------------------------------------------------------------------
(* schedule_once(): the feeds *)

\* A collect job of f is pending or running.
InHand(f) == queued[f] > 0 \/ \E c \in Crawlers : cr[c].feed = f /\ cr[c].claimed

\* Fault: the key is feed:<pk>, without the minute.
KeyTakenForever(f) == minted[f] # "never"

\* get_or_create finds the key of this minute: no job is added.
KeyTaken(f) == minted[f] = "now"

Due(f) == feed[f].enabled /\ feed[f].due = 0 /\ ~ InHand(f)

\* SKIP LOCKED passes over the rows that a crawl or the form is saving.
Lockable == {f \in Feeds : form.feed = f \/ \E c \in Crawlers :
                                             cr[c].feed = f /\ cr[c].pc = "saving"}

\* next_fetch advances whether or not a job was added.
Schedule(passed) ==
  LET due == {f \in Feeds \ passed : Due(f)}
      new == {f \in due : ~ KeyTaken(f)}
  IN /\ due # {}
     /\ queued' = [f \in Feeds |-> IF f \in new THEN queued[f] + 1 ELSE queued[f]]
     /\ minted' = [f \in Feeds |-> IF f \in due THEN "now" ELSE minted[f]]
     /\ feed' = [f \in Feeds |->
                   IF f \notin due THEN feed[f]
                   ELSE [feed[f] EXCEPT !.due =
                           IF feed[f].boost > 0 THEN BOOSTED ELSE Most(BOOSTED, INTERVAL)]]
     /\ UNCHANGED <<lease, cr, form, document, stored>>

\* A manual collection has a key of its own.
Request(f) ==
  /\ queued[f] < MAX_QUEUED
  /\ queued' = [queued EXCEPT ![f] = @ + 1]
  /\ UNCHANGED <<feed, lease, minted, cr, form, document, stored>>

-----------------------------------------------------------------------------
(* collect(feed_id, job_key) *)

\* What becomes of a job that fails or whose worker dies: it waits again, or it
\* was the last attempt.  A job that another worker has taken over is not ours.
JobEnds(c, again) ==
  queued' = IF again /\ cr[c].claimed
            THEN [queued EXCEPT ![cr[c].feed] = Least(@ + 1, MAX_QUEUED)]
            ELSE queued

Start(c, f) ==
  /\ cr[c].pc = "idle"
  /\ queued[f] > 0
  /\ queued' = [queued EXCEPT ![f] = @ - 1]
  /\ cr' = IF ~ feed[f].enabled THEN cr      \* skipped: the job is done
           ELSE [cr EXCEPT ![c] = [NoCrawl EXCEPT !.pc = "entering", !.feed = f,
                                                  !.row = feed[f], !.claimed = TRUE]]
  /\ UNCHANGED <<feed, lease, minted, form, document, stored>>

HostOf(c) == Host[cr[c].feed]

Enter(c) ==
  /\ cr[c].pc = "entering"
  /\ lease[HostOf(c)].until = 0
  /\ lease' = [lease EXCEPT ![HostOf(c)] = [until |-> LEASE, owner |-> c]]
  /\ cr' = [cr EXCEPT ![c].pc = "fetching"]
  /\ UNCHANGED <<feed, queued, minted, form, document, stored>>

\* domain_busy: the job fails.
Busy(c, again) ==
  /\ cr[c].pc = "entering"
  /\ lease[HostOf(c)].until > 0
  /\ JobEnds(c, again)
  /\ cr' = [cr EXCEPT ![c] = NoCrawl]
  /\ UNCHANGED <<feed, lease, minted, form, document, stored>>

\* If-None-Match names the document the server offers.
Unmodified(c) ==
  cr[c].row.etag # 0 /\ cr[c].row.etag = document[cr[c].feed]

\* Fault: the lease is ended without a look at its owner.
ReleasedAny(c) == [lease EXCEPT ![HostOf(c)].until = 0]

\* The finally of collect(): until = now, where owner = owner.
Released(c) ==
  IF lease[HostOf(c)].owner = c THEN [lease EXCEPT ![HostOf(c)].until = 0] ELSE lease

\* The outcome is noted on the row in memory and the host is released.
Closing(c, row) ==
  /\ cr' = [cr EXCEPT ![c] = [@ EXCEPT !.pc = "saving", !.row = row, !.got = 0, !.age = 0]]
  /\ lease' = Released(c)
  /\ UNCHANGED <<feed, queued, minted, form, document>>

\* Fault: the ETag is noted before the entries are ingested.
FetchedEarly(c) ==
  /\ cr[c].pc = "fetching"
  /\ ~ Unmodified(c)
  /\ cr' = [cr EXCEPT ![c].pc = "ingesting", ![c].got = document[cr[c].feed],
                      ![c].row.etag = document[cr[c].feed]]
  /\ UNCHANGED <<feed, lease, queued, minted, form, document, stored>>

\* 200: the entries of the document are ingested next, one by one.
Fetched(c) ==
  /\ cr[c].pc = "fetching"
  /\ ~ Unmodified(c)
  /\ cr' = [cr EXCEPT ![c] = [@ EXCEPT !.pc = "ingesting", !.got = document[cr[c].feed]]]
  /\ UNCHANGED <<feed, lease, queued, minted, form, document, stored>>

\* All entries are in; the response may have had no ETag.
Ingested(c, etag) ==
  /\ cr[c].pc = "ingesting"
  /\ stored' = [stored EXCEPT ![cr[c].feed] = Most(@, cr[c].got)]
  /\ Closing(c, [cr[c].row EXCEPT !.failures = 0, !.etag = etag])

\* 304
NotModified(c) ==
  /\ cr[c].pc = "fetching"
  /\ Unmodified(c)
  /\ Closing(c, [cr[c].row EXCEPT !.failures = 0])
  /\ UNCHANGED stored

OneMore(failures) == Least(failures + 1, MAX_FAILURES)

\* 429: Retry-After decides.
RateLimited(c, wait) ==
  /\ cr[c].pc = "fetching"
  /\ Closing(c, [cr[c].row EXCEPT !.failures = OneMore(@), !.due = Most(BOOSTED, wait)])
  /\ UNCHANGED stored

\* Any other exception, before or in the middle of the ingestion.
Broken(c) ==
  /\ cr[c].pc \in {"fetching", "ingesting"}
  /\ Closing(c, [cr[c].row EXCEPT !.failures = OneMore(@),
                                  !.due = BACKOFF[OneMore(cr[c].row.failures)]])
  /\ UNCHANGED stored

\* save(update_fields=[...]): the columns as they were read, or as noted.
Save(c) ==
  LET row == cr[c].row
  IN /\ cr[c].pc = "saving"
     /\ feed' = [feed EXCEPT ![cr[c].feed] =
                   [@ EXCEPT !.due = row.due, !.failures = row.failures,
                             !.etag = row.etag]]
     /\ cr' = [cr EXCEPT ![c] = NoCrawl]
     /\ UNCHANGED <<lease, queued, minted, form, document, stored>>

\* The worker dies, or the database refuses one of the statements of collect()
\* outside its try.  A lease on the host stays.
Crash(c, again) ==
  /\ cr[c].pc # "idle"
  /\ JobEnds(c, again)
  /\ cr' = [cr EXCEPT ![c] = NoCrawl]
  /\ UNCHANGED <<feed, lease, minted, form, document, stored>>

\* The job's lease runs out while the crawl goes on: the job waits again.
LoseClaim(c) ==
  /\ cr[c].claimed
  /\ JobEnds(c, TRUE)
  /\ cr' = [cr EXCEPT ![c].claimed = FALSE]
  /\ UNCHANGED <<feed, lease, minted, form, document, stored>>

-----------------------------------------------------------------------------
(* The others who write feeds. *)

\* An administrator boosts the feeds of an event.
Boost(fs) ==
  /\ fs # {}
  /\ feed' = [f \in Feeds |-> IF f \in fs
                              THEN [feed[f] EXCEPT !.boost = BOOST_FOR, !.due = 0]
                              ELSE feed[f]]
  /\ UNCHANGED <<lease, queued, minted, cr, form, document, stored>>

\* The feed form reads the row, validates the input (which looks up the host),
\* and saves every column of the row it read.
EditOpen(f) ==
  /\ form.feed = NoFeed
  /\ form' = [feed |-> f, row |-> feed[f]]
  /\ UNCHANGED <<feed, lease, queued, minted, cr, document, stored>>

EditSave(enabled) ==
  /\ form.feed # NoFeed
  /\ feed' = [feed EXCEPT ![form.feed] = [form.row EXCEPT !.enabled = enabled]]
  /\ form' = NoForm
  /\ UNCHANGED <<lease, queued, minted, cr, document, stored>>

Publish(f) ==
  /\ document[f] < MAX_DOCUMENT
  /\ document' = [document EXCEPT ![f] = @ + 1]
  /\ UNCHANGED <<feed, lease, queued, minted, cr, form, stored>>

Closer(row) == [row EXCEPT !.due = Sooner(@), !.boost = Sooner(@)]

Tick ==
  /\ feed' = [f \in Feeds |-> Closer(feed[f])]
  /\ lease' = [h \in Hosts |-> [lease[h] EXCEPT !.until = Sooner(@)]]
  /\ minted' = [f \in Feeds |-> IF minted[f] = "now" THEN "earlier" ELSE minted[f]]
  /\ cr' = [c \in Crawlers |->
              IF cr[c].pc = "idle" THEN cr[c]
              ELSE [cr[c] EXCEPT !.row = Closer(@),
                                 !.age = IF cr[c].pc \in {"fetching", "ingesting"}
                                         THEN Least(@ + 1, LEASE) ELSE 0]]
  /\ form' = IF form.feed = NoFeed THEN form ELSE [form EXCEPT !.row = Closer(@)]
  /\ UNCHANGED <<queued, document, stored>>

-----------------------------------------------------------------------------
Next ==
  \/ \E passed \in SUBSET Lockable : Schedule(passed)
  \/ \E f \in Feeds : Request(f)
  \/ \E c \in Crawlers, f \in Feeds : Start(c, f)
  \/ \E c \in Crawlers : Enter(c)
  \/ \E c \in Crawlers, again \in BOOLEAN : Busy(c, again)
  \/ \E c \in Crawlers : Fetched(c)
  \/ \E c \in Crawlers : \E etag \in {0, cr[c].got} : Ingested(c, etag)
  \/ \E c \in Crawlers : NotModified(c)
  \/ \E c \in Crawlers, wait \in RetryAfter : RateLimited(c, wait)
  \/ \E c \in Crawlers : Broken(c)
  \/ \E c \in Crawlers : Save(c)
  \/ \E c \in Crawlers, again \in BOOLEAN : Crash(c, again)
  \/ \E c \in Crawlers : LoseClaim(c)
  \/ \E fs \in SUBSET Edited : Boost(fs)
  \/ \E f \in Edited : EditOpen(f)
  \/ \E enabled \in BOOLEAN : EditSave(enabled)
  \/ \E f \in Feeds : Publish(f)
  \/ Tick

Spec == Init /\ [][Next]_vars

-----------------------------------------------------------------------------
(* Properties. *)

OnHost(c) == cr[c].pc \in {"fetching", "ingesting"}

\* Two crawls are on one host only if one of them has outstayed the lease it
\* took: neither a crash, a late release nor a lost job lets a second crawl in
\* earlier (crawler.py:49-56, 117-118).
SecondCrawlOnlyAfterLease ==
  \A c, d \in Crawlers :
    c # d /\ OnHost(c) /\ OnHost(d) /\ HostOf(c) = HostOf(d)
      => cr[c].age >= LEASE \/ cr[d].age >= LEASE

\* No entry is skipped: a server is told that its document is known only when
\* every entry up to that document was ingested, although crawls that overtake
\* each other, fail half-way or edit stale rows all write the ETag
\* (crawler.py:65-68, 96-103, 123).
EtagNeverAhead == \A f \in Feeds : feed[f].etag <= stored[f]

\* Fairness: the scheduler looks every 15 seconds and finds a row locked only
\* for moments; time passes.  Nothing is assumed of workers and administrators.
FairSpec ==
  /\ Spec
  /\ WF_vars(Tick)
  /\ SF_vars(Schedule({}))

\* An enabled feed never drops out of the rotation: whatever failures, lost
\* jobs, stale saves, boosts and keys of the same minute do to its row, it has
\* a collect job again (tasks.py:181-189, crawler.py:111-123).
FeedsKeepComing == \A f \in Feeds : feed[f].enabled ~> InHand(f) \/ ~ feed[f].enabled

=============================================================================
