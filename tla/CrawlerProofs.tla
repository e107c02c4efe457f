---------------------------- MODULE CrawlerProofs ----------------------------
(***************************************************************************)
(* The inductive invariant of Crawler and its theorems, for any feeds on   *)
(* any hosts, any number of collect workers and any lengths of the waits.  *)
(***************************************************************************)
EXTENDS Crawler, TLAPS

-----------------------------------------------------------------------------
(* The inductive invariant. *)

\* A crawl under way has a feed, and only such a crawl has a job.
Working ==
  \A c \in Crawlers : /\ cr[c].pc # "idle" => cr[c].feed \in Feeds
                      /\ cr[c].claimed => cr[c].pc # "idle"

\* Until a crawl has outstayed its lease it owns the lease of its host, which lasts
\* as long as was agreed.
Held ==
  \A c \in Crawlers :
    /\ cr[c].pc = "entering" => cr[c].age = 0
    /\ OnHost(c) /\ cr[c].age < LEASE
         => lease[HostOf(c)] = [until |-> LEASE - cr[c].age, owner |-> c]

\* No ETag is ahead of what was ingested: not that of a row, not that in the memory
\* of a crawl, not that in the form.
Known ==
  /\ EtagNeverAhead
  /\ \A c \in Crawlers : cr[c].pc # "idle" => cr[c].row.etag <= stored[cr[c].feed]
  /\ form.feed # NoFeed => form.row.etag <= stored[form.feed]

IInv == TypeOK /\ Working /\ Held /\ Known

-----------------------------------------------------------------------------
(* What the operators on records return. *)

\* The arithmetic of waits stays within the naturals.
LEMMA Numbers ==
  ASSUME NEW a \in Nat, NEW b \in Nat
  PROVE  /\ Least(a, b) \in Nat /\ Least(a, b) <= a /\ Least(a, b) <= b
         /\ Most(a, b) \in Nat /\ Most(a, b) >= a /\ Most(a, b) >= b
         /\ Sooner(a) \in Nat /\ Sooner(a) <= a
<1> QED
  BY DEF Least, Most, Sooner

\* The blank records are typed.
LEMMA NewRecords ==
  NewRow \in Row /\ NoCrawl \in Crawl /\ NoForm \in Form
<1>1. NewRow \in Row
  BY CrawlerAssumption DEF NewRow, Row
<1> QED
  BY <1>1, CrawlerAssumption DEF NoCrawl, Crawl, NoForm, Form

\* A minute passes for a row.
LEMMA CloserRow ==
  ASSUME NEW row \in Row
  PROVE  Closer(row) \in Row /\ Closer(row).etag = row.etag
<1>1. Sooner(row.due) \in Nat /\ Sooner(row.boost) \in Nat
  BY DEF Row, Sooner
<1> HIDE DEF Sooner
<1> QED
  BY <1>1 DEF Closer, Row

\* The outcomes that a crawl notes on its row.
LEMMA NotedRow ==
  ASSUME NEW row \in Row, NEW etag \in 0 .. MAX_DOCUMENT, NEW due \in Nat
  PROVE  /\ [row EXCEPT !.failures = 0, !.etag = etag] \in Row
         /\ [row EXCEPT !.failures = 0, !.etag = etag].etag = etag
         /\ [row EXCEPT !.failures = 0] \in Row
         /\ [row EXCEPT !.failures = 0].etag = row.etag
         /\ [row EXCEPT !.failures = OneMore(row.failures), !.due = due] \in Row
         /\ [row EXCEPT !.failures = OneMore(row.failures), !.due = due].etag = row.etag
<1>1. OneMore(row.failures) \in 0 .. MAX_FAILURES
  BY CrawlerAssumption DEF Row, OneMore, Least
<1>2. 0 \in 0 .. MAX_FAILURES
  BY CrawlerAssumption
<1> QED
  BY <1>1, <1>2 DEF Row

-----------------------------------------------------------------------------
(* One crawl changes, from its record to r. *)

Moves(c, r) ==
  /\ cr' = [cr EXCEPT ![c] = r]
  /\ r \in Crawl
  /\ (r.pc # "idle" => r.feed \in Feeds) /\ (r.claimed => r.pc # "idle")
  /\ r.pc # "idle" => r.row.etag <= stored'[r.feed]

\* A crawl that goes on with a row whose ETag is not ahead keeps what the invariant says
\* of crawls, while what was ingested grows.
LEMMA MovedCrawl ==
  ASSUME IInv, NEW c \in Crawlers, NEW r, Moves(c, r),
         \A f \in Feeds : stored'[f] \in Nat /\ stored[f] <= stored'[f],
         UNCHANGED <<feed, form>>
  PROVE  (cr \in [Crawlers -> Crawl] /\ Working /\ Known)'
<1> USE DEF IInv, TypeOK, Moves
<1>1. (cr \in [Crawlers -> Crawl] /\ Working)'
  BY DEF Working
<1>2. (\A d \in Crawlers : cr[d].pc # "idle" => cr[d].row.etag <= stored[cr[d].feed])'
  <2> SUFFICES ASSUME NEW d \in Crawlers \ {c}, cr[d].pc # "idle"
               PROVE  cr[d].row.etag <= stored'[cr[d].feed]
    OBVIOUS
  <2>1. cr[d].feed \in Feeds /\ cr[d].row.etag \in Nat
    BY DEF Working, Crawl, Row
  <2>2. cr[d].row.etag <= stored[cr[d].feed] /\ stored[cr[d].feed] \in Nat
    BY <2>1 DEF Known
  <2> QED
    BY <2>1, <2>2
<1>3. EtagNeverAhead'
  <2>1. \A f \in Feeds : feed[f].etag \in Nat /\ stored[f] \in Nat
    BY DEF Row
  <2> QED
    BY <2>1 DEF EtagNeverAhead, Known
<1>4. (form.feed # NoFeed => form.row.etag <= stored[form.feed])'
  <2>1. form.feed # NoFeed => form.feed \in Feeds /\ form.row.etag \in Nat
    BY DEF Form, Row
  <2>2. \A f \in Feeds : stored[f] \in Nat
    OBVIOUS
  <2> QED
    BY <2>1, <2>2 DEF Known
<1> QED
  BY <1>1, <1>2, <1>3, <1>4 DEF Known

\* A crawl that leaves its host, or was not on it, leaves the others their leases.
LEMMA LeftHost ==
  ASSUME IInv, NEW c \in Crawlers, NEW r, Moves(c, r),
         r.pc \notin {"fetching", "ingesting"}, r.pc = "entering" => r.age = 0,
         lease' = lease \/ (cr[c].feed \in Feeds /\ lease' = Released(c))
  PROVE  Held' /\ lease' \in [Hosts -> [until : 0 .. LEASE, owner : Crawlers \cup {Nobody}]]
<1> USE DEF IInv, TypeOK, Moves
<1>1. lease' \in [Hosts -> [until : 0 .. LEASE, owner : Crawlers \cup {Nobody}]]
  <2>1. CASE lease' = lease
    BY <2>1
  <2>2. CASE cr[c].feed \in Feeds /\ lease' = Released(c)
    <3>1. /\ HostOf(c) \in Hosts
          /\ lease[HostOf(c)] \in [until : 0 .. LEASE, owner : Crawlers \cup {Nobody}]
      BY <2>2, CrawlerAssumption DEF HostOf
    <3>2. 0 \in 0 .. LEASE
      BY CrawlerAssumption
    <3> QED
      BY <2>2, <3>1, <3>2 DEF Released
  <2> QED
    BY <2>1, <2>2
<1>2. ASSUME NEW d \in Crawlers \ {c}, OnHost(d), cr[d].age < LEASE
      PROVE  lease'[HostOf(d)] = lease[HostOf(d)]
  <2>1. HostOf(d) \in Hosts
    BY <1>2, CrawlerAssumption DEF OnHost, Working, HostOf
  <2>2. lease[HostOf(d)] = [until |-> LEASE - cr[d].age, owner |-> d]
    BY <1>2 DEF Held
  <2>3. lease[HostOf(d)].owner = d
    BY <2>2
  <2> QED
    BY <2>1, <2>3 DEF Released
<1>3. \A d \in Crawlers \ {c} : cr'[d] = cr[d]
  OBVIOUS
<1>4. cr'[c] = r
  OBVIOUS
<1>5. Held'
  BY <1>2, <1>3, <1>4 DEF Held, OnHost, HostOf
<1> QED
  BY <1>1, <1>5

\* A crawl that goes on as before keeps its lease.
LEMMA StayedOnHost ==
  ASSUME IInv, NEW c \in Crawlers, NEW r, Moves(c, r),
         r.feed = cr[c].feed, r.age = cr[c].age,
         r.pc = cr[c].pc \/ (OnHost(c) /\ r.pc # "entering"), UNCHANGED lease
  PROVE  Held'
<1>1. /\ cr \in [Crawlers -> Crawl] /\ cr'[c] = r
      /\ \A d \in Crawlers \ {c} : cr'[d] = cr[d]
  BY DEF IInv, TypeOK, Moves
<1> QED
  BY <1>1 DEF IInv, Held, OnHost, HostOf

\* The end of a crawl.
LEMMA Ended ==
  ASSUME IInv, NEW c \in Crawlers, cr' = [cr EXCEPT ![c] = NoCrawl],
         UNCHANGED <<feed, form, stored, lease>>
  PROVE  (cr \in [Crawlers -> Crawl] /\ Working /\ Known /\ Held)'
<1>1. Moves(c, NoCrawl)
  BY NewRecords DEF Moves, NoCrawl
<1>2. \A f \in Feeds : stored'[f] \in Nat /\ stored[f] <= stored'[f]
  BY DEF IInv, TypeOK
<1>3. NoCrawl.pc = "idle"
  BY DEF NoCrawl
<1> HIDE DEF NoCrawl
<1> QED
  BY <1>1, <1>2, <1>3, MovedCrawl, LeftHost

\* The number of queued jobs of a feed stays within its bound.
LEMMA JobEndsType ==
  ASSUME IInv, NEW c \in Crawlers, NEW again \in BOOLEAN, JobEnds(c, again)
  PROVE  queued' \in [Feeds -> 0 .. MAX_QUEUED]
<1> QED
  BY CrawlerAssumption DEF IInv, TypeOK, JobEnds, Working, Least

-----------------------------------------------------------------------------
(* The actions. *)

\* Nothing is crawled, leased or ingested yet.
LEMMA Starts == Init => IInv
<1> SUFFICES ASSUME Init PROVE IInv
  OBVIOUS
<1> USE CrawlerAssumption, NewRecords DEF Init
<1>1. TypeOK
  BY DEF TypeOK
<1>2. Working /\ Held
  BY DEF Working, Held, OnHost, NoCrawl
<1>3. Known
  BY DEF Known, EtagNeverAhead, NoCrawl, NoForm, NewRow
<1> QED
  BY <1>1, <1>2, <1>3 DEF IInv

\* The steps that leave the crawls, the leases, the form and what is stored alone.
LEMMA Apart ==
  ASSUME IInv, UNCHANGED <<lease, cr, form, stored>>,
         (feed \in [Feeds -> Row])', \A f \in Feeds : feed'[f].etag = feed[f].etag,
         (queued \in [Feeds -> 0 .. MAX_QUEUED])',
         (minted \in [Feeds -> {"never", "earlier", "now"}])',
         (document \in [Feeds -> 0 .. MAX_DOCUMENT])'
  PROVE  IInv'
<1> QED
  BY DEF IInv, TypeOK, Working, Held, OnHost, HostOf, Known, EtagNeverAhead

\* The scheduler writes only waits, and adds jobs (tasks.py:181-189).
LEMMA ScheduleIInv ==
  ASSUME IInv, NEW passed \in SUBSET Lockable, Schedule(passed)
  PROVE  IInv'
<1> USE DEF IInv, TypeOK, Schedule
<1>1. ASSUME NEW f \in Feeds
      PROVE  feed'[f] \in Row /\ feed'[f].etag = feed[f].etag
  <2> DEFINE due == IF feed[f].boost > 0 THEN BOOSTED ELSE Most(BOOSTED, INTERVAL)
  <2>1. due \in Nat
    BY CrawlerAssumption DEF Most
  <2>2. feed'[f] = feed[f] \/ feed'[f] = [feed[f] EXCEPT !.due = due]
    OBVIOUS
  <2> HIDE DEF due
  <2> QED
    BY <2>1, <2>2 DEF Row
<1>2. feed' \in [Feeds -> Row]
  <2>1. feed' = [f \in Feeds |-> feed'[f]]
    OBVIOUS
  <2> QED
    BY <1>1, <2>1
<1>3. queued' \in [Feeds -> 0 .. MAX_QUEUED]
  BY CrawlerAssumption DEF Due, InHand
<1>4. minted' \in [Feeds -> {"never", "earlier", "now"}]
  OBVIOUS
<1> QED
  BY <1>1, <1>2, <1>3, <1>4, Apart

\* A manual collection, a boost, a new document.
LEMMA RequestIInv ==
  ASSUME IInv, NEW f \in Feeds, Request(f)
  PROVE  IInv'
<1> QED
  BY CrawlerAssumption, Apart DEF Request, IInv, TypeOK

\* A boost writes only waits.
LEMMA BoostIInv ==
  ASSUME IInv, NEW fs \in SUBSET Edited, Boost(fs)
  PROVE  IInv'
<1>1. ASSUME NEW f \in Feeds
      PROVE  feed'[f] \in Row /\ feed'[f].etag = feed[f].etag
  BY CrawlerAssumption DEF Boost, IInv, TypeOK, Row
<1>2. feed' \in [Feeds -> Row]
  BY <1>1 DEF Boost
<1> QED
  BY <1>1, <1>2, Apart DEF Boost, IInv, TypeOK

\* A new document is at the server: ETags say nothing of it yet.
LEMMA PublishIInv ==
  ASSUME IInv, NEW f \in Feeds, Publish(f)
  PROVE  IInv'
<1> QED
  BY CrawlerAssumption, Apart DEF Publish, IInv, TypeOK

\* A crawl begins with the row as it is (crawler.py:44-48).
LEMMA StartIInv ==
  ASSUME IInv, NEW c \in Crawlers, NEW f \in Feeds, Start(c, f)
  PROVE  IInv'
<1> DEFINE r == [NoCrawl EXCEPT !.pc = "entering", !.feed = f, !.row = feed[f],
                                !.claimed = TRUE]
<1>1. feed[f] \in Row /\ feed[f].etag <= stored[f]
  BY DEF IInv, TypeOK, Known, EtagNeverAhead
<1>2. NoCrawl.age = 0 /\ NoCrawl \in Crawl
  BY NewRecords DEF NoCrawl
<1>3. /\ r \in Crawl /\ r.pc = "entering" /\ r.feed = f /\ r.row = feed[f] /\ r.age = 0
  BY <1>1, <1>2 DEF Crawl
<1> HIDE DEF r
<1>4. /\ UNCHANGED <<feed, lease, minted, form, document, stored>>
      /\ queued' \in [Feeds -> 0 .. MAX_QUEUED]
  BY CrawlerAssumption DEF Start, IInv, TypeOK
<1>5. CASE UNCHANGED cr
  BY <1>4, <1>5, Apart DEF IInv, TypeOK
<1>6. CASE cr' = [cr EXCEPT ![c] = r]
  <2>1. Moves(c, r)
    BY <1>1, <1>3, <1>4, <1>6 DEF Moves
  <2>2. \A g \in Feeds : stored'[g] \in Nat /\ stored[g] <= stored'[g]
    BY <1>4 DEF IInv, TypeOK
  <2> QED
    BY <1>3, <1>4, <2>1, <2>2, MovedCrawl, LeftHost DEF IInv, TypeOK
<1> QED
  BY <1>5, <1>6 DEF Start, r

\* A crawl that waits enters its host when the lease on it is over: whoever held the
\* lease last has outstayed it.
LEMMA EnterIInv ==
  ASSUME IInv, NEW c \in Crawlers, Enter(c)
  PROVE  IInv'
<1> DEFINE r == [cr[c] EXCEPT !.pc = "fetching"]
<1>1. /\ cr[c] \in Crawl /\ cr[c].feed \in Feeds /\ cr[c].age = 0
      /\ cr[c].row.etag <= stored[cr[c].feed]
  BY DEF IInv, TypeOK, Working, Held, Known, Enter
<1>2. /\ r \in Crawl /\ r.pc = "fetching" /\ r.feed = cr[c].feed /\ r.row = cr[c].row
      /\ r.age = 0
  BY <1>1 DEF Crawl
<1>3. cr' = [cr EXCEPT ![c] = r]
  BY DEF Enter
<1> HIDE DEF r
<1>4. HostOf(c) \in Hosts
  BY <1>1, CrawlerAssumption DEF HostOf
<1>5. Moves(c, r)
  BY <1>1, <1>2, <1>3 DEF Moves, Enter
<1>6. \A f \in Feeds : stored'[f] \in Nat /\ stored[f] <= stored'[f]
  BY DEF Enter, IInv, TypeOK
<1>7. lease' \in [Hosts -> [until : 0 .. LEASE, owner : Crawlers \cup {Nobody}]]
  BY <1>4, CrawlerAssumption DEF Enter, IInv, TypeOK
<1>8. Held'
  <2>1. /\ cr'[c] = r /\ \A d \in Crawlers \ {c} : cr'[d] = cr[d]
    BY <1>3 DEF IInv, TypeOK
  <2>2. lease'[HostOf(c)] = [until |-> LEASE - r.age, owner |-> c]
    BY <1>2, <1>4, CrawlerAssumption DEF Enter, IInv, TypeOK
  <2>3. HostOf(c)' = HostOf(c)
    BY <1>2, <2>1 DEF HostOf
  <2>4. ASSUME NEW d \in Crawlers \ {c}, OnHost(d), cr[d].age < LEASE
        PROVE  lease'[HostOf(d)] = lease[HostOf(d)]
    <3>1. lease[HostOf(d)] = [until |-> LEASE - cr[d].age, owner |-> d]
      BY <2>4 DEF IInv, Held
    <3>4. lease[HostOf(d)].until = LEASE - cr[d].age
      BY <3>1
    <3>5. cr[d].age \in Nat
      BY DEF IInv, TypeOK, Crawl
    <3>2. lease[HostOf(d)].until # 0
      BY <2>4, <3>4, <3>5, CrawlerAssumption
    <3>3. HostOf(d) # HostOf(c)
      BY <3>2 DEF Enter
    <3> QED
      BY <1>4, <3>3 DEF Enter, IInv, TypeOK
  <2>5. ASSUME NEW d \in Crawlers \ {c}
        PROVE  HostOf(d)' = HostOf(d) /\ OnHost(d)' = OnHost(d)
    BY <2>1 DEF HostOf, OnHost
  <2> QED
    BY <1>2, <2>1, <2>2, <2>3, <2>4, <2>5 DEF IInv, Held
<1> QED
  BY <1>5, <1>6, <1>7, <1>8, MovedCrawl DEF Enter, IInv, TypeOK

\* The crawls that give up: the host is busy, the worker dies.
LEMMA EndIInv ==
  ASSUME IInv, NEW c \in Crawlers, NEW again \in BOOLEAN, Busy(c, again) \/ Crash(c, again)
  PROVE  IInv'
<1>1. /\ cr' = [cr EXCEPT ![c] = NoCrawl] /\ JobEnds(c, again)
      /\ UNCHANGED <<feed, lease, minted, form, document, stored>>
  BY DEF Busy, Crash
<1> QED
  BY <1>1, Ended, JobEndsType DEF IInv, TypeOK

\* A claim that is lost changes nothing for the crawl that goes on.
LEMMA LoseClaimIInv ==
  ASSUME IInv, NEW c \in Crawlers, LoseClaim(c)
  PROVE  IInv'
<1> DEFINE r == [cr[c] EXCEPT !.claimed = FALSE]
<1>1. /\ cr[c] \in Crawl /\ cr[c].pc # "idle" /\ cr[c].feed \in Feeds
      /\ cr[c].row.etag <= stored[cr[c].feed]
  BY DEF IInv, TypeOK, Working, Known, LoseClaim
<1>2. /\ r \in Crawl /\ r.pc = cr[c].pc /\ r.feed = cr[c].feed /\ r.row = cr[c].row
      /\ r.age = cr[c].age /\ r.claimed = FALSE
  BY <1>1 DEF Crawl
<1>3. cr' = [cr EXCEPT ![c] = r]
  BY DEF LoseClaim
<1> HIDE DEF r
<1>4. Moves(c, r)
  BY <1>1, <1>2, <1>3 DEF Moves, LoseClaim
<1>5. \A f \in Feeds : stored'[f] \in Nat /\ stored[f] <= stored'[f]
  BY DEF LoseClaim, IInv, TypeOK
<1> QED
  BY <1>2, <1>4, <1>5, MovedCrawl, StayedOnHost, JobEndsType DEF LoseClaim, IInv, TypeOK

\* A response is remembered with its ETag; the row has the former one
\* (crawler.py:65-74).
LEMMA FetchedIInv ==
  ASSUME IInv, NEW c \in Crawlers, Fetched(c)
  PROVE  IInv'
<1> DEFINE r == [cr[c] EXCEPT !.pc = "ingesting", !.got = document[cr[c].feed]]
<1>1. /\ cr[c] \in Crawl /\ cr[c].pc = "fetching" /\ cr[c].feed \in Feeds
      /\ cr[c].row.etag <= stored[cr[c].feed]
  BY DEF IInv, TypeOK, Working, Known, Fetched
<1>2. document[cr[c].feed] \in 0 .. MAX_DOCUMENT
  BY <1>1 DEF IInv, TypeOK
<1>3. /\ r \in Crawl /\ r.pc = "ingesting" /\ r.feed = cr[c].feed /\ r.row = cr[c].row
      /\ r.age = cr[c].age
  BY <1>1, <1>2 DEF Crawl
<1>4. cr' = [cr EXCEPT ![c] = r]
  BY DEF Fetched
<1> HIDE DEF r
<1>5. Moves(c, r)
  BY <1>1, <1>3, <1>4 DEF Moves, Fetched
<1>6. \A f \in Feeds : stored'[f] \in Nat /\ stored[f] <= stored'[f]
  BY DEF Fetched, IInv, TypeOK
<1> QED
  BY <1>1, <1>3, <1>5, <1>6, MovedCrawl, StayedOnHost DEF Fetched, IInv, TypeOK, OnHost

\* A crawl that notes its outcome on the row in its memory and leaves its host.
LEMMA ClosingIInv ==
  ASSUME IInv, NEW c \in Crawlers, OnHost(c), NEW row \in Row, Closing(c, row),
         row.etag <= stored'[cr[c].feed],
         stored' \in [Feeds -> 0 .. MAX_DOCUMENT],
         \A f \in Feeds : stored[f] <= stored'[f]
  PROVE  IInv'
<1> DEFINE r == [cr[c] EXCEPT !.pc = "saving", !.row = row, !.got = 0, !.age = 0]
<1>1. cr[c] \in Crawl /\ cr[c].pc # "idle" /\ cr[c].feed \in Feeds
  BY DEF IInv, TypeOK, Working, OnHost
<1>2. 0 \in 0 .. MAX_DOCUMENT /\ 0 \in 0 .. LEASE
  BY CrawlerAssumption
<1>3. r \in Crawl /\ r.pc = "saving" /\ r.feed = cr[c].feed /\ r.row = row
  BY <1>1, <1>2 DEF Crawl
<1>4. cr' = [cr EXCEPT ![c] = r] /\ lease' = Released(c)
  BY DEF Closing
<1> HIDE DEF r
<1>5. Moves(c, r)
  BY <1>1, <1>3, <1>4 DEF Moves
<1> QED
  BY <1>1, <1>3, <1>4, <1>5, MovedCrawl, LeftHost DEF Closing, IInv, TypeOK

\* All entries are ingested before the new ETag comes into the row
\* (crawler.py:84-103).
LEMMA IngestedIInv ==
  ASSUME IInv, NEW c \in Crawlers, NEW etag \in {0, cr[c].got}, Ingested(c, etag)
  PROVE  IInv'
<1>1. /\ cr[c] \in Crawl /\ cr[c].feed \in Feeds /\ cr[c].row \in Row
      /\ cr[c].got \in 0 .. MAX_DOCUMENT /\ etag \in 0 .. MAX_DOCUMENT /\ etag <= cr[c].got
  BY CrawlerAssumption DEF IInv, TypeOK, Working, Crawl, Ingested
<1> DEFINE row == [cr[c].row EXCEPT !.failures = 0, !.etag = etag]
<1>2. row \in Row /\ row.etag = etag
  BY <1>1, NotedRow
<1> HIDE DEF row
<1>3. /\ stored' \in [Feeds -> 0 .. MAX_DOCUMENT] /\ etag <= stored'[cr[c].feed]
      /\ \A f \in Feeds : stored[f] <= stored'[f]
  BY <1>1 DEF Ingested, IInv, TypeOK, Most
<1> QED
  BY <1>2, <1>3, ClosingIInv DEF Ingested, OnHost, row

\* The other ends of a fetch: 304, 429, an exception.
LEMMA UnchangedIInv ==
  ASSUME IInv, NEW c \in Crawlers, OnHost(c), NEW row \in Row, Closing(c, row),
         row.etag = cr[c].row.etag, UNCHANGED stored
  PROVE  IInv'
<1>1. row.etag <= stored'[cr[c].feed] /\ stored' \in [Feeds -> 0 .. MAX_DOCUMENT]
  BY DEF IInv, TypeOK, Known, OnHost
<1>2. \A f \in Feeds : stored[f] <= stored'[f]
  BY DEF IInv, TypeOK
<1> QED
  BY <1>1, <1>2, ClosingIInv

\* 304: the ETag is that of the row.
LEMMA NotModifiedIInv ==
  ASSUME IInv, NEW c \in Crawlers, NotModified(c)
  PROVE  IInv'
<1>1. cr[c].row \in Row /\ OnHost(c)
  BY DEF IInv, TypeOK, Crawl, NotModified, OnHost
<1>2. 0 \in 0 .. MAX_DOCUMENT /\ 0 \in Nat
  BY CrawlerAssumption
<1> QED
  BY <1>1, <1>2, NotedRow, UnchangedIInv DEF NotModified

\* 429: the row waits, with its ETag.
LEMMA RateLimitedIInv ==
  ASSUME IInv, NEW c \in Crawlers, NEW wait \in RetryAfter, RateLimited(c, wait)
  PROVE  IInv'
<1> DEFINE row == [cr[c].row EXCEPT !.failures = OneMore(cr[c].row.failures),
                                    !.due = Most(BOOSTED, wait)]
<1>1. cr[c].row \in Row /\ OnHost(c)
  BY DEF IInv, TypeOK, Crawl, RateLimited, OnHost
<1>2. Most(BOOSTED, wait) \in Nat /\ 0 \in 0 .. MAX_DOCUMENT
  BY CrawlerAssumption DEF Most
<1>3. row \in Row /\ row.etag = cr[c].row.etag
  BY <1>1, <1>2, NotedRow
<1>4. Closing(c, row) /\ UNCHANGED stored
  BY DEF RateLimited
<1> QED
  BY <1>1, <1>3, <1>4, UnchangedIInv

\* An error: the row waits longer, with its ETag.
LEMMA BrokenIInv ==
  ASSUME IInv, NEW c \in Crawlers, Broken(c)
  PROVE  IInv'
<1> DEFINE due == BACKOFF[OneMore(cr[c].row.failures)]
           row == [cr[c].row EXCEPT !.failures = OneMore(cr[c].row.failures), !.due = due]
<1>1. cr[c].row \in Row /\ OnHost(c)
  BY DEF IInv, TypeOK, Crawl, Broken, OnHost
<1>2. due \in Nat /\ 0 \in 0 .. MAX_DOCUMENT
  BY <1>1, CrawlerAssumption DEF OneMore, Least, Row
<1>3. Closing(c, row) /\ UNCHANGED stored
  BY DEF Broken
<1> HIDE DEF due
<1>4. row \in Row /\ row.etag = cr[c].row.etag
  BY <1>1, <1>2, NotedRow
<1> QED
  BY <1>1, <1>3, <1>4, UnchangedIInv

\* A row changes, to one whose ETag is not ahead.
LEMMA SavedRow ==
  ASSUME IInv, NEW f \in Feeds, NEW row \in Row, row.etag <= stored[f],
         feed' = [feed EXCEPT ![f] = row], UNCHANGED stored
  PROVE  (feed \in [Feeds -> Row] /\ EtagNeverAhead)'
<1> QED
  BY DEF IInv, TypeOK, Known, EtagNeverAhead

\* The whole row is saved, with an ETag not ahead of what was ingested, and the lease is
\* returned by its owner only (crawler.py:117-123).
LEMMA SaveIInv ==
  ASSUME IInv, NEW c \in Crawlers, Save(c)
  PROVE  IInv'
<1> DEFINE f == cr[c].feed
           old == feed[f]
           row == [old EXCEPT !.due = cr[c].row.due, !.failures = cr[c].row.failures,
                              !.etag = cr[c].row.etag]
<1>1. /\ f \in Feeds /\ old \in Row /\ cr[c].row \in Row
      /\ cr[c].row.etag <= stored[f]
  BY DEF IInv, TypeOK, Working, Known, Crawl, Save
<1>2. row \in Row /\ row.etag = cr[c].row.etag
  <2> HIDE DEF old
  <2> QED
    BY <1>1 DEF Row
<1>3. /\ feed' = [feed EXCEPT ![f] = row] /\ cr' = [cr EXCEPT ![c] = NoCrawl]
      /\ UNCHANGED <<lease, queued, minted, form, document, stored>>
  BY DEF Save
<1> HIDE DEF row, f
<1>4. (feed \in [Feeds -> Row] /\ EtagNeverAhead)'
  BY <1>1, <1>2, <1>3, SavedRow
<1>5. /\ cr' \in [Crawlers -> Crawl] /\ cr'[c].pc = "idle" /\ ~ cr'[c].claimed
      /\ \A d \in Crawlers \ {c} : cr'[d] = cr[d]
  BY <1>3, NewRecords DEF IInv, TypeOK, NoCrawl
<1>6. Working' /\ Held'
  BY <1>3, <1>5 DEF IInv, Working, Held, OnHost, HostOf
<1>7. Known'
  BY <1>3, <1>4, <1>5 DEF IInv, Known
<1> QED
  BY <1>3, <1>4, <1>5, <1>6, <1>7 DEF IInv, TypeOK

\* The form remembers the row.
LEMMA EditOpenIInv ==
  ASSUME IInv, NEW f \in Edited, EditOpen(f)
  PROVE  IInv'
<1>1. f \in Feeds /\ feed[f] \in Row
  BY CrawlerAssumption DEF IInv, TypeOK
<1>2. form' \in Form
  BY <1>1 DEF EditOpen, Form
<1>3. Known'
  BY <1>1 DEF IInv, Known, EtagNeverAhead, EditOpen
<1> QED
  BY <1>2, <1>3 DEF EditOpen, IInv, TypeOK, Working, Held, OnHost, HostOf

\* The form saves what it had read: its ETag was not ahead then, nor is it now.
LEMMA EditSaveIInv ==
  ASSUME IInv, NEW enabled \in BOOLEAN, EditSave(enabled)
  PROVE  IInv'
<1> DEFINE row == [form.row EXCEPT !.enabled = enabled]
<1>1. form.feed \in Feeds /\ form.row \in Row /\ form.row.etag <= stored[form.feed]
  BY DEF IInv, TypeOK, Known, Form, EditSave
<1>2. row \in Row /\ row.etag = form.row.etag
  <2> DEFINE old == form.row
  <2>1. old \in Row
    BY <1>1
  <2> HIDE DEF old
  <2>2. /\ [old EXCEPT !.enabled = enabled] \in Row
        /\ [old EXCEPT !.enabled = enabled].etag = old.etag
    BY <2>1 DEF Row
  <2> QED
    BY <2>2 DEF old
<1>3. feed' = [feed EXCEPT ![form.feed] = row] /\ UNCHANGED stored
  BY DEF EditSave
<1> HIDE DEF row
<1>4. (feed \in [Feeds -> Row] /\ EtagNeverAhead)'
  BY <1>1, <1>2, <1>3, SavedRow
<1>5. Known'
  BY <1>4 DEF IInv, Known, EditSave, NoForm
<1> QED
  BY <1>4, <1>5, NewRecords DEF EditSave, IInv, TypeOK, Working, Held, OnHost, HostOf

\* A minute passes: leases run down as crawls grow older.
LEMMA TickIInv ==
  ASSUME IInv, Tick
  PROVE  IInv'
<1>1. ASSUME NEW f \in Feeds
      PROVE  feed'[f] \in Row /\ feed'[f].etag = feed[f].etag
  BY CloserRow DEF IInv, TypeOK, Tick
<1>2. feed' \in [Feeds -> Row]
  BY <1>1 DEF Tick
<1>3. ASSUME NEW h \in Hosts
      PROVE  /\ lease'[h] = [until |-> Sooner(lease[h].until), owner |-> lease[h].owner]
             /\ lease'[h] \in [until : 0 .. LEASE, owner : Crawlers \cup {Nobody}]
  <2>1. /\ lease[h] \in [until : 0 .. LEASE, owner : Crawlers \cup {Nobody}]
        /\ lease'[h] = [lease[h] EXCEPT !.until = Sooner(lease[h].until)]
    BY DEF IInv, TypeOK, Tick
  <2>2. Sooner(lease[h].until) \in 0 .. LEASE
    BY <2>1, CrawlerAssumption DEF Sooner
  <2> QED
    BY <2>1, <2>2
<1>4. lease' \in [Hosts -> [until : 0 .. LEASE, owner : Crawlers \cup {Nobody}]]
  BY <1>3 DEF Tick
<1>5. ASSUME NEW c \in Crawlers
      PROVE  /\ cr'[c] \in Crawl /\ cr'[c].pc = cr[c].pc /\ cr'[c].feed = cr[c].feed
             /\ cr'[c].claimed = cr[c].claimed /\ cr'[c].row.etag = cr[c].row.etag
             /\ cr[c].pc = "entering" => cr'[c].age = 0
             /\ OnHost(c) => cr'[c].age = Least(cr[c].age + 1, LEASE)
  <2> DEFINE r == cr[c]
             age == IF r.pc \in {"fetching", "ingesting"} THEN Least(r.age + 1, LEASE) ELSE 0
             new == [r EXCEPT !.row = Closer(r.row), !.age = age]
  <2>1. r \in Crawl /\ cr'[c] = IF r.pc = "idle" THEN r ELSE new
    BY DEF IInv, TypeOK, Tick
  <2>2. Closer(r.row) \in Row /\ Closer(r.row).etag = r.row.etag
    BY <2>1, CloserRow DEF Crawl
  <2>3. age \in 0 .. LEASE
    BY <2>1, CrawlerAssumption DEF Crawl, Least
  <2> HIDE DEF r
  <2>4. /\ new \in Crawl /\ new.pc = r.pc /\ new.feed = r.feed /\ new.claimed = r.claimed
        /\ new.row = Closer(r.row) /\ new.age = age
    <3> HIDE DEF age
    <3> QED
      BY <2>1, <2>2, <2>3 DEF Crawl
  <2> HIDE DEF new
  <2> QED
    BY <2>1, <2>2, <2>4 DEF r, OnHost
<1>6. cr' \in [Crawlers -> Crawl]
  BY <1>5 DEF Tick
<1>7. form' \in Form /\ form'.feed = form.feed /\ form'.row.etag = form.row.etag
  <2> DEFINE old == form  new == [old EXCEPT !.row = Closer(old.row)]
  <2>1. old \in Form /\ form' = IF old.feed = NoFeed THEN old ELSE new
    BY DEF IInv, TypeOK, Tick
  <2>2. Closer(old.row) \in Row /\ Closer(old.row).etag = old.row.etag
    BY <2>1, CloserRow DEF Form
  <2> HIDE DEF old
  <2>3. new \in Form /\ new.feed = old.feed /\ new.row = Closer(old.row)
    BY <2>1, <2>2 DEF Form
  <2> HIDE DEF new
  <2> QED
    BY <2>1, <2>2, <2>3 DEF old
<1>8. TypeOK'
  BY <1>2, <1>4, <1>6, <1>7 DEF IInv, TypeOK, Tick
<1>9. Working'
  BY <1>5 DEF IInv, Working
<1>10. Held'
  <2> SUFFICES ASSUME NEW c \in Crawlers
               PROVE  /\ cr'[c].pc = "entering" => cr'[c].age = 0
                      /\ OnHost(c)' /\ cr'[c].age < LEASE
                           => lease'[HostOf(c)'] = [until |-> LEASE - cr'[c].age, owner |-> c]
    BY DEF Held
  <2>1. OnHost(c)' = OnHost(c) /\ HostOf(c)' = HostOf(c)
    BY <1>5 DEF OnHost, HostOf
  <2>2. ASSUME OnHost(c), cr'[c].age < LEASE
        PROVE  lease'[HostOf(c)] = [until |-> LEASE - cr'[c].age, owner |-> c]
    <3>1. /\ cr[c].age \in Nat /\ cr'[c].age = Least(cr[c].age + 1, LEASE)
          /\ HostOf(c) \in Hosts
      BY <1>5, <2>2, CrawlerAssumption DEF IInv, TypeOK, Crawl, Working, OnHost, HostOf
    <3>2. cr'[c].age = cr[c].age + 1 /\ cr[c].age < LEASE
      BY <2>2, <3>1, CrawlerAssumption DEF Least
    <3>3. lease[HostOf(c)] = [until |-> LEASE - cr[c].age, owner |-> c]
      BY <2>2, <3>2 DEF IInv, Held
    <3>4. Sooner(LEASE - cr[c].age) = LEASE - cr'[c].age
      BY <3>1, <3>2, CrawlerAssumption DEF Sooner
    <3> QED
      BY <1>3, <3>1, <3>3, <3>4
  <2> QED
    BY <1>5, <2>1, <2>2
<1>11. Known'
  BY <1>1, <1>5, <1>7 DEF IInv, Known, EtagNeverAhead, Tick
<1> QED
  BY <1>8, <1>9, <1>10, <1>11 DEF IInv

-----------------------------------------------------------------------------
(* The theorems. *)

\* The invariant is inductive: one case for each action of Next.
LEMMA NextIInv == IInv /\ [Next]_vars => IInv'
<1> SUFFICES ASSUME IInv, [Next]_vars PROVE IInv'
  OBVIOUS
<1>1. ASSUME NEW passed \in SUBSET Lockable, Schedule(passed) PROVE IInv'
  BY <1>1, ScheduleIInv
<1>2. ASSUME NEW f \in Feeds, Request(f) \/ Publish(f) PROVE IInv'
  BY <1>2, RequestIInv, PublishIInv
<1>3. ASSUME NEW c \in Crawlers, NEW f \in Feeds, Start(c, f) PROVE IInv'
  BY <1>3, StartIInv
<1>4. ASSUME NEW c \in Crawlers, Enter(c) PROVE IInv'
  BY <1>4, EnterIInv
<1>5. ASSUME NEW c \in Crawlers, NEW again \in BOOLEAN, Busy(c, again) \/ Crash(c, again)
      PROVE  IInv'
  BY <1>5, EndIInv
<1>6. ASSUME NEW c \in Crawlers, Fetched(c) PROVE IInv'
  BY <1>6, FetchedIInv
<1>7. ASSUME NEW c \in Crawlers, NEW etag \in {0, cr[c].got}, Ingested(c, etag) PROVE IInv'
  BY <1>7, IngestedIInv
<1>8. ASSUME NEW c \in Crawlers, NotModified(c) PROVE IInv'
  BY <1>8, NotModifiedIInv
<1>9. ASSUME NEW c \in Crawlers, NEW wait \in RetryAfter, RateLimited(c, wait) PROVE IInv'
  BY <1>9, RateLimitedIInv
<1>10. ASSUME NEW c \in Crawlers, Broken(c) PROVE IInv'
  BY <1>10, BrokenIInv
<1>11. ASSUME NEW c \in Crawlers, Save(c) PROVE IInv'
  BY <1>11, SaveIInv
<1>12. ASSUME NEW c \in Crawlers, LoseClaim(c) PROVE IInv'
  BY <1>12, LoseClaimIInv
<1>13. ASSUME NEW fs \in SUBSET Edited, Boost(fs) PROVE IInv'
  BY <1>13, BoostIInv
<1>14. ASSUME NEW f \in Edited, EditOpen(f) PROVE IInv'
  BY <1>14, EditOpenIInv
<1>15. ASSUME NEW enabled \in BOOLEAN, EditSave(enabled) PROVE IInv'
  BY <1>15, EditSaveIInv
<1>16. CASE Tick
  BY <1>16, TickIInv
<1>17. CASE UNCHANGED vars
  BY <1>17 DEF vars, IInv, TypeOK, Working, Held, OnHost, HostOf, Known, EtagNeverAhead
<1> QED
  BY <1>1, <1>2, <1>3, <1>4, <1>5, <1>6, <1>7, <1>8, <1>9, <1>10, <1>11, <1>12, <1>13,
     <1>14, <1>15, <1>16, <1>17 DEF Next

\* The invariant behind the theorems below holds throughout (news/crawler.py:40-125).
THEOREM Invariance == Spec => []IInv
<1> QED
  BY Starts, NextIInv, PTL DEF Spec

\* Every row, lease and crawl keeps its type: no wait becomes negative, and the
\* scheduler adds a job only to a feed that has none (tasks.py:181-189).
THEOREM TypeCorrect == Spec => []TypeOK
<1>1. IInv => TypeOK
  BY DEF IInv
<1> QED
  BY <1>1, Invariance, PTL

\* Two crawls are on one host only if one has outstayed its lease: a crawl that has
\* not is the owner of the lease, and there is one owner (crawler.py:49-56, 117-118).
THEOREM OneCrawlPerLease == Spec => []SecondCrawlOnlyAfterLease
<1>1. IInv => SecondCrawlOnlyAfterLease
  <2> SUFFICES ASSUME IInv, NEW c \in Crawlers, NEW d \in Crawlers, c # d,
                      OnHost(c), OnHost(d), HostOf(c) = HostOf(d),
                      ~ (cr[c].age >= LEASE), ~ (cr[d].age >= LEASE)
               PROVE  FALSE
    BY DEF SecondCrawlOnlyAfterLease
  <2>1. cr[c].age \in Nat /\ cr[d].age \in Nat
    BY DEF IInv, TypeOK, Crawl
  <2>2. cr[c].age < LEASE /\ cr[d].age < LEASE
    BY <2>1, CrawlerAssumption
  <2>3. /\ lease[HostOf(c)] = [until |-> LEASE - cr[c].age, owner |-> c]
        /\ lease[HostOf(d)] = [until |-> LEASE - cr[d].age, owner |-> d]
    BY <2>2 DEF IInv, Held
  <2>4. lease[HostOf(c)].owner = c /\ lease[HostOf(d)].owner = d
    BY <2>3
  <2> QED
    BY <2>4
<1> QED
  BY <1>1, Invariance, PTL

\* A server is told that its document is known only when every entry of it was
\* ingested (crawler.py:65-68, 96-103, 123).
THEOREM NoEntrySkipped == Spec => []EtagNeverAhead
<1>1. IInv => EtagNeverAhead
  BY DEF IInv, Known
<1> QED
  BY <1>1, Invariance, PTL

=============================================================================
