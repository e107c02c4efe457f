------------------------------ MODULE Archive ------------------------------
(***************************************************************************)
(* What comes into the archive and what leaves it: ingest() of             *)
(* app/news/services.py, for live items and for those of an import, and    *)
(* the retention of maintain() in app/core/storage.py, with the commands   *)
(* that make permanent references to a version.                            *)
(*                                                                         *)
(* ingest() looks for tombstones, then takes the lock on its URL and reads *)
(* the identity and the article, then locks the article's row and writes:  *)
(* three steps.  A batch of the retention locks rows, checks them again,   *)
(* and deletes: three steps.  The database keeps url_hash and the          *)
(* identities unique and refuses to delete what has PROTECT references.    *)
(*                                                                         *)
(* There is one feed.  An article is named by its URL, a version by its    *)
(* text; `1 .. clock' are stamps.                                          *)
(*                                                                         *)
(* A definition marked `Fault' is a variant of the one that follows it, in *)
(* which one thing is wrong and which must break a property.               *)
(***************************************************************************)
EXTENDS Integers, FiniteSets

CONSTANTS
  Urls, Guids, Texts,
  Items,       \* what the feed and the import offer
  Ingests,     \* executions of ingest()
  NoUrl, NoText, NoItem,
  MAX_CLOCK    \* bound on time

\* An import states when its item was first seen and updated; a live item is
\* stamped when it is stored.
ItemType == [url : Urls, guid : Guids, text : Texts, imported : BOOLEAN,
             first : 1 .. MAX_CLOCK, updated : 1 .. MAX_CLOCK]

ASSUME ArchiveAssumption ==
  /\ MAX_CLOCK \in Nat \ {0} /\ Items \subseteq ItemType
  /\ NoUrl \notin Urls /\ NoText \notin Texts /\ NoItem \notin ItemType
  /\ Urls \cap Guids = {}

VARIABLES
  article,   \* the tables Article and ArticleVersion
  identity,  \* the table FeedIdentity: the article of a GUID
  tombs,     \* the keys in the table Tombstone
  pinned,    \* versions with a PROTECT reference: favourites, brief items, reports
  busy,      \* articles with a pending or running job
  ing,       \* the executions of ingest()
  batch,     \* the batch of the retention that is under way
  clock,
  gone       \* the keys of what was deleted in the last 30 days (history)

vars == <<article, identity, tombs, pinned, busy, ing, batch, clock, gone>>

\* created[t] is 0 when there is no version with text t.  `aged': first_seen is
\* before the cutoff.
Row == [exists : BOOLEAN, current : Texts \cup {NoText}, created : [Texts -> 0 .. MAX_CLOCK],
        imported : BOOLEAN, aged : BOOLEAN]

NoRow == [exists |-> FALSE, current |-> NoText, created |-> [t \in Texts |-> 0],
          imported |-> FALSE, aged |-> FALSE]

\* `late': an article with a key of the item was deleted after the look-up of
\* tombstones (history).
Ingest == [pc : {"idle", "looked", "mapped"}, item : Items \cup {NoItem},
           found : Urls \cup {NoUrl}, late : BOOLEAN]

NoIngest == [pc |-> "idle", item |-> NoItem, found |-> NoUrl, late |-> FALSE]

NoBatch == [pc |-> "idle", rows |-> {}]

\* An article has a current version, which is one of its versions.
TypeOK ==
  /\ article \in [Urls -> Row]
  /\ \A u \in Urls : article[u].exists => /\ article[u].current \in Texts
                                          /\ article[u].created[article[u].current] > 0
  /\ identity \in [Guids -> Urls \cup {NoUrl}]
  /\ tombs \subseteq Urls \cup Guids
  /\ pinned \subseteq Urls \X Texts
  /\ busy \subseteq Urls
  /\ ing \in [Ingests -> Ingest]
  /\ batch \in [pc : {"idle", "locked", "checked"}, rows : SUBSET Urls]
  /\ clock \in 1 .. MAX_CLOCK
  /\ gone \subseteq Urls \cup Guids

Init ==
  /\ article = [u \in Urls |-> NoRow]
  /\ identity = [g \in Guids |-> NoUrl]
  /\ tombs = {} /\ pinned = {} /\ busy = {} /\ gone = {}
  /\ ing = [i \in Ingests |-> NoIngest]
  /\ batch = NoBatch
  /\ clock = 1

-----------------------------------------------------------------------------
(* ingest(feed, item, imported) *)

Keys(item) == {item.url, item.guid}

\* "duplicate" when there is a tombstone.
Look(i, item) ==
  /\ ing[i].pc = "idle" /\ Keys(item) \cap tombs = {}
  /\ item.imported => item.updated <= clock
  /\ ing' = [ing EXCEPT ![i] = [pc |-> "looked", item |-> item, found |-> NoUrl, late |-> FALSE]]
  /\ UNCHANGED <<article, identity, tombs, pinned, busy, batch, clock, gone>>

\* pg_advisory_xact_lock on the URL.
UrlLocked(u) == \E i \in Ingests : ing[i].pc = "mapped" /\ ing[i].item.url = u

\* The article of the identity, else that of the URL, else a new one.
Map(i) ==
  LET item == ing[i].item
  IN /\ ing[i].pc = "looked" /\ ~ UrlLocked(item.url)
     /\ ing' = [ing EXCEPT ![i] =
                  [@ EXCEPT !.pc = "mapped",
                            !.found = IF identity[item.guid] # NoUrl THEN identity[item.guid]
                                      ELSE IF article[item.url].exists THEN item.url
                                      ELSE NoUrl]]
     /\ UNCHANGED <<article, identity, tombs, pinned, busy, batch, clock, gone>>

\* Fault: an import is taken as it comes.
NewerAlways(item, row, stamp) == TRUE

\* A fresh version of an import becomes current only if it is not older.
Newer(item, row, stamp) ==
  ~ item.imported \/ row.current = NoText \/ stamp >= row.created[row.current]

Stamp(item) == IF item.imported THEN item.updated ELSE clock

\* The row after a version was stored, or found.  A later import corrects the stamp
\* of a version that is no older than what it says.
Stored(item, row) ==
  LET stamp == Stamp(item)
      fresh == row.created[item.text] = 0
      corrects == /\ item.imported /\ row.imported /\ ~ fresh
                  /\ row.created[item.text] > item.first
  IN [row EXCEPT !.created[item.text] = IF fresh \/ corrects THEN stamp ELSE @,
                 !.current = IF (fresh /\ Newer(item, row, stamp)) \/ row.current = NoText
                             THEN item.text ELSE @]

Finish(i) == ing' = [ing EXCEPT ![i] = NoIngest]

\* The article is written to the end of the transaction.  It waits for a row that
\* a batch holds.  An import may bring first_seen to before the cutoff.
SaveKnown(i) ==
  LET u == ing[i].found  item == ing[i].item
  IN /\ ing[i].pc = "mapped" /\ u # NoUrl
     /\ article[u].exists /\ u \notin batch.rows
     /\ \E aged \in {FALSE, item.imported} :
          article' = [article EXCEPT ![u] =
            Stored(item, [article[u] EXCEPT !.aged = @ \/ aged])]
     /\ identity' = [identity EXCEPT ![item.guid] = IF @ = NoUrl THEN u ELSE @]
     /\ Finish(i)
     /\ UNCHANGED <<tombs, pinned, busy, batch, clock, gone>>

SaveNew(i) ==
  LET item == ing[i].item  u == item.url
  IN /\ ing[i].pc = "mapped" /\ ing[i].found = NoUrl
     /\ ~ article[u].exists
     /\ \E aged \in {FALSE, item.imported} :
          article' = [article EXCEPT ![u] =
            Stored(item, [NoRow EXCEPT !.exists = TRUE, !.imported = item.imported,
                                       !.aged = aged])]
     /\ identity' = [identity EXCEPT ![item.guid] = IF @ = NoUrl THEN u ELSE @]
     /\ Finish(i)
     /\ UNCHANGED <<tombs, pinned, busy, batch, clock, gone>>

\* The article went meanwhile, another one took the URL, or the process dies.
Abort(i) ==
  /\ ing[i].pc # "idle"
  /\ Finish(i)
  /\ UNCHANGED <<article, identity, tombs, pinned, busy, batch, clock, gone>>

-----------------------------------------------------------------------------
(* References *)

Has(v) == article[v[1]].exists /\ article[v[1]].created[v[2]] > 0

\* "favourite", "seed" and "accept_candidate" lock the row of the article.
Pin(v) ==
  /\ Has(v) /\ v \notin pinned /\ v[1] \notin batch.rows
  /\ pinned' = pinned \cup {v}
  /\ UNCHANGED <<article, identity, tombs, busy, ing, batch, clock, gone>>

\* A briefing adds its items without that lock.
Quote(v) ==
  /\ Has(v) /\ v \notin pinned /\ article[v[1]].current = v[2]
  /\ pinned' = pinned \cup {v}
  /\ UNCHANGED <<article, identity, tombs, busy, ing, batch, clock, gone>>

\* "favourite" again, "remove_node".
Unpin(v) ==
  /\ v \in pinned
  /\ pinned' = pinned \ {v}
  /\ UNCHANGED <<article, identity, tombs, busy, ing, batch, clock, gone>>

\* A new job's reference to the article waits for the lock of a batch.
AddJob(u) ==
  /\ article[u].exists /\ u \notin busy /\ u \notin batch.rows
  /\ busy' = busy \cup {u}
  /\ UNCHANGED <<article, identity, tombs, pinned, ing, batch, clock, gone>>

EndJob(u) ==
  /\ u \in busy
  /\ busy' = busy \ {u}
  /\ UNCHANGED <<article, identity, tombs, pinned, ing, batch, clock, gone>>

-----------------------------------------------------------------------------
(* maintain() *)

\* protected_articles().
Protected(u) == u \in busy \/ \E v \in pinned : v[1] = u

\* The rows that are old enough are locked.
Select ==
  LET rows == {u \in Urls : article[u].exists /\ article[u].aged /\ ~ Protected(u)}
  IN /\ batch.pc = "idle" /\ rows # {}
     /\ batch' = [pc |-> "locked", rows |-> rows]
     /\ UNCHANGED <<article, identity, tombs, pinned, busy, ing, clock, gone>>

\* safe_ids.  The locks on the other rows stay until the end; they matter to nobody.
Recheck ==
  /\ batch.pc = "locked"
  /\ batch' = [pc |-> "checked", rows |-> {u \in batch.rows : ~ Protected(u)}]
  /\ UNCHANGED <<article, identity, tombs, pinned, busy, ing, clock, gone>>

AllKeys(rows) == rows \cup {g \in Guids : identity[g] \in rows}

\* Fault: without the keys of the identities.
TombKeysOfUrls(rows) == rows

TombKeys(rows) == AllKeys(rows)

\* Fault: on_delete=CASCADE on the references.
RefusedNever(rows) == FALSE

\* on_delete=PROTECT, and the constraint at the end of the transaction.
Refused(rows) == \E v \in pinned : v[1] \in rows

\* Identities, versions and links to jobs go with the article.
Delete ==
  LET rows == batch.rows
  IN /\ batch.pc = "checked" /\ ~ Refused(rows)
     /\ article' = [u \in Urls |-> IF u \in rows THEN NoRow ELSE article[u]]
     /\ identity' = [g \in Guids |-> IF identity[g] \in rows THEN NoUrl ELSE identity[g]]
     /\ tombs' = tombs \cup TombKeys(rows)
     /\ gone' = gone \cup AllKeys(rows)
     /\ busy' = busy \ rows
     /\ ing' = [i \in Ingests |->
                  IF ing[i].pc # "idle" /\ Keys(ing[i].item) \cap AllKeys(rows) # {}
                  THEN [ing[i] EXCEPT !.late = TRUE] ELSE ing[i]]
     /\ batch' = NoBatch
     /\ UNCHANGED <<pinned, clock>>

\* The database refuses, or the process dies: the batch is undone.
RollBack ==
  /\ batch.pc # "idle"
  /\ batch' = NoBatch
  /\ UNCHANGED <<article, identity, tombs, pinned, busy, ing, clock, gone>>

\* Fault: the current version is old enough too.
SupersededAny(u, t) == article[u].created[t] > 0

Superseded(u, t) == article[u].created[t] > 0 /\ article[u].current # t

\* A version of more than 30 days that nothing refers to, after the batches.
DropVersion(u, t) ==
  /\ article[u].exists /\ Superseded(u, t) /\ <<u, t>> \notin pinned
  /\ u \notin busy /\ batch.pc = "idle"
  /\ article' = [article EXCEPT ![u].created[t] = 0]
  /\ UNCHANGED <<identity, tombs, pinned, busy, ing, batch, clock, gone>>

\* After 30 days, in which no ingestion stays open.
ExpireTombstones ==
  /\ tombs # {} /\ \A i \in Ingests : ing[i].pc = "idle"
  /\ tombs' = {} /\ gone' = {}
  /\ UNCHANGED <<article, identity, pinned, busy, ing, batch, clock>>

Age(u) ==
  /\ article[u].exists /\ ~ article[u].aged
  /\ article' = [article EXCEPT ![u].aged = TRUE]
  /\ UNCHANGED <<identity, tombs, pinned, busy, ing, batch, clock, gone>>

Tick ==
  /\ clock < MAX_CLOCK
  /\ clock' = clock + 1
  /\ UNCHANGED <<article, identity, tombs, pinned, busy, ing, batch, gone>>

-----------------------------------------------------------------------------

Next ==
  \/ \E i \in Ingests, item \in Items : Look(i, item)
  \/ \E i \in Ingests : Map(i)
  \/ \E i \in Ingests : SaveKnown(i)
  \/ \E i \in Ingests : SaveNew(i)
  \/ \E i \in Ingests : Abort(i)
  \/ \E v \in Urls \X Texts : Pin(v)
  \/ \E v \in Urls \X Texts : Quote(v)
  \/ \E v \in Urls \X Texts : Unpin(v)
  \/ \E u \in Urls : AddJob(u)
  \/ \E u \in Urls : EndJob(u)
  \/ Select
  \/ Recheck
  \/ Delete
  \/ RollBack
  \/ \E u \in Urls, t \in Texts : DropVersion(u, t)
  \/ ExpireTombstones
  \/ \E u \in Urls : Age(u)
  \/ Tick

Spec == Init /\ [][Next]_vars

-----------------------------------------------------------------------------
(* Properties. *)

\* What is cited stays (docs/architecture.md:35): although a briefing adds items
\* without locking the article, and a batch deletes after its last check, a version
\* that is favoured, briefed or reported is never deleted (storage.py:70-100).
PinnedKept == \A v \in pinned : Has(v)

\* docs/architecture.md:11: an import never covers a newer version, whatever came
\* between its look at the article and its write (news/services.py:137, 166).
ImportKeepsNewer ==
  [][\A i \in Ingests, u \in Urls :
       /\ ing[i].pc = "mapped" /\ ing[i].item.imported /\ ing'[i] # ing[i]
       /\ article[u].exists /\ article'[u].exists
       /\ article'[u].current # article[u].current
       => article'[u].created[article'[u].current] >= article[u].created[article[u].current]]_vars

\* What the retention deleted does not come back for 30 days, by its URL or under
\* another URL by its GUID; only an ingestion that had looked for tombstones before
\* the deletion was committed may store it again (news/services.py:115-119).
GoneForAMonth ==
  [][\A i \in Ingests :
       /\ ing[i].pc = "mapped" /\ ing'[i] # ing[i] /\ article' # article
       /\ Keys(ing[i].item) \cap gone # {}
       => ing[i].late]_vars

=============================================================================
