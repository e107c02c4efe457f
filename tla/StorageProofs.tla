---------------------------- MODULE StorageProofs ----------------------------
(***************************************************************************)
(* What app/core/storage.py and the backups promise: the inductive         *)
(* invariants and the theorems of Archive, for any URLs, identities, texts,*)
(* items and ingestions, and of Operations, for any number of backups under*)
(* way, any numbers of archives and weeks to keep, and any times.          *)
(***************************************************************************)
EXTENDS Archive, Operations, FiniteSetTheorems, WellFoundedInduction, TLAPS

-----------------------------------------------------------------------------
(* Archive: the inductive invariant. *)

\* An ingestion under way has an item, ...
Busy == \A i \in Ingests : ing[i].pc # "idle" => ing[i].item \in Items

\* ... and knows that nothing with a key of its item was deleted in the last month,
\* unless a deletion came after it looked.
Looked ==
  \A i \in Ingests :
    ing[i].pc # "idle" /\ ~ ing[i].late => Keys(ing[i].item) \cap gone = {}

\* What was deleted in the last month has its tombstones.
Buried == gone \subseteq tombs

IInv == TypeOK /\ Busy /\ Looked /\ Buried /\ PinnedKept

-----------------------------------------------------------------------------
(* Archive: what storing a version does to the row of its article. *)

\* An article that is there has a current version after each store, loses none, and
\* by an import gets no older one than it had.
LEMMA StoredRow ==
  ASSUME NEW item \in Items, NEW was \in Row, clock \in 1 .. MAX_CLOCK,
         was.current = NoText \/ was.created[was.current] > 0
  PROVE  LET new == Stored(item, was)
         IN /\ new \in Row
            /\ new.exists = was.exists
            /\ new.current \in Texts /\ new.created[new.current] > 0
            /\ \A t \in Texts : was.created[t] > 0 => new.created[t] > 0
            /\ item.imported /\ was.current # NoText /\ new.current # was.current
                 => new.created[new.current] >= was.created[was.current]
<1> DEFINE stamp == Stamp(item)
           fresh == was.created[item.text] = 0
           corrects == /\ item.imported /\ was.imported /\ ~ fresh
                       /\ was.created[item.text] > item.first
           created == [was.created EXCEPT ![item.text] = IF fresh \/ corrects THEN stamp ELSE @]
           current == IF (fresh /\ Newer(item, was, stamp)) \/ was.current = NoText
                      THEN item.text ELSE was.current
           new == Stored(item, was)
<1>1. /\ item.text \in Texts /\ item.imported \in BOOLEAN /\ MAX_CLOCK \in Nat
      /\ stamp \in 1 .. MAX_CLOCK
  BY ArchiveAssumption DEF ItemType, Stamp
<1>2. /\ was.created \in [Texts -> 0 .. MAX_CLOCK]
      /\ was.current \in Texts \cup {NoText} /\ NoText \notin Texts
  BY ArchiveAssumption DEF Row
<1>3. new = [was EXCEPT !.created = created, !.current = current]
  BY DEF Stored
<1>4. /\ new.exists = was.exists /\ new.imported = was.imported /\ new.aged = was.aged
      /\ new.created = created /\ new.current = current
      /\ new = [exists |-> was.exists, current |-> current, created |-> created,
                imported |-> was.imported, aged |-> was.aged]
  BY <1>3 DEF Row
<1>5. created \in [Texts -> 0 .. MAX_CLOCK] /\ current \in Texts
  BY <1>1, <1>2
<1>6. \A t \in Texts : was.created[t] > 0 => created[t] > 0
  BY <1>1, <1>2
<1>7. created[current] > 0
  BY <1>1, <1>2, <1>6
<1>8. item.imported /\ was.current # NoText /\ current # was.current
        => created[current] >= was.created[was.current]
  BY <1>1, <1>2 DEF Newer
<1> HIDE DEF stamp, fresh, corrects, created, current, new
<1>9. new \in Row
  BY <1>4, <1>5 DEF Row
<1> QED
  BY <1>4, <1>5, <1>6, <1>7, <1>8, <1>9 DEF new

\* A new article is typed and waits for its first version.
LEMMA NewRow ==
  ASSUME NEW imported \in BOOLEAN, NEW aged \in BOOLEAN
  PROVE  LET was == [NoRow EXCEPT !.exists = TRUE, !.imported = imported, !.aged = aged]
         IN was \in Row /\ was.exists /\ was.current = NoText
<1>1. NoRow \in Row
  BY ArchiveAssumption DEF NoRow, Row
<1>2. NoRow.current = NoText
  BY DEF NoRow
<1> QED
  BY <1>1, <1>2 DEF Row

\* Age changes nothing else of an article.
LEMMA AgedRow ==
  ASSUME NEW was \in Row, NEW aged \in BOOLEAN
  PROVE  LET new == [was EXCEPT !.aged = aged]
         IN /\ new \in Row /\ new.exists = was.exists
            /\ new.current = was.current /\ new.created = was.created
<1> QED
  BY DEF Row

-----------------------------------------------------------------------------
(* Archive: the actions. *)

\* The archive is empty: nothing is deleted, referenced or under way.
LEMMA Start == Init => IInv
<1> SUFFICES ASSUME Init PROVE IInv
  OBVIOUS
<1> USE ArchiveAssumption DEF Init
<1>1. TypeOK
  BY DEF TypeOK, NoRow, Row, NoIngest, Ingest, NoBatch
<1>2. Busy /\ Looked /\ Buried /\ PinnedKept
  BY DEF Busy, Looked, Buried, PinnedKept, NoIngest
<1> QED
  BY <1>1, <1>2 DEF IInv

\* An ingestion begins with the look for tombstones (news/services.py:116-119).
LEMMA LookIInv ==
  ASSUME IInv, NEW i \in Ingests, NEW item \in Items, Look(i, item)
  PROVE  IInv'
<1> USE DEF IInv, Look
<1>1. TypeOK'
  BY DEF TypeOK, Ingest
<1>2. (Busy /\ Looked /\ Buried)'
  BY DEF Busy, Looked, Buried, TypeOK, Ingest
<1>3. PinnedKept'
  BY DEF PinnedKept, Has
<1> QED
  BY <1>1, <1>2, <1>3

\* The identity is found or made under the lock of the URL (news/services.py:120-141).
LEMMA MapIInv ==
  ASSUME IInv, NEW i \in Ingests, Map(i)
  PROVE  IInv'
<1> USE DEF IInv, Map
<1> DEFINE item == ing[i].item
           found == IF identity[item.guid] # NoUrl THEN identity[item.guid]
                    ELSE IF article[item.url].exists THEN item.url ELSE NoUrl
<1>1. item \in Items /\ item.guid \in Guids /\ item.url \in Urls
  BY ArchiveAssumption DEF Busy, ItemType
<1>5. found \in Urls \cup {NoUrl}
  BY <1>1 DEF TypeOK
<1>6. ing[i] \in Ingest /\ ing \in [Ingests -> Ingest]
  BY DEF TypeOK
<1>7. ing' = [ing EXCEPT ![i] = [ing[i] EXCEPT !.pc = "mapped", !.found = found]]
  OBVIOUS
<1> HIDE DEF found
<1>8. LET new == [ing[i] EXCEPT !.pc = "mapped", !.found = found]
      IN /\ new \in Ingest /\ new.pc = "mapped"
         /\ new.item = item /\ new.late = ing[i].late
  BY <1>5, <1>6 DEF Ingest
<1>2. TypeOK'
  BY <1>6, <1>7, <1>8 DEF TypeOK
<1>3. (Busy /\ Looked /\ Buried)'
  BY <1>6, <1>7, <1>8 DEF Busy, Looked, Buried
<1>4. PinnedKept'
  BY DEF PinnedKept, Has
<1> QED
  BY <1>2, <1>3, <1>4

\* The end of an ingestion.
LEMMA Finished ==
  ASSUME IInv, NEW i \in Ingests, Finish(i), UNCHANGED <<tombs, gone>>
  PROVE  (ing \in [Ingests -> Ingest] /\ Busy /\ Looked /\ Buried)'
<1> QED
  BY ArchiveAssumption
     DEF IInv, Finish, NoIngest, TypeOK, Ingest, Busy, Looked, Buried

\* What the second half of an ingestion writes to an article that was found.
LEMMA SavedKnown ==
  ASSUME IInv, NEW i \in Ingests, SaveKnown(i)
  PROVE  LET u == ing[i].found  item == ing[i].item
         IN /\ u \in Urls /\ item.guid \in Guids
            /\ \E new \in Row :
                 /\ article' = [article EXCEPT ![u] = new] /\ new.exists
                 /\ new.current \in Texts /\ new.created[new.current] > 0
                 /\ \A t \in Texts : article[u].created[t] > 0 => new.created[t] > 0
                 /\ item.imported /\ new.current # article[u].current
                      => new.created[new.current] >= article[u].created[article[u].current]
<1> DEFINE u == ing[i].found  item == ing[i].item
<1>1. /\ item \in Items /\ u \in Urls /\ item.guid \in Guids /\ article[u] \in Row
      /\ article[u].exists
  BY ArchiveAssumption DEF IInv, TypeOK, SaveKnown, Busy, Ingest, ItemType
<1>2. PICK aged \in BOOLEAN :
        article' = [article EXCEPT ![u] =
                      Stored(item, [article[u] EXCEPT !.aged = article[u].aged \/ aged])]
  BY <1>1, ArchiveAssumption DEF SaveKnown, ItemType
<1> DEFINE was == [article[u] EXCEPT !.aged = article[u].aged \/ aged]
           new == Stored(item, was)
<1>3. /\ was \in Row /\ was.exists /\ was.current = article[u].current
      /\ was.created = article[u].created
  <2>1. article[u].aged \/ aged \in BOOLEAN
    BY <1>1 DEF Row
  <2> QED
    BY <1>1, <2>1, AgedRow
<1>4. /\ clock \in 1 .. MAX_CLOCK /\ was.created[was.current] > 0
      /\ article[u].current \in Texts /\ NoText \notin Texts
  BY <1>1, <1>3, ArchiveAssumption DEF IInv, TypeOK
<1>5. /\ new \in Row /\ new.exists
      /\ new.current \in Texts /\ new.created[new.current] > 0
      /\ \A t \in Texts : article[u].created[t] > 0 => new.created[t] > 0
      /\ item.imported /\ new.current # article[u].current
           => new.created[new.current] >= article[u].created[article[u].current]
  <2> HIDE DEF was
  <2> QED
    BY <1>1, <1>3, <1>4, StoredRow
<1>6. article' = [article EXCEPT ![u] = new]
  BY <1>2
<1> HIDE DEF new
<1> QED
  BY <1>1, <1>5, <1>6

\* A version stored in an article that is still there breaks nothing
\* (news/services.py:137-188).
LEMMA SaveKnownIInv ==
  ASSUME IInv, NEW i \in Ingests, SaveKnown(i)
  PROVE  IInv'
<1> DEFINE u == ing[i].found  item == ing[i].item
<1>1. PICK new \in Row :
        /\ article' = [article EXCEPT ![u] = new] /\ new.exists
        /\ new.current \in Texts /\ new.created[new.current] > 0
        /\ \A t \in Texts : article[u].created[t] > 0 => new.created[t] > 0
  BY SavedKnown
<1>2. u \in Urls /\ item.guid \in Guids
  BY SavedKnown
<1> HIDE DEF u, item
<1>3. /\ Finish(i) /\ UNCHANGED <<tombs, pinned, busy, batch, clock, gone>>
      /\ identity' \in [Guids -> Urls \cup {NoUrl}]
  BY <1>2 DEF SaveKnown, IInv, TypeOK, u, item
<1>4. TypeOK'
  BY <1>1, <1>2, <1>3, Finished DEF IInv, TypeOK
<1>5. PinnedKept'
  BY <1>1, <1>2, <1>3 DEF IInv, TypeOK, PinnedKept, Has
<1> QED
  BY <1>3, <1>4, <1>5, Finished DEF IInv

\* A new article gets its version with it; none of its keys was deleted since the
\* look, or the ingestion is recorded as late (news/services.py:137-188).
LEMMA SaveNewIInv ==
  ASSUME IInv, NEW i \in Ingests, SaveNew(i)
  PROVE  IInv'
<1> DEFINE item == ing[i].item  u == item.url
<1>1. /\ item \in Items /\ u \in Urls /\ item.guid \in Guids
      /\ item.imported \in BOOLEAN /\ ~ article[u].exists
  BY ArchiveAssumption DEF IInv, TypeOK, SaveNew, Busy, Ingest, ItemType
<1>2. PICK aged \in BOOLEAN :
        article' = [article EXCEPT ![u] =
          Stored(item, [NoRow EXCEPT !.exists = TRUE, !.imported = item.imported,
                                     !.aged = aged])]
  BY <1>1 DEF SaveNew
<1> DEFINE was == [NoRow EXCEPT !.exists = TRUE, !.imported = item.imported, !.aged = aged]
           new == Stored(item, was)
<1>4. was \in Row /\ was.exists /\ was.current = NoText
  BY <1>1, NewRow
<1>5. clock \in 1 .. MAX_CLOCK
  BY DEF IInv, TypeOK
<1>6. /\ new \in Row /\ new.exists
      /\ new.current \in Texts /\ new.created[new.current] > 0
  BY <1>1, <1>4, <1>5, StoredRow
<1>7. article' = [article EXCEPT ![u] = new]
  BY <1>2
<1> HIDE DEF new, was, u, item
<1>8. /\ Finish(i) /\ UNCHANGED <<tombs, pinned, busy, batch, clock, gone>>
      /\ identity' \in [Guids -> Urls \cup {NoUrl}]
  BY <1>1 DEF SaveNew, IInv, TypeOK, u, item
<1>9. TypeOK'
  BY <1>1, <1>6, <1>7, <1>8, Finished DEF IInv, TypeOK
<1>10. PinnedKept'
  BY <1>1, <1>7, <1>8 DEF IInv, TypeOK, PinnedKept, Has
<1> QED
  BY <1>8, <1>9, <1>10, Finished DEF IInv

\* An ingestion that is rolled back leaves the tables alone.
LEMMA AbortIInv ==
  ASSUME IInv, NEW i \in Ingests, Abort(i)
  PROVE  IInv'
<1> QED
  BY Finished DEF Abort, IInv, TypeOK, PinnedKept, Has

\* References come and go, batches begin, and time passes.
LEMMA ReferencesIInv ==
  ASSUME IInv, NEW v \in Urls \X Texts, Pin(v) \/ Quote(v) \/ Unpin(v)
  PROVE  IInv'
<1> QED
  BY DEF Pin, Quote, Unpin, IInv, TypeOK, Busy, Looked, Buried, PinnedKept, Has

\* Jobs come and go: they keep an article from deletion, but are not references.
LEMMA JobsIInv ==
  ASSUME IInv, NEW u \in Urls, AddJob(u) \/ EndJob(u)
  PROVE  IInv'
<1> QED
  BY DEF AddJob, EndJob, IInv, TypeOK, Busy, Looked, Buried, PinnedKept, Has

\* A batch selects, locks and looks again, or gives up: nothing is deleted yet
\* (storage.py:69-86).
LEMMA BatchIInv ==
  ASSUME IInv, Select \/ Recheck \/ RollBack
  PROVE  IInv'
<1> QED
  BY DEF Select, Recheck, RollBack, NoBatch, IInv, TypeOK, Busy, Looked, Buried,
     PinnedKept, Has

\* An article grows old.
LEMMA AgeIInv ==
  ASSUME IInv, NEW u \in Urls, Age(u)
  PROVE  IInv'
<1> USE DEF IInv, Age
<1>1. article[u] \in Row /\ article \in [Urls -> Row]
  BY DEF TypeOK
<1> DEFINE new == [article[u] EXCEPT !.aged = TRUE]
<1>2. /\ new \in Row /\ new.exists = article[u].exists
      /\ new.current = article[u].current /\ new.created = article[u].created
  BY <1>1, AgedRow
<1>3. article' = [article EXCEPT ![u] = new]
  OBVIOUS
<1> HIDE DEF new
<1>4. TypeOK'
  BY <1>1, <1>2, <1>3 DEF TypeOK
<1>5. (Busy /\ Looked /\ Buried /\ PinnedKept)'
  BY <1>1, <1>2, <1>3 DEF Busy, Looked, Buried, PinnedKept, Has
<1> QED
  BY <1>4, <1>5

\* A tombstone goes when the deletion is a month ago.
LEMMA ExpireTombstonesIInv ==
  ASSUME IInv, ExpireTombstones
  PROVE  IInv'
<1> QED
  BY DEF ExpireTombstones, IInv, TypeOK, Busy, Looked, Buried, PinnedKept, Has

\* A superseded version goes only without references, and never the current one
\* (storage.py:103-113).
LEMMA DropVersionIInv ==
  ASSUME IInv, NEW u \in Urls, NEW t \in Texts, DropVersion(u, t)
  PROVE  IInv'
<1> USE DEF IInv, DropVersion
<1> DEFINE new == [article[u] EXCEPT !.created[t] = 0]
<1>4. article[u] \in Row /\ article \in [Urls -> Row]
  BY DEF TypeOK
<1>5. /\ new \in Row /\ new.exists = article[u].exists /\ new.current = article[u].current
      /\ \A r \in Texts \ {t} : new.created[r] = article[u].created[r]
  <2>1. new = [article[u] EXCEPT !.created = [article[u].created EXCEPT ![t] = 0]]
    OBVIOUS
  <2>2. [article[u].created EXCEPT ![t] = 0] \in [Texts -> 0 .. MAX_CLOCK]
    BY <1>4, ArchiveAssumption DEF Row
  <2> HIDE DEF new
  <2> QED
    BY <1>4, <2>1, <2>2 DEF Row
<1>6. article' = [article EXCEPT ![u] = new]
  OBVIOUS
<1> HIDE DEF new
<1>1. TypeOK'
  BY <1>4, <1>5, <1>6 DEF TypeOK, Superseded
<1>2. (Busy /\ Looked /\ Buried)'
  BY DEF Busy, Looked, Buried
<1>3. PinnedKept'
  BY <1>4, <1>5, <1>6 DEF PinnedKept, Has, TypeOK
<1> QED
  BY <1>1, <1>2, <1>3

\* The rows of a batch go, and everything that belongs to them.
LEMMA DeleteIInv ==
  ASSUME IInv, Delete
  PROVE  IInv'
<1> DEFINE rows == batch.rows
<1> USE DEF IInv, Delete
<1>1. rows \subseteq Urls
  BY DEF TypeOK
<1>2. TypeOK'
  <2>1. NoRow \in Row /\ ~ NoRow.exists
    BY ArchiveAssumption DEF NoRow, Row
  <2>2. article' \in [Urls -> Row]
    BY <2>1 DEF TypeOK
  <2>3. \A u \in Urls : article'[u].exists => article'[u] = article[u]
    BY <2>1 DEF TypeOK
  <2>4. ing' \in [Ingests -> Ingest]
    BY DEF TypeOK, Ingest
  <2> QED
    BY <1>1, <2>2, <2>3, <2>4 DEF TypeOK, AllKeys, TombKeys, NoBatch
<1>3. (Busy /\ Buried)'
  BY DEF Busy, Buried, TombKeys, TypeOK, Ingest
<1>4. Looked'
  BY DEF Looked, TypeOK, Ingest, Keys
<1>5. PinnedKept'
  BY DEF PinnedKept, Has, Refused, TypeOK
<1> QED
  BY <1>2, <1>3, <1>4, <1>5

-----------------------------------------------------------------------------
(* Archive: the theorems. *)

\* The invariant is inductive: one case for each action of Next.
LEMMA NextIInv == IInv /\ [Next]_vars => IInv'
<1> SUFFICES ASSUME IInv, [Next]_vars PROVE IInv'
  OBVIOUS
<1>1. ASSUME NEW i \in Ingests, NEW item \in Items, Look(i, item) PROVE IInv'
  BY <1>1, LookIInv
<1>2. ASSUME NEW i \in Ingests, Map(i) PROVE IInv'
  BY <1>2, MapIInv
<1>3. ASSUME NEW i \in Ingests, SaveKnown(i) PROVE IInv'
  BY <1>3, SaveKnownIInv
<1>4. ASSUME NEW i \in Ingests, SaveNew(i) PROVE IInv'
  BY <1>4, SaveNewIInv
<1>5. ASSUME NEW i \in Ingests, Abort(i) PROVE IInv'
  BY <1>5, AbortIInv
<1>6. ASSUME NEW v \in Urls \X Texts, Pin(v) \/ Quote(v) \/ Unpin(v) PROVE IInv'
  BY <1>6, ReferencesIInv
<1>7. ASSUME NEW u \in Urls, AddJob(u) \/ EndJob(u) PROVE IInv'
  BY <1>7, JobsIInv
<1>8. CASE Select \/ Recheck \/ RollBack
  BY <1>8, BatchIInv
<1>9. CASE Delete
  BY <1>9, DeleteIInv
<1>10. ASSUME NEW u \in Urls, NEW t \in Texts, DropVersion(u, t) PROVE IInv'
  BY <1>10, DropVersionIInv
<1>11. CASE ExpireTombstones
  BY <1>11, ExpireTombstonesIInv
<1>12. ASSUME NEW u \in Urls, Age(u) PROVE IInv'
  BY <1>12, AgeIInv
<1>13. CASE Tick
  BY <1>13, ArchiveAssumption
     DEF Tick, IInv, TypeOK, Busy, Looked, Buried, PinnedKept, Has
<1>14. CASE UNCHANGED vars
  BY <1>14 DEF vars, IInv, TypeOK, Busy, Looked, Buried, PinnedKept, Has
<1> QED
  BY <1>1, <1>2, <1>3, <1>4, <1>5, <1>6, <1>7, <1>8, <1>9, <1>10, <1>11, <1>12, <1>13,
     <1>14 DEF Next

\* The invariant behind the theorems below holds throughout (news/services.py:111-189,
\* storage.py:55-113).
THEOREM Invariance == Spec => []IInv
<1> QED
  BY Start, NextIInv, PTL DEF Spec

\* Every article has a current version, which is there (news/services.py:159-168).
THEOREM TypeCorrect == Spec => []TypeOK
<1>1. IInv => TypeOK
  BY DEF IInv
<1> QED
  BY <1>1, Invariance, PTL

\* No version with a reference is deleted, whoever adds references while a batch is
\* under way (storage.py:69-113).
THEOREM ReferencesSafe == Spec => []PinnedKept
<1>1. IInv => PinnedKept
  BY DEF IInv
<1> QED
  BY <1>1, Invariance, PTL

\* An import makes an older version current in no article that existed, whatever was
\* stored between its look at the article and its write (news/services.py:137, 166).
THEOREM ImportsKeepNewer == Spec => ImportKeepsNewer
<1> DEFINE NotOlder(i, u) ==
             /\ ing[i].pc = "mapped" /\ ing[i].item.imported /\ ing'[i] # ing[i]
             /\ article[u].exists /\ article'[u].exists
             /\ article'[u].current # article[u].current
             => article'[u].created[article'[u].current] >= article[u].created[article[u].current]
           Step == \A i \in Ingests, u \in Urls : NotOlder(i, u)
<1>1. IInv /\ [Next]_vars => [Step]_vars
  <2> SUFFICES ASSUME IInv, Next, NEW i \in Ingests, NEW u \in Urls PROVE NotOlder(i, u)
    OBVIOUS
  <2>1. article \in [Urls -> Row] /\ ing \in [Ingests -> Ingest]
    BY DEF IInv, TypeOK
  <2>2. ASSUME NEW j \in Ingests, SaveKnown(j) PROVE NotOlder(i, u)
    <3>1. ing' = [ing EXCEPT ![j] = NoIngest]
      BY <2>2 DEF SaveKnown, Finish
    <3>2. PICK new \in Row :
            /\ article' = [article EXCEPT ![ing[j].found] = new]
            /\ ing[j].item.imported /\ new.current # article[ing[j].found].current
                 => new.created[new.current]
                      >= article[ing[j].found].created[article[ing[j].found].current]
      BY <2>2, SavedKnown
    <3> QED
      BY <2>1, <3>1, <3>2
  <2>3. ASSUME NEW j \in Ingests, SaveNew(j) PROVE NotOlder(i, u)
    BY <2>1, <2>3 DEF SaveNew
  <2>4. CASE Delete
    BY <2>1, <2>4 DEF Delete, NoRow
  <2>5. CASE UNCHANGED article
    BY <2>5
  <2>6. CASE UNCHANGED ing
    BY <2>6
  <2> QED
    BY <2>2, <2>3, <2>4, <2>5, <2>6
       DEF Next, Look, Map, Abort, Pin, Quote, Unpin, AddJob, EndJob, Select, Recheck,
           RollBack, DropVersion, ExpireTombstones, Age, Tick
<1> QED
  BY <1>1, Invariance, PTL DEF Spec, ImportKeepsNewer

\* What was deleted in the last month comes back only by an ingestion that had
\* looked before the deletion (news/services.py:115-119).
THEOREM DeletedStaysAway == Spec => GoneForAMonth
<1> DEFINE Step == \A i \in Ingests :
                     /\ ing[i].pc = "mapped" /\ ing'[i] # ing[i] /\ article' # article
                     /\ Keys(ing[i].item) \cap gone # {}
                     => ing[i].late
<1>1. IInv => Step
  BY DEF IInv, Looked, TypeOK, Ingest
<1>2. IInv /\ [Next]_vars => [Step]_vars
  BY <1>1
<1> QED
  BY <1>2, Invariance, PTL DEF Spec, GoneForAMonth

-----------------------------------------------------------------------------
(* Operations: the inductive invariant. *)

\* An archive that may go: not one of the last KEEP, and not the last one of its week
\* or not of the last KEEP_WEEKS weeks.
Expendable(s) ==
  /\ Younger(s, made) >= KEEP
  /\ \/ \E t \in made : t > s /\ WeekOf(t) = WeekOf(s)
     \/ Younger(WeekOf(s), {WeekOf(t) : t \in made}) >= KEEP_WEEKS

\* What a rotation is about to delete may go, from however old a list.
Doomed == \A b \in Backups : \A s \in back[b].doomed : s \in made /\ Expendable(s)

\* A backup beyond its stream has its archive, and so has the newest mark.
Archived ==
  /\ \A b \in Backups : back[b].pc \in {"saved", "listed"} => back[b].stamp \in made
  /\ newest > 0 => newest \in made

OpsIInv == OpsTypeOK /\ Doomed /\ Archived /\ RotationKeeps /\ BackupRemembered

-----------------------------------------------------------------------------
(* Operations: finite sets of numbers. *)

\* A set of naturals that is not empty has a least element.
LEMMA LeastElement ==
  ASSUME NEW S \in SUBSET Nat, S # {}
  PROVE  \E m \in S : \A t \in S : m <= t
<1> DEFINE R == {ss \in Nat \X Nat : ss[1] < ss[2]}
<1>1. IsWellFoundedOn(R, Nat)
  BY NatLessThanWellFounded DEF OpToRel
<1> HIDE DEF R
<1>2. PICK m \in S : \A t \in S : <<t, m>> \notin R
  BY <1>1, WFMin
<1>3. ASSUME NEW t \in S PROVE m <= t
  <2>1. <<t, m>> \notin R
    BY <1>2
  <2> QED
    BY <2>1 DEF R
<1> QED
  BY <1>3

\* The greatest element of a set of stamps is the least distance from MAX_STAMP.
LEMMA GreatestStamp ==
  ASSUME NEW S \in SUBSET Stamps, S # {}
  PROVE  Max(S) \in S /\ \A t \in S : Max(S) >= t
<1> DEFINE T == {n \in 0 .. MAX_STAMP : MAX_STAMP - n \in S}
<1>1. ASSUME NEW t \in S
      PROVE  t \in Nat /\ MAX_STAMP - t \in T /\ MAX_STAMP \in Nat
  <2>1. t \in 1 .. MAX_STAMP /\ MAX_STAMP \in Nat
    BY OperationsAssumption DEF Stamps
  <2>2. MAX_STAMP - t \in 0 .. MAX_STAMP /\ MAX_STAMP - (MAX_STAMP - t) = t
    BY <2>1
  <2> QED
    BY <2>1, <2>2
<1>2. T \in SUBSET Nat /\ \A n \in T : n \in Nat /\ MAX_STAMP - n \in S
  BY OperationsAssumption
<1>3. T # {}
  BY <1>1
<1> HIDE DEF T
<1>4. PICK m \in T : \A n \in T : m <= n
  BY <1>2, <1>3, LeastElement
<1>5. ASSUME NEW t \in S PROVE MAX_STAMP - m >= t
  <2>1. m <= MAX_STAMP - t /\ m \in Nat
    BY <1>1, <1>2, <1>4
  <2> QED
    BY <1>1, <2>1
<1>6. MAX_STAMP - m \in S
  BY <1>2
<1> QED
  BY <1>5, <1>6 DEF Max

\* There are finitely many archives, and weeks of them.
LEMMA FiniteStamps ==
  ASSUME NEW S \in SUBSET Stamps
  PROVE  IsFiniteSet(S) /\ IsFiniteSet({WeekOf(s) : s \in S})
<1>1. IsFiniteSet(Stamps)
  BY FS_Interval, OperationsAssumption DEF Stamps
<1>2. IsFiniteSet(S)
  BY <1>1, FS_Subset
<1> DEFINE W == {WeekOf(s) : s \in S}
           f == [s \in S |-> WeekOf(s)]
<1>3. f \in Surjection(S, W)
  BY DEF Surjection
<1> HIDE DEF f
<1>4. IsFiniteSet(W)
  BY <1>2, <1>3, FS_Surjection
<1> QED
  BY <1>2, <1>4

\* Of more archives, no fewer are younger.
LEMMA MoreYounger ==
  ASSUME NEW A, NEW B, A \subseteq B, IsFiniteSet(B), NEW s
  PROVE  /\ Younger(s, A) \in Nat /\ Younger(s, B) \in Nat
         /\ Younger(s, A) <= Younger(s, B)
<1> DEFINE a == {t \in A : t > s}  b == {t \in B : t > s}
<1>1. IsFiniteSet(b)
  BY FS_Subset
<1>2. a \in SUBSET b
  OBVIOUS
<1> HIDE DEF a, b
<1>3. /\ Cardinality(a) \in Nat /\ Cardinality(b) \in Nat
      /\ Cardinality(a) <= Cardinality(b)
  BY <1>1, <1>2, FS_Subset, FS_CardinalityType
<1> QED
  BY <1>3 DEF Younger, a, b

\* The last archive of all has no younger one.
LEMMA NoYounger ==
  ASSUME NEW S \in SUBSET Stamps, S # {}
  PROVE  Younger(Max(S), S) = 0
<1>1. Max(S) \in S /\ \A t \in S : Max(S) >= t
  BY GreatestStamp
<1>2. S \subseteq Int
  BY DEF Stamps
<1>3. ASSUME NEW t \in S PROVE ~ (t > Max(S))
  <2> DEFINE m == Max(S)
  <2>1. m >= t /\ t \in Int /\ m \in Int
    BY <1>1, <1>2
  <2> HIDE DEF m
  <2>2. ~ (t > m)
    BY <2>1
  <2> QED
    BY <2>2 DEF m
<1>4. {t \in S : t > Max(S)} = {}
  BY <1>3
<1> QED
  BY <1>4, FS_EmptySet DEF Younger

-----------------------------------------------------------------------------
(* Operations: the rotation. *)

\* What a rotation does not keep of a folder may go.
LEMMA NotKept ==
  ASSUME NEW S \in SUBSET Stamps, NEW s \in S \ Kept(S)
  PROVE  /\ Younger(s, S) >= KEEP
         /\ \/ \E t \in S : t > s /\ WeekOf(t) = WeekOf(s)
            \/ Younger(WeekOf(s), {WeekOf(t) : t \in S}) >= KEEP_WEEKS
<1> DEFINE w == WeekOf(s)
           All == {WeekOf(t) : t \in S}
           Weeks == Newest(All, KEEP_WEEKS)
           Same == {t \in S : WeekOf(t) = w}
<1>1. KEEP \in Nat /\ KEEP_WEEKS \in Nat
  BY OperationsAssumption
<1>2. IsFiniteSet(S) /\ IsFiniteSet(All)
  BY FiniteStamps
<1>3. Younger(s, S) \in Nat /\ Younger(w, All) \in Nat
  <2> HIDE DEF w, All
  <2> QED
    BY <1>2, MoreYounger
<1>4. Younger(s, S) >= KEEP
  <2>1. s \notin Newest(S, KEEP)
    BY DEF Kept
  <2> QED
    BY <1>1, <1>3, <2>1 DEF Newest, Younger
<1>5. CASE w \in Weeks
  <2>1. s # Max(Same)
    BY <1>5 DEF Kept
  <2>2. s \in Same /\ Same \in SUBSET Stamps
    OBVIOUS
  <2>3. Max(Same) \in Same /\ Max(Same) >= s
    <3> HIDE DEF Same
    <3> QED
      BY <2>2, GreatestStamp
  <2>4. s \in Int /\ Max(Same) \in Int
    BY <2>2, <2>3 DEF Stamps
  <2>5. Max(Same) > s
    BY <2>1, <2>3, <2>4
  <2> QED
    BY <1>4, <2>3, <2>5
<1>6. CASE w \notin Weeks
  <2>1. w \in All
    OBVIOUS
  <2>2. ~ (Younger(w, All) < KEEP_WEEKS)
    <3> HIDE DEF w, All
    <3> QED
      BY <1>6, <2>1 DEF Newest, Younger, Weeks
  <2>3. Younger(w, All) >= KEEP_WEEKS
    <3> HIDE DEF w, All
    <3> QED
      BY <1>1, <1>3, <2>2
  <2> QED
    BY <1>4, <2>3
<1> QED
  BY <1>5, <1>6

\* What may go may go when there are more archives.
LEMMA StillExpendable ==
  ASSUME NEW A \in SUBSET Stamps, A \subseteq made', made' \in SUBSET Stamps, NEW s,
         Younger(s, A) >= KEEP,
         \/ \E t \in A : t > s /\ WeekOf(t) = WeekOf(s)
         \/ Younger(WeekOf(s), {WeekOf(t) : t \in A}) >= KEEP_WEEKS
  PROVE  Expendable(s)'
<1> DEFINE a == {WeekOf(t) : t \in A}  b == {WeekOf(t) : t \in made'}
<1>1. IsFiniteSet(made') /\ IsFiniteSet(b) /\ a \subseteq b
  BY FiniteStamps
<1>2. KEEP \in Nat /\ KEEP_WEEKS \in Nat
  BY OperationsAssumption
<1>3. Younger(s, made') >= KEEP
  <2>1. /\ Younger(s, A) \in Nat /\ Younger(s, made') \in Nat
        /\ Younger(s, A) <= Younger(s, made')
    BY <1>1, MoreYounger
  <2> QED
    BY <1>2, <2>1
<1>4. Younger(WeekOf(s), a) >= KEEP_WEEKS => Younger(WeekOf(s), b) >= KEEP_WEEKS
  <2> DEFINE w == WeekOf(s)
  <2> HIDE DEF a, b, w
  <2>1. /\ Younger(w, a) \in Nat /\ Younger(w, b) \in Nat /\ Younger(w, a) <= Younger(w, b)
    BY <1>1, MoreYounger
  <2>2. Younger(w, a) >= KEEP_WEEKS => Younger(w, b) >= KEEP_WEEKS
    BY <1>2, <2>1
  <2> QED
    BY <2>2 DEF w
<1>5. Expendable(s)' = (/\ Younger(s, made') >= KEEP
                        /\ \/ \E t \in made' : t > s /\ WeekOf(t) = WeekOf(s)
                           \/ Younger(WeekOf(s), b) >= KEEP_WEEKS)
  BY DEF Expendable, Younger, WeekOf
<1> QED
  BY <1>3, <1>4, <1>5

-----------------------------------------------------------------------------
(* Operations: the actions. *)

\* The blank records are typed.
LEMMA Records ==
  /\ Fresh \in SiteRow /\ Fresh.backup = 0
  /\ NoForm \in [open : BOOLEAN, row : SiteRow] /\ NoKeeper \in [busy : BOOLEAN, row : SiteRow]
  /\ NoBackup \in Backup /\ NoBackup.pc = "idle" /\ NoBackup.doomed = {}
<1>1. Fresh \in SiteRow /\ Fresh.backup = 0
  BY OperationsAssumption DEF Fresh, SiteRow
<1>2. NoForm \in [open : BOOLEAN, row : SiteRow] /\ NoKeeper \in [busy : BOOLEAN, row : SiteRow]
  BY <1>1 DEF NoForm, NoKeeper
<1>3. NoBackup \in Backup /\ NoBackup.pc = "idle" /\ NoBackup.doomed = {}
  BY OperationsAssumption DEF NoBackup, Backup, Stamps
<1> QED
  BY <1>1, <1>2, <1>3

\* No backup was made.
LEMMA Starts == OpsInit => OpsIInv
<1> SUFFICES ASSUME OpsInit PROVE OpsIInv
  OBVIOUS
<1> USE OperationsAssumption DEF OpsInit
<1>1. OpsTypeOK
  <2>1. back \in [Backups -> Backup]
    BY Records
  <2>2. /\ row \in SiteRow /\ form \in [open : BOOLEAN, row : SiteRow]
        /\ keeper \in [busy : BOOLEAN, row : SiteRow]
    BY Records
  <2>3. marks \in 0 .. MAX_MARKS /\ newest \in 0 .. MAX_STAMP
    OBVIOUS
  <2> QED
    BY <2>1, <2>2, <2>3 DEF OpsTypeOK
<1>2. Doomed /\ Archived
  BY Records DEF Doomed, Archived
<1>3. RotationKeeps /\ BackupRemembered
  BY Records DEF RotationKeeps, BackupRemembered
<1> QED
  BY <1>1, <1>2, <1>3 DEF OpsIInv

\* The forms and maintain() leave the folder alone.
SiteStep == OpenForm \/ SaveForm \/ RefuseForm \/ StartKeeper \/ FreeSpace \/ Measure
            \/ KeeperDies \/ Space

\* The forms and maintain() write the settings row; an old record of a backup comes
\* back only by a row that was read before it (views.py:327, storage.py:137).
LEMMA SiteIInv ==
  ASSUME OpsIInv, SiteStep
  PROVE  OpsIInv'
<1> USE DEF SiteStep, OpenForm, SaveForm, RefuseForm, StartKeeper, FreeSpace, Measure,
            KeeperDies, Space, folder
<1>1. Maintained(row, keeper.row, full) \in SiteRow
  /\ Maintained(row, keeper.row, full).backup = row.backup
  <2>1. row \in SiteRow /\ full \in BOOLEAN
    BY DEF OpsIInv, OpsTypeOK
  <2> QED
    BY <2>1 DEF Maintained, SiteRow
<1> HIDE DEF Maintained
<1>2. UNCHANGED folder
  OBVIOUS
<1>3. row' \in SiteRow /\ full' \in BOOLEAN /\ stale' \in BOOLEAN
  <2>1. row \in SiteRow /\ form.row \in SiteRow /\ full \in BOOLEAN /\ stale \in BOOLEAN
    BY DEF OpsIInv, OpsTypeOK
  <2> QED
    BY <1>1, <2>1
<1>7. form' \in [open : BOOLEAN, row : SiteRow] /\ keeper' \in [busy : BOOLEAN, row : SiteRow]
  <2>1. /\ row \in SiteRow /\ form \in [open : BOOLEAN, row : SiteRow]
        /\ keeper \in [busy : BOOLEAN, row : SiteRow]
    BY DEF OpsIInv, OpsTypeOK
  <2>2. /\ [open |-> TRUE, row |-> row] \in [open : BOOLEAN, row : SiteRow]
        /\ [busy |-> TRUE, row |-> row] \in [busy : BOOLEAN, row : SiteRow]
    BY <2>1
  <2>3. form' \in {form, NoForm, [open |-> TRUE, row |-> row]}
    OBVIOUS
  <2>4. keeper' \in {keeper, NoKeeper, [busy |-> TRUE, row |-> row]}
    OBVIOUS
  <2>5. form' \in [open : BOOLEAN, row : SiteRow]
    BY <2>1, <2>2, <2>3, Records
  <2>6. keeper' \in [busy : BOOLEAN, row : SiteRow]
    BY <2>1, <2>2, <2>4, Records
  <2> QED
    BY <2>5, <2>6
<1>4. OpsTypeOK'
  BY <1>2, <1>3, <1>7 DEF OpsIInv, OpsTypeOK
<1>5. BackupRemembered'
  BY <1>1 DEF OpsIInv, OpsTypeOK, BackupRemembered
<1>6. (Doomed /\ Archived /\ RotationKeeps)'
  BY <1>2 DEF OpsIInv, Doomed, Expendable, Younger, Archived, RotationKeeps
<1> QED
  BY <1>4, <1>5, <1>6 DEF OpsIInv

\* The folder's part of the invariant, when one backup goes from its record to r.
LEMMA BackupIInv ==
  ASSUME OpsIInv, NEW b \in Backups, NEW r \in Backup, back' = [back EXCEPT ![b] = r],
         made \subseteq made', made' \subseteq Stamps,
         r.pc \in {"saved", "listed"} => r.stamp \in made',
         \A s \in r.doomed : s \in made' /\ Expendable(s)',
         \A s \in disk \ disk' : Expendable(s)',
         disk' \subseteq made', made' \ made \subseteq disk',
         newest' = newest \/ newest' \in made'
  PROVE  (back \in [Backups -> Backup] /\ Doomed /\ Archived /\ RotationKeeps)'
<1>1. /\ back' \in [Backups -> Backup] /\ back'[b] = r
      /\ \A c \in Backups \ {b} : back'[c] = back[c]
  BY DEF OpsIInv, OpsTypeOK
<1>2. made \in SUBSET Stamps
  BY DEF OpsIInv, OpsTypeOK
<1>3. \A s : Expendable(s) => Expendable(s)'
  BY <1>2, StillExpendable DEF Expendable
<1>4. Doomed'
  BY <1>1, <1>3 DEF OpsIInv, Doomed
<1>5. Archived'
  BY <1>1 DEF OpsIInv, Archived
<1>6. RotationKeeps'
  <2> SUFFICES ASSUME NEW s \in made', s \notin disk' PROVE Expendable(s)'
    BY DEF RotationKeeps, Expendable
  <2>1. s \in made
    OBVIOUS
  <2>2. CASE s \in disk
    BY <2>2
  <2>3. CASE s \notin disk
    BY <1>3, <2>1, <2>3 DEF OpsIInv, RotationKeeps, Expendable
  <2> QED
    BY <2>2, <2>3
<1> QED
  BY <1>1, <1>4, <1>5, <1>6

\* A backup begins, with a stamp that no other has.
LEMMA StreamIInv ==
  ASSUME OpsIInv, NEW b \in Backups, NEW s \in Stamps, Stream(b, s)
  PROVE  OpsIInv'
<1> DEFINE r == [pc |-> "streamed", stamp |-> s, doomed |-> {}]
<1>1. r \in Backup /\ back' = [back EXCEPT ![b] = r]
  BY DEF Stream, Backup
<1>2. (back \in [Backups -> Backup] /\ Doomed /\ Archived /\ RotationKeeps)'
  BY <1>1, BackupIInv DEF Stream, OpsIInv, OpsTypeOK
<1>3. OpsTypeOK'
  BY <1>2 DEF Stream, site, OpsIInv, OpsTypeOK
<1> QED
  BY <1>2, <1>3 DEF Stream, site, OpsIInv, BackupRemembered

\* An archive appears: what could go before can go now.
LEMMA SaveArchiveIInv ==
  ASSUME OpsIInv, NEW b \in Backups, SaveArchive(b)
  PROVE  OpsIInv'
<1> DEFINE old == back[b]  s == old.stamp  r == [old EXCEPT !.pc = "saved"]
<1>1. old \in Backup /\ s \in Stamps /\ s \notin bad
  BY DEF OpsIInv, OpsTypeOK, Backup, SaveArchive, Readable
<1>2. /\ back' = [back EXCEPT ![b] = r] /\ disk' = disk \cup {s} /\ made' = made \cup {s}
      /\ UNCHANGED <<bad, newest, marks, site>>
  BY DEF SaveArchive
<1>3. r \in Backup /\ r.stamp = s /\ r.doomed = old.doomed
  <2> HIDE DEF old
  <2> QED
    BY <1>1 DEF Backup
<1> HIDE DEF r
<1>4. made \in SUBSET Stamps /\ made' \in SUBSET Stamps
  BY <1>1, <1>2 DEF OpsIInv, OpsTypeOK
<1>5. \A t \in old.doomed : t \in made' /\ Expendable(t)'
  <2>1. \A t \in old.doomed : t \in made /\ Expendable(t)
    BY DEF OpsIInv, Doomed
  <2> QED
    BY <1>2, <1>4, <2>1, StillExpendable DEF Expendable
<1>6. (back \in [Backups -> Backup] /\ Doomed /\ Archived /\ RotationKeeps)'
  BY <1>2, <1>3, <1>4, <1>5, BackupIInv DEF OpsIInv, OpsTypeOK
<1>7. OpsTypeOK'
  BY <1>1, <1>2, <1>4, <1>6 DEF site, OpsIInv, OpsTypeOK
<1> QED
  BY <1>2, <1>6, <1>7 DEF site, OpsIInv, BackupRemembered

\* The list dooms only what the rotation does not keep (backup.py:48-61).
LEMMA ListIInv ==
  ASSUME OpsIInv, NEW b \in Backups, List(b)
  PROVE  OpsIInv'
<1> DEFINE old == back[b]
           r == [old EXCEPT !.pc = "listed", !.doomed = disk \ Kept(disk)]
<1>1. /\ old \in Backup /\ old.stamp \in made /\ disk \in SUBSET Stamps
      /\ disk \subseteq made /\ made \in SUBSET Stamps
  BY DEF OpsIInv, OpsTypeOK, Archived, List
<1>2. /\ back' = [back EXCEPT ![b] = r]
      /\ UNCHANGED <<disk, made, bad, newest, marks, site>>
  BY DEF List
<1>3. /\ r \in Backup /\ r.stamp = old.stamp /\ r.doomed = disk \ Kept(disk)
  <2> HIDE DEF old
  <2> QED
    BY <1>1 DEF Backup
<1> HIDE DEF r
<1>4. \A t \in disk \ Kept(disk) : t \in made' /\ Expendable(t)'
  BY <1>1, <1>2, NotKept, StillExpendable
<1>5. (back \in [Backups -> Backup] /\ Doomed /\ Archived /\ RotationKeeps)'
  BY <1>1, <1>2, <1>3, <1>4, BackupIInv
<1>6. OpsTypeOK'
  BY <1>2, <1>5 DEF site, OpsIInv, OpsTypeOK
<1> QED
  BY <1>2, <1>5, <1>6 DEF site, OpsIInv, BackupRemembered

\* Only what may go is deleted, although the list is old.
LEMMA UnlinkIInv ==
  ASSUME OpsIInv, NEW b \in Backups, Unlink(b)
  PROVE  OpsIInv'
<1> DEFINE old == back[b]  s == Max(old.doomed)
           r == [old EXCEPT !.doomed = old.doomed \ {s}]
<1>1. old \in Backup /\ old.doomed \in SUBSET Stamps /\ old.doomed # {}
  BY DEF OpsIInv, OpsTypeOK, Backup, Unlink
<1>2. s \in old.doomed
  BY <1>1, GreatestStamp
<1>3. /\ back' = [back EXCEPT ![b] = r] /\ disk' = disk \ {s}
      /\ UNCHANGED <<made, bad, newest, marks, site>>
  BY DEF Unlink
<1> HIDE DEF s
<1>4. r \in Backup /\ r.stamp = old.stamp /\ r.pc = old.pc /\ r.doomed \subseteq old.doomed
  <2> HIDE DEF old
  <2> QED
    BY <1>1 DEF Backup
<1> HIDE DEF r
<1>5. made \in SUBSET Stamps /\ disk' \subseteq made
  BY <1>3 DEF OpsIInv, OpsTypeOK
<1>6. \A t \in old.doomed : t \in made' /\ Expendable(t)'
  <2>1. \A t \in old.doomed : t \in made /\ Expendable(t)
    BY DEF OpsIInv, Doomed
  <2> QED
    BY <1>3, <1>5, <2>1, StillExpendable DEF Expendable
<1>7. (back \in [Backups -> Backup] /\ Doomed /\ Archived /\ RotationKeeps)'
  <2>1. r.pc \in {"saved", "listed"} => r.stamp \in made'
    BY <1>3, <1>4 DEF OpsIInv, Archived
  <2>2. disk \ disk' = {} \/ disk \ disk' = {s}
    BY <1>3
  <2> QED
    BY <1>2, <1>3, <1>4, <1>5, <1>6, <2>1, <2>2, BackupIInv
<1>8. OpsTypeOK'
  BY <1>3, <1>7 DEF site, OpsIInv, OpsTypeOK
<1> QED
  BY <1>3, <1>7, <1>8 DEF site, OpsIInv, BackupRemembered

\* The record is of an archive that was completed.
LEMMA MarkIInv ==
  ASSUME OpsIInv, NEW b \in Backups, Mark(b)
  PROVE  OpsIInv'
<1>1. /\ back[b].stamp \in made /\ made \subseteq Stamps /\ back[b].stamp \in Stamps
      /\ newest \in 0 .. MAX_STAMP
  BY DEF OpsIInv, OpsTypeOK, Archived, Mark
<1>2. newest' \in {newest, back[b].stamp}
  <2> DEFINE s == back[b].stamp
  <2>1. s \in Int /\ newest \in Int
    BY <1>1 DEF Stamps
  <2>2. newest' = Max({newest, s})
    BY DEF Mark
  <2> HIDE DEF s
  <2>3. \E x \in {newest, s} : \A y \in {newest, s} : x >= y
    BY <2>1
  <2>4. Max({newest, s}) \in {newest, s}
    BY <2>3 DEF Max
  <2> QED
    BY <2>2, <2>4 DEF s
<1>3. /\ NoBackup \in Backup /\ NoBackup.pc = "idle" /\ NoBackup.doomed = {}
      /\ back' = [back EXCEPT ![b] = NoBackup]
  BY Records DEF Mark
<1>4. (back \in [Backups -> Backup] /\ Doomed /\ Archived /\ RotationKeeps)'
  BY <1>1, <1>2, <1>3, BackupIInv DEF Mark, OpsIInv, OpsTypeOK
<1>5. row' \in SiteRow /\ marks' \in 0 .. MAX_MARKS /\ row'.backup = marks'
  <2>1. row \in SiteRow /\ marks' \in 0 .. MAX_MARKS
    BY OperationsAssumption DEF OpsIInv, OpsTypeOK, Mark
  <2>2. row' = [row EXCEPT !.backup = marks']
    BY DEF Mark
  <2> QED
    BY <2>1, <2>2 DEF SiteRow
<1>6. OpsTypeOK'
  <2>1. newest' \in 0 .. MAX_STAMP
    BY <1>1, <1>2, OperationsAssumption DEF Stamps
  <2> QED
    BY <1>4, <1>5, <2>1 DEF Mark, OpsIInv, OpsTypeOK
<1> QED
  BY <1>4, <1>5, <1>6 DEF OpsIInv, BackupRemembered

\* A backup that fails leaves its files and forgets its list.
LEMMA GiveUpIInv ==
  ASSUME OpsIInv, NEW b \in Backups, GiveUp(b)
  PROVE  OpsIInv'
<1>1. /\ NoBackup \in Backup /\ NoBackup.pc = "idle" /\ NoBackup.doomed = {}
      /\ back' = [back EXCEPT ![b] = NoBackup]
      /\ UNCHANGED <<disk, made, bad, newest, marks, site>>
  BY Records DEF GiveUp
<1>2. (back \in [Backups -> Backup] /\ Doomed /\ Archived /\ RotationKeeps)'
  BY <1>1, BackupIInv DEF OpsIInv, OpsTypeOK
<1>3. OpsTypeOK'
  BY <1>1, <1>2 DEF site, OpsIInv, OpsTypeOK
<1> QED
  BY <1>1, <1>2, <1>3 DEF site, OpsIInv, BackupRemembered

-----------------------------------------------------------------------------
(* Operations: the theorems. *)

\* The invariant is inductive: one case for each action of OpsNext.
LEMMA NextOpsIInv == OpsIInv /\ [OpsNext]_opsVars => OpsIInv'
<1> SUFFICES ASSUME OpsIInv, [OpsNext]_opsVars PROVE OpsIInv'
  OBVIOUS
<1>1. CASE SiteStep
  BY <1>1, SiteIInv
<1>2. ASSUME NEW b \in Backups, NEW s \in Stamps, Stream(b, s) PROVE OpsIInv'
  BY <1>2, StreamIInv
<1>3. ASSUME NEW b \in Backups, SaveArchive(b) PROVE OpsIInv'
  BY <1>3, SaveArchiveIInv
<1>4. ASSUME NEW b \in Backups, List(b) PROVE OpsIInv'
  BY <1>4, ListIInv
<1>5. ASSUME NEW b \in Backups, Unlink(b) PROVE OpsIInv'
  BY <1>5, UnlinkIInv
<1>6. ASSUME NEW b \in Backups, Mark(b) PROVE OpsIInv'
  BY <1>6, MarkIInv
<1>7. ASSUME NEW b \in Backups, GiveUp(b) PROVE OpsIInv'
  BY <1>7, GiveUpIInv
<1>8. CASE UNCHANGED opsVars
  BY <1>8
     DEF opsVars, OpsIInv, OpsTypeOK, Doomed, Expendable, Younger, Archived, RotationKeeps,
         BackupRemembered
<1> QED
  BY <1>1, <1>2, <1>3, <1>4, <1>5, <1>6, <1>7, <1>8 DEF OpsNext, SiteStep

\* The invariant behind the theorems below holds throughout (deploy/backup.py:25-72,
\* core/storage.py:55-137).
THEOREM OpsInvariance == OpsSpec => []OpsIInv
<1> QED
  BY Starts, NextOpsIInv, PTL DEF OpsSpec

\* The settings row, the folder and the backups keep their types; in particular the
\* folder holds only archives that were read (backup.py:43-47).
THEOREM OpsTypeCorrect == OpsSpec => []OpsTypeOK
<1>1. OpsIInv => OpsTypeOK
  BY DEF OpsIInv
<1> QED
  BY <1>1, OpsInvariance, PTL

\* Of all archives ever completed, the last KEEP and the last ones of the last
\* KEEP_WEEKS weeks are there: what may go at the time of a list may go ever after,
\* for there are only more archives (backup.py:48-61).
THEOREM RotationSafe == OpsSpec => []RotationKeeps
<1>1. OpsIInv => RotationKeeps
  BY DEF OpsIInv
<1> QED
  BY <1>1, OpsInvariance, PTL

\* There is a sound archive at least as new as the newest that was recorded: the last
\* archive of all is never deleted (backup.py:43-71).
THEOREM CanRestore == OpsSpec => []Restorable
<1>1. OpsIInv => Restorable
  <2> SUFFICES ASSUME OpsIInv, newest > 0 PROVE \E s \in disk \ bad : s >= newest
    BY DEF Restorable
  <2>1. newest \in made /\ made \in SUBSET Stamps /\ disk \subseteq made \ bad
    BY DEF OpsIInv, OpsTypeOK, Archived
  <2>2. Max(made) \in made /\ Max(made) >= newest
    BY <2>1, GreatestStamp
  <2>3. ~ (Younger(Max(made), made) >= KEEP)
    BY <2>1, NoYounger, OperationsAssumption
  <2>4. Max(made) \in disk
    BY <2>2, <2>3 DEF OpsIInv, RotationKeeps
  <2> QED
    BY <2>1, <2>2, <2>4
<1> QED
  BY <1>1, OpsInvariance, PTL

\* The time of the last backup is the last one recorded, or a form that had read the
\* row before has overwritten it (storage.py:137, views.py:327).
THEOREM LastBackupKnown == OpsSpec => []BackupRemembered
<1>1. OpsIInv => BackupRemembered
  BY DEF OpsIInv
<1> QED
  BY <1>1, OpsInvariance, PTL

=============================================================================
