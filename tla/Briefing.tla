------------------------------ MODULE Briefing ------------------------------
(***************************************************************************)
(* Briefings and their schedule: generate() of app/briefs/services.py, the *)
(* briefing slots of schedule_once() in app/core/tasks.py, the request for *)
(* a new version in app/core/views.py, and as much of ingest() in          *)
(* app/news/services.py as gives an article a new current version: the     *)
(* version is stamped first and committed later.  The settings do not      *)
(* change, and the articles an import adds, whose stamps lie in the past,  *)
(* are left out.                                                           *)
(*                                                                         *)
(* Instants are numbers.  What happens after instant n and before n + 1    *)
(* has the stamp n + 1, so that no stamp is the same as the end of a       *)
(* briefing that was read before it; a window is start < stamp <= end.     *)
(* A briefing's key holds the text of its end: "local" is the text of      *)
(* schedule_once (+08:00), "utc" that of timezone.now() and of an end that *)
(* is read from the database.                                              *)
(*                                                                         *)
(* The queue delivers at least once: a scheduled job that was added may be *)
(* executed at any later time, in any order and more than once.            *)
(*                                                                         *)
(* A definition marked `Fault' is a variant of the one that follows it, in *)
(* which one thing is wrong and which must break a property.               *)
(***************************************************************************)
EXTENDS Integers, FiniteSets

CONSTANTS
  Articles,
  Source, Group,     \* the feed and the story group of each article
  Generators,        \* executions of generate()
  Schedulers,        \* processes that run schedule_once()
  DAY,               \* 24 hours: the first window
  MAX_ITEMS, SOURCE_LIMIT,
  Times,             \* the slots that SiteSettings.briefing_times stands for
  Legacy,            \* ends of the briefings an import may add
  HORIZON,           \* bound on time
  MAX_VERSIONS,      \* bound on the versions of all articles
  MAX_BRIEFINGS      \* bound on the briefings

Instants == 0 .. HORIZON

\* All runs of the model fall into one day.
ASSUME BriefingAssumption ==
  /\ HORIZON \in Nat \ {0} /\ DAY \in Nat /\ DAY >= HORIZON
  /\ MAX_ITEMS \in Nat \ {0} /\ SOURCE_LIMIT \in Nat \ {0}
  /\ Times \subseteq 1 .. HORIZON
  /\ Legacy \subseteq Instants
  /\ MAX_VERSIONS \in Nat \ {0} /\ MAX_BRIEFINGS \in Nat \ {0}

VARIABLES
  now,
  last,         \* SiteSettings.last_schedule
  sched,        \* the schedulers: the instant they captured, or Idle
  queued,       \* ends of the scheduled brief jobs
  article,      \* the table Article with its current version
  incoming,     \* the version that an ingest() is about to commit
  gen,          \* the generators
  briefings,    \* the tables Briefing and BriefItem
  imported,     \* ends of the imported briefings
  cut, late     \* versions a briefing saw and left out, or could not see (history)

scheduling == <<last, sched, queued>>
news == <<article, incoming>>
publishing == <<gen, briefings, imported, cut, late>>
vars == <<now, scheduling, news, publishing>>

-----------------------------------------------------------------------------
(* The records. *)

Idle == -1
Stamps == 0 .. HORIZON + 1
Versions == Articles \X (1 .. MAX_VERSIONS)
Zones == {"local", "utc"}

\* version = 0: there is no such article, or nothing is incoming.
State == [version : 0 .. MAX_VERSIONS, stamp : Stamps, meaningful : BOOLEAN]

Nothing == [version |-> 0, stamp |-> 0, meaningful |-> FALSE]

\* A row of Briefing with its items.
Issue == [zone : Zones, end : Instants, number : 1 .. MAX_BRIEFINGS,
          start : -DAY .. HORIZON, revision : BOOLEAN, items : SUBSET Versions]

Run == [pc : {"idle", "reading", "writing"}, issue : Issue,
        cut : SUBSET Versions, late : SUBSET Versions]

NoIssue == [zone |-> "utc", end |-> 0, number |-> 1, start |-> 0,
            revision |-> FALSE, items |-> {}]

NoRun == [pc |-> "idle", issue |-> NoIssue, cut |-> {}, late |-> {}]

TypeOK ==
  /\ now \in Instants
  /\ last \in Instants
  /\ sched \in [Schedulers -> Instants \cup {Idle}]
  /\ queued \subseteq Instants
  /\ article \in [Articles -> State] /\ incoming \in [Articles -> State]
  /\ gen \in [Generators -> Run]
  /\ briefings \subseteq Issue /\ \A b \in briefings : b.start < b.end
  /\ imported \subseteq Legacy
  /\ cut \subseteq Versions /\ late \subseteq Versions

Init ==
  /\ now = 0 /\ last = 0
  /\ sched = [s \in Schedulers |-> Idle]
  /\ queued = {}
  /\ article = [a \in Articles |-> Nothing]
  /\ incoming = [a \in Articles |-> Nothing]
  /\ gen = [g \in Generators |-> NoRun]
  /\ briefings = {} /\ imported = {} /\ cut = {} /\ late = {}

-----------------------------------------------------------------------------
(* schedule_once(): the slots *)

\* `now' is captured before the row of the settings is locked.
ScheduleBegin(s) ==
  /\ sched[s] = Idle
  /\ sched' = [sched EXCEPT ![s] = now]
  /\ UNCHANGED <<now, last, queued, news, publishing>>

\* Fault: a slot that comes at the captured instant is left to the next time.
DueLater(s) == {m \in Times : last < m /\ m < sched[s]}

Due(s) == {m \in Times : last < m /\ m <= sched[s]}

\* One job for all the slots that are due, with the key and the end of the last.
Enqueue(due) ==
  \/ due = {} /\ UNCHANGED queued
  \/ \E m \in due : (\A n \in due : n <= m) /\ queued' = queued \cup {m}

ScheduleCommit(s) ==
  /\ sched[s] # Idle
  /\ Enqueue(Due(s))
  /\ last' = sched[s]
  /\ sched' = [sched EXCEPT ![s] = Idle]
  /\ UNCHANGED <<now, news, publishing>>

Tick ==
  /\ now < HORIZON
  /\ now' = now + 1
  /\ UNCHANGED <<scheduling, news, publishing>>

-----------------------------------------------------------------------------
(* ingest(): the rows of one article are locked until its transaction ends. *)

\* The versions that are there or may soon be.
Written == {v \in Versions : v[2] <= article[v[1]].version
                             \/ v[2] <= incoming[v[1]].version}

\* A version that differs in punctuation only is not meaningful.
Stamp(a, meaningful) ==
  /\ incoming[a].version = 0
  /\ article[a].version < MAX_VERSIONS /\ Cardinality(Written) < MAX_VERSIONS
  /\ article[a].version = 0 => meaningful
  /\ incoming' = [incoming EXCEPT ![a] = [version |-> article[a].version + 1,
                                          stamp |-> now + 1,
                                          meaningful |-> meaningful]]
  /\ UNCHANGED <<now, scheduling, article, publishing>>

Store(a) ==
  /\ incoming[a].version # 0
  /\ article' = [article EXCEPT ![a] = incoming[a]]
  /\ incoming' = [incoming EXCEPT ![a] = Nothing]
  /\ UNCHANGED <<now, scheduling, publishing>>

IngestFails(a) ==
  /\ incoming[a].version # 0
  /\ incoming' = [incoming EXCEPT ![a] = Nothing]
  /\ UNCHANGED <<now, scheduling, article, publishing>>

-----------------------------------------------------------------------------
(* generate(end, catchup, revision) *)

\* Fault: there is no advisory lock.
LockFreely == TRUE

\* The advisory lock is held to the end of the transaction.
LockFree == \A g \in Generators : gen[g].pc = "idle"

\* key__startswith=base
Previous(zone, end) == {b \in briefings : b.zone = zone /\ b.end = end}

\* One more than the latest version with this key.
Numbered(zone, end, number) ==
  LET numbers == {b.number : b \in Previous(zone, end)}
  IN \/ numbers = {} /\ number = 1
     \/ number - 1 \in numbers /\ \A n \in numbers : n < number

\* Fault: imported briefings count.
FollowsAny(end, start) ==
  LET ends == {e \in {b.end : b \in briefings} \cup imported : e < end}
  IN \/ ends = {} /\ start = end - DAY
     \/ start \in ends /\ \A e \in ends : e <= start

\* The window starts where the last one before it ends.
Follows(end, start) ==
  LET ends == {e \in {b.end : b \in briefings} : e < end}
  IN \/ ends = {} /\ start = end - DAY
     \/ start \in ends /\ \A e \in ends : e <= start

\* A scheduled briefing that is there already is returned, and nothing changes.
Begin(g, zone, end, revision) ==
  /\ gen[g].pc = "idle" /\ LockFree
  /\ Cardinality(briefings) < MAX_BRIEFINGS
  /\ Previous(zone, end) = {} \/ revision
  /\ \E number \in 1 .. MAX_BRIEFINGS, start \in -DAY .. HORIZON :
       /\ Numbered(zone, end, number)
       /\ Follows(end, start)
       /\ gen' = [gen EXCEPT ![g] =
                    [pc |-> "reading",
                     issue |-> [zone |-> zone, end |-> end, number |-> number,
                                start |-> start, revision |-> revision, items |-> {}],
                     cut |-> {}, late |-> {}]]
  /\ UNCHANGED <<now, scheduling, news, briefings, imported, cut, late>>

BeginScheduled(g, m) == m \in queued /\ Begin(g, "local", m, FALSE)

\* The end has microseconds: it is no slot, nor the end of another briefing.
BeginManual(g) ==
  /\ now \notin Times
  /\ \A b \in briefings : b.end # now
  /\ Begin(g, "utc", now, FALSE)

\* A new version of a briefing, whose end comes from the database.
BeginRevision(g, end) ==
  /\ end \in {b.end : b \in briefings} \cup imported
  /\ Begin(g, "utc", end, TRUE)

InWindow(stamp, issue) == issue.start < stamp /\ stamp <= issue.end

Current(a) == <<a, article[a].version>>

Briefed == UNION {b.items : b \in briefings}

\* Fault: the end of the window is left to nobody.
CandidatesBefore(issue) ==
  {a \in Articles : /\ article[a].version > 0 /\ article[a].meaningful
                    /\ issue.start < article[a].stamp /\ article[a].stamp < issue.end
                    /\ issue.revision \/ Current(a) \notin Briefed}

Candidates(issue) ==
  {a \in Articles : /\ article[a].version > 0 /\ article[a].meaningful
                    /\ InWindow(article[a].stamp, issue)
                    /\ issue.revision \/ Current(a) \notin Briefed}

\* The limits that take() and the loops around it keep.
Fits(chosen) ==
  /\ Cardinality(chosen) <= MAX_ITEMS
  /\ \A a \in chosen :
       /\ Cardinality({b \in chosen : Source[b] = Source[a]}) <= SOURCE_LIMIT
       /\ \A b \in chosen : Group[b] = Group[a] => b = a

\* Weights, quotas and breaking news decide who comes first; whoever is left
\* out at the end found no room.  (The first 3000 candidates are taken for all.)
Selections(offered) ==
  {chosen \in SUBSET offered :
     Fits(chosen) /\ \A a \in offered \ chosen : ~ Fits(chosen \cup {a})}

\* Stamped in the window, and not committed yet.
Unseen(issue) ==
  {a \in Articles : incoming[a].version > 0 /\ InWindow(incoming[a].stamp, issue)}

Read(g) ==
  LET offered == Candidates(gen[g].issue)
  IN /\ gen[g].pc = "reading"
     /\ \E chosen \in Selections(offered) :
          gen' = [gen EXCEPT ![g] =
                   [pc |-> "writing",
                    issue |-> [gen[g].issue EXCEPT !.items = {Current(a) : a \in chosen}],
                    cut |-> {Current(a) : a \in offered \ chosen},
                    late |-> {<<a, incoming[a].version>> : a \in Unseen(gen[g].issue)}]]
     /\ UNCHANGED <<now, scheduling, news, briefings, imported, cut, late>>

\* Briefing.key is unique.
Commit(g) ==
  LET issue == gen[g].issue
  IN /\ gen[g].pc = "writing"
     /\ \A b \in Previous(issue.zone, issue.end) : b.number # issue.number
     /\ briefings' = briefings \cup {issue}
     /\ cut' = cut \cup gen[g].cut
     /\ late' = late \cup gen[g].late
     /\ gen' = [gen EXCEPT ![g] = NoRun]
     /\ UNCHANGED <<now, scheduling, news, imported>>

\* A crash or an error rolls everything back.
Abort(g) ==
  /\ gen[g].pc # "idle"
  /\ gen' = [gen EXCEPT ![g] = NoRun]
  /\ UNCHANGED <<now, scheduling, news, briefings, imported, cut, late>>

\* import_legacy adds a briefing of the former system.
Import(end) ==
  /\ end <= now
  /\ imported' = imported \cup {end}
  /\ UNCHANGED <<now, scheduling, news, gen, briefings, cut, late>>

-----------------------------------------------------------------------------
Next ==
  \/ \E s \in Schedulers : ScheduleBegin(s)
  \/ \E s \in Schedulers : ScheduleCommit(s)
  \/ Tick
  \/ \E a \in Articles, meaningful \in BOOLEAN : Stamp(a, meaningful)
  \/ \E a \in Articles : Store(a)
  \/ \E a \in Articles : IngestFails(a)
  \/ \E g \in Generators, m \in Instants : BeginScheduled(g, m)
  \/ \E g \in Generators : BeginManual(g)
  \/ \E g \in Generators, end \in Instants : BeginRevision(g, end)
  \/ \E g \in Generators : Read(g)
  \/ \E g \in Generators : Commit(g)
  \/ \E g \in Generators : Abort(g)
  \/ \E end \in Legacy : Import(end)

Spec == Init /\ [][Next]_vars

-----------------------------------------------------------------------------
(* Properties. *)

Covered(t) == \E b \in briefings : InWindow(t, b)

\* The windows of the briefings leave nothing out between the first and the last
\* of them, in whatever order and however often their jobs are executed
\* (briefs/services.py:25-26).
NoGap ==
  \A b, c \in briefings : \A t \in b.end .. c.end : Covered(t)

\* A version is news once: apart from new versions of a briefing, no two
\* briefings hold the same version, even if their jobs run at the same time
\* (briefs/services.py:18, 29).
NewsOnce ==
  \A b, c \in briefings :
    b # c /\ ~ b.revision /\ ~ c.revision => b.items \cap c.items = {}

\* What the current version of an article adds is in a briefing once its instant
\* is covered, unless the limits left it out or its transaction was still open
\* when the briefing looked (briefs/services.py:27-58).
NothingMissed ==
  \A a \in Articles :
    article[a].version > 0 /\ article[a].meaningful /\ Covered(article[a].stamp)
      => Current(a) \in Briefed \cup cut \cup late

\* A slot that last_schedule has passed, and that no scheduler will look at
\* again, has a job for it or for a later slot, whatever downtime and
\* overlapping schedulers do (tasks.py:178-218).
SlotsAnswered ==
  \A m \in Times : m <= last => \E c \in queued : m <= c

=============================================================================
