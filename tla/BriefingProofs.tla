--------------------------- MODULE BriefingProofs ---------------------------
(***************************************************************************)
(* The inductive invariant of Briefing and its theorems, for any articles, *)
(* generators and schedulers, any slots and any limits.                    *)
(***************************************************************************)
EXTENDS Briefing, TLAPS

-----------------------------------------------------------------------------
(* The inductive invariant. *)

Active(g) == gen[g].pc # "idle"

\* Nothing is known of the future.
Past ==
  /\ last <= now /\ \A s \in Schedulers : sched[s] <= now
  /\ \A m \in queued : m <= now
  /\ \A b \in briefings : b.end <= now
  /\ \A e \in imported : e <= now
  /\ \A g \in Generators : Active(g) => gen[g].issue.end <= now

\* A window in the making starts where a briefing ends, or before the day.
Anchored ==
  \A g \in Generators : Active(g) =>
    /\ gen[g].issue.start < gen[g].issue.end
    /\ gen[g].issue.start <= 0 \/ \E b \in briefings : b.end = gen[g].issue.start

\* The lock does its work.
Alone == \A g, h \in Generators : Active(g) /\ Active(h) => g = h

\* All of the day is covered up to the end of any briefing.
Complete == \A c \in briefings : \A t \in 1 .. c.end : Covered(t)

\* What is being written is in no briefing yet.
FreshItems ==
  \A g \in Generators : gen[g].pc = "writing" /\ ~ gen[g].issue.revision
                          => gen[g].issue.items \cap Briefed = {}

\* A version that is incoming although its instant is covered was noted as late.
LateNoted ==
  \A a \in Articles : incoming[a].version > 0 /\ Covered(incoming[a].stamp)
                        => <<a, incoming[a].version>> \in late

\* The same for a briefing that was read and is not committed.
RunComplete ==
  \A g \in Generators, a \in Articles :
    gen[g].pc = "writing" /\ article[a].version > 0 /\ article[a].meaningful
    /\ InWindow(article[a].stamp, gen[g].issue)
      => Current(a) \in Briefed \cup gen[g].issue.items \cup gen[g].cut \cup gen[g].late

RunNoted ==
  \A g \in Generators, a \in Articles :
    gen[g].pc = "writing" /\ incoming[a].version > 0
    /\ InWindow(incoming[a].stamp, gen[g].issue)
      => <<a, incoming[a].version>> \in gen[g].late

IInv == /\ TypeOK /\ Past /\ Anchored /\ Alone /\ Complete /\ SlotsAnswered
        /\ FreshItems /\ NewsOnce /\ LateNoted /\ RunComplete /\ RunNoted
        /\ NothingMissed

-----------------------------------------------------------------------------
(* Frames: what an action leaves alone keeps what is said of it. *)

\* Nothing is published, and the articles are empty.
LEMMA Start == Init => IInv
<1> SUFFICES ASSUME Init PROVE IInv
  OBVIOUS
<1> USE DEF Init
<1>1. TypeOK
  BY BriefingAssumption DEF TypeOK, Instants, State, Nothing, Stamps, Run, NoRun,
     NoIssue, Issue, Zones, Idle
<1>2. Past /\ Anchored /\ Alone
  BY DEF Past, Anchored, Alone, Active, NoRun, Idle
<1>3. Complete /\ SlotsAnswered /\ NewsOnce
  BY BriefingAssumption DEF Complete, SlotsAnswered, NewsOnce
<1>4. FreshItems /\ RunComplete /\ RunNoted
  BY DEF FreshItems, RunComplete, RunNoted, NoRun
<1>5. LateNoted /\ NothingMissed
  BY DEF LateNoted, NothingMissed, Nothing
<1> QED
  BY <1>1, <1>2, <1>3, <1>4, <1>5 DEF IInv

\* The articles and the briefings do not move.
Still == UNCHANGED <<article, incoming, gen, briefings, cut, late>>

\* A step that moves neither articles nor briefings keeps what is said of them.
LEMMA StillKeeps ==
  ASSUME IInv, Still
  PROVE  (Anchored /\ Alone /\ Complete /\ FreshItems /\ NewsOnce /\ LateNoted
          /\ RunComplete /\ RunNoted /\ NothingMissed)'
<1> USE DEF IInv, Still
<1>1. (Anchored /\ Alone)'
  BY DEF Anchored, Alone, Active
<1>2. (Complete /\ NewsOnce)'
  BY DEF Complete, NewsOnce, Covered
<1>3. (FreshItems /\ RunComplete /\ RunNoted)'
  BY DEF FreshItems, RunComplete, RunNoted, Briefed, Current
<1>4. (LateNoted /\ NothingMissed)'
  BY DEF LateNoted, NothingMissed, Covered, Briefed, Current
<1> QED
  BY <1>1, <1>2, <1>3, <1>4

-----------------------------------------------------------------------------
(* The schedule and the clock. *)

\* A scheduler captures its instant (tasks.py:178).
LEMMA ScheduleBeginIInv ==
  ASSUME IInv, NEW s \in Schedulers, ScheduleBegin(s)
  PROVE  IInv'
<1> USE DEF IInv, ScheduleBegin, news, publishing
<1>1. TypeOK'
  BY DEF TypeOK
<1>2. Past'
  BY DEF Past, Active, TypeOK, Instants
<1>3. SlotsAnswered'
  BY DEF SlotsAnswered
<1> QED
  BY <1>1, <1>2, <1>3, StillKeeps DEF Still

\* A scheduler adds the job of the latest slot and passes the slots before it.
LEMMA ScheduleCommitIInv ==
  ASSUME IInv, NEW s \in Schedulers, ScheduleCommit(s)
  PROVE  IInv'
<1> USE DEF IInv, ScheduleCommit, news, publishing
<1>1. sched[s] \in Instants /\ sched[s] <= now /\ now \in Int /\ last \in Instants
  BY DEF TypeOK, Past, Instants
<1>2. Due(s) \subseteq Instants /\ \A m \in Due(s) : m <= now
  <2> SUFFICES ASSUME NEW m \in Due(s)
               PROVE  m \in Instants /\ m <= now
    OBVIOUS
  <2>1. m \in Times /\ m <= sched[s]
    BY DEF Due
  <2>2. m \in Instants /\ sched[s] \in Int
    BY <1>1, <2>1, BriefingAssumption DEF Instants
  <2>3. m \in Int
    BY <2>2 DEF Instants
  <2> QED
    BY <1>1, <2>1, <2>2, <2>3
<1>3. queued \subseteq queued' /\ queued' \subseteq queued \cup Due(s)
  BY DEF Enqueue
<1>4. TypeOK'
  BY <1>1, <1>2, <1>3 DEF TypeOK
<1>5. Past'
  BY <1>1, <1>2, <1>3 DEF Past, Active, TypeOK, Instants, Idle
<1>6. SlotsAnswered'
  <2> SUFFICES ASSUME NEW m \in Times, m <= sched[s]
               PROVE  \E c \in queued' : m <= c
    BY DEF SlotsAnswered
  <2>1. CASE m <= last
    BY <1>3, <2>1 DEF SlotsAnswered
  <2>2. CASE ~ (m <= last)
    <3>1. m \in Due(s)
      BY <1>1, <2>2, BriefingAssumption DEF Due, Instants
    <3> QED
      BY <3>1 DEF Enqueue
  <2> QED
    BY <2>1, <2>2
<1> QED
  BY <1>4, <1>5, <1>6, StillKeeps DEF Still

\* Time passes: what is known stays in the past.
LEMMA TickIInv ==
  ASSUME IInv, Tick
  PROVE  IInv'
<1> USE DEF IInv, Tick, scheduling, news, publishing
<1>1. TypeOK'
  BY BriefingAssumption DEF TypeOK, Instants
<1>2. Past'
  <2>1. now \in Int /\ \A x \in Int : x <= now => x <= now + 1
    BY DEF TypeOK, Instants
  <2>2. /\ last \in Int /\ \A t \in Schedulers : sched[t] \in Int
        /\ \A m \in queued : m \in Int
        /\ \A e \in imported : e \in Int
    BY BriefingAssumption DEF TypeOK, Instants, Idle
  <2>3. /\ \A b \in briefings : b.end \in Int
        /\ \A g \in Generators : gen[g].issue.end \in Int
    BY DEF TypeOK, Run, Issue, Instants
  <2> QED
    BY <2>1, <2>2, <2>3 DEF Past, Active
<1>3. SlotsAnswered'
  BY DEF SlotsAnswered
<1> QED
  BY <1>1, <1>2, <1>3, StillKeeps DEF Still

\* A briefing of the former system lies before all windows.
LEMMA ImportIInv ==
  ASSUME IInv, NEW end \in Legacy, Import(end)
  PROVE  IInv'
<1> USE DEF IInv, Import, scheduling, news
<1>1. TypeOK'
  BY DEF TypeOK
<1>2. Past'
  BY DEF Past, Active
<1>3. SlotsAnswered'
  BY DEF SlotsAnswered
<1> QED
  BY <1>1, <1>2, <1>3, StillKeeps DEF Still

-----------------------------------------------------------------------------
(* Articles. *)

\* A version is stamped with the present, which no window has reached.
LEMMA StampIInv ==
  ASSUME IInv, NEW a \in Articles, NEW meaningful \in BOOLEAN, Stamp(a, meaningful)
  PROVE  IInv'
<1> USE DEF IInv, scheduling, publishing
<1>1. /\ incoming' = [incoming EXCEPT ![a] = [version |-> article[a].version + 1,
                                              stamp |-> now + 1,
                                              meaningful |-> meaningful]]
      /\ UNCHANGED <<now, last, sched, queued, article, gen, briefings, imported, cut, late>>
      /\ article[a].version < MAX_VERSIONS
  BY DEF Stamp
<1>2. /\ now \in Int /\ incoming \in [Articles -> State] /\ article[a] \in State
      /\ \A b \in briefings : b.end \in Int /\ b.end <= now
      /\ \A g \in Generators : gen[g].issue.end \in Int
      /\ \A g \in Generators : Active(g) => gen[g].issue.end <= now
  BY DEF TypeOK, Past, Instants, Run, Issue
<1>3. [version |-> article[a].version + 1, stamp |-> now + 1, meaningful |-> meaningful]
        \in State
  BY <1>1, <1>2, BriefingAssumption DEF State, Stamps, TypeOK, Instants
<1>4. TypeOK'
  BY <1>1, <1>2, <1>3 DEF TypeOK
<1>5. /\ \A b \in Articles : b # a => incoming'[b] = incoming[b]
      /\ incoming'[a].stamp = now + 1
  BY <1>1, <1>2
<1>6. (Past /\ Anchored /\ Alone)'
  BY <1>1 DEF Past, Anchored, Alone, Active
<1>7. (Complete /\ SlotsAnswered /\ FreshItems /\ NewsOnce /\ NothingMissed)'
  BY <1>1 DEF Complete, SlotsAnswered, FreshItems, NewsOnce, NothingMissed, Covered,
     Briefed, Current
<1>8. RunComplete'
  BY <1>1 DEF RunComplete, Briefed, Current
<1>9. LateNoted'
  <2>1. ~ \E b \in briefings : InWindow(now + 1, b)
    BY <1>2 DEF InWindow
  <2> QED
    BY <1>1, <1>5, <2>1 DEF LateNoted, Covered
<1>10. RunNoted'
  <2>1. \A g \in Generators : gen[g].pc = "writing" => ~ InWindow(now + 1, gen[g].issue)
    BY <1>2 DEF InWindow, Active
  <2> QED
    BY <1>1, <1>5, <2>1 DEF RunNoted
<1> QED
  BY <1>4, <1>6, <1>7, <1>8, <1>9, <1>10

\* A version is committed: a window that looked before it notes it as late.
LEMMA StoreIInv ==
  ASSUME IInv, NEW a \in Articles, Store(a)
  PROVE  IInv'
<1> USE DEF IInv, scheduling, publishing
<1>1. /\ article' = [article EXCEPT ![a] = incoming[a]]
      /\ incoming' = [incoming EXCEPT ![a] = Nothing]
      /\ UNCHANGED <<now, last, sched, queued, gen, briefings, imported, cut, late>>
      /\ incoming[a].version # 0
  BY DEF Store
<1>2. incoming \in [Articles -> State] /\ article \in [Articles -> State] /\ Nothing \in State
  BY BriefingAssumption DEF TypeOK, State, Nothing, Stamps
<1>3. TypeOK'
  BY <1>1, <1>2 DEF TypeOK
<1>4. /\ incoming[a].version > 0
      /\ article'[a] = incoming[a] /\ incoming'[a].version = 0
      /\ \A b \in Articles : b # a => article'[b] = article[b] /\ incoming'[b] = incoming[b]
  BY <1>1, <1>2 DEF State, Nothing
<1>5. (Past /\ Anchored /\ Alone)'
  BY <1>1 DEF Past, Anchored, Alone, Active
<1>6. (Complete /\ SlotsAnswered /\ FreshItems /\ NewsOnce)'
  BY <1>1 DEF Complete, SlotsAnswered, FreshItems, NewsOnce, Covered, Briefed
<1>7. LateNoted' /\ RunNoted'
  BY <1>1, <1>4 DEF LateNoted, RunNoted, Covered
<1>8. NothingMissed'
  BY <1>1, <1>4 DEF NothingMissed, LateNoted, Covered, Briefed, Current
<1>9. RunComplete'
  BY <1>1, <1>4 DEF RunComplete, RunNoted, Briefed, Current
<1> QED
  BY <1>3, <1>5, <1>6, <1>7, <1>8, <1>9

\* A version that is rolled back was in no briefing.
LEMMA IngestFailsIInv ==
  ASSUME IInv, NEW a \in Articles, IngestFails(a)
  PROVE  IInv'
<1> USE DEF IInv, scheduling, publishing
<1>1. /\ incoming' = [incoming EXCEPT ![a] = Nothing]
      /\ UNCHANGED <<now, last, sched, queued, article, gen, briefings, imported, cut, late>>
  BY DEF IngestFails
<1>2. incoming \in [Articles -> State] /\ Nothing \in State
  BY BriefingAssumption DEF TypeOK, State, Nothing, Stamps
<1>3. TypeOK'
  BY <1>1, <1>2 DEF TypeOK
<1>4. /\ incoming'[a].version = 0
      /\ \A b \in Articles : b # a => incoming'[b] = incoming[b]
  BY <1>1, <1>2 DEF Nothing
<1>5. (Past /\ Anchored /\ Alone)'
  BY <1>1 DEF Past, Anchored, Alone, Active
<1>6. (Complete /\ SlotsAnswered /\ FreshItems /\ NewsOnce /\ NothingMissed)'
  BY <1>1 DEF Complete, SlotsAnswered, FreshItems, NewsOnce, NothingMissed, Covered,
     Briefed, Current
<1>7. RunComplete'
  BY <1>1 DEF RunComplete, Briefed, Current
<1>8. LateNoted' /\ RunNoted'
  BY <1>1, <1>4 DEF LateNoted, RunNoted, Covered
<1> QED
  BY <1>3, <1>5, <1>6, <1>7, <1>8

-----------------------------------------------------------------------------
(* Briefings. *)

\* An execution that begins: its window is anchored and it is alone.
LEMMA BeginIInv ==
  ASSUME IInv, NEW g \in Generators, NEW zone \in Zones, NEW end \in Instants,
         end <= now, NEW revision \in BOOLEAN, Begin(g, zone, end, revision)
  PROVE  IInv'
<1> USE DEF IInv, scheduling, news
<1>1. PICK number \in 1 .. MAX_BRIEFINGS, start \in -DAY .. HORIZON :
        /\ Follows(end, start)
        /\ gen' = [gen EXCEPT ![g] =
                     [pc |-> "reading",
                      issue |-> [zone |-> zone, end |-> end, number |-> number,
                                 start |-> start, revision |-> revision, items |-> {}],
                      cut |-> {}, late |-> {}]]
  BY DEF Begin
<1>2. /\ UNCHANGED <<now, last, sched, queued, article, incoming, briefings, imported,
                     cut, late>>
      /\ \A h \in Generators : gen[h].pc = "idle"
  BY DEF Begin, LockFree
<1>3. gen \in [Generators -> Run]
  BY DEF TypeOK
<1>4. [zone |-> zone, end |-> end, number |-> number, start |-> start,
       revision |-> revision, items |-> {}] \in Issue
  BY DEF Issue
<1>5. gen' \in [Generators -> Run]
  BY <1>1, <1>3, <1>4 DEF Run
<1>6. /\ gen'[g].pc = "reading"
      /\ gen'[g].issue.start = start /\ gen'[g].issue.end = end
      /\ \A h \in Generators : h # g => gen'[h].pc = "idle"
      /\ \A h \in Generators : gen'[h].pc # "writing"
  BY <1>1, <1>2, <1>3
<1>7. TypeOK'
  BY <1>2, <1>5 DEF TypeOK
<1>8. start < end /\ (start <= 0 \/ \E b \in briefings : b.end = start)
  <2>1. CASE {e \in {b.end : b \in briefings} : e < end} = {}
    BY <1>1, <2>1, BriefingAssumption DEF Follows, Instants
  <2>2. CASE ~ ({e \in {b.end : b \in briefings} : e < end} = {})
    BY <1>1, <2>2 DEF Follows
  <2> QED
    BY <2>1, <2>2
<1>9. (Past /\ Anchored /\ Alone)'
  BY <1>2, <1>6, <1>8 DEF Past, Anchored, Alone, Active
<1>10. (Complete /\ SlotsAnswered /\ NewsOnce /\ LateNoted /\ NothingMissed)'
  BY <1>2 DEF Complete, SlotsAnswered, NewsOnce, LateNoted, NothingMissed, Covered,
     Briefed, Current
<1>11. (FreshItems /\ RunComplete /\ RunNoted)'
  BY <1>6 DEF FreshItems, RunComplete, RunNoted
<1> QED
  BY <1>7, <1>9, <1>10, <1>11

\* A run looks at the articles of its window.
LEMMA ReadIInv ==
  ASSUME IInv, NEW g \in Generators, Read(g)
  PROVE  IInv'
<1> USE DEF IInv, scheduling, news
<1> DEFINE issue == gen[g].issue
           offered == Candidates(issue)
<1>1. PICK chosen \in Selections(offered) :
        gen' = [gen EXCEPT ![g] =
                 [pc |-> "writing",
                  issue |-> [issue EXCEPT !.items = {Current(a) : a \in chosen}],
                  cut |-> {Current(a) : a \in offered \ chosen},
                  late |-> {<<a, incoming[a].version>> : a \in Unseen(issue)}]]
  BY DEF Read
<1>2. /\ UNCHANGED <<now, last, sched, queued, article, incoming, briefings, imported,
                     cut, late>>
      /\ gen[g].pc = "reading"
  BY DEF Read
<1>3. /\ gen \in [Generators -> Run] /\ issue \in Issue
      /\ article \in [Articles -> State] /\ incoming \in [Articles -> State]
  BY DEF TypeOK, Run
<1>4. chosen \subseteq offered /\ offered \subseteq Articles
      /\ \A a \in offered : article[a].version > 0
  BY DEF Selections, Candidates
<1> DEFINE items == {Current(a) : a \in chosen}
           left == {Current(a) : a \in offered \ chosen}
           unseen == {<<a, incoming[a].version>> : a \in Unseen(issue)}
<1>5. items \subseteq Versions /\ left \subseteq Versions /\ unseen \subseteq Versions
  BY <1>3, <1>4 DEF Current, Versions, State, Unseen
<1>6. [issue EXCEPT !.items = items] \in Issue
  BY <1>3, <1>5 DEF Issue
<1>7. /\ gen'[g].pc = "writing" /\ gen'[g].cut = left /\ gen'[g].late = unseen
      /\ gen'[g].issue.items = items
      /\ gen'[g].issue.start = issue.start /\ gen'[g].issue.end = issue.end
      /\ gen'[g].issue.revision = issue.revision
      /\ \A h \in Generators : h # g => gen'[h] = gen[h]
  BY <1>1, <1>3 DEF Issue
<1>8. gen' \in [Generators -> Run]
  BY <1>1, <1>3, <1>5, <1>6 DEF Run
<1>9. TypeOK'
  BY <1>2, <1>8 DEF TypeOK
<1>10. Active(g) /\ \A h \in Generators : h # g => ~ Active(h)
  BY <1>2 DEF Active, Alone
<1>11. (Past /\ Anchored /\ Alone)'
  BY <1>2, <1>7, <1>10 DEF Past, Anchored, Alone, Active
<1>12. (Complete /\ SlotsAnswered /\ NewsOnce /\ LateNoted /\ NothingMissed)'
  BY <1>2 DEF Complete, SlotsAnswered, NewsOnce, LateNoted, NothingMissed, Covered,
     Briefed, Current
<1>13. \A h \in Generators : h # g => gen'[h].pc # "writing"
  BY <1>7, <1>10 DEF Active
<1>14. FreshItems'
  <2> SUFFICES ASSUME ~ issue.revision PROVE items \cap Briefed = {}
    BY <1>2, <1>7, <1>13 DEF FreshItems, Briefed
  <2> QED
    BY <1>4 DEF Candidates
<1>15. RunComplete'
  <2> SUFFICES ASSUME NEW a \in Articles, article[a].version > 0, article[a].meaningful,
                      InWindow(article[a].stamp, issue)
               PROVE  Current(a) \in Briefed \cup items \cup left \cup unseen
    BY <1>2, <1>7, <1>13 DEF RunComplete, Briefed, Current, InWindow
  <2>1. CASE a \in offered
    BY <2>1
  <2>2. CASE a \notin offered
    BY <2>2 DEF Candidates
  <2> QED
    BY <2>1, <2>2
<1>16. RunNoted'
  <2> SUFFICES ASSUME NEW a \in Articles, incoming[a].version > 0,
                      InWindow(incoming[a].stamp, issue)
               PROVE  <<a, incoming[a].version>> \in unseen
    BY <1>2, <1>7, <1>13 DEF RunNoted, InWindow
  <2> QED
    BY DEF Unseen
<1> QED
  BY <1>9, <1>11, <1>12, <1>14, <1>15, <1>16

\* A run publishes what it found; nobody else published since it began.
LEMMA CommitIInv ==
  ASSUME IInv, NEW g \in Generators, Commit(g)
  PROVE  IInv'
<1> USE DEF IInv, scheduling, news
<1> DEFINE issue == gen[g].issue
<1>1. /\ gen[g].pc = "writing"
      /\ briefings' = briefings \cup {issue}
      /\ cut' = cut \cup gen[g].cut
      /\ late' = late \cup gen[g].late
      /\ gen' = [gen EXCEPT ![g] = NoRun]
      /\ UNCHANGED <<now, last, sched, queued, article, incoming, imported>>
  BY DEF Commit
<1>2. /\ gen \in [Generators -> Run] /\ gen[g] \in Run /\ issue \in Issue
      /\ NoRun \in Run
  BY BriefingAssumption DEF TypeOK, Run, NoRun, NoIssue, Issue, Zones, Instants
<1>3. /\ Active(g)
      /\ issue.start < issue.end
      /\ issue.start <= 0 \/ \E b \in briefings : b.end = issue.start
      /\ issue.end <= now
  BY <1>1 DEF Active, Anchored, Past
<1>4. gen'[g].pc = "idle" /\ \A h \in Generators : gen'[h].pc = "idle"
  BY <1>1, <1>2, <1>3 DEF Alone, Active, NoRun
<1>5. TypeOK'
  BY <1>1, <1>2, <1>3 DEF TypeOK, Run
<1>6. (Past /\ Anchored /\ Alone)'
  BY <1>1, <1>3, <1>4 DEF Past, Anchored, Alone, Active
<1>7. SlotsAnswered' /\ (FreshItems /\ RunComplete /\ RunNoted)'
  BY <1>1, <1>4 DEF SlotsAnswered, FreshItems, RunComplete, RunNoted
<1>8. \A t : Covered(t)' <=> Covered(t) \/ InWindow(t, issue)
  BY <1>1 DEF Covered
<1>9. Briefed' = Briefed \cup issue.items
  BY <1>1 DEF Briefed
<1>10. Complete'
  <2> SUFFICES ASSUME NEW t \in 1 .. issue.end, ~ InWindow(t, issue)
               PROVE  Covered(t)
    BY <1>1, <1>8 DEF Complete
  <2>1. issue.start \in Int /\ issue.end \in Int /\ t <= issue.start
    BY <1>2 DEF Issue, Instants, InWindow
  <2>2. PICK b \in briefings : b.end = issue.start
    BY <1>3, <2>1
  <2> QED
    BY <2>1, <2>2 DEF Complete
<1>11. NewsOnce'
  BY <1>1, <1>9 DEF NewsOnce, FreshItems, Briefed
<1>12. LateNoted'
  BY <1>1, <1>8 DEF LateNoted, RunNoted
<1>13. NothingMissed'
  BY <1>1, <1>8, <1>9 DEF NothingMissed, RunComplete, Current
<1> QED
  BY <1>5, <1>6, <1>7, <1>10, <1>11, <1>12, <1>13

\* A run that fails publishes nothing.
LEMMA AbortIInv ==
  ASSUME IInv, NEW g \in Generators, Abort(g)
  PROVE  IInv'
<1> USE DEF IInv, scheduling, news
<1>1. /\ gen' = [gen EXCEPT ![g] = NoRun]
      /\ UNCHANGED <<now, last, sched, queued, article, incoming, briefings, imported,
                     cut, late>>
  BY DEF Abort
<1>2. gen \in [Generators -> Run] /\ NoRun \in Run
  BY BriefingAssumption DEF TypeOK, Run, NoRun, NoIssue, Issue, Zones, Instants
<1>3. /\ gen'[g].pc = "idle"
      /\ \A h \in Generators : h # g => gen'[h] = gen[h]
  BY <1>1, <1>2 DEF NoRun
<1>4. TypeOK'
  BY <1>1, <1>2 DEF TypeOK
<1>5. (Past /\ Anchored /\ Alone)'
  BY <1>1, <1>3 DEF Past, Anchored, Alone, Active
<1>6. (Complete /\ SlotsAnswered /\ NewsOnce /\ LateNoted /\ NothingMissed)'
  BY <1>1 DEF Complete, SlotsAnswered, NewsOnce, LateNoted, NothingMissed, Covered,
     Briefed, Current
<1>7. (FreshItems /\ RunComplete /\ RunNoted)'
  BY <1>1, <1>3 DEF FreshItems, RunComplete, RunNoted, Briefed, Current
<1> QED
  BY <1>4, <1>5, <1>6, <1>7

-----------------------------------------------------------------------------
(* The theorems. *)

\* The invariant is inductive: one case for each action of Next.
LEMMA NextIInv == IInv /\ [Next]_vars => IInv'
<1> SUFFICES ASSUME IInv, [Next]_vars PROVE IInv'
  OBVIOUS
<1>1. CASE UNCHANGED vars
  <2> USE <1>1 DEF vars, scheduling, news, publishing
  <2>1. (TypeOK /\ Past /\ SlotsAnswered)'
    BY DEF IInv, TypeOK, Past, SlotsAnswered, Active
  <2> QED
    BY <2>1, StillKeeps DEF IInv, Still
<1>2. ASSUME NEW s \in Schedulers, ScheduleBegin(s) \/ ScheduleCommit(s) PROVE IInv'
  BY <1>2, ScheduleBeginIInv, ScheduleCommitIInv
<1>3. CASE Tick
  BY <1>3, TickIInv
<1>4. ASSUME NEW a \in Articles, NEW meaningful \in BOOLEAN, Stamp(a, meaningful) PROVE IInv'
  BY <1>4, StampIInv
<1>5. ASSUME NEW a \in Articles, Store(a) \/ IngestFails(a) PROVE IInv'
  BY <1>5, StoreIInv, IngestFailsIInv
<1>6. ASSUME NEW g \in Generators, NEW m \in Instants, BeginScheduled(g, m) PROVE IInv'
  <2>1. m <= now /\ "local" \in Zones /\ FALSE \in BOOLEAN /\ Begin(g, "local", m, FALSE)
    BY <1>6 DEF BeginScheduled, IInv, Past, Zones
  <2> QED
    BY <2>1, BeginIInv
<1>7. ASSUME NEW g \in Generators, BeginManual(g) PROVE IInv'
  <2>1. Begin(g, "utc", now, FALSE)
    BY <1>7 DEF BeginManual
  <2>2. now \in Instants /\ now <= now
    BY DEF IInv, TypeOK, Instants
  <2>3. "utc" \in Zones /\ FALSE \in BOOLEAN
    BY DEF Zones
  <2> QED
    BY <2>1, <2>2, <2>3, BeginIInv
<1>8. ASSUME NEW g \in Generators, NEW end \in Instants, BeginRevision(g, end) PROVE IInv'
  <2>1. end <= now /\ "utc" \in Zones /\ TRUE \in BOOLEAN /\ Begin(g, "utc", end, TRUE)
    BY <1>8 DEF BeginRevision, IInv, Past, Zones
  <2> QED
    BY <2>1, BeginIInv
<1>9. ASSUME NEW g \in Generators, Read(g) \/ Commit(g) \/ Abort(g) PROVE IInv'
  BY <1>9, ReadIInv, CommitIInv, AbortIInv
<1>10. ASSUME NEW end \in Legacy, Import(end) PROVE IInv'
  BY <1>10, ImportIInv
<1> QED
  BY <1>1, <1>2, <1>3, <1>4, <1>5, <1>6, <1>7, <1>8, <1>9, <1>10 DEF Next

\* The invariant behind the theorems below holds throughout (briefs/services.py,
\* tasks.py:178-206).
THEOREM Invariance == Spec => []IInv
<1> QED
  BY Start, NextIInv, PTL DEF Spec

\* Every variable keeps its type and every window has a length.
THEOREM TypeCorrect == Spec => []TypeOK
<1>1. IInv => TypeOK
  BY DEF IInv
<1> QED
  BY <1>1, Invariance, PTL

\* Between the first and the last briefing every instant is in a window, in
\* whatever order and however often the jobs run (briefs/services.py:25-26).
THEOREM WindowsJoin == Spec => []NoGap
<1>1. IInv => NoGap
  <2> SUFFICES ASSUME IInv, NEW b \in briefings, NEW c \in briefings,
                      NEW t \in b.end .. c.end
               PROVE  Covered(t)
    BY DEF NoGap
  <2>1. b.end \in Nat /\ c.end \in Nat /\ b.start \in Int /\ b.start < b.end /\ t \in Int
    BY DEF IInv, TypeOK, Issue, Instants
  <2>2. CASE t = b.end
    BY <2>1, <2>2 DEF Covered, InWindow
  <2>3. CASE t # b.end
    BY <2>1, <2>3 DEF IInv, Complete
  <2> QED
    BY <2>2, <2>3
<1> QED
  BY <1>1, Invariance, PTL

\* Only a new version of a briefing repeats what another one holds
\* (briefs/services.py:18, 29).
THEOREM OnceNews == Spec => []NewsOnce
<1>1. IInv => NewsOnce
  BY DEF IInv
<1> QED
  BY <1>1, Invariance, PTL

\* Nothing that was committed when its briefing looked is passed over without a
\* reason (briefs/services.py:27-58).
THEOREM AllConsidered == Spec => []NothingMissed
<1>1. IInv => NothingMissed
  BY DEF IInv
<1> QED
  BY <1>1, Invariance, PTL

\* No slot is passed without a job for it or a later one, for any number of
\* schedulers (tasks.py:178-218).
THEOREM SlotsHaveJobs == Spec => []SlotsAnswered
<1>1. IInv => SlotsAnswered
  BY DEF IInv
<1> QED
  BY <1>1, Invariance, PTL

=============================================================================
