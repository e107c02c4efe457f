--------------------------- MODULE TimelineProofs ---------------------------
(***************************************************************************)
(* The inductive invariant of Timeline and its theorems, for any articles, *)
(* sources, executions and scans, and any numbers of events, nodes,        *)
(* versions, proposals and commands.                                       *)
(***************************************************************************)
EXTENDS Timeline, FiniteSetTheorems, WellFoundedInduction, TLAPS

-----------------------------------------------------------------------------
(* The inductive invariant. *)

Final == {"accepted", "rejected"}

Candidates == [Events -> [Articles -> Statuses]]

\* A node has reports, and a person's node has no key.
GoodNode(r) ==
  /\ r.event = NoEvent => r = Unused
  /\ r.event # NoEvent => r.reports # {}
  /\ r.by = "person" => r.cites = {}

\* Two nodes do not have the same key.
Distinct(q, r) ==
  q.event = r.event /\ q.cites = r.cites /\ q.cites # {}
    => (q.by = "scan" <=> r.by # "scan")

GoodNodes(nodes) ==
  /\ nodes \in [Nodes -> NodeRow]
  /\ \A n \in Nodes : GoodNode(nodes[n])
  /\ \A m, n \in Nodes : m # n => Distinct(nodes[m], nodes[n])

\* What event_ai published about an article is decided for good.
Published(nodes, cands) ==
  \A n \in Nodes : nodes[n].by = "event_ai" =>
    \A a \in Cited(nodes[n].cites) : cands[nodes[n].event][a] \in Final

\* An execution of event_ai asks about a version of an article.
Asked ==
  \A x \in Analysts : an[x].pc = "asking" =>
    /\ an[x].event \in Events /\ an[x].article \in Articles
    /\ an[x].version \in 1 .. MAX_VERSION

IInv == TypeOK /\ GoodNodes(node) /\ Published(node, cand) /\ Asked /\ SelectedInEvent

\* What a step may do to the candidates: a final decision stays one.
Standing(old, new) ==
  \A e \in Events, a \in Articles : old[e][a] \in Final => new[e][a] \in Final

-----------------------------------------------------------------------------
(* Sets of numbers and versions. *)

\* A set of naturals that is not empty has a least element.
LEMMA LeastElement ==
  ASSUME NEW S \in SUBSET Nat, S # {}
  PROVE  \E m \in S : \A t \in S : m <= t
<1> DEFINE R == {ss \in Nat \X Nat : ss[1] < ss[2]}
<1>1. IsWellFoundedOn(R, Nat)
  BY NatLessThanWellFounded DEF OpToRel
<1> HIDE DEF R
<1>2. PICK m \in S : \A t \in S : <<t, m>> \notin R
  BY <1>1, WFMin
<1>3. ASSUME NEW t \in S PROVE m <= t
  <2>1. <<t, m>> \notin R
    BY <1>2
  <2> QED
    BY <2>1 DEF R
<1> QED
  BY <1>3

\* There are finitely many versions, so any set of reports is finite.
LEMMA FiniteVersions ==
  ASSUME NEW S \in SUBSET Versions
  PROVE  IsFiniteSet(S) /\ Cardinality(S) \in Nat
<1>1. IsFiniteSet(Articles) /\ IsFiniteSet(1 .. MAX_VERSION)
  BY TimelineAssumption, FS_Interval
<1>2. IsFiniteSet(Versions)
  BY <1>1, FS_Product DEF Versions
<1> QED
  BY <1>2, FS_Subset, FS_CardinalityType

\* The articles that versions cite.
LEMMA CitedArticles ==
  ASSUME NEW S \in SUBSET Versions
  PROVE  /\ Cited(S) \subseteq Articles
         /\ S # {} => Cited(S) # {}
         /\ \A T \in SUBSET Versions : Cited(S \cup T) = Cited(S) \cup Cited(T)
<1> QED
  BY DEF Cited, Versions

\* A table with a free row has a first one.
LEMMA NewNodeFree ==
  ASSUME NEW nodes, FreeNodes(nodes) # {}
  PROVE  NewNode(nodes) \in Nodes /\ nodes[NewNode(nodes)].event = NoEvent
<1>1. FreeNodes(nodes) \subseteq Nat
  BY TimelineAssumption DEF FreeNodes, Nodes
<1>2. \E n \in FreeNodes(nodes) : \A m \in FreeNodes(nodes) : n <= m
  BY <1>1, LeastElement
<1> QED
  BY <1>2 DEF NewNode, FreeNodes

-----------------------------------------------------------------------------
(* What a transaction does to the tables. *)

\* One row of the nodes is written.
LEMMA PutNode ==
  ASSUME NEW nodes, GoodNodes(nodes), NEW n \in Nodes, NEW r \in NodeRow, GoodNode(r),
         \A m \in Nodes \ {n} : Distinct(nodes[m], r)
  PROVE  GoodNodes([nodes EXCEPT ![n] = r])
<1> DEFINE new == [nodes EXCEPT ![n] = r]
<1>1. new \in [Nodes -> NodeRow] /\ \A m \in Nodes : new[m] = IF m = n THEN r ELSE nodes[m]
  BY DEF GoodNodes
<1>2. \A m \in Nodes : GoodNode(new[m])
  BY <1>1 DEF GoodNodes
<1>3. ASSUME NEW p \in Nodes, NEW q \in Nodes, p # q PROVE Distinct(new[p], new[q])
  <2>1. Distinct(nodes[p], nodes[q])
    BY <1>3 DEF GoodNodes
  <2>2. p = n => Distinct(nodes[q], r)
    BY <1>3
  <2>3. q = n => Distinct(nodes[p], r)
    BY <1>3
  <2> QED
    BY <1>1, <1>3, <2>1, <2>2, <2>3 DEF Distinct
<1> QED
  BY <1>1, <1>2, <1>3 DEF GoodNodes

\* A node that keeps its key stays distinct from the others.
LEMMA SameKey ==
  ASSUME NEW nodes, GoodNodes(nodes), NEW n \in Nodes, NEW r,
         r.event = nodes[n].event, r.cites = nodes[n].cites,
         r.by = "scan" <=> nodes[n].by = "scan"
  PROVE  \A m \in Nodes \ {n} : Distinct(nodes[m], r)
<1> QED
  BY DEF GoodNodes, Distinct

\* A row is freed.
LEMMA FreedNode ==
  ASSUME NEW nodes, GoodNodes(nodes), NEW n \in Nodes
  PROVE  GoodNodes([nodes EXCEPT ![n] = Unused])
<1>1. Unused \in NodeRow /\ GoodNode(Unused) /\ Unused.cites = {}
  BY DEF Unused, NodeRow, GoodNode
<1>2. \A m \in Nodes \ {n} : Distinct(nodes[m], Unused)
  BY <1>1 DEF Distinct
<1> QED
  BY <1>1, <1>2, PutNode

\* A person's node is good, and distinct from any other.
LEMMA PersonsNode ==
  ASSUME NEW nodes, GoodNodes(nodes), NEW n \in Nodes, NEW e \in Events,
         NEW reports \in SUBSET Versions, reports # {}
  PROVE  GoodNodes([nodes EXCEPT ![n] = ByPerson(e, reports)])
<1> DEFINE r == ByPerson(e, reports)
<1>1. r \in NodeRow /\ r.event = e /\ r.reports = reports /\ r.by = "person" /\ r.cites = {}
  BY DEF ByPerson, NodeRow
<1>2. NoEvent # e
  BY TimelineAssumption DEF Events
<1>3. GoodNode(r)
  BY <1>1, <1>2 DEF GoodNode
<1>4. \A m \in Nodes \ {n} : Distinct(nodes[m], r)
  BY <1>1 DEF Distinct
<1> HIDE DEF r
<1>5. GoodNodes([nodes EXCEPT ![n] = r])
  BY <1>1, <1>3, <1>4, PutNode
<1> QED
  BY <1>5 DEF r

\* A node that cites something belongs to an event, and cites articles.
LEMMA Keyed ==
  ASSUME NEW nodes, GoodNodes(nodes), NEW n \in Nodes
  PROVE  /\ nodes[n] \in NodeRow /\ nodes[n].reports \subseteq Versions
         /\ Cited(nodes[n].cites) \subseteq Articles /\ Cited(nodes[n].reports) \subseteq Articles
         /\ nodes[n].event # NoEvent => nodes[n].event \in Events
         /\ nodes[n].by # "person" \/ nodes[n].confirmed => nodes[n].event \in Events
<1>1. nodes[n] \in NodeRow /\ GoodNode(nodes[n])
  BY DEF GoodNodes
<1>2. nodes[n].cites \subseteq Versions /\ nodes[n].reports \subseteq Versions
  BY <1>1 DEF NodeRow
<1>3. nodes[n].event # NoEvent => nodes[n].event \in Events
  BY <1>1 DEF NodeRow
<1>4. nodes[n].by # "person" \/ nodes[n].confirmed => nodes[n].event # NoEvent
  BY <1>1 DEF GoodNode, Unused
<1> QED
  BY <1>1, <1>2, <1>3, <1>4, CitedArticles

\* What is published stays so while final decisions do, if the row that is written is
\* no news of event_ai.
LEMMA StillPublished ==
  ASSUME NEW nodes, GoodNodes(nodes), NEW cands, NEW new, Published(nodes, cands),
         Standing(cands, new), NEW n \in Nodes, NEW r,
         \/ r.by # "event_ai"
         \/ nodes[n].by = "event_ai" /\ r.event = nodes[n].event /\ r.cites = nodes[n].cites
  PROVE  Published([nodes EXCEPT ![n] = r], new)
<1> DEFINE after == [nodes EXCEPT ![n] = r]
<1>1. \A m \in Nodes : after[m] = IF m = n THEN r ELSE nodes[m]
  BY DEF GoodNodes
<1>2. ASSUME NEW m \in Nodes, after[m].by = "event_ai", NEW a \in Cited(after[m].cites)
      PROVE  new[after[m].event][a] \in Final
  <2>1. /\ nodes[m].by = "event_ai" /\ after[m].event = nodes[m].event
        /\ after[m].cites = nodes[m].cites
    BY <1>1, <1>2
  <2>2. nodes[m].event \in Events /\ a \in Articles
    BY <1>2, <2>1, Keyed
  <2>3. cands[nodes[m].event][a] \in Final
    BY <1>2, <2>1 DEF Published
  <2> QED
    BY <2>1, <2>2, <2>3 DEF Standing
<1> QED
  BY <1>2 DEF Published

\* The same when no row is written.
LEMMA PublishedStands ==
  ASSUME NEW nodes, GoodNodes(nodes), NEW cands, NEW new, Published(nodes, cands),
         Standing(cands, new)
  PROVE  Published(nodes, new)
<1>1. ASSUME NEW m \in Nodes, nodes[m].by = "event_ai", NEW a \in Cited(nodes[m].cites)
      PROVE  new[nodes[m].event][a] \in Final
  <2>1. nodes[m].event \in Events /\ a \in Articles
    BY <1>1, Keyed
  <2>2. cands[nodes[m].event][a] \in Final
    BY <1>1 DEF Published
  <2> QED
    BY <2>1, <2>2 DEF Standing
<1> QED
  BY <1>1 DEF Published

\* Selections stand while final decisions do.
LEMMA SelectedStands ==
  ASSUME SelectedInEvent, review' = review, Standing(cand, cand')
  PROVE  SelectedInEvent'
<1> QED
  BY DEF SelectedInEvent, Standing, Final

\* refresh_overview() keeps the rows typed.
LEMMA RefreshedRows ==
  ASSUME NEW events \in [Events -> EventRow], NEW nodes, NEW e
  PROVE  Refreshed(events, nodes, e) \in [Events -> EventRow]
<1>1. ASSUME NEW s \in BOOLEAN PROVE [events EXCEPT ![e].stale = s] \in [Events -> EventRow]
  BY DEF EventRow
<1>2. CASE e \in Events
  <2> DEFINE s == events[e].stale /\ NodesOf(nodes, e) = {}
  <2>1. s \in BOOLEAN
    OBVIOUS
  <2>2. Refreshed(events, nodes, e) = [events EXCEPT ![e].stale = s]
    BY DEF Refreshed
  <2> HIDE DEF s
  <2> QED
    BY <1>1, <2>1, <2>2
<1>3. CASE e \notin Events
  BY <1>3 DEF Refreshed
<1> QED
  BY <1>2, <1>3

\* The candidates of some articles get a status.
LEMMA Decided ==
  ASSUME NEW cands \in Candidates, NEW e \in Events, NEW articles, NEW status \in Statuses
  PROVE  LET new == Decide(cands, e, articles, status)
         IN /\ new \in Candidates
            /\ \A f \in Events, a \in Articles :
                 new[f][a] = IF f = e /\ a \in articles /\ cands[f][a] # "none"
                             THEN status ELSE cands[f][a]
<1> QED
  BY DEF Candidates, Decide

\* Where a decision is to be, one is already, or the node that is being confirmed
\* brings it.
Covered(nodes, n) ==
  \A m \in Nodes : nodes[m].by = "event_ai" =>
    \A a \in Cited(nodes[m].cites) :
      \/ cand[nodes[m].event][a] \in Final
      \/ m = n /\ a \in Cited(nodes[n].reports) /\ cand[nodes[n].event][a] # "none"

\* confirm_node() (events/services.py:66-76).
LEMMA ConfirmedMove ==
  ASSUME NEW nodes, GoodNodes(nodes), NEW n \in Nodes, nodes[n].event \in Events,
         event \in [Events -> EventRow], cand \in Candidates,
         Covered(nodes, n), Confirmed(n, nodes)
  PROVE  /\ event' \in [Events -> EventRow] /\ cand' \in Candidates
         /\ GoodNodes(node') /\ Published(node', cand') /\ Standing(cand, cand')
         /\ node'[n].confirmed
         /\ \A f \in Events, a \in Articles : cand'[f][a] # cand[f][a] =>
              f = nodes[n].event /\ a \in Cited(nodes[n].reports)
<1> DEFINE e == nodes[n].event
           r == [nodes[n] EXCEPT !.confirmed = TRUE]
<1>1. /\ nodes[n] \in NodeRow /\ GoodNode(nodes[n]) /\ nodes \in [Nodes -> NodeRow]
      /\ e # NoEvent
  BY TimelineAssumption DEF GoodNodes, Events
<1>2. /\ r \in NodeRow /\ r.event = e /\ r.cites = nodes[n].cites /\ r.by = nodes[n].by
      /\ r.reports = nodes[n].reports /\ r.confirmed
  BY <1>1 DEF NodeRow
<1>3. node' = [nodes EXCEPT ![n] = r]
  BY DEF Confirmed
<1>4. GoodNode(r)
  BY <1>1, <1>2 DEF GoodNode
<1>5. \A m \in Nodes \ {n} : Distinct(nodes[m], r)
  BY <1>2, SameKey
<1>6. cand' = Decide(cand, e, Cited(nodes[n].reports), "accepted")
  BY DEF Confirmed
<1>7. /\ cand' \in Candidates
      /\ \A f \in Events, a \in Articles :
           cand'[f][a] = IF f = e /\ a \in Cited(nodes[n].reports) /\ cand[f][a] # "none"
                         THEN "accepted" ELSE cand[f][a]
  BY <1>6, Decided DEF Statuses
<1>8. event' = Refreshed(event, [nodes EXCEPT ![n].confirmed = TRUE], e)
  BY DEF Confirmed
<1>9. event' \in [Events -> EventRow]
  BY <1>8, RefreshedRows
<1> HIDE DEF r
<1>10. GoodNodes(node')
  BY <1>2, <1>3, <1>4, <1>5, PutNode
<1>11. Standing(cand, cand')
  BY <1>7 DEF Standing, Final
<1>12. \A m \in Nodes : /\ node'[m].event = nodes[m].event /\ node'[m].cites = nodes[m].cites
                        /\ node'[m].by = nodes[m].by
  BY <1>1, <1>2, <1>3
<1>13. ASSUME NEW m \in Nodes, node'[m].by = "event_ai", NEW a \in Cited(node'[m].cites)
       PROVE  cand'[node'[m].event][a] \in Final
  <2>1. nodes[m].by = "event_ai" /\ a \in Cited(nodes[m].cites)
    BY <1>12, <1>13
  <2>2. nodes[m].event \in Events /\ a \in Articles
    BY <2>1, Keyed
  <2>3. CASE cand[nodes[m].event][a] \in Final
    BY <1>11, <1>12, <2>2, <2>3 DEF Standing
  <2>4. CASE m = n /\ a \in Cited(nodes[n].reports) /\ cand[nodes[n].event][a] # "none"
    BY <1>7, <1>12, <2>2, <2>4 DEF Final
  <2> QED
    BY <2>1, <2>3, <2>4 DEF Covered
<1>14. Published(node', cand')
  BY <1>13 DEF Published
<1> QED
  BY <1>1, <1>2, <1>3, <1>7, <1>9, <1>10, <1>11, <1>14

\* Nothing is to be covered where everything is published.
LEMMA CoveredAll ==
  ASSUME NEW nodes, Published(nodes, cand), NEW n \in Nodes
  PROVE  Covered(nodes, n)
<1> QED
  BY DEF Published, Covered

-----------------------------------------------------------------------------
(* The actions of a person *)

\* A step that keeps the tables good and final decisions final keeps the invariant.
LEMMA TablesMove ==
  ASSUME IInv, event' \in [Events -> EventRow], cand' \in Candidates,
         GoodNodes(node'), Published(node', cand'), Standing(cand, cand'),
         current' \in [Articles -> 1 .. MAX_VERSION], review' = review,
         an' \in [Analysts -> Analysis], Asked', sc' \in [Scans -> Scan],
         commands' \in 0 .. MAX_COMMANDS
  PROVE  IInv'
<1>1. review \in [Articles -> {"none", "selected", "excluded"}]
  BY DEF IInv, TypeOK
<1>2. SelectedInEvent'
  BY SelectedStands DEF IInv
<1>3. /\ node' \in [Nodes -> NodeRow]
      /\ \A m, n \in Nodes :
           (m # n /\ node'[m].event = node'[n].event /\ node'[m].cites = node'[n].cites)
             => node'[m].cites = {} \/ (node'[m].by = "scan" <=> node'[n].by # "scan")
  BY DEF GoodNodes, Distinct
<1>4. TypeOK'
  BY <1>1, <1>3 DEF TypeOK, Candidates
<1> QED
  BY <1>2, <1>4 DEF IInv

\* The tables before a step.
LEMMA Tabled ==
  ASSUME IInv
  PROVE  /\ event \in [Events -> EventRow] /\ cand \in Candidates
         /\ GoodNodes(node) /\ Published(node, cand) /\ Standing(cand, cand)
         /\ node \in [Nodes -> NodeRow]
         /\ \A n \in Nodes : Exists(n) =>
              /\ node[n].event \in Events /\ node[n].reports \in SUBSET Versions
              /\ node[n].reports # {}
<1>1. /\ event \in [Events -> EventRow] /\ cand \in Candidates /\ GoodNodes(node)
      /\ Published(node, cand) /\ node \in [Nodes -> NodeRow]
  BY DEF IInv, TypeOK, Candidates
<1>2. \A n \in Nodes : node[n] \in NodeRow /\ GoodNode(node[n])
  BY <1>1 DEF GoodNodes
<1>3. ASSUME NEW n \in Nodes, Exists(n)
      PROVE  /\ node[n].event \in Events /\ node[n].reports \in SUBSET Versions
             /\ node[n].reports # {}
  BY <1>2, <1>3 DEF Exists, NodeRow, GoodNode
<1> QED
  BY <1>1, <1>3 DEF Standing

\* The same, for a step that a person or event_ai takes on the tables alone.
LEMMA CommandMove ==
  ASSUME IInv, event' \in [Events -> EventRow], cand' \in Candidates,
         GoodNodes(node'), Published(node', cand'), Standing(cand, cand'),
         UNCHANGED <<current, review, an, sc>>, commands' \in 0 .. MAX_COMMANDS
  PROVE  IInv'
<1>1. /\ current' \in [Articles -> 1 .. MAX_VERSION] /\ an' \in [Analysts -> Analysis]
      /\ sc' \in [Scans -> Scan]
  BY DEF IInv, TypeOK
<1>2. Asked'
  BY DEF IInv, Asked
<1> QED
  BY <1>1, <1>2, TablesMove

\* The event form (views.py:256-263).
LEMMA EditEventIInv ==
  ASSUME IInv, commands' \in 0 .. MAX_COMMANDS,
         NEW e \in Events, NEW status \in {"tracking", "closed"}, EditEvent(e, status)
  PROVE  IInv'
<1>1. event' = [event EXCEPT ![e].status = status] /\ UNCHANGED <<cand, node>>
  BY DEF EditEvent
<1>2. event' \in [Events -> EventRow]
  BY <1>1, Tabled DEF EventRow
<1>3. UNCHANGED <<current, review, an, sc>>
  BY DEF EditEvent
<1> QED
  BY <1>1, <1>2, <1>3, Tabled, CommandMove

\* A new node of a person is confirmed at once (events/services.py:89-106).
LEMMA CreateNodeIInv ==
  ASSUME IInv, commands' \in 0 .. MAX_COMMANDS,
         NEW e \in Events, NEW a \in Articles, CreateNode(e, a)
  PROVE  IInv'
<1> DEFINE n == NewNode(node)
           reports == {CurrentOf(a)}
           new == [node EXCEPT ![n] = ByPerson(e, reports)]
<1>1. n \in Nodes
  BY NewNodeFree DEF CreateNode
<1>2. reports \in SUBSET Versions /\ reports # {}
  BY DEF IInv, TypeOK, CurrentOf, Versions
<1>3. Confirmed(n, new) /\ UNCHANGED <<current, review, an, sc>>
  BY DEF CreateNode
<1>4. ByPerson(e, reports).event = e /\ ByPerson(e, reports).by = "person"
  BY DEF ByPerson
<1> HIDE DEF n, reports
<1>5. GoodNodes(new)
  BY <1>1, <1>2, Tabled, PersonsNode
<1>6. Published(new, cand)
  BY <1>1, <1>4, Tabled, StillPublished
<1>7. new[n].event = e
  BY <1>1, <1>4, Tabled
<1> HIDE DEF new
<1>8. Covered(new, n)
  BY <1>1, <1>6, CoveredAll
<1> QED
  BY <1>1, <1>3, <1>5, <1>7, <1>8, Tabled, ConfirmedMove, CommandMove

\* A draft is confirmed by hand (views.py:421-422).
LEMMA ConfirmIInv ==
  ASSUME IInv, commands' \in 0 .. MAX_COMMANDS, NEW n \in Nodes, Confirm(n)
  PROVE  IInv'
<1>1. Exists(n) /\ Confirmed(n, node) /\ UNCHANGED <<current, review, an, sc>>
  BY DEF Confirm
<1>2. Covered(node, n)
  BY Tabled, CoveredAll
<1> QED
  BY <1>1, <1>2, Tabled, ConfirmedMove, CommandMove

\* A candidate is rejected by hand (views.py:423-425).
LEMMA RejectCandidateIInv ==
  ASSUME IInv, commands' \in 0 .. MAX_COMMANDS,
         NEW e \in Events, NEW a \in Articles, RejectCandidate(e, a)
  PROVE  IInv'
<1>1. cand' = Decide(cand, e, {a}, "rejected") /\ UNCHANGED <<event, node>>
  BY DEF RejectCandidate
<1>2. cand' \in Candidates /\ Standing(cand, cand')
  BY <1>1, Tabled, Decided DEF Statuses, Standing, Final
<1>3. Published(node, cand')
  BY <1>2, Tabled, PublishedStands
<1>4. UNCHANGED <<current, review, an, sc>>
  BY DEF RejectCandidate
<1> QED
  BY <1>1, <1>2, <1>3, <1>4, Tabled, CommandMove

\* A draft is dropped (views.py:426-427).
LEMMA DropDraftIInv ==
  ASSUME IInv, commands' \in 0 .. MAX_COMMANDS, NEW n \in Nodes, DropDraft(n)
  PROVE  IInv'
<1>1. node' = [node EXCEPT ![n] = Unused] /\ UNCHANGED <<event, cand>>
  BY DEF DropDraft
<1>2. GoodNodes(node')
  BY <1>1, Tabled, FreedNode
<1>3. Published(node', cand)
  BY <1>1, Tabled, StillPublished DEF Unused
<1>4. UNCHANGED <<current, review, an, sc>>
  BY DEF DropDraft
<1> QED
  BY <1>1, <1>2, <1>3, <1>4, Tabled, CommandMove

\* A node is removed; articles that no other node links are rejected
\* (events/services.py:109-126).
LEMMA RemoveNodeIInv ==
  ASSUME IInv, commands' \in 0 .. MAX_COMMANDS, NEW n \in Nodes, RemoveNode(n)
  PROVE  IInv'
<1>1. PICK articles :
        /\ node' = [node EXCEPT ![n] = Unused]
        /\ cand' = Decide(cand, node[n].event, articles, "rejected")
        /\ event' = Refreshed(event, [node EXCEPT ![n] = Unused], node[n].event)
  BY DEF RemoveNode
<1>2. node[n].event \in Events
  BY Tabled DEF RemoveNode
<1>3. cand' \in Candidates /\ Standing(cand, cand')
  BY <1>1, <1>2, Tabled, Decided DEF Statuses, Standing, Final
<1>4. GoodNodes(node')
  BY <1>1, Tabled, FreedNode
<1>5. Published(node', cand')
  BY <1>1, <1>3, Tabled, StillPublished DEF Unused
<1>6. event' \in [Events -> EventRow]
  BY <1>1, Tabled, RefreshedRows
<1>7. UNCHANGED <<current, review, an, sc>>
  BY DEF RemoveNode
<1> QED
  BY <1>3, <1>4, <1>5, <1>6, <1>7, CommandMove

\* The reports of two nodes are joined (events/services.py:129-143).
LEMMA MergeNodesIInv ==
  ASSUME IInv, commands' \in 0 .. MAX_COMMANDS,
         NEW target \in Nodes, NEW source \in Nodes, MergeNodes(target, source)
  PROVE  IInv'
<1> DEFINE r == [node[target] EXCEPT !.reports = @ \cup node[source].reports]
           joined == [node EXCEPT ![target] = r]
<1>1. target # source /\ Exists(target) /\ node[target].event = node[source].event
  BY DEF MergeNodes
<1>2. /\ Exists(source) /\ node[target] \in NodeRow /\ node[source] \in NodeRow
      /\ GoodNode(node[target])
  BY <1>1, Tabled DEF Exists, GoodNodes
<1>3. /\ r \in NodeRow /\ r.event = node[target].event /\ r.cites = node[target].cites
      /\ r.by = node[target].by /\ r.reports = node[target].reports \cup node[source].reports
  BY <1>2 DEF NodeRow
<1>4. GoodNode(r)
  BY <1>1, <1>2, <1>3 DEF GoodNode, Exists
<1>5. node' = [joined EXCEPT ![source] = Unused] /\ UNCHANGED cand
  BY <1>1, Tabled DEF MergeNodes
<1>6. event' = Refreshed(event, node', node[target].event)
  BY DEF MergeNodes
<1> HIDE DEF r
<1>7. \A m \in Nodes \ {target} : Distinct(node[m], r)
  BY <1>3, Tabled, SameKey
<1>8. GoodNodes(joined)
  BY <1>3, <1>4, <1>7, Tabled, PutNode
<1>9. Published(joined, cand)
  BY <1>3, Tabled, StillPublished
<1> HIDE DEF joined
<1>10. GoodNodes(node')
  BY <1>5, <1>8, FreedNode
<1>11. Published(node', cand)
  BY <1>5, <1>8, <1>9, Tabled, StillPublished DEF Unused
<1>12. event' \in [Events -> EventRow]
  BY <1>6, Tabled, RefreshedRows
<1>13. UNCHANGED <<current, review, an, sc>>
  BY DEF MergeNodes
<1> QED
  BY <1>5, <1>10, <1>11, <1>12, <1>13, Tabled, CommandMove

\* Some reports of a node, not all, get a node of their own (events/services.py:146-163).
LEMMA SplitNodeIInv ==
  ASSUME IInv, commands' \in 0 .. MAX_COMMANDS, NEW n \in Nodes,
         NEW selected \in SUBSET node[n].reports, SplitNode(n, selected)
  PROVE  IInv'
<1> DEFINE m == NewNode(node)
           e == node[n].event
           rest == [node[n] EXCEPT !.reports = @ \ selected]
           made == [node EXCEPT ![m] = ByPerson(e, selected)]
           split == [made EXCEPT ![n] = rest]
<1>1. /\ Exists(n) /\ selected # {} /\ Cardinality(selected) < Cardinality(node[n].reports)
      /\ FreeNodes(node) # {} /\ UNCHANGED <<current, review, an, sc>>
  BY DEF SplitNode, Splittable
<1>2. m \in Nodes /\ node[m].event = NoEvent
  BY <1>1, NewNodeFree
<1>3. m # n
  BY <1>1, <1>2 DEF Exists
<1>4. /\ node[n] \in NodeRow /\ GoodNode(node[n]) /\ e \in Events
      /\ node[n].reports \in SUBSET Versions /\ selected \in SUBSET Versions
  BY <1>1, Tabled DEF GoodNodes
<1>5. node[n].reports \ selected # {}
  <2>1. Cardinality(selected) \in Nat
    BY <1>4, FiniteVersions
  <2>2. selected # node[n].reports
    BY <1>1, <2>1
  <2> QED
    BY <2>2
<1>6. /\ rest \in NodeRow /\ rest.event = e /\ rest.cites = node[n].cites
      /\ rest.by = node[n].by /\ rest.reports = node[n].reports \ selected
  BY <1>4 DEF NodeRow
<1>7. GoodNode(rest)
  BY <1>1, <1>4, <1>5, <1>6 DEF GoodNode, Exists
<1>8. split = [node EXCEPT ![m] = ByPerson(e, selected), ![n].reports = @ \ selected]
  BY <1>2, <1>3, Tabled
<1>9. ByPerson(e, selected).event = e /\ ByPerson(e, selected).by = "person"
  BY DEF ByPerson
<1>10. IF node[n].confirmed THEN Confirmed(m, split)
       ELSE node' = split /\ event' = Refreshed(event, split, e) /\ UNCHANGED cand
  BY <1>8 DEF SplitNode
<1> HIDE DEF m, rest
<1>11. GoodNodes(made) /\ Published(made, cand)
  BY <1>1, <1>2, <1>4, <1>9, Tabled, PersonsNode, StillPublished
<1>12. made[n] = node[n] /\ made[m].event = e
  BY <1>2, <1>3, <1>9, Tabled
<1> HIDE DEF made
<1>13. \A p \in Nodes \ {n} : Distinct(made[p], rest)
  BY <1>6, <1>11, <1>12, SameKey
<1>14. GoodNodes(split)
  BY <1>6, <1>7, <1>11, <1>13, PutNode
<1>15. Published(split, cand)
  BY <1>6, <1>11, <1>12, Tabled, StillPublished
<1>16. split[m].event = e
  BY <1>3, <1>2, <1>11, <1>12 DEF GoodNodes
<1> HIDE DEF split
<1>17. CASE node[n].confirmed
  <2>1. Covered(split, m)
    BY <1>2, <1>15, CoveredAll
  <2> QED
    BY <1>1, <1>2, <1>4, <1>10, <1>14, <1>16, <1>17, <2>1, Tabled, ConfirmedMove, CommandMove
<1>18. CASE ~ node[n].confirmed
  <2>1. event' \in [Events -> EventRow]
    BY <1>10, <1>18, Tabled, RefreshedRows
  <2> QED
    BY <1>1, <1>10, <1>14, <1>15, <1>18, <2>1, Tabled, CommandMove
<1> QED
  BY <1>17, <1>18

\* The texts of a node are edited (views.py:443-450).
LEMMA EditNodeIInv ==
  ASSUME IInv, commands' \in 0 .. MAX_COMMANDS, NEW n \in Nodes, EditNode(n)
  PROVE  IInv'
<1>1. event' = Refreshed(event, node, node[n].event) /\ UNCHANGED <<cand, node>>
  BY DEF EditNode
<1>2. event' \in [Events -> EventRow]
  BY <1>1, Tabled, RefreshedRows
<1>3. UNCHANGED <<current, review, an, sc>>
  BY DEF EditNode
<1> QED
  BY <1>1, <1>2, <1>3, Tabled, CommandMove

\* Any command of a person.
LEMMA PersonIInv ==
  ASSUME IInv, Person
  PROVE  IInv'
<1>1. commands' \in 0 .. MAX_COMMANDS
  BY TimelineAssumption DEF IInv, TypeOK, Person
<1> QED
  BY <1>1, EditEventIInv, CreateNodeIInv, RejectCandidateIInv, ConfirmIInv, DropDraftIInv,
     RemoveNodeIInv, MergeNodesIInv, SplitNodeIInv, EditNodeIInv DEF Person

-----------------------------------------------------------------------------
(* The actions of event_ai and of the background *)

\* What keeps the invariant when no person acts and the scans stay.
LEMMA AnalystMove ==
  ASSUME IInv, event' \in [Events -> EventRow], cand' \in Candidates,
         GoodNodes(node'), Published(node', cand'), Standing(cand, cand'),
         NEW x \in Analysts, Done(x), UNCHANGED <<current, review, sc, commands>>
  PROVE  IInv'
<1>1. an' = [an EXCEPT ![x] = Idle] /\ Idle \in Analysis /\ Idle.pc = "idle"
  BY TimelineAssumption DEF Done, Idle, Analysis
<1>2. an \in [Analysts -> Analysis] /\ Asked
  BY DEF IInv, TypeOK
<1>3. an' \in [Analysts -> Analysis]
  BY <1>1, <1>2
<1>4. Asked'
  BY <1>1, <1>2 DEF Asked
<1>5. /\ current' \in [Articles -> 1 .. MAX_VERSION] /\ sc' \in [Scans -> Scan]
      /\ commands' \in 0 .. MAX_COMMANDS
  BY DEF IInv, TypeOK
<1> QED
  BY <1>3, <1>4, <1>5, TablesMove

\* event_ai reads the event and the candidate, and asks (services.py:353-364).
LEMMA AnalyseIInv ==
  ASSUME IInv, NEW x \in Analysts, NEW e \in Events, NEW a \in Articles, Analyse(x, e, a)
  PROVE  IInv'
<1> DEFINE asked == [pc |-> "asking", event |-> e, article |-> a, version |-> current[a]]
<1>1. /\ current \in [Articles -> 1 .. MAX_VERSION] /\ an \in [Analysts -> Analysis]
      /\ sc \in [Scans -> Scan] /\ commands \in 0 .. MAX_COMMANDS /\ Asked
  BY DEF IInv, TypeOK
<1>2. current[a] \in 1 .. MAX_VERSION /\ current[a] \in 0 .. MAX_VERSION
  BY <1>1, TimelineAssumption
<1>3. asked \in Analysis
  BY <1>2 DEF Analysis
<1>4. /\ an' = [an EXCEPT ![x] = asked]
      /\ UNCHANGED <<event, cand, node, current, review, sc, commands>>
  BY DEF Analyse
<1>5. an' \in [Analysts -> Analysis]
  BY <1>1, <1>3, <1>4
<1>6. Asked'
  BY <1>1, <1>2, <1>4 DEF Asked
<1> HIDE DEF asked
<1> QED
  BY <1>1, <1>4, <1>5, <1>6, Tabled, TablesMove

\* An execution that works asks about a version.
LEMMA Question ==
  ASSUME IInv, NEW x \in Analysts, Working(x)
  PROVE  /\ an[x].event \in Events /\ an[x].article \in Articles
         /\ an[x].version \in 1 .. MAX_VERSION
<1> QED
  BY DEF IInv, Asked, Working

\* The article is not relevant (services.py:365-369).
LEMMA FilterIInv ==
  ASSUME IInv, NEW x \in Analysts, Filter(x)
  PROVE  IInv'
<1> DEFINE e == an[x].event
           a == an[x].article
<1>1. e \in Events /\ a \in Articles
  BY Question DEF Filter
<1>2. cand' = IF cand[e][a] = "pending" THEN Decide(cand, e, {a}, "filtered") ELSE cand
  BY DEF Filter
<1> HIDE DEF e, a
<1>3. cand' \in Candidates /\ Standing(cand, cand')
  BY <1>1, <1>2, Tabled, Decided DEF Statuses, Standing, Final
<1>4. Published(node, cand')
  BY <1>3, Tabled, PublishedStands
<1>5. Done(x) /\ UNCHANGED <<event, node, current, review, sc, commands>>
  BY DEF Filter
<1> QED
  BY <1>3, <1>4, <1>5, Tabled, AnalystMove

\* event_ai confirms a node in a good table, and covers what it publishes.  The node
\* reports on what the draft was made of, or it was there with this key.
Confirms(x, n, nodes) ==
  LET cites == {<<an[x].article, an[x].version>>}
  IN /\ GoodNodes(nodes) /\ nodes[n].event = an[x].event
     /\ Covered(nodes, n) /\ Confirmed(n, nodes)
     /\ \/ nodes[n].reports = cites
        \/ n \in Former(an[x].event, cites) /\ nodes[n].reports = node[n].reports

\* The node that event_ai publishes (services.py:370-389).
LEMMA PublishMove ==
  ASSUME IInv, NEW x \in Analysts, Publish(x)
  PROVE  \E nodes : \E n \in Nodes : Confirms(x, n, nodes)
<1> DEFINE e == an[x].event
           a == an[x].article
           cites == {<<a, an[x].version>>}
<1>1. /\ e \in Events /\ a \in Articles /\ an[x].version \in 1 .. MAX_VERSION
      /\ cand[e][a] = "pending"
  BY Question DEF Publish, StillPending
<1>2. cites \in SUBSET Versions /\ cites # {} /\ Cited(cites) = {a}
  BY <1>1 DEF Versions, Cited
<1>3. \/ \E n \in Former(e, cites) :
           /\ node[n].reports # {}
           /\ Confirmed(n, IF a \in Cited(node[n].reports)
                           THEN [node EXCEPT ![n].by = "event_ai"] ELSE node)
      \/ /\ Former(e, cites) = {} /\ FreeNodes(node) # {}
         /\ Confirmed(NewNode(node), [node EXCEPT ![NewNode(node)] =
              [event |-> e, confirmed |-> FALSE, reports |-> cites, by |-> "event_ai",
               cites |-> cites]])
  BY DEF Publish
<1>0. ASSUME NEW nodes, NEW n \in Nodes,
             GoodNodes(nodes), nodes[n].event = e, Covered(nodes, n), Confirmed(n, nodes),
             \/ nodes[n].reports = cites
             \/ n \in Former(e, cites) /\ nodes[n].reports = node[n].reports
      PROVE  Confirms(x, n, nodes)
  BY <1>0 DEF Confirms
<1> HIDE DEF e, a, cites
<1>4. ASSUME NEW n \in Former(e, cites), a \notin Cited(node[n].reports), Confirmed(n, node)
      PROVE  n \in Nodes /\ Confirms(x, n, node)
  <2>1. n \in Nodes /\ node[n].event = e
    BY DEF Former
  <2>2. Covered(node, n)
    BY <2>1, Tabled, CoveredAll
  <2> QED
    BY <1>0, <1>4, <2>1, <2>2, Tabled
<1>5. ASSUME NEW n \in Former(e, cites), a \in Cited(node[n].reports),
             Confirmed(n, [node EXCEPT ![n].by = "event_ai"])
      PROVE  n \in Nodes /\ \E nodes : Confirms(x, n, nodes)
  <2> DEFINE r == [node[n] EXCEPT !.by = "event_ai"]
             nodes == [node EXCEPT ![n] = r]
  <2>1. /\ n \in Nodes /\ node[n].event = e /\ node[n].by \in {"draft", "event_ai"}
        /\ node[n].cites = cites /\ node[n] \in NodeRow /\ GoodNode(node[n])
    BY <1>5, Tabled DEF Former, GoodNodes
  <2>2. /\ r \in NodeRow /\ r.event = e /\ r.cites = cites /\ r.by = "event_ai"
        /\ r.reports = node[n].reports
    BY <2>1 DEF NodeRow
  <2>3. GoodNode(r)
    BY <1>1, <2>1, <2>2, TimelineAssumption DEF GoodNode, Events
  <2>4. [node EXCEPT ![n].by = "event_ai"] = nodes
    BY <2>1
  <2> HIDE DEF r
  <2>5. \A m \in Nodes \ {n} : Distinct(node[m], r)
    BY <2>1, <2>2, Tabled, SameKey
  <2>6. GoodNodes(nodes)
    BY <2>1, <2>2, <2>3, <2>5, Tabled, PutNode
  <2>7. \A m \in Nodes : nodes[m] = IF m = n THEN r ELSE node[m]
    BY <2>1, Tabled
  <2> HIDE DEF nodes
  <2>8. Covered(nodes, n)
    BY <1>1, <1>2, <1>5, <2>2, <2>7, Tabled DEF Covered, Published
  <2>9. Confirms(x, n, nodes)
    BY <1>0, <1>5, <2>1, <2>2, <2>4, <2>6, <2>7, <2>8
  <2> QED
    BY <2>1, <2>9
<1>6. ASSUME Former(e, cites) = {}, FreeNodes(node) # {},
             Confirmed(NewNode(node), [node EXCEPT ![NewNode(node)] =
                [event |-> e, confirmed |-> FALSE, reports |-> cites, by |-> "event_ai",
                 cites |-> cites]])
      PROVE  \E nodes : \E n \in Nodes : Confirms(x, n, nodes)
  <2>1. PICK n \in Nodes : n = NewNode(node)
    BY <1>6, NewNodeFree
  <2> DEFINE r == [event |-> e, confirmed |-> FALSE, reports |-> cites, by |-> "event_ai",
                   cites |-> cites]
             nodes == [node EXCEPT ![n] = r]
  <2>2. /\ r \in NodeRow /\ r.event = e /\ r.cites = cites /\ r.by = "event_ai"
        /\ r.reports = cites
    BY <1>1, <1>2 DEF NodeRow
  <2>3. GoodNode(r)
    BY <1>1, <1>2, <2>2, TimelineAssumption DEF GoodNode, Events
  <2>4. Confirmed(n, nodes)
    BY <1>6, <2>1
  <2> HIDE DEF r
  <2>5. ASSUME NEW m \in Nodes PROVE Distinct(node[m], r)
    <3>1. node[m] \in NodeRow /\ GoodNode(node[m])
      BY Tabled DEF GoodNodes
    <3>2. node[m].event = e /\ node[m].cites = cites => node[m].by \notin {"draft", "event_ai"}
      BY <1>6 DEF Former
    <3>3. node[m].by \in {"person", "draft", "event_ai", "scan"}
      BY <3>1 DEF NodeRow
    <3> QED
      BY <1>2, <2>2, <3>1, <3>2, <3>3 DEF Distinct, GoodNode
  <2>6. GoodNodes(nodes)
    BY <2>1, <2>2, <2>3, <2>5, Tabled, PutNode
  <2>7. \A m \in Nodes : nodes[m] = IF m = n THEN r ELSE node[m]
    BY <2>1, Tabled
  <2> HIDE DEF nodes
  <2>8. Covered(nodes, n)
    BY <1>1, <1>2, <2>2, <2>7, Tabled DEF Covered, Published
  <2>9. nodes[n].event = e /\ nodes[n].reports = cites
    BY <2>1, <2>2, <2>7
  <2>10. Confirms(x, n, nodes)
    BY <2>4, <2>6, <2>8, <2>9 DEF Confirms, e, a, cites
  <2> QED
    BY <2>1, <2>10
<1> QED
  BY <1>3, <1>4, <1>5, <1>6

\* event_ai publishes.
LEMMA PublishIInv ==
  ASSUME IInv, NEW x \in Analysts, Publish(x)
  PROVE  IInv'
<1>1. PICK nodes : \E n \in Nodes : Confirms(x, n, nodes)
  BY PublishMove
<1>2. PICK n \in Nodes : Confirms(x, n, nodes)
  BY <1>1
<1>3. an[x].event \in Events
  BY Question DEF Publish
<1>4. Done(x) /\ UNCHANGED <<current, review, sc, commands>>
  BY DEF Publish
<1>5. GoodNodes(nodes) /\ nodes[n].event \in Events /\ Covered(nodes, n) /\ Confirmed(n, nodes)
  BY <1>2, <1>3 DEF Confirms
<1> QED
  BY <1>4, <1>5, Tabled, ConfirmedMove, AnalystMove

\* event_ai ends without a word.
LEMMA QuietIInv ==
  ASSUME IInv, NEW x \in Analysts, Overtaken(x) \/ Abandon(x)
  PROVE  IInv'
<1>1. Done(x) /\ UNCHANGED <<event, cand, node, current, review, sc, commands>>
  BY DEF Overtaken, Abandon
<1> QED
  BY <1>1, Tabled, AnalystMove

\* Any step of event_ai.
LEMMA EventAIIInv ==
  ASSUME IInv, EventAI
  PROVE  IInv'
<1> QED
  BY AnalyseIInv, FilterIInv, PublishIInv, QuietIInv DEF EventAI

\* New candidates of an event (events/services.py:52-58).
LEMMA DiscoverIInv ==
  ASSUME IInv, NEW e \in Events, NEW found \in SUBSET Found, Discover(e, found)
  PROVE  IInv'
<1>1. cand' = [cand EXCEPT ![e] = [a \in Articles |->
                 IF a \in found /\ cand[e][a] = "none" THEN "pending" ELSE cand[e][a]]]
  BY DEF Discover
<1>2. cand' \in Candidates /\ Standing(cand, cand')
  BY <1>1, Tabled DEF Candidates, Statuses, Standing, Final
<1>3. Published(node, cand')
  BY <1>2, Tabled, PublishedStands
<1>4. /\ UNCHANGED <<event, node, current, review, an, sc>>
      /\ commands' \in 0 .. MAX_COMMANDS
  BY DEF Discover, IInv, TypeOK
<1> QED
  BY <1>2, <1>3, <1>4, Tabled, CommandMove

\* Time passes for an event (services.py:453-455).
LEMMA AgeIInv ==
  ASSUME IInv, NEW e \in Events, Age(e)
  PROVE  IInv'
<1>1. event' \in [Events -> EventRow]
  BY Tabled DEF Age, EventRow
<1>2. /\ UNCHANGED <<cand, node, current, review, an, sc>>
      /\ commands' \in 0 .. MAX_COMMANDS
  BY DEF Age, IInv, TypeOK
<1> QED
  BY <1>1, <1>2, Tabled, CommandMove

\* An article gets a version (news/services.py:166-170).
LEMMA ReviseIInv ==
  ASSUME IInv, NEW a \in Revised, Revise(a)
  PROVE  IInv'
<1>1. current' \in [Articles -> 1 .. MAX_VERSION]
  BY TimelineAssumption DEF Revise, IInv, TypeOK
<1>2. /\ UNCHANGED <<event, cand, node, review, an, sc>>
      /\ commands' \in 0 .. MAX_COMMANDS /\ an' \in [Analysts -> Analysis]
      /\ sc' \in [Scans -> Scan] /\ Asked'
  BY DEF Revise, IInv, TypeOK, Asked
<1> QED
  BY <1>1, <1>2, Tabled, TablesMove

\* A candidate that nobody decided about expires (storage.py:60).
LEMMA ExpireCandidateIInv ==
  ASSUME IInv, NEW e \in Events, NEW a \in Articles, ExpireCandidate(e, a)
  PROVE  IInv'
<1>1. cand[e][a] = "pending" /\ cand' = [cand EXCEPT ![e][a] = "none"]
  BY DEF ExpireCandidate
<1>2. cand' \in Candidates /\ Standing(cand, cand')
  BY <1>1, Tabled DEF Candidates, Statuses, Standing, Final
<1>3. Published(node, cand')
  BY <1>2, Tabled, PublishedStands
<1>4. /\ an' = [x \in Analysts |-> IF an[x].event = e /\ an[x].article = a
                                   THEN [an[x] EXCEPT !.pc = "astray"] ELSE an[x]]
      /\ UNCHANGED <<event, node, current, review, sc, commands>>
  BY DEF ExpireCandidate
<1>5. an \in [Analysts -> Analysis] /\ Asked
  BY DEF IInv, TypeOK
<1>6. \A x \in Analysts : [an[x] EXCEPT !.pc = "astray"] \in Analysis
  BY <1>5 DEF Analysis
<1>7. an' \in [Analysts -> Analysis]
  BY <1>4, <1>5, <1>6
<1>8. \A x \in Analysts : an'[x].pc = "asking" => an'[x] = an[x]
  BY <1>4, <1>5 DEF Analysis
<1>9. Asked'
  BY <1>5, <1>8 DEF Asked
<1>10. /\ current' \in [Articles -> 1 .. MAX_VERSION] /\ sc' \in [Scans -> Scan]
       /\ commands' \in 0 .. MAX_COMMANDS
  BY <1>4 DEF IInv, TypeOK
<1> QED
  BY <1>2, <1>3, <1>4, <1>7, <1>9, <1>10, Tabled, TablesMove

\* Any step of the background.
LEMMA UpkeepIInv ==
  ASSUME IInv, Upkeep
  PROVE  IInv'
<1> QED
  BY DiscoverIInv, AgeIInv, ReviseIInv, ExpireCandidateIInv DEF Upkeep

-----------------------------------------------------------------------------
(* The loop of apply_major_event_scan() *)

TablesRow == [event : [Events -> EventRow], cand : Candidates, node : [Nodes -> NodeRow],
              used : SUBSET Versions, touched : SUBSET Events]

\* What the loop keeps: the tables are good, `free' nodes are left, and final decisions
\* stand.  Only articles of the request are decided, and each that is used is decided.
Adopted(t, versions, free) ==
  /\ t \in TablesRow
  /\ GoodNodes(t.node) /\ Published(t.node, t.cand) /\ Standing(cand, t.cand)
  /\ Cardinality(FreeNodes(t.node)) >= free
  /\ \A e \in Events, a \in Articles : t.cand[e][a] # cand[e][a] => a \in Cited(versions)
  /\ \A a \in Cited(t.used) : \E e \in Events : t.cand[e][a] \in Final

\* The free rows are finite in number, and one is lost when it is written.
LEMMA FreeRows ==
  ASSUME NEW nodes, GoodNodes(nodes), NEW n \in Nodes, NEW r
  PROVE  /\ Cardinality(FreeNodes(nodes)) \in Nat
         /\ Cardinality(FreeNodes([nodes EXCEPT ![n] = r])) \in Nat
         /\ Cardinality(FreeNodes([nodes EXCEPT ![n] = r])) >= Cardinality(FreeNodes(nodes)) - 1
<1> DEFINE old == FreeNodes(nodes)
           new == FreeNodes([nodes EXCEPT ![n] = r])
<1>1. IsFiniteSet(Nodes)
  BY TimelineAssumption, FS_Interval DEF Nodes
<1>2. old \in SUBSET Nodes /\ new \in SUBSET Nodes
  BY DEF FreeNodes
<1>3. old \ {n} \subseteq new
  BY DEF FreeNodes, GoodNodes
<1> HIDE DEF old, new
<1>4. /\ IsFiniteSet(old) /\ IsFiniteSet(new)
      /\ Cardinality(old) \in Nat /\ Cardinality(new) \in Nat
  BY <1>1, <1>2, FS_Subset, FS_CardinalityType
<1>5. /\ IsFiniteSet(old \ {n})
      /\ Cardinality(old \ {n}) = IF n \in old THEN Cardinality(old) - 1 ELSE Cardinality(old)
  BY <1>4, FS_RemoveElement
<1>6. Cardinality(old \ {n}) <= Cardinality(new)
  BY <1>3, <1>4, FS_Subset
<1> QED
  BY <1>4, <1>5, <1>6 DEF old, new

\* A node of the scan is confirmed or made (services.py:546-559).
LEMMA ScanNodeMove ==
  ASSUME NEW t, GoodNodes(t.node), FreeNodes(t.node) # {}, NEW cands, NEW new,
         Published(t.node, cands), Standing(cands, new),
         NEW e \in Events, NEW cites \in SUBSET Versions, cites # {}
  PROVE  LET nodes == ScanNode(t, e, cites)
         IN /\ GoodNodes(nodes) /\ Published(nodes, new)
            /\ Cardinality(FreeNodes(nodes)) \in Nat
            /\ Cardinality(FreeNodes(nodes)) >= Cardinality(FreeNodes(t.node)) - 1
<1> DEFINE former == {n \in Nodes : /\ t.node[n].event = e /\ t.node[n].by = "scan"
                                    /\ t.node[n].cites = cites}
<1>1. ScanNode(t, e, cites) =
        IF former # {} THEN [t.node EXCEPT ![CHOOSE n \in former : TRUE].confirmed = TRUE]
        ELSE [t.node EXCEPT ![NewNode(t.node)] =
                [event |-> e, confirmed |-> TRUE, reports |-> cites, by |-> "scan",
                 cites |-> cites]]
  BY DEF ScanNode
<1>2. ASSUME NEW n \in Nodes, NEW r \in NodeRow, GoodNode(r), r.by = "scan",
             \A m \in Nodes \ {n} : Distinct(t.node[m], r),
             ScanNode(t, e, cites) = [t.node EXCEPT ![n] = r]
      PROVE  LET nodes == ScanNode(t, e, cites)
             IN /\ GoodNodes(nodes) /\ Published(nodes, new)
                /\ Cardinality(FreeNodes(nodes)) \in Nat
                /\ Cardinality(FreeNodes(nodes)) >= Cardinality(FreeNodes(t.node)) - 1
  BY <1>2, PutNode, StillPublished, FreeRows
<1>3. CASE former # {}
  <2>1. PICK n \in former : n = CHOOSE m \in former : TRUE
    BY <1>3
  <2> DEFINE r == [t.node[n] EXCEPT !.confirmed = TRUE]
  <2>2. n \in Nodes /\ t.node[n].by = "scan" /\ t.node[n] \in NodeRow /\ GoodNode(t.node[n])
    BY DEF GoodNodes
  <2>3. /\ r \in NodeRow /\ r.by = "scan" /\ r.event = t.node[n].event
        /\ r.cites = t.node[n].cites /\ r.reports = t.node[n].reports
    BY <2>2 DEF NodeRow
  <2>4. GoodNode(r)
    BY <2>2, <2>3 DEF GoodNode, Unused
  <2>5. ScanNode(t, e, cites) = [t.node EXCEPT ![n] = r]
    BY <1>1, <1>3, <2>1
  <2> HIDE DEF r
  <2>6. \A m \in Nodes \ {n} : Distinct(t.node[m], r)
    BY <2>2, <2>3, SameKey
  <2> QED
    BY <1>2, <2>2, <2>3, <2>4, <2>5, <2>6
<1>4. CASE former = {}
  <2>1. PICK n \in Nodes : n = NewNode(t.node)
    BY NewNodeFree
  <2> DEFINE r == [event |-> e, confirmed |-> TRUE, reports |-> cites, by |-> "scan",
                   cites |-> cites]
  <2>2. /\ r \in NodeRow /\ r.by = "scan" /\ r.event = e /\ r.cites = cites
        /\ r.reports = cites
    BY DEF NodeRow
  <2>3. GoodNode(r)
    BY <2>2, TimelineAssumption DEF GoodNode, Events
  <2>4. ScanNode(t, e, cites) = [t.node EXCEPT ![n] = r]
    BY <1>1, <1>4, <2>1
  <2> HIDE DEF r
  <2>5. \A m \in Nodes : Distinct(t.node[m], r)
    BY <1>4, <2>2 DEF Distinct
  <2> QED
    BY <1>2, <2>2, <2>3, <2>4, <2>5
<1> QED
  BY <1>3, <1>4

\* One proposal (services.py:506-569).
LEMMA ProposedMove ==
  ASSUME cand \in Candidates, NEW t, NEW versions \in SUBSET Versions, NEW k \in Nat \ {0},
         Adopted(t, versions, k), NEW p, p.match \in Events
  PROVE  Adopted(Proposed(t, p, versions), versions, k - 1)
<1> DEFINE e == p.match
           cites == (p.cites \cap versions) \ t.used
           u == Adopt(t, e, cites)
<1>1. /\ t \in TablesRow /\ GoodNodes(t.node) /\ Published(t.node, t.cand)
      /\ Standing(cand, t.cand) /\ Cardinality(FreeNodes(t.node)) >= k
      /\ \A f \in Events, a \in Articles : t.cand[f][a] # cand[f][a] => a \in Cited(versions)
      /\ \A a \in Cited(t.used) : \E f \in Events : t.cand[f][a] \in Final
  BY DEF Adopted
<1>2. Cardinality(FreeNodes(t.node)) \in Nat /\ FreeNodes(t.node) # {}
  <2>1. 1 \in Nodes
    BY TimelineAssumption DEF Nodes
  <2>2. Cardinality(FreeNodes(t.node)) \in Nat
    BY <1>1, <2>1, FreeRows
  <2> QED
    BY <1>1, <2>2, FS_EmptySet
<1>3. CASE Proposed(t, p, versions) = t
  BY <1>1, <1>2, <1>3 DEF Adopted
<1>4. CASE cites # {} /\ Proposed(t, p, versions) = u
  <2>1. /\ cites \in SUBSET Versions /\ cites \subseteq versions /\ t.used \in SUBSET Versions
        /\ t.cand \in Candidates /\ t.event \in [Events -> EventRow]
    BY <1>1 DEF TablesRow
  <2>2. /\ u.cand = [t.cand EXCEPT ![e] = [a \in Articles |->
                        IF a \in Cited(cites) THEN "accepted" ELSE @[a]]]
        /\ u.node = ScanNode(t, e, cites) /\ u.used = t.used \cup cites
        /\ u.touched = t.touched \cup {e}
        /\ u.event = [t.event EXCEPT ![e] = IF @.status = "none"
                        THEN [NoRow EXCEPT !.status = "tracking", !.auto = TRUE] ELSE @]
        /\ u = [t EXCEPT !.event = u.event, !.cand = u.cand, !.node = u.node, !.used = u.used,
                         !.touched = u.touched]
    BY <1>1 DEF Adopt, TablesRow
  <2>3. [NoRow EXCEPT !.status = "tracking", !.auto = TRUE] \in EventRow
    BY DEF NoRow, EventRow
  <2>4. u.event \in [Events -> EventRow]
    BY <2>1, <2>2, <2>3
  <2> HIDE DEF u, cites
  <2>5. /\ u.cand \in Candidates
        /\ \A f \in Events, a \in Articles :
             u.cand[f][a] = IF f = e /\ a \in Cited(cites) THEN "accepted" ELSE t.cand[f][a]
    <3> DEFINE row == [a \in Articles |->
                         IF a \in Cited(cites) THEN "accepted" ELSE t.cand[e][a]]
    <3>1. row \in [Articles -> Statuses]
      BY <2>1 DEF Candidates, Statuses
    <3>2. u.cand = [t.cand EXCEPT ![e] = row]
      BY <2>2
    <3>3. \A a \in Articles : row[a] = IF a \in Cited(cites) THEN "accepted" ELSE t.cand[e][a]
      OBVIOUS
    <3> HIDE DEF row
    <3> QED
      BY <2>1, <3>1, <3>2, <3>3 DEF Candidates
  <2>6. Standing(t.cand, u.cand) /\ Standing(cand, u.cand)
    BY <1>1, <2>5 DEF Standing, Final
  <2>7. /\ GoodNodes(u.node) /\ Published(u.node, u.cand)
        /\ Cardinality(FreeNodes(u.node)) \in Nat
        /\ Cardinality(FreeNodes(u.node)) >= Cardinality(FreeNodes(t.node)) - 1
    <3> DEFINE nodes == ScanNode(t, e, cites)
    <3>1. cites # {}
      BY <1>4 DEF cites
    <3>2. /\ GoodNodes(nodes) /\ Published(nodes, u.cand)
          /\ Cardinality(FreeNodes(nodes)) \in Nat
          /\ Cardinality(FreeNodes(nodes)) >= Cardinality(FreeNodes(t.node)) - 1
      BY <1>1, <1>2, <2>1, <2>6, <3>1, ScanNodeMove
    <3> QED
      BY <2>2, <3>2
  <2>8. \A f \in Events, a \in Articles : u.cand[f][a] # cand[f][a] => a \in Cited(versions)
    BY <1>1, <2>1, <2>5 DEF Cited
  <2>9. ASSUME NEW a \in Cited(u.used) PROVE \E f \in Events : u.cand[f][a] \in Final
    <3>1. (a \in Cited(t.used) \/ a \in Cited(cites)) /\ a \in Articles
      BY <2>1, <2>2, <2>9, CitedArticles DEF Cited
    <3>2. CASE a \in Cited(t.used)
      BY <1>1, <2>6, <3>1, <3>2 DEF Standing
    <3>3. CASE a \in Cited(cites)
      BY <2>5, <3>1, <3>3 DEF Final
    <3> QED
      BY <3>1, <3>2, <3>3
  <2>10. u \in TablesRow
    BY <1>1, <2>1, <2>2, <2>4, <2>5, <2>7 DEF TablesRow, GoodNodes
  <2>11. Cardinality(FreeNodes(u.node)) >= k - 1
    BY <1>1, <1>2, <2>7
  <2> QED
    BY <1>4, <2>6, <2>7, <2>8, <2>9, <2>10, <2>11 DEF Adopted
<1>5. Proposed(t, p, versions) =
        IF /\ cites # {}
           /\ \/ e \in Active(t)
              \/ t.event[e].status = "none" /\ Founded(cites)
        THEN u ELSE t
  BY DEF Proposed
<1> HIDE DEF u, cites, e
<1> QED
  BY <1>3, <1>4, <1>5

\* The tables after each of the proposals.
Steps(after, proposals, versions, n) ==
  after = [i \in 0 .. n |-> IF i = 0 THEN Tables
                            ELSE Proposed(after[i - 1], proposals[i], versions)]

\* The loop is defined, however many proposals there are.
LEMMA StepsExist ==
  ASSUME NEW proposals, NEW versions, NEW n \in Nat
  PROVE  \E after : Steps(after, proposals, versions, n)
<1> DEFINE Missing == {k \in Nat : ~ \E after : Steps(after, proposals, versions, k)}
<1>1. SUFFICES ASSUME Missing # {} PROVE FALSE
  OBVIOUS
<1>2. PICK m \in Missing : \A k \in Missing : m <= k
  BY <1>1, LeastElement
<1>3. ~ \E after : Steps(after, proposals, versions, m)
  OBVIOUS
<1>4. CASE m = 0
  <2> DEFINE first == [i \in 0 .. 0 |-> Tables]
  <2>1. Steps(first, proposals, versions, 0)
    BY DEF Steps
  <2> QED
    BY <1>3, <1>4, <2>1
<1>5. CASE m # 0
  <2>1. m - 1 \in Nat /\ m - 1 \notin Missing
    BY <1>2, <1>5
  <2>2. PICK after : Steps(after, proposals, versions, m - 1)
    BY <2>1
  <2> DEFINE P(i) == Proposed(after[i - 1], proposals[i], versions)
             next == [i \in 0 .. m |-> IF i = m THEN P(m) ELSE after[i]]
  <2>3. \A i \in 0 .. m - 1 : after[i] = IF i = 0 THEN Tables ELSE P(i)
    BY <2>2 DEF Steps
  <2>4. \A i \in 0 .. m : next[i] = IF i = m THEN P(m) ELSE after[i]
    OBVIOUS
  <2>5. \A i \in 0 .. m : i # 0 => next[i - 1] = after[i - 1]
    BY <2>4
  <2>6. \A i \in 0 .. m : next[i] = IF i = 0 THEN Tables ELSE P(i)
    BY <1>5, <2>3, <2>4
  <2>7. \A i \in 0 .. m :
          next[i] = IF i = 0 THEN Tables ELSE Proposed(next[i - 1], proposals[i], versions)
    BY <2>5, <2>6
  <2>8. Steps(next, proposals, versions, m)
    BY <2>7 DEF Steps
  <2> QED
    BY <1>3, <2>8
<1> QED
  BY <1>4, <1>5

\* The loop keeps the tables good.
LEMMA ThroughMove ==
  ASSUME IInv, NEW versions \in SUBSET Versions, NEW n \in Nat,
         NEW proposals \in [1 .. n -> [match : Events, cites : SUBSET versions \ {{}}]],
         Cardinality(FreeNodes(node)) >= n
  PROVE  Adopted(Through(proposals, versions), versions, 0)
<1>1. Len(proposals) = n
  OBVIOUS
<1> DEFINE after == CHOOSE after : Steps(after, proposals, versions, n)
<1>2. Through(proposals, versions) = after[n]
  BY <1>1 DEF Through, Steps
<1>3. Steps(after, proposals, versions, n)
  BY StepsExist
<1> HIDE DEF after
<1>4. \A i \in 0 .. n :
        after[i] = IF i = 0 THEN Tables ELSE Proposed(after[i - 1], proposals[i], versions)
  BY <1>3 DEF Steps
<1>5. Adopted(Tables, versions, n)
  BY Tabled, CitedArticles DEF Adopted, Tables, TablesRow, Cited
<1> DEFINE Bad == {i \in 0 .. n : ~ Adopted(after[i], versions, n - i)}
<1>6. Bad = {}
  <2>1. SUFFICES ASSUME Bad # {} PROVE FALSE
    OBVIOUS
  <2>2. PICK m \in Bad : \A i \in Bad : m <= i
    <3>1. Bad \in SUBSET Nat
      OBVIOUS
    <3> HIDE DEF Bad
    <3> QED
      BY <2>1, <3>1, LeastElement
  <2>3. m \in 0 .. n /\ ~ Adopted(after[m], versions, n - m)
    OBVIOUS
  <2>4. m # 0
    BY <1>4, <1>5, <2>3
  <2>5. m - 1 \in 0 .. n /\ n - (m - 1) \in Nat \ {0} /\ n - (m - 1) - 1 = n - m
    BY <2>3, <2>4
  <2>6. Adopted(after[m - 1], versions, n - (m - 1))
    BY <2>2, <2>5
  <2>7. proposals[m].match \in Events
    BY <2>3, <2>4
  <2>8. Adopted(Proposed(after[m - 1], proposals[m], versions), versions, n - m)
    BY <2>5, <2>6, <2>7, Tabled, ProposedMove
  <2> QED
    BY <1>4, <2>3, <2>4, <2>8
<1>7. Adopted(after[n], versions, n - n)
  BY <1>6
<1> QED
  BY <1>2, <1>7

\* The articles of a request are cited by the versions that it held.
LEMMA ApplyMove ==
  ASSUME IInv, NEW s \in Scans, NEW n \in Nat,
         NEW proposals \in [1 .. n -> [match : Events, cites : SUBSET sc[s].versions \ {{}}]],
         NEW retirements, Apply(s, proposals, retirements)
  PROVE  LET t == Through(proposals, sc[s].versions)
         IN /\ Adopted(t, sc[s].versions, 0)
            /\ node' = t.node /\ cand' = t.cand /\ sc' = [sc EXCEPT ![s] = NoScan]
            /\ sc[s].pc = "asking" /\ sc \in [Scans -> Scan]
            /\ UNCHANGED <<current, an, commands>>
<1>1. sc \in [Scans -> Scan] /\ sc[s].versions \in SUBSET Versions
  BY DEF IInv, TypeOK, Scan
<1>2. Len(proposals) = n
  OBVIOUS
<1>3. Cardinality(FreeNodes(node)) >= n
  BY <1>2 DEF Apply
<1>4. Adopted(Through(proposals, sc[s].versions), sc[s].versions, 0)
  BY <1>1, <1>3, ThroughMove
<1> QED
  BY <1>1, <1>4 DEF Apply

\* A scan applies its answer (services.py:495-601).
LEMMA ApplyIInv ==
  ASSUME IInv, NEW s \in Scans, NEW n \in Nat,
         NEW proposals \in [1 .. n -> [match : Events, cites : SUBSET sc[s].versions \ {{}}]],
         NEW retirements, Apply(s, proposals, retirements)
  PROVE  IInv'
<1> DEFINE t == Through(proposals, sc[s].versions)
           retired == {e \in Retired(s, proposals, retirements) :
                         t.event[e].auto /\ t.event[e].status = "tracking"}
<1>1. /\ Adopted(t, sc[s].versions, 0) /\ node' = t.node /\ cand' = t.cand
      /\ sc' = [sc EXCEPT ![s] = NoScan] /\ sc \in [Scans -> Scan]
      /\ UNCHANGED <<current, an, commands>>
  BY ApplyMove
<1>2. /\ event' = [e \in Events |->
            [t.event[e] EXCEPT !.status = IF e \in retired THEN "closed" ELSE @,
                               !.stale = @ /\ e \notin t.touched]]
      /\ review' = [a \in Articles |->
            IF review[a] = "none" /\ a \in Cited(sc[s].versions)
            THEN IF a \in Cited(t.used) THEN "selected" ELSE "excluded"
            ELSE review[a]]
  BY DEF Apply, Selected
<1> HIDE DEF t, retired
<1>3. /\ t.event \in [Events -> EventRow] /\ t.cand \in Candidates
      /\ GoodNodes(t.node) /\ Published(t.node, t.cand) /\ Standing(cand, t.cand)
      /\ \A a \in Cited(t.used) : \E e \in Events : t.cand[e][a] \in Final
  BY <1>1 DEF Adopted, TablesRow
<1>4. event' \in [Events -> EventRow]
  <2>1. ASSUME NEW e \in Events
        PROVE  [t.event[e] EXCEPT !.status = IF e \in retired THEN "closed" ELSE @,
                                  !.stale = @ /\ e \notin t.touched] \in EventRow
    <3>1. ASSUME NEW row \in EventRow, NEW status \in {"none", "tracking", "closed"},
                 NEW stale \in BOOLEAN
          PROVE  [row EXCEPT !.status = status, !.stale = stale] \in EventRow
      BY DEF EventRow
    <3> DEFINE row == t.event[e]
               status == IF e \in retired THEN "closed" ELSE row.status
               stale == row.stale /\ e \notin t.touched
    <3>2. row \in EventRow
      BY <1>3
    <3>3. status \in {"none", "tracking", "closed"} /\ stale \in BOOLEAN
      BY <3>2 DEF EventRow
    <3> HIDE DEF status, stale
    <3>4. [row EXCEPT !.status = status, !.stale = stale] \in EventRow
      BY <3>1, <3>2, <3>3
    <3> QED
      BY <3>4 DEF status, stale
  <2> QED
    BY <1>2, <2>1
<1>5. review \in [Articles -> {"none", "selected", "excluded"}] /\ SelectedInEvent
  BY DEF IInv, TypeOK
<1>6. review' \in [Articles -> {"none", "selected", "excluded"}]
  BY <1>2, <1>5
<1>7. ASSUME NEW a \in Articles, review'[a] = "selected"
      PROVE  \E e \in Events : cand'[e][a] \in Final
  <2>1. review[a] = "selected" \/ a \in Cited(t.used)
    BY <1>2, <1>5, <1>7
  <2>2. CASE review[a] = "selected"
    BY <1>1, <1>3, <1>5, <2>2 DEF SelectedInEvent, Standing, Final
  <2>3. CASE a \in Cited(t.used)
    BY <1>1, <1>3, <2>3
  <2> QED
    BY <2>1, <2>2, <2>3
<1>8. SelectedInEvent'
  BY <1>7 DEF SelectedInEvent, Final
<1>9. sc' \in [Scans -> Scan]
  BY <1>1 DEF NoScan, Scan
<1>10. /\ current' \in [Articles -> 1 .. MAX_VERSION] /\ an' \in [Analysts -> Analysis]
       /\ commands' \in 0 .. MAX_COMMANDS /\ Asked'
  BY <1>1 DEF IInv, TypeOK, Asked
<1>11. /\ node' \in [Nodes -> NodeRow]
       /\ \A m, p \in Nodes :
            (m # p /\ node'[m].event = node'[p].event /\ node'[m].cites = node'[p].cites)
              => node'[m].cites = {} \/ (node'[m].by = "scan" <=> node'[p].by # "scan")
  BY <1>1, <1>3 DEF GoodNodes, Distinct
<1>12. TypeOK'
  BY <1>1, <1>3, <1>4, <1>6, <1>9, <1>10, <1>11 DEF TypeOK, Candidates
<1> QED
  BY <1>1, <1>3, <1>8, <1>10, <1>12 DEF IInv

\* What keeps the invariant when only a scan moves.
LEMMA ScanMove ==
  ASSUME IInv, sc' \in [Scans -> Scan],
         UNCHANGED <<event, cand, node, current, review, an, commands>>
  PROVE  IInv'
<1>1. /\ current' \in [Articles -> 1 .. MAX_VERSION] /\ an' \in [Analysts -> Analysis]
      /\ commands' \in 0 .. MAX_COMMANDS /\ Asked'
  BY DEF IInv, TypeOK, Asked
<1> QED
  BY <1>1, Tabled, TablesMove

\* A scan reads the articles and the events, and asks (services.py:439-487).
LEMMA AskIInv ==
  ASSUME IInv, NEW s \in Scans, NEW articles \in SUBSET Articles,
         NEW retirable \in SUBSET Events, Ask(s, articles, retirable)
  PROVE  IInv'
<1> DEFINE versions == {CurrentOf(a) : a \in articles}
           asked == [pc |-> "asking", versions |-> versions, retirable |-> retirable]
<1>1. sc \in [Scans -> Scan] /\ current \in [Articles -> 1 .. MAX_VERSION]
  BY DEF IInv, TypeOK
<1>2. versions \subseteq Versions
  BY <1>1 DEF CurrentOf, Versions
<1> HIDE DEF versions
<1>3. asked \in Scan
  BY <1>2 DEF Scan
<1>4. /\ sc' = [sc EXCEPT ![s] = asked]
      /\ UNCHANGED <<event, cand, node, current, review, an, commands>>
  BY DEF Ask, versions
<1> HIDE DEF asked
<1> QED
  BY <1>1, <1>3, <1>4, ScanMove

\* Any step of a scan.
LEMMA MajorEventsIInv ==
  ASSUME IInv, MajorEvents
  PROVE  IInv'
<1>1. \A force \in BOOLEAN : Retirable(force) \in SUBSET Events
  BY DEF Retirable
<1>2. ASSUME NEW s \in Scans, ScanNews(s) PROVE IInv'
  <2> DEFINE articles == {a \in Articles : review[a] = "none"}
  <2>1. PICK retirable \in {{}, Retirable(FALSE)} : Ask(s, articles, retirable)
    BY <1>2 DEF ScanNews
  <2> QED
    BY <1>1, <2>1, AskIInv
<1>3. ASSUME NEW s \in Scans, NEW force \in BOOLEAN, Audit(s, force) PROVE IInv'
  BY <1>1, <1>3, AskIInv DEF Audit
<1>4. ASSUME NEW s \in Scans, NEW n \in 0 .. MAX_PROPOSALS,
             NEW proposals \in [1 .. n -> [match : Events, cites : SUBSET sc[s].versions \ {{}}]],
             NEW retirements \in SUBSET sc[s].retirable, Apply(s, proposals, retirements)
      PROVE  IInv'
  <2>1. n \in Nat
    BY TimelineAssumption
  <2> QED
    BY <1>4, <2>1, ApplyIInv
<1>5. ASSUME NEW s \in Scans, Fail(s) PROVE IInv'
  <2>1. sc' \in [Scans -> Scan]
    BY <1>5 DEF Fail, IInv, TypeOK, NoScan, Scan
  <2> QED
    BY <1>5, <2>1, ScanMove DEF Fail
<1> QED
  BY <1>2, <1>3, <1>4, <1>5 DEF MajorEvents

-----------------------------------------------------------------------------
(* The invariant *)

\* At the start nothing is confirmed, and a draft is all there may be.
LEMMA Start ==
  ASSUME Init
  PROVE  IInv
<1>1. 1 \in Events /\ 1 \in Nodes /\ 1 \in 1 .. MAX_VERSION /\ NoEvent \notin Events
      /\ Found \subseteq Articles
  BY TimelineAssumption DEF Events, Nodes
<1>2. PICK drafted \in SUBSET Found :
        /\ cand = [e \in Events |->
                     [a \in Articles |-> IF e = 1 /\ a \in drafted THEN "pending" ELSE "none"]]
        /\ node = [n \in Nodes |->
                     IF n = 1 /\ drafted # {}
                     THEN LET versions == drafted \X {1}
                          IN [event |-> 1, confirmed |-> FALSE, reports |-> versions,
                              by |-> "draft", cites |-> versions]
                     ELSE Unused]
  BY DEF Init
<1> DEFINE draft == [event |-> 1, confirmed |-> FALSE, reports |-> drafted \X {1},
                     by |-> "draft", cites |-> drafted \X {1}]
<1>3. cand \in Candidates
  BY <1>2 DEF Candidates, Statuses
<1>4. Unused \in NodeRow /\ GoodNode(Unused) /\ Unused.cites = {} /\ Unused.by = "person"
  BY DEF Unused, NodeRow, GoodNode
<1>5. drafted # {} => draft \in NodeRow /\ GoodNode(draft)
  <2>1. drafted \X {1} \subseteq Versions
    BY <1>1 DEF Versions
  <2>2. ASSUME drafted # {} PROVE drafted \X {1} # {}
    <3>1. PICK a \in drafted : <<a, 1>> \in drafted \X {1}
      BY <2>2
    <3> QED
      BY <3>1
  <2>3. draft \in NodeRow
    BY <1>1, <2>1 DEF NodeRow
  <2> QED
    BY <1>1, <2>2, <2>3 DEF GoodNode
<1>6. \A n \in Nodes : node[n] = IF n = 1 /\ drafted # {} THEN draft ELSE Unused
  BY <1>2
<1>7. draft.by = "draft"
  OBVIOUS
<1> HIDE DEF draft
<1>8. node \in [Nodes -> NodeRow] /\ \A n \in Nodes : GoodNode(node[n])
  BY <1>2, <1>4, <1>5, <1>6
<1>9. \A m, n \in Nodes : m # n => Distinct(node[m], node[n])
  BY <1>4, <1>6 DEF Distinct
<1>10. Published(node, cand)
  BY <1>4, <1>6, <1>7 DEF Published
<1>11. event \in [Events -> EventRow]
  <2>1. PICK auto \in BOOLEAN :
          event = [e \in Events |->
                     IF e = 1 THEN [NoRow EXCEPT !.status = "tracking", !.auto = auto]
                     ELSE NoRow]
    BY DEF Init
  <2>2. NoRow \in EventRow /\ [NoRow EXCEPT !.status = "tracking", !.auto = auto] \in EventRow
    BY DEF NoRow, EventRow
  <2> QED
    BY <2>1, <2>2
<1>12. Idle \in Analysis /\ Idle.pc = "idle" /\ NoScan \in Scan
  BY TimelineAssumption DEF Idle, Analysis, NoScan, Scan
<1>13. /\ current \in [Articles -> 1 .. MAX_VERSION]
       /\ review \in [Articles -> {"none", "selected", "excluded"}]
       /\ an \in [Analysts -> Analysis] /\ Asked /\ sc \in [Scans -> Scan]
       /\ commands \in 0 .. MAX_COMMANDS /\ SelectedInEvent
  BY <1>1, <1>12, TimelineAssumption DEF Init, Asked, SelectedInEvent
<1>14. GoodNodes(node)
  BY <1>8, <1>9 DEF GoodNodes
<1>15. TypeOK
  BY <1>3, <1>8, <1>9, <1>11, <1>13 DEF TypeOK, Candidates, Distinct
<1> QED
  BY <1>10, <1>13, <1>14, <1>15 DEF IInv

\* Every step keeps the invariant.
LEMMA NextIInv ==
  ASSUME IInv, [Next]_vars
  PROVE  IInv'
<1>1. CASE UNCHANGED vars
  <2>1. UNCHANGED <<event, cand, node, current, review, an, sc, commands>>
    BY <1>1 DEF vars
  <2>2. sc' \in [Scans -> Scan]
    BY <2>1 DEF IInv, TypeOK
  <2> QED
    BY <2>1, <2>2, ScanMove
<1> QED
  BY <1>1, PersonIInv, EventAIIInv, MajorEventsIInv, UpkeepIInv DEF Next

\* The invariant holds in every state.
THEOREM Invariance == Spec => []IInv
<1>1. Init => IInv
  BY Start
<1>2. IInv /\ [Next]_vars => IInv'
  BY NextIInv
<1> QED
  BY <1>1, <1>2, PTL DEF Spec

-----------------------------------------------------------------------------
(* The theorems *)

\* The tables are typed, and the key of a node that cites something is unique.
THEOREM TypeCorrect == Spec => []TypeOK
<1>1. IInv => TypeOK
  BY DEF IInv
<1> QED
  BY <1>1, Invariance, PTL

\* A confirmed node cites report versions, whatever people split, merge and remove and
\* whatever event_ai and the scans publish meanwhile (events/services.py:69, 150).
THEOREM EvidenceStays == Spec => []EvidenceKept
<1>1. ASSUME IInv PROVE EvidenceKept
  <2>1. \A n \in Nodes : GoodNode(node[n])
    BY <1>1 DEF IInv, GoodNodes
  <2> QED
    BY <2>1 DEF EvidenceKept, GoodNode, Unused
<1>2. IInv => EvidenceKept
  BY <1>1
<1> QED
  BY <1>2, Invariance, PTL

\* An article that a scan put on record as selected is decided in some event for good
\* (ai/services.py:560-568, 587-597).
THEOREM SelectionsStand == Spec => []SelectedInEvent
<1>1. IInv => SelectedInEvent
  BY DEF IInv
<1> QED
  BY <1>1, Invariance, PTL

\* An execution of event_ai that publishes finds its candidate pending, so nothing of
\* event_ai about the article is published in the event.
LEMMA PublishFirst ==
  ASSUME IInv, NEW x \in Analysts, Publish(x), NEW n \in Nodes,
         node[n].event = an[x].event, an[x].article \in Cited(node[n].cites)
  PROVE  node[n].by # "event_ai"
<1>1. cand[an[x].event][an[x].article] = "pending"
  BY DEF Publish, StillPending
<1>2. Published(node, cand)
  BY DEF IInv
<1> QED
  BY <1>1, <1>2 DEF Published, Final

\* A step of event_ai changes a decision only through a draft that it confirms.
LEMMA PublishDecision ==
  ASSUME IInv, NEW x \in Analysts, Publish(x), NEW e \in Events, NEW a \in Articles,
         cand[e][a] \notin {"none", "pending"}, cand'[e][a] # cand[e][a]
  PROVE  \E n \in Nodes : /\ node'[n].confirmed /\ node[n].event = e
                          /\ node[n].by = "draft" /\ a \in Cited(node[n].reports)
<1> DEFINE cites == {<<an[x].article, an[x].version>>}
<1>1. PICK nodes : \E n \in Nodes : Confirms(x, n, nodes)
  BY PublishMove
<1>2. PICK n \in Nodes : Confirms(x, n, nodes)
  BY <1>1
<1>3. an[x].event \in Events
  BY Question DEF Publish
<1>4. /\ GoodNodes(nodes) /\ nodes[n].event = an[x].event /\ Covered(nodes, n)
      /\ Confirmed(n, nodes)
      /\ \/ nodes[n].reports = cites
         \/ n \in Former(an[x].event, cites) /\ nodes[n].reports = node[n].reports
  BY <1>2 DEF Confirms
<1>5. /\ node'[n].confirmed /\ e = an[x].event /\ a \in Cited(nodes[n].reports)
  BY <1>3, <1>4, Tabled, ConfirmedMove
<1>6. Cited(cites) = {an[x].article}
  BY DEF Cited
<1>7. cand[an[x].event][an[x].article] = "pending"
  BY DEF Publish, StillPending
<1>8. nodes[n].reports # cites
  BY <1>5, <1>6, <1>7
<1> HIDE DEF cites
<1>9. /\ n \in Former(e, cites) /\ node[n].event = e /\ node[n].cites = cites
      /\ node[n].by \in {"draft", "event_ai"} /\ a \in Cited(node[n].reports)
  BY <1>4, <1>5, <1>8 DEF Former
<1>10. node[n].by # "event_ai"
  BY <1>5, <1>6, <1>9, PublishFirst
<1> QED
  BY <1>5, <1>9, <1>10

\* What a step does to a decision about a candidate.
LEMMA DecisionStep ==
  ASSUME IInv, [Next]_vars, NEW e \in Events, NEW a \in Articles,
         cand[e][a] \notin {"none", "pending"}, cand'[e][a] # cand[e][a]
  PROVE  \/ commands' # commands
         \/ \E s \in Scans : sc'[s] # sc[s] /\ a \in Cited(sc[s].versions)
         \/ \E x \in Analysts, n \in Nodes :
              /\ an'[x] # an[x] /\ node'[n].confirmed
              /\ node[n].event = e /\ node[n].by = "draft"
              /\ a \in Cited(node[n].reports)
<1>1. CASE UNCHANGED vars
  BY <1>1 DEF vars
<1>2. CASE Person
  BY <1>2, TimelineAssumption DEF Person, IInv, TypeOK
<1>3. CASE EventAI
  <2>1. ASSUME NEW x \in Analysts, Filter(x) PROVE FALSE
    <3>1. an[x].event \in Events /\ an[x].article \in Articles
      BY <2>1, Question DEF Filter
    <3>2. cand' = IF cand[an[x].event][an[x].article] = "pending"
                  THEN Decide(cand, an[x].event, {an[x].article}, "filtered") ELSE cand
      BY <2>1 DEF Filter
    <3> QED
      BY <3>1, <3>2, Tabled, Decided DEF Statuses
  <2>2. ASSUME NEW x \in Analysts, Publish(x)
        PROVE  \E n \in Nodes : /\ an'[x] # an[x] /\ node'[n].confirmed
                                /\ node[n].event = e /\ node[n].by = "draft"
                                /\ a \in Cited(node[n].reports)
    <3>1. an[x].pc = "asking" /\ an' = [an EXCEPT ![x] = Idle] /\ an \in [Analysts -> Analysis]
      BY <2>2 DEF Publish, Working, Done, IInv, TypeOK
    <3>2. an'[x] # an[x]
      BY <3>1 DEF Idle
    <3> QED
      BY <2>2, <3>2, PublishDecision
  <2> QED
    BY <1>3, <2>1, <2>2 DEF EventAI, Analyse, Overtaken, Abandon
<1>4. CASE MajorEvents
  <2>1. ASSUME NEW s \in Scans, NEW n \in 0 .. MAX_PROPOSALS,
               NEW proposals \in [1 .. n -> [match : Events, cites : SUBSET sc[s].versions \ {{}}]],
               NEW retirements \in SUBSET sc[s].retirable, Apply(s, proposals, retirements)
        PROVE  sc'[s] # sc[s] /\ a \in Cited(sc[s].versions)
    <3> DEFINE t == Through(proposals, sc[s].versions)
    <3>1. n \in Nat
      BY TimelineAssumption
    <3>2. /\ Adopted(t, sc[s].versions, 0) /\ cand' = t.cand
          /\ sc' = [sc EXCEPT ![s] = NoScan] /\ sc[s].pc = "asking" /\ sc \in [Scans -> Scan]
      BY <2>1, <3>1, ApplyMove
    <3>3. a \in Cited(sc[s].versions)
      BY <3>2 DEF Adopted
    <3>4. sc'[s] # sc[s]
      BY <3>2 DEF NoScan
    <3> QED
      BY <3>3, <3>4
  <2> QED
    BY <1>4, <2>1 DEF MajorEvents, ScanNews, Audit, Ask, Fail
<1>5. CASE Upkeep
  <2>1. ASSUME NEW f \in Events, NEW found \in SUBSET Found, Discover(f, found) PROVE FALSE
    BY <2>1, Tabled DEF Discover, Candidates
  <2>2. ASSUME NEW f \in Events, NEW b \in Articles, ExpireCandidate(f, b) PROVE FALSE
    BY <2>2, Tabled DEF ExpireCandidate, Candidates
  <2> QED
    BY <1>5, <2>1, <2>2 DEF Upkeep, Age, Revise
<1> QED
  BY <1>1, <1>2, <1>3, <1>4, <1>5 DEF Next

\* A decision about a candidate is changed by a person, by a scan that was shown the
\* article, or by a draft that event_ai confirms, and by nothing else
\* (ai/services.py:366, 372-374; events/services.py:52-55).
THEOREM DecisionsStand == Spec => DecisionKept
<1> DEFINE Kept == \A e \in Events, a \in Articles :
       cand[e][a] \notin {"none", "pending"} /\ cand'[e][a] # cand[e][a]
         => \/ commands' # commands
            \/ \E s \in Scans : sc'[s] # sc[s] /\ a \in Cited(sc[s].versions)
            \/ \E x \in Analysts, n \in Nodes :
                 /\ an'[x] # an[x] /\ node'[n].confirmed
                 /\ node[n].event = e /\ node[n].by = "draft"
                 /\ a \in Cited(node[n].reports)
<1>1. IInv /\ [Next]_vars => Kept
  BY DecisionStep
<1>2. IInv /\ [Next]_vars => [Kept]_vars
  BY <1>1
<1>3. Spec => [][Kept]_vars
  BY <1>2, Invariance, PTL DEF Spec
<1> QED
  BY <1>3 DEF DecisionKept

\* Which step changes an execution and the nodes.
LEMMA PublishStep ==
  ASSUME IInv, [Next]_vars, NEW x \in Analysts, Working(x), an'[x] # an[x], node' # node
  PROVE  Publish(x)
<1>1. ~ UNCHANGED vars
  BY DEF vars
<1>2. ~ Person
  BY DEF Person, EditEvent, CreateNode, RejectCandidate, Confirm, DropDraft, RemoveNode,
     MergeNodes, SplitNode, EditNode
<1>3. ~ MajorEvents
  BY DEF MajorEvents, ScanNews, Audit, Ask, Apply, Fail
<1>4. ~ Upkeep
  BY DEF Upkeep, Discover, Age, Revise, ExpireCandidate
<1>5. PICK y \in Analysts : Publish(y)
  BY <1>1, <1>2, <1>3, <1>4 DEF Next, EventAI, Analyse, Filter, Overtaken, Abandon
<1>6. an' = [an EXCEPT ![y] = Idle] /\ an \in [Analysts -> Analysis]
  BY <1>5 DEF Publish, Done, IInv, TypeOK
<1>7. x = y
  BY <1>6
<1> QED
  BY <1>5, <1>7

\* event_ai publishes an article once per event, though its job may run twice and the
\* key of the node holds a version that changes (ai/services.py:372-389).
THEOREM PublishedOnlyOnce == Spec => PublishedOnce
<1> DEFINE Once == \A x \in Analysts :
       Working(x) /\ an'[x] # an[x] /\ node' # node
         => ~ \E n \in NodesOf(node, an[x].event) :
                node[n].by = "event_ai" /\ an[x].article \in Cited(node[n].cites)
<1>1. IInv /\ [Next]_vars => Once
  BY PublishStep, PublishFirst DEF NodesOf
<1>2. IInv /\ [Next]_vars => [Once]_vars
  BY <1>1
<1>3. Spec => [][Once]_vars
  BY <1>2, Invariance, PTL DEF Spec
<1> QED
  BY <1>3 DEF PublishedOnce

=============================================================================
