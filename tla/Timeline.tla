------------------------------ MODULE Timeline ------------------------------
(***************************************************************************)
(* Events and their timelines: app/events/services.py, event_ai() and the  *)
(* scan for major events of app/ai/services.py, the timeline's commands    *)
(* and the event form of app/core/views.py, and what maintain() of         *)
(* app/core/storage.py drops.                                              *)
(*                                                                         *)
(* A person's command is one transaction and one step.  event_ai() and a   *)
(* scan read, wait for the provider, and commit: anything may happen while *)
(* they wait.  Jobs are delivered at least once: an execution whose lease  *)
(* ran out goes on beside its successor.                                   *)
(*                                                                         *)
(* Titles, summaries, keywords, reasons and the text of the overview are   *)
(* left out; of the overview's time it matters whether it is 12 hours old. *)
(*                                                                         *)
(* A definition marked `Fault' is a variant of the one that follows it, in *)
(* which one thing is wrong and which must break a property.               *)
(***************************************************************************)
EXTENDS Integers, FiniteSets, Sequences

CONSTANTS
  Articles,
  Source,          \* the feed of each article
  Breaking,        \* the articles marked as breaking
  Found,           \* the articles that the events' keywords find
  Revised,         \* the articles that get new versions, a bound
  Analysts,        \* executions of event_ai
  Scans,           \* executions of discover_major_events or audit_auto_events
  MAX_EVENTS, MAX_NODES, MAX_VERSION,   \* bounds on rows
  MAX_COMMANDS,    \* bound on a person's commands
  MAX_PROPOSALS,   \* proposals of a scan that are used, 2
  NoEvent, NoArticle

Events == 1 .. MAX_EVENTS
Nodes == 1 .. MAX_NODES
Versions == Articles \X (1 .. MAX_VERSION)

ASSUME TimelineAssumption ==
  /\ MAX_EVENTS \in Nat \ {0} /\ MAX_NODES \in Nat \ {0} /\ MAX_VERSION \in Nat \ {0}
  /\ MAX_PROPOSALS \in Nat \ {0} /\ MAX_COMMANDS \in Nat
  /\ IsFiniteSet(Articles) /\ NoArticle \notin Articles /\ NoEvent \notin Nat
  /\ Breaking \subseteq Articles /\ Found \subseteq Articles /\ Revised \subseteq Articles

VARIABLES
  event,     \* the table Event
  cand,      \* the status of the Candidate of an event and an article
  node,      \* the tables Node and NodeReport
  current,   \* the number of each article's current version
  review,    \* EventReview
  an,        \* the executions of event_ai
  sc,        \* the executions of a scan
  commands   \* the number of a person's commands so far, a bound

vars == <<event, cand, node, current, review, an, sc, commands>>

-----------------------------------------------------------------------------
(* The rows. *)

\* `stale': created 24 hours ago, and without an overview of the last 12 hours.
\* "closed" is paused or ended, which nothing tells apart.
EventRow == [status : {"none", "tracking", "closed"}, auto : BOOLEAN,
             stale : BOOLEAN]

NoRow == [status |-> "none", auto |-> FALSE, stale |-> FALSE]

\* The status "rejected" of the code is "rejected" when a person decided, and
\* "filtered" when event_ai did.
Statuses == {"none", "pending", "accepted", "rejected", "filtered"}

\* `by' and `cites' stand for draft_key, which is unique unless a person made the
\* node.  A node of event_ai is a "draft" until event_ai publishes it together with
\* the article that it cites.
NodeRow == [event : Events \cup {NoEvent}, confirmed : BOOLEAN, reports : SUBSET Versions,
            by : {"person", "draft", "event_ai", "scan"}, cites : SUBSET Versions]

Unused == [event |-> NoEvent, confirmed |-> FALSE, reports |-> {}, by |-> "person", cites |-> {}]

\* "astray": the candidate is not in the table any more.
Analysis == [pc : {"idle", "asking", "astray"}, event : Events \cup {NoEvent},
             article : Articles \cup {NoArticle}, version : 0 .. MAX_VERSION]

Idle == [pc |-> "idle", event |-> NoEvent, article |-> NoArticle, version |-> 0]

\* `versions': the current versions of the articles in the request;
\* `retirable': the events it offers for retirement.
Scan == [pc : {"idle", "asking"}, versions : SUBSET Versions, retirable : SUBSET Events]

NoScan == [pc |-> "idle", versions |-> {}, retirable |-> {}]

TypeOK ==
  /\ event \in [Events -> EventRow]
  /\ cand \in [Events -> [Articles -> Statuses]]
  /\ node \in [Nodes -> NodeRow]
  /\ current \in [Articles -> 1 .. MAX_VERSION]
  /\ review \in [Articles -> {"none", "selected", "excluded"}]
  /\ an \in [Analysts -> Analysis]
  /\ sc \in [Scans -> Scan]
  /\ commands \in 0 .. MAX_COMMANDS
  \* draft_key is unique.
  /\ \A m, n \in Nodes :
       (m # n /\ node[m].event = node[n].event /\ node[m].cites = node[n].cites)
         => node[m].cites = {} \/ (node[m].by = "scan" <=> node[n].by # "scan")

\* One event is there already, and perhaps a draft that an earlier release of
\* event_ai left unconfirmed.
Init ==
  /\ \E auto \in BOOLEAN :
       event = [e \in Events |->
                  IF e = 1 THEN [NoRow EXCEPT !.status = "tracking", !.auto = auto] ELSE NoRow]
  /\ \E drafted \in SUBSET Found :
       /\ Cardinality(drafted) <= 1
       /\ cand = [e \in Events |->
                    [a \in Articles |-> IF e = 1 /\ a \in drafted THEN "pending" ELSE "none"]]
       /\ node = [n \in Nodes |->
                    IF n = 1 /\ drafted # {}
                    THEN LET versions == drafted \X {1}
                         IN [event |-> 1, confirmed |-> FALSE, reports |-> versions,
                             by |-> "draft", cites |-> versions]
                    ELSE Unused]
  /\ current = [a \in Articles |-> 1]
  /\ review = [a \in Articles |-> "none"]
  /\ an = [x \in Analysts |-> Idle]
  /\ sc = [s \in Scans |-> NoScan]
  /\ commands = 0

-----------------------------------------------------------------------------
(* Parts of a transaction. *)

Exists(n) == node[n].event # NoEvent
Cited(reports) == {v[1] : v \in reports}
CurrentOf(a) == <<a, current[a]>>

NodesOf(nodes, e) == {n \in Nodes : nodes[n].event = e /\ nodes[n].confirmed}

FreeNodes(nodes) == {n \in Nodes : nodes[n].event = NoEvent}
NewNode(nodes) == CHOOSE n \in FreeNodes(nodes) : \A m \in FreeNodes(nodes) : n <= m

\* refresh_overview(): without confirmed nodes the time is None, which counts as
\* 12 hours ago.
Refreshed(events, nodes, e) ==
  [events EXCEPT ![e].stale = @ /\ NodesOf(nodes, e) = {}]

\* Candidate...update(status): of the rows that exist.
Decide(cands, e, articles, status) ==
  [cands EXCEPT ![e] = [a \in Articles |-> IF a \in articles /\ cands[e][a] # "none"
                                           THEN status ELSE cands[e][a]]]

\* Fault: the candidates are left as they are.
ConfirmedAlone(n, nodes) ==
  LET e == nodes[n].event
      confirmed == [nodes EXCEPT ![n].confirmed = TRUE]
  IN /\ node' = confirmed
     /\ cand' = cand
     /\ event' = Refreshed(event, confirmed, e)

\* confirm_node(), past its check: `nodes' is the table it finds.
Confirmed(n, nodes) ==
  LET e == nodes[n].event
      confirmed == [nodes EXCEPT ![n].confirmed = TRUE]
  IN /\ node' = confirmed
     /\ cand' = Decide(cand, e, Cited(nodes[n].reports), "accepted")
     /\ event' = Refreshed(event, confirmed, e)

ByPerson(e, reports) == [event |-> e, confirmed |-> FALSE, reports |-> reports,
                         by |-> "person", cites |-> {}]

-----------------------------------------------------------------------------
(* A person's commands *)

\* The event form sets the status of an event, or makes one.
EditEvent(e, status) ==
  /\ event[e].status # status
  /\ event' = [event EXCEPT ![e].status = status]
  /\ UNCHANGED <<cand, node, current, review, an, sc>>

\* "seed" and "accept_candidate", by create_node(): with the current version.
CreateNode(e, a) ==
  /\ event[e].status # "none" /\ FreeNodes(node) # {}
  /\ LET n == NewNode(node)
     IN Confirmed(n, [node EXCEPT ![n] = ByPerson(e, {CurrentOf(a)})])
  /\ UNCHANGED <<current, review, an, sc>>

Confirm(n) ==
  /\ Exists(n) /\ node[n].reports # {} /\ ~ node[n].confirmed
  /\ Confirmed(n, node)
  /\ UNCHANGED <<current, review, an, sc>>

RejectCandidate(e, a) ==
  /\ cand[e][a] \notin {"none", "rejected"}
  /\ cand' = Decide(cand, e, {a}, "rejected")
  /\ UNCHANGED <<event, node, current, review, an, sc>>

\* "reject_draft", or maintain() after 7 days.
DropDraft(n) ==
  /\ Exists(n) /\ ~ node[n].confirmed
  /\ node' = [node EXCEPT ![n] = Unused]
  /\ UNCHANGED <<event, cand, current, review, an, sc>>

RemoveNode(n) ==
  /\ Exists(n)
  /\ LET e == node[n].event
         left == [node EXCEPT ![n] = Unused]
         linked == Cited(UNION {left[m].reports : m \in NodesOf(left, e)})
     IN /\ node' = left
        /\ cand' = Decide(cand, e, Cited(node[n].reports) \ linked, "rejected")
        /\ event' = Refreshed(event, left, e)
  /\ UNCHANGED <<current, review, an, sc>>

MergeNodes(target, source) ==
  /\ target # source /\ Exists(target) /\ node[target].event = node[source].event
  /\ node' = [node EXCEPT ![target].reports = @ \cup node[source].reports, ![source] = Unused]
  /\ event' = Refreshed(event, node', node[target].event)
  /\ UNCHANGED <<cand, current, review, an, sc>>

\* Fault: `>' for `>='.
SplittableAll(n, selected) == selected # {} /\ selected \subseteq node[n].reports

Splittable(n, selected) ==
  /\ selected # {} /\ selected \subseteq node[n].reports
  /\ Cardinality(selected) < Cardinality(node[n].reports)

SplitNode(n, selected) ==
  /\ Exists(n) /\ Splittable(n, selected) /\ FreeNodes(node) # {}
  /\ LET m == NewNode(node)
         split == [node EXCEPT ![m] = ByPerson(node[n].event, selected), ![n].reports = @ \ selected]
     IN IF node[n].confirmed THEN Confirmed(m, split)
        ELSE /\ node' = split
             /\ event' = Refreshed(event, split, node[n].event)
             /\ UNCHANGED cand
  /\ UNCHANGED <<current, review, an, sc>>

\* "edit_node": of its effects, only that of the refresh shows here.
EditNode(n) ==
  /\ Exists(n)
  /\ event' = Refreshed(event, node, node[n].event)
  /\ event' # event
  /\ UNCHANGED <<cand, node, current, review, an, sc>>

-----------------------------------------------------------------------------
(* discover() for one event, every 10 minutes or after the form was saved *)

\* Articles that match a keyword become candidates.  Pending candidates get a job
\* here, now or ten minutes later; it is executed once or more, at any time.
Discover(e, found) ==
  /\ event[e].status = "tracking"
  /\ cand' = [cand EXCEPT ![e] = [a \in Articles |->
                IF a \in found /\ cand[e][a] = "none" THEN "pending" ELSE cand[e][a]]]
  /\ cand' # cand
  /\ UNCHANGED <<event, node, current, review, an, sc, commands>>

-----------------------------------------------------------------------------
(* event_ai(event_id, article_id) *)

Working(x) == an[x].pc = "asking"

Done(x) == an' = [an EXCEPT ![x] = Idle]

\* An event that is not tracked and a candidate that is decided are skipped.
\* Another execution may be at it: its lease ran out.
Analyse(x, e, a) ==
  /\ an[x].pc = "idle"
  /\ event[e].status = "tracking" /\ cand[e][a] = "pending"
  /\ an' = [an EXCEPT ![x] = [pc |-> "asking", event |-> e, article |-> a, version |-> current[a]]]
  /\ UNCHANGED <<event, cand, node, current, review, sc, commands>>

\* "relevant" is false: a conditional update.
Filter(x) ==
  LET e == an[x].event  a == an[x].article
  IN /\ Working(x)
     /\ cand' = IF cand[e][a] = "pending" THEN Decide(cand, e, {a}, "filtered") ELSE cand
     /\ Done(x)
     /\ UNCHANGED <<event, node, current, review, sc, commands>>

\* Fault: the decision is not read again.
StillPendingAssumed(x) == TRUE

\* Read again, under a lock on the row.
StillPending(x) == cand[an[x].event][an[x].article] = "pending"

\* get_or_create: at most one node with this key.
Former(e, cites) ==
  {n \in Nodes : /\ node[n].event = e /\ node[n].by \in {"draft", "event_ai"}
                 /\ node[n].cites = cites}

\* "relevant" is true and the draft's citations are valid.
Publish(x) ==
  LET e == an[x].event
      cites == {<<an[x].article, an[x].version>>}
      former == Former(e, cites)
  IN /\ Working(x) /\ StillPending(x)
     /\ \/ \E n \in former :
             /\ node[n].reports # {}
             /\ Confirmed(n, IF an[x].article \in Cited(node[n].reports)
                             THEN [node EXCEPT ![n].by = "event_ai"] ELSE node)
        \/ /\ former = {} /\ FreeNodes(node) # {}
           /\ LET n == NewNode(node)
              IN Confirmed(n, [node EXCEPT ![n] = [event |-> e, confirmed |-> FALSE,
                   reports |-> cites, by |-> "event_ai", cites |-> cites]])
     /\ Done(x)
     /\ UNCHANGED <<current, review, sc, commands>>

\* Decided meanwhile: nothing is published.
Overtaken(x) ==
  /\ Working(x) /\ cand[an[x].event][an[x].article] # "pending"
  /\ Done(x)
  /\ UNCHANGED <<event, cand, node, current, review, sc, commands>>

\* An exception, or the process dies.
Abandon(x) ==
  /\ an[x].pc # "idle" /\ Done(x)
  /\ UNCHANGED <<event, cand, node, current, review, sc, commands>>

-----------------------------------------------------------------------------
(* discover_major_events() and audit_auto_events(): one batch *)

\* _retirement_context().
Retirable(force) ==
  {e \in Events : /\ event[e].auto /\ event[e].status = "tracking"
                  /\ (force \/ event[e].stale)}

Ask(s, articles, retirable) ==
  /\ sc[s].pc = "idle" /\ (articles # {} \/ retirable # {})
  /\ sc' = [sc EXCEPT ![s] = [pc |-> "asking", versions |-> {CurrentOf(a) : a \in articles},
                              retirable |-> retirable]]
  /\ UNCHANGED <<event, cand, node, current, review, an, commands>>

\* A batch takes all articles without a conclusion, as they are fewer than its
\* limit.  Only the first batch of a job offers events for retirement.
ScanNews(s) ==
  LET articles == {a \in Articles : review[a] = "none"}
  IN articles # {} /\ \E retirable \in {{}, Retirable(FALSE)} : Ask(s, articles, retirable)

Audit(s, force) == Ask(s, {}, Retirable(force))

\* The answer: proposals, each for an event that exists or for a new one, and
\* retirements.  The number of an event that does not exist yet stands for null.
Proposal == [match : Events, cites : SUBSET Versions]

\* The tables while apply_major_event_scan() goes through the proposals.
Tables == [event |-> event, cand |-> cand, node |-> node, used |-> {}, touched |-> {}]

\* The events locked by the transaction, and those it created.
Active(tables) == {e \in Events : tables.event[e].status = "tracking"}

\* Two sources or a breaking report make an event.
Founded(cites) ==
  \/ Cardinality({Source[a] : a \in Cited(cites)}) >= 2
  \/ Cited(cites) \cap Breaking # {}

\* A node of the scan with this key, which may have been changed since; else a new one.
ScanNode(tables, e, cites) ==
  LET former == {n \in Nodes : /\ tables.node[n].event = e /\ tables.node[n].by = "scan"
                               /\ tables.node[n].cites = cites}
  IN IF former # {} THEN [tables.node EXCEPT ![CHOOSE n \in former : TRUE].confirmed = TRUE]
     ELSE [tables.node EXCEPT ![NewNode(tables.node)] =
             [event |-> e, confirmed |-> TRUE, reports |-> cites, by |-> "scan", cites |-> cites]]

\* update_or_create: an article that has no candidate gets one, and one that has,
\* whatever its status, is accepted.
Adopt(tables, e, cites) ==
  [tables EXCEPT
     !.event[e] = IF @.status = "none"
                  THEN [NoRow EXCEPT !.status = "tracking", !.auto = TRUE] ELSE @,
     !.node = ScanNode(tables, e, cites),
     !.cand[e] = [a \in Articles |-> IF a \in Cited(cites) THEN "accepted" ELSE @[a]],
     !.used = @ \cup cites,
     !.touched = @ \cup {e}]

\* One proposal: versions that were not in the request, or are used, do not count.
Proposed(tables, proposal, versions) ==
  LET e == proposal.match
      cites == (proposal.cites \cap versions) \ tables.used
  IN IF /\ cites # {}
        /\ \/ e \in Active(tables)
           \/ tables.event[e].status = "none" /\ Founded(cites)
     THEN Adopt(tables, e, cites) ELSE tables

\* The loop over the proposals, from the tables as they are.
Through(proposals, versions) ==
  LET after[i \in 0 .. Len(proposals)] ==
        IF i = 0 THEN Tables ELSE Proposed(after[i - 1], proposals[i], versions)
  IN after[Len(proposals)]

Retired(s, proposals, retirements) ==
  (sc[s].retirable \cap retirements)
    \ {proposals[i].match : i \in {i \in DOMAIN proposals :
                                     event[proposals[i].match].status # "none"}}

\* Fault: what the answer cites is selected, used or not.
SelectedCited(tables, proposals) == UNION {proposals[i].cites : i \in DOMAIN proposals}

Selected(tables, proposals) == tables.used

\* apply_major_event_scan(), one transaction.
Apply(s, proposals, retirements) ==
  LET tables == Through(proposals, sc[s].versions)
      retired == {e \in Retired(s, proposals, retirements) :
                    tables.event[e].auto /\ tables.event[e].status = "tracking"}
      selected == Cited(Selected(tables, proposals))
  IN /\ sc[s].pc = "asking"
     /\ Cardinality(FreeNodes(node)) >= Len(proposals)
     /\ node' = tables.node
     /\ cand' = tables.cand
     /\ event' = [e \in Events |->
                    [tables.event[e] EXCEPT
                       !.status = IF e \in retired THEN "closed" ELSE @,
                       !.stale = @ /\ e \notin tables.touched]]
     \* ignore_conflicts: the first conclusion stays.
     /\ review' = [a \in Articles |->
                     IF review[a] = "none" /\ a \in Cited(sc[s].versions)
                     THEN IF a \in selected THEN "selected" ELSE "excluded"
                     ELSE review[a]]
     /\ sc' = [sc EXCEPT ![s] = NoScan]
     /\ UNCHANGED <<current, an, commands>>

Fail(s) ==
  /\ sc[s].pc = "asking"
  /\ sc' = [sc EXCEPT ![s] = NoScan]
  /\ UNCHANGED <<event, cand, node, current, review, an, commands>>

-----------------------------------------------------------------------------
(* Time, the archive, and maintain() *)

\* 24 hours after its creation, 12 hours after its last overview.
Age(e) ==
  /\ event[e].status = "tracking" /\ ~ event[e].stale
  /\ event' = [event EXCEPT ![e].stale = TRUE]
  /\ UNCHANGED <<cand, node, current, review, an, sc, commands>>

\* ingest() makes a new current version.
Revise(a) ==
  /\ current[a] < MAX_VERSION
  /\ current' = [current EXCEPT ![a] = @ + 1]
  /\ UNCHANGED <<event, cand, node, review, an, sc, commands>>

\* A pending candidate after 30 days.  An execution keeps the number of the row.
ExpireCandidate(e, a) ==
  /\ cand[e][a] = "pending"
  /\ cand' = [cand EXCEPT ![e][a] = "none"]
  /\ an' = [x \in Analysts |-> IF an[x].event = e /\ an[x].article = a
                              THEN [an[x] EXCEPT !.pc = "astray"] ELSE an[x]]
  /\ UNCHANGED <<event, node, current, review, sc, commands>>

-----------------------------------------------------------------------------

Person ==
  /\ commands < MAX_COMMANDS /\ commands' = commands + 1
  /\ \/ \E e \in Events, status \in {"tracking", "closed"} : EditEvent(e, status)
     \/ \E e \in Events, a \in Articles : CreateNode(e, a)
     \/ \E e \in Events, a \in Articles : RejectCandidate(e, a)
     \/ \E n \in Nodes : Confirm(n)
     \/ \E n \in Nodes : DropDraft(n)
     \/ \E n \in Nodes : RemoveNode(n)
     \/ \E m, n \in Nodes : MergeNodes(m, n)
     \/ \E n \in Nodes : \E selected \in SUBSET node[n].reports : SplitNode(n, selected)
     \/ \E n \in Nodes : EditNode(n)

EventAI ==
  \/ \E x \in Analysts, e \in Events, a \in Articles : Analyse(x, e, a)
  \/ \E x \in Analysts : Filter(x)
  \/ \E x \in Analysts : Publish(x)
  \/ \E x \in Analysts : Overtaken(x)
  \/ \E x \in Analysts : Abandon(x)

MajorEvents ==
  \/ \E s \in Scans : ScanNews(s)
  \/ \E s \in Scans, force \in BOOLEAN : Audit(s, force)
  \/ \E s \in Scans : \E n \in 0 .. MAX_PROPOSALS :
       \E proposals \in [1 .. n -> [match : Events, cites : SUBSET sc[s].versions \ {{}}]],
          retirements \in SUBSET sc[s].retirable : Apply(s, proposals, retirements)
  \/ \E s \in Scans : Fail(s)

Upkeep ==
  \/ \E e \in Events, found \in SUBSET Found : Discover(e, found)
  \/ \E e \in Events : Age(e)
  \/ \E a \in Revised : Revise(a)
  \/ \E e \in Events, a \in Articles : ExpireCandidate(e, a)

Next == Person \/ EventAI \/ MajorEvents \/ Upkeep

Spec == Init /\ [][Next]_vars

-----------------------------------------------------------------------------
(* Properties. *)

\* README.md:13 promises that a formal node always keeps report versions as its
\* evidence: no sequence of splits, merges, removals and publications leaves a
\* confirmed node that cites nothing (events/services.py:69, 150).
EvidenceKept == \A n \in Nodes : node[n].confirmed => node[n].reports # {}

\* docs/architecture.md:27: what a person changed is not overwritten by the AI.  A
\* decision about a candidate, also one that came while event_ai waited for the
\* provider, is changed by a person, by a scan that was shown the article, or by
\* event_ai with a draft of an earlier release into which a person merged the
\* article, and by nothing else: not by the other writes of event_ai, by a new search
\* or by the expiry of candidates (ai/services.py:366, 372-374; events/services.py:52-55).
DecisionKept ==
  [][\A e \in Events, a \in Articles :
       cand[e][a] \notin {"none", "pending"} /\ cand'[e][a] # cand[e][a]
         => \/ commands' # commands
            \/ \E s \in Scans : sc'[s] # sc[s] /\ a \in Cited(sc[s].versions)
            \/ \E x \in Analysts, n \in Nodes :
                 /\ an'[x] # an[x] /\ node'[n].confirmed
                 /\ node[n].event = e /\ node[n].by = "draft"
                 /\ a \in Cited(node[n].reports)]_vars

\* event_ai publishes an article once per event, although its job may run twice
\* and the key of the node holds the version, which changes: no execution adds
\* to an event that has a confirmed node of event_ai about the article.  A draft
\* that event_ai confirmed after a person had moved the article out of it is not
\* such a node: its candidate is left pending (ai/services.py:372-390).
PublishedOnce ==
  [][\A x \in Analysts :
       Working(x) /\ an'[x] # an[x] /\ node' # node
         => ~ \E n \in NodesOf(node, an[x].event) :
                node[n].by = "event_ai" /\ an[x].article \in Cited(node[n].cites)]_vars

\* An article is on record as selected only if it went into an event; it is
\* then decided in that event for good (ai/services.py:560-568, 587-597).
SelectedInEvent ==
  \A a \in Articles :
    review[a] = "selected" =>
      \E e \in Events : cand[e][a] \in {"accepted", "rejected"}

=============================================================================
