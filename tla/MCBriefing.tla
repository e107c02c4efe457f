----------------------------- MODULE MCBriefing -----------------------------
(* Instances of Briefing for TLC. *)
EXTENDS Briefing, TLC

CONSTANTS a1, a2, f1

\* Two articles of one feed, in two groups.
OneFeed == [a \in {a1, a2} |-> f1]
TwoGroups == [a \in {a1, a2} |-> a]

Symmetric == Permutations(Articles) \cup Permutations(Generators) \cup Permutations(Schedulers)
=============================================================================
