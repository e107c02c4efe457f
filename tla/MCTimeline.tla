----------------------------- MODULE MCTimeline -----------------------------
(* Instances of Timeline for TLC. *)
EXTENDS Timeline, TLC

CONSTANTS a1, a2

OwnSource == [a \in Articles |-> a]

TimelineSymmetry == Permutations(Analysts) \cup Permutations(Scans)
=============================================================================
