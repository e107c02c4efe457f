---------------------------- MODULE MCEnrichment ----------------------------
(* Instances of Enrichment for TLC. *)
EXTENDS Enrichment, TLC

CONSTANTS a1, a2

\* The article without a usable answer comes first.
HopelessFirst == [a \in Articles |-> IF a \in Hopeless THEN 1 ELSE 2]

\* The later version of an article is Chinese.
Later == Articles \X {2}

EnrichmentSymmetry == Permutations(Workers)
=============================================================================
