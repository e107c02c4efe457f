----------------------------- MODULE MCArchive -----------------------------
(* Instances of Archive for TLC. *)
EXTENDS Archive, TLC

CONSTANTS u1, u2, g1, t1, t2

Live(u, t) == [url |-> u, guid |-> g1, text |-> t, imported |-> FALSE, first |-> 1, updated |-> 1]
Old(u, t, n) == [url |-> u, guid |-> g1, text |-> t, imported |-> TRUE, first |-> 1, updated |-> n]

\* One GUID under two URLs, two texts, and an import that brings both.
FewItems == {Live(u1, t1), Live(u2, t1), Old(u1, t1, 1), Old(u1, t2, 1)}

ArchiveSymmetry == Permutations(Ingests)
=============================================================================
