----------------------------- MODULE MCJobQueue -----------------------------
(***************************************************************************)
(* Instances of JobQueue for TLC.  A tick is about 20 seconds: a lease of  *)
(* 4 or 5, a heartbeat every tick, a lock timeout of at most one tick.     *)
(***************************************************************************)
EXTENDS JobQueue, TLC

OnlyAI == [j \in Jobs |-> "ai"]
WorkersAI == [w \in Workers |-> "ai"]

\* min(3600, 30 * 2 ** attempts), in ticks that keep the order.
Backoff == [n \in 1 .. MAX_ATTEMPTS |-> n]

\* Tokens are only compared; the workers of one queue are interchangeable.
TokenSymmetry == Permutations(Tokens)
TokenWorkerSymmetry == Permutations(Tokens) \cup Permutations(Workers)
=============================================================================
