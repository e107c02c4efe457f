----------------------------- MODULE MCCrawler -----------------------------
(***************************************************************************)
(* Instances of Crawler for TLC: one feed that two collect workers crawl,  *)
(* by scheduled and manual jobs, or two feeds of one host.                 *)
(***************************************************************************)
EXTENDS Crawler, TLC

CONSTANTS h1

OneHost == [f \in Feeds |-> h1]

\* 2, 4, 8 ... minutes, in ticks that keep the order.
Backoff == [n \in 1 .. MAX_FAILURES |-> n + 1]

\* For instances in which waits do not matter.
BriefBackoff == [n \in 1 .. MAX_FAILURES |-> 1]

CrawlerSymmetry == Permutations(Crawlers)
=============================================================================
