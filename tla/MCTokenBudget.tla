--------------------------- MODULE MCTokenBudget ---------------------------
(***************************************************************************)
(* Instances of TokenBudget for TLC.  The limits are a few reservations    *)
(* large; of the higher, the part kept for the urgent lane takes one       *)
(* reservation and what two calls can exceed theirs by.                    *)
(***************************************************************************)
EXTENDS TokenBudget

\* The share of a lane rises with the hour as those of LANE_LIMITS do, up to the whole
\* limit: only the reserve for the urgent lane keeps that lane from its tenth.  At
\* first it has room for one reservation under the higher limit and for none under
\* the lower; later for two and for one.
EarlyShares == [lane \in Routine |-> 34]
FullShares == [lane \in Routine |-> 100]

=============================================================================
