------------------------- MODULE TokenBudgetProofs -------------------------
(***************************************************************************)
(* The inductive invariant of TokenBudget and the theorems that follow     *)
(* from it, for any number of callers, any days, limits, shares and hours. *)
(*                                                                         *)
(* That every call finds its reservation needs the sum of what the open    *)
(* calls are owed.  The sum is given by its partial sums over the callers, *)
(* which a call that opens or ends changes from its own place onwards.     *)
(***************************************************************************)
EXTENDS TokenBudget, FiniteSets, FiniteSetTheorems, TLAPS

-----------------------------------------------------------------------------
(* The inductive invariant. *)

\* What an open call is owed from a lane of a day.
Debt(k, d, l) ==
  IF k.pc = "open" /\ k.day = d /\ k.lane = l THEN k.amount ELSE 0

Owed(calls, d, l) == [c \in Callers |-> Debt(calls[c], d, l)]

\* f holds the partial sums of owed, and the last is within the bound.
Sums(f, owed, bound) ==
  /\ f \in [0 .. N -> Nat]
  /\ f[0] = 0
  /\ \A c \in Callers : f[c] = f[c - 1] + owed[c]
  /\ \A i, j \in 0 .. N : i <= j => f[i] <= f[j]
  /\ f[N] <= bound

Covers(owed, bound) == \E f : Sums(f, owed, bound)

\* Each lane of each day has reserved what its open calls are owed, or more:
\* a call that died leaves its part behind.
Ledgers == \A d \in Days, l \in Lanes : Covers(Owed(call, d, l), usage[d].laneReserved[l])

SumOfLanes(f) == f["urgent"] + f["event"] + f["fresh"] + f["backfill"]

\* The columns of a day are the sums over its lanes.
ColumnsAgree ==
  \A d \in Days :
    /\ usage[d].used = SumOfLanes(usage[d].laneUsed)
    /\ usage[d].reserved = SumOfLanes(usage[d].laneReserved)

\* A caller has read a limit that was in force, on a day that has begun.
CallShape ==
  \A c \in Callers : call[c].pc # "idle" => call[c].seen <= peak /\ call[c].day <= today

LimitSeen == limit <= peak

BookInv == TypeOK /\ Ledgers /\ ColumnsAgree /\ CallShape /\ LimitSeen

\* The part of a day that routine lanes spent or promised.
RoutineTotal(u) ==
  LaneTotal(u, "event") + LaneTotal(u, "fresh") + LaneTotal(u, "backfill")

\* The callers without a call under way on a day in one of the lanes.
Settlers(calls, d, lanes) ==
  {c \in Callers : ~ (/\ calls[c].pc = "open" /\ calls[c].day = d
                      /\ calls[c].lane \in lanes)}

\* What their calls may have used beyond their reservations, since there was last
\* room for a call: the others have not settled yet.
Margin(calls, d, lanes) == OVERRUN * Cardinality(Settlers(calls, d, lanes))

TotalKept == \A d \in Days : Total(usage[d]) <= peak + Margin(call, d, Lanes)

TenthKept ==
  \A d \in Days : RoutineTotal(usage[d]) <= peak - Tenth(peak) + Margin(call, d, Routine)

PaceKept ==
  \A lane \in Routine :
    /\ LaneTotal(usage[today], lane)
         <= PacedLimit(lane, peak, slot) + Margin(call, today, {lane})
    /\ \A d \in Days :
         LaneTotal(usage[d], lane) <= LaneLimit(lane, peak) + Margin(call, d, {lane})

Untouched == \A d \in Days : d > today => \A l \in Lanes : LaneTotal(usage[d], l) = 0

BoundInv == TotalKept /\ TenthKept /\ PaceKept /\ Untouched

-----------------------------------------------------------------------------
(* Sums. *)

\* What one caller is owed is within the bound, and when it changes the bound
\* changes as much.
LEMMA CoverChange ==
  ASSUME NEW owed \in [Callers -> Nat], NEW bound \in Nat, Covers(owed, bound),
         NEW c \in Callers, NEW n \in Nat
  PROVE  /\ owed[c] <= bound
         /\ Covers([owed EXCEPT ![c] = n], bound - owed[c] + n)
<1>1. PICK f : Sums(f, owed, bound)
  BY DEF Covers
<1>2. /\ f \in [0 .. N -> Nat] /\ f[0] = 0
      /\ \A b \in Callers : f[b] = f[b - 1] + owed[b]
      /\ \A i, j \in 0 .. N : i <= j => f[i] <= f[j]
      /\ f[N] <= bound
  BY <1>1 DEF Sums
<1>3. /\ N \in Nat /\ c \in 1 .. N /\ c - 1 \in 0 .. N /\ c \in 0 .. N
      /\ N \in 0 .. N /\ 0 \in 0 .. N
  BY BudgetAssumption DEF Callers
<1>4. f[c] \in Nat /\ f[c - 1] \in Nat /\ f[N] \in Nat /\ owed[c] \in Nat
  BY <1>2, <1>3
<1>5. f[c] = f[c - 1] + owed[c] /\ f[c] <= f[N]
  BY <1>2, <1>3
<1>6. owed[c] <= bound
  BY <1>2, <1>4, <1>5
<1> DEFINE g == [i \in 0 .. N |-> IF i >= c THEN f[i] - owed[c] + n ELSE f[i]]
<1>7. ASSUME NEW i \in 0 .. N, i >= c
      PROVE  f[i] \in Nat /\ f[i] - owed[c] \in Nat /\ f[c - 1] <= f[i] - owed[c]
  <2>1. f[i] \in Nat /\ f[c] <= f[i]
    BY <1>2, <1>3, <1>7
  <2> QED
    BY <2>1, <1>4, <1>5
<1>8. g \in [0 .. N -> Nat]
  <2> SUFFICES ASSUME NEW i \in 0 .. N
               PROVE  (IF i >= c THEN f[i] - owed[c] + n ELSE f[i]) \in Nat
    OBVIOUS
  <2>1. CASE i >= c
    BY <2>1, <1>7
  <2>2. CASE ~ (i >= c)
    BY <2>2, <1>2
  <2> QED
    BY <2>1, <2>2
<1>9. g[0] = 0
  BY <1>2, <1>3
<1>10. ASSUME NEW b \in Callers
       PROVE  g[b] = g[b - 1] + [owed EXCEPT ![c] = n][b]
  <2>1. b \in 0 .. N /\ b - 1 \in 0 .. N /\ b \in Int /\ c \in Int
    BY <1>3 DEF Callers
  <2>2. f[b] = f[b - 1] + owed[b] /\ f[b] \in Nat /\ f[b - 1] \in Nat /\ owed[b] \in Nat
    BY <1>2, <2>1
  <2>3. CASE b = c
    <3>1. g[b] = f[b] - owed[c] + n /\ g[b - 1] = f[b - 1]
      BY <2>1, <2>3
    <3> QED
      BY <3>1, <2>2, <2>3
  <2>4. CASE b < c
    <3>1. g[b] = f[b] /\ g[b - 1] = f[b - 1]
      BY <2>1, <2>4
    <3> QED
      BY <3>1, <2>1, <2>2, <2>4
  <2>5. CASE b > c
    <3>1. g[b] = f[b] - owed[c] + n /\ g[b - 1] = f[b - 1] - owed[c] + n
      BY <2>1, <2>5
    <3> QED
      BY <3>1, <1>4, <2>1, <2>2, <2>5
  <2> QED
    BY <2>1, <2>3, <2>4, <2>5
<1>11. ASSUME NEW i \in 0 .. N, NEW j \in 0 .. N, i <= j
       PROVE  g[i] <= g[j]
  <2>1. f[i] <= f[j] /\ f[i] \in Nat /\ f[j] \in Nat /\ i \in Int /\ j \in Int /\ c \in Int
    BY <1>2, <1>3, <1>11
  <2>2. CASE i >= c
    <3>1. g[i] = f[i] - owed[c] + n /\ g[j] = f[j] - owed[c] + n
      BY <2>1, <2>2, <1>11
    <3> QED
      BY <3>1, <2>1, <1>4
  <2>3. CASE i < c /\ j >= c
    <3>1. g[i] = f[i] /\ g[j] = f[j] - owed[c] + n
      BY <2>1, <2>3
    <3>2. f[i] <= f[c - 1] /\ f[c - 1] <= f[j] - owed[c]
      BY <1>2, <1>3, <1>7, <2>1, <2>3
    <3> QED
      BY <3>1, <3>2, <2>1, <1>4
  <2>4. CASE j < c
    BY <2>1, <2>4, <1>11
  <2> QED
    BY <2>1, <2>2, <2>3, <2>4
<1>12. g[N] = f[N] - owed[c] + n
  BY <1>3
<1>13. g[N] <= bound - owed[c] + n
  BY <1>2, <1>4, <1>12
<1> HIDE DEF g
<1>14. Sums(g, [owed EXCEPT ![c] = n], bound - owed[c] + n)
  BY <1>8, <1>9, <1>10, <1>11, <1>13 DEF Sums
<1> QED
  BY <1>6, <1>14 DEF Covers

\* A larger bound covers as well.
LEMMA CoverMore ==
  ASSUME NEW owed, NEW bound \in Nat, NEW more \in Nat, bound <= more,
         Covers(owed, bound)
  PROVE  Covers(owed, more)
<1>1. PICK f : Sums(f, owed, bound)
  BY DEF Covers
<1>2. f[N] \in Nat
  BY <1>1, BudgetAssumption DEF Sums
<1>3. Sums(f, owed, more)
  BY <1>1, <1>2 DEF Sums
<1> QED
  BY <1>3 DEF Covers

\* Nothing owed is covered by any bound.
LEMMA CoverNothing == Covers([c \in Callers |-> 0], 0)
<1> DEFINE f == [i \in 0 .. N |-> 0]
<1>1. Sums(f, [c \in Callers |-> 0], 0)
  BY BudgetAssumption DEF Sums, Callers
<1> QED
  BY <1>1 DEF Covers

\* The sum over the lanes is at least as large as each of its terms.
LEMMA SumOfLanesBounds ==
  ASSUME NEW f \in [Lanes -> Nat], NEW lane \in Lanes
  PROVE  SumOfLanes(f) \in Nat /\ f[lane] \in Nat /\ f[lane] <= SumOfLanes(f)
<1>1. \A l \in {"urgent", "event", "fresh", "backfill"} : l \in Lanes /\ f[l] \in Nat
  BY DEF Lanes, Routine
<1>2. lane \in {"urgent", "event", "fresh", "backfill"}
  BY DEF Lanes, Routine
<1>3. CASE lane = "urgent"
  BY <1>1, <1>3 DEF SumOfLanes
<1>4. CASE lane = "event"
  BY <1>1, <1>4 DEF SumOfLanes
<1>5. CASE lane = "fresh"
  BY <1>1, <1>5 DEF SumOfLanes
<1>6. CASE lane = "backfill"
  BY <1>1, <1>6 DEF SumOfLanes
<1> QED
  BY <1>2, <1>3, <1>4, <1>5, <1>6

\* It moves by as much as one of its terms.
LEMMA SumOfLanesMove ==
  ASSUME NEW f \in [Lanes -> Nat], NEW lane \in Lanes, NEW n \in Int, f[lane] + n \in Nat
  PROVE  SumOfLanes([f EXCEPT ![lane] = f[lane] + n]) = SumOfLanes(f) + n
<1>1. \A l \in {"urgent", "event", "fresh", "backfill"} : l \in Lanes /\ f[l] \in Nat
  BY DEF Lanes, Routine
<1>2. lane \in {"urgent", "event", "fresh", "backfill"}
  BY DEF Lanes, Routine
<1>3. CASE lane = "urgent"
  BY <1>1, <1>3 DEF SumOfLanes
<1>4. CASE lane = "event"
  BY <1>1, <1>4 DEF SumOfLanes
<1>5. CASE lane = "fresh"
  BY <1>1, <1>5 DEF SumOfLanes
<1>6. CASE lane = "backfill"
  BY <1>1, <1>6 DEF SumOfLanes
<1> QED
  BY <1>2, <1>3, <1>4, <1>5, <1>6

-----------------------------------------------------------------------------
(* Rows of UsageDay. *)

\* reserve() changes two columns (services.py:112-115).
LEMMA ReservedFacts ==
  ASSUME NEW u \in Usage, NEW lane \in Lanes, NEW a \in Nat
  PROVE  /\ Reserved(u, lane, a) \in Usage
         /\ Reserved(u, lane, a).used = u.used
         /\ Reserved(u, lane, a).reserved = u.reserved + a
         /\ Reserved(u, lane, a).laneUsed = u.laneUsed
         /\ Reserved(u, lane, a).laneReserved =
              [u.laneReserved EXCEPT ![lane] = u.laneReserved[lane] + a]
<1>1. /\ u.used \in Nat /\ u.reserved + a \in Nat /\ u.laneUsed \in [Lanes -> Nat]
      /\ u.laneReserved \in [Lanes -> Nat]
  BY DEF Usage
<1>2. [u.laneReserved EXCEPT ![lane] = u.laneReserved[lane] + a] \in [Lanes -> Nat]
  BY <1>1
<1> QED
  BY <1>1, <1>2 DEF Reserved, Usage

\* settle() changes four; where the reservation is there, max(0, ...) is an
\* ordinary difference (services.py:122-131).
LEMMA SettledFacts ==
  ASSUME NEW u \in Usage, NEW lane \in Lanes, NEW a \in Nat, NEW spent \in Nat,
         a <= u.reserved, a <= u.laneReserved[lane]
  PROVE  /\ Settled(u, lane, a, spent) \in Usage
         /\ Settled(u, lane, a, spent).used = u.used + spent
         /\ Settled(u, lane, a, spent).reserved = u.reserved - a
         /\ Settled(u, lane, a, spent).laneUsed =
              [u.laneUsed EXCEPT ![lane] = u.laneUsed[lane] + spent]
         /\ Settled(u, lane, a, spent).laneReserved =
              [u.laneReserved EXCEPT ![lane] = u.laneReserved[lane] - a]
<1>1. /\ u.used \in Nat /\ u.reserved \in Nat /\ u.laneUsed \in [Lanes -> Nat]
      /\ u.laneReserved \in [Lanes -> Nat]
  BY DEF Usage
<1>2. u.laneReserved[lane] \in Nat /\ u.laneUsed[lane] \in Nat
  BY <1>1
<1>3. /\ Less(u.reserved, a) = u.reserved - a
      /\ Less(u.laneReserved[lane], a) = u.laneReserved[lane] - a
  BY <1>1, <1>2 DEF Less
<1>4. /\ u.reserved - a \in Nat /\ u.used + spent \in Nat
      /\ [u.laneReserved EXCEPT ![lane] = u.laneReserved[lane] - a] \in [Lanes -> Nat]
      /\ [u.laneUsed EXCEPT ![lane] = u.laneUsed[lane] + spent] \in [Lanes -> Nat]
  BY <1>1, <1>2
<1> QED
  BY <1>1, <1>3, <1>4 DEF Settled, Usage

\* v is the row u after a call settled.
SettlesTo(u, v, lane, a, spent) ==
  /\ v \in Usage
  /\ v.used = u.used + spent
  /\ v.reserved = u.reserved - a
  /\ \A l \in Lanes : l # lane => /\ v.laneUsed[l] = u.laneUsed[l]
                                  /\ v.laneReserved[l] = u.laneReserved[l]
  /\ v.laneUsed[lane] = u.laneUsed[lane] + spent
  /\ v.laneReserved[lane] = u.laneReserved[lane] - a
  /\ SumOfLanes(v.laneUsed) = SumOfLanes(u.laneUsed) + spent
  /\ SumOfLanes(v.laneReserved) = SumOfLanes(u.laneReserved) - a

\* That row is what settle() writes.
LEMMA SettledSettles ==
  ASSUME NEW u \in Usage, NEW lane \in Lanes, NEW a \in Nat, NEW spent \in Nat,
         a <= u.reserved, a <= u.laneReserved[lane]
  PROVE  SettlesTo(u, Settled(u, lane, a, spent), lane, a, spent)
<1> DEFINE v == Settled(u, lane, a, spent)
           f == u.laneUsed
           g == u.laneReserved
           n == 0 - a
<1>1. /\ v \in Usage /\ v.used = u.used + spent /\ v.reserved = u.reserved - a
      /\ v.laneUsed = [f EXCEPT ![lane] = f[lane] + spent]
      /\ v.laneReserved = [g EXCEPT ![lane] = g[lane] - a]
  BY SettledFacts
<1>2. f \in [Lanes -> Nat] /\ g \in [Lanes -> Nat] /\ a <= g[lane]
  BY DEF Usage
<1>3. /\ n \in Int /\ g[lane] \in Nat /\ f[lane] \in Nat /\ g[lane] + n \in Nat
      /\ g[lane] - a = g[lane] + n /\ f[lane] + spent \in Nat /\ spent \in Int
  BY <1>2
<1> HIDE DEF v, f, g, n
<1>4. SumOfLanes([f EXCEPT ![lane] = f[lane] + spent]) = SumOfLanes(f) + spent
  BY <1>2, <1>3, SumOfLanesMove
<1>5. SumOfLanes([g EXCEPT ![lane] = g[lane] + n]) = SumOfLanes(g) + n
  BY <1>2, <1>3, SumOfLanesMove
<1>6. SumOfLanes(g) \in Nat
  BY <1>2, SumOfLanesBounds
<1>7. SumOfLanes(g) + n = SumOfLanes(g) - a
  BY <1>6 DEF n
<1>8. /\ SumOfLanes(v.laneUsed) = SumOfLanes(f) + spent
      /\ SumOfLanes(v.laneReserved) = SumOfLanes(g) - a
  BY <1>1, <1>3, <1>4, <1>5, <1>7
<1>9. /\ \A l \in Lanes : l # lane => v.laneUsed[l] = f[l] /\ v.laneReserved[l] = g[l]
      /\ v.laneUsed[lane] = f[lane] + spent /\ v.laneReserved[lane] = g[lane] - a
  BY <1>1, <1>2
<1> QED
  BY <1>1, <1>8, <1>9 DEF SettlesTo, v, f, g

\* What an open call is owed is in its lane, and so in the total.
LEMMA Backed ==
  ASSUME BookInv, NEW c \in Callers, call[c].pc = "open"
  PROVE  /\ call[c].day \in Days /\ call[c].lane \in Lanes /\ call[c].amount \in Nat
         /\ usage[call[c].day] \in Usage
         /\ call[c].amount <= usage[call[c].day].laneReserved[call[c].lane]
         /\ call[c].amount <= usage[call[c].day].reserved
<1> DEFINE d == call[c].day
           l == call[c].lane
           u == usage[d]
<1>1. call[c] \in Call
  BY DEF BookInv, TypeOK
<1>2. d \in Days /\ l \in Lanes /\ call[c].amount \in Nat
  BY <1>1 DEF Call
<1>3. u \in Usage
  BY <1>2 DEF BookInv, TypeOK
<1>4. u.laneReserved \in [Lanes -> Nat] /\ u.reserved = SumOfLanes(u.laneReserved)
  BY <1>2, <1>3 DEF Usage, BookInv, ColumnsAgree
<1>5. u.laneReserved[l] \in Nat /\ u.laneReserved[l] <= u.reserved
  BY <1>2, <1>4, SumOfLanesBounds
<1>6. Owed(call, d, l) \in [Callers -> Nat] /\ Owed(call, d, l)[c] = call[c].amount
  <2>1. ASSUME NEW b \in Callers
        PROVE  Debt(call[b], d, l) \in Nat
    BY DEF BookInv, TypeOK, Call, Debt
  <2> QED
    BY <2>1 DEF Owed, Debt
<1>7. Covers(Owed(call, d, l), u.laneReserved[l])
  BY <1>2 DEF BookInv, Ledgers
<1>8. call[c].amount <= u.laneReserved[l]
  BY <1>5, <1>6, <1>7, CoverChange
<1>9. u.reserved \in Nat
  BY <1>3 DEF Usage
<1> HIDE DEF u
<1>10. call[c].amount <= u.reserved
  BY <1>2, <1>5, <1>8, <1>9
<1> QED
  BY <1>2, <1>3, <1>8, <1>10 DEF u

\* One ledger, when a call and the lane's column change by the same amount, or
\* the column loses less than the call is no longer owed.
LEMMA LedgerChange ==
  ASSUME BookInv, NEW c \in Callers, NEW k \in Call, NEW d \in Days, NEW l \in Lanes,
         NEW column \in Nat,
         column >= usage[d].laneReserved[l] - Debt(call[c], d, l) + Debt(k, d, l)
  PROVE  Covers(Owed([call EXCEPT ![c] = k], d, l), column)
<1> DEFINE b == usage[d].laneReserved[l]
           owed == Owed(call, d, l)
           n == Debt(k, d, l)
           more == [owed EXCEPT ![c] = n]
<1>1. b \in Nat /\ Covers(owed, b) /\ call \in [Callers -> Call]
  BY DEF BookInv, TypeOK, Usage, Ledgers
<1>2. /\ owed \in [Callers -> Nat] /\ owed[c] = Debt(call[c], d, l) /\ n \in Nat
      /\ Owed([call EXCEPT ![c] = k], d, l) = more
  <2>1. \A x \in Call : Debt(x, d, l) \in Nat
    BY DEF Debt, Call
  <2> QED
    BY <1>1, <2>1 DEF Owed
<1>3. column >= b - owed[c] + n
  BY <1>2
<1> HIDE DEF b, owed, n
<1>4. owed[c] <= b /\ Covers(more, b - owed[c] + n)
  BY <1>1, <1>2, CoverChange, Zenon
<1>5. b - owed[c] + n \in Nat /\ b - owed[c] + n <= column
  <2>1. owed[c] \in Nat
    BY <1>2
  <2> QED
    BY <1>1, <1>2, <1>3, <1>4, <2>1
<1>6. Covers(more, column)
  <2> HIDE DEF more
  <2> QED
    BY <1>4, <1>5, CoverMore
<1> QED
  BY <1>2, <1>6, Zenon

-----------------------------------------------------------------------------
(* Every step keeps the books. *)

\* A step of one call, in which each lane's column follows what is owed from it.
LEMMA BookStep ==
  ASSUME BookInv, NEW c \in Callers, NEW k \in Call,
         call' = [call EXCEPT ![c] = k],
         k.pc # "idle" => k.seen <= peak /\ k.day <= today,
         usage' \in [Days -> Usage], ColumnsAgree',
         \A d \in Days, l \in Lanes :
           usage'[d].laneReserved[l]
             >= usage[d].laneReserved[l] - Debt(call[c], d, l) + Debt(k, d, l),
         UNCHANGED <<limit, peak, today, slot>>
  PROVE  BookInv'
<1>1. TypeOK'
  BY DEF BookInv, TypeOK
<1>2. Ledgers'
  <2> SUFFICES ASSUME NEW d \in Days, NEW l \in Lanes
               PROVE  Covers(Owed(call', d, l), usage'[d].laneReserved[l])
    BY DEF Ledgers
  <2>1. usage'[d].laneReserved[l] \in Nat
    BY <1>1 DEF TypeOK, Usage
  <2>2. Covers(Owed([call EXCEPT ![c] = k], d, l), usage'[d].laneReserved[l])
    BY <2>1, LedgerChange
  <2> QED
    BY <2>2
<1>3. CallShape' /\ LimitSeen'
  BY DEF BookInv, TypeOK, CallShape, LimitSeen
<1> QED
  BY <1>1, <1>2, <1>3 DEF BookInv

\* Nothing is owed to a call that is not open.
LEMMA NoDebt ==
  ASSUME NEW k, k.pc # "open", NEW d, NEW l
  PROVE  Debt(k, d, l) = 0
  BY DEF Debt

\* An idle call is well typed and shaped.
LEMMA NoCallFacts == NoCall \in Call /\ NoCall.pc = "idle"
  BY BudgetAssumption DEF NoCall, Call, Lanes

\* A call that is not open afterwards leaves the table as it is: Ask, Refuse, Crash.
LEMMA TableStays ==
  ASSUME BookInv, NEW c \in Callers, NEW k \in Call,
         call' = [call EXCEPT ![c] = k], k.pc # "open",
         k.pc # "idle" => k.seen <= peak /\ k.day <= today,
         UNCHANGED <<usage, limit, peak, today, slot>>
  PROVE  BookInv'
<1>1. usage' \in [Days -> Usage] /\ ColumnsAgree'
  BY DEF BookInv, TypeOK, ColumnsAgree
<1>2. ASSUME NEW d \in Days, NEW l \in Lanes
      PROVE  usage'[d].laneReserved[l]
               >= usage[d].laneReserved[l] - Debt(call[c], d, l) + Debt(k, d, l)
  <2>1. usage[d].laneReserved[l] \in Nat
    BY DEF BookInv, TypeOK, Usage
  <2>2. Debt(call[c], d, l) \in Nat
    BY DEF BookInv, TypeOK, Debt, Call
  <2>3. Debt(k, d, l) = 0
    BY NoDebt
  <2> QED
    BY <2>1, <2>2, <2>3
<1> QED
  BY <1>1, <1>2, BookStep

\* The read before the lock (services.py:92-94).
LEMMA AskBooks ==
  ASSUME BookInv, NEW c \in Callers, NEW lane \in Asked, NEW amount \in Amounts,
         Ask(c, lane, amount)
  PROVE  BookInv'
<1> DEFINE k == [pc |-> "asking", day |-> today, amount |-> amount, lane |-> lane,
                 seen |-> limit]
<1>1. k \in Call /\ k.pc = "asking" /\ k.seen <= peak /\ k.day <= today
  BY BudgetAssumption DEF BookInv, TypeOK, LimitSeen, Call
<1>2. call' = [call EXCEPT ![c] = k] /\ UNCHANGED <<usage, limit, peak, today, slot>>
  BY DEF Ask
<1> HIDE DEF k
<1> QED
  BY <1>1, <1>2, TableStays

\* A refusal or a crash forgets the call.
LEMMA ForgetBooks ==
  ASSUME BookInv, NEW c \in Callers, Refuse(c) \/ Crash(c)
  PROVE  BookInv'
<1>1. call' = [call EXCEPT ![c] = NoCall] /\ UNCHANGED <<usage, limit, peak, today, slot>>
  BY DEF Refuse, Crash
<1> QED
  BY <1>1, NoCallFacts, TableStays

\* The reservation under the row lock (services.py:96-115).
LEMMA AdmitBooks ==
  ASSUME BookInv, NEW c \in Callers, Admit(c)
  PROVE  BookInv'
<1> DEFINE day == call[c].day
           lane == call[c].lane
           a == call[c].amount
           k == [call[c] EXCEPT !.pc = "open"]
           u == Reserved(usage[day], lane, a)
<1>1. /\ call[c].pc = "asking" /\ call[c] \in Call
      /\ call' = [call EXCEPT ![c] = k] /\ usage' = [usage EXCEPT ![day] = u]
      /\ UNCHANGED <<limit, peak, today, slot>>
  BY DEF Admit, BookInv, TypeOK
<1>2. /\ day \in Days /\ lane \in Lanes /\ a \in Nat /\ usage[day] \in Usage
      /\ usage \in [Days -> Usage]
  BY <1>1 DEF Call, BookInv, TypeOK
<1>3. /\ k \in Call /\ k.pc = "open" /\ k.day = day /\ k.lane = lane /\ k.amount = a
      /\ k.seen = call[c].seen
  BY <1>1 DEF Call
<1>4. k.seen <= peak /\ k.day <= today
  BY <1>1, <1>3 DEF BookInv, CallShape
<1>5. /\ u \in Usage /\ u.used = usage[day].used /\ u.reserved = usage[day].reserved + a
      /\ u.laneUsed = usage[day].laneUsed
      /\ u.laneReserved = [usage[day].laneReserved EXCEPT
                             ![lane] = usage[day].laneReserved[lane] + a]
  BY <1>2, ReservedFacts
<1>6. usage[day].laneReserved \in [Lanes -> Nat] /\ usage[day].laneReserved[lane] \in Nat
  BY <1>2 DEF Usage
<1>7. SumOfLanes(u.laneReserved) = SumOfLanes(usage[day].laneReserved) + a
  <2> DEFINE f == usage[day].laneReserved
  <2>1. f \in [Lanes -> Nat] /\ a \in Int /\ f[lane] + a \in Nat
    BY <1>2, <1>6
  <2> HIDE DEF f, u, lane, a
  <2>2. SumOfLanes([f EXCEPT ![lane] = f[lane] + a]) = SumOfLanes(f) + a
    BY <1>2, <2>1, SumOfLanesMove
  <2> QED
    BY <1>5, <2>2 DEF f
<1>8. u.used = SumOfLanes(u.laneUsed) /\ u.reserved = SumOfLanes(u.laneReserved)
  BY <1>2, <1>5, <1>7 DEF BookInv, ColumnsAgree
<1> HIDE DEF u, k, day, lane, a
<1>9. usage' \in [Days -> Usage] /\ \A d \in Days : usage'[d] = IF d = day THEN u ELSE usage[d]
  BY <1>1, <1>2, <1>5
<1>10. ColumnsAgree'
  BY <1>8, <1>9 DEF BookInv, ColumnsAgree
<1>11. ASSUME NEW d \in Days, NEW l \in Lanes
       PROVE  usage'[d].laneReserved[l]
                >= usage[d].laneReserved[l] - Debt(call[c], d, l) + Debt(k, d, l)
  <2>1. usage[d].laneReserved[l] \in Nat
    BY <1>2 DEF Usage
  <2>2. Debt(call[c], d, l) = 0
    BY <1>1, NoDebt
  <2>3. CASE d = day /\ l = lane
    <3>1. usage'[d].laneReserved[l] = usage[d].laneReserved[l] + a
      BY <1>5, <1>6, <1>9, <2>3
    <3>2. Debt(k, d, l) = a
      BY <1>3, <2>3 DEF Debt
    <3> QED
      BY <1>2, <2>1, <2>2, <3>1, <3>2
  <2>4. CASE ~ (d = day /\ l = lane)
    <3>1. usage'[d].laneReserved[l] = usage[d].laneReserved[l]
      BY <1>5, <1>6, <1>9, <2>4
    <3>2. Debt(k, d, l) = 0
      BY <1>3, <2>4 DEF Debt
    <3> QED
      BY <2>1, <2>2, <3>1, <3>2
  <2> QED
    BY <2>3, <2>4
<1> QED
  BY <1>1, <1>3, <1>4, <1>9, <1>10, <1>11, BookStep

\* A settlement, whatever it books as spent: the effect of Settle and
\* SettleUnknown.
SettlesAs(c, spent) ==
  /\ call[c].pc = "open"
  /\ usage' = [usage EXCEPT ![call[c].day] =
                 Settled(@, call[c].lane, call[c].amount, spent)]
  /\ call' = [call EXCEPT ![c] = NoCall]
  /\ UNCHANGED <<limit, peak, today, slot>>

\* How the table changes when a call settles.
LEMMA SettledRow ==
  ASSUME BookInv, NEW c \in Callers, NEW spent \in Nat, SettlesAs(c, spent)
  PROVE  /\ call[c].day \in Days /\ call[c].lane \in Lanes /\ call[c].amount \in Nat
         /\ usage' \in [Days -> Usage]
         /\ \A d \in Days : d # call[c].day => usage'[d] = usage[d]
         /\ SettlesTo(usage[call[c].day], usage'[call[c].day], call[c].lane,
                       call[c].amount, spent)
<1> DEFINE day == call[c].day
           lane == call[c].lane
           a == call[c].amount
           v == Settled(usage[day], lane, a, spent)
<1>1. /\ day \in Days /\ lane \in Lanes /\ a \in Nat /\ usage[day] \in Usage
      /\ a <= usage[day].laneReserved[lane] /\ a <= usage[day].reserved
  BY Backed DEF SettlesAs
<1>2. usage \in [Days -> Usage]
  BY DEF BookInv, TypeOK
<1>3. usage' = [usage EXCEPT ![day] = v]
  BY <1>1, <1>2 DEF SettlesAs
<1>4. SettlesTo(usage[day], v, lane, a, spent)
  BY <1>1, SettledSettles
<1> HIDE DEF v
<1>5. v \in Usage
  BY <1>4 DEF SettlesTo
<1>6. /\ usage'[day] = v /\ usage' \in [Days -> Usage]
      /\ \A d \in Days : d # day => usage'[d] = usage[d]
  BY <1>1, <1>2, <1>3, <1>5
<1> QED
  BY <1>1, <1>4, <1>6

\* A settlement keeps the books (services.py:118-131).
LEMMA SettleBooks ==
  ASSUME BookInv, NEW c \in Callers, NEW spent \in Nat, SettlesAs(c, spent)
  PROVE  BookInv'
<1> DEFINE day == call[c].day
           lane == call[c].lane
           a == call[c].amount
<1>1. /\ day \in Days /\ lane \in Lanes /\ a \in Nat /\ usage' \in [Days -> Usage]
      /\ \A d \in Days : d # day => usage'[d] = usage[d]
      /\ SettlesTo(usage[day], usage'[day], lane, a, spent)
  BY SettledRow
<1>2. /\ call[c].pc = "open" /\ call[c].day = day /\ call[c].lane = lane
      /\ call[c].amount = a
      /\ call' = [call EXCEPT ![c] = NoCall] /\ UNCHANGED <<limit, peak, today, slot>>
  BY DEF SettlesAs
<1> HIDE DEF day, lane, a
<1>3. ColumnsAgree'
  <2>1. /\ usage[day].used = SumOfLanes(usage[day].laneUsed)
        /\ usage[day].reserved = SumOfLanes(usage[day].laneReserved)
    BY <1>1 DEF BookInv, ColumnsAgree
  <2>2. /\ usage'[day].used = SumOfLanes(usage'[day].laneUsed)
        /\ usage'[day].reserved = SumOfLanes(usage'[day].laneReserved)
    BY <1>1, <2>1 DEF SettlesTo
  <2> QED
    BY <1>1, <2>2 DEF BookInv, ColumnsAgree
<1>4. ASSUME NEW d \in Days, NEW l \in Lanes
      PROVE  usage'[d].laneReserved[l]
               >= usage[d].laneReserved[l] - Debt(call[c], d, l) + Debt(NoCall, d, l)
  <2>1. usage[d].laneReserved[l] \in Nat
    BY DEF BookInv, TypeOK, Usage
  <2>2. Debt(NoCall, d, l) = 0
    BY NoCallFacts, NoDebt
  <2>3. CASE d = day /\ l = lane
    <3>1. usage'[d].laneReserved[l] = usage[d].laneReserved[l] - a
      BY <1>1, <2>3 DEF SettlesTo
    <3>2. Debt(call[c], d, l) = a
      BY <1>2, <2>3 DEF Debt
    <3> QED
      BY <1>1, <2>1, <2>2, <3>1, <3>2
  <2>4. CASE ~ (d = day /\ l = lane)
    <3>1. usage'[d].laneReserved[l] = usage[d].laneReserved[l]
      BY <1>1, <2>4 DEF SettlesTo
    <3>2. Debt(call[c], d, l) = 0
      BY <1>2, <2>4 DEF Debt
    <3> QED
      BY <2>1, <2>2, <3>1, <3>2
  <2> QED
    BY <2>3, <2>4
<1> QED
  BY <1>1, <1>2, <1>3, <1>4, NoCallFacts, BookStep

\* Settle and SettleUnknown settle.
LEMMA SettleIs ==
  ASSUME BookInv, NEW c \in Callers
  PROVE  /\ \A spent \in Usages : Settle(c, spent) =>
              spent \in Nat /\ SettlesAs(c, spent) /\ spent <= call[c].amount + OVERRUN
         /\ SettleUnknown(c) => call[c].amount \in Nat /\ SettlesAs(c, call[c].amount)
  BY BudgetAssumption DEF Settle, SettleUnknown, SettlesAs, BookInv, TypeOK, Call

\* A new limit, the hour and midnight leave calls and rows alone.
LEMMA WorldBooks ==
  ASSUME BookInv,
         \/ \E max \in Limits : SetLimit(max)
         \/ LaterToday
         \/ Midnight
  PROVE  BookInv'
<1>1. UNCHANGED <<usage, call>> /\ today' \in Days /\ slot' \in 0 .. SLOTS - 1
      /\ limit' \in Limits /\ peak' \in Limits /\ today <= today'
      /\ peak <= peak' /\ limit' <= peak'
  BY BudgetAssumption DEF BookInv, TypeOK, LimitSeen, SetLimit, LaterToday, Midnight
<1>2. TypeOK'
  BY <1>1 DEF BookInv, TypeOK
<1>3. Ledgers' /\ ColumnsAgree' /\ LimitSeen'
  BY <1>1 DEF BookInv, Ledgers, ColumnsAgree, LimitSeen
<1>4. CallShape'
  <2> SUFFICES ASSUME NEW c \in Callers, call[c].pc # "idle"
               PROVE  call[c].seen <= peak' /\ call[c].day <= today'
    BY <1>1 DEF CallShape
  <2>1. call[c].seen <= peak /\ call[c].day <= today /\ call[c] \in Call
    BY DEF BookInv, TypeOK, CallShape
  <2>2. call[c].seen \in Nat /\ call[c].day \in Nat /\ peak \in Nat /\ today \in Nat
        /\ peak' \in Nat /\ today' \in Nat
    BY <1>1, <2>1, BudgetAssumption DEF Call, BookInv, TypeOK
  <2> QED
    BY <1>1, <2>1, <2>2
<1> QED
  BY <1>2, <1>3, <1>4 DEF BookInv

\* No day has been used and nobody calls.
LEMMA BookInit == Init => BookInv
<1> SUFFICES ASSUME Init PROVE BookInv
  OBVIOUS
<1>1. NoUsage \in Usage
  BY DEF NoUsage, Usage
<1>2. TypeOK
  BY <1>1, NoCallFacts, BudgetAssumption DEF Init, TypeOK
<1>3. Ledgers
  <2> SUFFICES ASSUME NEW d \in Days, NEW l \in Lanes
               PROVE  Covers(Owed(call, d, l), usage[d].laneReserved[l])
    BY DEF Ledgers
  <2>1. usage[d].laneReserved[l] = 0
    BY DEF Init, NoUsage
  <2>2. Owed(call, d, l) = [c \in Callers |-> 0]
    BY NoCallFacts, NoDebt DEF Owed, Init
  <2> QED
    BY <2>1, <2>2, CoverNothing
<1>4. ColumnsAgree
  BY DEF ColumnsAgree, SumOfLanes, Init, NoUsage, Lanes, Routine
<1>5. CallShape
  BY NoCallFacts DEF Init, CallShape
<1>6. LimitSeen
  BY BudgetAssumption DEF Init, LimitSeen
<1> QED
  BY <1>2, <1>3, <1>4, <1>5, <1>6 DEF BookInv

\* Every step keeps the books.
LEMMA BookNext == BookInv /\ [Next]_vars => BookInv'
<1> SUFFICES ASSUME BookInv, [Next]_vars PROVE BookInv'
  OBVIOUS
<1>1. CASE \E c \in Callers, lane \in Asked, amount \in Amounts : Ask(c, lane, amount)
  BY <1>1, AskBooks
<1>2. CASE \E c \in Callers : Admit(c)
  BY <1>2, AdmitBooks
<1>3. CASE \E c \in Callers : Refuse(c) \/ Crash(c)
  BY <1>3, ForgetBooks
<1>4. CASE \E c \in Callers, spent \in Usages : Settle(c, spent)
  BY <1>4, SettleIs, SettleBooks
<1>5. CASE \E c \in Callers : SettleUnknown(c)
  BY <1>5, SettleIs, SettleBooks
<1>6. CASE (\E max \in Limits : SetLimit(max)) \/ LaterToday \/ Midnight
  BY <1>6, WorldBooks
<1>7. CASE UNCHANGED vars
  BY <1>7 DEF vars, BookInv, TypeOK, Ledgers, ColumnsAgree, CallShape, LimitSeen
<1> QED
  BY <1>1, <1>2, <1>3, <1>4, <1>5, <1>6, <1>7 DEF Next

-----------------------------------------------------------------------------
(* Theorems that hold however much a response exceeds its reservation. *)

\* The books of every day balance.
THEOREM BooksBalance == Spec => []BookInv
  BY BookInit, BookNext, PTL DEF Spec

\* Every reachable state is well typed: no column goes below zero.
THEOREM TypeCorrect == Spec => []TypeOK
<1>1. BookInv => TypeOK
  BY DEF BookInv
<1> QED
  BY <1>1, BooksBalance, PTL

\* A call under way finds its reservation (services.py:122-127).
THEOREM ReservationsThere == Spec => []ReservationBacked
<1>1. BookInv => ReservationBacked
  BY Backed DEF ReservationBacked
<1> QED
  BY <1>1, BooksBalance, PTL

-----------------------------------------------------------------------------
(* Limits. *)

\* A larger factor and a larger dividend give no less.
LEMMA TimesGrows ==
  ASSUME NEW m \in Nat, NEW p \in Nat, m <= p, NEW x \in Nat
  PROVE  m * x <= p * x /\ m * x \in Nat
<1>1. p * x = m * x + (p - m) * x
  OBVIOUS
<1>2. (p - m) * x \in Nat /\ m * x \in Nat
  OBVIOUS
<1> QED
  BY <1>1, <1>2

\* A greater dividend has no smaller quotient.
LEMMA QuotientGrows ==
  ASSUME NEW x \in Nat, NEW y \in Nat, x <= y, NEW z \in Nat \ {0}
  PROVE  x \div z <= y \div z /\ x \div z \in Nat
  OBVIOUS

\* The share of a lane grows with the limit and with the hour.
LEMMA SharesGrow ==
  ASSUME NEW lane \in Routine, NEW m \in Nat, NEW p \in Nat, m <= p,
         NEW s \in 0 .. SLOTS - 1, NEW t \in 0 .. SLOTS - 1, s <= t
  PROVE  /\ LaneLimit(lane, m) <= LaneLimit(lane, p)
         /\ PacedLimit(lane, m, s) <= PacedLimit(lane, p, t)
         /\ LaneLimit(lane, m) \in Nat /\ LaneLimit(lane, p) \in Nat
         /\ PacedLimit(lane, m, s) \in Nat /\ PacedLimit(lane, p, t) \in Nat
<1> DEFINE start == StartShare[lane]
           full == FullShare[lane]
           at(x) == start * SLOTS + (full - start) * x
<1>1. start \in Nat /\ full \in Nat /\ full - start \in Nat /\ SLOTS \in Nat \ {0}
  BY BudgetAssumption
<1>2. s \in Nat /\ t \in Nat
  OBVIOUS
<1> HIDE DEF start, full
<1>3. LaneLimit(lane, m) <= LaneLimit(lane, p) /\ LaneLimit(lane, m) \in Nat
      /\ LaneLimit(lane, p) \in Nat
  <2>1. m * full <= p * full /\ m * full \in Nat /\ p * full \in Nat
    BY <1>1, TimesGrows
  <2>2. /\ (m * full) \div 100 <= (p * full) \div 100
        /\ (m * full) \div 100 \in Nat /\ (p * full) \div 100 \in Nat
    BY <2>1
  <2> QED
    BY <2>2 DEF LaneLimit, full
<1>4. at(s) \in Nat /\ at(t) \in Nat /\ at(s) <= at(t)
  <2>1. (full - start) * s <= (full - start) * t
    <3>1. s * (full - start) <= t * (full - start)
      BY <1>1, <1>2, TimesGrows
    <3> QED
      BY <1>1, <1>2, <3>1
  <2>2. start * SLOTS \in Nat /\ (full - start) * s \in Nat /\ (full - start) * t \in Nat
    BY <1>1, <1>2
  <2> QED
    BY <2>1, <2>2
<1> HIDE DEF at
<1>5. m * at(s) <= p * at(t) /\ m * at(s) \in Nat /\ p * at(t) \in Nat
  <2>1. m * at(s) <= p * at(s) /\ m * at(s) \in Nat /\ p * at(s) \in Nat
    BY <1>4, TimesGrows
  <2>2. at(s) * p <= at(t) * p /\ at(t) * p \in Nat
    BY <1>4, TimesGrows
  <2>3. at(s) * p = p * at(s) /\ at(t) * p = p * at(t)
    BY <1>4
  <2> QED
    BY <2>1, <2>2, <2>3
<1>6. 100 * SLOTS \in Nat \ {0}
  BY <1>1
<1>7. /\ (m * at(s)) \div (100 * SLOTS) <= (p * at(t)) \div (100 * SLOTS)
      /\ (m * at(s)) \div (100 * SLOTS) \in Nat
      /\ (p * at(t)) \div (100 * SLOTS) \in Nat
  <2> DEFINE x == m * at(s)
             y == p * at(t)
             z == 100 * SLOTS
  <2>1. x \in Nat /\ y \in Nat /\ x <= y /\ z \in Nat \ {0} /\ y <= y
    BY <1>5, <1>6
  <2> HIDE DEF x, y, z
  <2>2. x \div z <= y \div z /\ x \div z \in Nat /\ y \div z \in Nat
    BY <2>1, QuotientGrows
  <2> QED
    BY <2>2 DEF x, y, z
<1>8. /\ PacedLimit(lane, m, s) = (m * at(s)) \div (100 * SLOTS)
      /\ PacedLimit(lane, p, t) = (p * at(t)) \div (100 * SLOTS)
  BY DEF PacedLimit, at, start, full
<1> QED
  BY <1>3, <1>7, <1>8

\* So does what the tenth leaves.
LEMMA TenthGrows ==
  ASSUME NEW m \in Nat, NEW p \in Nat, m <= p
  PROVE  /\ m - Tenth(m) <= p - Tenth(p) /\ m - Tenth(m) \in Nat
         /\ p - Tenth(p) \in Nat /\ Tenth(m) \in Nat /\ Tenth(p) \in Nat
<1> DEFINE k == URGENT_PART
           a == Tenth(m)
           b == Tenth(p)
<1>1. k \in Nat /\ k >= 1
  BY BudgetAssumption
<1>2. a \in Nat /\ k * a <= m /\ m < k * (a + 1)
  BY <1>1 DEF Tenth
<1>3. b \in Nat /\ k * b <= p /\ p < k * (b + 1)
  BY <1>1 DEF Tenth
<1> HIDE DEF k, a, b
\* Each unit of the quotient takes at least one of the dividend.
<1>4. a <= m /\ b <= p
  <2>1. 1 * a <= k * a /\ 1 * b <= k * b
    BY <1>1, <1>2, <1>3
  <2> QED
    BY <1>1, <1>2, <1>3, <2>1
<1>5. b - a <= p - m
  <2>1. CASE b <= a
    BY <1>2, <1>3, <2>1
  <2>2. CASE a + 1 <= b
    <3>1. PICK e \in Nat : b = a + 1 + e
      <4>1. b - (a + 1) \in Nat /\ b = a + 1 + (b - (a + 1))
        BY <1>2, <1>3, <2>2
      <4> QED
        BY <4>1
    <3>2. k * b = k * (a + 1) + k * e /\ k * e >= e
      <4>1. k * e >= 1 * e
        BY <1>1
      <4> QED
        BY <1>1, <1>2, <3>1, <4>1
    <3>3. p - m >= e + 1
      BY <1>1, <1>2, <1>3, <3>2
    <3> QED
      BY <1>2, <1>3, <3>1, <3>3
  <2> QED
    BY <1>2, <1>3, <2>1, <2>2
<1> QED
  BY <1>2, <1>3, <1>4, <1>5 DEF a, b

\* The amounts of a row are numbers, and its total is split over the lanes.
LEMMA RowTotals ==
  ASSUME NEW u \in Usage,
         u.used = SumOfLanes(u.laneUsed), u.reserved = SumOfLanes(u.laneReserved)
  PROVE  /\ Total(u) \in Nat /\ \A l \in Lanes : LaneTotal(u, l) \in Nat
         /\ RoutineTotal(u) \in Nat
         /\ Total(u) = LaneTotal(u, "urgent") + RoutineTotal(u)
         /\ \A l \in Routine : LaneTotal(u, l) <= RoutineTotal(u)
<1>1. /\ u.used \in Nat /\ u.reserved \in Nat
      /\ u.laneUsed \in [Lanes -> Nat] /\ u.laneReserved \in [Lanes -> Nat]
  BY DEF Usage
<1>2. \A l \in Lanes : u.laneUsed[l] \in Nat /\ u.laneReserved[l] \in Nat
  BY <1>1
<1>3. \A l \in {"urgent", "event", "fresh", "backfill"} :
         u.laneUsed[l] \in Nat /\ u.laneReserved[l] \in Nat
  BY <1>2 DEF Lanes, Routine
<1>4. Total(u) \in Nat /\ \A l \in Lanes : LaneTotal(u, l) \in Nat
  BY <1>1, <1>2 DEF Total, LaneTotal
<1>5. RoutineTotal(u) \in Nat /\ Total(u) = LaneTotal(u, "urgent") + RoutineTotal(u)
  BY <1>1, <1>3 DEF Total, LaneTotal, RoutineTotal, SumOfLanes
<1>6. \A l \in Routine : LaneTotal(u, l) <= RoutineTotal(u)
  BY <1>3 DEF LaneTotal, RoutineTotal, Routine
<1> QED
  BY <1>4, <1>5, <1>6

\* The totals of a day, from the books.
LEMMA DayTotals ==
  ASSUME BookInv, NEW d \in Days
  PROVE  /\ usage[d] \in Usage
         /\ Total(usage[d]) \in Nat /\ \A l \in Lanes : LaneTotal(usage[d], l) \in Nat
         /\ RoutineTotal(usage[d]) \in Nat
         /\ Total(usage[d]) = LaneTotal(usage[d], "urgent") + RoutineTotal(usage[d])
<1>1. /\ usage[d] \in Usage
      /\ usage[d].used = SumOfLanes(usage[d].laneUsed)
      /\ usage[d].reserved = SumOfLanes(usage[d].laneReserved)
  BY DEF BookInv, TypeOK, ColumnsAgree
<1> QED
  BY <1>1, RowTotals

-----------------------------------------------------------------------------
(* Margins: what calls may use beyond their reservations. *)

\* No margin is larger than the slack.
LEMMA MarginRange ==
  ASSUME NEW calls, NEW d, NEW lanes
  PROVE  /\ IsFiniteSet(Settlers(calls, d, lanes))
         /\ Cardinality(Settlers(calls, d, lanes)) \in Nat
         /\ Margin(calls, d, lanes) \in Nat /\ Margin(calls, d, lanes) <= Slack
         /\ Slack \in Nat
<1> DEFINE S == Settlers(calls, d, lanes)
<1>1. N \in Nat /\ OVERRUN \in Nat
  BY BudgetAssumption
<1>2. IsFiniteSet(Callers) /\ Cardinality(Callers) = N
  <2>1. 1 \in Int /\ N \in Int
    BY <1>1
  <2>2. IsFiniteSet(1 .. N) /\ Cardinality(1 .. N) = IF 1 > N THEN 0 ELSE N - 1 + 1
    BY <2>1, FS_Interval
  <2> QED
    BY <1>1, <2>2 DEF Callers
<1>3. S \in SUBSET Callers
  BY DEF Settlers
<1>4. IsFiniteSet(S) /\ Cardinality(S) <= N
  BY <1>2, <1>3, FS_Subset
<1>5. Cardinality(S) \in Nat
  BY <1>4, FS_CardinalityType
<1> HIDE DEF S
<1>6. Cardinality(S) * OVERRUN <= N * OVERRUN
  BY <1>1, <1>4, <1>5, TimesGrows
<1>7. OVERRUN * Cardinality(S) = Cardinality(S) * OVERRUN
  BY <1>1, <1>5
<1>8. OVERRUN * Cardinality(S) \in Nat /\ N * OVERRUN \in Nat
  BY <1>1, <1>5
<1>9. Margin(calls, d, lanes) = OVERRUN * Cardinality(S) /\ Slack = N * OVERRUN
  BY DEF Margin, Slack, S
<1> QED
  BY <1>4, <1>5, <1>6, <1>7, <1>8, <1>9 DEF S

\* As long as no call opens in these lanes, the margin does not shrink.
LEMMA MarginStays ==
  ASSUME NEW calls, NEW after, NEW d, NEW lanes,
         Settlers(calls, d, lanes) \subseteq Settlers(after, d, lanes)
  PROVE  Margin(calls, d, lanes) <= Margin(after, d, lanes)
<1> DEFINE m == Cardinality(Settlers(calls, d, lanes))
           n == Cardinality(Settlers(after, d, lanes))
<1>1. m \in Nat /\ n \in Nat /\ IsFiniteSet(Settlers(after, d, lanes)) /\ OVERRUN \in Nat
  BY MarginRange, BudgetAssumption
<1>2. m <= n
  BY <1>1, FS_Subset
<1>3. Margin(calls, d, lanes) = OVERRUN * m /\ Margin(after, d, lanes) = OVERRUN * n
  BY DEF Margin
<1> HIDE DEF m, n
<1>4. m * OVERRUN <= n * OVERRUN
  BY <1>1, <1>2, TimesGrows
<1>5. OVERRUN * m = m * OVERRUN /\ OVERRUN * n = n * OVERRUN
  BY <1>1
<1> QED
  BY <1>3, <1>4, <1>5

\* A call that settles leaves a margin for what it used beyond its reservation.
LEMMA MarginSettles ==
  ASSUME NEW calls \in [Callers -> Call], NEW c \in Callers, calls[c].pc = "open",
         NEW lanes, calls[c].lane \in lanes
  PROVE  Margin([calls EXCEPT ![c] = NoCall], calls[c].day, lanes)
           = Margin(calls, calls[c].day, lanes) + OVERRUN
<1> DEFINE d == calls[c].day
           after == [calls EXCEPT ![c] = NoCall]
           S == Settlers(calls, d, lanes)
           T == Settlers(after, d, lanes)
<1>1. T = S \cup {c} /\ c \notin S
  <2>1. c \in T /\ c \notin S
    BY NoCallFacts DEF Settlers
  <2>2. \A b \in Callers : b # c => after[b] = calls[b]
    OBVIOUS
  <2>3. \A b \in Callers : b # c => (b \in S <=> b \in T)
    BY <2>2 DEF Settlers
  <2>4. S \subseteq Callers /\ T \subseteq Callers
    BY DEF Settlers
  <2> HIDE DEF S, T
  <2> QED
    BY <2>1, <2>3, <2>4
<1>2. IsFiniteSet(S) /\ Cardinality(S) \in Nat /\ OVERRUN \in Nat
  BY MarginRange, BudgetAssumption
<1>3. Margin(calls, d, lanes) = OVERRUN * Cardinality(S)
      /\ Margin(after, d, lanes) = OVERRUN * Cardinality(T)
  BY DEF Margin
<1> HIDE DEF S, T, d, after
<1>4. Cardinality(T) = Cardinality(S) + 1
  BY <1>1, <1>2, FS_AddElement
<1>5. OVERRUN * (Cardinality(S) + 1) = OVERRUN * Cardinality(S) + OVERRUN
  BY <1>2
<1> QED
  BY <1>3, <1>4, <1>5 DEF d, after

\* The calls that are open were open before.
OnlyEnds(calls, after) == \A c \in Callers : after[c].pc = "open" => after[c] = calls[c]

LEMMA EndsKeepMargins ==
  ASSUME NEW calls, NEW after, OnlyEnds(calls, after), NEW d, NEW lanes
  PROVE  Margin(calls, d, lanes) <= Margin(after, d, lanes)
<1>1. Settlers(calls, d, lanes) \subseteq Settlers(after, d, lanes)
  BY DEF OnlyEnds, Settlers
<1> QED
  BY <1>1, MarginStays

-----------------------------------------------------------------------------
(* Every step respects the limits. *)

\* The row of a day grows by no more than its margins.
InMargin(d) ==
  /\ Total(usage'[d]) + Margin(call, d, Lanes) <= Total(usage[d]) + Margin(call', d, Lanes)
  /\ RoutineTotal(usage'[d]) + Margin(call, d, Routine)
       <= RoutineTotal(usage[d]) + Margin(call', d, Routine)
  /\ \A l \in Lanes :
       LaneTotal(usage'[d], l) + Margin(call, d, {l})
         <= LaneTotal(usage[d], l) + Margin(call', d, {l})

\* Such rows stay within what does not shrink.
LEMMA BoundsStay ==
  ASSUME BookInv, BookInv', BoundInv, \A d \in Days : InMargin(d),
         \A d \in Days : d > today => usage'[d] = usage[d],
         today' = today, peak <= peak', slot <= slot'
  PROVE  BoundInv'
<1>1. peak \in Nat /\ peak' \in Nat /\ slot \in 0 .. SLOTS - 1 /\ slot' \in 0 .. SLOTS - 1
      /\ today \in Days
  BY BudgetAssumption DEF BookInv, TypeOK
<1>2. ASSUME NEW d \in Days
      PROVE  /\ Total(usage[d]) \in Nat /\ RoutineTotal(usage[d]) \in Nat
             /\ Total(usage'[d]) \in Nat /\ RoutineTotal(usage'[d]) \in Nat
             /\ \A l \in Lanes : LaneTotal(usage[d], l) \in Nat
             /\ \A l \in Lanes : LaneTotal(usage'[d], l) \in Nat
  <2>1. /\ usage'[d] \in Usage
        /\ usage'[d].used = SumOfLanes(usage'[d].laneUsed)
        /\ usage'[d].reserved = SumOfLanes(usage'[d].laneReserved)
    BY DEF BookInv, TypeOK, ColumnsAgree
  <2> QED
    BY <2>1, RowTotals, DayTotals
<1>3. \A d, lanes : Margin(call, d, lanes) \in Nat /\ Margin(call', d, lanes) \in Nat
  BY MarginRange
<1>4. TotalKept'
  <2> SUFFICES ASSUME NEW d \in Days
               PROVE  Total(usage'[d]) <= peak' + Margin(call', d, Lanes)
    BY DEF TotalKept
  <2>1. Total(usage[d]) <= peak + Margin(call, d, Lanes)
    BY DEF BoundInv, TotalKept
  <2>2. Total(usage'[d]) + Margin(call, d, Lanes) <= Total(usage[d]) + Margin(call', d, Lanes)
    BY DEF InMargin
  <2> QED
    BY <1>1, <1>2, <1>3, <2>1, <2>2
<1>5. TenthKept'
  <2> SUFFICES ASSUME NEW d \in Days
               PROVE  RoutineTotal(usage'[d])
                        <= peak' - Tenth(peak') + Margin(call', d, Routine)
    BY DEF TenthKept
  <2>1. /\ peak - Tenth(peak) <= peak' - Tenth(peak')
        /\ peak - Tenth(peak) \in Nat /\ peak' - Tenth(peak') \in Nat
    BY <1>1, TenthGrows
  <2>2. RoutineTotal(usage[d]) <= peak - Tenth(peak) + Margin(call, d, Routine)
    BY DEF BoundInv, TenthKept
  <2>3. RoutineTotal(usage'[d]) + Margin(call, d, Routine)
          <= RoutineTotal(usage[d]) + Margin(call', d, Routine)
    BY DEF InMargin
  <2> QED
    BY <1>2, <1>3, <2>1, <2>2, <2>3
<1>6. PaceKept'
  <2> SUFFICES ASSUME NEW lane \in Routine
               PROVE  /\ LaneTotal(usage'[today], lane)
                           <= PacedLimit(lane, peak', slot') + Margin(call', today, {lane})
                      /\ \A d \in Days : LaneTotal(usage'[d], lane)
                           <= LaneLimit(lane, peak') + Margin(call', d, {lane})
    BY DEF PaceKept
  <2>1. /\ LaneLimit(lane, peak) <= LaneLimit(lane, peak')
        /\ PacedLimit(lane, peak, slot) <= PacedLimit(lane, peak', slot')
        /\ LaneLimit(lane, peak) \in Nat /\ LaneLimit(lane, peak') \in Nat
        /\ PacedLimit(lane, peak, slot) \in Nat /\ PacedLimit(lane, peak', slot') \in Nat
    BY <1>1, SharesGrow
  <2>2. /\ LaneTotal(usage[today], lane)
             <= PacedLimit(lane, peak, slot) + Margin(call, today, {lane})
        /\ \A d \in Days :
             LaneTotal(usage[d], lane) <= LaneLimit(lane, peak) + Margin(call, d, {lane})
    BY DEF BoundInv, PaceKept
  <2>3. \A d \in Days : LaneTotal(usage'[d], lane) + Margin(call, d, {lane})
                          <= LaneTotal(usage[d], lane) + Margin(call', d, {lane})
    BY DEF InMargin, Lanes
  <2>4. \A d \in Days : LaneTotal(usage[d], lane) \in Nat /\ LaneTotal(usage'[d], lane) \in Nat
    BY <1>2 DEF Lanes
  <2>5. ASSUME NEW d \in Days, NEW x \in Nat, NEW y \in Nat, x <= y,
               LaneTotal(usage[d], lane) <= x + Margin(call, d, {lane})
        PROVE  LaneTotal(usage'[d], lane) <= y + Margin(call', d, {lane})
    <3>1. /\ Margin(call, d, {lane}) \in Nat /\ Margin(call', d, {lane}) \in Nat
          /\ LaneTotal(usage[d], lane) \in Nat /\ LaneTotal(usage'[d], lane) \in Nat
          /\ LaneTotal(usage'[d], lane) + Margin(call, d, {lane})
               <= LaneTotal(usage[d], lane) + Margin(call', d, {lane})
      BY <1>3, <2>3, <2>4
    <3> QED
      BY <2>5, <3>1
  <2> QED
    BY <1>1, <2>1, <2>2, <2>5
<1>7. Untouched'
  BY DEF BoundInv, Untouched
<1> QED
  BY <1>4, <1>5, <1>6, <1>7 DEF BoundInv

\* A row that stays is in its margins, when no call opens on its day.
LEMMA RowStays ==
  ASSUME BookInv, NEW d \in Days, usage'[d] = usage[d],
         \A lanes : Margin(call, d, lanes) <= Margin(call', d, lanes)
  PROVE  InMargin(d)
<1>1. \A lanes : Margin(call, d, lanes) \in Nat /\ Margin(call', d, lanes) \in Nat
  BY MarginRange
<1> QED
  BY <1>1, DayTotals DEF InMargin

\* A settlement adds at most what the response used beyond its reservation.
LEMMA SettleAdds ==
  ASSUME NEW u \in Usage, NEW v, NEW lane \in Lanes, NEW a \in Nat, NEW spent \in Nat,
         SettlesTo(u, v, lane, a, spent), spent <= a + OVERRUN
  PROVE  /\ Total(v) <= Total(u) + OVERRUN
         /\ LaneTotal(v, lane) <= LaneTotal(u, lane) + OVERRUN
         /\ \A l \in Lanes : l # lane => LaneTotal(v, l) = LaneTotal(u, l)
         /\ RoutineTotal(v) <= RoutineTotal(u) + (IF lane = "urgent" THEN 0 ELSE OVERRUN)
         /\ \A l \in Lanes : LaneTotal(v, l) \in Nat /\ LaneTotal(u, l) \in Nat
<1>1. v \in Usage /\ OVERRUN \in Nat
  BY BudgetAssumption DEF SettlesTo
<1>2. /\ u.used \in Nat /\ u.reserved \in Nat
      /\ v.used = u.used + spent /\ v.reserved = u.reserved - a
  BY DEF SettlesTo, Usage
<1>3. Total(v) <= Total(u) + OVERRUN
  BY <1>1, <1>2 DEF Total
<1>4. \A l \in Lanes : LaneTotal(v, l) \in Nat /\ LaneTotal(u, l) \in Nat
  <2>1. \A l \in Lanes : /\ u.laneUsed[l] \in Nat /\ u.laneReserved[l] \in Nat
                         /\ v.laneUsed[l] \in Nat /\ v.laneReserved[l] \in Nat
    BY <1>1 DEF Usage
  <2> QED
    BY <2>1 DEF LaneTotal
<1>5. LaneTotal(v, lane) <= LaneTotal(u, lane) + OVERRUN
  <2>1. v.laneUsed[lane] = u.laneUsed[lane] + spent
        /\ v.laneReserved[lane] = u.laneReserved[lane] - a
    BY DEF SettlesTo
  <2>2. u.laneUsed[lane] \in Nat /\ u.laneReserved[lane] \in Nat
    BY DEF Usage
  <2> QED
    BY <1>1, <2>1, <2>2 DEF LaneTotal
<1>6. \A l \in Lanes : l # lane => LaneTotal(v, l) = LaneTotal(u, l)
  BY DEF SettlesTo, LaneTotal
<1>7. /\ "event" \in Lanes /\ "fresh" \in Lanes /\ "backfill" \in Lanes
      /\ lane \in {"urgent", "event", "fresh", "backfill"}
  BY DEF Lanes, Routine
<1>8. RoutineTotal(v) <= RoutineTotal(u) + (IF lane = "urgent" THEN 0 ELSE OVERRUN)
  <2>1. CASE lane = "urgent"
    BY <1>4, <1>6, <1>7, <2>1 DEF RoutineTotal
  <2>2. CASE lane = "event"
    BY <1>1, <1>4, <1>5, <1>6, <1>7, <2>2 DEF RoutineTotal
  <2>3. CASE lane = "fresh"
    BY <1>1, <1>4, <1>5, <1>6, <1>7, <2>3 DEF RoutineTotal
  <2>4. CASE lane = "backfill"
    BY <1>1, <1>4, <1>5, <1>6, <1>7, <2>4 DEF RoutineTotal
  <2> QED
    BY <1>7, <2>1, <2>2, <2>3, <2>4
<1> QED
  BY <1>3, <1>4, <1>5, <1>6, <1>8

\* A settlement keeps the limits.
LEMMA SettleBounds ==
  ASSUME BookInv, BookInv', BoundInv, NEW c \in Callers, NEW spent \in Nat,
         SettlesAs(c, spent), spent <= call[c].amount + OVERRUN
  PROVE  BoundInv'
<1> DEFINE day == call[c].day
           lane == call[c].lane
           u == usage[day]
           v == usage'[day]
<1>1. /\ call[c].pc = "open" /\ call' = [call EXCEPT ![c] = NoCall]
      /\ today' = today /\ peak' = peak /\ slot' = slot
      /\ call \in [Callers -> Call]
  BY DEF SettlesAs, BookInv, TypeOK
<1>2. /\ day \in Days /\ lane \in Lanes /\ call[c].amount \in Nat
      /\ \A d \in Days : d # day => usage'[d] = usage[d]
      /\ SettlesTo(u, v, lane, call[c].amount, spent)
  BY SettledRow
<1>3. /\ Total(v) <= Total(u) + OVERRUN
      /\ LaneTotal(v, lane) <= LaneTotal(u, lane) + OVERRUN
      /\ \A l \in Lanes : l # lane => LaneTotal(v, l) = LaneTotal(u, l)
      /\ RoutineTotal(v) <= RoutineTotal(u) + (IF lane = "urgent" THEN 0 ELSE OVERRUN)
      /\ \A l \in Lanes : LaneTotal(v, l) \in Nat /\ LaneTotal(u, l) \in Nat
  <2>1. u \in Usage
    BY <1>2 DEF BookInv, TypeOK
  <2> QED
    BY <1>2, <2>1, SettleAdds
<1>4. \A d, lanes : /\ Margin(call, d, lanes) <= Margin(call', d, lanes)
                    /\ Margin(call, d, lanes) \in Nat /\ Margin(call', d, lanes) \in Nat
  <2>1. OnlyEnds(call, call')
    BY <1>1, NoCallFacts DEF OnlyEnds
  <2> QED
    BY <2>1, EndsKeepMargins, MarginRange
<1>5. \A lanes : lane \in lanes => Margin(call', day, lanes) = Margin(call, day, lanes) + OVERRUN
  BY <1>1, MarginSettles
<1>6. InMargin(day)
  <2>1. /\ Total(u) \in Nat /\ RoutineTotal(u) \in Nat /\ OVERRUN \in Nat
        /\ Total(v) \in Nat /\ RoutineTotal(v) \in Nat
    <3>1. /\ v \in Usage /\ v.used = SumOfLanes(v.laneUsed)
          /\ v.reserved = SumOfLanes(v.laneReserved)
      BY <1>2 DEF BookInv, TypeOK, ColumnsAgree
    <3> QED
      BY <1>2, <3>1, DayTotals, RowTotals, BudgetAssumption
  <2>2. lane \in {lane} /\ (lane # "urgent" => lane \in Routine)
    BY <1>2 DEF Lanes
  <2> HIDE DEF day, lane, u, v
  <2>3. Total(v) + Margin(call, day, Lanes) <= Total(u) + Margin(call', day, Lanes)
    <3>1. Margin(call', day, Lanes) = Margin(call, day, Lanes) + OVERRUN
      BY <1>2, <1>5
    <3> QED
      BY <1>3, <1>4, <2>1, <3>1
  <2>4. RoutineTotal(v) + Margin(call, day, Routine)
          <= RoutineTotal(u) + Margin(call', day, Routine)
    <3>1. CASE lane = "urgent"
      BY <1>3, <1>4, <2>1, <3>1
    <3>2. CASE lane # "urgent"
      <4>1. Margin(call', day, Routine) = Margin(call, day, Routine) + OVERRUN
        BY <1>5, <2>2, <3>2
      <4> QED
        BY <1>3, <1>4, <2>1, <3>2, <4>1
    <3> QED
      BY <3>1, <3>2
  <2>5. ASSUME NEW l \in Lanes
        PROVE  LaneTotal(v, l) + Margin(call, day, {l})
                 <= LaneTotal(u, l) + Margin(call', day, {l})
    <3>1. CASE l = lane
      <4>1. Margin(call', day, {l}) = Margin(call, day, {l}) + OVERRUN
        BY <1>5, <2>2, <3>1
      <4> QED
        BY <1>3, <1>4, <2>1, <3>1, <4>1
    <3>2. CASE l # lane
      BY <1>3, <1>4, <3>2
    <3> QED
      BY <3>1, <3>2
  <2> QED
    BY <2>3, <2>4, <2>5 DEF InMargin, u, v
<1>7. \A d \in Days : InMargin(d)
  BY <1>2, <1>4, <1>6, RowStays
<1>8. day <= today /\ peak <= peak' /\ slot <= slot' /\ today \in Nat /\ day \in Nat
  <2>1. day <= today /\ today \in Days /\ peak \in Limits /\ slot \in 0 .. SLOTS - 1
    BY <1>1 DEF BookInv, TypeOK, CallShape
  <2> HIDE DEF day
  <2> QED
    BY <1>1, <1>2, <2>1, BudgetAssumption
<1>9. \A d \in Days : d > today => usage'[d] = usage[d]
  BY <1>2, <1>8, BudgetAssumption
<1> QED
  BY <1>1, <1>7, <1>8, <1>9, BoundsStay

\* A reservation adds to the total and to one lane.
LEMMA ReserveAdds ==
  ASSUME NEW u \in Usage, NEW lane \in Lanes, NEW a \in Nat, NEW v,
         v = Reserved(u, lane, a)
  PROVE  /\ Total(v) = Total(u) + a
         /\ LaneTotal(v, lane) = LaneTotal(u, lane) + a
         /\ \A l \in Lanes : l # lane => LaneTotal(v, l) = LaneTotal(u, l)
         /\ RoutineTotal(v) = RoutineTotal(u) + (IF lane = "urgent" THEN 0 ELSE a)
<1>1. /\ v.used = u.used /\ v.reserved = u.reserved + a
      /\ v.laneUsed = u.laneUsed
      /\ v.laneReserved = [u.laneReserved EXCEPT ![lane] = u.laneReserved[lane] + a]
  BY ReservedFacts
<1>2. /\ u.used \in Nat /\ u.reserved \in Nat /\ u.laneUsed \in [Lanes -> Nat]
      /\ u.laneReserved \in [Lanes -> Nat]
  BY DEF Usage
<1>3. Total(v) = Total(u) + a
  BY <1>1, <1>2 DEF Total
<1>4. /\ v.laneReserved[lane] = u.laneReserved[lane] + a
      /\ \A l \in Lanes : l # lane => v.laneReserved[l] = u.laneReserved[l]
      /\ \A l \in Lanes : u.laneReserved[l] \in Nat /\ u.laneUsed[l] \in Nat
  BY <1>1, <1>2
<1>5. /\ LaneTotal(v, lane) = LaneTotal(u, lane) + a
      /\ \A l \in Lanes : l # lane => LaneTotal(v, l) = LaneTotal(u, l)
      /\ \A l \in Lanes : LaneTotal(u, l) \in Nat
  BY <1>1, <1>4 DEF LaneTotal
<1>6. /\ "event" \in Lanes /\ "fresh" \in Lanes /\ "backfill" \in Lanes
      /\ lane \in {"urgent", "event", "fresh", "backfill"}
  BY DEF Lanes, Routine
<1>7. RoutineTotal(v) = RoutineTotal(u) + (IF lane = "urgent" THEN 0 ELSE a)
  <2>1. CASE lane = "urgent"
    BY <1>5, <1>6, <2>1 DEF RoutineTotal
  <2>2. CASE lane = "event"
    BY <1>5, <1>6, <2>2 DEF RoutineTotal
  <2>3. CASE lane = "fresh"
    BY <1>5, <1>6, <2>3 DEF RoutineTotal
  <2>4. CASE lane = "backfill"
    BY <1>5, <1>6, <2>4 DEF RoutineTotal
  <2> QED
    BY <1>6, <2>1, <2>2, <2>3, <2>4
<1> QED
  BY <1>3, <1>5, <1>7

\* What fits beside the reserve for urgent calls leaves them their tenth.
LEMMA RoomBesideTenth ==
  ASSUME NEW u \in Usage, NEW max \in Nat, NEW lane \in Routine, NEW a \in Nat,
         u.used = SumOfLanes(u.laneUsed), u.reserved = SumOfLanes(u.laneReserved),
         Fits(u, max, lane, a)
  PROVE  RoutineTotal(u) + a <= max - Tenth(max)
<1> DEFINE urgent == LaneTotal(u, "urgent")
           tenth == Tenth(max)
<1>1. /\ urgent \in Nat /\ RoutineTotal(u) \in Nat /\ Total(u) = urgent + RoutineTotal(u)
  BY RowTotals DEF Lanes
<1>2. /\ Total(u) + a <= max
      /\ Total(u) + a <= max - (IF urgent < tenth THEN tenth - urgent ELSE 0)
  BY DEF Fits, UrgentReserve
<1>3. tenth \in Nat
  BY TenthGrows
<1> HIDE DEF urgent, tenth
<1>4. RoutineTotal(u) + a <= max - tenth
  BY <1>1, <1>2, <1>3
<1> QED
  BY <1>4 DEF tenth

\* A margin that the new call has no part in stays.
LEMMA MarginBeside ==
  ASSUME NEW calls \in [Callers -> Call], NEW c \in Callers, calls[c].pc # "open",
         NEW d, NEW lanes, calls[c].day # d \/ calls[c].lane \notin lanes
  PROVE  Margin(calls, d, lanes) <= Margin([calls EXCEPT ![c].pc = "open"], d, lanes)
<1> DEFINE after == [calls EXCEPT ![c].pc = "open"]
<1>1. \A b \in Callers : b # c => after[b] = calls[b]
  OBVIOUS
<1>2. after[c].day = calls[c].day /\ after[c].lane = calls[c].lane
  BY DEF Call
<1>3. Settlers(calls, d, lanes) \subseteq Settlers(after, d, lanes)
  <2> SUFFICES ASSUME NEW b \in Callers, b \in Settlers(calls, d, lanes)
               PROVE  b \in Settlers(after, d, lanes)
    BY DEF Settlers
  <2>1. CASE b = c
    BY <1>2, <2>1 DEF Settlers
  <2>2. CASE b # c
    <3>1. after[b] = calls[b]
      BY <1>1, <2>2
    <3> HIDE DEF after
    <3> QED
      BY <3>1 DEF Settlers
  <2> QED
    BY <2>1, <2>2
<1> QED
  BY <1>3, MarginStays

\* An admitted call keeps the limits (services.py:96-111): it found room below them,
\* whatever the calls before it used.
LEMMA AdmitBounds ==
  ASSUME BookInv, BookInv', BoundInv, NEW c \in Callers, Admit(c)
  PROVE  BoundInv'
<1> DEFINE day == call[c].day
           lane == call[c].lane
           a == call[c].amount
           max == call[c].seen
           u == usage[day]
           v == usage'[day]
<1>1. /\ call[c].pc = "asking" /\ call[c] \in Call /\ call \in [Callers -> Call]
      /\ usage' = [usage EXCEPT ![day] = Reserved(u, lane, a)]
      /\ call' = [call EXCEPT ![c].pc = "open"]
      /\ UNCHANGED <<limit, peak, today, slot>>
      /\ Fits(u, max, lane, a) /\ InPace(u, max, lane, a, slot)
  BY DEF Admit, BookInv, TypeOK
<1>2. /\ day \in Days /\ lane \in Lanes /\ a \in Nat /\ max \in Nat
      /\ usage \in [Days -> Usage] /\ u \in Usage /\ max <= peak /\ day <= today
  BY <1>1 DEF Call, BookInv, TypeOK, CallShape
<1>3. /\ v = Reserved(u, lane, a)
      /\ \A d \in Days : d # day => usage'[d] = usage[d]
  BY <1>1, <1>2
<1>4. /\ Total(v) = Total(u) + a
      /\ LaneTotal(v, lane) = LaneTotal(u, lane) + a
      /\ \A l \in Lanes : l # lane => LaneTotal(v, l) = LaneTotal(u, l)
      /\ RoutineTotal(v) = RoutineTotal(u) + (IF lane = "urgent" THEN 0 ELSE a)
  BY <1>2, <1>3, ReserveAdds
<1>5. /\ Total(u) \in Nat /\ RoutineTotal(u) \in Nat
      /\ \A l \in Lanes : LaneTotal(u, l) \in Nat
  BY <1>2, DayTotals
<1>6. /\ peak \in Nat /\ today \in Nat /\ day \in Nat /\ peak' = peak /\ today' = today
      /\ slot' = slot /\ slot \in 0 .. SLOTS - 1 /\ today \in Days
  BY <1>1, <1>2, BudgetAssumption DEF BookInv, TypeOK
<1>7. Routine \subseteq Lanes /\ "urgent" \notin Routine
      /\ (lane # "urgent" => lane \in Routine)
  BY <1>2 DEF Lanes, Routine
<1>8. \A d, lanes : /\ Margin(call, d, lanes) \in Nat /\ Margin(call', d, lanes) \in Nat
                    /\ d # day \/ lane \notin lanes =>
                         Margin(call, d, lanes) <= Margin(call', d, lanes)
  BY <1>1, MarginRange, MarginBeside
<1> HIDE DEF day, lane, a, max, u, v
<1>9. \A d \in Days : d # day =>
        /\ Total(usage'[d]) = Total(usage[d]) /\ RoutineTotal(usage'[d]) = RoutineTotal(usage[d])
        /\ \A l \in Lanes : LaneTotal(usage'[d], l) = LaneTotal(usage[d], l)
        /\ Total(usage[d]) \in Nat /\ RoutineTotal(usage[d]) \in Nat
        /\ \A l \in Lanes : LaneTotal(usage[d], l) \in Nat
  BY <1>3, DayTotals
<1>10. TotalKept'
  <2> SUFFICES ASSUME NEW d \in Days
               PROVE  Total(usage'[d]) <= peak + Margin(call', d, Lanes)
    BY <1>6 DEF TotalKept
  <2>1. CASE d = day
    <3>1. Total(u) + a <= max
      BY <1>1 DEF Fits
    <3>2. Total(v) <= peak
      BY <1>2, <1>4, <1>5, <1>6, <3>1
    <3> QED
      BY <1>2, <1>4, <1>5, <1>6, <1>8, <2>1, <3>2 DEF v
  <2>2. CASE d # day
    <3>1. Total(usage[d]) <= peak + Margin(call, d, Lanes)
      BY DEF BoundInv, TotalKept
    <3> QED
      BY <1>6, <1>8, <1>9, <2>2, <3>1
  <2> QED
    BY <2>1, <2>2
<1>11. TenthKept'
  <2> SUFFICES ASSUME NEW d \in Days
               PROVE  RoutineTotal(usage'[d]) <= peak - Tenth(peak) + Margin(call', d, Routine)
    BY <1>6 DEF TenthKept
  <2>1. RoutineTotal(usage[d]) <= peak - Tenth(peak) + Margin(call, d, Routine)
    BY DEF BoundInv, TenthKept
  <2>2. peak - Tenth(peak) \in Nat
    <3>1. peak <= peak
      BY <1>6
    <3> QED
      BY <1>6, <3>1, TenthGrows
  <2>3. CASE d # day
    BY <1>8, <1>9, <2>1, <2>2, <2>3
  <2>4. CASE d = day /\ lane = "urgent"
    <3>1. RoutineTotal(usage'[d]) = RoutineTotal(usage[d])
      BY <1>4, <1>5, <2>4 DEF u, v
    <3>2. Margin(call, d, Routine) <= Margin(call', d, Routine)
      BY <1>7, <1>8, <2>4
    <3>3. RoutineTotal(usage[d]) \in Nat
      BY <1>5, <2>4 DEF u
    <3> QED
      BY <1>8, <2>1, <2>2, <3>1, <3>2, <3>3
  <2>5. CASE d = day /\ lane # "urgent"
    <3>1. u.used = SumOfLanes(u.laneUsed) /\ u.reserved = SumOfLanes(u.laneReserved)
      BY <1>2 DEF BookInv, ColumnsAgree, u
    <3>2. RoutineTotal(u) + a <= max - Tenth(max)
      BY <1>1, <1>2, <1>7, <2>5, <3>1, RoomBesideTenth
    <3>3. /\ max - Tenth(max) <= peak - Tenth(peak)
          /\ max - Tenth(max) \in Nat
      BY <1>2, <1>6, TenthGrows
    <3>4. RoutineTotal(v) <= peak - Tenth(peak)
      BY <1>2, <1>4, <1>5, <2>2, <2>5, <3>2, <3>3
    <3>5. RoutineTotal(v) \in Nat
      BY <1>2, <1>4, <1>5
    <3> QED
      BY <1>8, <2>2, <2>5, <3>4, <3>5 DEF v
  <2> QED
    BY <2>3, <2>4, <2>5
<1>12. PaceKept'
  <2> SUFFICES ASSUME NEW l \in Routine
               PROVE  /\ LaneTotal(usage'[today], l)
                           <= PacedLimit(l, peak, slot) + Margin(call', today, {l})
                      /\ \A d \in Days : LaneTotal(usage'[d], l)
                           <= LaneLimit(l, peak) + Margin(call', d, {l})
    BY <1>6 DEF PaceKept
  <2>1. /\ LaneTotal(usage[today], l) <= PacedLimit(l, peak, slot) + Margin(call, today, {l})
        /\ \A d \in Days : LaneTotal(usage[d], l) <= LaneLimit(l, peak) + Margin(call, d, {l})
    BY DEF BoundInv, PaceKept
  <2>2. /\ LaneLimit(l, max) <= LaneLimit(l, peak)
        /\ PacedLimit(l, max, slot) <= PacedLimit(l, peak, slot)
        /\ LaneLimit(l, max) \in Nat /\ LaneLimit(l, peak) \in Nat
        /\ PacedLimit(l, max, slot) \in Nat /\ PacedLimit(l, peak, slot) \in Nat
    BY <1>2, <1>6, SharesGrow
  <2>3. ASSUME NEW d \in Days, d # day \/ l # lane
        PROVE  /\ LaneTotal(usage'[d], l) = LaneTotal(usage[d], l)
               /\ LaneTotal(usage[d], l) \in Nat
               /\ Margin(call, d, {l}) <= Margin(call', d, {l})
    <3>1. CASE d # day
      BY <1>7, <1>8, <1>9, <3>1
    <3>2. CASE d = day /\ l # lane
      <4>1. lane \notin {l}
        BY <3>2
      <4> QED
        BY <1>4, <1>5, <1>7, <1>8, <3>2, <4>1 DEF u, v
    <3> QED
      BY <2>3, <3>1, <3>2
  <2>4. l = lane => LaneTotal(v, l) <= LaneLimit(l, peak)
                    /\ LaneTotal(v, l) <= PacedLimit(l, peak, slot)
                    /\ LaneTotal(v, l) \in Nat
    <3> SUFFICES ASSUME l = lane
                 PROVE  LaneTotal(v, l) <= LaneLimit(l, peak)
                        /\ LaneTotal(v, l) <= PacedLimit(l, peak, slot)
                        /\ LaneTotal(v, l) \in Nat
      OBVIOUS
    <3>1. /\ LaneTotal(u, l) + a <= LaneLimit(l, max)
          /\ LaneTotal(u, l) + a <= PacedLimit(l, max, slot)
      BY <1>1 DEF Fits, InPace
    <3>2. LaneTotal(u, l) \in Nat
      BY <1>5, <1>7
    <3> QED
      BY <1>2, <1>4, <2>2, <3>1, <3>2
  <2>5. ASSUME NEW d \in Days
        PROVE  /\ LaneTotal(usage'[d], l) <= LaneLimit(l, peak) + Margin(call', d, {l})
               /\ d = today =>
                    LaneTotal(usage'[d], l) <= PacedLimit(l, peak, slot) + Margin(call', d, {l})
    <3>1. CASE d # day \/ l # lane
      <4>1. /\ LaneTotal(usage[d], l) <= LaneLimit(l, peak) + Margin(call, d, {l})
            /\ d = today =>
                 LaneTotal(usage[d], l) <= PacedLimit(l, peak, slot) + Margin(call, d, {l})
        BY <2>1
      <4>2. Margin(call, d, {l}) \in Nat /\ Margin(call', d, {l}) \in Nat
        BY <1>8
      <4> QED
        BY <2>2, <2>3, <3>1, <4>1, <4>2
    <3>2. CASE d = day /\ l = lane
      <4>1. /\ LaneTotal(usage'[d], l) <= LaneLimit(l, peak)
            /\ LaneTotal(usage'[d], l) <= PacedLimit(l, peak, slot)
            /\ LaneTotal(usage'[d], l) \in Nat
        BY <2>4, <3>2 DEF v
      <4>2. Margin(call', d, {l}) \in Nat
        BY <1>8
      <4> QED
        BY <2>2, <4>1, <4>2
    <3> QED
      BY <3>1, <3>2
  <2> QED
    BY <1>6, <2>5
<1>13. Untouched'
  <2> SUFFICES ASSUME NEW d \in Days, d > today, NEW l \in Lanes
               PROVE  LaneTotal(usage'[d], l) = 0
    BY <1>6 DEF Untouched
  <2>1. d # day
    BY <1>2, <1>6
  <2> QED
    BY <1>3, <2>1 DEF BoundInv, Untouched
<1> QED
  BY <1>10, <1>11, <1>12, <1>13 DEF BoundInv

\* Tomorrow nothing is used yet, so that every lane is in pace at midnight.
LEMMA MidnightBounds ==
  ASSUME BookInv, BookInv', BoundInv, Midnight
  PROVE  BoundInv'
<1>1. /\ today + 1 \in Days /\ today' = today + 1 /\ slot' = 0
      /\ UNCHANGED <<usage, call, peak>> /\ today \in Nat /\ peak \in Nat
      /\ slot' \in 0 .. SLOTS - 1
  BY BudgetAssumption DEF Midnight, BookInv, TypeOK
<1>2. TotalKept' /\ TenthKept'
  BY <1>1 DEF BoundInv, TotalKept, TenthKept
<1>3. PaceKept'
  <2> SUFFICES ASSUME NEW lane \in Routine
               PROVE  /\ LaneTotal(usage[today + 1], lane)
                           <= PacedLimit(lane, peak, slot') + Margin(call, today + 1, {lane})
                      /\ \A d \in Days : LaneTotal(usage[d], lane)
                           <= LaneLimit(lane, peak) + Margin(call, d, {lane})
    BY <1>1 DEF PaceKept
  <2>1. LaneTotal(usage[today + 1], lane) = 0
    BY <1>1 DEF BoundInv, Untouched, Lanes
  <2>2. PacedLimit(lane, peak, slot') \in Nat
    <3>1. peak <= peak /\ slot' <= slot'
      BY <1>1
    <3> QED
      BY <1>1, <3>1, SharesGrow
  <2>3. Margin(call, today + 1, {lane}) \in Nat
    BY MarginRange
  <2>4. LaneTotal(usage[today + 1], lane)
          <= PacedLimit(lane, peak, slot') + Margin(call, today + 1, {lane})
    BY <2>1, <2>2, <2>3
  <2> QED
    BY <2>4 DEF BoundInv, PaceKept
<1>4. Untouched'
  <2> SUFFICES ASSUME NEW d \in Days, d > today + 1
               PROVE  \A l \in Lanes : LaneTotal(usage[d], l) = 0
    BY <1>1 DEF Untouched
  <2>1. d > today
    BY <1>1, BudgetAssumption
  <2> QED
    BY <2>1 DEF BoundInv, Untouched
<1> QED
  BY <1>2, <1>3, <1>4 DEF BoundInv

\* At first nothing is used.
LEMMA BoundInit == Init => BoundInv
<1> SUFFICES ASSUME Init PROVE BoundInv
  OBVIOUS
<1>1. /\ BookInv /\ peak \in Nat /\ slot \in 0 .. SLOTS - 1 /\ today \in Days
  BY BookInit, BudgetAssumption DEF BookInv, TypeOK
<1>2. ASSUME NEW d \in Days
      PROVE  /\ Total(usage[d]) = 0 /\ RoutineTotal(usage[d]) = 0
             /\ \A l \in Lanes : LaneTotal(usage[d], l) = 0
  <2>1. usage[d] = NoUsage
    BY DEF Init
  <2>2. Total(NoUsage) = 0 /\ \A l \in Lanes : LaneTotal(NoUsage, l) = 0
    BY DEF Total, LaneTotal, NoUsage
  <2>3. RoutineTotal(NoUsage) = 0
    BY <2>2 DEF RoutineTotal, Lanes, Routine
  <2> QED
    BY <2>1, <2>2, <2>3
<1>3. \A d, lanes : Margin(call, d, lanes) \in Nat
  BY MarginRange
<1>4. TotalKept
  BY <1>1, <1>2, <1>3 DEF TotalKept
<1>5. TenthKept
  <2>1. peak <= peak
    BY <1>1
  <2>2. peak - Tenth(peak) \in Nat
    BY <1>1, <2>1, TenthGrows
  <2> QED
    BY <1>2, <1>3, <2>2 DEF TenthKept
<1>6. PaceKept
  <2> SUFFICES ASSUME NEW lane \in Routine
               PROVE  /\ LaneTotal(usage[today], lane)
                           <= PacedLimit(lane, peak, slot) + Margin(call, today, {lane})
                      /\ \A d \in Days : LaneTotal(usage[d], lane)
                           <= LaneLimit(lane, peak) + Margin(call, d, {lane})
    BY DEF PaceKept
  <2>1. peak <= peak /\ slot <= slot
    BY <1>1
  <2>2. PacedLimit(lane, peak, slot) \in Nat /\ LaneLimit(lane, peak) \in Nat
    BY <1>1, <2>1, SharesGrow
  <2>3. lane \in Lanes
    BY DEF Lanes
  <2> QED
    BY <1>1, <1>2, <1>3, <2>2, <2>3
<1>7. Untouched
  BY <1>2 DEF Untouched
<1> QED
  BY <1>4, <1>5, <1>6, <1>7 DEF BoundInv

\* Every step keeps the limits.
LEMMA BoundNext == BookInv /\ BookInv' /\ BoundInv /\ [Next]_vars => BoundInv'
<1> SUFFICES ASSUME BookInv, BookInv', BoundInv, [Next]_vars PROVE BoundInv'
  OBVIOUS
<1>1. peak \in Nat /\ slot \in Nat
  BY BudgetAssumption DEF BookInv, TypeOK
<1>2. ASSUME usage' = usage, OnlyEnds(call, call'), today' = today, peak <= peak', slot <= slot'
      PROVE  BoundInv'
  <2>1. \A d \in Days : InMargin(d)
    BY <1>2, EndsKeepMargins, RowStays
  <2> QED
    BY <1>2, <2>1, BoundsStay
<1>3. CASE \E c \in Callers, lane \in Asked, amount \in Amounts : Ask(c, lane, amount)
  <2>1. OnlyEnds(call, call')
    BY <1>3 DEF Ask, OnlyEnds, BookInv, TypeOK
  <2> QED
    BY <1>1, <1>2, <1>3, <2>1 DEF Ask
<1>4. CASE \E c \in Callers : Admit(c)
  BY <1>4, AdmitBounds
<1>5. CASE \E c \in Callers : Refuse(c) \/ Crash(c)
  <2>1. OnlyEnds(call, call')
    BY <1>5, NoCallFacts DEF Refuse, Crash, OnlyEnds, BookInv, TypeOK
  <2> QED
    BY <1>1, <1>2, <1>5, <2>1 DEF Refuse, Crash
<1>6. CASE \E c \in Callers, spent \in Usages : Settle(c, spent)
  BY <1>6, SettleIs, SettleBounds
<1>7. CASE \E c \in Callers : SettleUnknown(c)
  <2> SUFFICES ASSUME NEW c \in Callers, SettleUnknown(c) PROVE BoundInv'
    BY <1>7
  <2>1. call[c].amount \in Nat /\ SettlesAs(c, call[c].amount)
    BY SettleIs
  <2>2. call[c].amount <= call[c].amount + OVERRUN
    BY <2>1, BudgetAssumption
  <2> QED
    BY <2>1, <2>2, SettleBounds
<1>8. CASE (\E max \in Limits : SetLimit(max)) \/ LaterToday
  <2>1. /\ usage' = usage /\ call' = call /\ today' = today /\ peak <= peak' /\ slot <= slot'
    BY <1>1, <1>8, BudgetAssumption DEF SetLimit, LaterToday
  <2>2. OnlyEnds(call, call')
    BY <2>1 DEF OnlyEnds
  <2> QED
    BY <1>2, <2>1, <2>2
<1>9. CASE Midnight
  BY <1>9, MidnightBounds
<1>10. CASE UNCHANGED vars
  BY <1>1, <1>2, <1>10 DEF vars, OnlyEnds
<1> QED
  BY <1>3, <1>4, <1>5, <1>6, <1>7, <1>8, <1>9, <1>10 DEF Next

-----------------------------------------------------------------------------
(* What follows from the invariants. *)

\* The limits with all of the slack.
LEMMA LimitsWithSlack == BookInv /\ BoundInv => DailyLimit /\ LanePace
<1> SUFFICES ASSUME BookInv, BoundInv PROVE DailyLimit /\ LanePace
  OBVIOUS
<1>1. peak \in Nat /\ today \in Days /\ slot \in 0 .. SLOTS - 1
  BY BudgetAssumption DEF BookInv, TypeOK
<1>2. /\ \A d, lanes : Margin(call, d, lanes) \in Nat /\ Margin(call, d, lanes) <= Slack
      /\ Slack \in Nat
  BY MarginRange
<1>3. DailyLimit
  <2> SUFFICES ASSUME NEW d \in Days PROVE Total(usage[d]) <= peak + Slack
    BY DEF DailyLimit
  <2>1. Total(usage[d]) <= peak + Margin(call, d, Lanes) /\ Total(usage[d]) \in Nat
    BY DayTotals DEF BoundInv, TotalKept
  <2> QED
    BY <1>1, <1>2, <2>1
<1>4. LanePace
  <2> SUFFICES ASSUME NEW lane \in Routine
               PROVE  /\ LaneTotal(usage[today], lane) <= PacedLimit(lane, peak, slot) + Slack
                      /\ \A d \in Days : LaneTotal(usage[d], lane) <= LaneLimit(lane, peak) + Slack
    BY DEF LanePace
  <2>1. peak <= peak /\ slot <= slot
    BY <1>1
  <2>2. PacedLimit(lane, peak, slot) \in Nat /\ LaneLimit(lane, peak) \in Nat
    BY <1>1, <2>1, SharesGrow
  <2>3. \A d \in Days : LaneTotal(usage[d], lane) \in Nat
    BY DayTotals DEF Lanes
  <2>4. /\ LaneTotal(usage[today], lane)
             <= PacedLimit(lane, peak, slot) + Margin(call, today, {lane})
        /\ \A d \in Days :
             LaneTotal(usage[d], lane) <= LaneLimit(lane, peak) + Margin(call, d, {lane})
    BY DEF BoundInv, PaceKept
  <2> QED
    BY <1>1, <1>2, <2>2, <2>3, <2>4
<1> QED
  BY <1>3, <1>4

\* An urgent call finds its tenth.
LEMMA TenthForUrgent == BookInv /\ BoundInv => UrgentTenth
<1> SUFFICES ASSUME BookInv, BoundInv, NEW c \in Callers,
                    call[c].pc = "asking", call[c].lane = "urgent", call[c].seen = peak,
                    LaneTotal(usage[call[c].day], "urgent") + call[c].amount + Slack
                      <= Tenth(peak)
             PROVE  Fits(usage[call[c].day], call[c].seen, call[c].lane, call[c].amount)
  BY DEF UrgentTenth
<1> DEFINE d == call[c].day
           urgent == LaneTotal(usage[d], "urgent")
           others == RoutineTotal(usage[d])
           a == call[c].amount
<1>1. d \in Days /\ a \in Nat /\ peak \in Nat
  BY BudgetAssumption DEF BookInv, TypeOK, Call
<1>2. urgent \in Nat /\ others \in Nat /\ Total(usage[d]) = urgent + others
  BY <1>1, DayTotals DEF Lanes
<1>3. others <= peak - Tenth(peak) + Margin(call, d, Routine)
  BY <1>1 DEF BoundInv, TenthKept
<1>4. /\ Margin(call, d, Routine) \in Nat /\ Margin(call, d, Routine) <= Slack
      /\ Slack \in Nat
  BY MarginRange
<1>5. Tenth(peak) \in Nat
  <2>1. peak <= peak
    BY <1>1
  <2> QED
    BY <1>1, <2>1, TenthGrows
<1>6. Total(usage[d]) + a <= peak
  BY <1>1, <1>2, <1>3, <1>4, <1>5
<1>7. "urgent" \notin Routine
  BY DEF Routine
<1> QED
  BY <1>6, <1>7 DEF Fits

-----------------------------------------------------------------------------
(* Theorems. *)

\* Limits and books hold together.
THEOREM LimitsInvariant == Spec => [](BookInv /\ BoundInv)
<1>1. Init => BookInv /\ BoundInv
  BY BookInit, BoundInit
<1>2. BookInv /\ BoundInv /\ [Next]_vars => (BookInv /\ BoundInv)'
  BY BookNext, BoundNext
<1> QED
  BY <1>1, <1>2, PTL DEF Spec

\* No day's spending and promises pass the highest limit by more than the calls under
\* way exceed their reservations (docs/architecture.md:31).
THEOREM WithinLimit == Spec => []DailyLimit
<1>1. BookInv /\ BoundInv => DailyLimit
  BY LimitsWithSlack
<1> QED
  BY <1>1, LimitsInvariant, PTL

\* Urgent calls find their tenth (services.py:76-77, 98-100).
THEOREM UrgentFindsTenth == Spec => []UrgentTenth
<1>1. BookInv /\ BoundInv => UrgentTenth
  BY TenthForUrgent
<1> QED
  BY <1>1, LimitsInvariant, PTL

\* No routine lane runs ahead of the hour by more than that (services.py:103-111).
THEOREM LanesInPace == Spec => []LanePace
<1>1. BookInv /\ BoundInv => LanePace
  BY LimitsWithSlack
<1> QED
  BY <1>1, LimitsInvariant, PTL

=============================================================================
