---------------------------- MODULE TokenBudget ----------------------------
(***************************************************************************)
(* The daily token budget of app/ai/services.py: reserve() before and      *)
(* settle() after every provider call, by callers 1 .. N that run          *)
(* concurrently (AI workers), across midnight, with crashes in between and *)
(* with an administrator who changes the limit.                            *)
(*                                                                         *)
(* reserve() reads the limit and the date before it waits for the row of   *)
(* the day (Ask), and decides under the row lock (Admit, Refuse).          *)
(* A lane's share of the limit grows over the day; the time of day is a    *)
(* slot 0 .. SLOTS - 1.  StartShare and FullShare are the fractions of     *)
(* LANE_LIMITS, in percent.  The column `estimated', a part of `used' that *)
(* is only displayed, is left out.                                         *)
(*                                                                         *)
(* A definition marked `Fault' is a variant of the one that follows it, in *)
(* which one thing is wrong and which must break a property.               *)
(***************************************************************************)
EXTENDS Integers

CONSTANTS
  N,           \* number of concurrent callers
  Days,        \* calendar days
  FirstDay,    \* the day the system starts on
  Asked,       \* the lanes that have work to do
  Amounts,     \* the reservations response_call() computes
  Usages,      \* what a response reports to have used
  Limits,      \* the values of ai_daily_tokens
  StartShare,  \* the share of the limit a routine lane has at midnight
  FullShare,   \* the share it has at the end of the day
  URGENT_PART, \* the urgent lane's last tenth is this part of the limit: 10
  SLOTS,       \* divisions of a day
  OVERRUN      \* by how much a response may exceed its reservation

Callers == 1 .. N
Routine == {"event", "fresh", "backfill"}
Lanes == Routine \cup {"urgent"}

ASSUME BudgetAssumption ==
  /\ N \in Nat
  /\ Days \subseteq Nat /\ FirstDay \in Days
  /\ Asked \subseteq Lanes
  /\ Amounts \subseteq Nat
  /\ Usages \subseteq Nat
  /\ Limits \subseteq Nat
  /\ URGENT_PART \in Nat \ {0}
  /\ SLOTS \in Nat \ {0}
  /\ StartShare \in [Routine -> 0 .. 100] /\ FullShare \in [Routine -> 0 .. 100]
  /\ \A lane \in Routine : StartShare[lane] <= FullShare[lane]
  /\ OVERRUN \in Nat

VARIABLES
  usage,   \* the table UsageDay; a day nobody asked for is all zero
  call,    \* what each caller is doing
  limit,   \* SiteSettings.ai_daily_tokens
  peak,    \* the highest limit so far (history)
  today,   \* the local date
  slot     \* the local time of day

vars == <<usage, call, limit, peak, today, slot>>

Usage == [used : Nat, reserved : Nat,
          laneUsed : [Lanes -> Nat], laneReserved : [Lanes -> Nat]]

Call == [pc : {"idle", "asking", "open"}, day : Days, amount : Nat,
         lane : Lanes, seen : Nat]

NoUsage == [used |-> 0, reserved |-> 0,
            laneUsed |-> [l \in Lanes |-> 0], laneReserved |-> [l \in Lanes |-> 0]]

NoCall == [pc |-> "idle", day |-> FirstDay, amount |-> 0, lane |-> "urgent",
           seen |-> 0]

TypeOK ==
  /\ usage \in [Days -> Usage]
  /\ call \in [Callers -> Call]
  /\ limit \in Limits
  /\ peak \in Limits
  /\ today \in Days
  /\ slot \in 0 .. SLOTS - 1

Init ==
  /\ usage = [d \in Days |-> NoUsage]
  /\ call = [c \in Callers |-> NoCall]
  /\ limit \in Limits
  /\ peak = limit
  /\ today = FirstDay
  /\ slot \in 0 .. SLOTS - 1

-----------------------------------------------------------------------------
(* reserve(amount, lane) *)

Total(u) == u.used + u.reserved
LaneTotal(u, lane) == u.laneUsed[lane] + u.laneReserved[lane]

Tenth(max) == max \div URGENT_PART

\* Fault: the hundredth part for the tenth.
UrgentReserveTooSmall(u, max) ==
  LET hundredth == Tenth(max) \div 10
      spent == LaneTotal(u, "urgent")
  IN IF spent < hundredth THEN hundredth - spent ELSE 0

\* What is still kept for briefings and interactive requests.
UrgentReserve(u, max) ==
  LET spent == LaneTotal(u, "urgent")
  IN IF spent < Tenth(max) THEN Tenth(max) - spent ELSE 0

LaneLimit(lane, max) == (max * FullShare[lane]) \div 100

PacedLimit(lane, max, s) ==
  (max * (StartShare[lane] * SLOTS + (FullShare[lane] - StartShare[lane]) * s))
    \div (100 * SLOTS)

\* Fault: calls under way are not counted.
FitsUsedOnly(u, max, lane, amount) ==
  /\ u.used + amount <= max
  /\ lane \in Routine =>
       /\ u.used + amount <= max - UrgentReserve(u, max)
       /\ u.laneUsed[lane] + amount <= LaneLimit(lane, max)

\* The checks of reserve() that raise BudgetExceeded, in terms of the row.
Fits(u, max, lane, amount) ==
  /\ Total(u) + amount <= max
  /\ lane \in Routine =>
       /\ Total(u) + amount <= max - UrgentReserve(u, max)
       /\ LaneTotal(u, lane) + amount <= LaneLimit(lane, max)

\* Fault: the pace is compared before the new amount is added.
InPaceBefore(u, max, lane, amount, s) ==
  lane \in Routine => LaneTotal(u, lane) <= PacedLimit(lane, max, s)

\* The last check, which raises BudgetDeferred.
InPace(u, max, lane, amount, s) ==
  lane \in Routine => LaneTotal(u, lane) + amount <= PacedLimit(lane, max, s)

Reserved(u, lane, amount) ==
  [u EXCEPT !.reserved = u.reserved + amount,
            !.laneReserved = [u.laneReserved EXCEPT ![lane] = @ + amount]]

Ask(c, lane, amount) ==
  /\ call[c].pc = "idle"
  /\ call' = [call EXCEPT ![c] = [pc |-> "asking", day |-> today, amount |-> amount,
                                  lane |-> lane, seen |-> limit]]
  /\ UNCHANGED <<usage, limit, peak, today, slot>>

Admit(c) ==
  LET k == call[c]
      u == usage[k.day]
  IN /\ k.pc = "asking"
     /\ Fits(u, k.seen, k.lane, k.amount)
     /\ InPace(u, k.seen, k.lane, k.amount, slot)
     /\ usage' = [usage EXCEPT ![k.day] = Reserved(u, k.lane, k.amount)]
     /\ call' = [call EXCEPT ![c].pc = "open"]
     /\ UNCHANGED <<limit, peak, today, slot>>

\* BudgetExceeded or BudgetDeferred: nothing is written.
Refuse(c) ==
  LET k == call[c]
      u == usage[k.day]
  IN /\ k.pc = "asking"
     /\ \/ ~ Fits(u, k.seen, k.lane, k.amount)
        \/ ~ InPace(u, k.seen, k.lane, k.amount, slot)
     /\ call' = [call EXCEPT ![c] = NoCall]
     /\ UNCHANGED <<usage, limit, peak, today, slot>>

-----------------------------------------------------------------------------
(* settle(day, reserved, usage, lane), in the finally of response_call() *)

Less(a, b) == IF a > b THEN a - b ELSE 0

Settled(u, lane, amount, spent) ==
  [u EXCEPT !.reserved = Less(u.reserved, amount),
            !.used = u.used + spent,
            !.laneReserved = [u.laneReserved EXCEPT ![lane] = Less(@, amount)],
            !.laneUsed = [u.laneUsed EXCEPT ![lane] = @ + spent]]

\* Fault: the row of the present day is settled.
SettleToday(c, spent) ==
  LET k == call[c]
  IN /\ k.pc = "open"
     /\ spent <= k.amount + OVERRUN
     /\ usage' = [usage EXCEPT ![today] = Settled(@, k.lane, k.amount, spent)]
     /\ call' = [call EXCEPT ![c] = NoCall]
     /\ UNCHANGED <<limit, peak, today, slot>>

\* The response carries its usage.
Settle(c, spent) ==
  LET k == call[c]
  IN /\ k.pc = "open"
     /\ spent <= k.amount + OVERRUN
     /\ usage' = [usage EXCEPT ![k.day] = Settled(@, k.lane, k.amount, spent)]
     /\ call' = [call EXCEPT ![c] = NoCall]
     /\ UNCHANGED <<limit, peak, today, slot>>

\* The call failed or says nothing of its usage: all of it counts as spent.
SettleUnknown(c) ==
  LET k == call[c]
  IN /\ k.pc = "open"
     /\ usage' = [usage EXCEPT ![k.day] = Settled(@, k.lane, k.amount, k.amount)]
     /\ call' = [call EXCEPT ![c] = NoCall]
     /\ UNCHANGED <<limit, peak, today, slot>>

\* The process dies, or settle() itself fails: the reservation stays.
Crash(c) ==
  /\ call[c].pc # "idle"
  /\ call' = [call EXCEPT ![c] = NoCall]
  /\ UNCHANGED <<usage, limit, peak, today, slot>>

-----------------------------------------------------------------------------
SetLimit(max) ==
  /\ limit' = max
  /\ peak' = IF max > peak THEN max ELSE peak
  /\ UNCHANGED <<usage, call, today, slot>>

LaterToday ==
  /\ slot + 1 < SLOTS
  /\ slot' = slot + 1
  /\ UNCHANGED <<usage, call, limit, peak, today>>

Midnight ==
  /\ today + 1 \in Days
  /\ today' = today + 1
  /\ slot' = 0
  /\ UNCHANGED <<usage, call, limit, peak>>

Next ==
  \/ \E c \in Callers, lane \in Asked, amount \in Amounts : Ask(c, lane, amount)
  \/ \E c \in Callers : Admit(c)
  \/ \E c \in Callers : Refuse(c)
  \/ \E c \in Callers, spent \in Usages : Settle(c, spent)
  \/ \E c \in Callers : SettleUnknown(c)
  \/ \E c \in Callers : Crash(c)
  \/ \E max \in Limits : SetLimit(max)
  \/ LaterToday
  \/ Midnight

Spec == Init /\ [][Next]_vars

-----------------------------------------------------------------------------
(* Properties. *)

\* Usage is known only after the call: each call that was let in below the limit may
\* exceed its reservation, and no more than N are under way at once.
Slack == N * OVERRUN

\* Spending and promises of no day pass the highest limit that was in force by more
\* than what the calls under way at once can exceed their reservations by:
\* docs/architecture.md:31, rather spend less than pass the budget.
DailyLimit == \A d \in Days : Total(usage[d]) <= peak + Slack

\* The last tenth of the limit is the urgent lane's, however large the backlog
\* of the other lanes and however their calls overlap, crash or cross midnight:
\* an urgent request that reads the highest limit and asks for no more than
\* what urgent calls, and calls that exceeded their reservations, have left of the
\* tenth finds room (services.py:76-77).
UrgentTenth ==
  \A c \in Callers :
    LET k == call[c]
    IN k.pc = "asking" /\ k.lane = "urgent" /\ k.seen = peak
         /\ LaneTotal(usage[k.day], "urgent") + k.amount + Slack <= Tenth(peak)
       => Fits(usage[k.day], k.seen, k.lane, k.amount)

\* A routine lane never runs ahead of the share of the limit that the hour has
\* released, nor of its share of the whole day, except by what its calls exceed
\* their reservations by (services.py:103-111).
LanePace ==
  \A lane \in Routine :
    /\ LaneTotal(usage[today], lane) <= PacedLimit(lane, peak, slot) + Slack
    /\ \A d \in Days : LaneTotal(usage[d], lane) <= LaneLimit(lane, peak) + Slack

\* A call that is under way finds its whole reservation when it settles, on the
\* day and in the lane it was made: max(0, ...) never hides a missing part
\* (services.py:122-127).
ReservationBacked ==
  \A c \in Callers :
    call[c].pc = "open" =>
      /\ call[c].amount <= usage[call[c].day].reserved
      /\ call[c].amount <= usage[call[c].day].laneReserved[call[c].lane]

=============================================================================
