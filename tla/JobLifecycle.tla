---------------------------- MODULE JobLifecycle ----------------------------
(***************************************************************************)
(* What the job queue promises about one key at a time, with no clock, no  *)
(* priorities, no limits and no worker processes: which states of a job    *)
(* follow which, and whose word it takes.  A claim is `sheltered' while    *)
(* the execution that made it keeps its heartbeat; a sheltered claim ends  *)
(* only by the report of that execution.  Several jobs may move in one     *)
(* step, because a claim sweeps expired leases in its own transaction.     *)
(***************************************************************************)
CONSTANTS Jobs, Enrichable, Tokens, NoToken

VARIABLES
  status,     \* the state of each key
  holder,     \* the claim whose reports count, if any
  sheltered   \* is that claim's heartbeat on schedule?

lvars == <<status, holder, sheltered>>

Init ==
  /\ status = [j \in Jobs |-> "absent"]
  /\ holder = [j \in Jobs |-> NoToken]
  /\ sheltered = [j \in Jobs |-> FALSE]

Becomes(j, s, h, b) ==
  status'[j] = s /\ holder'[j] = h /\ sheltered'[j] = b

Stay(j) == Becomes(j, status[j], holder[j], sheltered[j])

Submit(j) == status[j] = "absent" /\ Becomes(j, "pending", NoToken, FALSE)

\* A claim is new: no key is held under the same one.
NewClaim(j) ==
  \E o \in Tokens : /\ \A k \in Jobs : holder[k] # o
                    /\ Becomes(j, "running", o, TRUE)

Start(j) == status[j] = "pending" /\ NewClaim(j)

\* The heartbeat is lost: until the claim is withdrawn its reports still count.
Expose(j) == sheltered[j] /\ Becomes(j, status[j], holder[j], FALSE)

Report(j) ==
  /\ status[j] = "running"
  /\ \E s \in {"pending", "completed", "failed"} : Becomes(j, s, holder[j], FALSE)

\* The lease of an exposed claim ran out: try again, claim again at once, or
\* give up.
Withdraw(j) ==
  /\ status[j] = "running" /\ ~ sheltered[j]
  /\ \/ Becomes(j, "pending", NoToken, FALSE)
     \/ Becomes(j, "failed", holder[j], FALSE)
     \/ NewClaim(j)

\* A job given up while its execution went on: the execution may yet report.
LateReport(j) ==
  /\ status[j] = "failed"
  /\ \E s \in {"pending", "completed"} : Becomes(j, s, holder[j], FALSE)

Reopen(j) ==
  /\ status[j] = "completed" /\ j \in Enrichable
  /\ Becomes(j, "pending", holder[j], FALSE)

Forget(j) ==
  /\ status[j] \in {"completed", "failed"}
  /\ Becomes(j, "absent", NoToken, FALSE)

Move(j) ==
  \/ Stay(j) \/ Submit(j) \/ Start(j) \/ Expose(j) \/ Report(j)
  \/ Withdraw(j) \/ LateReport(j) \/ Reopen(j) \/ Forget(j)

Next ==
  /\ \A j \in Jobs : Move(j)
  /\ status' = [j \in Jobs |-> status'[j]]
  /\ holder' = [j \in Jobs |-> holder'[j]]
  /\ sheltered' = [j \in Jobs |-> sheltered'[j]]

Spec == Init /\ [][Next]_lvars
=============================================================================
