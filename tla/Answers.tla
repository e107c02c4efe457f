------------------------------ MODULE Answers ------------------------------
(***************************************************************************)
(* Questions to the archive: api_answer() of app/core/views.py accepts one *)
(* and adds a job for it, run_job() and answer_archive() of                *)
(* app/ai/services.py talk to the provider, and job_stream() tells the     *)
(* browser how the job stands.                                             *)
(*                                                                         *)
(* There is one conversation; a question is a request with a job of its    *)
(* own.  An execution shows what has arrived so far while it goes on,      *)
(* stores the answer as a message, and then completes its job: three       *)
(* writes.  The queue is that of JobQueue, without priorities and times.   *)
(* What is asked, found and cited is left out, and with it the messages    *)
(* that hold questions and apologies.                                      *)
(*                                                                         *)
(* A definition marked `Fault' is a variant of the one that follows it, in *)
(* which one thing is wrong and which must break a property.               *)
(***************************************************************************)
EXTENDS Integers

CONSTANTS
  Questions,
  Workers, Nobody, NoQuestion,
  ROUNDS,        \* rounds of tool calls in an execution: 4
  MAX_ATTEMPTS,  \* 4
  MAX_TROUBLES   \* bound on failures, refusals, crashes and lost leases

ASSUME AnswersAssumption ==
  /\ Nobody \notin Workers /\ NoQuestion \notin Questions
  /\ ROUNDS \in Nat /\ MAX_ATTEMPTS \in Nat \ {0} /\ MAX_TROUBLES \in Nat

VARIABLES
  job,       \* the row of the question's job
  req,       \* requests between their look at the conversation and enqueue()
  ex,        \* the executions
  stored,    \* how many answers to the question are in the conversation
  told,      \* the state the browser was told last
  troubles,
  overlapped,  \* requests that were under way with another one (history)
  hasty,       \* jobs given up by a sweep while their execution went on (history)
  lost         \* jobs with an execution that lost its lease or died (history)

vars == <<job, req, ex, stored, told, troubles, overlapped, hasty, lost>>

Statuses == {"pending", "running", "completed", "failed"}

\* "purged": the row was deleted; the next question has another job.
Job == [status : Statuses \cup {"absent", "purged"}, attempts : 0 .. MAX_ATTEMPTS,
        owner : Workers \cup {Nobody}, result : {"none", "partial", "answer"}]

NoJob == [status |-> "absent", attempts |-> 0, owner |-> Nobody, result |-> "none"]

Execution == [pc : {"idle", "calling", "ending"}, question : Questions \cup {NoQuestion},
              round : 0 .. ROUNDS]

Idle == [pc |-> "idle", question |-> NoQuestion, round |-> 0]

TypeOK ==
  /\ job \in [Questions -> Job]
  /\ req \subseteq Questions
  /\ ex \in [Workers -> Execution]
  /\ stored \in [Questions -> Nat]
  /\ told \in [Questions -> Statuses \cup {"nothing"}]
  /\ troubles \in 0 .. MAX_TROUBLES
  /\ overlapped \subseteq Questions /\ hasty \subseteq Questions /\ lost \subseteq Questions

Init ==
  /\ job = [q \in Questions |-> NoJob]
  /\ req = {}
  /\ ex = [w \in Workers |-> Idle]
  /\ stored = [q \in Questions |-> 0]
  /\ told = [q \in Questions |-> "nothing"]
  /\ troubles = 0
  /\ overlapped = {} /\ hasty = {} /\ lost = {}

Trouble == troubles < MAX_TROUBLES /\ troubles' = troubles + 1

-----------------------------------------------------------------------------
(* api_answer() *)

\* Fault: a question that waits for its turn does not count.
OpenRunning(q) == job[q].status = "running"

Open(q) == job[q].status \in {"pending", "running"}

\* "Wait for the former question" (409) unless there is none.
Check(q) ==
  /\ job[q].status = "absent" /\ q \notin req
  /\ ~ \E r \in Questions : Open(r)
  /\ req' = req \cup {q}
  /\ overlapped' = overlapped \cup (IF req = {} THEN {} ELSE req')
  /\ UNCHANGED <<job, ex, stored, told, troubles, hasty, lost>>

Ask(q) ==
  /\ q \in req
  /\ req' = req \ {q}
  /\ job' = [job EXCEPT ![q].status = "pending"]
  /\ UNCHANGED <<ex, stored, told, troubles, overlapped, hasty, lost>>

-----------------------------------------------------------------------------
(* The queue *)

Take(w, q) ==
  /\ ex[w].pc = "idle" /\ job[q].status = "pending"
  /\ job' = [job EXCEPT ![q].status = "running", ![q].attempts = @ + 1, ![q].owner = w]
  /\ ex' = [ex EXCEPT ![w] = [pc |-> "calling", question |-> q, round |-> 0]]
  /\ UNCHANGED <<req, stored, told, troubles, overlapped, hasty, lost>>

\* Fault: only the job is compared.
HoldsAnyhow(w) == job[ex[w].question].status \notin {"absent", "purged"}

\* filter(pk=job.pk, owner=job.owner), whatever the status.
Holds(w) == job[ex[w].question].owner = w

GivenUp(row) == row.attempts >= MAX_ATTEMPTS

Runs(w, q) == ex[w].pc # "idle" /\ ex[w].question = q

\* A lease ends because its worker is gone or stalls.
Expire(q) ==
  LET Late == {w \in Workers : Runs(w, q) /\ Holds(w)}
  IN /\ job[q].status = "running"
     /\ IF Late = {} THEN UNCHANGED troubles ELSE Trouble
     /\ job' = [job EXCEPT ![q] = IF GivenUp(@)
                                  THEN [@ EXCEPT !.status = "failed"]
                                  ELSE [@ EXCEPT !.status = "pending", !.owner = Nobody]]
     /\ hasty' = IF Late # {} /\ GivenUp(job[q]) THEN hasty \cup {q} ELSE hasty
     /\ lost' = lost \cup {q}
     /\ UNCHANGED <<req, ex, stored, told, overlapped>>

\* maintain(), after 14 days.
Purge(q) ==
  /\ job[q].status \in {"completed", "failed"}
  /\ ~ \E w \in Workers : Runs(w, q)
  /\ job' = [job EXCEPT ![q] = [NoJob EXCEPT !.status = "purged"]]
  /\ UNCHANGED <<req, ex, stored, told, troubles, overlapped, hasty, lost>>

-----------------------------------------------------------------------------
(* run_job() and answer_archive() *)

\* Fault: the text so far is shown whoever has the job.
MarkedAnyhow(w, row) == [row EXCEPT !.result = "partial"]

\* delta(): the text so far.
Marked(w, row) == IF row.owner = w THEN [row EXCEPT !.result = "partial"] ELSE row

Delta(w) ==
  /\ ex[w].pc = "calling"
  /\ job' = [job EXCEPT ![ex[w].question] = Marked(w, @)]
  /\ UNCHANGED <<req, ex, stored, told, troubles, overlapped, hasty, lost>>

\* The response calls tools; in the last turn it must not.
Tools(w) ==
  /\ ex[w].pc = "calling" /\ ex[w].round < ROUNDS
  /\ ex' = [ex EXCEPT ![w].round = @ + 1]
  /\ UNCHANGED <<job, req, stored, told, troubles, overlapped, hasty, lost>>

\* The answer cites what was found: it is stored.
Answer(w) ==
  /\ ex[w].pc = "calling"
  /\ stored' = [stored EXCEPT ![ex[w].question] = @ + 1]
  /\ ex' = [ex EXCEPT ![w].pc = "ending"]
  /\ UNCHANGED <<job, req, told, troubles, overlapped, hasty, lost>>

\* Fault: the answer is stored before its citations are looked at.
StoredAlready(w) == [stored EXCEPT ![ex[w].question] = @ + 1]

\* An apology is stored, which counts for nothing.
Apologised(w) == stored

\* An exception, or a refusal of the budget, which leaves the job its attempts.
Fail(w, refused) ==
  LET q == ex[w].question
      over == ~ refused /\ GivenUp(job[q])
  IN /\ ex[w].pc = "calling" /\ Trouble
     /\ stored' = Apologised(w)
     /\ job' = IF Holds(w)
               THEN [job EXCEPT ![q].status = IF over THEN "failed" ELSE "pending",
                                ![q].attempts = IF refused \/ over THEN 0 ELSE @,
                                ![q].owner = Nobody]
               ELSE job
     /\ ex' = [ex EXCEPT ![w] = Idle]
     /\ UNCHANGED <<req, told, overlapped, hasty, lost>>

Complete(w) ==
  LET q == ex[w].question
  IN /\ ex[w].pc = "ending"
     /\ job' = IF Holds(w)
               THEN [job EXCEPT ![q] = [NoJob EXCEPT !.status = "completed", !.result = "answer"]]
               ELSE job
     /\ ex' = [ex EXCEPT ![w] = Idle]
     /\ UNCHANGED <<req, stored, told, troubles, overlapped, hasty, lost>>

Crash(w) ==
  /\ ex[w].pc # "idle" /\ Trouble
  /\ ex' = [ex EXCEPT ![w] = Idle]
  /\ lost' = lost \cup {ex[w].question}
  /\ UNCHANGED <<job, req, stored, told, overlapped, hasty>>

-----------------------------------------------------------------------------
\* job_stream() and api_job(): the page asks again and again.
Watch(q) ==
  /\ job[q].status \in Statuses
  /\ told' = [told EXCEPT ![q] = job[q].status]
  /\ UNCHANGED <<job, req, ex, stored, troubles, overlapped, hasty, lost>>

Next ==
  \/ \E q \in Questions : Check(q)
  \/ \E q \in Questions : Ask(q)
  \/ \E w \in Workers, q \in Questions : Take(w, q)
  \/ \E q \in Questions : Expire(q)
  \/ \E q \in Questions : Purge(q)
  \/ \E w \in Workers : Delta(w)
  \/ \E w \in Workers : Tools(w)
  \/ \E w \in Workers : Answer(w)
  \/ \E w \in Workers, refused \in BOOLEAN : Fail(w, refused)
  \/ \E w \in Workers : Complete(w)
  \/ \E w \in Workers : Crash(w)
  \/ \E q \in Questions : Watch(q)

Spec == Init /\ [][Next]_vars

-----------------------------------------------------------------------------
(* Properties. *)

\* docs/architecture.md:29: streamed text is only a preview.  What a completed job
\* shows is an answer that is stored in the conversation: no execution that was
\* superseded writes a preview over it, or completes a job without an answer
\* (services.py:848, 776-791).
CompletedIsStored ==
  \A q \in Questions :
    job[q].status = "completed" => job[q].result = "answer" /\ stored[q] > 0

\* What the page was told is final: a job it saw completed stays so, and one it saw
\* fail does not come back, unless a sweep gave it up while its execution went on
\* (views.py:583-584).
ToldIsFinal ==
  \A q \in Questions :
    /\ told[q] = "completed" => job[q].status \in {"completed", "purged"}
    /\ told[q] = "failed" => job[q].status \in {"failed", "purged"} \/ q \in hasty

\* A conversation has one open question.  Two are open only if their requests were
\* under way at once, or if a job that a sweep had given up came back
\* (views.py:550-553).
OneQuestionAtATime ==
  \A q, r \in Questions :
    q # r /\ {job[q].status, job[r].status} \subseteq {"pending", "running"}
      => {q, r} \subseteq overlapped \/ q \in hasty \/ r \in hasty

\* However often a job is tried, its question is answered once in the conversation,
\* unless an execution lost its lease or died (services.py:768-776).
AnsweredOnce == \A q \in Questions : stored[q] > 1 => q \in lost

=============================================================================
