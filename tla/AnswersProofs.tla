---------------------------- MODULE AnswersProofs ----------------------------
(***************************************************************************)
(* The inductive invariant of Answers and its theorems, for any questions  *)
(* and workers and any number of rounds, attempts and failures.            *)
(***************************************************************************)
EXTENDS Answers, TLAPS

-----------------------------------------------------------------------------
(* The inductive invariant. *)

\* A request that has looked and not asked yet has no job.
Asking == \A q \in req : job[q].status = "absent"

\* Only a job that was claimed has an owner; one that is running has one.
Owned ==
  \A q \in Questions :
    /\ job[q].owner # Nobody => job[q].status \in {"running", "failed"}
    /\ job[q].status = "running" => job[q].owner \in Workers

\* What waits has an attempt left.
Tried ==
  \A q \in Questions :
    job[q].status \in {"absent", "pending"} => job[q].attempts < MAX_ATTEMPTS

\* An execution has a question; one that owns a job which is not running any more
\* was given up by a sweep while it went on.
Executing ==
  \A w \in Workers :
    ex[w].pc # "idle" => /\ ex[w].question \in Questions
                         /\ Holds(w) /\ job[ex[w].question].status # "running"
                              => ex[w].question \in hasty

\* An execution completes its job after the answer is stored.
StoredFirst ==
  \A w \in Workers : ex[w].pc = "ending" => stored[ex[w].question] > 0

\* Beside a request that has looked, what is open or about to be opened looked at
\* the same time, or came back.
Overlapping ==
  \A q \in req, r \in Questions :
    q # r /\ (r \in req \/ Open(r)) => {q, r} \subseteq overlapped \/ r \in hasty

\* As long as nothing is lost, an execution owns the job it runs, ...
Alone ==
  \A q \in Questions \ lost, w \in Workers :
    Runs(w, q) => Holds(w) /\ job[q].status = "running"

\* ... and after the answer it goes on to the completion of the job.
Answering ==
  \A q \in Questions \ lost : stored[q] > 0 =>
    /\ stored[q] = 1
    /\ job[q].status \in {"running", "completed", "purged"}
    /\ \A w \in Workers : Runs(w, q) => ex[w].pc = "ending"

IInv == /\ TypeOK /\ Asking /\ Owned /\ Tried /\ Executing /\ StoredFirst /\ Overlapping
        /\ Alone /\ Answering
        /\ CompletedIsStored /\ ToldIsFinal /\ OneQuestionAtATime

-----------------------------------------------------------------------------
(* The actions, one lemma each. *)

\* No question was asked: nothing is open, told or stored.
LEMMA Start == Init => IInv
<1> SUFFICES ASSUME Init PROVE IInv
  OBVIOUS
<1> USE AnswersAssumption DEF Init, NoJob, Idle
<1>1. TypeOK
  BY DEF TypeOK, Job, Execution, Statuses
<1>2. Asking /\ Owned /\ Tried /\ Executing /\ StoredFirst
  BY DEF Asking, Owned, Tried, Executing, StoredFirst
<1>3. Overlapping /\ Alone /\ Answering
  BY DEF Overlapping, Alone, Answering, Runs, Open
<1>4. CompletedIsStored /\ ToldIsFinal /\ OneQuestionAtATime
  BY DEF CompletedIsStored, ToldIsFinal, OneQuestionAtATime
<1> QED
  BY <1>1, <1>2, <1>3, <1>4 DEF IInv

\* A request looks only while no job is open, and requests that look before
\* one of them asks are recorded as overlapping (views.py:550).
LEMMA CheckIInv ==
  ASSUME IInv, NEW q \in Questions, Check(q)
  PROVE  IInv'
<1> USE DEF IInv, Check
<1>1. TypeOK'
  BY DEF TypeOK
<1>2. (Asking /\ Owned /\ Tried /\ Executing /\ StoredFirst)'
  BY DEF Asking, Owned, Tried, Executing, StoredFirst, Holds
<1>3. Overlapping'
  BY DEF Overlapping, Open
<1>4. (Alone /\ Answering)'
  BY DEF Alone, Answering, Runs, Holds
<1>5. (CompletedIsStored /\ ToldIsFinal /\ OneQuestionAtATime)'
  BY DEF CompletedIsStored, ToldIsFinal, OneQuestionAtATime
<1> QED
  BY <1>1, <1>2, <1>3, <1>4, <1>5

\* The job of a question opens: what is open beside it looked at the same time,
\* or came back (views.py:552-553).
LEMMA AskIInv ==
  ASSUME IInv, NEW q \in Questions, Ask(q)
  PROVE  IInv'
<1> USE DEF IInv, Ask
<1>1. job[q].status = "absent" /\ job[q].owner = Nobody
  BY DEF Asking, Owned
<1>2. TypeOK'
  BY DEF TypeOK, Job, Statuses
<1>3. (Asking /\ Owned /\ Tried)'
  BY <1>1 DEF Asking, Owned, Tried, TypeOK, Job
<1>4. (Executing /\ StoredFirst)'
  BY <1>1, AnswersAssumption DEF Executing, StoredFirst, Holds, TypeOK, Job
<1>5. Overlapping'
  BY <1>1 DEF Overlapping, Open, TypeOK, Job
<1>6. (Alone /\ Answering)'
  BY <1>1 DEF Alone, Answering, Runs, Holds, TypeOK, Job
<1>7. (CompletedIsStored /\ ToldIsFinal)'
  BY <1>1 DEF CompletedIsStored, ToldIsFinal, TypeOK, Job
<1>8. OneQuestionAtATime'
  BY <1>1 DEF OneQuestionAtATime, Overlapping, Open, TypeOK, Job
<1> QED
  BY <1>2, <1>3, <1>4, <1>5, <1>6, <1>7, <1>8

\* A claim: the attempt is allowed, and an earlier execution lost the lease.
LEMMA TakeIInv ==
  ASSUME IInv, NEW w \in Workers, NEW q \in Questions, Take(w, q)
  PROVE  IInv'
<1> USE DEF IInv, Take
<1>1. /\ ex[w].pc = "idle" /\ job[q].status = "pending" /\ job[q].owner = Nobody
      /\ job[q].attempts < MAX_ATTEMPTS
  BY DEF Owned, Tried
<1>2. TypeOK'
  BY <1>1, AnswersAssumption DEF TypeOK, Job, Execution, Statuses
<1>3. (Asking /\ Owned /\ Tried)'
  BY <1>1 DEF Asking, Owned, Tried, TypeOK, Job
<1>4. (Executing /\ StoredFirst)'
  BY <1>1, AnswersAssumption DEF Executing, StoredFirst, Holds, TypeOK, Job, Execution
<1>5. (Overlapping /\ OneQuestionAtATime)'
  BY <1>1 DEF Overlapping, OneQuestionAtATime, Open, TypeOK, Job
<1>6. Alone'
  BY <1>1 DEF Alone, Runs, Holds, TypeOK, Job, Execution
<1>7. Answering'
  BY <1>1 DEF Answering, Runs, Holds, TypeOK, Job, Execution
<1>8. (CompletedIsStored /\ ToldIsFinal)'
  BY <1>1 DEF CompletedIsStored, ToldIsFinal, TypeOK, Job
<1> QED
  BY <1>2, <1>3, <1>4, <1>5, <1>6, <1>7, <1>8

\* A sweep withdraws the job, and records whose execution goes on (tasks.py:49-53).
LEMMA ExpireIInv ==
  ASSUME IInv, NEW q \in Questions, Expire(q)
  PROVE  IInv'
<1> DEFINE Late == {w \in Workers : Runs(w, q) /\ Holds(w)}
           given == GivenUp(job[q])
<1> USE DEF IInv
<1>1. /\ job[q].status = "running" /\ job[q].owner \in Workers /\ job[q] \in Job
      /\ q \notin req
  BY DEF Expire, Owned, TypeOK, Asking
<1>2. /\ job' = [job EXCEPT ![q] = IF given THEN [@ EXCEPT !.status = "failed"]
                                   ELSE [@ EXCEPT !.status = "pending", !.owner = Nobody]]
      /\ hasty' = IF Late # {} /\ given THEN hasty \cup {q} ELSE hasty
      /\ lost' = lost \cup {q}
      /\ UNCHANGED <<req, ex, stored, told, overlapped>>
      /\ troubles' \in 0 .. MAX_TROUBLES
  BY AnswersAssumption DEF Expire, Trouble, TypeOK
<1> HIDE DEF given, Late
<1>3. TypeOK'
  BY <1>1, <1>2 DEF TypeOK, Job, Statuses
<1>4. (Asking /\ Owned /\ Tried)'
  BY <1>1, <1>2, AnswersAssumption
     DEF Asking, Owned, Tried, given, GivenUp, TypeOK, Job
<1>5. (Executing /\ StoredFirst)'
  BY <1>1, <1>2, AnswersAssumption
     DEF Executing, StoredFirst, Holds, Late, Runs, TypeOK, Job, Execution
<1>6. (Overlapping /\ OneQuestionAtATime)'
  BY <1>1, <1>2 DEF Overlapping, OneQuestionAtATime, Open, TypeOK, Job
<1>7. (Alone /\ Answering)'
  BY <1>1, <1>2 DEF Alone, Answering, Runs, Holds, TypeOK, Job
<1>8. (CompletedIsStored /\ ToldIsFinal)'
  BY <1>1, <1>2 DEF CompletedIsStored, ToldIsFinal, TypeOK, Job
<1> QED
  BY <1>3, <1>4, <1>5, <1>6, <1>7, <1>8

\* A purged job has no owner to answer to (storage.py:61).
LEMMA PurgeIInv ==
  ASSUME IInv, NEW q \in Questions, Purge(q)
  PROVE  IInv'
<1> USE DEF IInv, Purge, NoJob
<1>1. TypeOK'
  BY AnswersAssumption DEF TypeOK, Job, Statuses
<1>2. (Asking /\ Owned /\ Tried)'
  BY DEF Asking, Owned, Tried, TypeOK, Job
<1>3. (Executing /\ StoredFirst)'
  BY AnswersAssumption DEF Executing, StoredFirst, Holds, Runs, TypeOK, Job, Execution
<1>4. (Overlapping /\ OneQuestionAtATime)'
  BY DEF Overlapping, OneQuestionAtATime, Open, TypeOK, Job
<1>5. (Alone /\ Answering)'
  BY DEF Alone, Answering, Runs, Holds, TypeOK, Job
<1>6. (CompletedIsStored /\ ToldIsFinal)'
  BY DEF CompletedIsStored, ToldIsFinal, TypeOK, Job
<1> QED
  BY <1>1, <1>2, <1>3, <1>4, <1>5, <1>6

\* A preview changes nothing but what is shown of a job that has an owner.
LEMMA DeltaIInv ==
  ASSUME IInv, NEW w \in Workers, Delta(w)
  PROVE  IInv'
<1> USE DEF IInv
<1>1. UNCHANGED <<req, ex, stored, told, troubles, overlapped, hasty, lost>>
  BY DEF Delta
<1>2. job' \in [Questions -> Job]
  BY DEF Delta, Marked, TypeOK, Executing, Job
<1>3. \A r \in Questions : /\ job'[r].status = job[r].status
                           /\ job'[r].attempts = job[r].attempts
                           /\ job'[r].owner = job[r].owner
                           /\ job[r].owner = Nobody => job'[r] = job[r]
  BY AnswersAssumption DEF Delta, Marked, TypeOK, Executing, Job
<1>4. TypeOK'
  BY <1>1, <1>2 DEF TypeOK
<1>5. (Asking /\ Owned /\ Tried)'
  BY <1>1, <1>3 DEF Asking, Owned, Tried, TypeOK
<1>6. (Executing /\ StoredFirst)'
  BY <1>1, <1>3 DEF Executing, StoredFirst, Holds
<1>7. (Overlapping /\ OneQuestionAtATime)'
  BY <1>1, <1>3 DEF Overlapping, OneQuestionAtATime, Open
<1>8. (Alone /\ Answering)'
  BY <1>1, <1>3 DEF Alone, Answering, Runs, Holds
<1>9. (CompletedIsStored /\ ToldIsFinal)'
  BY <1>1, <1>3 DEF CompletedIsStored, ToldIsFinal, Owned
<1> QED
  BY <1>4, <1>5, <1>6, <1>7, <1>8, <1>9

\* A round of tools touches only the execution (services.py:792-810).
LEMMA ToolsIInv ==
  ASSUME IInv, NEW w \in Workers, Tools(w)
  PROVE  IInv'
<1> USE DEF IInv, Tools
<1>1. TypeOK'
  BY AnswersAssumption DEF TypeOK, Execution
<1>2. (Asking /\ Owned /\ Tried)'
  BY DEF Asking, Owned, Tried
<1>3. (Executing /\ StoredFirst)'
  BY DEF Executing, StoredFirst, Holds, TypeOK, Execution
<1>4. (Overlapping /\ OneQuestionAtATime)'
  BY DEF Overlapping, OneQuestionAtATime, Open
<1>5. (Alone /\ Answering)'
  BY DEF Alone, Answering, Runs, Holds, TypeOK, Execution
<1>6. (CompletedIsStored /\ ToldIsFinal)'
  BY DEF CompletedIsStored, ToldIsFinal
<1> QED
  BY <1>1, <1>2, <1>3, <1>4, <1>5, <1>6

\* The answer is stored: for a job that lost nothing, by its only execution
\* (services.py:767-791).
LEMMA AnswerIInv ==
  ASSUME IInv, NEW w \in Workers, Answer(w)
  PROVE  IInv'
<1> USE DEF IInv, Answer
<1>1. ex[w].question \in Questions /\ stored[ex[w].question] \in Nat
  BY DEF Executing, TypeOK
<1>2. TypeOK'
  BY <1>1 DEF TypeOK, Execution
<1>3. (Asking /\ Owned /\ Tried)'
  BY DEF Asking, Owned, Tried
<1>4. Executing'
  BY DEF Executing, Holds, TypeOK, Execution
<1>5. StoredFirst'
  BY <1>1 DEF StoredFirst, Executing, TypeOK, Execution
<1>6. (Overlapping /\ OneQuestionAtATime)'
  BY DEF Overlapping, OneQuestionAtATime, Open
<1>7. Alone'
  BY DEF Alone, Runs, Holds, TypeOK, Execution
<1>8. Answering'
  <2> SUFFICES ASSUME NEW q \in Questions \ lost, stored'[q] > 0
               PROVE  /\ stored'[q] = 1
                      /\ job[q].status \in {"running", "completed", "purged"}
                      /\ \A v \in Workers : Runs(v, q)' => ex'[v].pc = "ending"
    BY DEF Answering
  <2>1. CASE ex[w].question = q
    BY <2>1, <1>1 DEF Answering, Alone, Runs, Holds, TypeOK, Execution
  <2>2. CASE ex[w].question # q
    BY <2>2, <1>1 DEF Answering, Runs, TypeOK, Execution
  <2> QED
    BY <2>1, <2>2
<1>9. (CompletedIsStored /\ ToldIsFinal)'
  BY <1>1 DEF CompletedIsStored, ToldIsFinal, TypeOK
<1> QED
  BY <1>2, <1>3, <1>4, <1>5, <1>6, <1>7, <1>8, <1>9

\* A failure stores no answer, and writes the job only of its owner
\* (services.py:812-819, tasks.py:131-153).
LEMMA FailIInv ==
  ASSUME IInv, NEW w \in Workers, NEW refused \in BOOLEAN, Fail(w, refused)
  PROVE  IInv'
<1> DEFINE q == ex[w].question
           over == ~ refused /\ GivenUp(job[q])
<1> USE DEF IInv
<1>1. /\ ex[w].pc = "calling" /\ q \in Questions /\ job[q] \in Job
      /\ Holds(w) => job[q].status \in {"running", "failed"} /\ q \notin req
      /\ Holds(w) /\ job[q].status = "failed" => q \in hasty
  BY AnswersAssumption DEF Fail, Executing, TypeOK, Owned, Asking, Holds
<1>2. /\ troubles' \in 0 .. MAX_TROUBLES
      /\ UNCHANGED <<req, stored, told, overlapped, hasty, lost>>
      /\ ex' = [ex EXCEPT ![w] = Idle]
      /\ IF Holds(w)
         THEN job' = [job EXCEPT ![q].status = IF over THEN "failed" ELSE "pending",
                                 ![q].attempts = IF refused \/ over THEN 0 ELSE @,
                                 ![q].owner = Nobody]
         ELSE job' = job
  BY AnswersAssumption DEF Fail, Trouble, TypeOK, Apologised
<1> HIDE DEF q, over
<1>3. TypeOK'
  BY <1>1, <1>2, AnswersAssumption DEF TypeOK, Job, Execution, Statuses, Idle
<1>4. (Asking /\ Owned)'
  BY <1>1, <1>2 DEF Asking, Owned, TypeOK, Job
<1>5. Tried'
  BY <1>1, <1>2, AnswersAssumption DEF Tried, over, GivenUp, TypeOK, Job
<1>6. (Executing /\ StoredFirst)'
  BY <1>1, <1>2, AnswersAssumption
     DEF Executing, StoredFirst, Holds, TypeOK, Job, Execution, Idle
<1>7. (Overlapping /\ OneQuestionAtATime)'
  BY <1>1, <1>2 DEF Overlapping, OneQuestionAtATime, Open, TypeOK, Job
<1>8. (Alone /\ Answering)'
  BY <1>1, <1>2 DEF Alone, Answering, Runs, Holds, q, TypeOK, Job, Execution, Idle
<1>9. (CompletedIsStored /\ ToldIsFinal)'
  BY <1>1, <1>2 DEF CompletedIsStored, ToldIsFinal, TypeOK, Job
<1> QED
  BY <1>3, <1>4, <1>5, <1>6, <1>7, <1>8, <1>9

\* The row of a completed job is typed.
LEMMA DoneRow ==
  LET done == [NoJob EXCEPT !.status = "completed", !.result = "answer"]
  IN /\ done \in Job /\ done.status = "completed" /\ done.result = "answer"
     /\ done.owner = Nobody
<1>1. NoJob \in Job
  BY AnswersAssumption DEF NoJob, Job
<1> QED
  BY <1>1 DEF NoJob, Job, Statuses

\* Whoever completes the job has stored an answer (tasks.py:126-130).
LEMMA CompleteIInv ==
  ASSUME IInv, NEW w \in Workers, Complete(w)
  PROVE  IInv'
<1> DEFINE q == ex[w].question
<1> USE DEF IInv
<1>1. /\ ex[w].pc = "ending" /\ q \in Questions /\ job[q] \in Job /\ stored[q] > 0
      /\ Holds(w) => job[q].status \in {"running", "failed"} /\ q \notin req
      /\ Holds(w) /\ job[q].status = "failed" => q \in hasty
  BY AnswersAssumption DEF Complete, Executing, StoredFirst, TypeOK, Owned, Asking, Holds
<1>2. /\ UNCHANGED <<req, stored, told, troubles, overlapped, hasty, lost>>
      /\ ex' = [ex EXCEPT ![w] = Idle]
  BY DEF Complete
<1>3. CASE ~ Holds(w)
  <2>1. job' = job
    BY <1>3 DEF Complete
  <2>2. TypeOK'
    BY <1>2, <2>1, AnswersAssumption DEF TypeOK, Execution, Idle
  <2>3. (Asking /\ Owned /\ Tried /\ Executing /\ StoredFirst)'
    BY <1>2, <2>1 DEF Asking, Owned, Tried, Executing, StoredFirst, Holds, TypeOK, Idle
  <2>4. (Overlapping /\ OneQuestionAtATime)'
    BY <1>2, <2>1 DEF Overlapping, OneQuestionAtATime, Open
  <2>5. (Alone /\ Answering)'
    BY <1>2, <2>1 DEF Alone, Answering, Runs, Holds, TypeOK, Idle
  <2>6. (CompletedIsStored /\ ToldIsFinal)'
    BY <1>2, <2>1 DEF CompletedIsStored, ToldIsFinal
  <2> QED
    BY <2>2, <2>3, <2>4, <2>5, <2>6
<1>4. CASE Holds(w)
  <2>1. /\ job' \in [Questions -> Job]
        /\ job'[q].status = "completed" /\ job'[q].result = "answer"
        /\ job'[q].owner = Nobody
        /\ \A r \in Questions \ {q} : job'[r] = job[r]
    <3> DEFINE done == [NoJob EXCEPT !.status = "completed", !.result = "answer"]
    <3>1. /\ done \in Job /\ done.status = "completed" /\ done.result = "answer"
          /\ done.owner = Nobody
      BY DoneRow
    <3>2. job' = [job EXCEPT ![q] = done]
      BY <1>4 DEF Complete
    <3> HIDE DEF done
    <3> QED
      BY <1>1, <3>1, <3>2 DEF TypeOK
  <2> HIDE DEF q
  <2>2. TypeOK'
    BY <1>2, <2>1, AnswersAssumption DEF TypeOK, Execution, Idle
  <2>3. (Asking /\ Owned /\ Tried)'
    BY <1>1, <1>2, <1>4, <2>1 DEF Asking, Owned, Tried, TypeOK
  <2>4. (Executing /\ StoredFirst)'
    BY <1>2, <2>1, AnswersAssumption
       DEF Executing, StoredFirst, Holds, TypeOK, Execution, Idle
  <2>5. (Overlapping /\ OneQuestionAtATime)'
    BY <1>1, <1>2, <1>4, <2>1 DEF Overlapping, OneQuestionAtATime, Open, TypeOK
  <2>6. (Alone /\ Answering)'
    <3>1. \A v \in Workers, r \in Questions : Runs(v, r)' => v # w /\ Runs(v, r)
      BY <1>2 DEF Runs, TypeOK, Idle
    <3>2. \A v \in Workers \ {w} : q \notin lost => ~ Runs(v, q)
      BY <1>1, <1>4 DEF Alone, Runs, Holds, q
    <3>3. \A v \in Workers \ {w}, r \in Questions \ {q} :
            Runs(v, r) => (Holds(v)' <=> Holds(v))
      BY <1>2, <2>1, <3>1 DEF Runs, Holds, TypeOK
    <3>4. Alone'
      BY <1>1, <1>2, <2>1, <3>1, <3>2, <3>3 DEF Alone
    <3>5. Answering'
      <4> SUFFICES ASSUME NEW r \in Questions \ lost, stored[r] > 0
                   PROVE  /\ stored[r] = 1
                          /\ job'[r].status \in {"running", "completed", "purged"}
                          /\ \A v \in Workers : Runs(v, r)' => ex'[v].pc = "ending"
        BY <1>2 DEF Answering
      <4>1. \A v \in Workers : Runs(v, r)' => ex'[v] = ex[v]
        BY <1>2, <3>1 DEF TypeOK
      <4> QED
        BY <2>1, <3>1, <4>1 DEF Answering
    <3> QED
      BY <3>4, <3>5
  <2>7. (CompletedIsStored /\ ToldIsFinal)'
    BY <1>1, <1>2, <1>4, <2>1 DEF CompletedIsStored, ToldIsFinal, TypeOK
  <2> QED
    BY <2>2, <2>3, <2>4, <2>5, <2>6, <2>7
<1> QED
  BY <1>3, <1>4

\* A worker that dies leaves its job to the sweep, and the loss is recorded.
LEMMA CrashIInv ==
  ASSUME IInv, NEW w \in Workers, Crash(w)
  PROVE  IInv'
<1> USE DEF IInv, Crash
<1>1. TypeOK'
  BY AnswersAssumption DEF TypeOK, Trouble, Execution, Idle, Executing
<1>2. (Asking /\ Owned /\ Tried)'
  BY DEF Asking, Owned, Tried
<1>3. (Executing /\ StoredFirst)'
  BY DEF Executing, StoredFirst, Holds, TypeOK, Idle
<1>4. (Overlapping /\ OneQuestionAtATime)'
  BY DEF Overlapping, OneQuestionAtATime, Open
<1>5. (Alone /\ Answering)'
  BY DEF Alone, Answering, Runs, Holds, TypeOK, Idle
<1>6. (CompletedIsStored /\ ToldIsFinal)'
  BY DEF CompletedIsStored, ToldIsFinal
<1> QED
  BY <1>1, <1>2, <1>3, <1>4, <1>5, <1>6

\* What the page is told is how the job stands (views.py:583-584).
LEMMA WatchIInv ==
  ASSUME IInv, NEW q \in Questions, Watch(q)
  PROVE  IInv'
<1> USE DEF IInv, Watch
<1>1. TypeOK'
  BY DEF TypeOK
<1>2. (Asking /\ Owned /\ Tried /\ Executing /\ StoredFirst)'
  BY DEF Asking, Owned, Tried, Executing, StoredFirst, Holds
<1>3. (Overlapping /\ OneQuestionAtATime)'
  BY DEF Overlapping, OneQuestionAtATime, Open
<1>4. (Alone /\ Answering)'
  BY DEF Alone, Answering, Runs, Holds
<1>5. (CompletedIsStored /\ ToldIsFinal)'
  BY DEF CompletedIsStored, ToldIsFinal, TypeOK
<1> QED
  BY <1>1, <1>2, <1>3, <1>4, <1>5

-----------------------------------------------------------------------------
(* The theorems. *)

\* The invariant is inductive: one case for each action of Next.
LEMMA NextIInv == IInv /\ [Next]_vars => IInv'
<1> SUFFICES ASSUME IInv, [Next]_vars PROVE IInv'
  OBVIOUS
<1>1. ASSUME NEW q \in Questions, Check(q) PROVE IInv'
  BY <1>1, CheckIInv
<1>2. ASSUME NEW q \in Questions, Ask(q) PROVE IInv'
  BY <1>2, AskIInv
<1>3. ASSUME NEW w \in Workers, NEW q \in Questions, Take(w, q) PROVE IInv'
  BY <1>3, TakeIInv
<1>4. ASSUME NEW q \in Questions, Expire(q) PROVE IInv'
  BY <1>4, ExpireIInv
<1>5. ASSUME NEW q \in Questions, Purge(q) PROVE IInv'
  BY <1>5, PurgeIInv
<1>6. ASSUME NEW w \in Workers, Delta(w) PROVE IInv'
  BY <1>6, DeltaIInv
<1>7. ASSUME NEW w \in Workers, Tools(w) PROVE IInv'
  BY <1>7, ToolsIInv
<1>8. ASSUME NEW w \in Workers, Answer(w) PROVE IInv'
  BY <1>8, AnswerIInv
<1>9. ASSUME NEW w \in Workers, NEW refused \in BOOLEAN, Fail(w, refused) PROVE IInv'
  BY <1>9, FailIInv
<1>10. ASSUME NEW w \in Workers, Complete(w) PROVE IInv'
  BY <1>10, CompleteIInv
<1>11. ASSUME NEW w \in Workers, Crash(w) PROVE IInv'
  BY <1>11, CrashIInv
<1>12. ASSUME NEW q \in Questions, Watch(q) PROVE IInv'
  BY <1>12, WatchIInv
<1>13. CASE UNCHANGED vars
  BY <1>13 DEF vars, IInv, TypeOK, Asking, Owned, Tried, Executing, StoredFirst, Holds,
     Overlapping, Open, Alone, Answering, Runs, CompletedIsStored, ToldIsFinal,
     OneQuestionAtATime
<1> QED
  BY <1>1, <1>2, <1>3, <1>4, <1>5, <1>6, <1>7, <1>8, <1>9, <1>10, <1>11, <1>12, <1>13
     DEF Next

\* The invariant behind the theorems below holds throughout (ai/services.py:703-848,
\* core/views.py:550-590).
THEOREM Invariance == Spec => []IInv
<1> QED
  BY Start, NextIInv, PTL DEF Spec

\* Every variable of the questions keeps its type; no job is tried more often than
\* MAX_ATTEMPTS times (tasks.py:50-52, 149).
THEOREM TypeCorrect == Spec => []TypeOK
<1>1. IInv => TypeOK
  BY DEF IInv
<1> QED
  BY <1>1, Invariance, PTL

\* A completed job shows an answer that is stored, however many executions it had
\* (services.py:776-791, 848).
THEOREM AnswersStored == Spec => []CompletedIsStored
<1>1. IInv => CompletedIsStored
  BY DEF IInv
<1> QED
  BY <1>1, Invariance, PTL

\* What the page was told is final, but for a job that a sweep gave up while its
\* execution went on (views.py:583-584).
THEOREM WordStands == Spec => []ToldIsFinal
<1>1. IInv => ToldIsFinal
  BY DEF IInv
<1> QED
  BY <1>1, Invariance, PTL

\* Two questions are open only if their requests overlapped, or one came back after
\* it was given up (views.py:550-553).
THEOREM OneOpenQuestion == Spec => []OneQuestionAtATime
<1>1. IInv => OneQuestionAtATime
  BY DEF IInv
<1> QED
  BY <1>1, Invariance, PTL

\* A question is answered once, unless an execution lost its lease or died
\* (services.py:768-776).
THEOREM OneAnswer == Spec => []AnsweredOnce
<1>1. IInv => AnsweredOnce
  BY DEF IInv, Answering, AnsweredOnce, TypeOK
<1> QED
  BY <1>1, Invariance, PTL

=============================================================================
