--------------------------- MODULE MockSubmission ---------------------------
(***************************************************************************)
(* The end of one mock attempt: the learner's saves and submissions, which *)
(* one API process serves one at a time, beside the sweeper, which submits *)
(* attempts whose window closed more than a minute ago and drains the job  *)
(* table. The sweeper runs on the scheduler's thread and, when an          *)
(* administrator asks for it, on another; all die with the process.        *)
(*                                                                         *)
(*   clock     whether the window is open, closed, or closed for more than *)
(*             the minute of grace                                         *)
(*   status, result   the mock_attempts row; result stands for the scores: *)
(*             for each question, the answer it was counted with           *)
(*   answers, marks   the mock_attempt_responses rows: the saved answer,   *)
(*             and the answer that is_correct and marks_awarded grade      *)
(*   history   how many mock_tests rows the attempt has                    *)
(*   analytics whether the summary row, and the breakdowns that are        *)
(*             written after it, exist                                     *)
(*   jobs      mock_attempt_jobs rows; an active one is due once its       *)
(*             scheduled_for has come                                      *)
(*   gaveUp    (history) the kinds a sweeper gave up on                    *)
(*   pc, snap, todo   each process: where it is, the answers it read and   *)
(*             the rows it has still to score                              *)
(*   batch, job   each sweeper: the due jobs it read, with the attempts it *)
(*             saw, and the one it works on                                *)
(*                                                                         *)
(* A database call is a step. One that fails raises, or is swallowed where *)
(* the code wraps it in _safe; it may have been carried out all the same.  *)
(***************************************************************************)
EXTENDS Naturals, FiniteSets

CONSTANTS
  Questions, Options,
  NoAnswer,      \* null
  Unread,        \* no row was read, or nothing was scored yet
  Api,           \* the process that serves the learner's requests
  Timer,         \* the scheduler's sweeper
  Manual,        \* sweeps an administrator starts
  MaxAttempts,   \* max_attempts of a job, 5 in the code
  ReadFaults,    \* whether the read of the answers may fail
  MaxRows,       \* bound: job rows kept apart
  MaxFaults,     \* bound: calls that fail
  MaxCrashes     \* bound: deaths of the process

Sweepers == {Timer} \cup Manual
Procs == {Api} \cup Sweepers
Rows == 1..MaxRows
Kinds == {"auto_submit", "analytics_retry", "mock_tests_retry"}
Active == {"pending", "running"}

ASSUME ProcessAssumption == Api \notin Sweepers
ASSUME AnswerAssumption == Unread \notin Options \cup {NoAnswer}
ASSUME BoundAssumption ==
  /\ MaxAttempts \in Nat /\ MaxRows \in Nat
  /\ MaxFaults \in Nat /\ MaxCrashes \in Nat
ASSUME FaultAssumption == ReadFaults \in BOOLEAN

VARIABLES clock, status, answers, marks, result, history, analytics,
          jobs, gaveUp, pc, snap, todo, batch, job, faults, crashes

attempt == <<status, answers, marks, result, history, analytics>>
table == <<jobs, gaveUp>>
local == <<snap, todo>>
sweep == <<batch, job>>
vars == <<clock, attempt, table, pc, local, sweep, faults, crashes>>

Answers == [Questions -> Options \cup {NoAnswer}]
Readings == [Questions -> Options \cup {NoAnswer, Unread}]
Nothing == [q \in Questions |-> Unread]
Job == [kind : Kinds, st : {"free", "pending", "running", "done", "failed"},
        attempts : Nat, due : BOOLEAN]
Copy == [row : Rows, kind : Kinds, attempts : Nat]
NoRow == [kind |-> "analytics_retry", st |-> "free", attempts |-> 0, due |-> FALSE]
NoJob == [row |-> 0, kind |-> "analytics_retry", attempts |-> 0]

Finalising == {"read", "score", "emit", "reemit", "derive", "detail"}
ApiPlaces == Finalising \cup {"idle", "settle", "requeue", "repair", "repair_summary"}
SweepPlaces == Finalising \cup {"idle", "due", "next", "auto", "insert", "write",
                               "enqueue", "complete", "retry"}

TypeOK ==
  /\ clock \in {"open", "closed", "overdue"}
  /\ status \in {"in_progress", "submitted"}
  /\ answers \in Answers
  /\ marks \in Readings /\ result \in Readings
  /\ history \in 0..2
  /\ analytics \in {"none", "summary", "full"}
  /\ jobs \in [Rows -> Job]
  /\ gaveUp \in SUBSET Kinds
  /\ pc \in [Procs -> ApiPlaces \cup SweepPlaces]
  /\ pc[Api] \in ApiPlaces
  /\ \A s \in Sweepers : pc[s] \in SweepPlaces
  /\ snap \in [Procs -> Readings]
  /\ todo \in [Procs -> SUBSET Questions]
  /\ batch \in [Sweepers -> SUBSET Copy]
  /\ job \in [Sweepers -> Copy \cup {NoJob}]
  /\ faults \in 0..MaxFaults
  /\ crashes \in 0..MaxCrashes

Init ==
  /\ clock = "open"
  /\ status = "in_progress"
  /\ answers = [q \in Questions |-> NoAnswer]
  /\ marks = Nothing
  /\ result = Nothing
  /\ history = 0
  /\ analytics = "none"
  /\ jobs = [r \in Rows |-> NoRow]
  /\ gaveUp = {}
  /\ pc = [p \in Procs |-> "idle"]
  /\ snap = [p \in Procs |-> Nothing]
  /\ todo = [p \in Procs |-> {}]
  /\ batch = [s \in Sweepers |-> {}]
  /\ job = [s \in Sweepers |-> NoJob]
  /\ faults = 0
  /\ crashes = 0

-----------------------------------------------------------------------------
(* The job table *)

\* A call is answered, or fails.
Works == UNCHANGED faults
Fails == faults < MaxFaults /\ faults' = faults + 1

Goto(p, l) == pc' = [pc EXCEPT ![p] = l]

\* The active row of a kind: the partial unique index allows one.
IsActive(k, r) == jobs[r].kind = k /\ jobs[r].st \in Active

HasActive(k) == \E r \in Rows : IsActive(k, r)

\* A row nobody refers to any more can stand for a new one.
Spare(r) ==
  /\ jobs[r].st \notin Active
  /\ \A s \in Sweepers : job[s].row # r /\ \A j \in batch[s] : j.row # r

\* (mutant) a finished row of the kind is taken for an active one.
ScheduledOnce(k) ==
  \/ \E r \in Rows :
       /\ IsActive(k, r)
       /\ jobs' = [jobs EXCEPT ![r].st = "pending", ![r].due = TRUE]
  \/ /\ ~HasActive(k)
     /\ \E r \in Rows : jobs[r].kind = k /\ jobs[r].st \in {"done", "failed"}
     /\ UNCHANGED jobs
  \/ /\ ~\E r \in Rows : jobs[r].kind = k /\ jobs[r].st # "free"
     /\ \E r \in Rows :
          /\ Spare(r) /\ \A o \in 1..(r - 1) : ~Spare(o)
          /\ jobs' = [jobs EXCEPT ![r] = [kind |-> k, st |-> "pending",
                                          attempts |-> 0, due |-> TRUE]]

\* schedule_job: resets the active row of the kind, or inserts one.
Scheduled(k) ==
  \/ \E r \in Rows :
       /\ IsActive(k, r)
       /\ jobs' = [jobs EXCEPT ![r].st = "pending", ![r].due = TRUE]
  \/ /\ ~HasActive(k)
     /\ \E r \in Rows :
          /\ Spare(r) /\ \A o \in 1..(r - 1) : ~Spare(o)
          /\ jobs' = [jobs EXCEPT ![r] = [kind |-> k, st |-> "pending",
                                          attempts |-> 0, due |-> TRUE]]

\* Its calls are swallowed when they fail.
Schedule(k) == \/ Works /\ Scheduled(k)
               \/ Fails /\ UNCHANGED jobs

\* An update by id, which the unique index refuses when it would make a
\* second active row of the kind; the refusal is swallowed.
Put(r, rec) ==
  jobs' = IF /\ rec.st \in Active
             /\ \E o \in Rows \ {r} : IsActive(rec.kind, o)
          THEN jobs ELSE [jobs EXCEPT ![r] = rec]

\* (mutant) not filtered by kind.
CompletedAll(k) ==
  jobs' = [r \in Rows |-> IF jobs[r].st \in Active
                          THEN [jobs[r] EXCEPT !.st = "done", !.due = FALSE]
                          ELSE jobs[r]]

\* _complete_job: whatever row of the kind is active, not the one it ran.
Completed(k) ==
  jobs' = [r \in Rows |-> IF IsActive(k, r)
                          THEN [jobs[r] EXCEPT !.st = "done", !.due = FALSE]
                          ELSE jobs[r]]

Complete(k) == \/ Works /\ Completed(k)
               \/ Fails /\ UNCHANGED jobs

-----------------------------------------------------------------------------
(* The learner *)

\* (mutant) the deadline is not checked.
AcceptsLate == status = "in_progress"

\* (mutant) only the deadline is.
AcceptsSubmitted == clock = "open"

\* save_answer: in progress and not expired.
Accepts == status = "in_progress" /\ clock = "open"

Save(q) ==
  /\ pc[Api] = "idle" /\ Accepts
  /\ \E o \in Options \cup {NoAnswer} : answers' = [answers EXCEPT ![q] = o]
  /\ UNCHANGED <<clock, status, marks, result, history, analytics, table, pc,
                 local, sweep, faults, crashes>>

\* submit_attempt, of an attempt in progress: also after the window closed.
Submit ==
  /\ pc[Api] = "idle" /\ status = "in_progress"
  /\ Goto(Api, "read")
  /\ UNCHANGED <<clock, attempt, table, local, sweep, faults, crashes>>

\* submit_attempt, again: it repairs what the first one may have left out.
Resubmit ==
  /\ pc[Api] = "idle" /\ status = "submitted"
  /\ Goto(Api, "repair")
  /\ UNCHANGED <<clock, attempt, table, local, sweep, faults, crashes>>

RepairHistory ==
  /\ pc[Api] = "repair"
  /\ IF history = 0 THEN Schedule("mock_tests_retry") ELSE UNCHANGED <<jobs, faults>>
  /\ Goto(Api, "repair_summary")
  /\ UNCHANGED <<clock, attempt, gaveUp, local, sweep, crashes>>

RepairSummary ==
  /\ pc[Api] = "repair_summary"
  /\ IF analytics = "none" THEN Schedule("analytics_retry") ELSE UNCHANGED <<jobs, faults>>
  /\ Goto(Api, "idle")
  /\ UNCHANGED <<clock, attempt, gaveUp, local, sweep, crashes>>

Tick ==
  /\ clock # "overdue"
  /\ clock' = IF clock = "open" THEN "closed" ELSE "overdue"
  /\ UNCHANGED <<attempt, table, pc, local, sweep, faults, crashes>>

-----------------------------------------------------------------------------
(* Finalising, by whoever got here: _finalize_submission *)

\* (mutant) a request is handled like a job.
RaisedAsJob(p) == Goto(p, "retry")

\* Where an exception takes a process: a 503, or the sweeper's handler.
Raised(p) == Goto(p, IF p = Api THEN "idle" ELSE "retry")

\* What it read goes with the call.
Forget(p) == /\ snap' = [snap EXCEPT ![p] = Nothing]
             /\ todo' = [todo EXCEPT ![p] = {}]

\* What the read of the answers gives; a failed one is swallowed and looks
\* like an attempt without rows.
Read(p) ==
  /\ pc[p] = "read"
  /\ \E s \in {answers} \cup (IF ReadFaults THEN {Nothing} ELSE {}) :
       /\ snap' = [snap EXCEPT ![p] = s]
       /\ todo' = [todo EXCEPT ![p] = {q \in Questions : s[q] # Unread}]
  /\ Goto(p, "score")
  /\ UNCHANGED <<clock, attempt, table, sweep, faults, crashes>>

\* One row's marks.
Score(p, q) ==
  /\ pc[p] = "score" /\ q \in todo[p]
  /\ todo' = [todo EXCEPT ![p] = @ \ {q}]
  /\ marks' = [marks EXCEPT ![q] = snap[p][q]]
  /\ UNCHANGED <<clock, status, answers, result, history, analytics, table, pc,
                 snap, sweep, faults, crashes>>

\* The attempt's scores and its status, whatever its status is by now. The
\* call may raise although it was carried out.
Flip(p) ==
  /\ pc[p] = "score" /\ todo[p] = {}
  /\ status' = "submitted"
  /\ result' = snap[p]
  /\ \/ Works /\ Goto(p, "emit")
     \/ Fails /\ Raised(p)
  /\ Forget(p)
  /\ UNCHANGED <<clock, answers, marks, history, analytics, table, sweep, crashes>>

\* A write of the scores or of the status fails.
ScoringFails(p) ==
  /\ pc[p] = "score" /\ Fails /\ Raised(p)
  /\ Forget(p)
  /\ UNCHANGED <<clock, attempt, table, sweep, crashes>>

\* Two rows stand for any number of them.
Inserted == history' = IF history < 2 THEN history + 1 ELSE history

\* _emit_mock_tests_row, which schedules a retry when it raises.
Emit(p) ==
  /\ pc[p] = "emit"
  /\ \/ Works /\ Inserted /\ Goto(p, IF p = Api THEN "derive" ELSE "enqueue")
     \/ Fails /\ (Inserted \/ UNCHANGED history) /\ Goto(p, "reemit")
  /\ UNCHANGED <<clock, status, answers, marks, result, analytics, table, local,
                 sweep, crashes>>

Reemit(p) ==
  /\ pc[p] = "reemit"
  /\ Schedule("mock_tests_retry")
  /\ Goto(p, IF p = Api THEN "derive" ELSE "enqueue")
  /\ UNCHANGED <<clock, attempt, gaveUp, local, sweep, crashes>>

\* compute_and_persist: the summary first.
Derive(p) ==
  /\ pc[p] = "derive"
  /\ \/ /\ Works /\ status = "submitted"
        /\ analytics' = IF analytics = "none" THEN "summary" ELSE analytics
        /\ Goto(p, "detail")
     \/ /\ Fails /\ UNCHANGED analytics
        /\ Goto(p, IF p = Api THEN "requeue" ELSE "retry")
  /\ UNCHANGED <<clock, status, answers, marks, result, history, table, local,
                 sweep, crashes>>

\* Then the breakdowns.
Detail(p) ==
  /\ pc[p] = "detail"
  /\ \/ /\ Works /\ analytics' = "full"
        /\ Goto(p, IF p = Api THEN "settle" ELSE "complete")
     \/ /\ Fails /\ UNCHANGED analytics
        /\ Goto(p, IF p = Api THEN "requeue" ELSE "retry")
  /\ UNCHANGED <<clock, status, answers, marks, result, history, table, local,
                 sweep, crashes>>

\* A submission that derived its analytics ends the job for them, if any.
Settle ==
  /\ pc[Api] = "settle"
  /\ Complete("analytics_retry")
  /\ Goto(Api, "idle")
  /\ UNCHANGED <<clock, attempt, gaveUp, local, sweep, crashes>>

\* One that failed to leaves them to the sweeper.
Requeue ==
  /\ pc[Api] = "requeue"
  /\ Schedule("analytics_retry")
  /\ Goto(Api, "idle")
  /\ UNCHANGED <<clock, attempt, gaveUp, local, sweep, crashes>>

-----------------------------------------------------------------------------
(* The sweeper *)

\* (mutant) the window is not compared with the clock.
ExpiredAnyway == TRUE

\* Past expires_at by more than the grace.
Expired == clock = "overdue"

\* Phase A.
Sweep(s) ==
  /\ pc[s] = "idle"
  /\ IF status = "in_progress" /\ Expired
     THEN Schedule("auto_submit") ELSE UNCHANGED <<jobs, faults>>
  /\ Goto(s, "due")
  /\ UNCHANGED <<clock, attempt, gaveUp, local, sweep, crashes>>

\* Phase B reads the due jobs, also running ones whose lease ran out.
ReadDue(s) ==
  /\ pc[s] = "due"
  /\ batch' = [batch EXCEPT ![s] =
       {[row |-> r, kind |-> jobs[r].kind, attempts |-> jobs[r].attempts] :
          r \in {r \in Rows : jobs[r].st \in Active /\ jobs[r].due}}]
  /\ Goto(s, "next")
  /\ UNCHANGED <<clock, attempt, table, local, job, faults, crashes>>

SweepEnds(s) ==
  /\ pc[s] = "next" /\ batch[s] = {}
  /\ Goto(s, "idle")
  /\ UNCHANGED <<clock, attempt, table, local, sweep, faults, crashes>>

\* _fail_job, by what the sweep read.
GiveUp(s, j) ==
  /\ pc[s] = "next" /\ j \in batch[s] /\ j.attempts >= MaxAttempts
  /\ batch' = [batch EXCEPT ![s] = @ \ {j}]
  /\ \/ Works /\ Put(j.row, [jobs[j.row] EXCEPT !.st = "failed", !.due = FALSE])
     \/ Fails /\ UNCHANGED jobs
  /\ gaveUp' = gaveUp \cup {j.kind}
  /\ UNCHANGED <<clock, attempt, pc, local, job, crashes>>

\* Where the handler of a kind starts.
Entry(k) == CASE k = "auto_submit" -> "auto"
              [] k = "analytics_retry" -> "derive"
              [] k = "mock_tests_retry" -> "insert"

\* _mark_running: the attempts are those the sweep read, plus one; the job
\* runs even if the row was refused or lost.
Claim(s, j) ==
  /\ pc[s] = "next" /\ j \in batch[s] /\ j.attempts < MaxAttempts
  /\ batch' = [batch EXCEPT ![s] = @ \ {j}]
  /\ job' = [job EXCEPT ![s] = j]
  /\ \/ Works /\ Put(j.row, [kind |-> j.kind, st |-> "running",
                              attempts |-> j.attempts + 1, due |-> FALSE])
     \/ Fails /\ UNCHANGED jobs
  /\ Goto(s, Entry(j.kind))
  /\ UNCHANGED <<clock, attempt, gaveUp, local, crashes>>

\* auto_submit_attempt: nothing is left to do once the attempt is submitted,
\* nor, it seems, when the attempt could not be read.
AutoSubmit(s) ==
  /\ pc[s] = "auto"
  /\ \/ Works /\ Goto(s, IF status = "in_progress" THEN "read" ELSE "complete")
     \/ Fails /\ Goto(s, "complete")
  /\ UNCHANGED <<clock, attempt, table, local, sweep, crashes>>

Enqueue(s) ==
  /\ pc[s] = "enqueue"
  /\ Schedule("analytics_retry")
  /\ Goto(s, "complete")
  /\ UNCHANGED <<clock, attempt, gaveUp, local, sweep, crashes>>

\* _retry_emit_mock_tests_row looks for the row,
LookForHistory(s) ==
  /\ pc[s] = "insert"
  /\ Goto(s, IF history = 0 THEN "write" ELSE "complete")
  /\ UNCHANGED <<clock, attempt, table, local, sweep, faults, crashes>>

\* and inserts it if it saw none.
InsertHistory(s) ==
  /\ pc[s] = "write"
  /\ \/ Works /\ Inserted /\ Goto(s, "complete")
     \/ Fails /\ (Inserted \/ UNCHANGED history) /\ Goto(s, "retry")
  /\ UNCHANGED <<clock, status, answers, marks, result, analytics, table, local,
                 sweep, crashes>>

Finish(s) ==
  /\ pc[s] = "complete"
  /\ Complete(job[s].kind)
  /\ job' = [job EXCEPT ![s] = NoJob]
  /\ Goto(s, "next")
  /\ UNCHANGED <<clock, attempt, gaveUp, local, batch, crashes>>

\* _reschedule_job, by id: later, and with whatever attempts the row has.
Retry(s) ==
  /\ pc[s] = "retry"
  /\ \/ Works /\ Put(job[s].row, [jobs[job[s].row] EXCEPT !.st = "pending",
                                                         !.due = FALSE])
     \/ Fails /\ UNCHANGED jobs
  /\ job' = [job EXCEPT ![s] = NoJob]
  /\ Goto(s, "next")
  /\ UNCHANGED <<clock, attempt, gaveUp, local, batch, crashes>>

\* A back-off or a lease ends.
FallsDue(r) ==
  /\ jobs[r].st \in Active /\ ~jobs[r].due
  /\ jobs' = [jobs EXCEPT ![r].due = TRUE]
  /\ UNCHANGED <<clock, attempt, gaveUp, pc, local, sweep, faults, crashes>>

\* The process dies, with its requests and its sweeps.
Crash ==
  /\ crashes < MaxCrashes /\ crashes' = crashes + 1
  /\ pc' = [p \in Procs |-> "idle"]
  /\ snap' = [p \in Procs |-> Nothing]
  /\ todo' = [p \in Procs |-> {}]
  /\ batch' = [s \in Sweepers |-> {}]
  /\ job' = [s \in Sweepers |-> NoJob]
  /\ UNCHANGED <<clock, attempt, table, faults>>

-----------------------------------------------------------------------------

\* A step of a request or a sweep under way.
Finalise(p) ==
  \/ Read(p) \/ Flip(p) \/ ScoringFails(p) \/ Emit(p) \/ Reemit(p)
  \/ Derive(p) \/ Detail(p)
  \/ \E q \in Questions : Score(p, q)

Request == Finalise(Api) \/ RepairHistory \/ RepairSummary \/ Settle \/ Requeue

Work(s) ==
  \/ Finalise(s)
  \/ ReadDue(s) \/ SweepEnds(s) \/ AutoSubmit(s) \/ Enqueue(s)
  \/ LookForHistory(s) \/ InsertHistory(s) \/ Finish(s) \/ Retry(s)
  \/ \E j \in batch[s] : GiveUp(s, j) \/ Claim(s, j)

Next ==
  \/ \E q \in Questions : Save(q)
  \/ Submit \/ Resubmit \/ Request \/ Tick \/ Crash
  \/ \E s \in Sweepers : Sweep(s) \/ Work(s)
  \/ \E r \in Rows : FallsDue(r)

Spec == Init /\ [][Next]_vars

\* The scheduler starts a sweep every 30 seconds; what has started runs on;
\* leases and back-offs end. Nobody has to submit, nor an administrator to
\* start a sweep.
Fairness ==
  /\ WF_vars(Request)
  /\ WF_vars(Sweep(Timer))
  /\ \A s \in Sweepers : WF_vars(Work(s))
  /\ \A r \in Rows : WF_vars(FallsDue(r))

FairSpec == Spec /\ Fairness

-----------------------------------------------------------------------------
(* Properties *)

\* A submitted attempt counts each answer as it is saved, in its scores and
\* in the marks of every row, whoever submitted it and whatever else was
\* under way.
ResultMatchesAnswers ==
  status = "submitted" => result = answers /\ marks = answers

\* Once an attempt is submitted, no later submission, sweep or job changes
\* its scores: "second call returns same result".
ResultIsFinal == [][status = "submitted" => status' = status /\ result' = result]_vars

\* An attempt whose window closed is submitted, by the learner or without.
ExpiredIsSubmitted == (clock = "overdue") ~> (status = "submitted")

Present(k) == CASE k = "auto_submit" -> status = "submitted"
                [] k = "analytics_retry" -> analytics # "none"
                [] k = "mock_tests_retry" -> history > 0

\* What has a job is done in the end, unless a sweeper gave up on it: a
\* resubmission therefore repairs what a failed call left out.
JobsDeliver == \A k \in Kinds : HasActive(k) ~> (Present(k) \/ k \in gaveUp)

Promise == INSTANCE MockAttempt
ImplementsMockAttempt == Promise!Spec

\* A submitted attempt whose analytics are missing has a job for them, or
\* somebody is about to make one.
SubmittedIsAnalysed ==
  status = "submitted" =>
    \/ analytics # "none" \/ HasActive("analytics_retry")
    \/ "analytics_retry" \in gaveUp
    \/ \E p \in Procs : pc[p] \in {"emit", "reemit", "derive", "requeue", "enqueue"}
=============================================================================
