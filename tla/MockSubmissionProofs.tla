----------------------- MODULE MockSubmissionProofs ------------------------
(***************************************************************************)
(* Proofs about MockSubmission for any questions and options, any number   *)
(* of sweeps and job rows, and any failures and crashes.                   *)
(***************************************************************************)
EXTENDS MockSubmission, TLAPS

\* The sweeper submits only what nobody can save to any more: the job it
\* does so for exists only once the window is long closed.
Watched ==
  /\ \A r \in Rows : jobs[r].kind = "auto_submit" => clock = "overdue"
  /\ \A s \in Sweepers : \A j \in batch[s] : j.kind = "auto_submit" => clock = "overdue"
  /\ \A s \in Sweepers : pc[s] \in {"auto", "read", "score"} => clock = "overdue"

\* What a process scores is what is saved, and the rows it is done with show
\* it.
Current ==
  \A p \in Procs : pc[p] = "score" =>
    /\ snap[p] = answers
    /\ \A q \in Questions \ todo[p] : marks[q] = answers[q]

IInv == TypeOK /\ Watched /\ Current /\ ResultMatchesAnswers

-----------------------------------------------------------------------------
(* Type correctness *)

\* What is written into the job table are job rows.
LEMMA TableTyped ==
  ASSUME TypeOK
  PROVE  /\ \A k \in Kinds : Scheduled(k) => jobs' \in [Rows -> Job]
         /\ \A k \in Kinds : Completed(k) => jobs' \in [Rows -> Job]
         /\ \A r : \A rec : (r \in Rows => rec \in Job) /\ Put(r, rec) => jobs' \in [Rows -> Job]
<1>1. \A r \in Rows : jobs[r] \in Job
  BY DEF TypeOK
<1>2. ASSUME NEW k \in Kinds, Scheduled(k)
      PROVE  jobs' \in [Rows -> Job]
  <2>1. CASE \E r \in Rows : jobs' = [jobs EXCEPT ![r].st = "pending", ![r].due = TRUE]
    <3>1. PICK r \in Rows : jobs' = [jobs EXCEPT ![r].st = "pending", ![r].due = TRUE]
      BY <2>1
    <3>2. [jobs[r] EXCEPT !.st = "pending", !.due = TRUE] \in Job
      BY <1>1 DEF Job
    <3>3. QED
      BY <3>1, <3>2 DEF TypeOK, Job
  <2>2. CASE \E r \in Rows : jobs' = [jobs EXCEPT ![r] = [kind |-> k, st |-> "pending",
                                                        attempts |-> 0, due |-> TRUE]]
    <3>1. [kind |-> k, st |-> "pending", attempts |-> 0, due |-> TRUE] \in Job
      BY DEF Job
    <3>2. QED
      BY <2>2, <3>1 DEF TypeOK
  <2>3. QED
    BY <1>2, <2>1, <2>2 DEF Scheduled
<1>3. ASSUME NEW k \in Kinds, Completed(k)
      PROVE  jobs' \in [Rows -> Job]
  <2>1. \A r \in Rows : [jobs[r] EXCEPT !.st = "done", !.due = FALSE] \in Job
    BY <1>1 DEF Job
  <2>2. QED
    BY <1>1, <1>3, <2>1 DEF Completed
<1>4. ASSUME NEW r, NEW rec, r \in Rows => rec \in Job, Put(r, rec)
      PROVE  jobs' \in [Rows -> Job]
  BY <1>4 DEF Put, TypeOK
<1>5. QED
  BY <1>2, <1>3, <1>4

\* A failed call leaves the counter of failures in its range.
LEMMA FaultsTyped ==
  ASSUME TypeOK, Works \/ Fails
  PROVE  faults' \in 0..MaxFaults
BY BoundAssumption DEF TypeOK, Works, Fails

\* A kind is among the three, its row among the jobs.
LEMMA KindsAreKinds ==
  "auto_submit" \in Kinds /\ "analytics_retry" \in Kinds /\ "mock_tests_retry" \in Kinds
BY DEF Kinds

\* A step that goes from place to place stays on its own map.
LEMMA Moves ==
  ASSUME TypeOK
  PROVE  /\ \A l \in ApiPlaces : Goto(Api, l) =>
              /\ pc' \in [Procs -> ApiPlaces \cup SweepPlaces]
              /\ pc'[Api] \in ApiPlaces
              /\ \A s \in Sweepers : pc'[s] \in SweepPlaces
         /\ \A t \in Sweepers : \A l \in SweepPlaces : Goto(t, l) =>
              /\ pc' \in [Procs -> ApiPlaces \cup SweepPlaces]
              /\ pc'[Api] \in ApiPlaces
              /\ \A s \in Sweepers : pc'[s] \in SweepPlaces
BY ProcessAssumption DEF TypeOK, Goto, Procs

-----------------------------------------------------------------------------

\* At the start everything has its type.
LEMMA InitTyped == Init => TypeOK
BY ProcessAssumption, BoundAssumption
   DEF Init, TypeOK, Procs, ApiPlaces, SweepPlaces, Finalising, Answers, Readings,
       Nothing, NoRow, NoJob, Job, Kinds

\* Each step of a request, a sweep, a job, the clock or a dying process writes
\* values of the variables' types.
LEMMA TypeStep ==
  ASSUME TypeOK, [Next]_vars
  PROVE  TypeOK'
<1>1. ASSUME NEW q \in Questions, Save(q) PROVE TypeOK'
  BY <1>1, TableTyped, FaultsTyped, KindsAreKinds, Moves, BoundAssumption
     DEF TypeOK, attempt, table, local, sweep, ApiPlaces, SweepPlaces, Finalising, Answers, Readings, Save, Accepts
<1>2. CASE Submit
  BY <1>2, TableTyped, FaultsTyped, KindsAreKinds, Moves, BoundAssumption
     DEF TypeOK, attempt, table, local, sweep, ApiPlaces, SweepPlaces, Finalising, Answers, Readings, Submit
<1>3. CASE Resubmit
  BY <1>3, TableTyped, FaultsTyped, KindsAreKinds, Moves, BoundAssumption
     DEF TypeOK, attempt, table, local, sweep, ApiPlaces, SweepPlaces, Finalising, Answers, Readings, Resubmit
<1>4. CASE RepairHistory
  BY <1>4, TableTyped, FaultsTyped, KindsAreKinds, Moves, BoundAssumption
     DEF TypeOK, attempt, table, local, sweep, ApiPlaces, SweepPlaces, Finalising, Answers, Readings, RepairHistory, Schedule
<1>5. CASE RepairSummary
  BY <1>5, TableTyped, FaultsTyped, KindsAreKinds, Moves, BoundAssumption
     DEF TypeOK, attempt, table, local, sweep, ApiPlaces, SweepPlaces, Finalising, Answers, Readings, RepairSummary, Schedule
<1>6. CASE Settle
  BY <1>6, TableTyped, FaultsTyped, KindsAreKinds, Moves, BoundAssumption
     DEF TypeOK, attempt, table, local, sweep, ApiPlaces, SweepPlaces, Finalising, Answers, Readings, Settle, Complete
<1>7. CASE Requeue
  BY <1>7, TableTyped, FaultsTyped, KindsAreKinds, Moves, BoundAssumption
     DEF TypeOK, attempt, table, local, sweep, ApiPlaces, SweepPlaces, Finalising, Answers, Readings, Requeue, Schedule
<1>8. CASE Tick
  BY <1>8, TableTyped, FaultsTyped, KindsAreKinds, Moves, BoundAssumption
     DEF TypeOK, attempt, table, local, sweep, ApiPlaces, SweepPlaces, Finalising, Answers, Readings, Tick
<1>9. CASE Crash
  BY <1>9, TableTyped, FaultsTyped, KindsAreKinds, Moves, BoundAssumption
     DEF TypeOK, attempt, table, local, sweep, ApiPlaces, SweepPlaces, Finalising, Answers, Readings, Crash, Nothing, NoJob, Procs
<1>10. ASSUME NEW p \in Procs, Read(p) PROVE TypeOK'
  BY <1>10, TableTyped, FaultsTyped, KindsAreKinds, Moves, BoundAssumption
     DEF TypeOK, attempt, table, local, sweep, ApiPlaces, SweepPlaces, Finalising, Answers, Readings, Read, Nothing, Procs
<1>11. ASSUME NEW p \in Procs, NEW q \in Questions, Score(p, q) PROVE TypeOK'
  BY <1>11, TableTyped, FaultsTyped, KindsAreKinds, Moves, BoundAssumption
     DEF TypeOK, attempt, table, local, sweep, ApiPlaces, SweepPlaces, Finalising, Answers, Readings, Score, Procs
<1>12. ASSUME NEW p \in Procs, Flip(p) PROVE TypeOK'
  BY <1>12, TableTyped, FaultsTyped, KindsAreKinds, Moves, BoundAssumption
     DEF TypeOK, attempt, table, local, sweep, ApiPlaces, SweepPlaces, Finalising, Answers, Readings, Flip, Forget, Raised, Nothing, Procs
<1>13. ASSUME NEW p \in Procs, ScoringFails(p) PROVE TypeOK'
  BY <1>13, TableTyped, FaultsTyped, KindsAreKinds, Moves, BoundAssumption
     DEF TypeOK, attempt, table, local, sweep, ApiPlaces, SweepPlaces, Finalising, Answers, Readings, ScoringFails, Forget, Raised, Nothing, Procs
<1>14. ASSUME NEW p \in Procs, Emit(p) PROVE TypeOK'
  BY <1>14, TableTyped, FaultsTyped, KindsAreKinds, Moves, BoundAssumption
     DEF TypeOK, attempt, table, local, sweep, ApiPlaces, SweepPlaces, Finalising, Answers, Readings, Emit, Inserted, Procs
<1>15. ASSUME NEW p \in Procs, Reemit(p) PROVE TypeOK'
  BY <1>15, TableTyped, FaultsTyped, KindsAreKinds, Moves, BoundAssumption
     DEF TypeOK, attempt, table, local, sweep, ApiPlaces, SweepPlaces, Finalising, Answers, Readings, Reemit, Schedule, Procs
<1>16. ASSUME NEW p \in Procs, Derive(p) PROVE TypeOK'
  BY <1>16, TableTyped, FaultsTyped, KindsAreKinds, Moves, BoundAssumption
     DEF TypeOK, attempt, table, local, sweep, ApiPlaces, SweepPlaces, Finalising, Answers, Readings, Derive, Procs
<1>17. ASSUME NEW p \in Procs, Detail(p) PROVE TypeOK'
  BY <1>17, TableTyped, FaultsTyped, KindsAreKinds, Moves, BoundAssumption
     DEF TypeOK, attempt, table, local, sweep, ApiPlaces, SweepPlaces, Finalising, Answers, Readings, Detail, Procs
<1>18. ASSUME NEW s \in Sweepers, Sweep(s) PROVE TypeOK'
  BY <1>18, TableTyped, FaultsTyped, KindsAreKinds, Moves, BoundAssumption
     DEF TypeOK, attempt, table, local, sweep, ApiPlaces, SweepPlaces, Finalising, Answers, Readings, Sweep, Schedule
<1>19. ASSUME NEW s \in Sweepers, ReadDue(s) PROVE TypeOK'
  BY <1>19, TableTyped, FaultsTyped, KindsAreKinds, Moves, BoundAssumption
     DEF TypeOK, attempt, table, local, sweep, ApiPlaces, SweepPlaces, Finalising, Answers, Readings, ReadDue, Job, Copy
<1>20. ASSUME NEW s \in Sweepers, SweepEnds(s) PROVE TypeOK'
  BY <1>20, TableTyped, FaultsTyped, KindsAreKinds, Moves, BoundAssumption
     DEF TypeOK, attempt, table, local, sweep, ApiPlaces, SweepPlaces, Finalising, Answers, Readings, SweepEnds
<1>21. ASSUME NEW s \in Sweepers, NEW j \in batch[s], GiveUp(s, j) PROVE TypeOK'
  <2>1. j \in Copy /\ j.row \in Rows /\ j.kind \in Kinds /\ jobs[j.row] \in Job
    BY DEF TypeOK, Copy
  <2>2. [jobs[j.row] EXCEPT !.st = "failed", !.due = FALSE] \in Job
    BY <2>1 DEF Job
  <2>3. jobs' \in [Rows -> Job]
    BY <1>21, <2>2, TableTyped DEF GiveUp, TypeOK
  <2>4. QED
    BY <1>21, <2>1, <2>3, FaultsTyped DEF GiveUp, TypeOK, attempt, local
<1>22. ASSUME NEW s \in Sweepers, NEW j \in batch[s], Claim(s, j) PROVE TypeOK'
  <2>1. j \in Copy /\ j.row \in Rows /\ j.kind \in Kinds /\ j.attempts \in Nat
    BY DEF TypeOK, Copy
  <2>2. [kind |-> j.kind, st |-> "running", attempts |-> j.attempts + 1, due |-> FALSE] \in Job
    BY <2>1 DEF Job
  <2>3. jobs' \in [Rows -> Job]
    BY <1>22, <2>2, TableTyped DEF Claim, TypeOK
  <2>4. Entry(j.kind) \in SweepPlaces
    BY <2>1 DEF Entry, Kinds, SweepPlaces, Finalising
  <2>5. /\ pc' \in [Procs -> ApiPlaces \cup SweepPlaces]
        /\ pc'[Api] \in ApiPlaces
        /\ \A t \in Sweepers : pc'[t] \in SweepPlaces
    BY <1>22, <2>4, Moves DEF Claim
  <2>6. QED
    BY <1>22, <2>1, <2>3, <2>5, FaultsTyped DEF Claim, TypeOK, attempt, local
<1>23. ASSUME NEW s \in Sweepers, AutoSubmit(s) PROVE TypeOK'
  BY <1>23, TableTyped, FaultsTyped, KindsAreKinds, Moves, BoundAssumption
     DEF TypeOK, attempt, table, local, sweep, ApiPlaces, SweepPlaces, Finalising, Answers, Readings, AutoSubmit
<1>24. ASSUME NEW s \in Sweepers, Enqueue(s) PROVE TypeOK'
  BY <1>24, TableTyped, FaultsTyped, KindsAreKinds, Moves, BoundAssumption
     DEF TypeOK, attempt, table, local, sweep, ApiPlaces, SweepPlaces, Finalising, Answers, Readings, Enqueue, Schedule
<1>25. ASSUME NEW s \in Sweepers, LookForHistory(s) PROVE TypeOK'
  BY <1>25, TableTyped, FaultsTyped, KindsAreKinds, Moves, BoundAssumption
     DEF TypeOK, attempt, table, local, sweep, ApiPlaces, SweepPlaces, Finalising, Answers, Readings, LookForHistory
<1>26. ASSUME NEW s \in Sweepers, InsertHistory(s) PROVE TypeOK'
  BY <1>26, TableTyped, FaultsTyped, KindsAreKinds, Moves, BoundAssumption
     DEF TypeOK, attempt, table, local, sweep, ApiPlaces, SweepPlaces, Finalising, Answers, Readings, InsertHistory, Inserted
<1>27. ASSUME NEW s \in Sweepers, Finish(s) PROVE TypeOK'
  BY <1>27, TableTyped, FaultsTyped, KindsAreKinds, Moves, BoundAssumption
     DEF TypeOK, attempt, table, local, sweep, ApiPlaces, SweepPlaces, Finalising, Answers, Readings, Finish, Complete, NoJob, Copy
<1>28. ASSUME NEW s \in Sweepers, Retry(s) PROVE TypeOK'
  <2>1. \A r \in Rows : [jobs[r] EXCEPT !.st = "pending", !.due = FALSE] \in Job
    BY DEF TypeOK, Job
  <2>2. jobs' \in [Rows -> Job]
    BY <1>28, <2>1, TableTyped DEF Retry, TypeOK
  <2>3. /\ pc' \in [Procs -> ApiPlaces \cup SweepPlaces]
        /\ pc'[Api] \in ApiPlaces
        /\ \A t \in Sweepers : pc'[t] \in SweepPlaces
    BY <1>28, Moves DEF Retry, SweepPlaces
  <2>4. QED
    BY <1>28, <2>2, <2>3, FaultsTyped DEF Retry, TypeOK, attempt, local
<1>29. ASSUME NEW r \in Rows, FallsDue(r) PROVE TypeOK'
  BY <1>29, TableTyped, FaultsTyped, KindsAreKinds, Moves, BoundAssumption
     DEF TypeOK, attempt, table, local, sweep, ApiPlaces, SweepPlaces, Finalising, Answers, Readings, FallsDue, Job
<1>30. CASE UNCHANGED vars
  BY <1>30 DEF vars, TypeOK, attempt, table, local, sweep, ApiPlaces, SweepPlaces, Finalising, Answers, Readings
<1>31. QED
  BY <1>1, <1>2, <1>3, <1>4, <1>5, <1>6, <1>7, <1>8, <1>9, <1>10, <1>11, <1>12, <1>13, <1>14, <1>15, <1>16, <1>17, <1>18, <1>19, <1>20, <1>21, <1>22, <1>23, <1>24, <1>25, <1>26, <1>27, <1>28, <1>29, <1>30 DEF Next, Request, Work, Finalise, Procs

\* Attempt, job table and everything in flight keep their types, for any
\* questions, options, sweepers and rows and any failures: every process is at
\* a place of its own handler, and at most the bounded calls have failed
\* (submit_attempt, _finalize_submission, sweep_expired_attempts).
THEOREM TypeCorrect == Spec => []TypeOK
<1>1. Init => TypeOK
  BY InitTyped
<1>2. TypeOK /\ [Next]_vars => TypeOK'
  BY TypeStep
<1>3. QED
  BY <1>1, <1>2, PTL DEF Spec

-----------------------------------------------------------------------------
(* The scores *)

\* No write to the job table turns one kind of job into another.
LEMMA TableKinds ==
  ASSUME TypeOK
  PROVE  /\ \A k : Scheduled(k) => \A o \in Rows : jobs'[o].kind \in {jobs[o].kind, k}
         /\ \A k : Completed(k) => \A o \in Rows : jobs'[o].kind = jobs[o].kind
         /\ \A r, rec : Put(r, rec) =>
              \A o \in Rows : jobs'[o].kind = jobs[o].kind \/ (o = r /\ jobs'[o].kind = rec.kind)
<1>1. \A r \in Rows : jobs[r] \in Job
  BY DEF TypeOK
<1>2. ASSUME NEW k, Scheduled(k), NEW o \in Rows
      PROVE  jobs'[o].kind \in {jobs[o].kind, k}
  <2>1. CASE \E r \in Rows : jobs' = [jobs EXCEPT ![r].st = "pending", ![r].due = TRUE]
    BY <1>1, <2>1 DEF TypeOK, Job
  <2>2. CASE \E r \in Rows : jobs' = [jobs EXCEPT ![r] = [kind |-> k, st |-> "pending",
                                                        attempts |-> 0, due |-> TRUE]]
    BY <2>2 DEF TypeOK
  <2>3. QED
    BY <1>2, <2>1, <2>2 DEF Scheduled
<1>3. ASSUME NEW k, Completed(k), NEW o \in Rows
      PROVE  jobs'[o].kind = jobs[o].kind
  BY <1>1, <1>3 DEF Completed, Job
<1>4. ASSUME NEW r, NEW rec, Put(r, rec), NEW o \in Rows
      PROVE  jobs'[o].kind = jobs[o].kind \/ (o = r /\ jobs'[o].kind = rec.kind)
  BY <1>4 DEF Put, TypeOK
<1>5. QED
  BY <1>2, <1>3, <1>4

\* Jobs that submit on the learner's behalf wait for the grace to pass.
LEMMA WatchedStep ==
  ASSUME TypeOK, Watched, [Next]_vars
  PROVE  Watched'
<1>1. ASSUME NEW q \in Questions, Save(q) PROVE Watched'
  BY <1>1, TableKinds, ProcessAssumption DEF Watched, TypeOK, attempt, table, local, sweep, Goto, Save
<1>2. CASE Submit
  BY <1>2, TableKinds, ProcessAssumption DEF Watched, TypeOK, attempt, table, local, sweep, Goto, Submit
<1>3. CASE Resubmit
  BY <1>3, TableKinds, ProcessAssumption DEF Watched, TypeOK, attempt, table, local, sweep, Goto, Resubmit
<1>4. CASE RepairHistory
  BY <1>4, TableKinds, ProcessAssumption DEF Watched, TypeOK, attempt, table, local, sweep, Goto, RepairHistory, Schedule
<1>5. CASE RepairSummary
  BY <1>5, TableKinds, ProcessAssumption DEF Watched, TypeOK, attempt, table, local, sweep, Goto, RepairSummary, Schedule
<1>6. CASE Settle
  BY <1>6, TableKinds, ProcessAssumption DEF Watched, TypeOK, attempt, table, local, sweep, Goto, Settle, Complete
<1>7. CASE Requeue
  BY <1>7, TableKinds, ProcessAssumption DEF Watched, TypeOK, attempt, table, local, sweep, Goto, Requeue, Schedule
<1>8. CASE Tick
  BY <1>8, TableKinds, ProcessAssumption DEF Watched, TypeOK, attempt, table, local, sweep, Goto, Tick
<1>9. CASE Crash
  BY <1>9 DEF Watched, TypeOK, attempt, table, Crash, Procs
<1>10. ASSUME NEW p \in Procs, Read(p) PROVE Watched'
  BY <1>10, TableKinds, ProcessAssumption DEF Watched, TypeOK, attempt, table, local, sweep, Goto, Read, Procs
<1>11. ASSUME NEW p \in Procs, NEW q \in Questions, Score(p, q) PROVE Watched'
  BY <1>11, TableKinds, ProcessAssumption DEF Watched, TypeOK, attempt, table, local, sweep, Goto, Score
<1>12. ASSUME NEW p \in Procs, Flip(p) PROVE Watched'
  BY <1>12, TableKinds, ProcessAssumption DEF Watched, TypeOK, attempt, table, local, sweep, Goto, Flip, Raised, Procs
<1>13. ASSUME NEW p \in Procs, ScoringFails(p) PROVE Watched'
  BY <1>13, TableKinds, ProcessAssumption DEF Watched, TypeOK, attempt, table, local, sweep, Goto, ScoringFails, Raised, Procs
<1>14. ASSUME NEW p \in Procs, Emit(p) PROVE Watched'
  BY <1>14, TableKinds, ProcessAssumption DEF Watched, TypeOK, attempt, table, local, sweep, Goto, Emit, Procs
<1>15. ASSUME NEW p \in Procs, Reemit(p) PROVE Watched'
  BY <1>15, TableKinds, ProcessAssumption DEF Watched, TypeOK, attempt, table, local, sweep, Goto, Reemit, Schedule, Procs
<1>16. ASSUME NEW p \in Procs, Derive(p) PROVE Watched'
  BY <1>16, TableKinds, ProcessAssumption DEF Watched, TypeOK, attempt, table, local, sweep, Goto, Derive, Procs
<1>17. ASSUME NEW p \in Procs, Detail(p) PROVE Watched'
  BY <1>17, TableKinds, ProcessAssumption DEF Watched, TypeOK, attempt, table, local, sweep, Goto, Detail, Procs
<1>18. ASSUME NEW s \in Sweepers, Sweep(s) PROVE Watched'
  BY <1>18, TableKinds, ProcessAssumption DEF Watched, TypeOK, attempt, table, local, sweep, Goto, Sweep, Schedule, Expired, Procs
<1>19. ASSUME NEW s \in Sweepers, ReadDue(s) PROVE Watched'
  BY <1>19, TableKinds, ProcessAssumption DEF Watched, TypeOK, attempt, table, local, sweep, Goto, ReadDue, Procs
<1>20. ASSUME NEW s \in Sweepers, SweepEnds(s) PROVE Watched'
  BY <1>20, TableKinds, ProcessAssumption DEF Watched, TypeOK, attempt, table, local, sweep, Goto, SweepEnds, Procs
<1>21. ASSUME NEW s \in Sweepers, NEW j \in batch[s], GiveUp(s, j) PROVE Watched'
  <2>1. jobs[j.row] \in Job
    BY DEF TypeOK, Copy
  <2>2. [jobs[j.row] EXCEPT !.st = "failed", !.due = FALSE].kind = jobs[j.row].kind
    BY <2>1 DEF Job
  <2>3. \A o \in Rows : jobs'[o].kind = jobs[o].kind
    <3>1. CASE Put(j.row, [jobs[j.row] EXCEPT !.st = "failed", !.due = FALSE])
      BY <3>1, <2>2 DEF Put, TypeOK
    <3>2. QED
      BY <1>21, <3>1 DEF GiveUp
  <2>4. \A t \in Sweepers : batch'[t] \subseteq batch[t]
    BY <1>21 DEF GiveUp, TypeOK
  <2>5. QED
    BY <1>21, <2>3, <2>4 DEF GiveUp, Watched
<1>22. ASSUME NEW s \in Sweepers, NEW j \in batch[s], Claim(s, j) PROVE Watched'
  BY <1>22, TableKinds, ProcessAssumption DEF Watched, TypeOK, attempt, table, local, sweep, Goto, Claim, Entry, Kinds, Job, Copy, Procs
<1>23. ASSUME NEW s \in Sweepers, AutoSubmit(s) PROVE Watched'
  BY <1>23, TableKinds, ProcessAssumption DEF Watched, TypeOK, attempt, table, local, sweep, Goto, AutoSubmit, Procs
<1>24. ASSUME NEW s \in Sweepers, Enqueue(s) PROVE Watched'
  BY <1>24, TableKinds, ProcessAssumption DEF Watched, TypeOK, attempt, table, local, sweep, Goto, Enqueue, Schedule, Procs
<1>25. ASSUME NEW s \in Sweepers, LookForHistory(s) PROVE Watched'
  BY <1>25, TableKinds, ProcessAssumption DEF Watched, TypeOK, attempt, table, local, sweep, Goto, LookForHistory, Procs
<1>26. ASSUME NEW s \in Sweepers, InsertHistory(s) PROVE Watched'
  BY <1>26, TableKinds, ProcessAssumption DEF Watched, TypeOK, attempt, table, local, sweep, Goto, InsertHistory, Procs
<1>27. ASSUME NEW s \in Sweepers, Finish(s) PROVE Watched'
  BY <1>27, TableKinds, ProcessAssumption DEF Watched, TypeOK, attempt, table, local, sweep, Goto, Finish, Complete, Procs
<1>28. ASSUME NEW s \in Sweepers, Retry(s) PROVE Watched'
  <2>1. \A r \in Rows : [jobs[r] EXCEPT !.st = "pending", !.due = FALSE].kind = jobs[r].kind
    BY DEF TypeOK, Job
  <2>2. \A o \in Rows : jobs'[o].kind = jobs[o].kind
    <3>1. CASE Put(job[s].row, [jobs[job[s].row] EXCEPT !.st = "pending", !.due = FALSE])
      BY <3>1, <2>1 DEF Put, TypeOK
    <3>2. QED
      BY <1>28, <3>1 DEF Retry
  <2>3. /\ UNCHANGED <<batch, clock>>
        /\ \A t \in Sweepers : pc'[t] \in {"auto", "read", "score"} => pc'[t] = pc[t]
    BY <1>28 DEF Retry, Goto, TypeOK, Procs
  <2>4. QED
    BY <2>2, <2>3 DEF Watched
<1>29. ASSUME NEW r \in Rows, FallsDue(r) PROVE Watched'
  BY <1>29, TableKinds, ProcessAssumption DEF Watched, TypeOK, attempt, table, local, sweep, Goto, FallsDue, Job
<1>30. CASE UNCHANGED vars
  BY <1>30 DEF vars, Watched, TypeOK, attempt, table, local, sweep, Goto
<1>31. QED
  BY <1>1, <1>2, <1>3, <1>4, <1>5, <1>6, <1>7, <1>8, <1>9, <1>10, <1>11, <1>12, <1>13, <1>14, <1>15, <1>16, <1>17, <1>18, <1>19, <1>20, <1>21, <1>22, <1>23, <1>24, <1>25, <1>26, <1>27, <1>28, <1>29, <1>30 DEF Next, Request, Work, Finalise, Procs

\* A step that is not one of scoring keeps the attempt's rows and what the
\* processes read, and nobody starts to score.
Aside ==
  /\ UNCHANGED <<status, answers, marks, result, snap, todo>>
  /\ \A p \in Procs : pc'[p] = "score" => pc[p] = "score"

LEMMA AsideSteps ==
  ASSUME TypeOK, [Next]_vars
  PROVE  \/ Aside \/ Crash
         \/ \E q \in Questions : Save(q)
         \/ \E p \in Procs : \/ Read(p) \/ Flip(p) \/ ScoringFails(p)
                            \/ \E q \in Questions : Score(p, q)
<1>1. CASE Submit
  BY <1>1 DEF Aside, TypeOK, attempt, table, local, sweep, Goto, Procs, Submit
<1>2. CASE Resubmit
  BY <1>2 DEF Aside, TypeOK, attempt, table, local, sweep, Goto, Procs, Resubmit
<1>3. CASE RepairHistory
  BY <1>3 DEF Aside, TypeOK, attempt, table, local, sweep, Goto, Procs, RepairHistory
<1>4. CASE RepairSummary
  BY <1>4 DEF Aside, TypeOK, attempt, table, local, sweep, Goto, Procs, RepairSummary
<1>5. CASE Settle
  BY <1>5 DEF Aside, TypeOK, attempt, table, local, sweep, Goto, Procs, Settle
<1>6. CASE Requeue
  BY <1>6 DEF Aside, TypeOK, attempt, table, local, sweep, Goto, Procs, Requeue
<1>7. CASE Tick
  BY <1>7 DEF Aside, TypeOK, attempt, table, local, sweep, Goto, Procs, Tick
<1>8. ASSUME NEW p \in Procs, Emit(p) PROVE Aside
  BY <1>8 DEF Aside, TypeOK, attempt, table, local, sweep, Goto, Procs, Emit
<1>9. ASSUME NEW p \in Procs, Reemit(p) PROVE Aside
  BY <1>9 DEF Aside, TypeOK, attempt, table, local, sweep, Goto, Procs, Reemit
<1>10. ASSUME NEW p \in Procs, Derive(p) PROVE Aside
  BY <1>10 DEF Aside, TypeOK, attempt, table, local, sweep, Goto, Procs, Derive
<1>11. ASSUME NEW p \in Procs, Detail(p) PROVE Aside
  BY <1>11 DEF Aside, TypeOK, attempt, table, local, sweep, Goto, Procs, Detail
<1>12. ASSUME NEW s \in Sweepers, Sweep(s) PROVE Aside
  BY <1>12 DEF Aside, TypeOK, attempt, table, local, sweep, Goto, Procs, Sweep
<1>13. ASSUME NEW s \in Sweepers, ReadDue(s) PROVE Aside
  BY <1>13 DEF Aside, TypeOK, attempt, table, local, sweep, Goto, Procs, ReadDue
<1>14. ASSUME NEW s \in Sweepers, SweepEnds(s) PROVE Aside
  BY <1>14 DEF Aside, TypeOK, attempt, table, local, sweep, Goto, Procs, SweepEnds
<1>15. ASSUME NEW s \in Sweepers, NEW j \in batch[s], GiveUp(s, j) PROVE Aside
  BY <1>15 DEF Aside, TypeOK, attempt, table, local, sweep, Goto, Procs, GiveUp
<1>16. ASSUME NEW s \in Sweepers, NEW j \in batch[s], Claim(s, j) PROVE Aside
  BY <1>16 DEF Aside, TypeOK, attempt, table, local, sweep, Goto, Procs, Claim, Entry, Kinds, Copy
<1>17. ASSUME NEW s \in Sweepers, AutoSubmit(s) PROVE Aside
  BY <1>17 DEF Aside, TypeOK, attempt, table, local, sweep, Goto, Procs, AutoSubmit
<1>18. ASSUME NEW s \in Sweepers, Enqueue(s) PROVE Aside
  BY <1>18 DEF Aside, TypeOK, attempt, table, local, sweep, Goto, Procs, Enqueue
<1>19. ASSUME NEW s \in Sweepers, LookForHistory(s) PROVE Aside
  BY <1>19 DEF Aside, TypeOK, attempt, table, local, sweep, Goto, Procs, LookForHistory
<1>20. ASSUME NEW s \in Sweepers, InsertHistory(s) PROVE Aside
  BY <1>20 DEF Aside, TypeOK, attempt, table, local, sweep, Goto, Procs, InsertHistory
<1>21. ASSUME NEW s \in Sweepers, Finish(s) PROVE Aside
  BY <1>21 DEF Aside, TypeOK, attempt, table, local, sweep, Goto, Procs, Finish
<1>22. ASSUME NEW s \in Sweepers, Retry(s) PROVE Aside
  BY <1>22 DEF Aside, TypeOK, attempt, table, local, sweep, Goto, Procs, Retry
<1>23. ASSUME NEW r \in Rows, FallsDue(r) PROVE Aside
  BY <1>23 DEF Aside, TypeOK, attempt, table, local, sweep, Goto, Procs, FallsDue
<1>24. CASE UNCHANGED vars
  BY <1>24 DEF vars, Aside, TypeOK, attempt, table, local, sweep, Goto, Procs
<1>25. QED
  BY <1>1, <1>2, <1>3, <1>4, <1>5, <1>6, <1>7, <1>8, <1>9, <1>10, <1>11, <1>12, <1>13, <1>14, <1>15, <1>16, <1>17, <1>18, <1>19, <1>20, <1>21, <1>22, <1>23, <1>24 DEF Next, Request, Work, Finalise, Procs

\* What is scored is what is saved, if no read of the answers fails.
LEMMA ScoreStep ==
  ASSUME ReadFaults = FALSE, TypeOK, Watched, Current, ResultMatchesAnswers, [Next]_vars
  PROVE  Current' /\ ResultMatchesAnswers'
<1>1. CASE Aside
  BY <1>1 DEF Aside, Current, ResultMatchesAnswers
<1>2. CASE Crash
  BY <1>2 DEF Crash, Current, ResultMatchesAnswers, attempt
<1>3. ASSUME NEW q \in Questions, Save(q)
      PROVE  Current' /\ ResultMatchesAnswers'
  <2>1. \A p \in Procs : pc'[p] # "score"
    BY <1>3 DEF Save, Accepts, Watched, Procs
  <2>2. status' # "submitted"
    BY <1>3 DEF Save, Accepts
  <2>3. QED
    BY <2>1, <2>2 DEF Current, ResultMatchesAnswers
<1>4. ASSUME NEW p \in Procs, Read(p)
      PROVE  Current' /\ ResultMatchesAnswers'
  <2>1. /\ snap' = [snap EXCEPT ![p] = answers]
        /\ todo' = [todo EXCEPT ![p] = {q \in Questions : answers[q] # Unread}]
    BY <1>4 DEF Read
  <2>2. \A q \in Questions : answers[q] # Unread
    BY AnswerAssumption DEF TypeOK, Answers
  <2>3. Current'
    BY <1>4, <2>1, <2>2 DEF Read, Current, TypeOK, attempt, Goto
  <2>4. QED
    BY <1>4, <2>3 DEF Read, ResultMatchesAnswers, attempt
<1>5. ASSUME NEW p \in Procs, NEW q \in Questions, Score(p, q)
      PROVE  Current' /\ ResultMatchesAnswers'
  <2>1. marks' = [marks EXCEPT ![q] = answers[q]]
    BY <1>5 DEF Score, Current
  <2>2. Current'
    BY <1>5, <2>1 DEF Score, Current, TypeOK, Readings
  <2>3. ResultMatchesAnswers'
    BY <1>5, <2>1 DEF Score, ResultMatchesAnswers, TypeOK, Answers
  <2>4. QED
    BY <2>2, <2>3
<1>6. ASSUME NEW p \in Procs, Flip(p)
      PROVE  Current' /\ ResultMatchesAnswers'
  <2>1. snap[p] = answers /\ marks = answers
    <3>1. snap[p] = answers /\ \A q \in Questions : marks[q] = answers[q]
      BY <1>6 DEF Flip, Current
    <3>2. marks \in Readings /\ answers \in Answers
      BY DEF TypeOK
    <3>3. QED
      BY <3>1, <3>2 DEF Readings, Answers
  <2>2. ResultMatchesAnswers'
    BY <1>6, <2>1 DEF Flip, ResultMatchesAnswers
  <2>3. \A o \in Procs : pc'[o] = "score" => o # p /\ pc[o] = "score"
    BY <1>6 DEF Flip, Raised, Goto, TypeOK
  <2>4. Current'
    BY <1>6, <2>3 DEF Flip, Forget, Current, TypeOK
  <2>5. QED
    BY <2>2, <2>4
<1>7. ASSUME NEW p \in Procs, ScoringFails(p)
      PROVE  Current' /\ ResultMatchesAnswers'
  <2>1. \A o \in Procs : pc'[o] = "score" => o # p /\ pc[o] = "score"
    BY <1>7 DEF ScoringFails, Raised, Goto, TypeOK
  <2>2. Current'
    BY <1>7, <2>1 DEF ScoringFails, Forget, Current, TypeOK, attempt
  <2>3. QED
    BY <1>7, <2>2 DEF ScoringFails, ResultMatchesAnswers, attempt
<1>8. QED
  BY <1>1, <1>2, <1>3, <1>4, <1>5, <1>6, <1>7, AsideSteps

\* Together, the invariant that the scores rest on.
LEMMA Invariance == ReadFaults = FALSE => (Spec => []IInv)
<1>1. Init => TypeOK
  BY InitTyped
<1>2. Init => Watched /\ Current /\ ResultMatchesAnswers
  BY DEF Init, Watched, Current, ResultMatchesAnswers, NoRow, Procs
<1>3. SUFFICES ASSUME ReadFaults = FALSE
               PROVE  Spec => []IInv
  OBVIOUS
<1>4. Init => IInv
  BY <1>1, <1>2 DEF IInv
<1>5. IInv /\ [Next]_vars => IInv'
  BY <1>3, TypeStep, WatchedStep, ScoreStep DEF IInv
<1>6. QED
  BY <1>4, <1>5, PTL DEF Spec

\* As long as no read of the answers fails, a submitted attempt counts each
\* answer as it is saved, whoever submitted it and however often.
THEOREM ScoresAreRight == ReadFaults = FALSE => (Spec => []ResultMatchesAnswers)
<1>1. IInv => ResultMatchesAnswers
  BY DEF IInv
<1>2. QED
  BY <1>1, Invariance, PTL

\* What a submission scores and what it leaves: the answers, or nothing.
Whole == {answers, Nothing}
AllOrNothing ==
  /\ \A p \in Procs : pc[p] = "score" => snap[p] \in Whole
  /\ status = "submitted" => result \in Whole

\* It stays so, whether or not reads fail.
LEMMA AllOrNothingStep ==
  ASSUME TypeOK, Watched, AllOrNothing, [Next]_vars
  PROVE  AllOrNothing'
<1>1. CASE Aside
  BY <1>1 DEF Aside, AllOrNothing, Whole
<1>2. CASE Crash
  BY <1>2 DEF Crash, AllOrNothing, Whole, attempt
<1>3. ASSUME NEW q \in Questions, Save(q)
      PROVE  AllOrNothing'
  BY <1>3 DEF Save, Accepts, Watched, Procs, AllOrNothing
<1>4. ASSUME NEW p \in Procs, Read(p)
      PROVE  AllOrNothing'
  <2>1. PICK s \in {answers} \cup (IF ReadFaults THEN {Nothing} ELSE {}) :
          snap' = [snap EXCEPT ![p] = s]
    BY <1>4 DEF Read
  <2>2. s \in Whole /\ Whole' = Whole
    BY <1>4 DEF Read, Whole, attempt
  <2>3. \A o \in Procs : pc'[o] = "score" => o = p \/ pc[o] = "score"
    BY <1>4 DEF Read, Goto, TypeOK
  <2>4. QED
    BY <1>4, <2>1, <2>2, <2>3 DEF Read, AllOrNothing, TypeOK, attempt
<1>5. ASSUME NEW p \in Procs, NEW q \in Questions, Score(p, q)
      PROVE  AllOrNothing'
  BY <1>5 DEF Score, AllOrNothing, Whole
<1>6. ASSUME NEW p \in Procs, Flip(p)
      PROVE  AllOrNothing'
  <2>1. result' \in Whole /\ Whole' = Whole
    BY <1>6 DEF Flip, AllOrNothing, Whole
  <2>2. \A o \in Procs : pc'[o] = "score" => o # p /\ pc[o] = "score"
    BY <1>6 DEF Flip, Raised, Goto, TypeOK
  <2>3. QED
    BY <1>6, <2>1, <2>2 DEF Flip, Forget, AllOrNothing, TypeOK
<1>7. ASSUME NEW p \in Procs, ScoringFails(p)
      PROVE  AllOrNothing'
  <2>1. \A o \in Procs : pc'[o] = "score" => o # p /\ pc[o] = "score"
    BY <1>7 DEF ScoringFails, Raised, Goto, TypeOK
  <2>2. QED
    BY <1>7, <2>1 DEF ScoringFails, Forget, AllOrNothing, Whole, TypeOK, attempt
<1>8. QED
  BY <1>1, <1>2, <1>3, <1>4, <1>5, <1>6, <1>7, AsideSteps

\* A failed read of the answers costs all of them or nothing: no overlap of
\* submissions and sweeps scores some of the answers, or answers that were
\* replaced in the meantime.
THEOREM ScoresAreWhole == Spec => [](status = "submitted" => result \in {answers, Nothing})
<1>1. Init => TypeOK
  BY InitTyped
<1>2. Init => Watched /\ AllOrNothing
  BY DEF Init, Watched, AllOrNothing, NoRow, Procs
<1>3. (TypeOK /\ Watched /\ AllOrNothing) /\ [Next]_vars => (TypeOK /\ Watched /\ AllOrNothing)'
  BY TypeStep, WatchedStep, AllOrNothingStep
<1>4. AllOrNothing => (status = "submitted" => result \in {answers, Nothing})
  BY DEF AllOrNothing, Whole
<1>5. QED
  BY <1>1, <1>2, <1>3, <1>4, PTL DEF Spec

\* A submitted attempt stays submitted, with its answers.
LEMMA SubmittedStays ==
  ASSUME TypeOK, [Next]_vars, status = "submitted"
  PROVE  status' = status /\ answers' = answers
<1>1. CASE Aside
  BY <1>1 DEF Aside
<1>2. CASE Crash
  BY <1>2 DEF Crash, attempt
<1>3. CASE \E q \in Questions : Save(q)
  BY <1>3 DEF Save, Accepts
<1>4. CASE \E p \in Procs : Read(p) \/ Flip(p) \/ ScoringFails(p) \/ \E q \in Questions : Score(p, q)
  BY <1>4 DEF Read, Flip, ScoringFails, Score, attempt
<1>5. QED
  BY <1>1, <1>2, <1>3, <1>4, AsideSteps

\* And its scores do not change any more.
THEOREM ScoresAreFinal == ReadFaults = FALSE => (Spec => ResultIsFinal)
<1>1. ASSUME ReadFaults = FALSE, IInv, IInv', [Next]_vars, status = "submitted"
      PROVE  status' = status /\ result' = result
  <2>1. status' = "submitted" /\ answers' = answers
    BY <1>1, SubmittedStays DEF IInv
  <2>2. result = answers /\ result' = answers'
    BY <1>1, <2>1 DEF IInv, ResultMatchesAnswers
  <2>3. QED
    BY <1>1, <2>1, <2>2
<1>2. SUFFICES ASSUME ReadFaults = FALSE
               PROVE  Spec => ResultIsFinal
  OBVIOUS
<1>3. IInv /\ IInv' /\ [Next]_vars => [status = "submitted" => status' = status /\ result' = result]_vars
  BY <1>1, <1>2
<1>4. QED
  BY <1>2, <1>3, Invariance, PTL DEF Spec, ResultIsFinal

\* Seen from outside, all of it is one attempt that is answered and then
\* scored once: scoring in steps, twice or by two processes does not show.
THEOREM RefinesMockAttempt == ReadFaults = FALSE => (Spec => ImplementsMockAttempt)
<1>1. Init => Promise!Init
  BY DEF Init, Promise!Init, Nothing
<1>2. ASSUME ReadFaults = FALSE, IInv, IInv', [Next]_vars
      PROVE  [Promise!Next]_(Promise!vars)
  <2>1. CASE Aside
    BY <2>1 DEF Aside, Promise!vars
  <2>2. CASE Crash
    BY <2>2 DEF Crash, attempt, Promise!vars
  <2>3. CASE \E q \in Questions : Save(q)
    BY <2>3 DEF Save, Accepts, Promise!Next, Promise!Change
  <2>4. ASSUME NEW p \in Procs, Flip(p)
        PROVE  [Promise!Next]_(Promise!vars)
    <3>1. status' = "submitted" /\ result' = snap[p] /\ answers' = answers /\ pc[p] = "score"
      BY <2>4 DEF Flip
    <3>2. result' = answers
      BY <1>2, <3>1 DEF IInv, Current
    <3>3. CASE status = "submitted"
      BY <1>2, <3>1, <3>2, <3>3 DEF IInv, ResultMatchesAnswers, Promise!vars
    <3>4. CASE status = "in_progress"
      BY <3>1, <3>2, <3>4 DEF Promise!Next, Promise!Score
    <3>5. QED
      BY <1>2, <3>3, <3>4 DEF IInv, TypeOK
  <2>5. CASE \E p \in Procs : Read(p) \/ ScoringFails(p) \/ \E q \in Questions : Score(p, q)
    BY <2>5 DEF Read, ScoringFails, Score, attempt, Promise!vars
  <2>6. QED
    BY <1>2, <2>1, <2>2, <2>3, <2>4, <2>5, AsideSteps DEF IInv
<1>3. SUFFICES ASSUME ReadFaults = FALSE
               PROVE  Spec => ImplementsMockAttempt
  OBVIOUS
<1>4. IInv /\ IInv' /\ [Next]_vars => [Promise!Next]_(Promise!vars)
  BY <1>2, <1>3
<1>5. QED
  BY <1>1, <1>3, <1>4, Invariance, PTL DEF Spec, ImplementsMockAttempt, Promise!Spec

-----------------------------------------------------------------------------
(* The jobs that repair, whatever fails *)

\* The kinds of job that make up for what a submission left out.
Repairs == {"analytics_retry", "mock_tests_retry"}

\* What a kind of job makes is there, has a job, or was given up on.
Kept(k) == Present(k) \/ HasActive(k) \/ k \in gaveUp
Analysed == Kept("analytics_retry")

\* Who works on a job of which kind, and what those past the analytics leave.
Places ==
  /\ \A s \in Sweepers :
       /\ pc[s] \in {"auto", "read", "score", "emit", "reemit", "enqueue"} =>
            job[s].kind = "auto_submit"
       /\ pc[s] \in {"insert", "write"} => job[s].kind = "mock_tests_retry"
       /\ pc[s] \in {"derive", "detail"} => job[s].kind = "analytics_retry"
       /\ pc[s] = "complete" /\ job[s].kind = "analytics_retry" => analytics # "none"
       /\ pc[s] = "complete" /\ job[s].kind = "mock_tests_retry" => history > 0
       /\ job[s] = NoJob => pc[s] \in {"idle", "due", "next"}
  /\ \A p \in Procs : pc[p] \in {"detail", "settle"} => analytics # "none"

\* What a sweep has read of a job row is still its kind, and no repair it has
\* read of is lost.
Faithful(j) == /\ jobs[j.row].kind = j.kind
               /\ j.kind \in Repairs => Kept(j.kind)

Held == \A s \in Sweepers : /\ \A j \in batch[s] : Faithful(j)
                            /\ job[s] # NoJob => Faithful(job[s])

\* A step leaves the kinds of the rows a sweep refers to.
KindsKept == \A s \in Sweepers :
  /\ \A j \in batch[s] : jobs'[j.row].kind = jobs[j.row].kind
  /\ job[s] # NoJob => jobs'[job[s].row].kind = jobs[job[s].row].kind

\* No call takes a row of the history away.
LEMMA HistoryGrows ==
  ASSUME TypeOK
  PROVE  /\ history = 0 \/ history > 0
         /\ Inserted => history' > 0
BY DEF TypeOK, Inserted

\* What a sweep refers to are rows.
LEMMA Referred ==
  ASSUME TypeOK, NEW s \in Sweepers
  PROVE  /\ \A j \in batch[s] : j \in Copy /\ j.row \in Rows /\ j.kind \in Kinds /\ j # NoJob
         /\ job[s] # NoJob => job[s] \in Copy /\ job[s].row \in Rows /\ job[s].kind \in Kinds
BY DEF TypeOK, Copy, NoJob, Rows

\* Every process is where its job takes it.
LEMMA PlacesStep ==
  ASSUME TypeOK, Places, [Next]_vars
  PROVE  Places'
<1>1. ASSUME NEW q \in Questions, Save(q) PROVE Places'
  BY <1>1 DEF Places, table, local, sweep, Save
<1>2. CASE Submit
  BY <1>2, ProcessAssumption DEF Places, attempt, table, local, sweep, Goto, Submit
<1>3. CASE Resubmit
  BY <1>3, ProcessAssumption DEF Places, attempt, table, local, sweep, Goto, Resubmit
<1>4. CASE RepairHistory
  BY <1>4 DEF Places, attempt, local, sweep, Goto, RepairHistory, Schedule
<1>5. CASE RepairSummary
  BY <1>5 DEF Places, attempt, local, sweep, Goto, RepairSummary, Schedule
<1>6. CASE Settle
  BY <1>6 DEF Places, attempt, local, sweep, Goto, Settle, Complete
<1>7. CASE Requeue
  BY <1>7 DEF Places, attempt, local, sweep, Goto, Requeue, Schedule
<1>8. CASE Tick
  BY <1>8 DEF Places, attempt, table, local, sweep, Tick
<1>9. CASE Crash
  BY <1>9 DEF Places, attempt, table, Procs, Crash
<1>10. ASSUME NEW p \in Procs, Read(p) PROVE Places'
  BY <1>10 DEF Places, attempt, table, sweep, Goto, Read
<1>11. ASSUME NEW p \in Procs, NEW q \in Questions, Score(p, q) PROVE Places'
  BY <1>11 DEF Places, table, sweep, Score
<1>12. ASSUME NEW p \in Procs, Flip(p) PROVE Places'
  BY <1>12 DEF Places, TypeOK, table, sweep, Goto, Procs, Flip, Raised
<1>13. ASSUME NEW p \in Procs, ScoringFails(p) PROVE Places'
  BY <1>13 DEF Places, attempt, table, local, sweep, Goto, ScoringFails, Raised
<1>14. ASSUME NEW p \in Procs, Emit(p) PROVE Places'
  <2>1. history > 0 => history' > 0
    BY <1>14, HistoryGrows DEF Emit
  <2>2. QED
    BY <1>14, <2>1, ProcessAssumption DEF Places, TypeOK, table, local, sweep, Goto, Procs, Emit
<1>15. ASSUME NEW p \in Procs, Reemit(p) PROVE Places'
  BY <1>15, ProcessAssumption DEF Places, attempt, local, sweep, Goto, Reemit, Schedule
<1>16. ASSUME NEW p \in Procs, Derive(p) PROVE Places'
  BY <1>16 DEF Places, TypeOK, table, local, sweep, Goto, Procs, Derive
<1>17. ASSUME NEW p \in Procs, Detail(p) PROVE Places'
  BY <1>17 DEF Places, TypeOK, table, local, sweep, Goto, Procs, Detail
<1>18. ASSUME NEW s \in Sweepers, Sweep(s) PROVE Places'
  BY <1>18 DEF Places, attempt, local, sweep, Goto, Sweep, Schedule
<1>19. ASSUME NEW s \in Sweepers, ReadDue(s) PROVE Places'
  BY <1>19 DEF Places, attempt, table, local, Goto, ReadDue
<1>20. ASSUME NEW s \in Sweepers, SweepEnds(s) PROVE Places'
  BY <1>20 DEF Places, attempt, table, local, sweep, Goto, SweepEnds
<1>21. ASSUME NEW s \in Sweepers, NEW j \in batch[s], GiveUp(s, j) PROVE Places'
  BY <1>21 DEF Places, attempt, local, GiveUp
<1>22. ASSUME NEW s \in Sweepers, NEW j \in batch[s], Claim(s, j) PROVE Places'
  <2>1. /\ j # NoJob /\ j.kind \in Kinds /\ job'[s] = j /\ pc'[s] = Entry(j.kind)
        /\ \A t \in Sweepers \ {s} : job'[t] = job[t]
        /\ \A p \in Procs \ {s} : pc'[p] = pc[p]
        /\ analytics' = analytics /\ history' = history
    BY <1>22, Referred DEF Claim, Goto, TypeOK, Procs, attempt
  <2>2. /\ pc'[s] \in {"auto", "derive", "insert"}
        /\ pc'[s] = "auto" => j.kind = "auto_submit"
        /\ pc'[s] = "derive" => j.kind = "analytics_retry"
        /\ pc'[s] = "insert" => j.kind = "mock_tests_retry"
    BY <2>1 DEF Entry, Kinds
  <2>3. QED
    BY <2>1, <2>2 DEF Places, Procs
<1>23. ASSUME NEW s \in Sweepers, AutoSubmit(s) PROVE Places'
  BY <1>23 DEF Places, TypeOK, attempt, table, local, sweep, Goto, Procs, AutoSubmit
<1>24. ASSUME NEW s \in Sweepers, Enqueue(s) PROVE Places'
  BY <1>24 DEF Places, attempt, local, sweep, Goto, Enqueue, Schedule
<1>25. ASSUME NEW s \in Sweepers, LookForHistory(s) PROVE Places'
  BY <1>25, HistoryGrows DEF Places, TypeOK, attempt, table, local, sweep, Goto, Procs, LookForHistory
<1>26. ASSUME NEW s \in Sweepers, InsertHistory(s) PROVE Places'
  <2>1. /\ history > 0 => history' > 0
        /\ pc'[s] = "complete" => history' > 0
    BY <1>26, HistoryGrows DEF InsertHistory, Goto, TypeOK, Procs
  <2>2. QED
    BY <1>26, <2>1 DEF Places, TypeOK, table, local, sweep, Goto, Procs, InsertHistory
<1>27. ASSUME NEW s \in Sweepers, Finish(s) PROVE Places'
  BY <1>27 DEF Places, TypeOK, attempt, local, Goto, Procs, Finish, Complete
<1>28. ASSUME NEW s \in Sweepers, Retry(s) PROVE Places'
  BY <1>28 DEF Places, TypeOK, attempt, local, Goto, Procs, Retry
<1>29. ASSUME NEW r \in Rows, FallsDue(r) PROVE Places'
  BY <1>29 DEF Places, attempt, local, sweep, FallsDue
<1>30. CASE UNCHANGED vars
  BY <1>30 DEF Places, attempt, table, local, sweep, vars
<1>31. QED
    BY <1>1, <1>2, <1>3, <1>4, <1>5, <1>6, <1>7, <1>8, <1>9, <1>10, <1>11, <1>12, <1>13,
     <1>14, <1>15, <1>16, <1>17, <1>18, <1>19, <1>20, <1>21, <1>22, <1>23, <1>24, <1>25,
     <1>26, <1>27, <1>28, <1>29, <1>30
  DEF Next, Request, Work, Finalise, Procs

\* A job stays active until its kind is ended.
LEMMA ActiveRows ==
  ASSUME TypeOK, NEW a \in Kinds
  PROVE  /\ Scheduled(a) => HasActive(a)'
         /\ \A k : HasActive(a) /\ Scheduled(k) => HasActive(a)'
         /\ \A k \in Kinds \ {a} : HasActive(a) /\ Completed(k) => HasActive(a)'
         /\ \A r \in Rows : \A rec :
              (/\ HasActive(a) /\ Put(r, rec) /\ rec.kind = jobs[r].kind
               /\ rec.st \in Active \/ rec.kind # a) =>
              HasActive(a)'
         /\ HasActive(a) /\ (\E r \in Rows : FallsDue(r)) => HasActive(a)'
         /\ HasActive(a) /\ UNCHANGED jobs => HasActive(a)'
<1>1. \A r \in Rows : jobs[r] \in Job
  BY DEF TypeOK
<1>2. ASSUME NEW k, Scheduled(k), k = a \/ HasActive(a) PROVE HasActive(a)'
  <2>1. ASSUME NEW r \in Rows, jobs[r].kind = k,
               jobs' = [jobs EXCEPT ![r].st = "pending", ![r].due = TRUE]
        PROVE  HasActive(a)'
    <3>1. \A o \in Rows : /\ jobs'[o].kind = jobs[o].kind
                          /\ o = r \/ jobs[o].st \in Active => jobs'[o].st \in Active
      BY <1>1, <2>1 DEF TypeOK, Job, Active
    <3>2. QED
      BY <1>2, <2>1, <3>1 DEF HasActive, IsActive
  <2>2. ASSUME NEW r \in Rows, jobs[r].st \notin Active, jobs' = [jobs EXCEPT ![r] =
               [kind |-> k, st |-> "pending", attempts |-> 0, due |-> TRUE]]
        PROVE  HasActive(a)'
    BY <1>2, <2>2 DEF TypeOK, HasActive, IsActive, Active
  <2>3. QED
    BY <1>2, <2>1, <2>2 DEF Scheduled, Spare, IsActive
<1>3. ASSUME NEW k \in Kinds \ {a}, HasActive(a), Completed(k) PROVE HasActive(a)'
  BY <1>3 DEF Completed, HasActive, IsActive
<1>4. ASSUME NEW r \in Rows, NEW rec, rec.kind = jobs[r].kind,
             rec.st \in Active \/ rec.kind # a, HasActive(a), Put(r, rec)
      PROVE  HasActive(a)'
  BY <1>4 DEF Put, HasActive, IsActive, TypeOK
<1>5. ASSUME NEW r \in Rows, FallsDue(r), HasActive(a) PROVE HasActive(a)'
  <2>1. \A o \in Rows : jobs'[o].kind = jobs[o].kind /\ jobs'[o].st = jobs[o].st
    BY <1>1, <1>5 DEF FallsDue, TypeOK, Job
  <2>2. QED
    BY <1>5, <2>1 DEF HasActive, IsActive
<1>6. HasActive(a) /\ UNCHANGED jobs => HasActive(a)'
  BY DEF HasActive, IsActive
<1>7. QED
  BY <1>2, <1>3, <1>4, <1>5, <1>6, Zenon

\* What a step does to the job table: it schedules, completes or updates rows,
\* and ends a repair only when what it makes is there or given up on.
TableStep ==
  \/ UNCHANGED jobs
  \/ \E k \in Kinds : Scheduled(k)
  \/ \E k \in Kinds : /\ Completed(k)
                      /\ k = "analytics_retry" => analytics # "none"
                      /\ k = "mock_tests_retry" => history > 0
  \/ \E r \in Rows : \E rec :
       /\ Put(r, rec) /\ rec.kind = jobs[r].kind
       /\ rec.st \in Active \/ rec.kind \in gaveUp'
  \/ \E r \in Rows : FallsDue(r)

\* No step takes the summary or the history away, or forgets what was given
\* up on.
Grows == /\ analytics # "none" => analytics' # "none"
         /\ history > 0 => history' > 0
         /\ gaveUp \subseteq gaveUp'

\* Every step treats the table so.
LEMMA TableSteps ==
  ASSUME TypeOK, Places, Held, [Next]_vars
  PROVE  TableStep /\ Grows
<1>1. ASSUME NEW q \in Questions, Save(q) PROVE TableStep /\ Grows
  BY <1>1 DEF TableStep, Grows, table, local, sweep, Save
<1>2. CASE Submit
  BY <1>2 DEF TableStep, Grows, attempt, table, local, sweep, Goto, Submit
<1>3. CASE Resubmit
  BY <1>3 DEF TableStep, Grows, attempt, table, local, sweep, Goto, Resubmit
<1>4. CASE RepairHistory
  BY <1>4, KindsAreKinds
     DEF TableStep, Grows, attempt, local, sweep, Goto, RepairHistory, Schedule
<1>5. CASE RepairSummary
  BY <1>5, KindsAreKinds
     DEF TableStep, Grows, attempt, local, sweep, Goto, RepairSummary, Schedule
<1>6. CASE Settle
  <2>1. analytics # "none" /\ (Completed("analytics_retry") \/ UNCHANGED jobs)
    BY <1>6 DEF Settle, Complete, Places, Procs
  <2>2. QED
    BY <1>6, <2>1, KindsAreKinds DEF Settle, TableStep, Grows, attempt
<1>7. CASE Requeue
  BY <1>7, KindsAreKinds
     DEF TableStep, Grows, attempt, local, sweep, Goto, Requeue, Schedule
<1>8. CASE Tick
  BY <1>8 DEF TableStep, Grows, attempt, table, local, sweep, Tick
<1>9. CASE Crash
  BY <1>9 DEF TableStep, Grows, attempt, table, Crash
<1>10. ASSUME NEW p \in Procs, Read(p) PROVE TableStep /\ Grows
  BY <1>10 DEF TableStep, Grows, attempt, table, sweep, Goto, Read
<1>11. ASSUME NEW p \in Procs, NEW q \in Questions, Score(p, q) PROVE TableStep /\ Grows
  BY <1>11 DEF TableStep, Grows, table, sweep, Score
<1>12. ASSUME NEW p \in Procs, Flip(p) PROVE TableStep /\ Grows
  BY <1>12 DEF TableStep, Grows, table, sweep, Goto, Flip, Raised
<1>13. ASSUME NEW p \in Procs, ScoringFails(p) PROVE TableStep /\ Grows
  BY <1>13 DEF TableStep, Grows, attempt, table, sweep, ScoringFails, Raised
<1>14. ASSUME NEW p \in Procs, Emit(p) PROVE TableStep /\ Grows
  BY <1>14, HistoryGrows DEF TableStep, Grows, table, Emit
<1>15. ASSUME NEW p \in Procs, Reemit(p) PROVE TableStep /\ Grows
  BY <1>15, KindsAreKinds
     DEF TableStep, Grows, attempt, local, sweep, Goto, Reemit, Schedule
<1>16. ASSUME NEW p \in Procs, Derive(p) PROVE TableStep /\ Grows
  BY <1>16 DEF TableStep, Grows, table, local, sweep, Goto, Derive
<1>17. ASSUME NEW p \in Procs, Detail(p) PROVE TableStep /\ Grows
  BY <1>17 DEF TableStep, Grows, table, local, sweep, Goto, Detail
<1>18. ASSUME NEW s \in Sweepers, Sweep(s) PROVE TableStep /\ Grows
  BY <1>18, KindsAreKinds
     DEF TableStep, Grows, attempt, local, sweep, Goto, Sweep, Schedule
<1>19. ASSUME NEW s \in Sweepers, ReadDue(s) PROVE TableStep /\ Grows
  BY <1>19 DEF TableStep, Grows, attempt, table, local, Goto, ReadDue
<1>20. ASSUME NEW s \in Sweepers, SweepEnds(s) PROVE TableStep /\ Grows
  BY <1>20 DEF TableStep, Grows, attempt, table, local, sweep, Goto, SweepEnds
<1>21. ASSUME NEW s \in Sweepers, NEW j \in batch[s], GiveUp(s, j) PROVE TableStep /\ Grows
  <2> DEFINE rec == [jobs[j.row] EXCEPT !.st = "failed", !.due = FALSE]
  <2>1. j.row \in Rows /\ rec.kind = jobs[j.row].kind /\ jobs[j.row].kind = j.kind
    BY Referred DEF TypeOK, Job, Held, Faithful
  <2>2. (Put(j.row, rec) \/ UNCHANGED jobs) /\ gaveUp' = gaveUp \cup {j.kind}
    BY <1>21 DEF GiveUp
  <2>3. Grows
    BY <1>21, <2>2 DEF GiveUp, Grows, attempt
  <2>4. Put(j.row, rec) => TableStep
    <3>1. rec.kind \in gaveUp'
      BY <2>1, <2>2
    <3> HIDE DEF rec
    <3>2. QED
      BY <2>1, <3>1 DEF TableStep
  <2>5. QED
    BY <2>2, <2>3, <2>4 DEF TableStep
<1>22. ASSUME NEW s \in Sweepers, NEW j \in batch[s], Claim(s, j) PROVE TableStep /\ Grows
  <2> DEFINE rec == [kind |-> j.kind, st |-> "running", attempts |-> j.attempts + 1, due |-> FALSE]
  <2>1. j.row \in Rows /\ rec.kind = jobs[j.row].kind /\ rec.st \in Active
    BY Referred DEF Held, Faithful, Active
  <2>2. Put(j.row, rec) \/ UNCHANGED jobs
    BY <1>22 DEF Claim
  <2>3. Put(j.row, rec) => TableStep
    BY <2>1 DEF TableStep
  <2>4. QED
    BY <1>22, <2>2, <2>3 DEF Claim, TableStep, Grows, attempt
<1>23. ASSUME NEW s \in Sweepers, AutoSubmit(s) PROVE TableStep /\ Grows
  BY <1>23 DEF TableStep, Grows, attempt, table, local, sweep, Goto, AutoSubmit
<1>24. ASSUME NEW s \in Sweepers, Enqueue(s) PROVE TableStep /\ Grows
  BY <1>24, KindsAreKinds
     DEF TableStep, Grows, attempt, local, sweep, Goto, Enqueue, Schedule
<1>25. ASSUME NEW s \in Sweepers, LookForHistory(s) PROVE TableStep /\ Grows
  BY <1>25 DEF TableStep, Grows, attempt, table, local, sweep, Goto, LookForHistory
<1>26. ASSUME NEW s \in Sweepers, InsertHistory(s) PROVE TableStep /\ Grows
  BY <1>26, HistoryGrows DEF TableStep, Grows, table, InsertHistory
<1>27. ASSUME NEW s \in Sweepers, Finish(s) PROVE TableStep /\ Grows
  <2>1. /\ job[s].kind \in Kinds
        /\ job[s].kind = "analytics_retry" => analytics # "none"
        /\ job[s].kind = "mock_tests_retry" => history > 0
    BY <1>27, Referred DEF Finish, Places
  <2>2. Completed(job[s].kind) \/ UNCHANGED jobs
    BY <1>27 DEF Finish, Complete
  <2>3. QED
    BY <1>27, <2>1, <2>2 DEF Finish, TableStep, Grows, attempt
<1>28. ASSUME NEW s \in Sweepers, Retry(s) PROVE TableStep /\ Grows
  <2> DEFINE row == job[s].row
             rec == [jobs[row] EXCEPT !.st = "pending", !.due = FALSE]
  <2>1. row \in Rows /\ rec.kind = jobs[row].kind /\ rec.st \in Active
    BY <1>28, Referred DEF Retry, Places, TypeOK, Job, Active
  <2>2. Put(row, rec) \/ UNCHANGED jobs
    BY <1>28 DEF Retry
  <2>3. Put(row, rec) => TableStep
    BY <2>1 DEF TableStep
  <2>4. QED
    BY <1>28, <2>2, <2>3 DEF Retry, TableStep, Grows, attempt
<1>29. ASSUME NEW r \in Rows, FallsDue(r) PROVE TableStep /\ Grows
  BY <1>29 DEF FallsDue, TableStep, Grows, attempt
<1>30. CASE UNCHANGED vars
  BY <1>30 DEF TableStep, Grows, attempt, table, local, sweep, vars
<1>31. QED
    BY <1>1, <1>2, <1>3, <1>4, <1>5, <1>6, <1>7, <1>8, <1>9, <1>10, <1>11, <1>12, <1>13,
     <1>14, <1>15, <1>16, <1>17, <1>18, <1>19, <1>20, <1>21, <1>22, <1>23, <1>24, <1>25,
     <1>26, <1>27, <1>28, <1>29, <1>30
  DEF Next, Request, Work, Finalise, Procs

\* What is there, has a job or was given up on stays so.
LEMMA KeptStep ==
  ASSUME TypeOK, Places, Held, [Next]_vars, NEW k \in Repairs
  PROVE  Kept(k) => Kept(k)'
<1>1. TableStep /\ Grows
  BY TableSteps
<1>2. k \in Kinds
  BY KindsAreKinds DEF Repairs
<1>3. /\ k = "analytics_retry" => /\ Present(k) <=> analytics # "none"
                                  /\ Present(k)' <=> analytics' # "none"
      /\ k = "mock_tests_retry" => /\ Present(k) <=> history > 0
                                   /\ Present(k)' <=> history' > 0
  BY DEF Present
<1>4. HasActive(k) => HasActive(k)' \/ Present(k) \/ k \in gaveUp'
  <2> SUFFICES ASSUME HasActive(k), ~Present(k), k \notin gaveUp'
               PROVE  HasActive(k)'
    OBVIOUS
  <2>1. \A o \in Kinds : Completed(o) /\ o # k => HasActive(k)'
    BY <1>2, ActiveRows
  <2>2. ASSUME NEW o \in Kinds, Completed(o), o = "analytics_retry" => analytics # "none",
               o = "mock_tests_retry" => history > 0
        PROVE  HasActive(k)'
    BY <1>3, <2>1, <2>2 DEF Repairs
  <2>3. ASSUME NEW r \in Rows, NEW rec, Put(r, rec), rec.kind = jobs[r].kind,
               rec.st \in Active \/ rec.kind \in gaveUp'
        PROVE  HasActive(k)'
    BY <1>2, <2>3, ActiveRows
  <2>4. CASE UNCHANGED jobs \/ (\E o \in Kinds : Scheduled(o)) \/ (\E r \in Rows : FallsDue(r))
    BY <1>2, <2>4, ActiveRows
  <2>5. QED
    BY <1>1, <2>2, <2>3, <2>4 DEF TableStep
<1>5. QED
  BY <1>1, <1>3, <1>4 DEF Grows, Kept, Repairs

\* For the analytics.
LEMMA AnalysedStep ==
  ASSUME TypeOK, Places, Held, [Next]_vars
  PROVE  /\ Analysed => Analysed'
         /\ analytics' # "none" \/ Scheduled("analytics_retry") => Analysed'
<1>1. "analytics_retry" \in Repairs /\ "analytics_retry" \in Kinds
  BY KindsAreKinds DEF Repairs
<1>2. QED
  BY <1>1, KeptStep, ActiveRows DEF Analysed, Kept, Present

\* A row that a sweep refers to keeps its kind.
LEMMA KindsStep ==
  ASSUME TypeOK, Places, Held, [Next]_vars
  PROVE  KindsKept
<1>1. TableStep
  BY TableSteps
<1>2. ASSUME NEW k, Scheduled(k) PROVE KindsKept
  <2>1. CASE \E r \in Rows : jobs' = [jobs EXCEPT ![r].st = "pending", ![r].due = TRUE]
    BY <2>1, Referred DEF TypeOK, Job, KindsKept
  <2>2. CASE \E r \in Rows : Spare(r) /\ jobs' = [jobs EXCEPT ![r] =
               [kind |-> k, st |-> "pending", attempts |-> 0, due |-> TRUE]]
    BY <2>2, Referred DEF TypeOK, Spare, KindsKept
  <2>3. QED
    BY <1>2, <2>1, <2>2 DEF Scheduled
<1>3. ASSUME NEW k, Completed(k) PROVE KindsKept
  BY <1>3, TableKinds, Referred DEF KindsKept
<1>4. ASSUME NEW r \in Rows, NEW rec, rec.kind = jobs[r].kind, Put(r, rec)
      PROVE  KindsKept
  BY <1>4, TableKinds, Referred DEF KindsKept
<1>5. ASSUME NEW r \in Rows, FallsDue(r) PROVE KindsKept
  BY <1>5, Referred DEF FallsDue, KindsKept, TypeOK, Job
<1>6. CASE UNCHANGED jobs
  BY <1>6 DEF KindsKept
<1>7. QED
  BY <1>1, <1>2, <1>3, <1>4, <1>5, <1>6 DEF TableStep

\* What a sweep may add to what it refers to.
Reads ==
  \A s \in Sweepers :
    /\ \A j \in batch'[s] : \/ j \in batch[s]
                            \/ /\ j.row \in Rows /\ UNCHANGED jobs
                               /\ j.kind = jobs[j.row].kind /\ jobs[j.row].st \in Active
    /\ job'[s] \in {job[s], NoJob} \cup batch[s]

LEMMA ReadsStep ==
  ASSUME TypeOK, [Next]_vars
  PROVE  Reads
<1> USE DEF Reads
<1>1. CASE UNCHANGED sweep
  BY <1>1 DEF sweep
<1>2. ASSUME NEW s \in Sweepers, ReadDue(s) PROVE Reads
  BY <1>2 DEF ReadDue, TypeOK, table
<1>3. ASSUME NEW s \in Sweepers, NEW j \in batch[s], GiveUp(s, j) \/ Claim(s, j) PROVE Reads
  BY <1>3 DEF GiveUp, Claim, TypeOK
<1>4. ASSUME NEW s \in Sweepers, Finish(s) \/ Retry(s) PROVE Reads
  BY <1>4 DEF Finish, Retry, TypeOK
<1>5. CASE Crash
  BY <1>5 DEF Crash
<1>6. QED
  BY <1>1, <1>2, <1>3, <1>4, <1>5
  DEF Next, Request, Work, Finalise, Save, Submit, Resubmit, RepairHistory,
      RepairSummary, Settle, Requeue, Tick, Read, Score, Flip, ScoringFails, Emit,
      Reemit, Derive, Detail, Sweep, SweepEnds, AutoSubmit, Enqueue, LookForHistory,
      InsertHistory, FallsDue, vars

\* What a sweep refers to stays what it read.
LEMMA HeldStep ==
  ASSUME TypeOK, Places, Held, [Next]_vars
  PROVE  Held'
<1>1. KindsKept /\ Reads /\ (\A k \in Repairs : Kept(k) => Kept(k)')
  BY KindsStep, ReadsStep, KeptStep
<1>2. ASSUME NEW s \in Sweepers, NEW j \in batch[s]
      PROVE  Faithful(j)'
  BY <1>1 DEF Held, Faithful, KindsKept
<1>3. ASSUME NEW s \in Sweepers, NEW j \in batch'[s], j \notin batch[s]
      PROVE  Faithful(j)'
  <2>1. j.row \in Rows /\ UNCHANGED jobs /\ j.kind = jobs[j.row].kind /\ jobs[j.row].st \in Active
    BY <1>1, <1>3 DEF Reads
  <2>2. Kept(j.kind)
    BY <2>1 DEF Kept, HasActive, IsActive
  <2>3. QED
    BY <1>1, <2>1, <2>2 DEF Faithful
<1>4. ASSUME NEW s \in Sweepers, job'[s] # NoJob
      PROVE  Faithful(job[s])'
  <2>1. CASE job'[s] = job[s]
    BY <1>1, <1>4, <2>1 DEF Held, Faithful, KindsKept
  <2>2. CASE job'[s] \in batch[s]
    BY <1>2, <2>2 DEF Faithful
  <2>3. QED
    BY <1>1, <1>4, <2>1, <2>2 DEF Reads
<1>5. QED
  BY <1>2, <1>3, <1>4 DEF Held

\* The places of those who are about to see to the summary.
Owing == {"emit", "reemit", "derive", "requeue", "enqueue"}

\* The steps at which the code can lose the summary: the process dies, or one
\* of three calls fails: the one that submits, the insert of the job after an
\* automatic submission, and the one after a failed derivation.
LosesSummary ==
  \/ Crash
  \/ /\ faults' # faults
     /\ \/ \E p \in Procs : Flip(p)
        \/ \E s \in Sweepers : Enqueue(s)
        \/ Requeue

\* Who is about to see to the summary sees to it, or someone else has.
Owed == \A p \in Procs : pc[p] \in Owing => pc'[p] \in Owing \/ Analysed'

LEMMA OwedStep ==
  ASSUME TypeOK, Places, Held, [Next]_vars, ~LosesSummary
  PROVE  Owed
<1>1. ASSUME NEW q \in Questions, Save(q) PROVE Owed
  BY <1>1 DEF Owed, Owing, table, local, sweep, Save
<1>2. CASE Submit
  BY <1>2 DEF Owed, Owing, attempt, table, local, sweep, Goto, Submit
<1>3. CASE Resubmit
  BY <1>3 DEF Owed, Owing, attempt, table, local, sweep, Goto, Resubmit
<1>4. CASE RepairHistory
  BY <1>4 DEF Owed, Owing, attempt, local, sweep, Goto, RepairHistory, Schedule
<1>5. CASE RepairSummary
  BY <1>5 DEF Owed, Owing, attempt, local, sweep, Goto, RepairSummary, Schedule
<1>6. CASE Settle
  BY <1>6 DEF Owed, Owing, attempt, local, sweep, Goto, Settle, Complete
<1>7. CASE Requeue
  <2>1. Scheduled("analytics_retry")
    BY <1>7 DEF Requeue, Schedule, LosesSummary, Fails, TypeOK
  <2>2. QED
    BY <2>1, AnalysedStep DEF Owed
<1>8. CASE Tick
  BY <1>8 DEF Owed, Owing, attempt, table, local, sweep, Tick
<1>9. CASE Crash
  BY <1>9 DEF LosesSummary
<1>10. ASSUME NEW p \in Procs, Read(p) PROVE Owed
  BY <1>10 DEF Owed, Owing, attempt, table, sweep, Goto, Read
<1>11. ASSUME NEW p \in Procs, NEW q \in Questions, Score(p, q) PROVE Owed
  BY <1>11 DEF Owed, Owing, table, sweep, Score
<1>12. ASSUME NEW p \in Procs, Flip(p) PROVE Owed
  BY <1>12 DEF Owed, Owing, LosesSummary, TypeOK, Flip, Goto, Fails, Works
<1>13. ASSUME NEW p \in Procs, ScoringFails(p) PROVE Owed
  BY <1>13 DEF Owed, Owing, attempt, table, local, sweep, Goto, ScoringFails, Raised
<1>14. ASSUME NEW p \in Procs, Emit(p) PROVE Owed
  BY <1>14 DEF Owed, Owing, TypeOK, table, local, sweep, Goto, Emit
<1>15. ASSUME NEW p \in Procs, Reemit(p) PROVE Owed
  BY <1>15 DEF Owed, Owing, attempt, local, sweep, Goto, Reemit, Schedule
<1>16. ASSUME NEW p \in Procs, Derive(p) PROVE Owed
  <2>1. \A o \in Procs \ {p} : pc'[o] = pc[o]
    BY <1>16 DEF Derive, Goto, TypeOK
  <2>2. CASE analytics' # "none"
    BY <2>2, AnalysedStep DEF Owed
  <2>3. CASE p = Api /\ pc'[p] = "requeue"
    BY <2>1, <2>3 DEF Owed, Owing
  <2>4. CASE p \in Sweepers
    <3>1. job[p] # NoJob /\ job[p].kind = "analytics_retry"
      BY <1>16, <2>4 DEF Derive, Places
    <3>2. QED
      BY <2>4, <3>1, AnalysedStep DEF Held, Faithful, Owed, Repairs, Analysed
  <2>5. QED
    BY <1>16, <2>2, <2>3, <2>4 DEF Derive, Goto, TypeOK, Procs
<1>17. ASSUME NEW p \in Procs, Detail(p) PROVE Owed
  BY <1>17 DEF Owed, Owing, TypeOK, table, local, sweep, Goto, Detail
<1>18. ASSUME NEW s \in Sweepers, Sweep(s) PROVE Owed
  BY <1>18 DEF Owed, Owing, attempt, local, sweep, Goto, Sweep, Schedule
<1>19. ASSUME NEW s \in Sweepers, ReadDue(s) PROVE Owed
  BY <1>19 DEF Owed, Owing, attempt, table, local, Goto, ReadDue
<1>20. ASSUME NEW s \in Sweepers, SweepEnds(s) PROVE Owed
  BY <1>20 DEF Owed, Owing, attempt, table, local, sweep, Goto, SweepEnds
<1>21. ASSUME NEW s \in Sweepers, NEW j \in batch[s], GiveUp(s, j) PROVE Owed
  BY <1>21 DEF Owed, Owing, attempt, local, GiveUp
<1>22. ASSUME NEW s \in Sweepers, NEW j \in batch[s], Claim(s, j) PROVE Owed
  BY <1>22 DEF Owed, Owing, attempt, local, Goto, Claim, Entry
<1>23. ASSUME NEW s \in Sweepers, AutoSubmit(s) PROVE Owed
  BY <1>23 DEF Owed, Owing, TypeOK, attempt, table, local, sweep, Goto, AutoSubmit
<1>24. ASSUME NEW s \in Sweepers, Enqueue(s) PROVE Owed
  <2>1. Scheduled("analytics_retry")
    BY <1>24 DEF Enqueue, Schedule, LosesSummary, Fails, TypeOK
  <2>2. QED
    BY <2>1, AnalysedStep DEF Owed
<1>25. ASSUME NEW s \in Sweepers, LookForHistory(s) PROVE Owed
  BY <1>25 DEF Owed, Owing, attempt, table, local, sweep, Goto, LookForHistory
<1>26. ASSUME NEW s \in Sweepers, InsertHistory(s) PROVE Owed
  BY <1>26 DEF Owed, Owing, TypeOK, table, local, sweep, Goto, InsertHistory
<1>27. ASSUME NEW s \in Sweepers, Finish(s) PROVE Owed
  BY <1>27 DEF Owed, Owing, attempt, local, Goto, Finish, Complete
<1>28. ASSUME NEW s \in Sweepers, Retry(s) PROVE Owed
  BY <1>28 DEF Owed, Owing, attempt, local, Goto, Retry
<1>29. ASSUME NEW r \in Rows, FallsDue(r) PROVE Owed
  BY <1>29 DEF Owed, Owing, attempt, local, sweep, FallsDue
<1>30. CASE UNCHANGED vars
  BY <1>30 DEF Owed, Owing, attempt, table, local, sweep, vars
<1>31. QED
    BY <1>1, <1>2, <1>3, <1>4, <1>5, <1>6, <1>7, <1>8, <1>9, <1>10, <1>11, <1>12, <1>13,
     <1>14, <1>15, <1>16, <1>17, <1>18, <1>19, <1>20, <1>21, <1>22, <1>23, <1>24, <1>25,
     <1>26, <1>27, <1>28, <1>29, <1>30
  DEF Next, Request, Work, Finalise, Procs

\* Only the flip submits,
LEMMA FlipSubmits == [Next]_vars => status' = status \/ \E p \in Procs : Flip(p)
BY DEF Next, Request, Work, Finalise, Procs, attempt, Save, Submit, Resubmit,
       RepairHistory, RepairSummary, Settle, Requeue, Tick, Read, Score, ScoringFails,
       Emit, Reemit, Derive, Detail, Sweep, ReadDue, SweepEnds, GiveUp, Claim, AutoSubmit,
       Enqueue, LookForHistory, InsertHistory, Finish, Retry, FallsDue, Crash, vars

\* and it leaves the summary to the next step.
LEMMA SubmitStep ==
  ASSUME TypeOK, [Next]_vars, ~LosesSummary
  PROVE  status' = status \/ \E p \in Procs : pc'[p] = "emit"
<1>1. ASSUME NEW p \in Procs, Flip(p)
      PROVE  pc'[p] = "emit"
  BY <1>1 DEF Flip, LosesSummary, Fails, Goto, TypeOK
<1>2. QED
  BY <1>1, FlipSubmits

AInv == TypeOK /\ Places /\ Held

\* The table and the processes agree in every reachable state.
LEMMA Analyses == Spec => []AInv
<1>1. Init => AInv
  BY InitTyped DEF Init, AInv, Places, Held, Procs
<1>2. AInv /\ [Next]_vars => AInv'
  BY TypeStep, PlacesStep, HeldStep DEF AInv
<1>3. QED
  BY <1>1, <1>2, PTL DEF Spec

\* Once the summary or the history of an attempt is there, has a job or was
\* given up on, it stays so: no step ends a job before what it makes exists,
\* although jobs are completed by kind and rescheduled by what a sweep once
\* read, for any failures, crashes and overlapping sweeps (_complete_job,
\* _reschedule_job, schedule_job, _mark_running).
THEOREM RepairsLast == Spec => [][\A k \in Repairs : Kept(k) => Kept(k)']_vars
<1>1. AInv /\ [Next]_vars => [\A k \in Repairs : Kept(k) => Kept(k)']_vars
  BY KeptStep DEF AInv
<1>2. QED
  BY <1>1, Analyses, PTL DEF Spec

\* A submitted attempt loses its summary only when the process dies or one of
\* three calls fails; every other call may fail (_finalize_submission,
\* _emit_mock_tests_row, compute_and_persist, the sweeper's handlers).
THEOREM SummariesLostOnlyHere ==
  Spec => [][SubmittedIsAnalysed => SubmittedIsAnalysed' \/ LosesSummary]_vars
<1>1. AInv /\ [Next]_vars =>
        [SubmittedIsAnalysed => SubmittedIsAnalysed' \/ LosesSummary]_vars
  <2> SUFFICES ASSUME AInv, [Next]_vars, SubmittedIsAnalysed, ~LosesSummary
               PROVE  SubmittedIsAnalysed'
    OBVIOUS
  <2>1. (Analysed => Analysed') /\ Owed /\ (status' = status \/ \E p \in Procs : pc'[p] = "emit")
    BY AnalysedStep, OwedStep, SubmitStep DEF AInv
  <2>2. /\ SubmittedIsAnalysed <=>
             (status = "submitted" => Analysed \/ \E p \in Procs : pc[p] \in Owing)
        /\ SubmittedIsAnalysed' <=>
             (status' = "submitted" => Analysed' \/ \E p \in Procs : pc'[p] \in Owing)
    BY DEF SubmittedIsAnalysed, Analysed, Kept, Present, Owing, HasActive, IsActive
  <2>3. QED
    BY <2>1, <2>2 DEF Owed, Owing
<1>2. QED
  BY <1>1, Analyses, PTL DEF Spec

\* As long as no such step is taken, the summary of a submitted attempt is
\* there, owed by a job or about to be seen to, however submissions and sweeps
\* overlap and complete each other's jobs by kind.
THEOREM SummariesAppear ==
  Spec /\ [][~LosesSummary]_vars => []SubmittedIsAnalysed
<1>1. Init => SubmittedIsAnalysed
  BY DEF Init, SubmittedIsAnalysed
<1>2. /\ SubmittedIsAnalysed
      /\ [SubmittedIsAnalysed => SubmittedIsAnalysed' \/ LosesSummary]_vars
      /\ [~LosesSummary]_vars
      => SubmittedIsAnalysed'
  BY DEF SubmittedIsAnalysed, HasActive, IsActive, vars, attempt, table
<1>3. QED
  BY <1>1, <1>2, SummariesLostOnlyHere, PTL DEF Spec

\* In particular where no call fails and the process does not die.
THEOREM FaultlessSummariesAppear ==
  ASSUME MaxFaults = 0, MaxCrashes = 0
  PROVE  Spec => []SubmittedIsAnalysed
<1>1. TypeOK /\ TypeOK' /\ [Next]_vars => [~LosesSummary]_vars
  BY DEF TypeOK, LosesSummary, Crash
<1>2. Spec => [][~LosesSummary]_vars
  BY <1>1, TypeCorrect, PTL DEF Spec
<1>3. QED
  BY <1>2, SummariesAppear

-----------------------------------------------------------------------------
(* The history row *)

\* The places of those who are about to write the history row.
Emitting == {"emit", "reemit"}

\* The steps at which the code can lose it: the process dies, the call that
\* submits fails, or the insert of the job after the row's own insert failed.
LosesHistory ==
  \/ Crash
  \/ /\ faults' # faults
     /\ \E p \in Procs : Flip(p) \/ Reemit(p)

\* A submitted attempt has its row, a job for it, or somebody about to write.
SubmittedIsRecorded ==
  status = "submitted" => \/ Kept("mock_tests_retry")
                          \/ \E p \in Procs : pc[p] \in Emitting

\* Who is about to write the row writes it or leaves a job.
Emitted == \A p \in Procs : pc[p] \in Emitting =>
                            pc'[p] \in Emitting \/ Kept("mock_tests_retry")'

LEMMA HistoryStep ==
  ASSUME TypeOK, Places, Held, [Next]_vars
  PROVE  /\ Kept("mock_tests_retry") => Kept("mock_tests_retry")'
         /\ history' > 0 \/ Scheduled("mock_tests_retry") => Kept("mock_tests_retry")'
<1>1. "mock_tests_retry" \in Repairs /\ "mock_tests_retry" \in Kinds
  BY KindsAreKinds DEF Repairs
<1>2. Present("mock_tests_retry")' <=> history' > 0
  BY DEF Present
<1>3. QED
  BY <1>1, <1>2, KeptStep, ActiveRows DEF Kept

LEMMA EmittedStep ==
  ASSUME TypeOK, Places, Held, [Next]_vars, ~LosesHistory
  PROVE  Emitted
<1>1. ASSUME NEW q \in Questions, Save(q) PROVE Emitted
  BY <1>1 DEF Emitted, Emitting, table, local, sweep, Save
<1>2. CASE Submit
  BY <1>2 DEF Emitted, Emitting, attempt, table, local, sweep, Goto, Submit
<1>3. CASE Resubmit
  BY <1>3 DEF Emitted, Emitting, attempt, table, local, sweep, Goto, Resubmit
<1>4. CASE RepairHistory
  BY <1>4 DEF Emitted, Emitting, attempt, local, sweep, Goto, RepairHistory, Schedule
<1>5. CASE RepairSummary
  BY <1>5 DEF Emitted, Emitting, attempt, local, sweep, Goto, RepairSummary, Schedule
<1>6. CASE Settle
  BY <1>6 DEF Emitted, Emitting, attempt, local, sweep, Goto, Settle, Complete
<1>7. CASE Requeue
  BY <1>7 DEF Emitted, Emitting, attempt, local, sweep, Goto, Requeue, Schedule
<1>8. CASE Tick
  BY <1>8 DEF Emitted, Emitting, attempt, table, local, sweep, Tick
<1>9. CASE Crash
  BY <1>9 DEF LosesHistory
<1>10. ASSUME NEW p \in Procs, Read(p) PROVE Emitted
  BY <1>10 DEF Emitted, Emitting, attempt, table, sweep, Goto, Read
<1>11. ASSUME NEW p \in Procs, NEW q \in Questions, Score(p, q) PROVE Emitted
  BY <1>11 DEF Emitted, Emitting, table, sweep, Score
<1>12. ASSUME NEW p \in Procs, Flip(p) PROVE Emitted
  BY <1>12 DEF Emitted, Emitting, LosesHistory, TypeOK, Flip, Goto, Fails, Works
<1>13. ASSUME NEW p \in Procs, ScoringFails(p) PROVE Emitted
  BY <1>13 DEF Emitted, Emitting, attempt, table, local, sweep, Goto, ScoringFails, Raised
<1>14. ASSUME NEW p \in Procs, Emit(p) PROVE Emitted
  <2>1. \A o \in Procs \ {p} : pc'[o] = pc[o]
    BY <1>14 DEF Emit, Goto, TypeOK
  <2>2. history' > 0 \/ pc'[p] = "reemit"
    BY <1>14, HistoryGrows DEF Emit, Goto, TypeOK
  <2>3. QED
    BY <2>1, <2>2, HistoryStep DEF Emitted, Emitting
<1>15. ASSUME NEW p \in Procs, Reemit(p) PROVE Emitted
  <2>1. Scheduled("mock_tests_retry")
    BY <1>15 DEF Reemit, Schedule, LosesHistory, Fails, TypeOK
  <2>2. QED
    BY <2>1, HistoryStep DEF Emitted
<1>16. ASSUME NEW p \in Procs, Derive(p) PROVE Emitted
  BY <1>16 DEF Emitted, Emitting, TypeOK, table, local, sweep, Goto, Derive
<1>17. ASSUME NEW p \in Procs, Detail(p) PROVE Emitted
  BY <1>17 DEF Emitted, Emitting, TypeOK, table, local, sweep, Goto, Detail
<1>18. ASSUME NEW s \in Sweepers, Sweep(s) PROVE Emitted
  BY <1>18 DEF Emitted, Emitting, attempt, local, sweep, Goto, Sweep, Schedule
<1>19. ASSUME NEW s \in Sweepers, ReadDue(s) PROVE Emitted
  BY <1>19 DEF Emitted, Emitting, attempt, table, local, Goto, ReadDue
<1>20. ASSUME NEW s \in Sweepers, SweepEnds(s) PROVE Emitted
  BY <1>20 DEF Emitted, Emitting, attempt, table, local, sweep, Goto, SweepEnds
<1>21. ASSUME NEW s \in Sweepers, NEW j \in batch[s], GiveUp(s, j) PROVE Emitted
  BY <1>21 DEF Emitted, Emitting, attempt, local, GiveUp
<1>22. ASSUME NEW s \in Sweepers, NEW j \in batch[s], Claim(s, j) PROVE Emitted
  BY <1>22 DEF Emitted, Emitting, attempt, local, Goto, Claim, Entry
<1>23. ASSUME NEW s \in Sweepers, AutoSubmit(s) PROVE Emitted
  BY <1>23 DEF Emitted, Emitting, TypeOK, attempt, table, local, sweep, Goto, AutoSubmit
<1>24. ASSUME NEW s \in Sweepers, Enqueue(s) PROVE Emitted
  BY <1>24 DEF Emitted, Emitting, attempt, local, sweep, Goto, Enqueue, Schedule
<1>25. ASSUME NEW s \in Sweepers, LookForHistory(s) PROVE Emitted
  BY <1>25 DEF Emitted, Emitting, attempt, table, local, sweep, Goto, LookForHistory
<1>26. ASSUME NEW s \in Sweepers, InsertHistory(s) PROVE Emitted
  BY <1>26 DEF Emitted, Emitting, TypeOK, table, local, sweep, Goto, InsertHistory
<1>27. ASSUME NEW s \in Sweepers, Finish(s) PROVE Emitted
  BY <1>27 DEF Emitted, Emitting, attempt, local, Goto, Finish, Complete
<1>28. ASSUME NEW s \in Sweepers, Retry(s) PROVE Emitted
  BY <1>28 DEF Emitted, Emitting, attempt, local, Goto, Retry
<1>29. ASSUME NEW r \in Rows, FallsDue(r) PROVE Emitted
  BY <1>29 DEF Emitted, Emitting, attempt, local, sweep, FallsDue
<1>30. CASE UNCHANGED vars
  BY <1>30 DEF Emitted, Emitting, attempt, table, local, sweep, vars
<1>31. QED
    BY <1>1, <1>2, <1>3, <1>4, <1>5, <1>6, <1>7, <1>8, <1>9, <1>10, <1>11, <1>12, <1>13,
     <1>14, <1>15, <1>16, <1>17, <1>18, <1>19, <1>20, <1>21, <1>22, <1>23, <1>24, <1>25,
     <1>26, <1>27, <1>28, <1>29, <1>30
  DEF Next, Request, Work, Finalise, Procs

\* The flip leaves the row to the next step.
LEMMA FlipStep ==
  ASSUME TypeOK, [Next]_vars, ~LosesHistory
  PROVE  status' = status \/ \E p \in Procs : pc'[p] \in Emitting
<1>1. ASSUME NEW p \in Procs, Flip(p)
      PROVE  pc'[p] = "emit"
  BY <1>1 DEF Flip, LosesHistory, Fails, Goto, TypeOK
<1>2. QED
  BY <1>1, FlipSubmits DEF Emitting

\* However submissions and sweeps overlap, a submitted attempt has its history
\* row, a job for it or a process that is about to write it, as long as none of
\* these steps is taken; every other call may fail (_emit_mock_tests_row,
\* _retry_emit_mock_tests_row).
THEOREM HistoryAppears ==
  Spec /\ [][~LosesHistory]_vars => []SubmittedIsRecorded
<1>1. Init => SubmittedIsRecorded
  BY DEF Init, SubmittedIsRecorded
<1>2. AInv /\ SubmittedIsRecorded /\ [Next]_vars /\ [~LosesHistory]_vars => SubmittedIsRecorded'
  <2>1. CASE UNCHANGED vars
    BY <2>1 DEF SubmittedIsRecorded, Kept, Present, HasActive, IsActive, vars, attempt, table
  <2>2. ASSUME AInv, SubmittedIsRecorded, [Next]_vars, ~LosesHistory
        PROVE  SubmittedIsRecorded'
    BY <2>2, HistoryStep, EmittedStep, FlipStep DEF AInv, SubmittedIsRecorded, Emitted
  <2>3. QED
    BY <2>1, <2>2
<1>3. QED
  BY <1>1, <1>2, Analyses, PTL DEF Spec
=============================================================================
