---------------------- MODULE WritingEvaluationProofs ----------------------
(***************************************************************************)
(* Proofs about WritingEvaluation for any number of units, workers and     *)
(* requests, any bounds, any damage and any recovery.                      *)
(***************************************************************************)
EXTENDS WritingEvaluation, TLAPS

Settled == {"done", "failed"}

\* Only the newest generation of an answer's jobs can be active.
Generations ==
  \A j, k \in Jobs : Exists(j) /\ k[1] = j[1] /\ k[2] < j[2] =>
    jobs[k].status \in Settled

\* A pending job may be claimed, a running one is settled by its last claim.
Budget ==
  \A j \in Jobs : /\ jobs[j].status = "pending" => jobs[j].attempts < MaxAttempts
                  /\ jobs[j].status = "running" => jobs[j].token = jobs[j].attempts

\* Nothing exists for versions nobody submitted.
Unborn ==
  \A a \in Answers : a[2] > versions[a[1]] =>
    /\ eval[a] = NoEval
    /\ \A j \in Jobs : j[1] = a => jobs[j].status = "none"

\* An applied verdict leaves nothing that could apply another.
Applied ==
  \A a \in Answers :
    /\ eval[a].applied = IF eval[a].overall = "completed" THEN 1 ELSE 0
    /\ eval[a].overall = "completed" =>
         /\ eval[a].language = "completed"
         /\ \A j \in Jobs : j[1] = a => jobs[j].status \notin Active

\* A unit under evaluation has an active job for an undecided answer.
Served ==
  \A u \in Units : unit[u] = "evaluation_pending" =>
    /\ versions[u] > 0 /\ eval[Latest(u)].overall = "partial"
    /\ \E j \in Jobs : j[1] = Latest(u) /\ jobs[j].status \in Active

\* Every answer but one under evaluation is decided.
Verdicts ==
  \A u \in Units, v \in 1..MaxVersions :
    (v < versions[u] \/ (v = versions[u] /\ unit[u] # "evaluation_pending"))
      => eval[<<u, v>>].overall \in Terminal

\* A worker that holds something holds a job.
Claims == \A w \in Workers : claim[w] # NoClaim => claim[w].job \in Jobs

RowInv == Generations /\ Budget /\ Unborn /\ Applied /\ Served /\ Verdicts
IInv == TypeOK /\ Claims /\ RowInv
-----------------------------------------------------------------------------
(* Answers and jobs are tuples of units, versions and generations *)

\* An answer is a unit and a version.
LEMMA AnswerParts ==
  /\ \A a \in Answers : a[1] \in Units /\ a[2] \in 1..MaxVersions /\ a = <<a[1], a[2]>>
  /\ \A u \in Units, v \in 1..MaxVersions : <<u, v>> \in Answers
BY DEF Answers

\* A job is an answer and a generation.
LEMMA JobParts ==
  /\ \A j \in Jobs : j[1] \in Answers /\ j[2] \in 1..MaxGen /\ j = <<j[1], j[2]>>
  /\ \A a \in Answers, g \in 1..MaxGen : <<a, g>> \in Jobs
BY DEF Jobs

\* The parameters of an instance are numbers.
LEMMA Numbers ==
  /\ UnitCount \in Nat /\ MaxAttempts \in Nat /\ MaxVersions \in Nat /\ MaxGen \in Nat
  /\ UnitCount > 0 /\ MaxAttempts > 0 /\ MaxVersions > 0 /\ MaxGen > 0
BY UnitAssumption, BoundAssumption

\* The newest answer of a unit that has one is an answer.
LEMMA LatestAnswer ==
  ASSUME TypeOK, NEW u \in Units, versions[u] > 0
  PROVE  Latest(u) \in Answers /\ Latest(u)[1] = u /\ Latest(u)[2] = versions[u]
<1>1. versions[u] \in 1..MaxVersions
  BY Numbers DEF TypeOK, Vector
<1>2. QED
  BY <1>1, AnswerParts DEF Latest

-----------------------------------------------------------------------------
(* A step that settles, returns or claims one active job *)

\* What such a step may write: the evaluation e, the job b, and a unit that
\* leaves evaluation_pending exactly when the answer is decided.
JobStep(j, e, b) ==
  /\ jobs[j].status \in Active
  /\ UNCHANGED versions
  /\ eval' = [eval EXCEPT ![j[1]] = e]
  /\ jobs' = [jobs EXCEPT ![j] = b]
  /\ b.status \in Active \cup Settled
  /\ b.status = "pending" => b.attempts < MaxAttempts
  /\ b.status = "running" => b.token = b.attempts
  /\ e.applied = IF e.overall = "completed" THEN 1 ELSE 0
  /\ e.overall = "completed" => e.language = "completed" /\ b.status \in Settled
  /\ eval[j[1]].overall \in Terminal => e.overall \in Terminal
  /\ \/ /\ UNCHANGED unit
        /\ e.overall = eval[j[1]].overall
        /\ b.status \in Active \/ e.overall \in Terminal
     \/ /\ e.overall \in Terminal
        /\ \E st \in UnitStatuses \ {"evaluation_pending"} : MoveUnit(j[1], st)

\* An active job has an answer, and no other active job of that answer.
LEMMA ActiveJob ==
  ASSUME TypeOK, RowInv, NEW j \in Jobs, jobs[j].status \in Active
  PROVE  /\ j[1] \in Answers /\ j[1][2] <= versions[j[1][1]]
         /\ \A k \in Jobs : k[1] = j[1] /\ k # j => jobs[k].status \notin Active
<1>1. j[1] \in Answers /\ j[1][2] \in Nat /\ versions[j[1][1]] \in Nat
  BY JobParts, AnswerParts, Numbers DEF TypeOK, Vector
<1>2. ~(j[1][2] > versions[j[1][1]])
  BY <1>1 DEF RowInv, Unborn, Active
<1>3. ASSUME NEW k \in Jobs, k[1] = j[1], k # j, jobs[k].status \in Active
      PROVE  FALSE
  <2>1. k[2] # j[2] /\ k[2] \in Nat /\ j[2] \in Nat
    BY <1>3, JobParts, Numbers
  <2>2. CASE k[2] < j[2]
    BY <1>3, <2>2 DEF RowInv, Generations, Exists, Active, Settled
  <2>3. CASE j[2] < k[2]
    BY <1>3, <2>3 DEF RowInv, Generations, Exists, Active, Settled
  <2>4. QED
    BY <2>1, <2>2, <2>3
<1>4. QED
  BY <1>1, <1>2, <1>3

\* Such a step keeps the invariant of the rows.
LEMMA JobStepRows ==
  ASSUME TypeOK, TypeOK', RowInv, NEW j \in Jobs, NEW e, NEW b, JobStep(j, e, b)
  PROVE  RowInv'
<1> DEFINE a == j[1]
<1> USE DEF RowInv
<1>1. /\ a \in Answers /\ a[1] \in Units /\ a[2] <= versions[a[1]]
      /\ \A k \in Jobs : k[1] = a /\ k # j => jobs[k].status \notin Active
  BY ActiveJob, AnswerParts DEF JobStep
<1>2. /\ eval'[a] = e /\ \A c \in Answers \ {a} : eval'[c] = eval[c]
      /\ jobs'[j] = b /\ \A k \in Jobs \ {j} : jobs'[k] = jobs[k]
      /\ versions' = versions
  BY <1>1 DEF JobStep, TypeOK
<1>3. Generations'
  <2>1. ASSUME NEW i \in Jobs, NEW k \in Jobs, Exists(i)', k[1] = i[1], k[2] < i[2]
        PROVE  jobs'[k].status \in Settled
    <3>1. Exists(i)
      BY <1>2, <2>1 DEF Exists, JobStep, Active
    <3>2. k # j
      BY <2>1, <3>1 DEF Generations, JobStep, Active, Settled
    <3>3. QED
      BY <1>2, <2>1, <3>1, <3>2 DEF Generations
  <2>2. QED
    BY <2>1 DEF Generations
<1>4. Budget'
  BY <1>2 DEF Budget, JobStep
<1>5. Unborn'
  <2>1. ASSUME NEW c \in Answers, c[2] > versions[c[1]]
        PROVE  eval'[c] = NoEval /\ \A k \in Jobs : k[1] = c => jobs'[k].status = "none"
    <3>1. c # a
      BY <1>1, <2>1, AnswerParts, Numbers DEF TypeOK, Vector
    <3>2. QED
      BY <1>2, <2>1, <3>1 DEF Unborn
  <2>2. QED
    BY <1>2, <2>1 DEF Unborn
<1>6. Applied'
  <2>1. ASSUME NEW c \in Answers
        PROVE  /\ eval'[c].applied = IF eval'[c].overall = "completed" THEN 1 ELSE 0
               /\ eval'[c].overall = "completed" =>
                    /\ eval'[c].language = "completed"
                    /\ \A k \in Jobs : k[1] = c => jobs'[k].status \notin Active
    <3>1. CASE c = a
      BY <1>1, <1>2, <3>1 DEF JobStep, Active, Settled
    <3>2. CASE c # a
      BY <1>2, <3>2 DEF Applied
    <3>3. QED
      BY <3>1, <3>2
  <2>2. QED
    BY <2>1 DEF Applied
<1>7. /\ \A u \in Units : unit'[u] = "evaluation_pending" => unit[u] = "evaluation_pending"
      /\ \A u \in Units : unit'[u] # unit[u] => u = a[1] /\ e.overall \in Terminal
      /\ unit'[a[1]] = "evaluation_pending" /\ Current(a) =>
           UNCHANGED unit /\ e.overall = eval[a].overall
             /\ (b.status \in Active \/ e.overall \in Terminal)
  <2>1. CASE /\ UNCHANGED unit
             /\ e.overall = eval[j[1]].overall
             /\ b.status \in Active \/ e.overall \in Terminal
    BY <2>1
  <2>2. CASE /\ e.overall \in Terminal
             /\ \E st \in UnitStatuses \ {"evaluation_pending"} : MoveUnit(j[1], st)
    BY <1>1, <2>2 DEF MoveUnit, TypeOK
  <2>3. QED
    BY <2>1, <2>2 DEF JobStep
<1>8. Served'
  <2>1. ASSUME NEW u \in Units, unit'[u] = "evaluation_pending"
        PROVE  /\ versions'[u] > 0 /\ eval'[Latest(u)].overall = "partial"
               /\ \E k \in Jobs : k[1] = Latest(u) /\ jobs'[k].status \in Active
    <3>1. /\ versions[u] > 0 /\ eval[Latest(u)].overall = "partial"
          /\ \E k \in Jobs : k[1] = Latest(u) /\ jobs[k].status \in Active
      BY <1>7, <2>1 DEF Served
    <3>2. Latest(u) \in Answers /\ Latest(u)[1] = u /\ Latest(u)[2] = versions[u]
      BY <3>1, LatestAnswer
    <3>3. CASE Latest(u) = a
      <4>1. Current(a) /\ a[1] = u
        BY <3>2, <3>3 DEF Current
      <4>2. e.overall = "partial" /\ b.status \in Active
        BY <1>7, <2>1, <3>1, <3>3, <4>1 DEF Terminal
      <4>3. QED
        BY <1>2, <3>1, <3>3, <4>2
    <3>4. CASE Latest(u) # a
      BY <1>2, <3>1, <3>2, <3>4
    <3>5. QED
      BY <3>3, <3>4
  <2>2. QED
    BY <1>2, <2>1 DEF Served, Latest
<1>9. Verdicts'
  <2>1. ASSUME NEW u \in Units, NEW v \in 1..MaxVersions,
               v < versions[u] \/ (v = versions[u] /\ unit'[u] # "evaluation_pending")
        PROVE  eval'[<<u, v>>].overall \in Terminal
    <3>1. <<u, v>> \in Answers
      BY AnswerParts
    <3>2. CASE <<u, v>> = a
      <4>1. CASE unit'[u] = unit[u]
        BY <1>2, <2>1, <3>2, <4>1 DEF Verdicts, JobStep
      <4>2. CASE unit'[u] # unit[u]
        BY <1>2, <1>7, <3>2, <4>2
      <4>3. QED
        BY <4>1, <4>2
    <3>3. CASE <<u, v>> # a
      <4>1. CASE unit'[u] = unit[u]
        BY <1>2, <2>1, <3>1, <3>3, <4>1 DEF Verdicts
      <4>2. CASE unit'[u] # unit[u]
        <5>1. u = a[1] /\ Current(a)
          BY <1>7, <4>2 DEF JobStep, MoveUnit
        <5>2. v # versions[u]
          BY <3>3, <5>1, <1>1, AnswerParts DEF Current
        <5>3. QED
          BY <1>2, <2>1, <3>1, <3>3, <5>2 DEF Verdicts
      <4>3. QED
        BY <4>1, <4>2
    <3>4. QED
      BY <3>2, <3>3
  <2>2. QED
    BY <1>2, <2>1 DEF Verdicts
<1>10. QED
  BY <1>3, <1>4, <1>5, <1>6, <1>8, <1>9
-----------------------------------------------------------------------------
(* Types *)

Session == [status : SessionStatuses, outcome : Outcomes]
ClaimRow == [job : Jobs \cup {NoJob}, token : 0..MaxAttempts, bad : BOOLEAN]
HandlerRow == [pc : {"idle", "reading", "checked"}, next : 1..(UnitCount + 1),
               seen : Vector]

\* The rollup writes a status and an outcome.
LEMMA RollupType ==
  ASSUME TypeOK, Rollup
  PROVE  session' \in Session
<1>1. SessionStatus' \in SessionStatuses
  BY DEF SessionStatus, SessionStatuses
<1>2. Aggregate' \in Outcomes
  BY DEF Aggregate, Outcomes
<1>3. Better(session.outcome, Aggregate') \in Outcomes
  BY <1>2 DEF Better, TypeOK
<1>4. QED
  BY <1>1, <1>3 DEF Rollup, Session

\* Empty and new rows are typed.
LEMMA NullTypes ==
  /\ NoVersion \in Vector /\ NoEval \in EvalRow /\ NewEval \in EvalRow
  /\ Missing \in JobRow /\ NewJob \in JobRow
  /\ NoClaim \in ClaimRow /\ Free \in HandlerRow
  /\ [Free EXCEPT !.pc = "reading"] \in HandlerRow
<1>1. NoVersion \in Vector
  BY Numbers DEF NoVersion, Vector
<1>2. NoEval \in EvalRow /\ NewEval \in EvalRow
  BY DEF NoEval, NewEval, EvalRow
<1>3. Missing \in JobRow /\ NewJob \in JobRow
  BY Numbers DEF Missing, NewJob, JobRow, Active
<1>4. NoClaim \in ClaimRow
  BY Numbers DEF NoClaim, ClaimRow
<1>5. Free \in HandlerRow /\ [Free EXCEPT !.pc = "reading"] \in HandlerRow
  BY <1>1, Numbers DEF Free, HandlerRow
<1>6. QED
  BY <1>1, <1>2, <1>3, <1>4, <1>5

\* Such a step keeps the types.
LEMMA JobStepType ==
  ASSUME TypeOK, NEW j \in Jobs, NEW e \in EvalRow, NEW b \in JobRow, JobStep(j, e, b),
         session' \in Session, UNCHANGED <<coverage, damaged, handler>>,
         claim' \in [Workers -> ClaimRow]
  PROVE  TypeOK'
<1>1. eval' \in [Answers -> EvalRow] /\ jobs' \in [Jobs -> JobRow]
  BY JobParts DEF JobStep, TypeOK
<1>2. unit' \in [Units -> UnitStatuses]
  BY DEF JobStep, MoveUnit, TypeOK
<1>3. QED
  BY <1>1, <1>2 DEF JobStep, TypeOK, Session, ClaimRow

\* Forgetting a claim keeps the type of the claims.
LEMMA ForgetType ==
  ASSUME TypeOK, NEW w \in Workers, Forget(w) \/ UNCHANGED claim
  PROVE  claim' \in [Workers -> ClaimRow]
BY NullTypes DEF Forget, TypeOK, ClaimRow

\* What an active job step of a worker or a sweep adds up to.
LEMMA JobStepInv ==
  ASSUME IInv, NEW j \in Jobs, NEW e \in EvalRow, NEW b \in JobRow, JobStep(j, e, b),
         session' \in Session, UNCHANGED <<coverage, damaged, handler>>,
         claim' \in [Workers -> ClaimRow], Claims'
  PROVE  IInv'
BY JobStepType, JobStepRows DEF IInv

-----------------------------------------------------------------------------
(* The steps of workers and sweeps are such steps *)

\* A claim.
LEMMA ClaimStep ==
  ASSUME IInv, NEW w \in Workers, NEW j \in Jobs, Claim(w, j)
  PROVE  IInv'
<1> DEFINE n == jobs[j].attempts + 1
           a == j[1]
           e == [eval[a] EXCEPT !.language =
                   IF @ \in {"queued", "failed", "running"} THEN "running" ELSE @]
           b == [status |-> "running", attempts |-> n, token |-> n]
<1>1. a \in Answers /\ eval[a] \in EvalRow /\ jobs[j] \in JobRow
  BY JobParts DEF IInv, TypeOK
<1>2. n \in 0..MaxAttempts
  BY <1>1, Numbers DEF Claim, JobRow
<1>3. b \in JobRow
  BY <1>2 DEF JobRow, Active
<1>4. /\ e \in EvalRow /\ e.overall = eval[a].overall /\ e.applied = eval[a].applied
      /\ eval[a].language = "completed" => e.language = "completed"
  <2>1. CASE eval[a].language \in {"queued", "failed", "running"}
    BY <1>1, <2>1 DEF EvalRow
  <2>2. CASE eval[a].language \notin {"queued", "failed", "running"}
    BY <1>1, <2>2 DEF EvalRow
  <2>3. QED
    BY <2>1, <2>2
<1>5. eval' = [eval EXCEPT ![a] = e] /\ jobs' = [jobs EXCEPT ![j] = b]
  BY <1>1 DEF Claim, StartLanguage, IInv, TypeOK
<1>6. JobStep(j, e, b)
  BY <1>1, <1>4, <1>5
  DEF JobStep, Claim, Active, Settled, IInv, RowInv, Applied
<1>7. claim' \in [Workers -> ClaimRow] /\ Claims'
  <2>1. [job |-> j, token |-> n, bad |-> a \in damaged] \in ClaimRow
    BY <1>2 DEF ClaimRow
  <2>2. QED
    BY <2>1 DEF Claim, IInv, TypeOK, Claims, ClaimRow
<1>8. session' \in Session
  BY DEF Claim, IInv, TypeOK, Session
<1>9. QED
  BY <1>3, <1>4, <1>6, <1>7, <1>8, JobStepInv DEF Claim

\* Forgetting a claim keeps what is known of the others.
LEMMA HoldersForget ==
  ASSUME IInv, NEW w \in Workers, Forget(w) \/ UNCHANGED claim
  PROVE  claim' \in [Workers -> ClaimRow] /\ Claims'
<1>1. claim' \in [Workers -> ClaimRow]
  BY ForgetType DEF IInv
<1>2. Claims'
  BY DEF Forget, IInv, TypeOK, Claims
<1>3. QED
  BY <1>1, <1>2

\* The job an owner settles is running.
LEMMA OwnedJob ==
  ASSUME IInv, NEW w \in Workers, Owns(w)
  PROVE  /\ claim[w].job \in Jobs /\ jobs[claim[w].job].status = "running"
         /\ claim[w].job[1] \in Answers
BY JobParts DEF IInv, Claims, Owns, Holds, Fenced

\* Closing a job replaces it by a settled or returned one.
LEMMA CloseJobEffect ==
  ASSUME IInv, NEW j \in Jobs, NEW st \in {"pending", "done", "failed"}, CloseJob(j, st)
  PROVE  \E b \in JobRow : /\ jobs' = [jobs EXCEPT ![j] = b]
                           /\ b.status = st /\ b.attempts = jobs[j].attempts
<1> DEFINE b == [jobs[j] EXCEPT !.status = st, !.token = 0]
<1>1. jobs[j] \in JobRow
  BY DEF IInv, TypeOK
<1>2. b \in JobRow /\ b.status = st /\ b.attempts = jobs[j].attempts
  <2>1. st \in {"none", "done", "failed"} \cup Active /\ 0 \in 0..MaxAttempts
    BY Numbers DEF Active
  <2>2. QED
    BY <1>1, <2>1 DEF JobRow
<1>3. jobs' = [jobs EXCEPT ![j] = b]
  BY DEF CloseJob, IInv, TypeOK
<1>4. QED
  BY <1>2, <1>3

\* A verdict is applied.
LEMMA ApplyStep ==
  ASSUME IInv, NEW j \in Jobs, jobs[j].status = "running", NEW must \in BOOLEAN,
         Apply(j, must), UNCHANGED <<coverage, damaged, handler>>,
         claim' \in [Workers -> ClaimRow], Claims'
  PROVE  IInv'
<1> DEFINE a == j[1]
           e == [language |-> "completed", overall |-> "completed",
                 must |-> must /\ Current(a), applied |-> eval[a].applied + 1]
<1>1. a \in Answers /\ eval[a] \in EvalRow
  BY JobParts DEF IInv, TypeOK
<1>2. e \in EvalRow
  BY <1>1 DEF EvalRow, Terminal
<1>3. PICK b \in JobRow : jobs' = [jobs EXCEPT ![j] = b] /\ b.status = "done"
  BY CloseJobEffect DEF Apply
<1>4. eval' = [eval EXCEPT ![a] = e]
  BY <1>1 DEF Apply, IInv, TypeOK
<1>5. e.applied = 1
  BY <1>1 DEF Apply, Decided, Terminal, IInv, RowInv, Applied
<1>6. \E st \in UnitStatuses \ {"evaluation_pending"} : MoveUnit(a, st)
  BY DEF Apply, UnitStatuses
<1>7. JobStep(j, e, b)
  BY <1>3, <1>4, <1>5, <1>6 DEF JobStep, Apply, Active, Settled, Terminal
<1>8. session' \in Session
  BY RollupType DEF Apply, IInv, TypeOK, Session
<1>9. QED
  BY <1>2, <1>7, <1>8, JobStepInv

\* A verdict arrives at a decided answer.
LEMMA ReplayStep ==
  ASSUME IInv, NEW j \in Jobs, jobs[j].status = "running",
         Replay(j), UNCHANGED <<coverage, damaged, handler>>,
         claim' \in [Workers -> ClaimRow], Claims'
  PROVE  IInv'
<1> DEFINE a == j[1]
           b == [jobs[j] EXCEPT !.status = "done"]
<1>1. a \in Answers /\ eval[a] \in EvalRow /\ jobs[j] \in JobRow
  BY JobParts DEF IInv, TypeOK
<1>2. b \in JobRow /\ b.status = "done"
  BY <1>1 DEF JobRow
<1>3. eval' = [eval EXCEPT ![a] = eval[a]] /\ jobs' = [jobs EXCEPT ![j] = b]
  BY <1>1 DEF Replay, IInv, TypeOK
<1>4. /\ eval[a].applied = IF eval[a].overall = "completed" THEN 1 ELSE 0
      /\ eval[a].overall = "completed" => eval[a].language = "completed"
  BY <1>1 DEF IInv, RowInv, Applied
<1>5. JobStep(j, eval[a], b)
  BY <1>2, <1>3, <1>4 DEF JobStep, Replay, Decided, Active, Settled
<1>6. session' \in Session
  BY DEF Replay, IInv, TypeOK, Session
<1>7. QED
  BY <1>1, <1>2, <1>5, <1>6, JobStepInv

\* A damaged version is rejected.
LEMMA RejectStep ==
  ASSUME IInv, NEW w \in Workers, Reject(w)
  PROVE  IInv'
<1> DEFINE j == claim[w].job
           a == j[1]
           e == [eval[a] EXCEPT !.language = "failed", !.overall = "failed"]
<1>1. j \in Jobs /\ jobs[j].status = "running" /\ a \in Answers
  BY OwnedJob DEF Reject
<1>2. eval[a] \in EvalRow /\ eval[a].applied = 0
  BY <1>1 DEF IInv, TypeOK, RowInv, Applied, Active
<1>3. e \in EvalRow /\ e.applied = 0 /\ e.overall = "failed"
  BY <1>2 DEF EvalRow, Terminal
<1>4. eval' = [eval EXCEPT ![a] = e]
  BY <1>1 DEF Reject, IInv, TypeOK
<1>5. PICK b \in JobRow : jobs' = [jobs EXCEPT ![j] = b] /\ b.status = "failed"
  BY <1>1, CloseJobEffect DEF Reject
<1>6. JobStep(j, e, b)
  <2>1. \E st \in UnitStatuses \ {"evaluation_pending"} : MoveUnit(a, st)
    BY DEF Reject, UnitStatuses
  <2>2. QED
    BY <1>1, <1>3, <1>4, <1>5, <2>1 DEF JobStep, Reject, Active, Settled, Terminal
<1>7. session' \in Session /\ claim' \in [Workers -> ClaimRow] /\ Claims'
  BY RollupType, HoldersForget DEF Reject, IInv
<1>8. QED
  BY <1>1, <1>3, <1>6, <1>7, JobStepInv DEF Reject

\* A failure and an expired lease end alike.
LEMMA GiveUpStep ==
  ASSUME IInv, NEW j \in Jobs, jobs[j].status = "running", GiveUp(j),
         UNCHANGED <<coverage, damaged, handler>>,
         claim' \in [Workers -> ClaimRow], Claims'
  PROVE  IInv'
<1> DEFINE a == j[1]
<1>1. /\ a \in Answers /\ eval[a] \in EvalRow /\ eval[a].applied = 0
      /\ eval[a].overall # "completed" /\ jobs[j] \in JobRow
  BY JobParts DEF IInv, TypeOK, RowInv, Applied, Active
<1>2. CASE Terminalize(j)
  <2> DEFINE e == [eval[a] EXCEPT !.language = "failed", !.overall = "terminal_partial"]
  <2>1. e \in EvalRow /\ e.applied = 0 /\ e.overall = "terminal_partial"
    BY <1>1 DEF EvalRow, Terminal
  <2>2. eval' = [eval EXCEPT ![a] = e]
    BY <1>1, <1>2 DEF Terminalize, IInv, TypeOK
  <2>3. PICK b \in JobRow : jobs' = [jobs EXCEPT ![j] = b] /\ b.status = "failed"
    BY <1>2, CloseJobEffect DEF Terminalize
  <2>4. \E st \in UnitStatuses \ {"evaluation_pending"} : MoveUnit(a, st)
    BY <1>2 DEF Terminalize, UnitStatuses
  <2>5. JobStep(j, e, b)
    BY <1>2, <2>1, <2>2, <2>3, <2>4 DEF JobStep, Terminalize, Active, Settled, Terminal
  <2>6. session' \in Session
    BY <1>2, RollupType DEF Terminalize, IInv
  <2>7. QED
    BY <2>1, <2>5, <2>6, JobStepInv
<1>3. CASE Requeue(j) /\ ~(jobs[j].attempts >= MaxAttempts)
  <2> DEFINE e == [eval[a] EXCEPT !.language = IF @ = "running" THEN "queued" ELSE @]
  <2>1. e \in EvalRow /\ e.applied = 0 /\ e.overall = eval[a].overall
    <3>1. CASE eval[a].language = "running"
      BY <1>1, <3>1 DEF EvalRow
    <3>2. CASE eval[a].language # "running"
      BY <1>1, <3>2 DEF EvalRow
    <3>3. QED
      BY <3>1, <3>2
  <2>2. eval' = [eval EXCEPT ![a] = e]
    BY <1>1, <1>3 DEF Requeue, IInv, TypeOK
  <2>3. PICK b \in JobRow : /\ jobs' = [jobs EXCEPT ![j] = b]
                            /\ b.status = "pending" /\ b.attempts = jobs[j].attempts
    BY <1>3, CloseJobEffect DEF Requeue
  <2>4. b.attempts < MaxAttempts
    BY <1>1, <1>3, <2>3, Numbers DEF JobRow
  <2>5. JobStep(j, e, b)
    BY <1>1, <1>3, <2>1, <2>2, <2>3, <2>4 DEF JobStep, Requeue, Active, Settled
  <2>6. session' \in Session
    BY <1>3 DEF Requeue, IInv, TypeOK, Session
  <2>7. QED
    BY <2>1, <2>5, <2>6, JobStepInv
<1>4. QED
  BY <1>2, <1>3 DEF GiveUp
-----------------------------------------------------------------------------
(* The other steps *)

\* A recovery follows the last failed generation, so none is active.
LEMMA RecoverStep ==
  ASSUME IInv, NEW j \in Jobs, Recover(j)
  PROVE  IInv'
<1> DEFINE a == j[1]
           next == <<a, j[2] + 1>>
           e == [eval[a] EXCEPT !.language = IF @ = "failed" THEN "queued" ELSE @]
<1> USE DEF IInv, RowInv
<1>1. /\ next \in Jobs /\ next[1] = a /\ next[2] = j[2] + 1 /\ a \in Answers
      /\ eval[a] \in EvalRow /\ j[2] \in Nat
      /\ jobs[j].status = "failed" /\ jobs[next].status = "none"
      /\ eval[a].language # "completed"
  BY JobParts, Numbers DEF Recover, Recoverable, Exists, TypeOK
<1>2. /\ e \in EvalRow /\ e.overall = eval[a].overall /\ e.applied = eval[a].applied
      /\ e.language # "completed" /\ eval[a].overall # "completed"
  <2>1. CASE eval[a].language = "failed"
    BY <1>1, <2>1 DEF EvalRow, Applied
  <2>2. CASE eval[a].language # "failed"
    BY <1>1, <2>2 DEF EvalRow, Applied
  <2>3. QED
    BY <2>1, <2>2
<1>3. /\ eval' = [eval EXCEPT ![a] = e] /\ jobs' = [jobs EXCEPT ![next] = NewJob]
      /\ UNCHANGED <<versions, unit, session, coverage, damaged, claim, handler>>
  BY <1>1 DEF Recover, TypeOK
<1>4. /\ eval'[a] = e /\ \A c \in Answers \ {a} : eval'[c] = eval[c]
      /\ jobs'[next] = NewJob /\ \A k \in Jobs \ {next} : jobs'[k] = jobs[k]
  BY <1>1, <1>3 DEF TypeOK
<1>5. NewJob.status = "pending" /\ NewJob.attempts = 0 /\ NewJob \in JobRow
  BY NullTypes DEF NewJob, Missing
<1>6. TypeOK'
  BY <1>1, <1>2, <1>3, <1>5 DEF TypeOK
<1>7. \A k \in Jobs : k[1] = a /\ k[2] < next[2] => jobs[k].status \in Settled
  <2>1. ASSUME NEW k \in Jobs, k[1] = a, k[2] < next[2], k # j
        PROVE  k[2] < j[2]
    <3>1. k[2] # j[2] /\ k[2] \in Nat
      BY <2>1, JobParts, Numbers
    <3>2. QED
      BY <1>1, <2>1, <3>1
  <2>2. QED
    BY <1>1, <2>1 DEF Generations, Exists, Settled
<1>8. \A k \in Jobs : k[1] = a /\ k[2] > next[2] => ~Exists(k)
  BY <1>1 DEF Generations, Exists, Settled
<1>9. Generations'
  <2>1. ASSUME NEW i \in Jobs, NEW k \in Jobs, Exists(i)', k[1] = i[1], k[2] < i[2]
        PROVE  jobs'[k].status \in Settled
    <3>1. CASE i = next
      <4>1. k # next
        BY <1>1, <2>1, <3>1
      <4>2. QED
        BY <1>1, <1>4, <1>7, <2>1, <3>1, <4>1
    <3>2. CASE i # next
      <4>1. Exists(i)
        BY <1>4, <2>1, <3>2 DEF Exists
      <4>2. k # next
        BY <1>1, <1>8, <2>1, <4>1
      <4>3. QED
        BY <1>4, <2>1, <4>1, <4>2 DEF Generations
    <3>3. QED
      BY <3>1, <3>2
  <2>2. QED
    BY <2>1 DEF Generations
<1>10. Budget'
  BY <1>4, <1>5, Numbers DEF Budget
<1>11. Unborn'
  <2>1. ~(a[2] > versions[a[1]])
    BY <1>1 DEF Unborn
  <2>2. ASSUME NEW c \in Answers, c[2] > versions[c[1]]
        PROVE  eval'[c] = NoEval /\ \A k \in Jobs : k[1] = c => jobs'[k].status = "none"
    BY <1>1, <1>4, <2>1, <2>2 DEF Unborn
  <2>3. QED
    BY <1>3, <2>2 DEF Unborn
<1>12. Applied'
  <2>1. ASSUME NEW c \in Answers
        PROVE  /\ eval'[c].applied = IF eval'[c].overall = "completed" THEN 1 ELSE 0
               /\ eval'[c].overall = "completed" =>
                    /\ eval'[c].language = "completed"
                    /\ \A k \in Jobs : k[1] = c => jobs'[k].status \notin Active
    <3>1. CASE c = a
      BY <1>1, <1>2, <1>4, <3>1 DEF Applied
    <3>2. CASE c # a
      BY <1>1, <1>4, <3>2 DEF Applied
    <3>3. QED
      BY <3>1, <3>2
  <2>2. QED
    BY <2>1 DEF Applied
<1>13. Served'
  <2>1. ASSUME NEW u \in Units, unit[u] = "evaluation_pending"
        PROVE  /\ versions[u] > 0 /\ eval'[Latest(u)].overall = "partial"
               /\ \E k \in Jobs : k[1] = Latest(u) /\ jobs'[k].status \in Active
    <3>1. /\ versions[u] > 0 /\ eval[Latest(u)].overall = "partial"
      BY <2>1 DEF Served
    <3>2. PICK k \in Jobs : k[1] = Latest(u) /\ jobs[k].status \in Active
      BY <2>1 DEF Served
    <3>3. k # next
      BY <1>1, <3>2 DEF Active
    <3>4. Latest(u) \in Answers
      BY <3>1, LatestAnswer
    <3>5. eval'[Latest(u)].overall = "partial"
      BY <1>2, <1>4, <3>1, <3>4
    <3>6. QED
      BY <1>4, <3>1, <3>2, <3>3, <3>5
  <2>2. QED
    BY <1>3, <2>1 DEF Served, Latest
<1>14. Verdicts'
  BY <1>2, <1>3, <1>4, AnswerParts DEF Verdicts
<1>15. QED
  BY <1>3, <1>6, <1>9, <1>10, <1>11, <1>12, <1>13, <1>14 DEF Claims

\* A submission starts from a unit whose answers are all decided and adds an
\* answer nobody has seen.
LEMMA SubmitStep ==
  ASSUME IInv, NEW h \in Handlers, NEW u \in Units, Submit(h, u)
  PROVE  IInv'
<1> DEFINE a == <<u, versions[u] + 1>>
           first == <<a, 1>>
<1> USE DEF IInv, RowInv
<1>1. versions[u] \in Nat /\ versions[u] + 1 \in 1..MaxVersions
  BY Numbers DEF Submit, TypeOK, Vector
<1>2. /\ a \in Answers /\ a[1] = u /\ a[2] = versions[u] + 1
      /\ first \in Jobs /\ first[1] = a /\ first[2] = 1
  BY <1>1, AnswerParts, JobParts, Numbers
<1>3. /\ eval[a] = NoEval /\ \A k \in Jobs : k[1] = a => jobs[k].status = "none"
  BY <1>1, <1>2 DEF Unborn
<1>4. /\ versions' = [versions EXCEPT ![u] = versions[u] + 1]
      /\ unit' = [unit EXCEPT ![u] = "evaluation_pending"]
      /\ eval' = [eval EXCEPT ![a] = NewEval]
      /\ jobs' = [jobs EXCEPT ![first] = NewJob]
      /\ handler' = [handler EXCEPT ![h] = [Free EXCEPT !.pc = "reading"]]
      /\ UNCHANGED <<coverage, damaged, claim>>
      /\ Rollup
  BY DEF Submit, TypeOK, Vector
<1>5. /\ versions'[u] = versions[u] + 1
      /\ \A v \in Units \ {u} : versions'[v] = versions[v] /\ unit'[v] = unit[v]
      /\ unit'[u] = "evaluation_pending"
      /\ eval'[a] = NewEval /\ \A c \in Answers \ {a} : eval'[c] = eval[c]
      /\ jobs'[first] = NewJob /\ \A k \in Jobs \ {first} : jobs'[k] = jobs[k]
  BY <1>2, <1>4 DEF TypeOK, Vector
<1>6. /\ NewJob.status = "pending" /\ NewJob.attempts = 0 /\ NewJob \in JobRow
      /\ NewEval.overall = "partial" /\ NewEval.applied = 0
  BY NullTypes DEF NewJob, Missing, NewEval, NoEval
<1>7. TypeOK'
  <2>1. versions' \in Vector
    BY <1>1, <1>4, Numbers DEF TypeOK, Vector
  <2>2. unit' \in [Units -> UnitStatuses]
    BY <1>4 DEF TypeOK, UnitStatuses
  <2>3. eval' \in [Answers -> EvalRow] /\ jobs' \in [Jobs -> JobRow]
    BY <1>4, NullTypes DEF TypeOK
  <2>4. handler' \in [Handlers -> HandlerRow]
    BY <1>4, NullTypes DEF TypeOK, HandlerRow
  <2>5. session' \in Session
    BY <1>4, RollupType
  <2>6. QED
    BY <1>4, <2>1, <2>2, <2>3, <2>4, <2>5 DEF TypeOK, Session, HandlerRow
<1>8. Generations'
  <2>1. ASSUME NEW i \in Jobs, NEW k \in Jobs, Exists(i)', k[1] = i[1], k[2] < i[2]
        PROVE  jobs'[k].status \in Settled
    <3>1. i[2] > 1 /\ i # first
      BY <1>2, <2>1, JobParts, Numbers
    <3>2. Exists(i)
      BY <1>5, <2>1, <3>1 DEF Exists
    <3>3. k # first
      BY <1>2, <1>3, <2>1, <3>2 DEF Exists
    <3>4. QED
      BY <1>5, <2>1, <3>2, <3>3 DEF Generations
  <2>2. QED
    BY <2>1 DEF Generations
<1>9. Budget'
  BY <1>5, <1>6, Numbers DEF Budget
<1>10. Unborn'
  <2>1. ASSUME NEW c \in Answers, c[2] > versions'[c[1]]
        PROVE  eval'[c] = NoEval /\ \A k \in Jobs : k[1] = c => jobs'[k].status = "none"
    <3>1. c # a /\ c[2] > versions[c[1]]
      <4>1. c[1] \in Units /\ c[2] \in Nat
        BY AnswerParts, Numbers
      <4>2. QED
        BY <1>1, <1>2, <1>5, <2>1, <4>1
    <3>2. QED
      BY <1>2, <1>5, <3>1 DEF Unborn
  <2>2. QED
    BY <2>1 DEF Unborn
<1>11. Applied'
  <2>1. ASSUME NEW c \in Answers
        PROVE  /\ eval'[c].applied = IF eval'[c].overall = "completed" THEN 1 ELSE 0
               /\ eval'[c].overall = "completed" =>
                    /\ eval'[c].language = "completed"
                    /\ \A k \in Jobs : k[1] = c => jobs'[k].status \notin Active
    <3>1. CASE c = a
      BY <1>5, <1>6, <3>1
    <3>2. CASE c # a
      BY <1>2, <1>5, <3>2 DEF Applied
    <3>3. QED
      BY <3>1, <3>2
  <2>2. QED
    BY <2>1 DEF Applied
<1>12. Served'
  <2>1. ASSUME NEW v \in Units, unit'[v] = "evaluation_pending"
        PROVE  /\ versions'[v] > 0 /\ eval'[Latest(v)'].overall = "partial"
               /\ \E k \in Jobs : k[1] = Latest(v)' /\ jobs'[k].status \in Active
    <3>1. CASE v = u
      <4>1. Latest(v)' = a
        BY <1>5, <3>1 DEF Latest
      <4>2. QED
        BY <1>1, <1>2, <1>5, <1>6, <3>1, <4>1 DEF Active
    <3>2. CASE v # u
      <4>1. /\ versions[v] > 0 /\ eval[Latest(v)].overall = "partial"
            /\ Latest(v)' = Latest(v) /\ versions'[v] = versions[v]
        BY <1>5, <2>1, <3>2 DEF Served, Latest
      <4>2. PICK k \in Jobs : k[1] = Latest(v) /\ jobs[k].status \in Active
        BY <1>5, <2>1, <3>2 DEF Served
      <4>3. Latest(v) \in Answers /\ Latest(v) # a
        BY <1>2, <3>2, <4>1, LatestAnswer
      <4>4. QED
        BY <1>2, <1>5, <4>1, <4>2, <4>3
    <3>3. QED
      BY <3>1, <3>2
  <2>2. QED
    BY <2>1 DEF Served
<1>13. Verdicts'
  <2>1. ASSUME NEW v \in Units, NEW n \in 1..MaxVersions,
               n < versions'[v] \/ (n = versions'[v] /\ unit'[v] # "evaluation_pending")
        PROVE  eval'[<<v, n>>].overall \in Terminal
    <3>1. <<v, n>> \in Answers /\ n \in Nat
      BY AnswerParts, Numbers
    <3>2. CASE v = u
      <4>1. n <= versions[u] /\ <<v, n>> # a
        BY <1>1, <1>5, <2>1, <3>1, <3>2
      <4>2. unit[u] # "evaluation_pending"
        BY DEF Submit, Submittable
      <4>3. QED
        BY <1>1, <1>5, <3>1, <3>2, <4>1, <4>2 DEF Verdicts
    <3>3. CASE v # u
      BY <1>5, <2>1, <3>1, <3>3 DEF Verdicts
    <3>4. QED
      BY <3>2, <3>3
  <2>2. QED
    BY <2>1 DEF Verdicts
<1>14. QED
  BY <1>4, <1>7, <1>8, <1>9, <1>10, <1>11, <1>12, <1>13 DEF Claims

\* A step that leaves versions, units, evaluations and jobs alone.
LEMMA UntouchedStep ==
  ASSUME IInv, UNCHANGED <<versions, unit, eval, jobs>>, TypeOK', Claims'
  PROVE  IInv'
BY DEF IInv, RowInv, Generations, Budget, Unborn, Applied, Served, Verdicts,
       Latest, Exists

\* The refresh of a submission, and its end.
LEMMA RefreshStep ==
  ASSUME IInv, NEW h \in Handlers,
         ReadVersion(h) \/ InsertCheck(h) \/ Finalize(h) \/ RefreshFails(h)
  PROVE  IInv'
<1>1. TypeOK /\ Claims /\ Free \in HandlerRow /\ handler[h] \in HandlerRow
  BY NullTypes DEF IInv, TypeOK, HandlerRow
<1>2. CASE ReadVersion(h)
  <2> DEFINE u == handler[h].next
             r == [handler[h] EXCEPT !.seen = [@ EXCEPT ![u] = versions[u]], !.next = u + 1]
  <2>1. u \in Units /\ u + 1 \in 1..(UnitCount + 1) /\ versions[u] \in 0..MaxVersions
    BY <1>1, <1>2, Numbers DEF ReadVersion, Units, TypeOK, Vector
  <2>2. [handler[h].seen EXCEPT ![u] = versions[u]] \in Vector
    BY <1>1, <2>1 DEF HandlerRow, Vector
  <2>3. r \in HandlerRow
    BY <1>1, <2>1, <2>2 DEF HandlerRow
  <2>4. handler' = [handler EXCEPT ![h] = r]
    BY <1>1, <1>2 DEF ReadVersion, TypeOK
  <2>5. TypeOK'
    BY <1>1, <1>2, <2>3, <2>4 DEF ReadVersion, rows, TypeOK, HandlerRow
  <2>6. QED
    BY <1>1, <1>2, <2>5, UntouchedStep DEF ReadVersion, rows, Claims
<1>3. CASE InsertCheck(h)
  <2>1. [handler[h] EXCEPT !.pc = "checked"] \in HandlerRow
    BY <1>1 DEF HandlerRow
  <2>2. [seen |-> handler[h].seen, passed |-> Passes(handler[h].seen)]
          \in [seen : Vector, passed : BOOLEAN]
    BY <1>1 DEF HandlerRow, Passes
  <2>3. handler' = [handler EXCEPT ![h] = [handler[h] EXCEPT !.pc = "checked"]]
    BY <1>1, <1>3 DEF InsertCheck, TypeOK
  <2>4. TypeOK'
    BY <1>1, <1>3, <2>1, <2>2, <2>3 DEF InsertCheck, rows, TypeOK, HandlerRow
  <2>5. QED
    BY <1>1, <1>3, <2>4, UntouchedStep DEF InsertCheck, rows, Claims
<1>4. CASE Finalize(h)
  <2>1. session' \in Session
    BY <1>1, <1>4, RollupType DEF Finalize
  <2>2. TypeOK'
    BY <1>1, <1>4, <2>1 DEF Finalize, TypeOK, HandlerRow, Session
  <2>3. QED
    BY <1>1, <1>4, <2>2, UntouchedStep DEF Finalize, Claims
<1>5. CASE RefreshFails(h)
  <2>1. TypeOK'
    BY <1>1, <1>5 DEF RefreshFails, rows, TypeOK, HandlerRow
  <2>2. QED
    BY <1>1, <1>5, <2>1, UntouchedStep DEF RefreshFails, rows, Claims
<1>6. QED
  BY <1>2, <1>3, <1>4, <1>5

\* A reopened unit was ready: its answers are decided and stay so.
LEMMA ReopenStep ==
  ASSUME IInv, NEW u \in Units, Reopen(u)
  PROVE  IInv'
<1> USE DEF IInv, RowInv
<1>1. /\ unit[u] = "ready" /\ unit' = [unit EXCEPT ![u] = "draft"]
      /\ UNCHANGED <<versions, eval, jobs, coverage, damaged, claim, handler>> /\ Rollup
  BY DEF Reopen
<1>2. unit'[u] = "draft" /\ \A v \in Units \ {u} : unit'[v] = unit[v]
  BY <1>1 DEF TypeOK
<1>3. TypeOK'
  <2>1. session' \in Session /\ unit' \in [Units -> UnitStatuses]
    BY <1>1, RollupType DEF TypeOK, UnitStatuses
  <2>2. QED
    BY <1>1, <2>1 DEF TypeOK, Session
<1>4. Generations' /\ Budget' /\ Unborn' /\ Applied' /\ Claims'
  BY <1>1 DEF Generations, Budget, Unborn, Applied, Claims, Exists
<1>5. Served'
  BY <1>1, <1>2 DEF Served, Latest
<1>6. Verdicts'
  BY <1>1, <1>2 DEF Verdicts
<1>7. QED
  BY <1>3, <1>4, <1>5, <1>6

\* The steps of a worker.
LEMMA WorkStep ==
  ASSUME IInv, NEW w \in Workers, Work(w)
  PROVE  IInv'
<1>1. CASE \E j \in Jobs : Claim(w, j)
  BY <1>1, ClaimStep
<1>2. CASE Complete(w)
  <2> DEFINE j == claim[w].job
  <2>1. j \in Jobs /\ jobs[j].status = "running"
    BY <1>2, OwnedJob DEF Complete
  <2>2. claim' \in [Workers -> ClaimRow] /\ Claims'
    BY <1>2, HoldersForget DEF Complete
  <2>3. CASE Replay(j)
    BY <1>2, <2>1, <2>2, <2>3, ReplayStep DEF Complete
  <2>4. CASE \E must \in BOOLEAN : Apply(j, must)
    BY <1>2, <2>1, <2>2, <2>4, ApplyStep DEF Complete
  <2>5. QED
    BY <1>2, <2>3, <2>4 DEF Complete
<1>3. CASE Fail(w)
  <2>1. claim[w].job \in Jobs /\ jobs[claim[w].job].status = "running"
    BY <1>3, OwnedJob DEF Fail
  <2>2. claim' \in [Workers -> ClaimRow] /\ Claims'
    BY <1>3, HoldersForget DEF Fail
  <2>3. QED
    BY <1>3, <2>1, <2>2, GiveUpStep DEF Fail
<1>4. CASE Reject(w)
  BY <1>4, RejectStep
<1>5. CASE Abandon(w)
  <2>1. claim' \in [Workers -> ClaimRow] /\ Claims'
    BY <1>5, HoldersForget DEF Abandon
  <2>2. TypeOK'
    BY <1>5, <2>1 DEF Abandon, rows, IInv, TypeOK, ClaimRow
  <2>3. QED
    BY <1>5, <2>1, <2>2, UntouchedStep DEF Abandon, rows
<1>6. QED
  BY <1>1, <1>2, <1>3, <1>4, <1>5 DEF Work

\* The lease of a running job expires.
LEMMA SweepStep ==
  ASSUME IInv, NEW j \in Jobs, Sweep(j)
  PROVE  IInv'
<1>1. claim' \in [Workers -> ClaimRow] /\ Claims'
  BY DEF Sweep, IInv, TypeOK, ClaimRow, Claims
<1>2. QED
  BY <1>1, GiveUpStep DEF Sweep

\* Damage touches no row the invariant speaks of.
LEMMA DamageStep ==
  ASSUME IInv, NEW a \in Corruptible, Damage(a)
  PROVE  IInv'
<1>1. TypeOK'
  BY AnswerAssumption DEF Damage, rows, IInv, TypeOK
<1>2. QED
  BY <1>1, UntouchedStep DEF Damage, rows, IInv, Claims

-----------------------------------------------------------------------------
(* The invariant *)

\* A new session satisfies the invariant.
LEMMA IInvInit == Init => IInv
<1> SUFFICES ASSUME Init PROVE IInv
  OBVIOUS
<1>1. /\ \A u \in Units : versions[u] = 0 /\ unit[u] = "not_started"
      /\ \A a \in Answers : eval[a] = NoEval
      /\ \A j \in Jobs : jobs[j] = Missing
      /\ \A w \in Workers : claim[w] = NoClaim
      /\ NoEval.overall = "none" /\ NoEval.applied = 0 /\ Missing.status = "none"
  BY DEF Init, NoVersion, NoEval, Missing
<1>2. TypeOK
  <2>1. [status |-> "active", outcome |-> "null"] \in [status : SessionStatuses, outcome : Outcomes]
    BY DEF SessionStatuses, Outcomes
  <2>2. unit \in [Units -> UnitStatuses]
    BY DEF Init, UnitStatuses
  <2>3. QED
    BY <2>1, <2>2, NullTypes DEF Init, TypeOK, ClaimRow, HandlerRow
<1>3. Claims
  BY <1>1 DEF Claims
<1>4. Generations /\ Budget /\ Unborn /\ Applied
  BY <1>1, JobParts DEF Generations, Budget, Unborn, Applied, Exists, Active
<1>5. Served
  BY <1>1 DEF Served
<1>6. Verdicts
  BY <1>1, Numbers DEF Verdicts
<1>7. QED
  BY <1>2, <1>3, <1>4, <1>5, <1>6 DEF IInv, RowInv

\* Every step keeps the invariant.
LEMMA IInvNext == IInv /\ [Next]_vars => IInv'
<1> SUFFICES ASSUME IInv, [Next]_vars PROVE IInv'
  OBVIOUS
<1>1. CASE Learner
  BY <1>1, SubmitStep, RefreshStep, ReopenStep DEF Learner
<1>2. CASE \E w \in Workers : Work(w)
  BY <1>2, WorkStep
<1>3. CASE \E j \in Jobs : Sweep(j) \/ Recover(j)
  BY <1>3, SweepStep, RecoverStep
<1>4. CASE \E a \in Corruptible : Damage(a)
  BY <1>4, DamageStep
<1>5. CASE UNCHANGED vars
  <2>1. TypeOK' /\ Claims'
    BY <1>5 DEF vars, rows, IInv, TypeOK, Claims
  <2>2. QED
    BY <1>5, <2>1, UntouchedStep DEF vars, rows
<1>6. QED
  BY <1>1, <1>2, <1>3, <1>4, <1>5 DEF Next

\* The inductive invariant holds in every reachable state.
LEMMA Inductive == Spec => []IInv
<1>1. QED
  BY IInvInit, IInvNext, PTL DEF Spec

\* Every reachable state is typed (the columns' CHECK constraints, among them
\* attempts <= max_attempts on writing_evaluation_jobs).
THEOREM TypeCorrect == Spec => []TypeOK
<1>1. IInv => TypeOK
  BY DEF IInv
<1>2. QED
  BY <1>1, Inductive, PTL

\* The effects of a verdict are written exactly once, whatever the replays,
\* late calls and recoveries, for any number of units, workers and attempts
\* (ewp_complete_language_evaluation, ewp_recover_evaluation).
THEOREM EffectsOnce == Spec => []AppliedOnce
<1>1. IInv => AppliedOnce
  BY DEF IInv, RowInv, Applied, AppliedOnce, ActiveJobs
<1>2. QED
  BY <1>1, Inductive, PTL

\* A unit in evaluation_pending always has its one active job, claimable or
\* owned by the last claim, for an undecided newest answer (submit, claim,
\* fail, sweep, reject, recover).
THEOREM PendingServed == Spec => []PendingUnitIsServed
<1>1. IInv => PendingUnitIsServed
  <2> SUFFICES ASSUME IInv, NEW u \in Units, unit[u] = "evaluation_pending"
               PROVE  /\ versions[u] > 0 /\ eval[Latest(u)].overall = "partial"
                      /\ \E j \in ActiveJobs(Latest(u)) :
                           /\ ActiveJobs(Latest(u)) = {j}
                           /\ IF jobs[j].status = "pending"
                              THEN jobs[j].attempts < MaxAttempts
                              ELSE jobs[j].token = jobs[j].attempts
    BY DEF PendingUnitIsServed
  <2>1. versions[u] > 0 /\ eval[Latest(u)].overall = "partial"
    BY DEF IInv, RowInv, Served
  <2>2. PICK j \in Jobs : j[1] = Latest(u) /\ jobs[j].status \in Active
    BY DEF IInv, RowInv, Served
  <2>3. \A k \in Jobs : k[1] = j[1] /\ k # j => jobs[k].status \notin Active
    BY <2>2, ActiveJob DEF IInv
  <2>4. ActiveJobs(Latest(u)) = {j}
    BY <2>2, <2>3 DEF ActiveJobs
  <2>5. IF jobs[j].status = "pending" THEN jobs[j].attempts < MaxAttempts
                                      ELSE jobs[j].token = jobs[j].attempts
    BY <2>2 DEF IInv, RowInv, Budget, Active
  <2>6. QED
    BY <2>1, <2>4, <2>5
<1>2. QED
  BY <1>1, Inductive, PTL

\* A unit gets its next version only after the verdict on the one before
\* (ewp_submit_writing_unit, whatever the order of the evaluations).
THEOREM NeverSuperseded == Spec => []VersionsAwaitVerdict
<1>1. IInv => VersionsAwaitVerdict
  BY DEF IInv, RowInv, Verdicts, VersionsAwaitVerdict
<1>2. QED
  BY <1>1, Inductive, PTL

-----------------------------------------------------------------------------
(* What damage and recovery can do to a verdict *)

\* A worker finds an answer corrupt only when it is.
BadClaims == \A w \in Workers : claim[w].bad => claim[w].job[1] \in damaged

\* Only a damaged answer has no result at all.
FailedDamaged == \A a \in Answers : eval[a].overall = "failed" => a \in damaged

\* The first generation ends with the verdict.
FirstJobs ==
  \A j \in Jobs : j[2] = 1 /\ jobs[j].status \in Active =>
    eval[j[1]].overall \notin Terminal

\* A ready unit loses the result of its newest answer only to a recovery.
ReadyFailed ==
  \A a \in Answers : Current(a) /\ unit[a[1]] = "ready" /\ eval[a].overall = "failed" =>
    Recovered(a)

\* A stage in progress has an active job, or its answer was recovered.
Stages ==
  \A a \in Answers : eval[a].language \in {"queued", "running"} =>
    Recovered(a) \/ \E j \in Jobs : j[1] = a /\ jobs[j].status \in Active

LossInv == BadClaims /\ FailedDamaged /\ FirstJobs /\ ReadyFailed /\ Stages

\* A verdict that changes is of a damaged answer that was recovered.
OnlyLossRevises ==
  \A a \in Answers :
    eval[a].overall \in Terminal /\ eval'[a].overall # eval[a].overall =>
      eval[a].overall # "completed" /\ a \in damaged /\ Recovered(a)

\* A step that writes one evaluation and one of its active jobs.
Writes(j, e, b) ==
  /\ jobs[j].status \in Active /\ b.status \in Active \cup Settled
  /\ eval' = [eval EXCEPT ![j[1]] = e] /\ jobs' = [jobs EXCEPT ![j] = b]
  /\ UNCHANGED <<versions, damaged>>

\* A verdict closes the job; "failed" is of a damaged answer.
Judges(j, e, b) ==
  /\ e.overall # eval[j[1]].overall => e.overall \in Terminal /\ b.status \in Settled
  /\ eval[j[1]].overall \in Terminal => e.overall # "completed" \/ eval[j[1]] = e
  /\ e.overall = "failed" => j[1] \in damaged
  /\ e.language \in {"queued", "running"} =>
       b.status \in Active \/ eval[j[1]].overall \in Terminal

\* The unit stays, or moves by the verdict.
Moves(j, e) ==
  \/ UNCHANGED unit
  \/ \E st \in UnitStatuses : MoveUnit(j[1], st) /\ (e.overall = "failed" => st # "ready")

\* An active job of a decided answer is a recovery.
LEMMA DecidedActive ==
  ASSUME LossInv, NEW j \in Jobs, jobs[j].status \in Active,
         eval[j[1]].overall \in Terminal
  PROVE  j[2] > 1 /\ Recovered(j[1])
<1>1. j[2] # 1 /\ j[2] \in 1..MaxGen
  BY JobParts DEF LossInv, FirstJobs
<1>2. QED
  BY <1>1, Numbers DEF Recovered, Exists, Active

\* Such a step keeps what is known of losses.
LEMMA LossStep ==
  ASSUME IInv, LossInv, BadClaims', NEW j \in Jobs, NEW e, NEW b,
         Writes(j, e, b), Judges(j, e, b), Moves(j, e)
  PROVE  LossInv' /\ OnlyLossRevises
<1> DEFINE a == j[1]
<1> USE DEF LossInv
<1>1. /\ a \in Answers
      /\ \A k \in Jobs : k[1] = a /\ k # j => jobs[k].status \notin Active
      /\ eval[a].overall \in Terminal => j[2] > 1 /\ Recovered(a)
  BY ActiveJob, DecidedActive DEF IInv, Writes
<1>2. /\ eval'[a] = e /\ \A c \in Answers \ {a} : eval'[c] = eval[c]
      /\ jobs'[j] = b /\ \A k \in Jobs \ {j} : jobs'[k] = jobs[k]
      /\ versions' = versions /\ damaged' = damaged /\ b.status # "none"
  BY <1>1 DEF IInv, TypeOK, Writes, Active, Settled
<1>3. /\ \A c \in Answers : Recovered(c) => Recovered(c)'
      /\ eval[a].overall \in Terminal => Recovered(a)'
  BY <1>1, <1>2 DEF Recovered, Exists
<1>4. FailedDamaged'
  BY <1>2 DEF FailedDamaged, Judges
<1>5. FirstJobs'
  <2>1. ASSUME NEW k \in Jobs, k[2] = 1, jobs'[k].status \in Active
        PROVE  eval'[k[1]].overall \notin Terminal
    <3>1. CASE k = j
      BY <1>2, <2>1, <3>1 DEF FirstJobs, Writes, Judges, Active, Settled
    <3>2. CASE k # j
      <4>1. k[1] # a /\ k[1] \in Answers
        BY <1>1, <1>2, <2>1, <3>2, JobParts
      <4>2. QED
        BY <1>2, <2>1, <3>2, <4>1 DEF FirstJobs
    <3>3. QED
      BY <3>1, <3>2
  <2>2. QED
    BY <2>1 DEF FirstJobs
<1>6. ReadyFailed'
  <2>1. ASSUME NEW c \in Answers, Current(c), unit'[c[1]] = "ready",
               eval'[c].overall = "failed"
        PROVE  Recovered(c)'
    <3>1. CASE unit[c[1]] = "ready"
      <4>1. CASE c = a
        <5>1. eval[a].overall \in Terminal
          BY <2>1, <3>1, <4>1, AnswerParts DEF IInv, RowInv, Verdicts, Current
        <5>2. QED
          BY <1>3, <4>1, <5>1
      <4>2. CASE c # a
        BY <1>2, <1>3, <2>1, <3>1, <4>2 DEF ReadyFailed
      <4>3. QED
        BY <4>1, <4>2
    <3>2. CASE unit[c[1]] # "ready"
      <4>1. PICK st \in UnitStatuses :
              MoveUnit(a, st) /\ (e.overall = "failed" => st # "ready")
        BY <2>1, <3>2 DEF Moves
      <4>2. c[1] = a[1] /\ Current(a) /\ st = "ready"
        BY <2>1, <3>2, <4>1, AnswerParts DEF MoveUnit, IInv, TypeOK
      <4>3. c = a
        BY <1>1, <2>1, <4>2, AnswerParts DEF Current
      <4>4. QED
        BY <1>2, <2>1, <4>1, <4>2, <4>3
    <3>3. QED
      BY <3>1, <3>2
  <2>2. QED
    BY <1>2, <2>1 DEF ReadyFailed, Current
<1>7. Stages'
  <2>1. ASSUME NEW c \in Answers, eval'[c].language \in {"queued", "running"}
        PROVE  Recovered(c)' \/ \E k \in Jobs : k[1] = c /\ jobs'[k].status \in Active
    <3>1. CASE c = a
      BY <1>2, <1>3, <2>1, <3>1 DEF Judges
    <3>2. CASE c # a
      BY <1>2, <1>3, <2>1, <3>2 DEF Stages
    <3>3. QED
      BY <3>1, <3>2
  <2>2. QED
    BY <2>1 DEF Stages
<1>8. OnlyLossRevises
  <2>1. ASSUME eval[a].overall \in Terminal, e.overall # eval[a].overall
        PROVE  eval[a].overall # "completed" /\ a \in damaged
    <3>1. eval[a].overall # "completed"
      BY <1>1, <2>1 DEF IInv, RowInv, Applied, Writes
    <3>2. e.overall # "completed" /\ e.overall \in Terminal
      BY <2>1 DEF Judges
    <3>3. eval[a].overall = "failed" \/ e.overall = "failed"
      BY <2>1, <3>1, <3>2 DEF Terminal
    <3>4. QED
      BY <1>1, <3>1, <3>3 DEF FailedDamaged, Judges
  <2>2. QED
    BY <1>1, <1>2, <2>1 DEF OnlyLossRevises
<1>9. QED
  BY <1>4, <1>5, <1>6, <1>7, <1>8

\* A worker that forgets its claim keeps what is known of the others.
LEMMA ForgetBad ==
  ASSUME IInv, BadClaims, NEW w \in Workers, Forget(w) \/ UNCHANGED claim,
         UNCHANGED damaged
  PROVE  BadClaims'
<1>1. /\ NoClaim.bad = FALSE
      /\ \A v \in Workers : claim'[v] = claim[v] \/ claim'[v] = NoClaim
  BY DEF Forget, IInv, TypeOK, NoClaim
<1>2. QED
  BY <1>1 DEF BadClaims

\* Giving up decides an undecided answer, repeats the partial verdict, or
\* revises the verdict of a recovered one.
LEMMA GiveUpLoss ==
  ASSUME IInv, LossInv, BadClaims', NEW j \in Jobs, jobs[j].status = "running",
         GiveUp(j), UNCHANGED damaged
  PROVE  LossInv' /\ OnlyLossRevises
<1> DEFINE a == j[1]
<1>1. a \in Answers /\ eval[a] \in EvalRow /\ jobs[j].status \in Active
  BY JobParts DEF IInv, TypeOK, Active
<1>2. CASE Terminalize(j)
  <2> DEFINE e == [eval[a] EXCEPT !.language = "failed", !.overall = "terminal_partial"]
  <2>1. e.language = "failed" /\ e.overall = "terminal_partial"
    BY <1>1 DEF EvalRow
  <2>2. eval' = [eval EXCEPT ![a] = e]
    BY <1>1, <1>2 DEF Terminalize, IInv, TypeOK
  <2>3. PICK b \in JobRow : jobs' = [jobs EXCEPT ![j] = b] /\ b.status = "failed"
    BY <1>2, CloseJobEffect DEF Terminalize
  <2>4. Writes(j, e, b)
    BY <1>1, <1>2, <2>2, <2>3 DEF Writes, Terminalize, Settled
  <2>5. Judges(j, e, b)
    BY <2>1, <2>3 DEF Judges, Settled, Terminal
  <2>6. Moves(j, e)
    BY <1>2 DEF Moves, Terminalize, UnitStatuses, MoveUnit
  <2>7. QED
    BY <2>4, <2>5, <2>6, LossStep
<1>3. CASE Requeue(j)
  <2> DEFINE e == [eval[a] EXCEPT !.language = IF @ = "running" THEN "queued" ELSE @]
  <2>1. e.overall = eval[a].overall
    BY <1>1 DEF EvalRow
  <2>2. eval' = [eval EXCEPT ![a] = e]
    BY <1>1, <1>3 DEF Requeue, IInv, TypeOK
  <2>3. PICK b \in JobRow : jobs' = [jobs EXCEPT ![j] = b] /\ b.status = "pending"
    BY <1>3, CloseJobEffect DEF Requeue
  <2>4. Writes(j, e, b) /\ b.status \in Active
    BY <1>1, <1>3, <2>2, <2>3 DEF Writes, Requeue, Active
  <2>5. Judges(j, e, b)
    <3>1. eval[a].overall # "completed"
      BY <1>1 DEF IInv, RowInv, Applied
    <3>2. QED
      BY <1>1, <2>1, <2>4, <3>1 DEF Judges, LossInv, FailedDamaged
  <2>6. Moves(j, e)
    BY <1>3 DEF Moves, Requeue
  <2>7. QED
    BY <2>4, <2>5, <2>6, LossStep
<1>4. QED
  BY <1>2, <1>3 DEF GiveUp

\* The steps of a worker.
LEMMA WorkLoss ==
  ASSUME IInv, LossInv, NEW w \in Workers, Work(w)
  PROVE  LossInv' /\ OnlyLossRevises
<1> DEFINE j == claim[w].job
<1>1. ASSUME NEW k \in Jobs, Claim(w, k)
      PROVE  LossInv' /\ OnlyLossRevises
  <2> DEFINE a == k[1]
             n == jobs[k].attempts + 1
             e == [eval[a] EXCEPT !.language =
                     IF @ \in {"queued", "failed", "running"} THEN "running" ELSE @]
             b == [status |-> "running", attempts |-> n, token |-> n]
  <2>1. /\ a \in Answers /\ eval[a] \in EvalRow /\ jobs[k].status \in Active
        /\ b.status \in Active
    BY <1>1, JobParts DEF Claim, IInv, TypeOK, Active
  <2>2. e.overall = eval[a].overall
    BY <2>1 DEF EvalRow
  <2>3. eval' = [eval EXCEPT ![a] = e] /\ jobs' = [jobs EXCEPT ![k] = b]
    BY <1>1, <2>1 DEF Claim, StartLanguage, IInv, TypeOK
  <2>4. BadClaims'
    BY <1>1 DEF Claim, IInv, TypeOK, LossInv, BadClaims
  <2>5. Writes(k, e, b) /\ Moves(k, e)
    BY <1>1, <2>1, <2>3 DEF Writes, Moves, Claim
  <2>6. Judges(k, e, b)
    <3>1. eval[a].overall # "completed"
      BY <2>1 DEF IInv, RowInv, Applied
    <3>2. QED
      BY <2>1, <2>2, <3>1 DEF Judges, LossInv, FailedDamaged
  <2>7. QED
    BY <2>4, <2>5, <2>6, LossStep
<1>2. ASSUME Complete(w) \/ Fail(w) \/ Reject(w)
      PROVE  /\ j \in Jobs /\ jobs[j].status = "running" /\ jobs[j].status \in Active
             /\ j[1] \in Answers /\ eval[j[1]] \in EvalRow /\ jobs[j] \in JobRow
             /\ BadClaims' /\ UNCHANGED <<versions, damaged>>
  <2>1. j \in Jobs /\ jobs[j].status = "running" /\ j[1] \in Answers
    BY <1>2, OwnedJob DEF Complete, Fail, Reject
  <2>2. UNCHANGED <<versions, damaged>> /\ (Forget(w) \/ UNCHANGED claim)
    BY <1>2 DEF Complete, Replay, Apply, Fail, GiveUp, Terminalize, Requeue, Reject
  <2>3. QED
    BY <2>1, <2>2, ForgetBad DEF Active, LossInv, IInv, TypeOK
<1>3. CASE Complete(w) /\ Replay(j)
  <2> DEFINE b == [jobs[j] EXCEPT !.status = "done"]
  <2>1. b.status = "done"
    BY <1>2, <1>3 DEF JobRow
  <2>2. Writes(j, eval[j[1]], b) /\ Moves(j, eval[j[1]])
    BY <1>2, <1>3, <2>1 DEF Writes, Moves, Replay, Settled, IInv, TypeOK
  <2>3. Judges(j, eval[j[1]], b)
    BY <1>2, <1>3 DEF Judges, Replay, Decided, LossInv, FailedDamaged
  <2>4. QED
    BY <1>2, <1>3, <2>2, <2>3, LossStep
<1>4. ASSUME Complete(w), NEW must \in BOOLEAN, Apply(j, must)
      PROVE  LossInv' /\ OnlyLossRevises
  <2> DEFINE e == [language |-> "completed", overall |-> "completed",
                   must |-> must /\ Current(j[1]), applied |-> eval[j[1]].applied + 1]
  <2>1. eval' = [eval EXCEPT ![j[1]] = e]
    BY <1>2, <1>4 DEF Apply, IInv, TypeOK
  <2>2. PICK b \in JobRow : jobs' = [jobs EXCEPT ![j] = b] /\ b.status = "done"
    BY <1>2, <1>4, CloseJobEffect DEF Apply
  <2>3. Writes(j, e, b)
    BY <1>2, <1>4, <2>1, <2>2 DEF Writes, Settled
  <2>4. Judges(j, e, b)
    BY <1>4, <2>2 DEF Judges, Apply, Decided, Settled, Terminal
  <2>5. Moves(j, e)
    BY <1>4 DEF Moves, Apply, UnitStatuses
  <2>6. QED
    BY <1>2, <1>4, <2>3, <2>4, <2>5, LossStep
<1>5. CASE Fail(w)
  BY <1>2, <1>5, GiveUpLoss DEF Fail
<1>6. CASE Reject(w)
  <2> DEFINE e == [eval[j[1]] EXCEPT !.language = "failed", !.overall = "failed"]
  <2>1. e.language = "failed" /\ e.overall = "failed"
    BY <1>2, <1>6 DEF EvalRow
  <2>2. eval' = [eval EXCEPT ![j[1]] = e]
    BY <1>2, <1>6 DEF Reject, IInv, TypeOK
  <2>3. PICK b \in JobRow : jobs' = [jobs EXCEPT ![j] = b] /\ b.status = "failed"
    BY <1>2, <1>6, CloseJobEffect DEF Reject
  <2>4. Writes(j, e, b)
    BY <1>2, <1>6, <2>2, <2>3 DEF Writes, Settled
  <2>5. Judges(j, e, b)
    BY <1>6, <2>1, <2>3 DEF Judges, Reject, Settled, Terminal, LossInv, BadClaims
  <2>6. Moves(j, e)
    BY <1>6 DEF Moves, Reject, UnitStatuses
  <2>7. QED
    BY <1>2, <1>6, <2>4, <2>5, <2>6, LossStep
<1>7. CASE Abandon(w)
  <2>1. BadClaims'
    BY <1>7, ForgetBad DEF Abandon, LossInv
  <2>2. QED
    BY <1>7, <2>1
    DEF Abandon, rows, LossInv, FailedDamaged, FirstJobs, ReadyFailed, Stages,
        OnlyLossRevises, Recovered, Exists, Current
<1>8. QED
  BY <1>1, <1>3, <1>4, <1>5, <1>6, <1>7 DEF Work, Complete

\* A new answer has no verdict and one job.
LEMMA SubmitLoss ==
  ASSUME IInv, LossInv, NEW h \in Handlers, NEW u \in Units, Submit(h, u)
  PROVE  LossInv' /\ OnlyLossRevises
<1> DEFINE a == <<u, versions[u] + 1>>
           j == <<a, 1>>
<1> USE DEF LossInv
<1>1. versions[u] \in Nat /\ versions[u] + 1 \in 1..MaxVersions
  BY Numbers DEF Submit, IInv, TypeOK, Vector
<1>2. a \in Answers /\ a[1] = u /\ a[2] = versions[u] + 1 /\ a[2] > versions[u]
  BY <1>1, AnswerParts
<1>3. j \in Jobs /\ j[1] = a /\ j[2] = 1
  BY <1>2, JobParts, Numbers
<1>4. eval[a].overall = "none" /\ \A k \in Jobs : k[1] = a => jobs[k].status = "none"
  BY <1>2 DEF IInv, RowInv, Unborn, NoEval
<1>5. /\ eval'[a] = NewEval /\ \A c \in Answers \ {a} : eval'[c] = eval[c]
      /\ jobs'[j] = NewJob /\ \A k \in Jobs \ {j} : jobs'[k] = jobs[k]
      /\ unit'[u] = "evaluation_pending" /\ \A v \in Units \ {u} : unit'[v] = unit[v]
      /\ \A v \in Units \ {u} : versions'[v] = versions[v]
      /\ UNCHANGED <<damaged, claim>>
  BY <1>2, <1>3 DEF Submit, IInv, TypeOK, Vector
<1>6. NewJob.status = "pending" /\ NewEval.overall = "partial"
  BY DEF NewJob, Missing, NewEval, NoEval
<1>7. \A c \in Answers : Recovered(c) => Recovered(c)'
  BY <1>3, <1>5 DEF Recovered, Exists
<1>8. BadClaims' /\ FailedDamaged'
  BY <1>5, <1>6 DEF BadClaims, FailedDamaged
<1>9. FirstJobs'
  <2>1. ASSUME NEW k \in Jobs, k[2] = 1, jobs'[k].status \in Active
        PROVE  eval'[k[1]].overall \notin Terminal
    <3>1. CASE k[1] = a
      BY <1>5, <1>6, <3>1 DEF Terminal
    <3>2. CASE k[1] # a
      <4>1. k # j /\ k[1] \in Answers
        BY <1>3, <3>2, JobParts
      <4>2. QED
        BY <1>5, <2>1, <3>2, <4>1 DEF FirstJobs
    <3>3. QED
      BY <3>1, <3>2
  <2>2. QED
    BY <2>1 DEF FirstJobs
<1>10. ReadyFailed'
  <2>1. ASSUME NEW c \in Answers, versions'[c[1]] = c[2], unit'[c[1]] = "ready",
               eval'[c].overall = "failed"
        PROVE  Recovered(c)'
    <3>1. c[1] # u /\ c[1] \in Units
      BY <1>5, <2>1, AnswerParts
    <3>2. c # a
      BY <1>2, <3>1
    <3>3. QED
      BY <1>5, <1>7, <2>1, <3>1, <3>2 DEF ReadyFailed, Current
  <2>2. QED
    BY <2>1 DEF ReadyFailed, Current
<1>11. Stages'
  <2>1. ASSUME NEW c \in Answers, eval'[c].language \in {"queued", "running"}
        PROVE  Recovered(c)' \/ \E k \in Jobs : k[1] = c /\ jobs'[k].status \in Active
    <3>1. CASE c = a
      BY <1>3, <1>5, <1>6, <3>1 DEF Active
    <3>2. CASE c # a
      BY <1>3, <1>5, <1>7, <2>1, <3>2 DEF Stages
    <3>3. QED
      BY <3>1, <3>2
  <2>2. QED
    BY <2>1 DEF Stages
<1>12. OnlyLossRevises
  BY <1>4, <1>5 DEF OnlyLossRevises, Terminal
<1>13. QED
  BY <1>8, <1>9, <1>10, <1>11, <1>12

\* A recovery starts a second generation.
LEMMA RecoverLoss ==
  ASSUME IInv, LossInv, NEW j \in Jobs, Recover(j)
  PROVE  LossInv' /\ OnlyLossRevises
<1> DEFINE a == j[1]
           next == <<a, j[2] + 1>>
           e == [eval[a] EXCEPT !.language = IF @ = "failed" THEN "queued" ELSE @]
<1> USE DEF LossInv
<1>1. /\ a \in Answers /\ eval[a] \in EvalRow /\ next \in Jobs
      /\ next[1] = a /\ next[2] > 1 /\ j[2] \in Nat
  BY JobParts, Numbers DEF Recover, IInv, TypeOK
<1>2. e.overall = eval[a].overall
  BY <1>1 DEF EvalRow
<1>3. eval' = [eval EXCEPT ![a] = e]
  BY <1>1 DEF Recover, IInv, TypeOK
<1>4. /\ \A c \in Answers : eval'[c].overall = eval[c].overall
      /\ \A c \in Answers \ {a} : eval'[c] = eval[c]
      /\ jobs'[next] = NewJob /\ \A k \in Jobs \ {next} : jobs'[k] = jobs[k]
      /\ UNCHANGED <<versions, unit, damaged, claim>>
  BY <1>1, <1>2, <1>3 DEF Recover, IInv, TypeOK
<1>5. NewJob.status = "pending"
  BY DEF NewJob, Missing
<1>6. Recovered(a)' /\ \A c \in Answers : Recovered(c) => Recovered(c)'
  BY <1>1, <1>4, <1>5 DEF Recovered, Exists
<1>7. BadClaims' /\ FailedDamaged' /\ OnlyLossRevises
  BY <1>4 DEF BadClaims, FailedDamaged, OnlyLossRevises
<1>8. FirstJobs'
  BY <1>1, <1>4, JobParts DEF FirstJobs
<1>9. ReadyFailed'
  BY <1>4, <1>6 DEF ReadyFailed, Current
<1>10. Stages'
  <2>1. ASSUME NEW c \in Answers \ {a}, eval'[c].language \in {"queued", "running"}
        PROVE  Recovered(c)' \/ \E k \in Jobs : k[1] = c /\ jobs'[k].status \in Active
    BY <1>1, <1>4, <1>6, <2>1 DEF Stages
  <2>2. QED
    BY <1>6, <2>1 DEF Stages
<1>11. QED
  BY <1>7, <1>8, <1>9, <1>10

\* Every step keeps what is known of losses.
LEMMA LossNext ==
  ASSUME IInv, LossInv, [Next]_vars
  PROVE  LossInv' /\ OnlyLossRevises
<1> USE DEF LossInv, BadClaims, FailedDamaged, FirstJobs, ReadyFailed, Stages,
            OnlyLossRevises, Recovered, Exists, Current
<1>1. CASE UNCHANGED <<versions, unit, eval, jobs, damaged, claim>>
  BY <1>1
<1>2. ASSUME NEW h \in Handlers,
             ReadVersion(h) \/ InsertCheck(h) \/ Finalize(h) \/ RefreshFails(h)
      PROVE  UNCHANGED <<versions, unit, eval, jobs, damaged, claim>>
  BY <1>2 DEF ReadVersion, InsertCheck, Finalize, RefreshFails, rows
<1>3. ASSUME NEW u \in Units, Reopen(u)
      PROVE  LossInv' /\ OnlyLossRevises
  <2>1. /\ unit'[u] = "draft" /\ \A v \in Units \ {u} : unit'[v] = unit[v]
        /\ UNCHANGED <<versions, eval, jobs, damaged, claim>>
    BY <1>3 DEF Reopen, IInv, TypeOK
  <2>2. QED
    BY <2>1, AnswerParts
<1>4. ASSUME NEW j \in Jobs, Sweep(j)
      PROVE  LossInv' /\ OnlyLossRevises
  <2>1. BadClaims'
    BY <1>4 DEF Sweep
  <2>2. QED
    BY <1>4, <2>1, GiveUpLoss DEF Sweep
<1>5. ASSUME NEW a \in Corruptible, Damage(a)
      PROVE  LossInv' /\ OnlyLossRevises
  BY <1>5 DEF Damage, rows
<1>6. CASE UNCHANGED vars
  BY <1>1, <1>6 DEF vars, rows
<1>7. QED
  BY <1>1, <1>2, <1>3, <1>4, <1>5, <1>6, WorkLoss, SubmitLoss, RecoverLoss
  DEF Next, Learner

\* A new session has lost nothing.
LEMMA LossInit == Init => LossInv
BY JobParts
DEF Init, LossInv, BadClaims, FailedDamaged, FirstJobs, ReadyFailed, Stages, NoClaim,
    NoEval, Missing, Active

\* What is known of losses holds in every reachable state.
LEMMA Losses == Spec => [](IInv /\ LossInv)
<1>1. Init => IInv /\ LossInv
  BY IInvInit, LossInit
<1>2. IInv /\ LossInv /\ [Next]_vars => (IInv /\ LossInv)'
  BY IInvNext, LossNext
<1>3. QED
  BY <1>1, <1>2, PTL DEF Spec

\* A decided evaluation is decided again only when its answer was damaged and
\* an operator recovered it all the same, and a completed one never, for any
\* damage, recoveries, replays, late calls and expired leases
\* (ewp_complete_language_evaluation, ewp_reject_corrupt_version,
\* ewp_recover_evaluation).
THEOREM OnlyLossesAreRevised == Spec => [][OnlyLossRevises]_vars
<1>1. IInv /\ LossInv /\ [Next]_vars => [OnlyLossRevises]_vars
  BY LossNext
<1>2. QED
  BY <1>1, Losses, PTL DEF Spec

\* Only a recovery may revise a verdict, and never a completed one, with any
\* number of workers, generations, replays, late calls, expired leases and
\* damaged texts (ewp_complete_language_evaluation, ewp_fail_evaluation_job).
THEOREM VerdictsAreFinal == Spec => EvaluationIsFinal
<1> DEFINE Keeps == \A a \in Answers :
             \/ eval[a].overall = "completed"
             \/ eval[a].overall \in Terminal /\ ~Recovered(a)
             => eval'[a].overall = eval[a].overall
<1>1. [OnlyLossRevises]_vars => [Keeps]_vars
  BY DEF OnlyLossRevises, Terminal
<1>2. Spec => [][Keeps]_vars
  BY <1>1, OnlyLossesAreRevised, PTL
<1>3. QED
  BY <1>2 DEF EvaluationIsFinal

\* No damaged answer is given a second generation.
LossesStand == \A a \in damaged : ~Recovered(a)

\* Where no text is ever damaged, or nobody recovers, losses stand.
LEMMA LossesNeverRecovered ==
  ASSUME Corruptible = {} \/ MaxGen = 1
  PROVE  Spec => []LossesStand
<1> DEFINE Inv == damaged \subseteq Corruptible
<1>1. Init => Inv
  BY DEF Init
<1>2. Inv /\ [Next]_vars => Inv'
  BY DEF Next, Learner, Work, Submit, ReadVersion, InsertCheck, Finalize, RefreshFails,
         Reopen, Claim, Complete, Fail, Reject, Abandon, Sweep, Recover, Damage, vars, rows
<1>3. Inv => LossesStand
  BY JobParts DEF LossesStand, Recovered
<1>4. QED
  BY <1>1, <1>2, <1>3, PTL DEF Spec
=============================================================================
