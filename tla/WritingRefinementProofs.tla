---------------------- MODULE WritingRefinementProofs ----------------------
(***************************************************************************)
(* The evaluation jobs of WritingEvaluation implement LeasedJobs, for any  *)
(* number of units, workers, requests, versions, attempts and generations, *)
(* any damage and any recovery.                                            *)
(***************************************************************************)
EXTENDS WritingEvaluationProofs

\* A function that differs from another at one point.
LEMMA OnePoint ==
  ASSUME NEW S, NEW f, NEW g, NEW x \in S, NEW v,
         f = [y \in S |-> f[y]], g = [y \in S |-> g[y]],
         g[x] = v, \A y \in S \ {x} : g[y] = f[y]
  PROVE  g = [f EXCEPT ![x] = v]
OBVIOUS

\* One evaluation is written: what that does to the mapped verdicts.
LEMMA MappedEvaluation ==
  ASSUME TypeOK, NEW a \in Answers, NEW e, eval' = [eval EXCEPT ![a] = e]
  PROVE  /\ eval'[a] = e /\ \A c \in Answers \ {a} : eval'[c] = eval[c]
         /\ \A c \in Answers \ {a} : Verdict(c)' = Verdict(c)
         /\ e.overall = "partial" => Verdict(a)' = "open"
         /\ e.overall \in Terminal => Verdict(a)' = "decided"
         /\ e.overall = eval[a].overall => Verdict(a)' = Verdict(a)
<1>1. eval'[a] = e /\ \A c \in Answers \ {a} : eval'[c] = eval[c]
  BY DEF TypeOK
<1>2. QED
  BY <1>1 DEF Verdict, Terminal

\* One job is written: the mapped jobs.
LEMMA MappedJob ==
  ASSUME TypeOK, NEW j \in Jobs, NEW b, jobs' = [jobs EXCEPT ![j] = b]
  PROVE  /\ [k \in Jobs |-> jobs'[k].status]
              = [[k \in Jobs |-> jobs[k].status] EXCEPT ![j] = b.status]
         /\ [k \in Jobs |-> jobs'[k].attempts]
              = [[k \in Jobs |-> jobs[k].attempts] EXCEPT ![j] = b.attempts]
<1> DEFINE st == [k \in Jobs |-> jobs[k].status]
           at == [k \in Jobs |-> jobs[k].attempts]
           stNext == [k \in Jobs |-> jobs'[k].status]
           atNext == [k \in Jobs |-> jobs'[k].attempts]
<1>1. jobs'[j] = b /\ \A k \in Jobs \ {j} : jobs'[k] = jobs[k]
  BY DEF TypeOK
<1>2. stNext[j] = b.status /\ \A k \in Jobs \ {j} : stNext[k] = st[k]
  BY <1>1
<1>3. atNext[j] = b.attempts /\ \A k \in Jobs \ {j} : atNext[k] = at[k]
  BY <1>1
<1>4. /\ st = [k \in Jobs |-> st[k]] /\ stNext = [k \in Jobs |-> stNext[k]]
      /\ at = [k \in Jobs |-> at[k]] /\ atNext = [k \in Jobs |-> atNext[k]]
  OBVIOUS
<1> HIDE DEF st, at, stNext, atNext
<1>5. stNext = [st EXCEPT ![j] = b.status]
  BY <1>2, <1>4, OnePoint
<1>6. atNext = [at EXCEPT ![j] = b.attempts]
  BY <1>3, <1>4, OnePoint
<1>7. QED
  BY <1>5, <1>6 DEF st, at, stNext, atNext

\* The names of the abstract module for jobs are those of this one.
LEMMA SameJobs == Promised!Jobs = Jobs
BY DEF Promised!Jobs, Jobs

\* Nothing happens to jobs and evaluations: the asker sees nothing.
LEMMA MappedStutter ==
  ASSUME UNCHANGED <<eval, jobs>>
  PROVE  UNCHANGED Promised!vars
BY DEF Promised!vars, Verdict

\* A running job is settled and its answer decided.
LEMMA MappedSettle ==
  ASSUME TypeOK, NEW j \in Jobs, NEW e, NEW b, jobs[j].status = "running",
         eval' = [eval EXCEPT ![j[1]] = e], jobs' = [jobs EXCEPT ![j] = b],
         b.status \in Settled, b.attempts = jobs[j].attempts, e.overall \in Terminal,
         \/ e.applied = eval[j[1]].applied
         \/ eval[j[1]].overall = "partial" /\ e.applied = eval[j[1]].applied + 1
  PROVE  Promised!Settle(j)
<1> DEFINE a == j[1]
<1>1. a \in Answers
  BY JobParts
<1>2. /\ eval'[a] = e /\ \A c \in Answers \ {a} : eval'[c] = eval[c]
      /\ \A c \in Answers \ {a} : Verdict(c)' = Verdict(c)
      /\ Verdict(a)' = "decided"
  BY <1>1, MappedEvaluation
<1>3. [c \in Answers |-> Verdict(c)'] = [[c \in Answers |-> Verdict(c)] EXCEPT ![a] = "decided"]
  BY <1>1, <1>2
<1>4. [k \in Jobs |-> jobs'[k].status]
        = [[k \in Jobs |-> jobs[k].status] EXCEPT ![j] = b.status]
  BY MappedJob
<1>5. [k \in Jobs |-> jobs'[k].attempts] = [k \in Jobs |-> jobs[k].attempts]
  BY MappedJob
<1>6. \/ [c \in Answers |-> eval'[c].applied] = [c \in Answers |-> eval[c].applied]
      \/ /\ Verdict(a) = "open"
         /\ [c \in Answers |-> eval'[c].applied]
              = [[c \in Answers |-> eval[c].applied] EXCEPT ![a] = eval[a].applied + 1]
  <2> DEFINE ef == [c \in Answers |-> eval[c].applied]
             efNext == [c \in Answers |-> eval'[c].applied]
  <2>1. /\ ef = [c \in Answers |-> ef[c]] /\ efNext = [c \in Answers |-> efNext[c]]
        /\ efNext[a] = e.applied /\ \A c \in Answers \ {a} : efNext[c] = ef[c]
        /\ ef[a] = eval[a].applied
    BY <1>1, <1>2
  <2>2. CASE e.applied = eval[a].applied
    BY <1>1, <2>1, <2>2
  <2>3. CASE eval[a].overall = "partial" /\ e.applied = eval[a].applied + 1
    <3>1. Verdict(a) = "open"
      BY <2>3 DEF Verdict, Terminal
    <3> HIDE DEF a, ef, efNext
    <3>2. efNext = [ef EXCEPT ![a] = eval[a].applied + 1]
      BY <1>1, <2>1, <2>3, OnePoint
    <3>3. QED
      BY <3>1, <3>2 DEF ef, efNext
  <2>4. QED
    BY <2>2, <2>3
<1>7. QED
  BY <1>1, <1>3, <1>4, <1>5, <1>6 DEF Promised!Settle, Promised!Settled, Settled

\* A job is leased or returned: its answer stays as it is.
LEMMA MappedMove ==
  ASSUME TypeOK, NEW j \in Jobs, NEW e, NEW b,
         eval' = [eval EXCEPT ![j[1]] = e], jobs' = [jobs EXCEPT ![j] = b],
         e.overall = eval[j[1]].overall, e.applied = eval[j[1]].applied,
         jobs[j].attempts < MaxAttempts,
         \/ /\ jobs[j].status = "pending" /\ b.status = "running"
            /\ b.attempts = jobs[j].attempts + 1
         \/ /\ jobs[j].status = "running" /\ b.status = "pending"
            /\ b.attempts = jobs[j].attempts
  PROVE  Promised!Lease(j) \/ Promised!Return(j)
<1> DEFINE a == j[1]
<1>1. a \in Answers
  BY JobParts
<1>2. /\ eval'[a] = e /\ \A c \in Answers \ {a} : eval'[c] = eval[c]
      /\ \A c \in Answers : Verdict(c)' = Verdict(c)
  BY <1>1, MappedEvaluation
<1>3. /\ [c \in Answers |-> Verdict(c)'] = [c \in Answers |-> Verdict(c)]
      /\ [c \in Answers |-> eval'[c].applied] = [c \in Answers |-> eval[c].applied]
  BY <1>2
<1>4. /\ [k \in Jobs |-> jobs'[k].status]
           = [[k \in Jobs |-> jobs[k].status] EXCEPT ![j] = b.status]
      /\ [k \in Jobs |-> jobs'[k].attempts]
           = [[k \in Jobs |-> jobs[k].attempts] EXCEPT ![j] = b.attempts]
  BY MappedJob
<1>5. CASE jobs[j].status = "pending"
  BY <1>3, <1>4, <1>5 DEF Promised!Lease
<1>6. CASE jobs[j].status = "running"
  BY <1>3, <1>4, <1>6 DEF Promised!Return
<1>7. QED
  BY <1>5, <1>6

\* A job is asked for.
LEMMA MappedAsk ==
  ASSUME TypeOK, NEW a \in Answers, NEW g \in 1..MaxGen, NEW e,
         eval' = [eval EXCEPT ![a] = e], jobs' = [jobs EXCEPT ![<<a, g>>] = NewJob],
         jobs[<<a, g>>].status = "none",
         \A k \in Jobs : k[1] = a => jobs[k].status \notin Active,
         e.applied = eval[a].applied,
         \/ eval[a].overall = "none" /\ e.overall = "partial"
         \/ eval[a].overall \in Terminal /\ e.overall = eval[a].overall
  PROVE  Promised!Ask(a, g)
<1> DEFINE j == <<a, g>>
<1>1. j \in Jobs /\ \A h \in 1..MaxGen : <<a, h>> \in Jobs /\ <<a, h>>[1] = a
  BY JobParts
<1>2. NewJob.status = "pending" /\ NewJob.attempts = 0
  BY NullTypes DEF NewJob, Missing
<1>3. /\ eval'[a] = e /\ \A c \in Answers \ {a} : eval'[c] = eval[c]
      /\ \A c \in Answers \ {a} : Verdict(c)' = Verdict(c)
      /\ e.overall = "partial" => Verdict(a)' = "open"
      /\ e.overall = eval[a].overall => Verdict(a)' = Verdict(a)
  BY MappedEvaluation
<1>4. /\ Verdict(a) # "open"
      /\ Verdict(a)' = IF Verdict(a) = "none" THEN "open" ELSE Verdict(a)
  BY <1>3 DEF Verdict, Terminal
<1>5. [c \in Answers |-> Verdict(c)']
        = [[c \in Answers |-> Verdict(c)] EXCEPT
             ![a] = IF Verdict(a) = "none" THEN "open" ELSE Verdict(a)]
  BY <1>3, <1>4
<1>6. [c \in Answers |-> eval'[c].applied] = [c \in Answers |-> eval[c].applied]
  BY <1>3
<1>7. /\ [k \in Jobs |-> jobs'[k].status]
           = [[k \in Jobs |-> jobs[k].status] EXCEPT ![j] = "pending"]
      /\ [k \in Jobs |-> jobs'[k].attempts]
           = [[k \in Jobs |-> jobs[k].attempts] EXCEPT ![j] = 0]
  <2>1. jobs' = [jobs EXCEPT ![j] = NewJob]
    OBVIOUS
  <2> HIDE DEF j
  <2>2. /\ [k \in Jobs |-> jobs'[k].status]
             = [[k \in Jobs |-> jobs[k].status] EXCEPT ![j] = NewJob.status]
        /\ [k \in Jobs |-> jobs'[k].attempts]
             = [[k \in Jobs |-> jobs[k].attempts] EXCEPT ![j] = NewJob.attempts]
    BY <1>1, <2>1, MappedJob
  <2>3. QED
    BY <1>2, <2>2
<1>8. \A h \in 1..MaxGen : jobs[<<a, h>>].status \notin {"pending", "running"}
  BY <1>1 DEF Active
<1>9. QED
  BY <1>1, <1>4, <1>5, <1>6, <1>7, <1>8 DEF Promised!Ask, Promised!Active
-----------------------------------------------------------------------------
(* The steps of workers and sweeps *)

JobMove(j) == Promised!Lease(j) \/ Promised!Return(j) \/ Promised!Settle(j)

\* A submitted answer is decided, or the newest answer of a pending unit.
LEMMA SubmittedAnswer ==
  ASSUME IInv, NEW a \in Answers, a[2] <= versions[a[1]]
  PROVE  \/ eval[a].overall \in Terminal
         \/ /\ eval[a].overall = "partial" /\ a = Latest(a[1])
            /\ unit[a[1]] = "evaluation_pending"
<1>1. a[1] \in Units /\ a[2] \in 1..MaxVersions /\ a = <<a[1], a[2]>>
  BY AnswerParts
<1>2. a[2] \in Nat /\ versions[a[1]] \in Nat
  BY <1>1, Numbers DEF IInv, TypeOK, Vector
<1>3. CASE a[2] < versions[a[1]] \/ unit[a[1]] # "evaluation_pending"
  BY <1>1, <1>2, <1>3 DEF IInv, RowInv, Verdicts
<1>4. CASE a[2] = versions[a[1]] /\ unit[a[1]] = "evaluation_pending"
  BY <1>1, <1>4 DEF IInv, RowInv, Served, Latest
<1>5. QED
  BY <1>2, <1>3, <1>4

\* A claim is a lease.
LEMMA ClaimMapped ==
  ASSUME IInv, NEW w \in Workers, NEW j \in Jobs, Claim(w, j)
  PROVE  JobMove(j)
<1> DEFINE n == jobs[j].attempts + 1
           a == j[1]
           e == [eval[a] EXCEPT !.language =
                   IF @ \in {"queued", "failed", "running"} THEN "running" ELSE @]
           b == [status |-> "running", attempts |-> n, token |-> n]
<1>1. TypeOK /\ a \in Answers /\ eval[a] \in EvalRow /\ jobs[j] \in JobRow
  BY JobParts DEF IInv, TypeOK
<1>2. e.overall = eval[a].overall /\ e.applied = eval[a].applied
  BY <1>1 DEF EvalRow
<1>3. eval' = [eval EXCEPT ![a] = e] /\ jobs' = [jobs EXCEPT ![j] = b]
  BY <1>1 DEF Claim, StartLanguage, TypeOK
<1>4. jobs[j].status = "pending" /\ jobs[j].attempts < MaxAttempts
  BY <1>1, Numbers DEF Claim, JobRow
<1>5. b.status = "running" /\ b.attempts = jobs[j].attempts + 1
  OBVIOUS
<1> HIDE DEF e, b
<1>6. QED
  BY <1>1, <1>2, <1>3, <1>4, <1>5, MappedMove DEF JobMove

\* A failure and an expired lease return the job or settle it.
LEMMA GiveUpMapped ==
  ASSUME IInv, NEW j \in Jobs, jobs[j].status = "running", GiveUp(j)
  PROVE  JobMove(j)
<1> DEFINE a == j[1]
<1>1. TypeOK /\ a \in Answers /\ eval[a] \in EvalRow /\ jobs[j] \in JobRow
  BY JobParts DEF IInv, TypeOK
<1>2. CASE Terminalize(j)
  <2> DEFINE e == [eval[a] EXCEPT !.language = "failed", !.overall = "terminal_partial"]
  <2>1. e.applied = eval[a].applied /\ e.overall \in Terminal
    BY <1>1 DEF EvalRow, Terminal
  <2>2. eval' = [eval EXCEPT ![a] = e]
    BY <1>1, <1>2 DEF Terminalize, TypeOK
  <2>3. PICK b \in JobRow : /\ jobs' = [jobs EXCEPT ![j] = b]
                            /\ b.status = "failed" /\ b.attempts = jobs[j].attempts
    BY <1>2, CloseJobEffect DEF Terminalize
  <2> HIDE DEF e
  <2>4. QED
    BY <1>1, <2>1, <2>2, <2>3, MappedSettle DEF JobMove, Settled
<1>3. CASE Requeue(j) /\ ~(jobs[j].attempts >= MaxAttempts)
  <2> DEFINE e == [eval[a] EXCEPT !.language = IF @ = "running" THEN "queued" ELSE @]
  <2>1. e.applied = eval[a].applied /\ e.overall = eval[a].overall
    BY <1>1 DEF EvalRow
  <2>2. eval' = [eval EXCEPT ![a] = e]
    BY <1>1, <1>3 DEF Requeue, TypeOK
  <2>3. PICK b \in JobRow : /\ jobs' = [jobs EXCEPT ![j] = b]
                            /\ b.status = "pending" /\ b.attempts = jobs[j].attempts
    BY <1>3, CloseJobEffect DEF Requeue
  <2>4. jobs[j].attempts < MaxAttempts
    BY <1>1, <1>3, Numbers DEF JobRow
  <2> HIDE DEF e
  <2>5. QED
    BY <1>1, <2>1, <2>2, <2>3, <2>4, MappedMove DEF JobMove
<1>4. QED
  BY <1>2, <1>3 DEF GiveUp

\* A verdict settles the job, and writes effects for an open answer only.
LEMMA ApplyMapped ==
  ASSUME IInv, NEW j \in Jobs, jobs[j].status = "running",
         NEW must \in BOOLEAN, Apply(j, must)
  PROVE  JobMove(j)
<1> DEFINE a == j[1]
           e == [language |-> "completed", overall |-> "completed",
                 must |-> must /\ Current(a), applied |-> eval[a].applied + 1]
<1>1. TypeOK /\ a \in Answers /\ a[2] <= versions[a[1]]
  BY ActiveJob DEF IInv, Active
<1>2. eval[a].overall = "partial"
  BY <1>1, SubmittedAnswer DEF Apply, Decided
<1>3. eval' = [eval EXCEPT ![a] = e]
  BY <1>1 DEF Apply, TypeOK
<1>4. PICK b \in JobRow : /\ jobs' = [jobs EXCEPT ![j] = b]
                          /\ b.status = "done" /\ b.attempts = jobs[j].attempts
  BY CloseJobEffect DEF Apply
<1>5. e.overall \in Terminal /\ e.applied = eval[a].applied + 1
  BY DEF Terminal
<1> HIDE DEF e
<1>6. QED
  BY <1>1, <1>2, <1>3, <1>4, <1>5, MappedSettle DEF JobMove, Settled

\* A verdict on a decided answer settles the job and writes nothing.
LEMMA ReplayMapped ==
  ASSUME IInv, NEW j \in Jobs, jobs[j].status = "running", Replay(j)
  PROVE  JobMove(j)
<1> DEFINE a == j[1]
           b == [jobs[j] EXCEPT !.status = "done"]
<1>1. TypeOK /\ a \in Answers /\ jobs[j] \in JobRow
  BY JobParts DEF IInv, TypeOK
<1>2. b.status = "done" /\ b.attempts = jobs[j].attempts
  BY <1>1 DEF JobRow
<1>3. eval' = [eval EXCEPT ![a] = eval[a]] /\ jobs' = [jobs EXCEPT ![j] = b]
  BY <1>1 DEF Replay, TypeOK
<1>4. eval[a].overall \in Terminal
  BY DEF Replay, Decided
<1> HIDE DEF b
<1>5. QED
  BY <1>1, <1>2, <1>3, <1>4, MappedSettle DEF JobMove, Settled

\* A rejection settles the job and writes no effects.
LEMMA RejectMapped ==
  ASSUME IInv, NEW w \in Workers, Reject(w), NEW j \in Jobs, j = claim[w].job
  PROVE  JobMove(j)
<1> DEFINE a == j[1]
           e == [eval[a] EXCEPT !.language = "failed", !.overall = "failed"]
<1>1. jobs[j].status = "running" /\ a \in Answers
  BY OwnedJob DEF Reject
<1>2. TypeOK /\ eval[a] \in EvalRow
  BY <1>1 DEF IInv, TypeOK
<1>3. e.applied = eval[a].applied /\ e.overall \in Terminal
  BY <1>2 DEF EvalRow, Terminal
<1>4. eval' = [eval EXCEPT ![a] = e]
  BY <1>1, <1>2 DEF Reject, TypeOK
<1>5. PICK b \in JobRow : /\ jobs' = [jobs EXCEPT ![j] = b]
                          /\ b.status = "failed" /\ b.attempts = jobs[j].attempts
  BY <1>1, CloseJobEffect DEF Reject
<1> HIDE DEF e
<1>6. QED
  BY <1>1, <1>2, <1>3, <1>4, <1>5, MappedSettle DEF JobMove, Settled

\* A worker leases, returns or settles a job, or the asker sees nothing.
LEMMA WorkMapped ==
  ASSUME IInv, NEW w \in Workers, Work(w)
  PROVE  (\E j \in Jobs : JobMove(j)) \/ UNCHANGED Promised!vars
<1> DEFINE j == claim[w].job
<1>1. CASE \E k \in Jobs : Claim(w, k)
  BY <1>1, ClaimMapped
<1>2. CASE Complete(w)
  <2>1. j \in Jobs /\ jobs[j].status = "running"
    BY <1>2, OwnedJob DEF Complete
  <2>2. CASE Replay(j)
    BY <2>1, <2>2, ReplayMapped
  <2>3. CASE \E must \in BOOLEAN : Apply(j, must)
    BY <2>1, <2>3, ApplyMapped
  <2>4. QED
    BY <1>2, <2>2, <2>3 DEF Complete
<1>3. CASE Fail(w)
  <2>1. j \in Jobs /\ jobs[j].status = "running" /\ GiveUp(j)
    BY <1>3, OwnedJob DEF Fail
  <2>2. QED
    BY <2>1, GiveUpMapped
<1>4. CASE Reject(w)
  <2>1. j \in Jobs
    BY <1>4, OwnedJob DEF Reject
  <2>2. PICK k \in Jobs : k = j
    BY <2>1
  <2>3. JobMove(k)
    BY <1>4, <2>2, RejectMapped
  <2>4. QED
    BY <2>3
<1>5. CASE Abandon(w)
  BY <1>5, MappedStutter DEF Abandon, rows
<1>6. QED
  BY <1>1, <1>2, <1>3, <1>4, <1>5 DEF Work

-----------------------------------------------------------------------------
(* Submissions and recoveries *)

\* A submission asks for a new answer.
LEMMA SubmitMapped ==
  ASSUME IInv, NEW h \in Handlers, NEW u \in Units, Submit(h, u)
  PROVE  \E a \in Answers, g \in 1..MaxGen : Promised!Ask(a, g)
<1> DEFINE a == <<u, versions[u] + 1>>
<1>1. versions[u] \in Nat /\ versions[u] + 1 \in 1..MaxVersions /\ 1 \in 1..MaxGen
  BY Numbers DEF Submit, IInv, TypeOK, Vector
<1>2. TypeOK /\ a \in Answers /\ a[1] = u /\ a[2] > versions[u] /\ <<a, 1>> \in Jobs
  BY <1>1, AnswerParts, JobParts DEF IInv
<1>3. eval[a] = NoEval /\ \A k \in Jobs : k[1] = a => jobs[k].status = "none"
  BY <1>2 DEF IInv, RowInv, Unborn
<1>4. /\ NoEval.overall = "none" /\ NoEval.applied = 0
      /\ NewEval.overall = "partial" /\ NewEval.applied = 0
  BY NullTypes DEF NewEval, NoEval
<1>5. /\ eval' = [eval EXCEPT ![a] = NewEval]
      /\ jobs' = [jobs EXCEPT ![<<a, 1>>] = NewJob]
  BY DEF Submit
<1>6. /\ jobs[<<a, 1>>].status = "none"
      /\ \A k \in Jobs : k[1] = a => jobs[k].status \notin Active
  BY <1>2, <1>3, JobParts DEF Active
<1> HIDE DEF a
<1>7. Promised!Ask(a, 1)
  BY <1>1, <1>2, <1>3, <1>4, <1>5, <1>6, MappedAsk
<1>8. QED
  BY <1>1, <1>2, <1>7

\* A recovery asks for another job of a decided answer without active job.
LEMMA RecoverMapped ==
  ASSUME IInv, NEW j \in Jobs, Recover(j)
  PROVE  \E a \in Answers, g \in 1..MaxGen : Promised!Ask(a, g)
<1> DEFINE a == j[1]
           g == j[2] + 1
           e == [eval[a] EXCEPT !.language = IF @ = "failed" THEN "queued" ELSE @]
<1>1. /\ TypeOK /\ <<a, g>> \in Jobs /\ g \in 1..MaxGen /\ a \in Answers
      /\ eval[a] \in EvalRow /\ j[2] \in Nat /\ a[1] \in Units
      /\ jobs[j].status = "failed" /\ jobs[<<a, g>>].status = "none"
  BY JobParts, AnswerParts, Numbers DEF Recover, Recoverable, Exists, IInv, TypeOK
<1>2. e.overall = eval[a].overall /\ e.applied = eval[a].applied
  BY <1>1 DEF EvalRow
<1>3. eval' = [eval EXCEPT ![a] = e] /\ jobs' = [jobs EXCEPT ![<<a, g>>] = NewJob]
  BY <1>1 DEF Recover, TypeOK
<1>4. ASSUME NEW k \in Jobs, k[1] = a
      PROVE  jobs[k].status \notin Active
  <2>1. k = <<a, k[2]>> /\ k[2] \in Nat /\ <<a, g>>[1] = a /\ <<a, g>>[2] = g
    BY <1>4, JobParts, Numbers
  <2>2. CASE k[2] < j[2]
    BY <1>1, <1>4, <2>2 DEF IInv, RowInv, Generations, Exists, Active, Settled
  <2>3. CASE k[2] = j[2]
    BY <1>1, <2>1, <2>3, JobParts DEF Active
  <2>4. CASE k[2] = g
    BY <1>1, <2>1, <2>4 DEF Active
  <2>5. CASE k[2] > g
    BY <1>1, <1>4, <2>1, <2>5 DEF IInv, RowInv, Generations, Exists, Active, Settled
  <2>6. QED
    BY <1>1, <2>1, <2>2, <2>3, <2>4, <2>5
<1>5. eval[a].overall \in Terminal
  <2>1. ~(a[2] > versions[a[1]])
    BY <1>1 DEF IInv, RowInv, Unborn
  <2>2. a[2] <= versions[a[1]]
    BY <1>1, <2>1, AnswerParts, Numbers DEF TypeOK, Vector
  <2>3. CASE a = Latest(a[1]) /\ unit[a[1]] = "evaluation_pending"
    BY <1>1, <1>4, <2>3 DEF IInv, RowInv, Served
  <2>4. QED
    BY <1>1, <2>2, <2>3, SubmittedAnswer
<1> HIDE DEF a, g, e
<1>6. Promised!Ask(a, g)
  BY <1>1, <1>2, <1>3, <1>4, <1>5, MappedAsk
<1>7. QED
  BY <1>1, <1>6

-----------------------------------------------------------------------------
(* The refinement *)

\* A new session asked for nothing.
LEMMA MappedInit == Init => Promised!Init
<1> SUFFICES ASSUME Init PROVE Promised!Init
  OBVIOUS
<1>1. /\ \A a \in Answers : eval[a] = NoEval
      /\ \A j \in Jobs : jobs[j] = Missing
      /\ NoEval.overall = "none" /\ NoEval.applied = 0
      /\ Missing.status = "none" /\ Missing.attempts = 0
  BY DEF Init, NoEval, Missing
<1>2. /\ [a \in Answers |-> Verdict(a)] = [a \in Answers |-> "none"]
      /\ [a \in Answers |-> eval[a].applied] = [a \in Answers |-> 0]
  BY <1>1 DEF Verdict
<1>3. /\ [j \in Jobs |-> jobs[j].status] = [j \in Jobs |-> "none"]
      /\ [j \in Jobs |-> jobs[j].attempts] = [j \in Jobs |-> 0]
  BY <1>1
<1>4. QED
  BY <1>2, <1>3, SameJobs DEF Promised!Init

\* Every step asks, leases, returns or settles, or the asker sees nothing.
LEMMA MappedNext ==
  IInv /\ [Next]_vars => [Promised!Next]_Promised!vars
<1> SUFFICES ASSUME IInv, [Next]_vars
             PROVE  Promised!Next \/ UNCHANGED Promised!vars
  OBVIOUS
<1>1. ASSUME \E j \in Jobs : JobMove(j)
      PROVE  Promised!Next
  BY <1>1, SameJobs DEF JobMove, Promised!Next
<1>2. ASSUME \E a \in Answers, g \in 1..MaxGen : Promised!Ask(a, g)
      PROVE  Promised!Next
  BY <1>2 DEF Promised!Next
<1>3. CASE Learner
  <2>1. CASE \E h \in Handlers, u \in Units : Submit(h, u)
    BY <1>2, <2>1, SubmitMapped
  <2>2. CASE \E h \in Handlers :
               ReadVersion(h) \/ InsertCheck(h) \/ Finalize(h) \/ RefreshFails(h)
    BY <2>2, MappedStutter DEF ReadVersion, InsertCheck, Finalize, RefreshFails, rows
  <2>3. CASE \E u \in Units : Reopen(u)
    BY <2>3, MappedStutter DEF Reopen
  <2>4. QED
    BY <1>3, <2>1, <2>2, <2>3 DEF Learner
<1>4. CASE \E w \in Workers : Work(w)
  BY <1>1, <1>4, WorkMapped
<1>5. CASE \E j \in Jobs : Sweep(j)
  <2>1. \E j \in Jobs : jobs[j].status = "running" /\ GiveUp(j)
    BY <1>5 DEF Sweep
  <2>2. QED
    BY <1>1, <2>1, GiveUpMapped
<1>6. CASE \E j \in Jobs : Recover(j)
  BY <1>2, <1>6, RecoverMapped
<1>7. CASE \E a \in Corruptible : Damage(a)
  BY <1>7, MappedStutter DEF Damage, rows
<1>8. CASE UNCHANGED vars
  BY <1>8, MappedStutter DEF vars, rows
<1>9. QED
  BY <1>3, <1>4, <1>5, <1>6, <1>7, <1>8 DEF Next

\* Tokens, late calls, lost replies, expired leases, rejections, replays and
\* recoveries are invisible to whoever asked for the evaluation: the jobs of
\* a session are a table of leased jobs (ewp_claim_evaluation_job to
\* ewp_recover_evaluation).
THEOREM JobsAreLeasedJobs == Spec => ImplementsLeasedJobs
<1>1. QED
  BY MappedInit, MappedNext, Inductive, PTL
  DEF Spec, ImplementsLeasedJobs, Promised!Spec
=============================================================================
