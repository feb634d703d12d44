------------------------ MODULE WritingSessionProofs ------------------------
(***************************************************************************)
(* What the learner is shown: the session status, the completed session    *)
(* and the language stage; and the fence between the workers. Proved for   *)
(* any number of units, workers and requests, on top of the invariant of   *)
(* WritingEvaluationProofs.                                                *)
(***************************************************************************)
EXTENDS WritingEvaluationProofs

(* The steps, sorted by what they do to the session *)

\* A step leaves versions, units and session alone, or rolls the units up.
LEMMA RollsUp ==
  ASSUME [Next]_vars
  PROVE  UNCHANGED <<versions, unit, session>> \/ Rollup
<1>1. ASSUME NEW j \in Jobs, GiveUp(j)
      PROVE  UNCHANGED <<versions, unit, session>> \/ Rollup
  BY <1>1 DEF GiveUp, Terminalize, Requeue
<1>2. ASSUME NEW w \in Workers, Work(w)
      PROVE  UNCHANGED <<versions, unit, session>> \/ Rollup
  <2>1. CASE \E j \in Jobs : Claim(w, j)
    BY <2>1 DEF Claim
  <2>2. CASE Complete(w)
    BY <2>2 DEF Complete, Replay, Apply, MoveUnit
  <2>3. CASE Fail(w)
    BY <2>3 DEF Fail, GiveUp, Terminalize, Requeue
  <2>4. CASE Reject(w) \/ Abandon(w)
    BY <2>4 DEF Reject, Abandon, rows
  <2>5. QED
    BY <1>2, <2>1, <2>2, <2>3, <2>4 DEF Work
<1>3. CASE Learner
  BY <1>3 DEF Learner, Submit, ReadVersion, InsertCheck, Finalize, RefreshFails,
              Reopen, rows
<1>4. CASE \E j \in Jobs : Sweep(j) \/ Recover(j)
  BY <1>1, <1>4 DEF Sweep, Recover
<1>5. CASE (\E a \in Corruptible : Damage(a)) \/ UNCHANGED vars
  BY <1>5 DEF Damage, rows, vars
<1>6. QED
  BY <1>2, <1>3, <1>4, <1>5 DEF Next

\* After a rollup the status is what the units call for.
LEMMA RollupShows ==
  ASSUME Rollup
  PROVE  SessionNeverLags'
<1>1. session'.status = SessionStatus'
  BY DEF Rollup
<1>2. (\E u \in Units : unit'[u] = "evaluation_pending") => Pending'
  BY DEF Pending
<1>3. QED
  BY <1>1, <1>2 DEF SessionNeverLags, SessionStatus

\* While no unit moves, the status stays right: what can change is which
\* failed answers may be recovered, and the status names none of them.
LEMMA StatusStays ==
  ASSUME SessionNeverLags, UNCHANGED <<unit, session>>
  PROVE  SessionNeverLags'
<1>1. (Drafting' <=> Drafting) /\ (Failed' <=> Failed) /\ (Rewriting' <=> Rewriting)
  BY DEF Drafting, Failed, Rewriting
<1>2. ~Pending' /\ ~Failed' => ~Pending
  BY DEF Pending, Failed
<1>3. QED
  BY <1>1, <1>2 DEF SessionNeverLags

\* The session status never lags behind a committed unit transition, however
\* many requests, workers and sweeps move the units ("Session status can never
\* lag this committed unit transition", 207:425; ewp_apply_session_rollup).
THEOREM StatusNeverLags == Spec => []SessionNeverLags
<1>1. Init => SessionNeverLags
  BY Numbers DEF Init, SessionNeverLags, Drafting, Units
<1>2. SessionNeverLags /\ [Next]_vars => SessionNeverLags'
  BY RollsUp, RollupShows, StatusStays
<1>3. QED
  BY <1>1, <1>2, PTL DEF Spec

-----------------------------------------------------------------------------
(* The fence *)

\* A claim names an existing job with one of its attempts as its token, and no
\* two claims of a job were given the same attempt.
Tokens ==
  \A w \in Workers : claim[w] # NoClaim =>
    /\ Exists(claim[w].job)
    /\ claim[w].token <= jobs[claim[w].job].attempts
    /\ \A v \in Workers \ {w} :
         claim[v] # NoClaim /\ claim[v].job = claim[w].job =>
           claim[v].token # claim[w].token

\* Jobs are never deleted and attempts are never given back.
JobsGrow ==
  \A j \in Jobs : Exists(j) =>
    jobs'[j].status # "none" /\ jobs[j].attempts <= jobs'[j].attempts

\* Writing one job that does not exist, or in place, is growth.
LEMMA OneJob ==
  ASSUME IInv, NEW j \in Jobs, NEW b, jobs' = [jobs EXCEPT ![j] = b],
         Exists(j) => b.status # "none" /\ jobs[j].attempts <= b.attempts
  PROVE  JobsGrow /\ \A k \in Jobs \ {j} : jobs'[k] = jobs[k]
<1>1. \A k \in Jobs : jobs[k].attempts \in Nat
  BY Numbers DEF IInv, TypeOK, JobRow
<1>2. jobs'[j] = b /\ \A k \in Jobs \ {j} : jobs'[k] = jobs[k]
  BY DEF IInv, TypeOK
<1>3. QED
  BY <1>1, <1>2 DEF JobsGrow, Exists

\* Closing a job keeps its attempts.
LEMMA CloseGrows ==
  ASSUME IInv, NEW j \in Jobs, NEW st \in {"pending", "done", "failed"}, CloseJob(j, st)
  PROVE  JobsGrow /\ \A k \in Jobs \ {j} : jobs'[k] = jobs[k]
<1>0. PICK b \in JobRow : /\ jobs' = [jobs EXCEPT ![j] = b]
                          /\ b.status = st /\ b.attempts = jobs[j].attempts
  BY CloseJobEffect
<1>1. jobs' = [jobs EXCEPT ![j] = b] /\ b.status # "none" /\ b.attempts = jobs[j].attempts
  BY <1>0
<1>2. jobs[j].attempts \in Nat
  BY Numbers DEF IInv, TypeOK, JobRow
<1>3. Exists(j) => b.status # "none" /\ jobs[j].attempts <= b.attempts
  BY <1>1, <1>2
<1>4. QED
  BY <1>1, <1>3, OneJob

\* Giving up closes a job.
LEMMA GiveUpGrows ==
  ASSUME IInv, NEW j \in Jobs, GiveUp(j)
  PROVE  JobsGrow /\ \A k \in Jobs \ {j} : jobs'[k] = jobs[k]
BY CloseGrows DEF GiveUp, Terminalize, Requeue

\* A call at the end of a claim writes only the job the caller owns.
LEMMA EndOfClaim ==
  ASSUME IInv, NEW w \in Workers, Complete(w) \/ Fail(w) \/ Reject(w)
  PROVE  /\ Owns(w) /\ claim[w].job \in Jobs
         /\ JobsGrow /\ \A k \in Jobs \ {claim[w].job} : jobs'[k] = jobs[k]
         /\ Forget(w) \/ UNCHANGED claim
<1> DEFINE j == claim[w].job
<1>1. /\ Owns(w) /\ j \in Jobs /\ jobs[j] \in JobRow /\ jobs[j].status = "running"
      /\ Forget(w) \/ UNCHANGED claim
  BY OwnedJob DEF Complete, Fail, Reject, IInv, TypeOK
<1>2. CASE Complete(w)
  <2>1. CASE Replay(j)
    <3> DEFINE b == [jobs[j] EXCEPT !.status = "done"]
    <3>1. b.status = "done" /\ b.attempts = jobs[j].attempts /\ jobs[j].attempts \in Nat
      BY <1>1, Numbers DEF JobRow
    <3>2. jobs' = [jobs EXCEPT ![j] = b]
      BY <1>1, <2>1 DEF Replay, IInv, TypeOK
    <3>3. JobsGrow /\ \A k \in Jobs \ {j} : jobs'[k] = jobs[k]
      <4>1. Exists(j) => b.status # "none" /\ jobs[j].attempts <= b.attempts
        BY <3>1
      <4>2. QED
        BY <1>1, <3>2, <4>1, OneJob
    <3>4. QED
      BY <1>1, <3>3
  <2>2. CASE \E must \in BOOLEAN : Apply(j, must)
    BY <1>1, <2>2, CloseGrows DEF Apply
  <2>3. QED
    BY <1>2, <2>1, <2>2 DEF Complete
<1>3. CASE Fail(w)
  BY <1>1, <1>3, GiveUpGrows DEF Fail
<1>4. CASE Reject(w)
  BY <1>1, <1>4, CloseGrows DEF Reject
<1>5. QED
  BY <1>2, <1>3, <1>4

\* A claim draws an attempt nobody has drawn before.
LEMMA ClaimGrows ==
  ASSUME IInv, NEW w \in Workers, NEW j \in Jobs, Claim(w, j)
  PROVE  /\ JobsGrow /\ jobs'[j].attempts = jobs[j].attempts + 1
         /\ claim'[w].job = j /\ claim'[w].token = jobs[j].attempts + 1
         /\ \A v \in Workers \ {w} : claim'[v] = claim[v]
<1> DEFINE n == jobs[j].attempts + 1
           b == [status |-> "running", attempts |-> n, token |-> n]
<1>1. jobs[j].attempts \in Nat
  BY Numbers DEF IInv, TypeOK, JobRow
<1>2. jobs' = [jobs EXCEPT ![j] = b]
  BY DEF Claim
<1>3. Exists(j) => b.status # "none" /\ jobs[j].attempts <= b.attempts
  BY <1>1
<1>4. JobsGrow
  BY <1>2, <1>3, OneJob
<1>5. QED
  BY <1>2, <1>4 DEF Claim, IInv, TypeOK

\* A step other than a claim keeps every claim or forgets it.
LEMMA OtherSteps ==
  ASSUME IInv, [Next]_vars, ~\E w \in Workers, j \in Jobs : Claim(w, j)
  PROVE  /\ JobsGrow
         /\ \A w \in Workers : claim'[w] = claim[w] \/ claim'[w] = NoClaim
<1>1. \A j \in Jobs : jobs[j].attempts \in Nat
  BY Numbers DEF IInv, TypeOK, JobRow
<1>2. UNCHANGED jobs => JobsGrow
  BY <1>1 DEF JobsGrow, Exists
<1>3. ASSUME NEW w \in Workers, Forget(w) \/ UNCHANGED claim
      PROVE  \A v \in Workers : claim'[v] = claim[v] \/ claim'[v] = NoClaim
  BY <1>3 DEF Forget, IInv, TypeOK
<1>4. ASSUME NEW h \in Handlers, NEW u \in Units, Submit(h, u)
      PROVE  JobsGrow /\ UNCHANGED claim
  <2> DEFINE a == <<u, versions[u] + 1>>
  <2>1. versions[u] \in Nat /\ versions[u] + 1 \in 1..MaxVersions
    BY <1>4, Numbers DEF Submit, IInv, TypeOK, Vector
  <2>2. a \in Answers /\ a[2] > versions[a[1]] /\ <<a, 1>> \in Jobs /\ <<a, 1>>[1] = a
    BY <2>1, AnswerParts, JobParts, Numbers
  <2>3. ~Exists(<<a, 1>>)
    BY <2>2 DEF IInv, RowInv, Unborn, Exists
  <2>4. QED
    BY <1>4, <2>2, <2>3, OneJob DEF Submit
<1>5. ASSUME NEW h \in Handlers,
             ReadVersion(h) \/ InsertCheck(h) \/ Finalize(h) \/ RefreshFails(h)
      PROVE  UNCHANGED <<jobs, claim>>
  BY <1>5 DEF ReadVersion, InsertCheck, Finalize, RefreshFails, rows
<1>6. ASSUME NEW u \in Units, Reopen(u)
      PROVE  UNCHANGED <<jobs, claim>>
  BY <1>6 DEF Reopen
<1>7. CASE \E w \in Workers : Work(w)
  <2>1. PICK w \in Workers : Complete(w) \/ Fail(w) \/ Reject(w) \/ Abandon(w)
    BY <1>7 DEF Work
  <2>2. CASE Abandon(w)
    BY <1>2, <1>3, <2>2 DEF Abandon, rows
  <2>3. QED
    BY <1>3, <2>1, <2>2, EndOfClaim
<1>8. ASSUME NEW j \in Jobs, Sweep(j)
      PROVE  JobsGrow /\ UNCHANGED claim
  BY <1>8, GiveUpGrows DEF Sweep
<1>9. ASSUME NEW j \in Jobs, Recover(j)
      PROVE  JobsGrow /\ UNCHANGED claim
  BY <1>9, OneJob DEF Recover, Recoverable
<1>10. CASE (\E a \in Corruptible : Damage(a)) \/ UNCHANGED vars
  BY <1>2, <1>10 DEF Damage, rows, vars
<1>11. QED
  BY <1>2, <1>4, <1>5, <1>6, <1>7, <1>8, <1>9, <1>10 DEF Next, Learner

\* Every step keeps the tokens apart.
LEMMA TokensNext ==
  ASSUME IInv, Tokens, [Next]_vars
  PROVE  Tokens'
<1>1. /\ \A j \in Jobs : jobs[j].attempts \in Nat /\ jobs'[j].attempts \in Nat
      /\ \A w \in Workers : /\ claim[w].token \in Nat
                            /\ claim[w] # NoClaim => claim[w].job \in Jobs
  BY Numbers, IInvNext DEF IInv, TypeOK, JobRow, Claims
<1>2. ASSUME NEW w \in Workers, NEW j \in Jobs, Claim(w, j)
      PROVE  Tokens'
  <2>1. /\ JobsGrow /\ jobs'[j].attempts = jobs[j].attempts + 1
        /\ claim'[w].job = j /\ claim'[w].token = jobs[j].attempts + 1
        /\ \A v \in Workers \ {w} : claim'[v] = claim[v]
        /\ Exists(j)
    BY <1>2, ClaimGrows DEF Claim, Exists
  <2>2. ASSUME NEW v \in Workers \ {w}, claim[v] # NoClaim
        PROVE  /\ jobs'[claim[v].job].status # "none"
               /\ claim[v].token <= jobs'[claim[v].job].attempts
               /\ claim[v].job = j => claim[v].token # jobs[j].attempts + 1
    <3>1. /\ Exists(claim[v].job) /\ claim[v].job \in Jobs
          /\ claim[v].token <= jobs[claim[v].job].attempts
      BY <1>1, <2>2 DEF Tokens
    <3>2. /\ jobs'[claim[v].job].status # "none"
          /\ jobs[claim[v].job].attempts <= jobs'[claim[v].job].attempts
      BY <2>1, <3>1 DEF JobsGrow
    <3>3. QED
      BY <1>1, <3>1, <3>2
  <2>3. jobs'[j].status # "none"
    BY <2>1 DEF JobsGrow
  <2>4. SUFFICES ASSUME NEW x \in Workers, claim'[x] # NoClaim
                 PROVE  /\ jobs'[claim'[x].job].status # "none"
                        /\ claim'[x].token <= jobs'[claim'[x].job].attempts
                        /\ \A v \in Workers \ {x} :
                             claim'[v] # NoClaim /\ claim'[v].job = claim'[x].job =>
                               claim'[v].token # claim'[x].token
    BY DEF Tokens, Exists
  <2>5. CASE x = w
    BY <1>1, <2>1, <2>2, <2>3, <2>5
  <2>6. CASE x # w
    <3>1. claim'[x] = claim[x] /\ claim[x] # NoClaim
      BY <2>1, <2>4, <2>6
    <3>2. \A v \in Workers \ {x, w} :
            claim[v] # NoClaim /\ claim[v].job = claim[x].job =>
              claim[v].token # claim[x].token
      BY <3>1 DEF Tokens
    <3>3. QED
      BY <2>1, <2>2, <2>6, <3>1, <3>2
  <2>7. QED
    BY <2>5, <2>6
<1>3. CASE ~\E w \in Workers, j \in Jobs : Claim(w, j)
  <2>1. /\ JobsGrow
        /\ \A w \in Workers : claim'[w] = claim[w] \/ claim'[w] = NoClaim
    BY <1>3, OtherSteps
  <2>2. QED
    BY <1>1, <2>1 DEF Tokens, JobsGrow, Exists
<1>4. QED
  BY <1>2, <1>3

\* The end of a claim leaves the leases of the others alone.
KeepsLeases ==
  \A w \in Workers :
    claim[w] # NoClaim /\ claim'[w] = NoClaim =>
      \A v \in Workers \ {w} : HoldsLease(v) => HoldsLease(v)'

LEMMA LeasesKept ==
  ASSUME IInv, Tokens, [Next]_vars
  PROVE  KeepsLeases
<1> SUFFICES ASSUME NEW w \in Workers, claim[w] # NoClaim, claim'[w] = NoClaim,
                    NEW v \in Workers \ {w}, HoldsLease(v)
             PROVE  HoldsLease(v)'
  BY DEF KeepsLeases
<1>1. Work(w)
  <2>1. \E x \in Workers : Work(x)
    BY DEF Next, Learner, Submit, ReadVersion, InsertCheck, Finalize, RefreshFails,
           Reopen, Sweep, Recover, Damage, vars, rows
  <2>2. ASSUME NEW x \in Workers, Work(x), x # w
        PROVE  FALSE
    <3>1. claim'[w] = claim[w]
      BY <2>2 DEF Work, Claim, Complete, Fail, Reject, Abandon, Forget, IInv, TypeOK
    <3>2. QED
      BY <3>1
  <2>3. QED
    BY <2>1, <2>2
<1>2. claim[v] # NoClaim /\ claim[v].job \in Jobs
  BY DEF HoldsLease, IInv, Claims
<1>3. ASSUME Complete(w) \/ Fail(w) \/ Reject(w)
      PROVE  HoldsLease(v)'
  <2>1. /\ Owns(w) /\ Forget(w)
        /\ \A k \in Jobs \ {claim[w].job} : jobs'[k] = jobs[k]
    BY <1>3, EndOfClaim
  <2>2. claim[v].job # claim[w].job
    BY <1>2, <2>1 DEF Owns, Fenced, HoldsLease, Tokens
  <2>3. claim'[v] = claim[v]
    BY <2>1 DEF Forget, IInv, TypeOK
  <2>4. QED
    BY <1>2, <2>1, <2>2, <2>3 DEF HoldsLease
<1>4. CASE Abandon(w)
  BY <1>4 DEF Abandon, Forget, rows, HoldsLease, IInv, TypeOK
<1>5. QED
  BY <1>1, <1>3, <1>4 DEF Work, Claim

\* What a worker does at the end of its claim, late or not, never takes the job
\* of another worker whose lease runs, for any number of workers, attempts and
\* generations (claim, complete, fail, reject, sweep, recover).
THEOREM LateCallsHarmless == Spec => LateCallsChangeNothing
<1>1. Init => Tokens
  BY DEF Init, Tokens
<1>2. IInv /\ Tokens /\ [Next]_vars => Tokens' /\ [KeepsLeases]_vars
  BY TokensNext, LeasesKept
<1>3. Spec => [][KeepsLeases]_vars
  BY <1>1, <1>2, Inductive, PTL DEF Spec
<1>4. QED
  BY <1>3 DEF LateCallsChangeNothing, KeepsLeases

-----------------------------------------------------------------------------
(* The completed session *)

\* The newest check says what the versions it read say.
CoverageTrue == coverage.passed => Passes(coverage.seen)

\* A ready unit has an answer.
ReadyBorn == \A u \in Units : unit[u] = "ready" => versions[u] > 0

\* The blocking issue of a decided answer stays what it is.
KeepsMust ==
  \A a \in Answers : eval[a].overall \in Terminal => eval'[a].must = eval[a].must

\* A unit becomes ready by a verdict on an answer it has.
LEMMA ReadyNext ==
  ASSUME IInv, ReadyBorn, [Next]_vars
  PROVE  ReadyBorn'
<1>1. ASSUME UNCHANGED <<versions, unit>>
      PROVE  ReadyBorn'
  BY <1>1 DEF ReadyBorn
<1>2. ASSUME UNCHANGED versions, NEW j \in Jobs, NEW st, MoveUnit(j[1], st)
      PROVE  ReadyBorn'
  BY <1>2, JobParts, AnswerParts
  DEF MoveUnit, ReadyBorn, IInv, TypeOK, RowInv, Served
<1>3. ASSUME NEW j \in Jobs, GiveUp(j)
      PROVE  ReadyBorn'
  BY <1>1, <1>2, <1>3 DEF GiveUp, Terminalize, Requeue
<1>4. ASSUME NEW w \in Workers, Work(w)
      PROVE  ReadyBorn'
  <2>1. CASE (\E j \in Jobs : Claim(w, j)) \/ Abandon(w)
    BY <1>1, <2>1 DEF Claim, Abandon, rows
  <2>2. CASE Complete(w)
    <3>1. claim[w].job \in Jobs
      BY <2>2, OwnedJob DEF Complete
    <3>2. QED
      BY <1>1, <1>2, <2>2, <3>1 DEF Complete, Replay, Apply
  <2>3. CASE Fail(w)
    <3>1. claim[w].job \in Jobs
      BY <2>3, OwnedJob DEF Fail
    <3>2. QED
      BY <1>3, <2>3, <3>1 DEF Fail
  <2>4. CASE Reject(w)
    <3>1. claim[w].job \in Jobs
      BY <2>4, OwnedJob DEF Reject
    <3>2. QED
      BY <1>2, <2>4, <3>1 DEF Reject
  <2>5. QED
    BY <1>4, <2>1, <2>2, <2>3, <2>4 DEF Work
<1>5. ASSUME NEW h \in Handlers, NEW u \in Units, Submit(h, u)
      PROVE  ReadyBorn'
  <2>1. /\ unit' = [unit EXCEPT ![u] = "evaluation_pending"]
        /\ versions' = [versions EXCEPT ![u] = versions[u] + 1]
    BY <1>5 DEF Submit
  <2>2. QED
    BY <2>1 DEF ReadyBorn, IInv, TypeOK, Vector
<1>6. ASSUME NEW u \in Units, Reopen(u)
      PROVE  ReadyBorn'
  BY <1>6 DEF Reopen, ReadyBorn, IInv, TypeOK
<1>7. ASSUME NEW h \in Handlers,
             ReadVersion(h) \/ InsertCheck(h) \/ Finalize(h) \/ RefreshFails(h)
      PROVE  ReadyBorn'
  BY <1>1, <1>7 DEF ReadVersion, InsertCheck, Finalize, RefreshFails, rows
<1>8. CASE \E j \in Jobs : Sweep(j) \/ Recover(j)
  BY <1>1, <1>3, <1>8 DEF Sweep, Recover
<1>9. CASE (\E a \in Corruptible : Damage(a)) \/ UNCHANGED vars
  BY <1>1, <1>9 DEF Damage, rows, vars
<1>10. QED
  BY <1>4, <1>5, <1>6, <1>7, <1>8, <1>9 DEF Next, Learner

\* Only the insert of a check writes the newest check.
LEMMA CoverageNext ==
  ASSUME CoverageTrue, [Next]_vars
  PROVE  CoverageTrue'
<1>1. CASE UNCHANGED coverage
  BY <1>1 DEF CoverageTrue, Passes
<1>2. ASSUME NEW h \in Handlers, InsertCheck(h)
      PROVE  CoverageTrue'
  BY <1>2 DEF InsertCheck, CoverageTrue, Passes
<1>3. QED
  BY <1>1, <1>2
  DEF Next, Learner, Submit, ReadVersion, Finalize, RefreshFails, Reopen, Work, Claim,
      Complete, Fail, Reject, Abandon, Sweep, Recover, Damage, vars, rows

\* The verdict that raises a blocking issue is the first one.
LEMMA MustNext ==
  ASSUME IInv, [Next]_vars
  PROVE  KeepsMust
<1> USE DEF IInv, TypeOK, EvalRow, KeepsMust
<1>1. ASSUME NEW j \in Jobs, GiveUp(j)
      PROVE  KeepsMust
  BY <1>1 DEF GiveUp, Terminalize, Requeue
<1>2. ASSUME NEW w \in Workers, Work(w)
      PROVE  KeepsMust
  <2>1. ASSUME NEW j \in Jobs, Claim(w, j)
        PROVE  KeepsMust
    BY <2>1 DEF Claim, StartLanguage
  <2>2. CASE Complete(w)
    <3>1. \/ UNCHANGED eval
          \/ \E a \in Answers : ~Decided(a) /\ \E e : eval' = [eval EXCEPT ![a] = e]
      BY <2>2, OwnedJob DEF Complete, Replay, Apply
    <3>2. QED
      BY <3>1 DEF Decided
  <2>3. CASE Fail(w)
    <3>1. claim[w].job \in Jobs
      BY <2>3, OwnedJob DEF Fail
    <3>2. QED
      BY <1>1, <2>3, <3>1 DEF Fail
  <2>4. CASE Reject(w) \/ Abandon(w)
    BY <2>4 DEF Reject, Abandon, rows
  <2>5. QED
    BY <1>2, <2>1, <2>2, <2>3, <2>4 DEF Work
<1>3. ASSUME NEW h \in Handlers, NEW u \in Units, Submit(h, u)
      PROVE  KeepsMust
  <2>1. versions[u] \in Nat /\ versions[u] + 1 \in 1..MaxVersions
    BY <1>3, Numbers DEF Submit, Vector
  <2>2. eval[<<u, versions[u] + 1>>].overall \notin Terminal
    BY <2>1, AnswerParts DEF RowInv, Unborn, NoEval, Terminal
  <2>3. QED
    BY <1>3, <2>2 DEF Submit
<1>4. CASE \E j \in Jobs : Sweep(j) \/ Recover(j)
  BY <1>1, <1>4 DEF Sweep, Recover
<1>5. CASE UNCHANGED eval
  BY <1>5
<1>6. QED
  BY <1>2, <1>3, <1>4, <1>5
  DEF Next, Learner, ReadVersion, InsertCheck, Finalize, RefreshFails, Reopen, Damage,
      vars, rows

\* A rollup that completes the session has found every promise kept.
LEMMA RollupDone ==
  ASSUME TypeOK, IInv', LossInv', LossesStand', CoverageTrue', ReadyBorn', Rollup
  PROVE  CompletedMeansDone'
<1> SUFFICES ASSUME session'.status = "completed"
             PROVE  /\ \A u \in Units :
                         /\ unit'[u] = "ready"
                         /\ eval'[Latest(u)'].overall \in {"completed", "terminal_partial"}
                         /\ ~eval'[Latest(u)'].must
                    /\ Passes(versions')
                    /\ session'.outcome \in {"deterministic_only", "fully_evaluated"}
  BY DEF CompletedMeansDone, Passes
<1>1. SessionStatus' = "completed"
  BY DEF Rollup
<1>2. ~Drafting' /\ ~Pending' /\ ~Failed' /\ ~Rewriting' /\ CoverageOk' /\ ~MustFix'
  BY <1>1 DEF SessionStatus
<1>3. ASSUME NEW u \in Units
      PROVE  /\ unit'[u] = "ready" /\ versions'[u] > 0
             /\ eval'[Latest(u)'].overall \in {"completed", "terminal_partial"}
             /\ ~eval'[Latest(u)'].must
  <2>1. unit'[u] = "ready"
    BY <1>2 DEF Drafting, Pending, Failed, Rewriting, IInv, TypeOK, UnitStatuses
  <2>2. versions'[u] > 0 /\ versions'[u] \in 1..MaxVersions
    BY <2>1, Numbers DEF ReadyBorn, IInv, TypeOK, Vector
  <2>3. Latest(u)' = <<u, versions'[u]>> /\ Latest(u)' \in Answers
    BY <2>2, AnswerParts DEF Latest
  <2>4. eval'[Latest(u)'].overall \in Terminal
    BY <2>1, <2>2, <2>3 DEF IInv, RowInv, Verdicts
  <2>5. eval'[Latest(u)'].overall \in {"completed", "terminal_partial"}
    <3>1. eval'[Latest(u)'].overall # "failed"
      BY <2>1, <2>3, AnswerParts
      DEF LossInv, FailedDamaged, ReadyFailed, LossesStand, Current, Latest
    <3>2. QED
      BY <2>4, <3>1 DEF Terminal
  <2>6. ~eval'[Latest(u)'].must
    BY <1>2, <2>2 DEF MustFix
  <2>7. QED
    BY <2>1, <2>2, <2>5, <2>6
<1>4. Passes(versions')
  BY <1>2 DEF CoverageOk, CoverageTrue, Passes
<1>5. Aggregate' \in {"deterministic_only", "fully_evaluated"}
  <2>1. \A u \in Units : Overall(u)' \in {"completed", "terminal_partial"}
    BY <1>3 DEF Overall
  <2>2. QED
    BY <2>1 DEF Aggregate, Terminal
<1>6. session'.outcome \in {"deterministic_only", "fully_evaluated"}
  BY <1>5 DEF Rollup, Better, OutcomeRank, TypeOK, Outcomes
<1>7. QED
  BY <1>3, <1>4, <1>6

\* A loss that was recovered stays one.
LEMMA LossesRemain ==
  ASSUME IInv, [Next]_vars, LossesStand'
  PROVE  LossesStand
<1>1. JobsGrow
  BY ClaimGrows, OtherSteps
<1>2. damaged \subseteq damaged'
  BY DEF Next, Learner, Work, Submit, ReadVersion, InsertCheck, Finalize, RefreshFails,
         Reopen, Claim, Complete, Fail, Reject, Abandon, Sweep, Recover, Damage, vars, rows
<1>3. QED
  BY <1>1, <1>2 DEF JobsGrow, LossesStand, Recovered, Exists

\* A completed session stays so until something is rolled up again.
LEMMA DoneStays ==
  ASSUME IInv, OnlyLossRevises, LossesStand, KeepsMust, ReadyBorn, CompletedMeansDone,
         UNCHANGED <<versions, unit, session>>
  PROVE  CompletedMeansDone'
<1>1. ASSUME NEW u \in Units, session.status = "completed"
      PROVE  /\ unit'[u] = "ready"
             /\ eval'[Latest(u)'].overall \in {"completed", "terminal_partial"}
             /\ ~eval'[Latest(u)'].must
  <2>1. /\ unit[u] = "ready" /\ eval[Latest(u)].overall \in {"completed", "terminal_partial"}
        /\ ~eval[Latest(u)].must
    BY <1>1 DEF CompletedMeansDone
  <2>2. Latest(u) \in Answers /\ Latest(u)' = Latest(u)
    BY <2>1, LatestAnswer DEF ReadyBorn, IInv, Latest
  <2>3. eval'[Latest(u)].overall = eval[Latest(u)].overall
    BY <2>1, <2>2 DEF OnlyLossRevises, LossesStand, Terminal
  <2>4. QED
    BY <2>1, <2>2, <2>3 DEF KeepsMust, Terminal
<1>2. QED
  BY <1>1 DEF CompletedMeansDone, Passes

\* A completed session is what it says it is, for any number of units, versions,
\* requests and generations, however the unlocked coverage checks interleave,
\* until an operator recovers an answer whose stored text is damaged
\* (ewp_apply_session_rollup, run_coverage_check, ewp_recover_evaluation).
THEOREM CompletedSessionsAreDone == Spec => [](LossesStand => CompletedMeansDone)
<1> DEFINE Done == LossesStand => CompletedMeansDone
           Inv == CoverageTrue /\ ReadyBorn /\ Done
<1>1. Init => Inv
  BY DEF Init, CoverageTrue, ReadyBorn, CompletedMeansDone
<1>2. (IInv /\ LossInv) /\ Inv /\ [Next]_vars /\ (IInv /\ LossInv)' => Inv'
  <2> SUFFICES ASSUME IInv, LossInv, Inv, [Next]_vars, IInv', LossInv' PROVE Inv'
    OBVIOUS
  <2>1. OnlyLossRevises /\ KeepsMust /\ CoverageTrue' /\ ReadyBorn'
    BY LossNext, MustNext, CoverageNext, ReadyNext
  <2>2. ASSUME LossesStand'
        PROVE  CompletedMeansDone'
    <3>1. LossesStand /\ CompletedMeansDone
      BY <2>2, LossesRemain
    <3>2. CASE Rollup
      BY <2>1, <2>2, <3>2, RollupDone DEF IInv
    <3>3. CASE UNCHANGED <<versions, unit, session>>
      BY <2>1, <3>1, <3>3, DoneStays
    <3>4. QED
      BY <3>2, <3>3, RollsUp
  <2>3. QED
    BY <2>1, <2>2
<1>3. QED
  BY <1>1, <1>2, Losses, PTL DEF Spec

\* Where no text is ever damaged, or nobody recovers, a completed session is
\* what it says it is.
THEOREM SafeSessionsAreDone ==
  ASSUME Corruptible = {} \/ MaxGen = 1
  PROVE  Spec => []CompletedMeansDone
BY CompletedSessionsAreDone, LossesNeverRecovered, PTL

-----------------------------------------------------------------------------
(* The language stage *)

\* Until an operator recovers the answer, its language stage is shown as queued
\* or running only while a worker may still end it, for any number of attempts,
\* workers and damaged texts (claim, complete, requeue, terminalise, reject,
\* sweep). A recovered one may be acknowledged by a replay, which leaves it.
THEOREM StageIsHonest == Spec => []LanguageStatusHonest
<1>1. LossInv => LanguageStatusHonest
  BY DEF LossInv, Stages, LanguageStatusHonest, ActiveJobs
<1>2. QED
  BY <1>1, Losses, PTL

-----------------------------------------------------------------------------
(* The outcome of results that were never recovered *)

\* The session shows no less than the verdicts on its newest answers call for.
OutcomeCovers == OutcomeRank[session.outcome] >= OutcomeRank[Aggregate]

\* What is not rolled up touches no verdict on a newest answer.
LEMMA VerdictsRollUp ==
  ASSUME IInv, [Next]_vars
  PROVE  \/ Rollup
         \/ /\ UNCHANGED <<versions, session>>
            /\ \A u \in Units : Overall(u)' = Overall(u)
<1> DEFINE Quiet == /\ UNCHANGED <<versions, session>>
                    /\ \A a \in Answers : Current(a) => eval'[a].overall = eval[a].overall
<1>1. Quiet => \A u \in Units : Overall(u)' = Overall(u)
  <2> SUFFICES ASSUME Quiet, NEW u \in Units, versions[u] # 0
               PROVE  eval'[Latest(u)].overall = eval[Latest(u)].overall
    BY DEF Overall, Latest
  <2>1. versions[u] \in 1..MaxVersions
    BY Numbers DEF IInv, TypeOK, Vector
  <2>2. Latest(u) \in Answers /\ Current(Latest(u))
    BY <2>1, AnswerParts DEF Latest, Current
  <2>3. QED
    BY <2>2
<1>2. ASSUME NEW j \in Jobs, GiveUp(j) PROVE Rollup \/ Quiet
  BY <1>2, JobParts DEF GiveUp, Terminalize, Requeue, IInv, TypeOK, EvalRow
<1>3. ASSUME NEW w \in Workers, Work(w) PROVE Rollup \/ Quiet
  <2>1. ASSUME NEW j \in Jobs, Claim(w, j) PROVE Quiet
    BY <2>1, JobParts DEF Claim, StartLanguage, IInv, TypeOK, EvalRow
  <2>2. CASE Complete(w)
    <3>1. ASSUME NEW j \in Jobs, NEW must \in BOOLEAN, Apply(j, must)
          PROVE  Rollup \/ Quiet
      BY <3>1, JobParts DEF Apply, Current, IInv, TypeOK, EvalRow
    <3>2. claim[w].job \in Jobs
      BY <2>2, EndOfClaim
    <3>3. QED
      BY <2>2, <3>1, <3>2 DEF Complete, Replay
  <2>3. CASE Fail(w)
    BY <1>2, <2>3, EndOfClaim DEF Fail
  <2>4. CASE Reject(w) \/ Abandon(w)
    BY <2>4 DEF Reject, Abandon, rows
  <2>5. QED
    BY <1>3, <2>1, <2>2, <2>3, <2>4 DEF Work
<1>4. ASSUME Learner PROVE Rollup \/ Quiet
  <2>1. Rollup \/ UNCHANGED <<versions, eval, session>>
    BY <1>4 DEF Learner, Submit, ReadVersion, InsertCheck, Finalize, RefreshFails,
                Reopen, rows
  <2>2. QED
    BY <2>1
<1>5. ASSUME NEW j \in Jobs, Sweep(j) \/ Recover(j) PROVE Rollup \/ Quiet
  BY <1>2, <1>5, JobParts DEF Sweep, Recover, IInv, TypeOK, EvalRow
<1>6. ASSUME (\E a \in Corruptible : Damage(a)) \/ UNCHANGED vars PROVE Rollup \/ Quiet
  <2>1. UNCHANGED <<versions, eval, session>>
    BY <1>6 DEF Damage, rows, vars
  <2>2. QED
    BY <2>1
<1>7. Rollup \/ Quiet
  <2> HIDE DEF Quiet
  <2> QED
    BY <1>3, <1>4, <1>5, <1>6 DEF Next
<1>8. QED
  BY <1>1, <1>7

LEMMA CoversNext ==
  ASSUME IInv, IInv', OutcomeCovers, [Next]_vars
  PROVE  OutcomeCovers'
<1>1. \A o \in Outcomes : OutcomeRank[o] \in 0..3
  BY DEF OutcomeRank
<1>2. session.outcome \in Outcomes /\ Aggregate \in Outcomes /\ Aggregate' \in Outcomes
  BY DEF Aggregate, Outcomes, IInv, TypeOK
<1>3. CASE Rollup
  <2>1. session'.outcome = Better(session.outcome, Aggregate')
    BY <1>3 DEF Rollup
  <2>2. QED
    BY <1>1, <1>2, <2>1 DEF Better, OutcomeCovers
<1>4. CASE UNCHANGED <<versions, session>> /\ \A u \in Units : Overall(u)' = Overall(u)
  <2>1. Aggregate' = Aggregate
    BY <1>4 DEF Aggregate
  <2>2. QED
    BY <1>4, <2>1 DEF OutcomeCovers
<1>5. QED
  BY <1>3, <1>4, VerdictsRollUp

\* A job of an answer nobody recovered is done by delivering its result.
Delivered ==
  \A j \in Jobs : jobs[j].status = "done" /\ ~Recovered(j[1]) =>
    eval[j[1]].overall = "completed"

LEMMA NewlyDone ==
  ASSUME IInv, LossInv, [Next]_vars, NEW j \in Jobs,
         jobs'[j].status = "done", jobs[j].status # "done"
  PROVE  eval'[j[1]].overall = "completed" \/ Recovered(j[1])
<1> USE DEF IInv, TypeOK
<1>1. ASSUME NEW k \in Jobs, GiveUp(k) PROVE FALSE
  <2>1. PICK st \in {"pending", "failed"} : CloseJob(k, st)
    BY <1>1 DEF GiveUp, Terminalize, Requeue
  <2>2. PICK b \in JobRow : jobs' = [jobs EXCEPT ![k] = b] /\ b.status = st
    BY <2>1, CloseJobEffect
  <2>3. QED
    BY <2>2
<1>2. ASSUME NEW w \in Workers, Complete(w)
      PROVE  eval'[j[1]].overall = "completed" \/ Recovered(j[1])
  <2>1. j = claim[w].job /\ jobs[j].status = "running"
    BY <1>2, EndOfClaim DEF Owns, Fenced
  <2>2. CASE Replay(j)
    BY <2>1, <2>2, DecidedActive DEF Replay, Decided, Active
  <2>3. ASSUME NEW must \in BOOLEAN, Apply(j, must)
        PROVE  eval'[j[1]].overall = "completed"
    BY <2>3, JobParts DEF Apply
  <2>4. QED
    BY <1>2, <2>1, <2>2, <2>3 DEF Complete
<1>3. ASSUME NEW w \in Workers, Work(w), ~Complete(w) PROVE FALSE
  <2>1. ASSUME NEW k \in Jobs, Claim(w, k) PROVE FALSE
    BY <2>1 DEF Claim
  <2>2. CASE Fail(w)
    BY <1>1, <2>2, EndOfClaim DEF Fail
  <2>3. CASE Reject(w)
    <3>1. claim[w].job \in Jobs /\ CloseJob(claim[w].job, "failed")
      BY <2>3, EndOfClaim DEF Reject
    <3>2. PICK b \in JobRow : /\ jobs' = [jobs EXCEPT ![claim[w].job] = b]
                              /\ b.status = "failed"
      BY <3>1, CloseJobEffect
    <3>3. QED
      BY <3>2
  <2>4. CASE Abandon(w)
    BY <2>4 DEF Abandon, rows
  <2>5. QED
    BY <1>3, <2>1, <2>2, <2>3, <2>4 DEF Work
<1>4. ASSUME Learner PROVE FALSE
  <2>1. ASSUME NEW h \in Handlers, NEW u \in Units, Submit(h, u) PROVE FALSE
    BY <2>1 DEF Submit, NewJob, Missing
  <2>2. UNCHANGED jobs \/ \E h \in Handlers, u \in Units : Submit(h, u)
    BY <1>4 DEF Learner, ReadVersion, InsertCheck, Finalize, RefreshFails, Reopen, rows
  <2>3. QED
    BY <2>1, <2>2
<1>5. ASSUME NEW k \in Jobs, Sweep(k) \/ Recover(k) PROVE FALSE
  BY <1>1, <1>5 DEF Sweep, Recover, NewJob, Missing
<1>6. CASE (\E a \in Corruptible : Damage(a)) \/ UNCHANGED vars
  BY <1>6 DEF Damage, rows, vars
<1>7. QED
  BY <1>2, <1>3, <1>4, <1>5, <1>6 DEF Next

LEMMA DeliveredNext ==
  ASSUME IInv, LossInv, Delivered, [Next]_vars
  PROVE  Delivered'
<1> SUFFICES ASSUME NEW j \in Jobs, jobs'[j].status = "done", ~Recovered(j[1])'
             PROVE  eval'[j[1]].overall = "completed"
  BY DEF Delivered
<1>1. ~Recovered(j[1])
  <2>1. JobsGrow
    BY ClaimGrows, OtherSteps
  <2>2. QED
    BY <2>1 DEF JobsGrow, Recovered, Exists
<1>2. CASE jobs[j].status = "done"
  BY <1>1, <1>2, LossNext, JobParts DEF Delivered, OnlyLossRevises, Terminal
<1>3. CASE jobs[j].status # "done"
  BY <1>1, <1>3, NewlyDone
<1>4. QED
  BY <1>2, <1>3

\* What english-writing-practice.md:1357 says of results, where it holds: those
\* of answers nobody recovered upgrade the outcome of a completed session, for
\* any number of units, workers, attempts, late calls and damaged texts
\* (ewp_complete_language_evaluation, ewp_apply_session_rollup).
THEOREM FirstResultsUpgrade ==
  Spec => []((\A u \in Units : ~Recovered(Latest(u))) => RecoveryUpgradesOutcome)
<1> DEFINE Inv == OutcomeCovers /\ Delivered
<1>1. Init => Inv
  <2> SUFFICES ASSUME Init PROVE Inv
    OBVIOUS
  <2>1. \E u \in Units : Overall(u) \notin Terminal
    <3>1. 1 \in Units
      BY Numbers DEF Units
    <3>2. Overall(1) = "none"
      BY <3>1 DEF Init, Overall, NoVersion
    <3>3. QED
      BY <3>1, <3>2 DEF Terminal
  <2>2. OutcomeCovers
    BY <2>1 DEF Init, OutcomeCovers, Aggregate, OutcomeRank, Outcomes
  <2>3. Delivered
    BY DEF Init, Delivered, Missing
  <2>4. QED
    BY <2>2, <2>3
<1>2. (IInv /\ LossInv) /\ Inv /\ [Next]_vars /\ (IInv /\ LossInv)' => Inv'
  BY CoversNext, DeliveredNext
<1>3. IInv /\ Inv => ((\A u \in Units : ~Recovered(Latest(u))) => RecoveryUpgradesOutcome)
  <2> SUFFICES ASSUME IInv, Inv,
                      \A u \in Units : \E j \in Jobs : /\ j[1] = Latest(u)
                                                       /\ jobs[j].status = "done"
                                                       /\ ~Recovered(j[1])
               PROVE  session.outcome = "fully_evaluated"
    BY DEF RecoveryUpgradesOutcome
  <2>1. \A u \in Units : eval[Latest(u)].overall = "completed" /\ versions[u] # 0
    <3>1. ASSUME NEW u \in Units PROVE Latest(u) \in Answers /\ eval[Latest(u)].overall = "completed"
      BY JobParts DEF Delivered
    <3>2. \A u \in Units : Latest(u) \in Answers => versions[u] # 0
      BY AnswerParts, Numbers DEF Latest
    <3>3. QED
      BY <3>1, <3>2
  <2>2. \A u \in Units : Overall(u) = "completed"
    BY <2>1 DEF Overall
  <2>3. Aggregate = "fully_evaluated"
    BY <2>2 DEF Aggregate, Terminal
  <2>4. session.outcome \in Outcomes
    BY DEF IInv, TypeOK
  <2>5. QED
    BY <2>3, <2>4 DEF OutcomeCovers, OutcomeRank, Outcomes
<1>4. QED
  BY <1>1, <1>2, <1>3, Losses, PTL DEF Spec
=============================================================================
