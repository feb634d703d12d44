------------------------- MODULE WritingEvaluation -------------------------
(***************************************************************************)
(* English writing practice: a learning-mode session whose units are       *)
(* answered, evaluated by leased jobs, rewritten or reopened, and rolled   *)
(* up into one session status.                                             *)
(*                                                                         *)
(*   versions  number of immutable versions each unit has                  *)
(*   unit      writing_session_units.status                                *)
(*   eval      writing_evaluations: one revision per version, its          *)
(*             deterministic stage completed at submission                 *)
(*   jobs      writing_evaluation_jobs, one per generation; the token of   *)
(*             a claim is the attempt number it was given (0: null)        *)
(*   session   status and evaluation_outcome of the session                *)
(*   coverage  newest row of writing_session_checks; its version_set_hash  *)
(*             is the vector of versions it hashes                         *)
(*   damaged   versions whose stored text no longer matches content_hash   *)
(*   claim     what each evaluation worker holds                           *)
(*   handler   the submit requests in flight                               *)
(*                                                                         *)
(* History: eval[a].applied counts how often the issues, projections and   *)
(* outbox row of answer a were written.                                    *)
(*                                                                         *)
(* Every RPC takes the session row, then all units, for update: it is one  *)
(* action. Time is abstracted: any lease may have expired, any back-off    *)
(* may be over.                                                            *)
(***************************************************************************)
EXTENDS Naturals, FiniteSets

CONSTANTS
  UnitCount,    \* units of the session
  Workers,      \* evaluation passes that may be in flight
  Handlers,     \* submit requests that may be in flight
  NoJob,        \* null
  MaxAttempts,  \* max_attempts, 3 by default
  MaxVersions,  \* bound: rewrites of a unit
  MaxGen,       \* bound: generations of a job; 1 means nobody recovers
  Covering,     \* for each required word the answers that contain it
  Corruptible,  \* answers whose stored text may be damaged
  RefreshFaults \* whether the refresh after a submission may fail

Units == 1..UnitCount
Answers == Units \X (1..MaxVersions)
Jobs == Answers \X (1..MaxGen)

ASSUME UnitAssumption == UnitCount \in Nat \ {0}
ASSUME BoundAssumption == /\ MaxAttempts \in Nat \ {0}
                          /\ MaxVersions \in Nat \ {0}
                          /\ MaxGen \in Nat \ {0}
ASSUME AnswerAssumption == /\ Covering \subseteq SUBSET Answers
                           /\ Corruptible \subseteq Answers
ASSUME NoJobAssumption == NoJob \notin Jobs
ASSUME FaultAssumption == RefreshFaults \in BOOLEAN

VARIABLES versions, unit, eval, jobs, session, coverage, damaged, claim, handler

rows == <<versions, unit, eval, jobs, session>>
vars == <<rows, coverage, damaged, claim, handler>>

UnitStatuses == {"not_started", "draft", "evaluation_pending",
                 "rewrite_required", "ready", "evaluation_failed"}
SessionStatuses == {"active", "evaluation_pending", "evaluation_incomplete",
                    "rewrite_required", "completed"}
Terminal == {"completed", "terminal_partial", "failed"}
Active == {"pending", "running"}
Outcomes == {"null", "unscored", "deterministic_only", "fully_evaluated"}
Vector == [Units -> 0..MaxVersions]

NoVersion == [u \in Units |-> 0]
NoEval == [language |-> "none", overall |-> "none", must |-> FALSE, applied |-> 0]
NewEval == [NoEval EXCEPT !.language = "queued", !.overall = "partial"]
Missing == [status |-> "none", attempts |-> 0, token |-> 0]
NewJob == [Missing EXCEPT !.status = "pending"]
NoClaim == [job |-> NoJob, token |-> 0, bad |-> FALSE]
Free == [pc |-> "idle", next |-> 1, seen |-> NoVersion]

EvalRow == [language : {"none", "queued", "running", "completed", "failed"},
            overall : {"none", "partial"} \cup Terminal,
            must : BOOLEAN, applied : Nat]
JobRow == [status : {"none", "done", "failed"} \cup Active,
           attempts : 0..MaxAttempts, token : 0..MaxAttempts]

TypeOK ==
  /\ versions \in Vector
  /\ unit \in [Units -> UnitStatuses]
  /\ eval \in [Answers -> EvalRow]
  /\ jobs \in [Jobs -> JobRow]
  /\ session \in [status : SessionStatuses, outcome : Outcomes]
  /\ coverage \in [seen : Vector, passed : BOOLEAN]
  /\ damaged \subseteq Answers
  /\ claim \in [Workers -> [job : Jobs \cup {NoJob}, token : 0..MaxAttempts,
                            bad : BOOLEAN]]
  /\ handler \in [Handlers -> [pc : {"idle", "reading", "checked"},
                               next : 1..(UnitCount + 1), seen : Vector]]

\* ewp_create_writing_session
Init ==
  /\ versions = NoVersion
  /\ unit = [u \in Units |-> "not_started"]
  /\ eval = [a \in Answers |-> NoEval]
  /\ jobs = [j \in Jobs |-> Missing]
  /\ session = [status |-> "active", outcome |-> "null"]
  /\ coverage = [seen |-> NoVersion, passed |-> FALSE]
  /\ damaged = {}
  /\ claim = [w \in Workers |-> NoClaim]
  /\ handler = [h \in Handlers |-> Free]

-----------------------------------------------------------------------------
(* The rollup: ewp_apply_session_rollup, run at the end of a transaction *)

Latest(u) == <<u, versions[u]>>
Current(a) == versions[a[1]] = a[2]
Exists(j) == jobs[j].status # "none"

\* Some generation stopped with attempts to spare (ewp_recovery_available).
RecoveryAvailable(a) ==
  \E j \in Jobs : j[1] = a /\ Exists(j) /\ jobs[j].attempts < MaxAttempts

Drafting == \E u \in Units : unit[u] \in {"not_started", "draft"}
Pending == \E u \in Units :
  \/ unit[u] = "evaluation_pending"
  \/ unit[u] = "evaluation_failed" /\ RecoveryAvailable(Latest(u))
Failed == \E u \in Units : unit[u] = "evaluation_failed"
Rewriting == \E u \in Units : unit[u] = "rewrite_required"

\* (mutant) The hash of the check is not compared.
CoverageOfAnyVersions == versions # NoVersion /\ coverage.passed

\* The newest check counts while it is of the versions there are now.
CoverageOk == versions # NoVersion /\ coverage.passed /\ coverage.seen = versions
MustFix == \E u \in Units : versions[u] > 0 /\ eval[Latest(u)].must

\* First match wins.
SessionStatus ==
  IF Drafting THEN "active"
  ELSE IF Pending THEN "evaluation_pending"
  ELSE IF Failed THEN "evaluation_incomplete"
  ELSE IF Rewriting \/ ~CoverageOk \/ MustFix THEN "rewrite_required"
  ELSE "completed"

\* The worst verdict on the newest versions; null while one is missing.
Overall(u) == IF versions[u] = 0 THEN "none" ELSE eval[Latest(u)].overall
Aggregate ==
  IF \E u \in Units : Overall(u) \notin Terminal THEN "null"
  ELSE IF \E u \in Units : Overall(u) = "failed" THEN "unscored"
  ELSE IF \E u \in Units : Overall(u) = "terminal_partial" THEN "deterministic_only"
  ELSE "fully_evaluated"

OutcomeRank == [o \in Outcomes |-> CASE o = "fully_evaluated" -> 3
                                     [] o = "deterministic_only" -> 2
                                     [] o = "unscored" -> 1
                                     [] OTHER -> 0]
Better(old, new) == IF OutcomeRank[new] > OutcomeRank[old] THEN new ELSE old

\* The outcome is never downgraded.
Rollup == session' = [status |-> SessionStatus',
                      outcome |-> Better(session.outcome, Aggregate')]

-----------------------------------------------------------------------------
(* The learner's requests *)

\* (mutant) A unit under evaluation accepts another answer.
SubmittableWhilePending(u) == unit[u] # "ready" /\ unit[u] # "evaluation_failed"

\* Unit states a submission may come from.
Submittable(u) == unit[u] \in {"not_started", "draft", "rewrite_required"}

\* ewp_submit_writing_unit: version, evaluation and job in one transaction. A
\* request naming another version than the next one is rejected unchanged.
Submit(h, u) ==
  LET a == <<u, versions[u] + 1>> IN
  /\ handler[h].pc = "idle"
  /\ session.status # "completed"
  /\ Submittable(u)
  /\ versions[u] < MaxVersions
  /\ versions' = [versions EXCEPT ![u] = @ + 1]
  /\ eval' = [eval EXCEPT ![a] = NewEval]
  /\ jobs' = [jobs EXCEPT ![<<a, 1>>] = NewJob]
  /\ unit' = [unit EXCEPT ![u] = "evaluation_pending"]
  /\ handler' = [handler EXCEPT ![h] = [Free EXCEPT !.pc = "reading"]]
  /\ UNCHANGED <<coverage, damaged, claim>>
  /\ Rollup

\* run_coverage_check reads the newest version of each unit without a lock,
\* one query per unit ...
ReadVersion(h) ==
  LET u == handler[h].next IN
  /\ handler[h].pc = "reading" /\ u \in Units
  /\ handler' = [handler EXCEPT ![h].seen[u] = versions[u], ![h].next = u + 1]
  /\ UNCHANGED <<rows, coverage, damaged, claim>>

Passes(seen) ==
  \A word \in Covering : \E u \in Units : seen[u] > 0 /\ <<u, seen[u]>> \in word

\* ... appends its row ...
InsertCheck(h) ==
  /\ handler[h].pc = "reading" /\ handler[h].next = UnitCount + 1
  /\ coverage' = [seen |-> handler[h].seen, passed |-> Passes(handler[h].seen)]
  /\ handler' = [handler EXCEPT ![h].pc = "checked"]
  /\ UNCHANGED <<rows, damaged, claim>>

\* ... and submit_unit calls ewp_finalize_writing_session.
Finalize(h) ==
  /\ handler[h].pc = "checked"
  /\ handler' = [handler EXCEPT ![h] = Free]
  /\ UNCHANGED <<versions, unit, eval, jobs, coverage, damaged, claim>>
  /\ Rollup

\* The refresh after the commit is best effort: an exception ends it.
RefreshFails(h) ==
  /\ RefreshFaults
  /\ handler[h].pc # "idle"
  /\ handler' = [handler EXCEPT ![h] = Free]
  /\ UNCHANGED <<rows, coverage, damaged, claim>>

\* (mutant) The reopening is not rolled up.
ReopenUnitOnly(u) ==
  /\ session.status \in {"rewrite_required", "active", "completed"}
  /\ unit[u] = "ready"
  /\ unit' = [unit EXCEPT ![u] = "draft"]
  /\ UNCHANGED <<versions, eval, jobs, session, coverage, damaged, claim, handler>>

\* ewp_reopen_writing_unit
Reopen(u) ==
  /\ session.status \in {"rewrite_required", "active", "completed"}
  /\ unit[u] = "ready"
  /\ unit' = [unit EXCEPT ![u] = "draft"]
  /\ UNCHANGED <<versions, eval, jobs, coverage, damaged, claim, handler>>
  /\ Rollup

-----------------------------------------------------------------------------
(* The evaluation worker *)

StartLanguage(a) == [eval EXCEPT ![a].language =
  IF @ \in {"queued", "failed", "running"} THEN "running" ELSE @]

\* ewp_claim_evaluation_job; the CHECK of the table keeps attempts in budget.
\* The worker recomputes the hash of what the claim returned.
Claim(w, j) ==
  LET n == jobs[j].attempts + 1 IN
  /\ claim[w] = NoClaim
  /\ jobs[j].status = "pending" /\ n <= MaxAttempts
  /\ jobs' = [jobs EXCEPT ![j] = [status |-> "running", attempts |-> n, token |-> n]]
  /\ eval' = StartLanguage(j[1])
  /\ claim' = [claim EXCEPT ![w] = [job |-> j, token |-> n, bad |-> j[1] \in damaged]]
  /\ UNCHANGED <<versions, unit, session, coverage, damaged, handler>>

\* (mutants) Any late call is let through; a late call is let through once
\* somebody runs the job again.
NeverFenced(j, token) == FALSE
FencedByStatus(j, token) == jobs[j].status # "running"

Fenced(j, token) == jobs[j].status # "running" \/ jobs[j].token # token

Holds(w) == claim[w] # NoClaim
Owns(w) == Holds(w) /\ ~Fenced(claim[w].job, claim[w].token)
Forget(w) == claim' = [claim EXCEPT ![w] = NoClaim]

CloseJob(j, st) == jobs' = [jobs EXCEPT ![j].status = st, ![j].token = 0]

\* (mutant) A verdict on an old version moves the unit too.
MoveUnitOfAnyVersion(a, st) ==
  unit' = IF unit[a[1]] = "evaluation_pending"
          THEN [unit EXCEPT ![a[1]] = st] ELSE unit

\* A verdict moves a unit only from evaluation_pending, and only when it is
\* on the unit's newest version.
MoveUnit(a, st) ==
  unit' = IF Current(a) /\ unit[a[1]] = "evaluation_pending"
          THEN [unit EXCEPT ![a[1]] = st] ELSE unit

\* The replay guard of ewp_complete_language_evaluation.
Decided(a) == eval[a].overall \in Terminal

\* ewp_complete_language_evaluation, the result not yet decided otherwise.
Apply(j, must) ==
  LET a == j[1] IN
  /\ ~Decided(a)
  /\ eval' = [eval EXCEPT ![a] =
       [language |-> "completed", overall |-> "completed",
        must |-> must /\ Current(a), applied |-> @.applied + 1]]
  /\ MoveUnit(a, IF must THEN "rewrite_required" ELSE "ready")
  /\ CloseJob(j, "done")
  /\ UNCHANGED versions
  /\ IF Current(a) THEN Rollup ELSE UNCHANGED session

\* The same, already decided: the job is acknowledged and nothing is written.
Replay(j) ==
  /\ Decided(j[1])
  /\ jobs' = [jobs EXCEPT ![j].status = "done"]
  /\ UNCHANGED <<versions, unit, eval, session>>

\* When the reply is lost the worker goes on to ewp_fail_evaluation_job.
Complete(w) ==
  LET j == claim[w].job IN
  /\ Owns(w) /\ ~claim[w].bad
  /\ UNCHANGED <<coverage, damaged, handler>>
  /\ Replay(j) \/ \E must \in BOOLEAN : Apply(j, must)
  /\ Forget(w) \/ UNCHANGED claim

\* (mutants) The unit gets the session's word for done; the language stage
\* is left as it was.
TerminalizeToCompleted(j) ==
  /\ eval' = [eval EXCEPT ![j[1]].language = "failed",
                          ![j[1]].overall = "terminal_partial"]
  /\ CloseJob(j, "failed")
  /\ MoveUnit(j[1], "completed")
  /\ UNCHANGED versions
  /\ Rollup
TerminalizeOverallOnly(j) ==
  /\ eval' = [eval EXCEPT ![j[1]].overall = "terminal_partial"]
  /\ CloseJob(j, "failed")
  /\ MoveUnit(j[1], "ready")
  /\ UNCHANGED versions
  /\ Rollup

\* ewp_terminalize_eval_job: the deterministic result stands.
Terminalize(j) ==
  /\ eval' = [eval EXCEPT ![j[1]].language = "failed",
                          ![j[1]].overall = "terminal_partial"]
  /\ CloseJob(j, "failed")
  /\ MoveUnit(j[1], "ready")
  /\ UNCHANGED versions
  /\ Rollup

Requeue(j) ==
  /\ CloseJob(j, "pending")
  /\ eval' = [eval EXCEPT ![j[1]].language = IF @ = "running" THEN "queued" ELSE @]
  /\ UNCHANGED <<versions, unit, session>>

\* (mutant) One attempt too many is granted.
GiveUpLate(j) == IF jobs[j].attempts > MaxAttempts THEN Terminalize(j) ELSE Requeue(j)

\* Attempts are used up, or the job goes back to the queue.
GiveUp(j) == IF jobs[j].attempts >= MaxAttempts THEN Terminalize(j) ELSE Requeue(j)

\* ewp_fail_evaluation_job
Fail(w) ==
  /\ Owns(w) /\ ~claim[w].bad
  /\ UNCHANGED <<coverage, damaged, handler>>
  /\ GiveUp(claim[w].job)
  /\ Forget(w)

\* ewp_reject_corrupt_version: no result at all, the attempts untouched.
Reject(w) ==
  LET j == claim[w].job IN
  /\ Owns(w) /\ claim[w].bad
  /\ eval' = [eval EXCEPT ![j[1]].language = "failed", ![j[1]].overall = "failed"]
  /\ CloseJob(j, "failed")
  /\ MoveUnit(j[1], "evaluation_failed")
  /\ Forget(w)
  /\ UNCHANGED <<versions, coverage, damaged, handler>>
  /\ Rollup

\* A fenced call raises, the worker crashes, or its last call is lost.
Abandon(w) ==
  /\ Holds(w)
  /\ Forget(w)
  /\ UNCHANGED <<rows, coverage, damaged, handler>>

\* (mutant) A job that crashed in its last attempt is not swept.
SweepRetriesOnly(j) ==
  /\ jobs[j].status = "running" /\ jobs[j].attempts < MaxAttempts
  /\ UNCHANGED <<coverage, damaged, claim, handler>>
  /\ GiveUp(j)

\* ewp_requeue_stale_eval_job: the lease of a running job has expired.
Sweep(j) ==
  /\ jobs[j].status = "running"
  /\ UNCHANGED <<coverage, damaged, claim, handler>>
  /\ GiveUp(j)

\* (mutant) A generation in progress is recovered too.
RecoverableWhileRunning(j) ==
  jobs[j].status \in {"failed", "running"} /\ ~Exists(<<j[1], j[2] + 1>>)

\* The newest generation has failed.
Recoverable(j) == jobs[j].status = "failed" /\ ~Exists(<<j[1], j[2] + 1>>)

\* ewp_recover_evaluation: an operator mints the next generation.
Recover(j) ==
  LET next == <<j[1], j[2] + 1>> IN
  /\ next \in Jobs
  /\ Recoverable(j)
  /\ eval[j[1]].language # "completed"
  /\ jobs' = [jobs EXCEPT ![next] = NewJob]
  /\ eval' = [eval EXCEPT ![j[1]].language = IF @ = "failed" THEN "queued" ELSE @]
  /\ UNCHANGED <<versions, unit, session, coverage, damaged, claim, handler>>

\* The stored text is altered behind the program's back.
Damage(a) ==
  /\ a \in Corruptible \ damaged
  /\ eval[a] # NoEval
  /\ damaged' = damaged \cup {a}
  /\ UNCHANGED <<rows, coverage, claim, handler>>

-----------------------------------------------------------------------------
Learner == \/ \E h \in Handlers : \/ \E u \in Units : Submit(h, u)
                                  \/ ReadVersion(h)
                                  \/ InsertCheck(h)
                                  \/ Finalize(h)
                                  \/ RefreshFails(h)
           \/ \E u \in Units : Reopen(u)

Work(w) == \/ \E j \in Jobs : Claim(w, j)
           \/ Complete(w)
           \/ Fail(w)
           \/ Reject(w)
           \/ Abandon(w)

Next == \/ Learner
        \/ \E w \in Workers : Work(w)
        \/ \E j \in Jobs : Sweep(j) \/ Recover(j)
        \/ \E a \in Corruptible : Damage(a)

Spec == Init /\ [][Next]_vars

\* The scheduler runs a sweep and a worker pass every twenty seconds. Nobody
\* owes the system a submission, a reopening, a refresh or a recovery.
FairSpec ==
  /\ Spec
  /\ \A w \in Workers : WF_vars(Work(w))
  /\ \A j \in Jobs : WF_vars(Sweep(j))

-----------------------------------------------------------------------------
(* The evaluation jobs as the table of leased jobs they promise to be *)

Verdict(a) == IF eval[a].overall = "none" THEN "none"
              ELSE IF eval[a].overall \in Terminal THEN "decided" ELSE "open"

Promised == INSTANCE LeasedJobs WITH
  Items <- Answers,
  Gens <- 1..MaxGen,
  verdict <- [a \in Answers |-> Verdict(a)],
  effects <- [a \in Answers |-> eval[a].applied],
  status <- [j \in Jobs |-> jobs[j].status],
  attempts <- [j \in Jobs |-> jobs[j].attempts]

-----------------------------------------------------------------------------
(* Properties *)

ActiveJobs(a) == {j \in Jobs : j[1] = a /\ jobs[j].status \in Active}

\* A unit shown as being evaluated is: its newest answer is undecided and has
\* exactly one active job, which a worker may still claim or, if running,
\* can still be settled by the token of its last claim (submit, claim, fail,
\* sweep, terminalise, reject between them never strand it).
PendingUnitIsServed ==
  \A u \in Units : unit[u] = "evaluation_pending" =>
    /\ versions[u] > 0 /\ eval[Latest(u)].overall = "partial"
    /\ \E j \in ActiveJobs(Latest(u)) :
         /\ ActiveJobs(Latest(u)) = {j}
         /\ IF jobs[j].status = "pending"
            THEN jobs[j].attempts < MaxAttempts
            ELSE jobs[j].token = jobs[j].attempts

\* The effects of a verdict (issues, projections, outbox) are written exactly
\* once, and an evaluation that completed leaves no job to write them again.
AppliedOnce ==
  \A a \in Answers :
    /\ eval[a].applied = IF eval[a].overall = "completed" THEN 1 ELSE 0
    /\ eval[a].overall = "completed" => ActiveJobs(a) = {}

HoldsLease(v) == /\ claim[v] # NoClaim
                 /\ jobs[claim[v].job].status = "running"
                 /\ jobs[claim[v].job].token = claim[v].token

\* The fence: what a worker does at the end of its claim never takes away the
\* job of another worker whose lease is running (the token of its last claim).
LateCallsChangeNothing ==
  [][\A w \in Workers :
       claim[w] # NoClaim /\ claim'[w] = NoClaim =>
         \A v \in Workers \ {w} : HoldsLease(v) => HoldsLease(v)']_vars

\* An operator has minted a second generation for the answer.
Recovered(a) == \E j \in Jobs : j[1] = a /\ j[2] > 1 /\ Exists(j)

\* Only a recovery may revise a verdict, and never a completed one: late
\* completions and failures, lost replies, expired leases, rejections and new
\* versions leave every decided evaluation as it is (the fence, the replay
\* guard). What a recovery does to the others is RecoveryUpgradesOutcome's.
EvaluationIsFinal ==
  [][\A a \in Answers :
       \/ eval[a].overall = "completed"
       \/ eval[a].overall \in Terminal /\ ~Recovered(a)
       => eval'[a].overall = eval[a].overall]_vars

\* "if a previously language-failed unit is later recovered (new `generation`)
\* and reaches `fully_evaluated`, the finalizer [...] upgrades
\* `deterministic_only -> fully_evaluated`" (english-writing-practice.md:1357):
\* a completed session each of whose newest answers has a job that delivered
\* its result is fully evaluated. The replay guard (236:101) drops the result.
RecoveryUpgradesOutcome ==
  /\ session.status = "completed"
  /\ \A u \in Units : \E j \in Jobs : j[1] = Latest(u) /\ jobs[j].status = "done"
  => session.outcome = "fully_evaluated"

\* An answer under evaluation is never superseded: a unit gets its next
\* version after the verdict on the one before (ewp_submit_writing_unit).
VersionsAwaitVerdict ==
  \A u \in Units : \A v \in 1..MaxVersions :
    v < versions[u] => eval[<<u, v>>].overall \in Terminal

\* A completed session has a usable verdict on the newest version of every
\* unit, no blocking issue, the required words in those very versions however
\* the coverage checks interleaved, and an outcome; until an operator recovers
\* an answer whose stored text is damaged, which no run of it does.
CompletedMeansDone ==
  session.status = "completed" =>
    /\ \A u \in Units : /\ unit[u] = "ready"
                        /\ eval[Latest(u)].overall \in {"completed", "terminal_partial"}
                        /\ ~eval[Latest(u)].must
    /\ Passes(versions)
    /\ session.outcome \in {"deterministic_only", "fully_evaluated"}

\* "Session status can never lag this committed unit transition" (207:425):
\* the status is what the units call for, whichever transaction moved them.
SessionNeverLags ==
  /\ Drafting <=> session.status = "active"
  /\ ~Drafting /\ (\E u \in Units : unit[u] = "evaluation_pending") =>
       session.status = "evaluation_pending"
  /\ ~Drafting /\ Rewriting /\ ~Pending /\ ~Failed =>
       session.status = "rewrite_required"

\* Every answer under evaluation is decided: failures, lost replies, crashes
\* and expired leases use up the attempts (worker pass, sweep, terminalise).
EveryUnitGetsAVerdict ==
  \A u \in Units :
    unit[u] = "evaluation_pending" ~> unit[u] # "evaluation_pending"

\* Until an operator recovers the answer, its language stage is shown as queued
\* or running only while a job of it is (claim, requeue, complete, terminalise
\* and reject move both). A recovered answer that was decided may keep
\* 'running' for good: the replay guard (236:101) acknowledges the job alone.
LanguageStatusHonest ==
  \A a \in Answers :
    eval[a].language \in {"queued", "running"} /\ ~Recovered(a) => ActiveJobs(a) # {}

\* The jobs implement LeasedJobs: tokens, late calls, expired leases, lost
\* replies, rejections and replays are invisible to the asker, and submit and
\* recover never ask while a job of the answer is active (claim, complete,
\* fail, sweep, reject, recover).
ImplementsLeasedJobs == Promised!Spec

\* The same with its fairness: a waiting job is claimed, a claimed one comes
\* back or is settled, whatever the workers do (worker pass, sweep).
ImplementsFairLeasedJobs == Promised!FairSpec
=============================================================================
