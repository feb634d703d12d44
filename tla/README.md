# Career Copilot: models and proofs

TLA+ models of the parts of Career Copilot (FastAPI backend `src/app/backend/app`,
PostgreSQL functions `src/app/supabase/migrations`) that change shared state
concurrently, the TLC runs that check them on small instances and TLAPS proofs of
their central properties for every instance. Paths below are relative to
`src/app`: `B/` is `backend/app/`, `M/` is `supabase/migrations/`; `041:57` is line
57 of migration 041.

    tlc -workers 2 -config recompute_queue.cfg MCRecomputeQueue
    tlc -workers 2 -config writing_jobs.cfg MCWritingEvaluation
    tlc -workers 2 -config outbox.cfg MCMasteryOutbox
    tlc -workers 2 -config affairs_queue.cfg MCCurrentAffairs
    tlc -workers 2 -config mock_submit.cfg MCMockSubmission
    tlapm RecomputeQueueProofs.tla
    tlapm WritingEvaluationProofs.tla ; tlapm WritingRefinementProofs.tla
    tlapm WritingSessionProofs.tla
    tlapm MasteryOutboxProofs.tla ; tlapm OutboxRefinementProofs.tla
    tlapm CurrentAffairsProofs.tla ; tlapm MockSubmissionProofs.tla

## 1. The system

Announcements are scraped, pass a trust gate, and are promoted to recruitments and
posts. A deterministic engine computes each user's eligibility; results become
alerts. Around this stand the study tools: writing practice with asynchronous
evaluation, mocks, current affairs, a library, plans; and payments. One backend
process runs HTTP handlers and one scheduler (`README.md:48-51`); handlers run
concurrently and talk to PostgreSQL through PostgREST, so **every SQL function or
single-table call is a transaction, and a handler with several calls is not**.
Almost every hard behaviour of the system follows from that sentence.

| Component | State it keeps | Operations | What is hard | What makes it correct |
|---|---|---|---|---|
| Eligibility recompute queue | `eligibility_recompute_queue`, `eligibility_results` | enqueue RPC, trigger, promotion fan-out, claim RPC, run, finalise, admin retry | two drains, requests during a run, multi-call handlers, crashes, swallowed errors | exclusive claims, a run covers its requests, attempts never lost, rows end |
| Writing practice evaluation | sessions, units, versions, evaluations, jobs, coverage checks | create, submit, reopen, finalize, claim, complete, fail, reject, sweep, recover | leases, late and repeated calls, unlocked coverage reads, generations | a pending answer is served, decided once, effects once; completion is honest |
| Mastery outbox, review corrections | `writing_mastery_outbox`, evidence, shadow | claim, complete, batch, fail, sweep, correct | at-least-once delivery, corrections that supersede | each evidence key once, a linear chain of corrections |
| Current-affairs practice | bundles, attempts, frozen responses, retry items | start (weekly, monthly), save, submit, enqueue, sweep | several reads before a start, overlapping starts, replays, late saves, editors, windows | a mistake repeated once, in its exam, never lost; current starts; recorded answers count |
| Current-affairs generation | `ca_generation_jobs`, events, candidates | claim, complete, fail, sweep | lease, single generation | a document is generated once |
| Library text extraction | `document_processing_jobs`, pages | enqueue, read-then-claim, run | no sweeper, unique active job | one active job, pages of one run |
| Notifications, scheduler | `notification_alerts` | alert creation, dispatch, sweeps | send before mark | no repeated mail, nobody starved |
| Mock attempts | attempts, responses, history, analytics, `mock_attempt_jobs` | answer, submit, resubmit, auto-submit, schedule, claim, complete, retry | submit against sweepers, submission in many calls each of which may fail, jobs ended by kind, leases, death of the process | scored once, by the answers as saved; expired attempts are submitted; what was left out is delivered |
| Mock templates, review, mastery write-back | templates, mastery state | start, review, retry jobs | | |
| Payments | `user_subscriptions`, events | order, verify, webhook | order and repetition of webhooks | refund is final, one active subscription |
| Anonymous profiles | profiles, merge claims | mint, consume, cleanup | token single use, cleanup beside merge | nothing lost, merged once |
| Scraping, trust gate, promotion | scrape runs, review queue, recruitments | extract, verify, claim, promote, revert | claim and revert across calls | promoted once, never half |
| Eligibility engine, SRS, planner, persona, CMS, community, data access | | pure functions and single-row CRUD | | |

Interactions: profile handlers, the recruitment trigger, publishing and promotion
enqueue recomputes; the runner writes results and alerts; the dispatcher mails
alerts; a submission creates an evaluation job; its verdict moves the unit, rolls
up the session and may add an outbox row; the outbox feeds mastery, which the
mock engine feeds as well.

`PROJECT.json` lists each component with its files and status, and each hazard at
its line with the properties that would catch it.

## 2. Plan

In order of importance; all are written.

1. `RecomputeQueue`, `RecomputeQueueProofs`.
2. `WritingEvaluation`, `WritingEvaluationProofs`, `WritingSessionProofs`.
3. `LeasedJobs`, the abstract promise of a table of leased jobs (asked for, leased,
   returned or settled, effects once). The evaluation jobs (`WritingRefinementProofs`)
   and the mastery outbox (`OutboxRefinementProofs`) implement it under mappings of
   their own.
4. `MasteryOutbox`, `MasteryOutboxProofs`. It meets 2 at one call: a verdict that
   enqueues a row is `CompleteEvaluation` there and `Complete` in 2, whose `applied`
   counts the row among the effects written once.
5. `CurrentAffairs`, `CurrentAffairsProofs`.
6. `MockAttempt`, the promise to the learner of a mock attempt, `MockSubmission`,
   which implements it, `MockSubmissionProofs`.

Section 9 says what was left out, and why.

## 3. RecomputeQueue

### State and actions

| TLA+ | Code |
|---|---|
| `queue` | rows: user, recruitment or `Global`, status, `attempt_count`, whether `next_attempt_at` is still ahead |
| `input`, `result` | version of all that `run_eligibility_for_user` reads for a user; version its stored verdicts are of |
| `held`, `run` | the row dicts a drain holds and the stage of the one it runs |
| `editing`, `promo`, `retry` | handlers between two calls: edit and enqueue, the calls of a promotion, the two calls of an admin retry |
| `acked`, `queue[r].asked` | history: what an acknowledged request must be covered by |

| Action | Code | Why it is one step |
|---|---|---|
| `Enqueue` (in `EnqueueEdit`, `EnqueueScoped`) | `enqueue_eligibility_recompute` 041:32-122 | one function under an advisory lock |
| `InsertRecruitment` | trigger 007:1-19 | inside the insert's transaction |
| `WritePosts`, `FanoutRead`, `FanoutInsert` | `B/scraping/runner.py` 3606-3735, 3409-3482 | one call each |
| `Claim` | `claim_eligibility_queue` 010:51-81 | `for update skip locked` |
| `ReadInput`, `Persist` | `B/eligibility/runner.py` 291-549 | reads, then an upsert whose failure is swallowed |
| `Complete` | `recompute_worker.py` 140-159 | see below |
| `FailRun` | `_finalise_failure` 45-65, also failing itself | an exception at any stage |
| `RetryRead`, `RetryWrite` | `admin_eligibility.py` 109-163 | two calls |
| `BackoffElapsed`, `Crash` | `next_attempt_at`; process death | environment |

`Complete` takes the delete of older completed rows and the completing update as one
step: no other action distinguishes completed rows of one slot, and `FailRun` covers a
failure after the delete alone. `queued_at` is dropped: which of the claimable rows are
the oldest is arbitrary. `ReadInput` is one version although the runner makes several
queries, which only makes runs read newer data. Compensation-path promotion is modelled,
but for its rollback: a promotion whose posts fail to insert deletes the recruitment
again (`runner.py:3728-3730`). The RPC path does the same in one transaction, so its
behaviours are among these. The legacy Python enqueue (`recompute_queue.py:110-172`)
runs only where migration 041 is missing. Rows are ids from a finite set; an id is used
again only when no row has it and nobody remembers it, as a fresh uuid would be.

### Runs

| Run | Instance | Shows |
|---|---|---|
| `recompute_queue` | 1 user, 1 recruitment, 3 rows, 2 drains, 1 admin, 2 attempts, 1 input change, all faults, `FairSpec` | `TypeOK`, `ExclusiveClaim`, `RunCoversRequest`, `OneUnfinishedRow`, `RetryHistoryKept`, `RowsAreFinished`; 171 099 states, no deadlock |
| `recompute_lost_change` (violation) | 1 drain, 2 input changes, no faults | `ChangesHaveAJob`: the drain reads the profile, a second edit is committed and its request deduplicated against the row being processed (041:57), the run stores the verdicts of the first edit and completes the row; no row is left and the stored result is older than an acknowledged edit (`README.md:75`) |

Bounds. Users share no row and no lock, so one user shows what a second would; three
rows are a global row, a recruitment row and the second global row the fan-out may add.
Two drains are the scheduled job and `run_job_now`; two attempts give a first, a retried
and a last one; one change of the input, an edit's or a promotion's, gives an old and a
new read. Several changes are within the proofs of section 8, which cover each safety
property of the run. `recompute_queue` has one admin because two break `ExclusiveClaim`:
the status is checked by one call and the row reset by another
(`admin_eligibility.py:116-163`), so two overlapping retries of a row, with a claim
between their writes, give it to two drains. One alone is safe: a row that failed has
used its attempts, and nothing claims it before the reset. A queue whose edits are used
up still recomputes on `EnqueueScoped`, so `recompute_queue` checks deadlock;
`recompute_lost_change` stops at its bounds.

Fairness. Each drain is weakly fair: the job fires every five minutes
(`scheduler.py:318-325`) and a started drain goes on; back-offs elapse. Nobody is
obliged to edit, publish or retry. `RowsAreFinished` says that a row with attempts to
spare is completed or failed, unless the drain that runs it dies or fails to write
its end: such a row stays 'processing' with no sweeper (`Orphaned`, a hazard in
`PROJECT.json`) and really never ends. A row that failed with its attempts used up
and is requeued keeps its count (041:15), is never claimable (010:66) and absorbs
later requests of its scope.

## 4. WritingEvaluation

### State and actions

One learning-mode session. `versions`, `unit`, `eval`, `jobs`, `session` and
`coverage` are the tables of migration 205; `claim` is what a worker pass holds,
`handler` a submit request after its commit. A job is an answer and a generation.
The claim token is the attempt number: a claim draws a fresh uuid and increments
`attempts`, so the two distinguish the same claims of one job.

| Action | Code |
|---|---|
| `Init` | `ewp_create_writing_session` 207:296-336, 222:99-170 |
| `Submit` | `ewp_submit_writing_unit` 207:342-437 |
| `ReadVersion`, `InsertCheck`, `Finalize`, `RefreshFails` | `submit_unit` `api/writing_practice.py:584-605`, `coverage_checker.py`, 207:503-525 |
| `Reopen` | 207:443-496 |
| `Claim` | 222:174-271 and the worker's hash check `evaluation_worker.py:221-228` |
| `Complete` (`Apply`, `Replay`) | 236:23-339 |
| `Fail`, `Sweep` (`GiveUp`: `Requeue` or `Terminalize`) | 209:665-725, 209:612-659, 209:546-599 |
| `Reject` | 209:808-867 |
| `Recover` | 209:735-795 |
| `Abandon` | worker death, lost call, fenced call |
| `Rollup` (in each of these that performs it) | 240:39-197 |
| `Damage` | external: what the hash check is there for |

Every function takes the session row and all its units `FOR UPDATE` first, so each
is one action. Lease expiry is free: `Sweep` may take any running job, sooner than
15 minutes would, so every race of a slow worker occurs. The coverage check is one
step per query because it holds no lock. Issues are abstracted to whether a
must-fix one is unresolved on the newest answer, and effects (issues,
projections, outbox row) to the counter `applied`. A request with a stale expected
version is rejected without effect and so not an action.

Left out: exam mode (late blanks, rubric jobs), human review and the review
overrides that invalidate a must-fix issue, the semantic shadow probe, the stamps
`submitted_at` and `completed_at`, the abandoned status.

### What the jobs promise

`LeasedJobs` is what the rest of the system may assume of the job table: an item
is open from the moment it is asked for until one of its jobs is settled, it is
asked for again only when it is decided and has no active job, a lease is an attempt
of a limited number, and effects are written only while the item is open. It
has no tokens, workers, late calls, expired leases or lost replies. `Promised`
is the refinement mapping: `Verdict` reads an evaluation as none, open or decided,
`effects` is `applied`, jobs keep status and attempts. Claims are `Lease`;
failures and sweeps are `Return` or `Settle`; results, replays, rejections are
`Settle`; submissions and recoveries are `Ask`; everything else is invisible.

### Properties and runs

| Run | Instance | Shows |
|---|---|---|
| `writing_jobs` | 1 unit, 2 workers, 2 attempts, 2 versions, 2 generations, `FairSpec` | the job protocol with rewrites and with operators recovering failed and superseded jobs: `PendingUnitIsServed`, `AppliedOnce`, `VersionsAwaitVerdict`, `CompletedMeansDone`, `LanguageStatusHonest`, `LateCallsChangeNothing`, `EvaluationIsFinal`, `EveryUnitGetsAVerdict`, `ImplementsFairLeasedJobs`; 64 441 states |
| `writing_session` | 2 units, 2 overlapping requests, 2 versions, required words in some answers only, a damaged answer | `CompletedMeansDone`, `SessionNeverLags`; about 1 750 000 states |
| `writing_recovery` (violation) | 1 unit, 1 worker, 1 attempt, 2 generations | `RecoveryUpgradesOutcome`: the only job of a unit fails, the session completes as deterministic_only, an operator recovers the job, the recovered job delivers its result and the replay guard (236:101) drops it: the outcome stays deterministic_only although architecture 9.1a upgrades it |

Bounds. The job protocol is per answer and its interplay with rewrites needs two
versions of one unit; two workers are a late one and its successor; two attempts
are a retried and a last one. The session rules compare units with each
other, so `writing_session` has two, with one attempt and one worker because
the jobs were checked apart. Its two required words (`TwoWords`) are in the first
answer of unit 1 and in the rewrite of unit 2, so a torn read can see both where
no set of versions ever had them, and a rewrite can lose one; the job run needs
no words, so that every verdict can complete its session.

Fairness. A worker pass and a sweep run every twenty seconds
(`scheduler.py:370-377`), so each worker and each sweep is weakly fair.
`Abandon` is one of a fair worker's steps: even a worker that always dies uses up
attempts, and the last sweep terminalises. Submissions, reopenings, refreshes and
recoveries are not fair. Deadlock is not checked: a session that is completed
with its versions used up stops.

Recovery does less than its documentation says. A job that is recovered after its
answer was decided meets the replay guard (236:101), which drops its result, so the
outcome is not upgraded (architecture 9.1a; the run `writing_recovery`), and leaves
the language stage 'queued' or 'running' without a job. `LanguageStatusHonest`
therefore speaks of answers not recovered yet (`Recovered`), and `EvaluationIsFinal`
lets a recovery revise a partial or rejected verdict, never a completed one;
`writing_jobs` checks both with recoveries among its steps.

Where damage and recovery meet there are two more such cases, which no run has: an
answer that is both damaged and recovered is outside these instances. A rejected answer
that is recovered and then swept becomes `terminal_partial`, a usable result (209:801
forbids it); recovered once more it can be rejected again while the session completed on
it stays completed, so that `CompletedMeansDone` needs that no damaged answer is
recovered; section 8 proves that this recovery alone revises a verdict or spoils a
completed session. And a rejected answer counts as recoverable however often it is
recovered, so its session stays in `evaluation_pending` until an operator comes
(architecture 4.3b: it "never hangs").

## 5. MasteryOutbox

### State and actions

| TLA+ | Code |
|---|---|
| `evals` | `writing_evaluations`: phase, the prior issues the worker was shown, whether it predicted a key that is a correction's, the issues resolved |
| `reviews` | `writing_issue_review_events` in (created_at, event_seq) order |
| `rows`, `line` | `writing_mastery_outbox`: `<<e, 0>>` of evaluation e, `<<i, n>>` the correction for the n-th review of issue i; `line` is created_at |
| `evidence`, `practised` | `user_topic_mastery_evidence` of issues (with what it supersedes and the projection it carries) and of the unit |
| `claim` | what a drain pass holds: row, token, the issues and the tail it was shown |

| Action | Code |
|---|---|
| `StartEvaluation`, `CompleteEvaluation` | `evaluation_worker.py` 207-315, 236:314-321 |
| `Review` | external: the tables are in migration 205, only tests insert |
| `EnqueueCorrection` | 209:1559-1704 |
| `ClaimEvaluationRow`, `ClaimCorrection` | 222:274-340, 209:1793-1866 |
| `CompleteBatch` (`PayloadMatches`) | 209:1223-1400 |
| `CompleteCorrection` (`TailMatches`, `InSequence`) | 209:1871-1978, 1401-1514 |
| `FailRow`, `Sweep` (`Reclaim`) | 209:1189-1213, 994-1023 |
| `NoEvaluationRow`, `NoCorrection`, `GiveUp` | `mastery_outbox_worker.py` 26-140 |
| lost replies | `ReleaseUnlessLost`: the pass goes on to report a failure of a row that is done |

An RPC is one action. Concurrent completions of one chain are serial because of
the unique index `uq_utme_one_successor` (205:535): the second writer fails whole.
The token of a claim is its attempt's number, as in section 4. Corrections may be
enqueued in any order (209:1594), leases expire at any time.
Left out: `ewp_complete_mastery_outbox` (209:1088-1187), which no worker calls,
shadow observations, scores and tiers.

### Properties and runs

| Run | Instance | Shows |
|---|---|---|
| `outbox` | 1 issue found in e1 and rewritten in e2, 2 passes, 2 attempts, 2 reviews, `FairSpec` | `LinearChain`, `CorrectionsFit`, `FoldAgreesWhenDone`, `DrainFollowsReviews`, `ImplementsFairLeasedJobs`; 226 732 states |
| `outbox_order` (violation) | 3 reviews | `FoldHonoursLatestReview`: after reclassified, confirmed, reclassified the order guard (209:1498) takes the third review for the first, and the older classification stays effective (209:1594-1597) |

Bounds. Issues share no row but their evaluations', so one issue shows every chain;
the proofs cover several. Two passes are those of two processes (each allows one,
`max_instances=1`); two attempts are a retried and a last one; two reviews
are the least whose corrections can be swapped, three the least that repeat a decision.

Fairness. The scheduler drains and sweeps every twenty seconds
(`scheduler.py:188-196, 378-386`). Nobody is obliged to review, evaluate or
enqueue. `FoldAgreesWhenDone` is a promise about issues whose corrections all landed:
one that waits for its predecessor is failed each time it is claimed and may use up
its five attempts (a hazard in `PROJECT.json`).

### What the outbox promises

`Promised` maps each row to an item with one generation: asked for by `Enqueue`,
leased by the claims, returned or settled by completions, failures and sweeps, its
effect being the evidence of the row.

## 6. CurrentAffairs

### State and actions

One learner; learners share only the question bank.

| TLA+ | Code |
|---|---|
| `att` | `current_affairs_attempts`; `earlier` is what `started_at` says, the weekly attempts that had started before |
| `frozen`, `sheet`, `right` | `current_affairs_attempt_responses`: key in the snapshot, saved answer with `client_seq`, `is_correct` |
| `item` | `current_affairs_retry_items`, one per question; the `source_*` columns are those of `source` |
| `tail` | the `retry_tail` rows of a monthly attempt |
| `key`, `sound`, `now` | the bank's answer key; whether 260:33-78 finds the question grounded; time in waits of seven days |
| `req` | start requests between their reads and their call |
| `confirmed`, `owed`, the values of `tail` | history: newest recorded save, mistakes a submission had to queue, whose mistake a tail row repeats |

| Action | Code |
|---|---|
| `Read` | `monthly.py` 99-144, `attempts.py` 75-127 |
| `StartWeekly`, `StartMonthly` | 255:119-283; 260:187-310 with 258:172-379 |
| `Drop` | existing attempt, refused start, dead request |
| `Save`, `Submit` | 253:239-292, 259:73-132 with 260:116-182 |
| `Resubmit` | a repeated submit (259:91-94), the repair wrapper `monthly.py` 31-40 |
| `Sweep` | 258:150-164, nightly (`scheduler.py:409-418`) |
| `ChangeStanding`, `ChangeKey`, `Tick` | editors and time |

A start is two steps, the reads and the call; everything between may change. The
reads themselves are taken as one, because the call checks tail, membership and
content each on its own against rows it locks. Membership is fixed: a trigger
refuses changes while a bundle is published (255:65-80). Which bundle is offered
and whether it may be served only decides if a start is accepted, and a start may
be made at any time or never. The monthly start has no HTTP caller yet; it is
modelled as the service function it is. A question's text and options are changed
like its key and are compared like it.

### Properties and runs

| Run | Instance | Shows |
|---|---|---|
| `affairs_queue` | 2 weekly bundles with one question in common, 2 monthly ones, 2 overlapping requests, tail of 1 | `OneReviewPerMistake`, `MistakesAreKept`, `ReviewsAreSpaced`; about 450 000 states |
| `affairs_bank` | 1 weekly and 1 monthly bundle, 3 questions, 2 exams, 2 saves an answer, 1 editorial change, a window that closes, `FairSpec` | `ConfirmedAnswersCount`, `ReviewsStayInExam`, `StartsAreCurrent`, `StaleItemsLeave`; about 330 000 states |

Bounds. Two weekly attempts are an older and a newer mistake, two monthly ones the
two that could repeat it; two requests overlap. In `affairs_bank` two mistakes
compete for a tail of one. Time 2 passes one wait and closes the window of one
question. The mutants of the first run are the rules migrations 258 and 259 had
before 260 replaced them, or trust in what a caller read.

What the code does not promise: a start whose tail was taken or swept in
between is refused (`retry_tail_not_eligible`) although 258:86-88 says that the
builder's reading can never be tripped by a stale item; the learner starts again.
A save whose number was used by another tab is answered `already_recorded`
(253:277) and dropped, so `ConfirmedAnswersCount` speaks of saves called recorded.

Fairness. Only the sweep is fair. Deadlock is checked: requests can always be made
or dropped, and submissions repeated.

## 7. MockSubmission

### State and actions

One attempt; attempts share nothing but the sweep that finds them.

| TLA+ | Code |
|---|---|
| `clock` | `expires_at` against now: open, closed, closed for more than the minute of grace |
| `status`, `result` | the `mock_attempts` row; `result` keeps, for each question, the answer that its scores count |
| `answers`, `marks` | the `mock_attempt_responses` rows: the saved answer, and the answer that `is_correct` and `marks_awarded` grade |
| `history`, `analytics` | number of `mock_tests` rows; whether the summary and the breakdowns exist |
| `jobs` | `mock_attempt_jobs`; `due` says whether `scheduled_for` has come |
| `gaveUp` | history: kinds of jobs failed for good |
| `pc`, `snap`, `todo`, `batch`, `job` | the request and the sweeps under way and what they have read |

| Action | Code (`B/study_os/mock_engine.py`) |
|---|---|
| `Save` | `save_answer` 861-957 |
| `Submit`, `Settle`, `Requeue` | `submit_attempt` 1197-1247 |
| `Resubmit`, `RepairHistory`, `RepairSummary` | 1206-1212, 1161-1194 |
| `Read`, `Score`, `Flip`, `ScoringFails` | `_finalize_submission` 1015-1158 |
| `Emit`, `Reemit` | `_emit_mock_tests_row` 1690-1731 |
| `Derive`, `Detail` | `compute_and_persist`, `attempt_analytics/service.py` 59-88 |
| `Sweep`, `ReadDue`, `Claim`, `GiveUp`, `Finish`, `Retry`, `SweepEnds` | `run_sweeper` 2147-2213 and its helpers 2029-2104 |
| `AutoSubmit`, `Enqueue` | `auto_submit_attempt` 1250-1277 |
| `LookForHistory`, `InsertHistory` | `_retry_emit_mock_tests_row` 1734-1793 |
| `FallsDue`, `Tick`, `Crash` | back-offs and leases, time, death of the process |

Each database call that matters is a step; a failing one is either swallowed
(`_safe`) or raises, and in both cases may have been carried out. The learner's
requests are served one at a time: the handlers are `async` functions that call the
engine without awaiting, in one process (`api/mock_engine.py:218-233`). The sweep
runs on the scheduler's thread, and on a request's thread when an administrator
starts it (`api/notifications.py:246-256`), so sweeps overlap each other and the
learner. A save is one step for the same reason and takes less than the minute of
grace. `schedule_job` reads the active row and then updates it by id, or inserts one;
it is one step because the unique index refuses a second active row. One outcome
is left out: if another sweep completes the row between the read and the update,
the update puts the finished row back to 'pending', where the model inserts a
fresh row; either way one active row is left, with another id and other attempts. In which
order a sweep takes its due jobs is left open. A job is done by kind, whatever row
is active by then (`Completed`), and updates by id may revive a finished row (`Put`).

Left out: the start of an attempt, sections, practice mode; mastery and correction
jobs, behind a flag that is off by default; lifecycle events, which are telemetry;
the refusal of a submission that claims more answers than are saved, which changes
nothing; the browser's queue of unsent saves.

### Properties and runs

| Run | Instance | Shows |
|---|---|---|
| `mock_submit` | 1 question, requests beside the scheduled sweep, 2 attempts a job, 1 failing call, 1 death of the process, `FairSpec` | `ResultMatchesAnswers`, `ExpiredIsSubmitted`, `JobsDeliver`, no deadlock; 152 730 states |
| `mock_sweeps` | 2 questions, 2 sweeps, no fault | `ResultMatchesAnswers`, `SubmittedIsAnalysed`, `ResultIsFinal`, `ImplementsMockAttempt`; 709 145 states |
| `mock_read_fault` (violation) | the read of the answers may fail | `ResultMatchesAnswers`: a failed read (1031-1038) is taken for an attempt without answers and submitted with a score of 0, although the saved answers are "the only authority for scoring" (943) |

`MockAttempt` is what a learner may rely on: answers change while the attempt is
open and in progress, then it is scored once, by the answers as they are. It
has no clock, jobs, processes or faults. `Promise` takes `status`, `answers` and
`result` as they are; a second submission or auto-submission is a stutter there,
since it writes the scores that are written already.

Bounds. Four job rows are one active row of each kind and a finished one; a row
nobody refers to is used again. Two attempts are a first and a last one. One failing
call and one death show each of them at every place, and the overlap of a second
process; several at once are within the reach of the proofs. Two questions let a
sweep be interrupted between the marks of one and of the other.

Fairness. The scheduler starts a sweep every thirty seconds (`scheduler.py:344-353`),
requests and sweeps go on once started, leases and back-offs end. Nobody has to
submit, to save or to start a sweep by hand.

What the code does not promise. A death between the flip and the call that
schedules the analytics (1265-1269) leaves a submitted attempt without analytics
or history until the learner submits again, since the reclaimed job skips it
(`docs/study_os/mock_submit_flow.md:93-96` says that reprocessing leaves no orphan
rows); `SubmittedIsAnalysed` is checked without deaths, and section 8 proves which steps
break it. Two sweeps may insert two
history rows. A second finalizer writes its own `submitted_at`. Breakdowns a
death cut off are not repaired: the repair looks at the summary only.

## 8. Proofs

`RecomputeQueueProofs`, for all users, recruitments, rows, drains, admins, bounds
and faults, from the named assumptions of `RecomputeQueue`:

- `TypeCorrect`: `Spec => []TypeOK`. `TypeOK` is not inductive: a requeue takes a
  version from `input[queue[r].user]`, so `TypeInv` adds `Owned`, that rows which
  exist or are held have a user. `EnqueueEffect`, `FreshRowsEffect`, `EndedRows`
  say what each kind of write does to the rows.
- `ClaimsAreExclusive`: `Spec /\ []RetriesApart => []ExclusiveClaim`, where
  `RetriesApart` says that no two administrators have read one row as failed and not
  yet reset it. It is inductive beside `TypeInv` and `SpentRows`: a failed row has
  used its attempts, and so has a row that waits for a reset even if a request
  requeues it, so that nothing claims it meanwhile. Without the hypothesis the
  invariant is false (section 3). With one administrator it holds by itself
  (`OneAdminIsSafe`), which covers `recompute_queue`.

The next three keep `TypeInv /\ ExclusiveClaim /\ SpentRows` and so that hypothesis:

- `RetryHistoryIsKept` (`RetryHistoryKept`): with `Gone`, that an absent row has no
  attempts, every step is a `RowsGrow`. The count a drain writes back is stale only
  if the row changed hands, which exclusiveness rules out.
- `RunsCoverRequests` (`RunCoversRequest`): with `AskedPast`, nobody asks for a
  version that is not there yet. Each step is an `AskStep` (a claimed row's request
  is left alone), an `InputGrows` and a `RunStep` (a run keeps what it read, or reads
  the input now); `CoverStep` says such steps suffice.
- `SlotsAreSingle` (`OneUnfinishedRow`): with `Unpublished`, that nobody has a row
  for a recruitment before its promotion, without which the trigger's plain inserts
  could meet one. Claims, ends and clean-ups are `NoneOpened`.

`recompute_lost_change` shows a lost change; two theorems say what does hold:

- `ResultsNeverGoBack`: with one drain at a time, no stored verdict is replaced by
  an older one (`ResultsPast`: results and what a run has read are never ahead
  of the input, and a run that has yet to write is not behind what is stored).
- `ChangesAreKept`: `ChangesHaveAJob` under three hypotheses, each of which the code can
  break: one drain at a time (else the slower one writes last), upserts of the verdicts
  that succeed (else a row completes without them), and `EditsMeetNoRun`, that no
  request of an edit finds its user's row in a drain's hands (the finding). It also
  proves `ChangesAreRead`, that the unfinished row of an uncomputed change is not run by
  a drain that has read an older input. `Covered` is the invariant: a change is
  computed, or an unfinished row has been asked to cover it; `RunsServe` makes it hold
  at `Complete`, `Parked` and `RowsGoOn` elsewhere.

`WritingEvaluationProofs`, for every number of units, workers, requests, versions,
attempts and generations, every damage and recovery. The inductive invariant is
`IInv == TypeOK /\ Claims /\ RowInv`, with `RowInv` the conjunction of

- `Generations`: only the newest generation of an answer can be active (why
  `Recover` cannot make a second active job);
- `Budget`: a pending job may be claimed, a running one has its last claim's token;
- `Unborn`: nothing exists for versions nobody submitted;
- `Applied`: a completed evaluation was applied once and has no active job;
- `Served`: a pending unit's newest answer is undecided and has an active job;
- `Verdicts`: every answer but one under evaluation is decided.

The actions that settle, return or claim a job are proved together: each is a
`JobStep`, and `JobStepInv` is that a `JobStep` keeps `IInv`. `SubmitStep` and
`RecoverStep` are the two that create jobs. From `IInv` follow `TypeCorrect`,
`EffectsOnce` (`AppliedOnce`), `PendingServed` (`PendingUnitIsServed`) and
`NeverSuperseded` (`VersionsAwaitVerdict`).

Verdicts change only by recovery: `VerdictsAreFinal` is `EvaluationIsFinal`, with no
hypothesis on the run. What a recovery can change is `OnlyLossesAreRevised`: a decided
evaluation changes only when its answer is damaged and was recovered all the same, a
completed one never. `LossInv` carries it beside `IInv`: a claim that saw damage is of a
damaged answer (`BadClaims`), only damaged answers fail (`FailedDamaged`), a
first-generation job is active only while its answer is undecided (`FirstJobs`), a ready
unit whose answer failed was recovered (`ReadyFailed`), and a stage shown as running has
an active job or a recovery (`Stages`). `LossesStand`, the hypothesis of theorems below,
is that no damaged answer is recovered; `LossesNeverRecovered` is that it holds where no
text is damaged or nobody recovers, as in every writing run.

`WritingRefinementProofs` proves `JobsAreLeasedJobs`, `Spec => ImplementsLeasedJobs`,
under the same generality. `MappedEvaluation` and `MappedJob` say what writing one
row does to the mapped state; `MappedSettle`, `MappedMove` and `MappedAsk` turn
that into an abstract action, and one lemma per action of the code names
which. `IInv` is needed twice: an undecided answer with a running job is open
(`SubmittedAnswer`), so `Apply` writes effects of open items only, and a
failed newest generation leaves no active one, so `Recover` is an `Ask`.
The fairness half, `ImplementsFairLeasedJobs`, is model-checked.

`WritingSessionProofs` proves, from the same `IInv`, what the learner is shown:

- `StatusNeverLags` (`SessionNeverLags`), with no assumption: a step leaves versions,
  units and session alone or rolls them up (`RollsUp`), and both keep it.
- `LateCallsHarmless` (`LateCallsChangeNothing`), with no assumption. Beside `IInv` it
  needs `Tokens`: a claim's token is at most its job's attempts, and two claims of
  one job have different tokens. `JobsGrow` keeps it: attempts are never given back.
- `CompletedSessionsAreDone`: `Spec => [](LossesStand => CompletedMeansDone)`; after
  the recovery of a damaged answer a partial verdict can become a rejection while its
  unit stays ready. With `CoverageTrue` (a passed check passed on the versions it
  saw), `ReadyBorn` and `KeepsMust` (a decided answer keeps its blocking issue).
  `SafeSessionsAreDone` is the case of every writing run.
- `StageIsHonest` (`LanguageStatusHonest`, which speaks of answers not recovered yet),
  with no assumption.
- `FirstResultsUpgrade`: what holds of `RecoveryUpgradesOutcome`, which
  `writing_recovery` refutes. While no newest answer was recovered, a completed session
  whose newest answers all had their results delivered is fully evaluated.

`MasteryOutboxProofs`, for any issues, evaluations, passes, attempts and reviews,
with the inductive invariant `IInv == Typed /\ RowInv /\ ChainInv /\ Balanced`:

- `Typed`: types, attempt budgets, what a pass may hold;
- `RowInv`: evidence is there when its row is done, and only then;
- `ChainInv`: `LinearChain`, `CorrectionsFit`, and that chains begin at the
  original assertion;
- `Balanced`: for each decision, the corrections still owed that lead into it and
  those that lead out of it differ exactly as the decision the evidence has reached
  and the effective one do. Reviews are a walk over the decisions, and any part of
  it applied in any order is balanced; when nothing is owed the two decisions are
  equal. That is why the fold agrees although the order guard admits other orders
  than the reviews'.

From it follow `TypeCorrect`, `ChainsAreLinear`, `CorrectionsAlwaysFit`,
`FoldAgrees` and the action property `DrainFollows`. `OneOverrideIsHonoured` is what
holds of `FoldHonoursLatestReview`, which `outbox_order` refutes: while no issue comes
back to 'reclassified' (`ReclassifiedOnce`), the fold carries the latest override
whatever the order of the corrections. The balance gives the decision of the effective
row, `Recorded` (the effective decision goes back to the last review that changed it)
its review.

`OutboxRefinementProofs` proves `OutboxIsLeasedJobs`, `Spec => ImplementsLeasedJobs`,
action by action.

`CurrentAffairsProofs`, for any bundles, questions, exams, requests, saves and
editorial changes. `QueueSteps` says once what any step may do to an item, a tail
row or a debt; `AttemptsProgress` that an attempt keeps its exam and place and a
submitted one does not change. The invariants then need no case per action:
`Started` makes (period, start) a strict order (`NewerIsAnOrder`) that only grows
(`NewerIsStable`); `Sources` ties an item to a submitted attempt, its exam and a
later due date; `TailsAreSpent` says a mistake in a tail has a spent item or the
item of a newer mistake, and `SpentStep` that this stays so, whence
`ReviewedOnce`. `NothingForgotten`, `ExamsApart`, `AnswersCount`, `CurrentStarts`,
`WaitsAWeek` and `TypeCorrect` follow from the same `IInv`; `CurrentStarts` needs
of it only `Asked`, that a request carries the rows it names.

`MockSubmissionProofs`, for any questions, options, sweepers, job rows, attempts,
faults and deaths: `IInv == TypeOK /\ Watched /\ Current /\ ResultMatchesAnswers`.
No lock or fence keeps a late finalizer out; the scores are right because
everybody who is scoring has read the same answers. `Watched` is why: only a learner's
submission, which no save overtakes, or a job of kind `auto_submit` scores, and such
a job, its copies and whoever works on it exist only once the minute of grace is
over, when no save is accepted. `Current` says that what is being scored is
what is saved and that rows already scored have their marks. `TableKinds` is that
no call on the table makes an `auto_submit` job of another kind; `AsideSteps` takes
the steps that neither score nor save at once, `ScoreStep` those that score.
`TypeCorrect` needs no assumption; `ScoresAreRight` (`ResultMatchesAnswers`),
`ScoresAreFinal` (`ResultIsFinal`) and `RefinesMockAttempt`
(`ImplementsMockAttempt`) assume `ReadFaults = FALSE`, without which the first is
false (`mock_read_fault`).

`ScoresAreWhole` is what remains when reads do fail: all of the saved answers are
counted or none, never some of them or stale ones (`AllOrNothing`).

The jobs that repair are ended by kind, not by id, and rescheduled by what a sweep
once read. `RepairsLast` proves, whatever fails or dies, that this loses none: once the
summary or the history row is there, has a job or was given up on (`Kept`), it stays
so. This is the safety half of `JobsDeliver` for those kinds; a job of kind `auto_submit`
is ended by a failed read of the attempt (`AutoSubmit`), and the next sweep makes
another. The invariant is `AInv == TypeOK /\ Places /\ Held`: `Places` says who works
on which kind of job and what those past the work leave behind, `Held` that a row a
sweep refers to keeps its kind and that the repair it read of is not lost;
`TableStep` is what any step does to the table.

A submitted attempt can therefore lose its summary in the steps of `LosesSummary`
only: a death, or a failure of the flip, of `Enqueue` or of `Requeue`
(`SummariesLostOnlyHere`). While none is taken `SubmittedIsAnalysed` holds
(`SummariesAppear`), and where nothing fails or dies, as in `mock_sweeps`, by itself
(`FaultlessSummariesAppear`). `HistoryAppears` is the same for the history row, which a
death and a failure of the flip or of `Reemit` lose.

Every invariant and action property the passing runs check is therefore also
proved for every instance, under the hypotheses named, which those runs meet; and of the
four properties that runs refute, the part that holds: `ChangesHaveAJob`
(`ChangesAreKept`), `RecoveryUpgradesOutcome` (`FirstResultsUpgrade`),
`FoldHonoursLatestReview` (`OneOverrideIsHonoured`) and
`ResultMatchesAnswers` under read faults (`ScoresAreWhole`). Model-checked only, by nature:
`RowsAreFinished`, `EveryUnitGetsAVerdict`, `StaleItemsLeave`, `ExpiredIsSubmitted`,
`JobsDeliver` and the fairness half of both `ImplementsFairLeasedJobs`, since
liveness under fairness (ENABLED) and induction over data are out of the prover's
reach. No module declares a RECURSIVE operator.

## 9. Not modelled

Besides what sections 3 to 7 leave out:

- current-affairs generation and library text extraction are leased job tables
  like the two that implement `LeasedJobs`, with one worker each;
- the dispatcher, payments and the merge of anonymous profiles are sequences of calls
  whose hazards (in `PROJECT.json`) follow from the order of two calls, or from what
  a provider outside the repository sends, and the code promises nothing to check
  beyond them;
- scraping and the trust gate depend on external sites; what promotion does to the
  recompute queue is in section 3;
- eligibility rules, spaced repetition and planner scores are pure functions of one
  user's rows, with unit tests of their own;
- CMS, community, marketplace and persona handlers are one call per transition;
- language and semantic evaluators: their verdict is any verdict here;
- the frontend, of which one hazard is listed: a reloaded mock page restarts its
  `client_seq`.
