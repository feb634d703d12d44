--------------------------- MODULE MasteryOutbox ---------------------------
(***************************************************************************)
(* English writing practice: the outbox that turns evaluations and review  *)
(* decisions into mastery evidence. An evaluation enqueues a row in its    *)
(* own transaction; a review that changes the decision on an issue         *)
(* enqueues a correction; the drain claims a row, builds its evidence and  *)
(* writes it. Evidence is append-only: a correction supersedes the row     *)
(* that is effective now.                                                  *)
(*                                                                         *)
(*   evals     per evaluation: phase, the prior issues its worker was      *)
(*             shown (seen), whether the idempotency key it computed is    *)
(*             that of a correction (predicted), the issues it resolved    *)
(*   reviews   writing_issue_review_events: the decisions on each issue,   *)
(*             in (created_at, event_seq) order                            *)
(*   rows      writing_mastery_outbox: <<e, 0>> is the row of evaluation   *)
(*             e, <<i, n>> the correction of the n-th review of issue i;   *)
(*             the token of a claim is its attempt's number                *)
(*   line      the rows by created_at                                      *)
(*   evidence  user_topic_mastery_evidence of issues: <<i, 0>> is the      *)
(*             original assertion, <<i, n>> what the n-th review made of   *)
(*             it; from is supersedes_evidence_key, proj the projection    *)
(*             carried: 0 the automatic one, n the override of review n    *)
(*   practised evaluations with their unit-level evidence row              *)
(*   claim     what each pass of the drain holds                           *)
(*                                                                         *)
(* An RPC is one action. Time is abstracted: any lease may have expired.   *)
(***************************************************************************)
EXTENDS Naturals, Sequences

CONSTANTS
  Issues,       \* issue events
  Evaluations,
  FoundBy,      \* the evaluation that found an issue
  RewrittenIn,  \* the evaluation of the next version of the answer
  Workers,      \* drain passes that may be in flight
  MaxAttempts,  \* max_attempts, 5 by default
  MaxReviews,   \* bound: reviews of an issue
  NoRow         \* null

ASSUME EvaluationAssumption ==
  /\ FoundBy \in [Issues -> Evaluations]
  /\ RewrittenIn \in [Issues -> Evaluations]
ASSUME BoundAssumption == MaxAttempts \in Nat \ {0} /\ MaxReviews \in Nat

Keys == Issues \X (0..MaxReviews)
Reviewed == Issues \X (1..MaxReviews)
EvalRows == Evaluations \X {0}
Rows == EvalRows \cup Reviewed

ASSUME NoRowAssumption == NoRow \notin Rows \cup Keys

VARIABLES evals, reviews, rows, line, evidence, practised, claim

vars == <<evals, reviews, rows, line, evidence, practised, claim>>

Decisions == {"confirmed", "invalidated", "reclassified"}
Open == {"pending", "processing"}

NotEvaluated == [phase |-> "none", seen |-> {}, predicted |-> FALSE, resolved |-> {}]
Missing == [status |-> "none", attempts |-> 0]
Absent == [from |-> NoRow, proj |-> 0, written |-> FALSE]
Original == [from |-> NoRow, proj |-> 0, written |-> TRUE]
Idle == [pc |-> "idle", row |-> NoRow, token |-> 0, issues |-> {}, tail |-> NoRow]

EvalRecord == [phase : {"none", "running", "done"}, seen : SUBSET Issues,
               predicted : BOOLEAN, resolved : SUBSET Issues]
RowRecord == [status : {"none", "done", "failed"} \cup Open,
              attempts : 0..MaxAttempts]
EvidenceRecord == [from : Keys \cup {NoRow}, proj : 0..MaxReviews,
                   written : BOOLEAN]
ClaimRecord == [pc : {"idle", "second", "holding"}, row : Rows \cup {NoRow},
                token : 0..MaxAttempts, issues : SUBSET Issues,
                tail : Keys \cup {NoRow}]

TypeOK ==
  /\ evals \in [Evaluations -> EvalRecord]
  /\ reviews \in [Issues -> Seq(Decisions)]
  /\ \A i \in Issues : Len(reviews[i]) <= MaxReviews
  /\ rows \in [Rows -> RowRecord]
  /\ line \in Seq(Rows)
  /\ evidence \in [Keys -> EvidenceRecord]
  /\ practised \subseteq Evaluations
  /\ claim \in [Workers -> ClaimRecord]

Init ==
  /\ evals = [e \in Evaluations |-> NotEvaluated]
  /\ reviews = [i \in Issues |-> <<>>]
  /\ rows = [r \in Rows |-> Missing]
  /\ line = <<>>
  /\ evidence = [k \in Keys |-> Absent]
  /\ practised = {}
  /\ claim = [w \in Workers |-> Idle]

-----------------------------------------------------------------------------
(* Reading the tables *)

\* The decision before the n-th review, active when there is none.
Before(i, n) == IF n = 1 THEN "confirmed" ELSE reviews[i][n - 1]
Changes(i, n) == reviews[i][n] # Before(i, n)

\* The effective decision is the latest one.
Effective(i) == Before(i, Len(reviews[i]) + 1)
Invalidated(i) == Effective(i) = "invalidated"

\* ewp_prior_active_issues
PriorActive(e) == {i \in Issues : RewrittenIn[i] = e /\ evals[FoundBy[i]].phase = "done"
                                  /\ ~Invalidated(i)}

Written(k) == evidence[k].written
HasSuccessor(k) == \E s \in Keys : Written(s) /\ evidence[s].from = k
Tails(i) == {k \in Keys : k[1] = i /\ Written(k) /\ ~HasSuccessor(k)}
HasEvidence(i) == Tails(i) # {}

\* The newest row nothing supersedes.
EffectiveRow(i) == IF HasEvidence(i) THEN CHOOSE k \in Tails(i) : TRUE ELSE NoRow

\* The decision that produced an evidence row.
Cause(k) == IF k[2] = 0 THEN "confirmed" ELSE reviews[k[1]][k[2]]

\* Retract keeps the projection of the tail, replace carries the override the
\* review created, re-assert the automatic one of the chain's root.
Projection(i, n) ==
  CASE reviews[i][n] = "invalidated" -> evidence[EffectiveRow(i)].proj
    [] reviews[i][n] = "reclassified" -> n
    [] OTHER -> 0

-----------------------------------------------------------------------------
(* The producers: the evaluation worker and the reviewer *)

Enqueue(r) ==
  /\ rows' = IF rows[r].status = "none"
             THEN [rows EXCEPT ![r].status = "pending"] ELSE rows
  /\ line' = IF rows[r].status = "none" THEN Append(line, r) ELSE line

\* ewp_claim_evaluation_job shows the worker the prior issues; a job that
\* comes back is claimed again.
StartEvaluation(e) ==
  /\ evals[e].phase # "done"
  /\ \A i \in Issues : RewrittenIn[i] = e => evals[FoundBy[i]].phase = "done"
  /\ evals' = [evals EXCEPT ![e].phase = "running", ![e].seen = PriorActive(e)]
  /\ UNCHANGED <<reviews, rows, line, evidence, practised, claim>>

\* The worker computes the key of the unit's evidence, whose tier depends on
\* what was resolved, from the issues it was shown; the transaction resolves
\* what is active now. No key is passed when mastery is off, the answer is
\* left to a human or it still has a blocking issue.
CompleteEvaluation(e) ==
  /\ evals[e].phase = "running"
  /\ \E persisted \in SUBSET evals[e].seen :
       evals' = [evals EXCEPT ![e].phase = "done",
                              ![e].predicted = evals[e].seen \ persisted # {},
                              ![e].resolved = PriorActive(e) \ persisted]
  /\ Enqueue(<<e, 0>>) \/ UNCHANGED <<rows, line>>
  /\ UNCHANGED <<reviews, evidence, practised, claim>>

\* A reviewer records a decision on an issue.
Review(i, d) ==
  /\ evals[FoundBy[i]].phase = "done"
  /\ Len(reviews[i]) < MaxReviews
  /\ reviews' = [reviews EXCEPT ![i] = Append(@, d)]
  /\ UNCHANGED <<evals, rows, line, evidence, practised, claim>>

\* The pinned mode is that of the row of the evaluation that found the issue.
Pinned(i) == rows[<<FoundBy[i], 0>>].status # "none"

\* ewp_enqueue_review_correction, in any order and any number of times; with
\* an unchanged decision, nothing to correct or no pinned mode it does nothing.
EnqueueCorrection(i, n) ==
  /\ n <= Len(reviews[i]) /\ Changes(i, n)
  /\ HasEvidence(i) /\ Pinned(i)
  /\ Enqueue(<<i, n>>)
  /\ UNCHANGED <<evals, reviews, evidence, practised, claim>>

-----------------------------------------------------------------------------
(* The drain *)

\* The oldest pending row of its kind.
Claimable(r, kind) ==
  \E p \in DOMAIN line :
    /\ line[p] = r /\ r \in kind /\ rows[r].status = "pending"
    /\ \A q \in 1..(p - 1) : line[q] \in kind => rows[line[q]].status # "pending"

Lease(r) == rows' = [rows EXCEPT ![r] = [status |-> "processing", attempts |-> @.attempts + 1]]
Hold(r, issues, tail) == [pc |-> "holding", row |-> r, token |-> rows[r].attempts + 1,
                          issues |-> issues, tail |-> tail]

\* The prior issues an evaluation resolved earn evidence unless withdrawn.
Expected(e) == {i \in evals[e].resolved : ~Invalidated(i)}

\* ewp_claim_mastery_outbox
ClaimEvaluationRow(w, r) ==
  /\ claim[w].pc = "idle" /\ Claimable(r, EvalRows)
  /\ Lease(r)
  /\ claim' = [claim EXCEPT ![w] = Hold(r, Expected(r[1]), NoRow)]
  /\ UNCHANGED <<evals, reviews, line, evidence, practised>>

\* No evaluation row is pending: run_outbox_pass goes on to the corrections.
NoEvaluationRow(w) ==
  /\ claim[w].pc = "idle"
  /\ \A r \in EvalRows : rows[r].status # "pending"
  /\ claim' = [claim EXCEPT ![w].pc = "second"]
  /\ UNCHANGED <<evals, reviews, rows, line, evidence, practised>>

\* ewp_claim_review_correction_outbox
ClaimCorrection(w, r) ==
  /\ claim[w].pc = "second" /\ Claimable(r, Reviewed)
  /\ Lease(r)
  /\ claim' = [claim EXCEPT ![w] = Hold(r, {}, EffectiveRow(r[1]))]
  /\ UNCHANGED <<evals, reviews, line, evidence, practised>>

NoCorrection(w) ==
  /\ claim[w].pc = "second"
  /\ \A r \in Reviewed : rows[r].status # "pending"
  /\ claim' = [claim EXCEPT ![w] = Idle]
  /\ UNCHANGED <<evals, reviews, rows, line, evidence, practised>>

\* (mutant) the token alone is checked.
FencedByToken(r, token) == rows[r].attempts # token
Fenced(r, token) == rows[r].status # "processing" \/ rows[r].attempts # token
Holds(w) == claim[w].pc = "holding"
Owns(w) == Holds(w) /\ ~Fenced(claim[w].row, claim[w].token)

\* When the reply of a completion is lost the pass goes on to report a failure.
Release(w) == claim' = [claim EXCEPT ![w] = Idle]
ReleaseUnlessLost(w) == Release(w) \/ UNCHANGED claim

Finish(r) == rows' = [rows EXCEPT ![r].status = "done"]

\* (mutant) the issues of the payload are taken as they come.
PayloadOfTheClaim(w, e) == evals[e].predicted = (evals[e].resolved # {})

\* The payload is exactly what the transaction derives now, and the key of
\* the unit's row is the one the evaluation worker computed.
PayloadMatches(w, e) ==
  /\ claim[w].issues = Expected(e)
  /\ evals[e].predicted = (evals[e].resolved # {})

\* ewp_complete_mastery_outbox_batch
CompleteBatch(w) ==
  LET r == claim[w].row IN
  /\ Owns(w) /\ r \in EvalRows
  /\ PayloadMatches(w, r[1])
  /\ evidence' = [k \in Keys |->
       IF k[2] = 0 /\ k[1] \in claim[w].issues /\ ~Written(k)
       THEN Original ELSE evidence[k]]
  /\ practised' = practised \cup {r[1]}
  /\ Finish(r)
  /\ ReleaseUnlessLost(w)
  /\ UNCHANGED <<evals, reviews, line>>

\* (mutant) the tail of the claim is not derived again.
TailOfTheClaim(w, i) == HasEvidence(i)

\* The tail the payload supersedes is the one derived now.
TailMatches(w, i) == HasEvidence(i) /\ claim[w].tail = EffectiveRow(i)

\* (mutant) the tail need not carry the decision before the review.
InAnySequence(i, n) == Changes(i, n)

\* ewp_check_evidence_correction: the tail carries the decision before the
\* cited review, which changes it.
InSequence(i, n) == Cause(EffectiveRow(i)) = Before(i, n) /\ Changes(i, n)

\* ewp_complete_review_correction
CompleteCorrection(w) ==
  LET r == claim[w].row IN
  /\ Owns(w) /\ r \in Reviewed
  /\ TailMatches(w, r[1]) /\ InSequence(r[1], r[2])
  /\ evidence' = IF Written(r) THEN evidence
                 ELSE [evidence EXCEPT ![r] =
                        [from |-> claim[w].tail, proj |-> Projection(r[1], r[2]),
                         written |-> TRUE]]
  /\ Finish(r)
  /\ ReleaseUnlessLost(w)
  /\ UNCHANGED <<evals, reviews, line, practised>>

\* (mutant) attempts are not limited.
ReclaimForever(r) == rows' = [rows EXCEPT ![r].status = "pending"]

\* An attempt ended without success: another one, or the row has failed.
Reclaim(r) == rows' = [rows EXCEPT ![r].status =
  IF rows[r].attempts >= MaxAttempts THEN "failed" ELSE "pending"]

\* ewp_fail_mastery_outbox, after any exception of the pass
FailRow(w) ==
  /\ Owns(w)
  /\ Reclaim(claim[w].row)
  /\ Release(w)
  /\ UNCHANGED <<evals, reviews, line, evidence, practised>>

\* The pass dies, or neither of its calls gets through.
GiveUp(w) ==
  /\ Holds(w)
  /\ Release(w)
  /\ UNCHANGED <<evals, reviews, rows, line, evidence, practised>>

\* ewp_sweep_stale_mastery_outbox, for one row whose lease expired
Sweep(r) ==
  /\ rows[r].status = "processing"
  /\ Reclaim(r)
  /\ UNCHANGED <<evals, reviews, line, evidence, practised, claim>>

Pass(w) == \/ \E r \in EvalRows : ClaimEvaluationRow(w, r)
           \/ NoEvaluationRow(w)
           \/ \E r \in Reviewed : ClaimCorrection(w, r)
           \/ NoCorrection(w)
           \/ CompleteBatch(w) \/ CompleteCorrection(w)
           \/ FailRow(w) \/ GiveUp(w)

Next == \/ \E e \in Evaluations : StartEvaluation(e) \/ CompleteEvaluation(e)
        \/ \E i \in Issues, d \in Decisions : Review(i, d)
        \/ \E i \in Issues, n \in 1..MaxReviews : EnqueueCorrection(i, n)
        \/ \E w \in Workers : Pass(w)
        \/ \E r \in Rows : Sweep(r)

Spec == Init /\ [][Next]_vars

\* The scheduler starts a pass and sweeps every 20 seconds.
FairSpec ==
  /\ Spec
  /\ \A w \in Workers : WF_vars(Pass(w))
  /\ \A r \in Rows : WF_vars(Sweep(r))

-----------------------------------------------------------------------------
(* Properties *)

\* Evidence of an issue is one chain: corrections start from a row that is
\* there, no row has two successors and one row is effective, whatever the
\* order in which passes claim, crash and complete.
LinearChain ==
  /\ \A k \in Keys : Written(k) /\ k[2] # 0 =>
       /\ evidence[k].from \in Keys
       /\ evidence[k].from[1] = k[1] /\ Written(evidence[k].from)
  /\ \A k, l \in Keys : Written(k) /\ Written(l) /\ evidence[k].from = evidence[l].from
       => k = l \/ evidence[k].from = NoRow
  /\ \A i \in Issues : \A k, l \in Tails(i) : k = l

\* A correction changes what it corrects, carries the projection its
\* decision calls for, and never repeats a decision of the row it supersedes.
CorrectionsFit ==
  \A k \in Keys : Written(k) /\ k[2] # 0 =>
    LET p == evidence[k].from IN
    /\ Cause(k) # Cause(p)
    /\ Cause(k) = "confirmed" => evidence[k].proj = 0
    /\ Cause(k) = "reclassified" => evidence[k].proj = k[2]
    /\ Cause(k) = "invalidated" => evidence[k].proj = evidence[p].proj

\* The row of an evaluation is done together with its evidence: the unit's, and
\* that of every issue it resolved which no review has withdrawn by then. A
\* review between claim and completion counts, since the payload is compared
\* with what the transaction derives.
DrainFollowsReviews ==
  [][\A e \in Evaluations :
       rows[<<e, 0>>].status # "done" /\ rows'[<<e, 0>>].status = "done" =>
         /\ e \in practised'
         /\ \A i \in evals[e].resolved : Written(<<i, 0>>)' <=> ~Invalidated(i)]_vars

\* effective_user_topic_mastery_evidence, what planner and level read
Fold(i) == {k \in Tails(i) : Cause(k) # "invalidated" /\ ~Invalidated(i)}

\* Every review that changed the decision on an issue had its correction.
AllCorrected(i) ==
  \A n \in 1..Len(reviews[i]) : Changes(i, n) => rows[<<i, n>>].status = "done"

\* Once every correction owed to an issue has been applied, in whatever
\* order, the fold agrees with the effective decision: nothing for an
\* invalidated issue, one row caused by that decision otherwise.
FoldAgreesWhenDone ==
  \A i \in Issues : HasEvidence(i) /\ AllCorrected(i) =>
    IF Invalidated(i) THEN Fold(i) = {}
    ELSE \E k \in Keys : Fold(i) = {k} /\ Cause(k) = Effective(i)

\* The classification too is the latest one: corrections land in the order of
\* the reviews, so the fold carries the override of the latest review.
FoldHonoursLatestReview ==
  \A i \in Issues :
    HasEvidence(i) /\ AllCorrected(i) /\ Effective(i) = "reclassified" =>
      \E n \in 1..Len(reviews[i]) :
        /\ evidence[EffectiveRow(i)].proj = n
        /\ \A m \in n..Len(reviews[i]) : ~(m > n /\ Changes(i, m))

-----------------------------------------------------------------------------
(* What the outbox promises its producers: a row that was enqueued is        *)
(* delivered by one of a bounded number of attempts or given up, and what it *)
(* delivers is written once.                                                 *)

Verdict(r) == CASE rows[r].status = "none" -> "none"
                [] rows[r].status \in Open -> "open"
                [] OTHER -> "decided"
Delivered(r) == IF r \in EvalRows THEN r[1] \in practised ELSE Written(r)
JobStatus(r) == IF rows[r].status = "processing" THEN "running" ELSE rows[r].status

Promised == INSTANCE LeasedJobs WITH
  Items <- Rows, Gens <- {1},
  verdict <- [r \in Rows |-> Verdict(r)],
  effects <- [r \in Rows |-> IF Delivered(r) THEN 1 ELSE 0],
  status <- [j \in Rows \X {1} |-> JobStatus(j[1])],
  attempts <- [j \in Rows \X {1} |-> rows[j[1]].attempts]

\* The outbox implements the table of leased jobs: late completions, swept
\* leases, lost replies and rejected payloads are invisible, nothing is
\* delivered twice or after it was given up.
ImplementsLeasedJobs == Promised!Spec

\* Also in time: a row is claimed, and a claimed one comes back or ends.
ImplementsFairLeasedJobs == Promised!FairSpec
=============================================================================
