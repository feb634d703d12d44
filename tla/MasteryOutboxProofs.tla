------------------------ MODULE MasteryOutboxProofs ------------------------
(***************************************************************************)
(* Proofs about MasteryOutbox for any number of issues, evaluations, drain *)
(* passes, attempts and reviews.                                           *)
(***************************************************************************)
EXTENDS MasteryOutbox, FiniteSetTheorems, TLAPS

\* A row starts without attempts, a pending one has an attempt left.
Budget ==
  \A r \in Rows : /\ rows[r].status = "none" => rows[r].attempts = 0
                  /\ rows[r].status = "pending" => rows[r].attempts < MaxAttempts

\* A pass that holds something holds a row; the issues it was shown are those
\* the evaluation of the row may have resolved.
HeldRows ==
  \A w \in Workers : Holds(w) =>
    /\ claim[w].row \in Rows
    /\ claim[w].row \in EvalRows =>
         \A i \in claim[w].issues : RewrittenIn[i] = claim[w].row[1]

\* An evaluation resolves issues of the answer it rewrites.
ResolvedHere == \A e \in Evaluations : \A i \in evals[e].resolved : RewrittenIn[i] = e

\* Corrections are for reviews that changed the decision.
Enqueued ==
  \A i \in Issues, n \in 1..MaxReviews : rows[<<i, n>>].status # "none" =>
    n <= Len(reviews[i]) /\ Changes(i, n)

\* Evidence is there when its row is done, and only then.
DoneMeansWritten ==
  /\ \A r \in Reviewed : rows[r].status = "done" <=> Written(r)
  /\ \A e \in Evaluations : rows[<<e, 0>>].status = "done" <=> e \in practised
  /\ \A i \in Issues : Written(<<i, 0>>) => rows[<<RewrittenIn[i], 0>>].status = "done"

\* Evidence of an issue begins with its original assertion.
Roots ==
  \A k \in Keys : Written(k) =>
    /\ Written(<<k[1], 0>>)
    /\ k[2] = 0 => evidence[k].from = NoRow

\* The reviews of an issue whose correction is still to come, those that lead
\* to decision d and those that start from it.
Owed(i) == {n \in 1..Len(reviews[i]) : Changes(i, n) /\ ~Written(<<i, n>>)}
Into(i, d) == {n \in Owed(i) : reviews[i][n] = d}
OutOf(i, d) == {n \in Owed(i) : Before(i, n) = d}

\* The decision the effective evidence row stands for.
Reached(i) == IF HasEvidence(i) THEN Cause(EffectiveRow(i)) ELSE "confirmed"
One(p) == IF p THEN 1 ELSE 0

\* What is still owed leads from the decision the evidence has reached to the
\* effective one: reviews are a walk over the decisions, and so is every part
\* of it that was applied, in whatever order.
Balanced ==
  \A i \in Issues, d \in Decisions :
    Cardinality(Into(i, d)) + One(d = Reached(i))
      = Cardinality(OutOf(i, d)) + One(d = Effective(i))

Typed == TypeOK /\ Budget /\ HeldRows /\ ResolvedHere
RowInv == Enqueued /\ DoneMeansWritten
ChainInv == Roots /\ LinearChain /\ CorrectionsFit
IInv == Typed /\ RowInv /\ ChainInv /\ Balanced
-----------------------------------------------------------------------------
(* Rows and keys are pairs *)

\* The kinds of rows and keys do not overlap.
LEMMA Pairs ==
  /\ \A k \in Keys : k[1] \in Issues /\ k[2] \in 0..MaxReviews /\ k = <<k[1], k[2]>>
  /\ \A i \in Issues, n \in 0..MaxReviews : <<i, n>> \in Keys
  /\ \A r \in Reviewed : r[1] \in Issues /\ r[2] \in 1..MaxReviews /\ r = <<r[1], r[2]>>
  /\ \A i \in Issues, n \in 1..MaxReviews : <<i, n>> \in Reviewed
  /\ \A r \in EvalRows : r[1] \in Evaluations /\ r = <<r[1], 0>>
  /\ \A e \in Evaluations : <<e, 0>> \in EvalRows
  /\ Reviewed \subseteq Keys /\ Reviewed \subseteq Rows /\ EvalRows \subseteq Rows
  /\ EvalRows \cap Reviewed = {}
  /\ \A i \in Issues : <<i, 0>> \in Keys /\ <<i, 0>> \notin Reviewed
  /\ NoRow \notin Keys /\ NoRow \notin Rows
  /\ \A k \in Keys : k[2] # 0 => k \in Reviewed
  /\ MaxReviews \in Nat /\ MaxAttempts \in Nat /\ MaxAttempts > 0
BY BoundAssumption, NoRowAssumption DEF Keys, Reviewed, Rows, EvalRows

\* The effective row of an issue is one of its tails.
LEMMA EffectiveIsTail ==
  ASSUME NEW i \in Issues
  PROVE  /\ HasEvidence(i) => EffectiveRow(i) \in Tails(i)
         /\ ~HasEvidence(i) => EffectiveRow(i) = NoRow
         /\ \A k \in Tails(i) : k \in Keys /\ k[1] = i /\ Written(k) /\ ~HasSuccessor(k)
BY DEF EffectiveRow, HasEvidence, Tails

\* The decision before a review, the effective one included.
LEMMA BeforeType ==
  ASSUME TypeOK, NEW i \in Issues
  PROVE  /\ reviews[i] \in Seq(Decisions) /\ Len(reviews[i]) \in 0..MaxReviews
         /\ \A n \in 1..Len(reviews[i]) : reviews[i][n] \in Decisions
         /\ \A n \in 1..(Len(reviews[i]) + 1) : Before(i, n) \in Decisions
         /\ Effective(i) \in Decisions
<1>1. /\ reviews[i] \in Seq(Decisions) /\ Len(reviews[i]) \in Nat
      /\ Len(reviews[i]) <= MaxReviews
  BY DEF TypeOK
<1>2. \A n \in 1..Len(reviews[i]) : reviews[i][n] \in Decisions
  BY <1>1
<1>3. ASSUME NEW n \in 1..(Len(reviews[i]) + 1)
      PROVE  Before(i, n) \in Decisions
  <2>1. CASE n = 1
    BY <2>1 DEF Before, Decisions
  <2>2. CASE n # 1
    <3>1. n - 1 \in 1..Len(reviews[i])
      BY <1>1, <2>2
    <3>2. QED
      BY <1>2, <2>2, <3>1 DEF Before
  <2>3. QED
    BY <2>1, <2>2
<1>4. Len(reviews[i]) + 1 \in 1..(Len(reviews[i]) + 1)
  BY <1>1
<1>5. Effective(i) \in Decisions
  BY <1>3, <1>4 DEF Effective
<1>6. QED
  BY <1>1, <1>2, <1>3, <1>5, Pairs
-----------------------------------------------------------------------------
(* What the operations write, and that it has its type *)

\* A row is enqueued, or it was there and nothing happens.
LEMMA EnqueueEffect ==
  ASSUME TypeOK, Budget, NEW r \in Rows, Enqueue(r)
  PROVE  /\ rows' \in [Rows -> RowRecord] /\ line' \in Seq(Rows)
         /\ \A q \in Rows \ {r} : rows'[q] = rows[q]
         /\ rows[r].status # "none" => UNCHANGED <<rows, line>>
         /\ rows[r].status = "none" => /\ rows' = [rows EXCEPT ![r].status = "pending"]
                                       /\ rows'[r] = [status |-> "pending", attempts |-> 0]
<1>1. rows[r] \in RowRecord /\ rows \in [Rows -> RowRecord] /\ line \in Seq(Rows)
  BY DEF TypeOK
<1>2. CASE rows[r].status = "none"
  <2>1. rows' = [rows EXCEPT ![r].status = "pending"] /\ line' = Append(line, r)
    BY <1>2 DEF Enqueue
  <2>2. rows[r].attempts = 0
    BY <1>2 DEF Budget
  <2>3. [status |-> "pending", attempts |-> 0] \in RowRecord
    BY Pairs DEF RowRecord, Open
  <2>4. rows'[r] = [status |-> "pending", attempts |-> 0]
    BY <1>1, <2>1, <2>2 DEF RowRecord
  <2>5. QED
    BY <1>1, <1>2, <2>1, <2>3, <2>4
<1>3. CASE rows[r].status # "none"
  BY <1>1, <1>3 DEF Enqueue
<1>4. QED
  BY <1>2, <1>3

\* One row is written.
LEMMA OneRow ==
  ASSUME TypeOK, NEW r \in Rows, NEW x \in RowRecord, rows' = [rows EXCEPT ![r] = x]
  PROVE  /\ rows' \in [Rows -> RowRecord]
         /\ rows'[r] = x /\ \A q \in Rows \ {r} : rows'[q] = rows[q]
BY DEF TypeOK

\* A lease, the end of a row and the end of an attempt each write one row.
LEMMA RowEffects ==
  ASSUME TypeOK, NEW r \in Rows
  PROVE  /\ rows[r].status = "pending" /\ rows[r].attempts < MaxAttempts /\ Lease(r) =>
              \E x \in RowRecord :
                /\ rows' = [rows EXCEPT ![r] = x]
                /\ x.status = "processing" /\ x.attempts = rows[r].attempts + 1
         /\ Finish(r) =>
              \E x \in RowRecord :
                /\ rows' = [rows EXCEPT ![r] = x]
                /\ x.status = "done" /\ x.attempts = rows[r].attempts
         /\ Reclaim(r) =>
              \E x \in RowRecord :
                /\ rows' = [rows EXCEPT ![r] = x] /\ x.attempts = rows[r].attempts
                /\ x.status = IF rows[r].attempts >= MaxAttempts THEN "failed" ELSE "pending"
<1>1. rows[r] \in RowRecord /\ rows \in [Rows -> RowRecord]
  BY DEF TypeOK
<1>2. rows[r] = [status |-> rows[r].status, attempts |-> rows[r].attempts]
      /\ rows[r].attempts \in 0..MaxAttempts
  BY <1>1 DEF RowRecord
<1>3. ASSUME rows[r].status = "pending", rows[r].attempts < MaxAttempts, Lease(r)
      PROVE  \E x \in RowRecord :
                /\ rows' = [rows EXCEPT ![r] = x]
                /\ x.status = "processing" /\ x.attempts = rows[r].attempts + 1
  <2> DEFINE x == [status |-> "processing", attempts |-> rows[r].attempts + 1]
  <2>1. x \in RowRecord
    BY <1>2, <1>3, Pairs DEF RowRecord, Open
  <2>2. rows' = [rows EXCEPT ![r] = x]
    BY <1>1, <1>3 DEF Lease
  <2>3. QED
    BY <2>1, <2>2
<1>4. ASSUME Finish(r)
      PROVE  \E x \in RowRecord :
                /\ rows' = [rows EXCEPT ![r] = x]
                /\ x.status = "done" /\ x.attempts = rows[r].attempts
  <2> DEFINE x == [status |-> "done", attempts |-> rows[r].attempts]
  <2>1. x \in RowRecord
    BY <1>2 DEF RowRecord
  <2>2. [rows[r] EXCEPT !.status = "done"] = x
    BY <1>2
  <2>3. rows' = [rows EXCEPT ![r] = [rows[r] EXCEPT !.status = "done"]]
    BY <1>1, <1>4 DEF Finish
  <2>4. QED
    BY <2>1, <2>2, <2>3
<1>5. ASSUME Reclaim(r)
      PROVE  \E x \in RowRecord :
                /\ rows' = [rows EXCEPT ![r] = x] /\ x.attempts = rows[r].attempts
                /\ x.status = IF rows[r].attempts >= MaxAttempts THEN "failed" ELSE "pending"
  <2> DEFINE st == IF rows[r].attempts >= MaxAttempts THEN "failed" ELSE "pending"
             x == [status |-> st, attempts |-> rows[r].attempts]
  <2>1. x \in RowRecord
    BY <1>2 DEF RowRecord, Open
  <2>2. [rows[r] EXCEPT !.status = st] = x
    BY <1>2
  <2>3. rows' = [rows EXCEPT ![r] = [rows[r] EXCEPT !.status = st]]
    BY <1>1, <1>5 DEF Reclaim
  <2>4. QED
    BY <2>1, <2>2, <2>3
<1>6. QED
  BY <1>3, <1>4, <1>5

\* A pass stops holding, or keeps what it holds.
LEMMA ReleaseEffect ==
  ASSUME TypeOK, HeldRows, NEW w \in Workers, ReleaseUnlessLost(w)
  PROVE  claim' \in [Workers -> ClaimRecord] /\ HeldRows'
<1>1. Idle \in ClaimRecord
  BY Pairs DEF Idle, ClaimRecord
<1>2. CASE UNCHANGED claim
  BY <1>2 DEF TypeOK, HeldRows, Holds
<1>3. CASE claim' = [claim EXCEPT ![w] = Idle]
  <2>1. claim' \in [Workers -> ClaimRecord]
    BY <1>1, <1>3 DEF TypeOK
  <2>2. ~Holds(w)' /\ \A v \in Workers \ {w} : claim'[v] = claim[v]
    BY <1>3 DEF TypeOK, Holds, Idle
  <2>3. QED
    BY <2>1, <2>2 DEF HeldRows, Holds
<1>4. QED
  BY <1>2, <1>3 DEF ReleaseUnlessLost, Release

\* A pass leases a row and holds it.
LEMMA ClaimEffect ==
  ASSUME TypeOK, HeldRows, NEW w \in Workers, NEW r \in Rows, NEW c,
         c \in ClaimRecord, c.row = r,
         r \in EvalRows => \A i \in c.issues : RewrittenIn[i] = r[1],
         claim' = [claim EXCEPT ![w] = c]
  PROVE  claim' \in [Workers -> ClaimRecord] /\ HeldRows'
<1>1. claim' \in [Workers -> ClaimRecord]
  BY DEF TypeOK
<1>2. claim'[w] = c /\ \A v \in Workers \ {w} : claim'[v] = claim[v]
  BY DEF TypeOK
<1>3. QED
  BY <1>1, <1>2 DEF HeldRows, Holds

\* What a pass holds after a claim.
LEMMA HeldClaim ==
  ASSUME TypeOK, NEW r \in Rows, rows[r].attempts < MaxAttempts,
         NEW js \in SUBSET Issues, NEW t \in Keys \cup {NoRow}
  PROVE  /\ Hold(r, js, t) \in ClaimRecord
         /\ Hold(r, js, t).row = r /\ Hold(r, js, t).issues = js
<1>1. rows[r].attempts + 1 \in 0..MaxAttempts
  BY Pairs DEF TypeOK, RowRecord
<1>2. QED
  BY <1>1 DEF ClaimRecord, Hold

\* An attempt ends: the row is done, failed or pending again.
LEMMA EndedRow ==
  ASSUME TypeOK, Budget, NEW r \in Rows, rows[r].status = "processing",
         Finish(r) \/ Reclaim(r)
  PROVE  /\ rows' \in [Rows -> RowRecord] /\ Budget'
         /\ \A q \in Rows \ {r} : rows'[q] = rows[q]
         /\ rows'[r].attempts = rows[r].attempts
         /\ Finish(r) => rows'[r].status = "done"
         /\ Reclaim(r) => rows'[r].status \in {"pending", "failed"}
<1>1. PICK x \in RowRecord :
        /\ rows' = [rows EXCEPT ![r] = x] /\ x.attempts = rows[r].attempts
        /\ Finish(r) => x.status = "done"
        /\ Reclaim(r) => x.status = IF rows[r].attempts >= MaxAttempts THEN "failed" ELSE "pending"
  <2>1. CASE Finish(r)
    <3>1. ~Reclaim(r)
      BY <2>1, RowEffects DEF TypeOK
    <3>2. QED
      BY <2>1, <3>1, RowEffects
  <2>2. CASE Reclaim(r)
    <3>1. ~Finish(r)
      BY <2>2, RowEffects DEF TypeOK
    <3>2. QED
      BY <2>2, <3>1, RowEffects
  <2>3. QED
    BY <2>1, <2>2
<1>2. /\ rows' \in [Rows -> RowRecord]
      /\ rows'[r] = x /\ \A q \in Rows \ {r} : rows'[q] = rows[q]
  BY <1>1, OneRow
<1>3. rows[r].attempts \in Nat /\ MaxAttempts \in Nat
  BY Pairs DEF TypeOK, RowRecord
<1>4. QED
  BY <1>1, <1>2, <1>3 DEF Budget

\* Starting and completing an evaluation.
LEMMA EvaluationTyped ==
  ASSUME Typed, NEW e \in Evaluations, StartEvaluation(e) \/ CompleteEvaluation(e)
  PROVE  Typed'
<1>1. PriorActive(e) \in SUBSET Issues /\ \A i \in PriorActive(e) : RewrittenIn[i] = e
  BY DEF PriorActive
<1>2. evals \in [Evaluations -> EvalRecord] /\ evals[e] \in EvalRecord
  BY DEF Typed, TypeOK
<1>3. CASE StartEvaluation(e)
  <2>1. evals' = [evals EXCEPT ![e].phase = "running", ![e].seen = PriorActive(e)]
    BY <1>3 DEF StartEvaluation
  <2>2. /\ evals' \in [Evaluations -> EvalRecord]
        /\ \A f \in Evaluations : evals'[f].resolved = evals[f].resolved
    BY <1>1, <1>2, <2>1 DEF EvalRecord
  <2>3. QED
    BY <1>3, <2>2 DEF Typed, StartEvaluation, TypeOK, Budget, HeldRows, Holds, ResolvedHere
<1>4. CASE CompleteEvaluation(e)
  <2>1. PICK persisted \in SUBSET evals[e].seen :
          evals' = [evals EXCEPT ![e].phase = "done",
                                 ![e].predicted = evals[e].seen \ persisted # {},
                                 ![e].resolved = PriorActive(e) \ persisted]
    BY <1>4 DEF CompleteEvaluation
  <2>2. PriorActive(e) \ persisted \in SUBSET Issues
    BY <1>1
  <2>3. evals' \in [Evaluations -> EvalRecord]
    BY <1>2, <2>1, <2>2 DEF EvalRecord
  <2>4. /\ evals'[e].resolved = PriorActive(e) \ persisted
        /\ \A f \in Evaluations \ {e} : evals'[f].resolved = evals[f].resolved
    BY <1>2, <2>1 DEF EvalRecord
  <2>5. rows' \in [Rows -> RowRecord] /\ line' \in Seq(Rows) /\ Budget'
    <3>1. CASE Enqueue(<<e, 0>>)
      BY <3>1, EnqueueEffect, Pairs DEF Typed, Budget
    <3>2. CASE UNCHANGED <<rows, line>>
      BY <3>2 DEF Typed, TypeOK, Budget
    <3>3. QED
      BY <1>4, <3>1, <3>2 DEF CompleteEvaluation
  <2>6. ResolvedHere'
    BY <1>1, <2>4 DEF Typed, ResolvedHere
  <2>7. QED
    BY <1>4, <2>3, <2>5, <2>6 DEF Typed, CompleteEvaluation, TypeOK, HeldRows, Holds
<1>5. QED
  BY <1>3, <1>4

\* A review and the enqueueing of its correction.
LEMMA ReviewTyped ==
  ASSUME Typed, NEW i \in Issues,
         (\E d \in Decisions : Review(i, d))
           \/ (\E n \in 1..MaxReviews : EnqueueCorrection(i, n))
  PROVE  Typed'
<1>1. ASSUME NEW d \in Decisions, Review(i, d)
      PROVE  Typed'
  <2>1. reviews' = [reviews EXCEPT ![i] = Append(reviews[i], d)]
    BY <1>1 DEF Review
  <2>2. reviews[i] \in Seq(Decisions) /\ Len(reviews[i]) < MaxReviews
    BY <1>1 DEF Typed, TypeOK, Review
  <2>3. /\ Append(reviews[i], d) \in Seq(Decisions)
        /\ Len(Append(reviews[i], d)) <= MaxReviews
    BY <2>2, Pairs
  <2>4. /\ reviews' \in [Issues -> Seq(Decisions)]
        /\ \A j \in Issues : Len(reviews'[j]) <= MaxReviews
    BY <2>1, <2>3 DEF Typed, TypeOK
  <2>5. QED
    BY <1>1, <2>4 DEF Typed, Review, TypeOK, Budget, HeldRows, Holds, ResolvedHere
<1>2. ASSUME NEW n \in 1..MaxReviews, EnqueueCorrection(i, n)
      PROVE  Typed'
  <2>1. <<i, n>> \in Rows
    BY Pairs
  <2>2. rows' \in [Rows -> RowRecord] /\ line' \in Seq(Rows) /\ Budget'
    BY <1>2, <2>1, EnqueueEffect, Pairs DEF Typed, Budget, EnqueueCorrection
  <2>3. QED
    BY <1>2, <2>2 DEF Typed, EnqueueCorrection, TypeOK, HeldRows, Holds, ResolvedHere
<1>3. QED
  BY <1>1, <1>2

\* Passes claim rows, or find none.
LEMMA ClaimTyped ==
  ASSUME Typed, NEW w \in Workers,
         \/ \E r \in EvalRows : ClaimEvaluationRow(w, r)
         \/ NoEvaluationRow(w)
         \/ \E r \in Reviewed : ClaimCorrection(w, r)
         \/ NoCorrection(w)
  PROVE  Typed'
<1>1. ASSUME NEW r \in Rows, NEW js \in SUBSET Issues, NEW t \in Keys \cup {NoRow},
             r \in EvalRows => \A i \in js : RewrittenIn[i] = r[1],
             rows[r].status = "pending", Lease(r),
             claim' = [claim EXCEPT ![w] = Hold(r, js, t)],
             UNCHANGED <<evals, reviews, line, evidence, practised>>
      PROVE  Typed'
  <2>1. rows[r].attempts < MaxAttempts
    BY <1>1 DEF Typed, Budget
  <2>2. claim' \in [Workers -> ClaimRecord] /\ HeldRows'
    <3> DEFINE c == Hold(r, js, t)
    <3>1. c \in ClaimRecord /\ c.row = r /\ c.issues = js
      BY <2>1, HeldClaim DEF Typed
    <3>2. claim' = [claim EXCEPT ![w] = c]
      BY <1>1
    <3>3. r \in EvalRows => \A i \in c.issues : RewrittenIn[i] = r[1]
      BY <1>1, <3>1
    <3>4. TypeOK /\ HeldRows
      BY DEF Typed
    <3> HIDE DEF c
    <3>5. QED
      BY <3>1, <3>2, <3>3, <3>4, ClaimEffect
  <2>3. rows' \in [Rows -> RowRecord] /\ Budget'
    <3>1. PICK x \in RowRecord : rows' = [rows EXCEPT ![r] = x] /\ x.status = "processing"
      BY <1>1, <2>1, RowEffects DEF Typed
    <3>2. TypeOK /\ Budget
      BY DEF Typed
    <3>3. r \in Rows
      BY <1>1
    <3>4. /\ rows' \in [Rows -> RowRecord]
          /\ rows'[r] = x /\ \A q \in Rows \ {r} : rows'[q] = rows[q]
      BY <3>1, <3>2, <3>3, OneRow
    <3>5. QED
      BY <3>1, <3>2, <3>3, <3>4 DEF Budget
  <2>4. QED
    BY <1>1, <2>2, <2>3 DEF Typed, TypeOK, ResolvedHere
<1>2. ASSUME NEW r \in EvalRows, ClaimEvaluationRow(w, r)
      PROVE  Typed'
  <2>1. r \in Rows /\ r[1] \in Evaluations
    BY Pairs
  <2>2. evals[r[1]].resolved \in SUBSET Issues
    BY <2>1 DEF Typed, TypeOK, EvalRecord
  <2>3. /\ Expected(r[1]) \in SUBSET Issues
        /\ \A i \in Expected(r[1]) : RewrittenIn[i] = r[1]
    BY <2>1, <2>2 DEF Expected, Typed, ResolvedHere
  <2>4. rows[r].status = "pending"
    BY <1>2 DEF ClaimEvaluationRow, Claimable
  <2>5. QED
    BY <1>1, <1>2, <2>1, <2>3, <2>4 DEF ClaimEvaluationRow
<1>3. ASSUME NEW r \in Reviewed, ClaimCorrection(w, r)
      PROVE  Typed'
  <2>1. r \in Rows /\ r \notin EvalRows /\ r[1] \in Issues
    BY Pairs
  <2>2. EffectiveRow(r[1]) \in Keys \cup {NoRow}
    BY <2>1, EffectiveIsTail
  <2>3. rows[r].status = "pending"
    BY <1>3 DEF ClaimCorrection, Claimable
  <2>4. QED
    BY <1>1, <1>3, <2>1, <2>2, <2>3 DEF ClaimCorrection
<1>4. ASSUME NEW c, c \in ClaimRecord, c.pc # "holding", claim' = [claim EXCEPT ![w] = c],
             UNCHANGED <<evals, reviews, rows, line, evidence, practised>>
      PROVE  Typed'
  <2>1. claim' \in [Workers -> ClaimRecord] /\ claim'[w] = c
        /\ \A v \in Workers \ {w} : claim'[v] = claim[v]
    BY <1>4 DEF Typed, TypeOK
  <2>2. HeldRows'
    BY <1>4, <2>1 DEF HeldRows, Holds, Typed
  <2>3. QED
    BY <1>4, <2>1, <2>2 DEF Typed, TypeOK, Budget, ResolvedHere
<1>5. CASE NoEvaluationRow(w)
  <2> DEFINE c == [claim[w] EXCEPT !.pc = "second"]
  <2>1. c \in ClaimRecord /\ c.pc # "holding" /\ claim' = [claim EXCEPT ![w] = c]
    BY <1>5 DEF NoEvaluationRow, Typed, TypeOK, ClaimRecord
  <2>2. QED
    BY <1>4, <1>5, <2>1 DEF NoEvaluationRow
<1>6. CASE NoCorrection(w)
  <2>1. Idle \in ClaimRecord /\ Idle.pc # "holding"
    BY Pairs DEF Idle, ClaimRecord
  <2>2. QED
    BY <1>4, <1>6, <2>1 DEF NoCorrection
<1>7. QED
  BY <1>2, <1>3, <1>5, <1>6

\* The projection of a correction in sequence.
LEMMA ProjectionType ==
  ASSUME TypeOK, NEW i \in Issues, NEW n \in 1..MaxReviews, HasEvidence(i)
  PROVE  Projection(i, n) \in 0..MaxReviews
<1>1. EffectiveRow(i) \in Keys
  BY EffectiveIsTail
<1>2. evidence[EffectiveRow(i)].proj \in 0..MaxReviews
  BY <1>1 DEF TypeOK, EvidenceRecord
<1>3. QED
  BY <1>2, Pairs DEF Projection

\* A pass ends what it holds.
LEMMA EndTyped ==
  ASSUME Typed, NEW w \in Workers,
         CompleteBatch(w) \/ CompleteCorrection(w) \/ FailRow(w) \/ GiveUp(w)
  PROVE  Typed'
<1> DEFINE r == claim[w].row
<1>1. r \in Rows /\ claim[w] \in ClaimRecord
  BY DEF CompleteBatch, CompleteCorrection, FailRow, GiveUp, Owns, Holds, Typed, TypeOK, HeldRows
<1>2. claim' \in [Workers -> ClaimRecord] /\ HeldRows'
  <2>1. ReleaseUnlessLost(w)
    BY DEF CompleteBatch, CompleteCorrection, FailRow, GiveUp, ReleaseUnlessLost
  <2>2. QED
    BY <2>1, ReleaseEffect DEF Typed
<1>3. Owns(w) => rows[r].status = "processing"
  BY DEF Owns, Fenced
<1>4. CASE CompleteBatch(w)
  <2>1. rows' \in [Rows -> RowRecord] /\ Budget'
    BY <1>1, <1>3, <1>4, EndedRow DEF CompleteBatch, Typed
  <2>2. r[1] \in Evaluations
    BY <1>4, Pairs DEF CompleteBatch
  <2>3. Original \in EvidenceRecord
    BY Pairs DEF Original, EvidenceRecord
  <2>4. evidence' \in [Keys -> EvidenceRecord]
    BY <1>4, <2>3 DEF CompleteBatch, Typed, TypeOK
  <2>5. practised' \subseteq Evaluations
    BY <1>4, <2>2 DEF CompleteBatch, Typed, TypeOK
  <2>6. UNCHANGED <<evals, reviews, line>>
    BY <1>4 DEF CompleteBatch
  <2>7. QED
    BY <1>2, <2>1, <2>4, <2>5, <2>6 DEF Typed, TypeOK, ResolvedHere
<1>5. CASE CompleteCorrection(w)
  <2>1. rows' \in [Rows -> RowRecord] /\ Budget'
    BY <1>1, <1>3, <1>5, EndedRow DEF CompleteCorrection, Typed
  <2>2. r \in Keys /\ r[1] \in Issues /\ r[2] \in 1..MaxReviews
    BY <1>5, Pairs DEF CompleteCorrection
  <2>3. claim[w].tail \in Keys \cup {NoRow} /\ Projection(r[1], r[2]) \in 0..MaxReviews
    BY <1>1, <1>5, <2>2, ProjectionType DEF CompleteCorrection, TailMatches, ClaimRecord, Typed
  <2>4. evidence' \in [Keys -> EvidenceRecord]
    BY <1>5, <2>2, <2>3 DEF CompleteCorrection, Typed, TypeOK, EvidenceRecord
  <2>5. UNCHANGED <<evals, reviews, line, practised>>
    BY <1>5 DEF CompleteCorrection
  <2>6. QED
    BY <1>2, <2>1, <2>4, <2>5 DEF Typed, TypeOK, ResolvedHere
<1>6. CASE FailRow(w)
  <2>1. rows' \in [Rows -> RowRecord] /\ Budget'
    BY <1>1, <1>3, <1>6, EndedRow DEF FailRow, Typed
  <2>2. QED
    BY <1>2, <1>6, <2>1 DEF FailRow, Typed, TypeOK, ResolvedHere
<1>7. CASE GiveUp(w)
  BY <1>2, <1>7 DEF GiveUp, Typed, TypeOK, Budget, ResolvedHere
<1>8. QED
  BY <1>4, <1>5, <1>6, <1>7

\* A lease expires.
LEMMA SweepTyped ==
  ASSUME Typed, NEW r \in Rows, Sweep(r)
  PROVE  Typed'
<1>1. rows' \in [Rows -> RowRecord] /\ Budget'
  BY EndedRow DEF Sweep, Typed
<1>2. QED
  BY <1>1 DEF Sweep, Typed, TypeOK, HeldRows, Holds, ResolvedHere

\* The types and what they rest on are an invariant.
LEMMA TypedInv == Spec => []Typed
<1>1. Init => Typed
  <2>1. ASSUME Init PROVE TypeOK
    <3>1. /\ NotEvaluated \in EvalRecord /\ Missing \in RowRecord
          /\ Absent \in EvidenceRecord /\ Idle \in ClaimRecord
      BY Pairs DEF NotEvaluated, EvalRecord, Missing, RowRecord, Absent, EvidenceRecord,
                   Idle, ClaimRecord
    <3>2. QED
      BY <2>1, <3>1, Pairs DEF Init, TypeOK
  <2>2. ASSUME Init PROVE Budget /\ HeldRows /\ ResolvedHere
    BY <2>2 DEF Init, Budget, HeldRows, Holds, ResolvedHere, Missing, Idle, NotEvaluated
  <2>3. QED
    BY <2>1, <2>2 DEF Typed
<1>2. Typed /\ [Next]_vars => Typed'
  <2>1. ASSUME Typed, UNCHANGED vars
        PROVE  Typed'
    BY <2>1 DEF vars, Typed, TypeOK, Budget, HeldRows, Holds, ResolvedHere
  <2>2. ASSUME Typed, Next
        PROVE  Typed'
    BY <2>2, EvaluationTyped, ReviewTyped, ClaimTyped, EndTyped, SweepTyped DEF Next, Pass
  <2>3. QED
    BY <2>1, <2>2
<1>3. QED
  BY <1>1, <1>2, PTL DEF Spec

\* The state always has its type: nothing is claimed more often than
\* max_attempts allows, and no correction exceeds the reviews there are.
THEOREM TypeCorrect == Spec => []TypeOK
BY TypedInv, PTL DEF Typed
-----------------------------------------------------------------------------
(* Steps that write no evidence *)

\* Nothing but the queue of rows moves.
Quiet ==
  /\ UNCHANGED <<reviews, evidence, practised>>
  /\ \A q \in Rows :
       /\ rows'[q].status = "done" <=> rows[q].status = "done"
       /\ rows'[q].status # "none" =>
            \/ rows[q].status # "none"
            \/ q \in EvalRows
            \/ q[2] <= Len(reviews[q[1]]) /\ Changes(q[1], q[2])

\* Chains depend on evidence and reviews only.
LEMMA QuietChain ==
  ASSUME UNCHANGED <<reviews, evidence>>
  PROVE  /\ ChainInv => ChainInv'
         /\ Balanced => Balanced'
<1>1. ChainInv => ChainInv'
  BY DEF ChainInv, Roots, LinearChain, CorrectionsFit, Written, Tails, HasSuccessor, Cause
<1>2. ASSUME NEW i \in Issues, NEW d \in Decisions
      PROVE  /\ Into(i, d)' = Into(i, d) /\ OutOf(i, d)' = OutOf(i, d)
             /\ Reached(i)' = Reached(i) /\ Effective(i)' = Effective(i)
  BY DEF Into, OutOf, Owed, Reached, Effective, Before, Changes, Written, Cause,
         HasEvidence, EffectiveRow, Tails, HasSuccessor
<1>3. Balanced => Balanced'
  BY <1>2 DEF Balanced
<1>4. QED
  BY <1>1, <1>3

\* Rows follow evidence.
LEMMA QuietRows ==
  ASSUME RowInv, Quiet
  PROVE  RowInv'
<1>1. Enqueued'
  <2> SUFFICES ASSUME NEW i \in Issues, NEW n \in 1..MaxReviews,
                      rows'[<<i, n>>].status # "none"
               PROVE  n <= Len(reviews[i]) /\ Changes(i, n)
    BY DEF Quiet, Enqueued, Changes, Before
  <2>1. <<i, n>> \in Reviewed /\ <<i, n>> \in Rows /\ <<i, n>> \notin EvalRows
    BY Pairs
  <2>2. CASE rows[<<i, n>>].status # "none"
    BY <2>2 DEF RowInv, Enqueued
  <2>3. CASE rows[<<i, n>>].status = "none"
    BY <2>1, <2>3 DEF Quiet
  <2>4. QED
    BY <2>2, <2>3
<1>2. DoneMeansWritten'
  <2>1. /\ \A i \in Issues : <<RewrittenIn[i], 0>> \in Rows
        /\ \A e \in Evaluations : <<e, 0>> \in Rows
        /\ Reviewed \subseteq Rows
    BY Pairs, EvaluationAssumption
  <2>2. QED
    BY <2>1 DEF RowInv, DoneMeansWritten, Quiet, Written
<1>3. QED
  BY <1>1, <1>2 DEF RowInv

\* Enqueueing a row is quiet.
LEMMA EnqueueQuiet ==
  ASSUME Typed, NEW r \in Rows, Enqueue(r) \/ UNCHANGED <<rows, line>>,
         UNCHANGED <<reviews, evidence, practised>>,
         r \in EvalRows \/ (r[2] <= Len(reviews[r[1]]) /\ Changes(r[1], r[2]))
  PROVE  Quiet
<1>1. CASE Enqueue(r)
  <2>1. /\ \A q \in Rows \ {r} : rows'[q] = rows[q]
        /\ rows'[r] = rows[r] \/ (rows[r].status = "none" /\ rows'[r].status = "pending")
    BY <1>1, EnqueueEffect DEF Typed
  <2>2. QED
    BY <2>1 DEF Quiet
<1>2. CASE UNCHANGED <<rows, line>>
  BY <1>2 DEF Quiet
<1>3. QED
  BY <1>1, <1>2

\* So are claims, and attempts that end without success.
LEMMA MoveQuiet ==
  ASSUME Typed, NEW r \in Rows, UNCHANGED <<reviews, evidence, practised>>,
         \/ rows[r].status = "pending" /\ Lease(r)
         \/ rows[r].status = "processing" /\ Reclaim(r)
  PROVE  Quiet
<1>1. CASE rows[r].status = "pending" /\ Lease(r)
  <2>1. rows[r].attempts < MaxAttempts
    BY <1>1 DEF Typed, Budget
  <2>2. PICK x \in RowRecord : rows' = [rows EXCEPT ![r] = x] /\ x.status = "processing"
    BY <1>1, <2>1, RowEffects DEF Typed
  <2>3. rows'[r] = x /\ \A q \in Rows \ {r} : rows'[q] = rows[q]
    BY <2>2, OneRow DEF Typed
  <2>4. QED
    BY <1>1, <2>2, <2>3 DEF Quiet
<1>2. CASE rows[r].status = "processing" /\ Reclaim(r)
  <2>1. /\ \A q \in Rows \ {r} : rows'[q] = rows[q]
        /\ rows'[r].status \in {"pending", "failed"}
    BY <1>2, EndedRow DEF Typed
  <2>2. QED
    BY <1>2, <2>1 DEF Quiet
<1>3. QED
  BY <1>1, <1>2

\* Every action but a review and a completion is quiet.
LEMMA QuietSteps ==
  ASSUME Typed,
         \/ \E e \in Evaluations : StartEvaluation(e) \/ CompleteEvaluation(e)
         \/ \E i \in Issues, n \in 1..MaxReviews : EnqueueCorrection(i, n)
         \/ \E w \in Workers :
              \/ \E r \in EvalRows : ClaimEvaluationRow(w, r)
              \/ NoEvaluationRow(w)
              \/ \E r \in Reviewed : ClaimCorrection(w, r)
              \/ NoCorrection(w)
              \/ FailRow(w) \/ GiveUp(w)
         \/ \E r \in Rows : Sweep(r)
         \/ UNCHANGED vars
  PROVE  Quiet
<1>1. ASSUME NEW e \in Evaluations, StartEvaluation(e) \/ CompleteEvaluation(e)
      PROVE  Quiet
  <2>1. <<e, 0>> \in Rows /\ <<e, 0>> \in EvalRows
    BY Pairs
  <2>2. QED
    BY <1>1, <2>1, EnqueueQuiet DEF StartEvaluation, CompleteEvaluation
<1>2. ASSUME NEW i \in Issues, NEW n \in 1..MaxReviews, EnqueueCorrection(i, n)
      PROVE  Quiet
  <2>1. <<i, n>> \in Rows
    BY Pairs
  <2>2. QED
    BY <1>2, <2>1, EnqueueQuiet DEF EnqueueCorrection
<1>3. ASSUME NEW w \in Workers, NEW r \in Rows,
             ClaimEvaluationRow(w, r) \/ ClaimCorrection(w, r)
      PROVE  Quiet
  <2>1. rows[r].status = "pending" /\ Lease(r) /\ UNCHANGED <<reviews, evidence, practised>>
    BY <1>3 DEF ClaimEvaluationRow, ClaimCorrection, Claimable
  <2>2. QED
    BY <2>1, MoveQuiet
<1>4. ASSUME NEW w \in Workers, NoEvaluationRow(w) \/ NoCorrection(w) \/ GiveUp(w)
      PROVE  Quiet
  BY <1>4 DEF NoEvaluationRow, NoCorrection, GiveUp, Quiet
<1>5. ASSUME NEW w \in Workers, FailRow(w)
      PROVE  Quiet
  <2>1. claim[w].row \in Rows /\ rows[claim[w].row].status = "processing"
    BY <1>5 DEF FailRow, Owns, Fenced, Typed, HeldRows
  <2>2. QED
    BY <1>5, <2>1, MoveQuiet DEF FailRow
<1>6. ASSUME NEW r \in Rows, Sweep(r)
      PROVE  Quiet
  BY <1>6, MoveQuiet DEF Sweep
<1>7. CASE UNCHANGED vars
  BY <1>7 DEF vars, Quiet
<1>8. QED
  BY <1>1, <1>2, <1>3, <1>4, <1>5, <1>6, <1>7, Pairs
-----------------------------------------------------------------------------
(* A review *)

\* What was decided before stays, and the review is the last decision.
LEMMA ReviewEffect ==
  ASSUME TypeOK, NEW i \in Issues, NEW d \in Decisions, Review(i, d)
  PROVE  /\ \A j \in Issues \ {i} : reviews'[j] = reviews[j]
         /\ Len(reviews[i]) + 1 \in 1..MaxReviews
         /\ Len(reviews'[i]) = Len(reviews[i]) + 1
         /\ reviews'[i][Len(reviews[i]) + 1] = d
         /\ \A n \in 1..Len(reviews[i]) : reviews'[i][n] = reviews[i][n]
         /\ \A n \in 1..(Len(reviews[i]) + 1) : Before(i, n)' = Before(i, n)
         /\ Effective(i)' = d
<1> DEFINE L == Len(reviews[i])
<1>1. reviews[i] \in Seq(Decisions) /\ L \in Nat /\ L < MaxReviews /\ MaxReviews \in Nat
  BY BeforeType, Pairs DEF Review
<1>2. reviews'[i] = Append(reviews[i], d) /\ \A j \in Issues \ {i} : reviews'[j] = reviews[j]
  BY DEF Review, TypeOK
<1>3. /\ Len(reviews'[i]) = L + 1 /\ reviews'[i][L + 1] = d
      /\ \A n \in 1..L : reviews'[i][n] = reviews[i][n]
  BY <1>1, <1>2
<1>4. ASSUME NEW n \in 1..(L + 1)
      PROVE  Before(i, n)' = Before(i, n)
  <2>1. CASE n = 1
    BY <2>1 DEF Before
  <2>2. CASE n # 1
    <3>1. n - 1 \in 1..L
      BY <1>1, <2>2
    <3>2. QED
      BY <1>3, <2>2, <3>1 DEF Before
  <2>3. QED
    BY <2>1, <2>2
<1>5. Effective(i)' = d
  <2>1. L + 2 # 1 /\ (L + 2) - 1 = L + 1 /\ (L + 1) + 1 = L + 2
    BY <1>1
  <2>2. QED
    BY <1>3, <2>1 DEF Effective, Before
<1>6. L + 1 \in 1..MaxReviews
  BY <1>1
<1>7. QED
  BY <1>2, <1>3, <1>4, <1>5, <1>6

\* Reviews that were there changed what they changed.
LEMMA ReviewKeepsChanges ==
  ASSUME TypeOK, NEW i \in Issues, NEW d \in Decisions, Review(i, d),
         NEW j \in Issues, NEW n \in 1..Len(reviews[j])
  PROVE  /\ n <= Len(reviews'[j]) /\ reviews'[j][n] = reviews[j][n]
         /\ Before(j, n)' = Before(j, n) /\ Changes(j, n)' = Changes(j, n)
<1>1. CASE j = i
  <2>1. Len(reviews[i]) \in Nat
    BY BeforeType
  <2>2. QED
    BY <1>1, <2>1, ReviewEffect DEF Changes
<1>2. CASE j # i
  BY <1>2, ReviewEffect DEF Changes, Before
<1>3. QED
  BY <1>1, <1>2

\* Evidence stands for what it stood for.
LEMMA ReviewKeepsCauses ==
  ASSUME TypeOK, RowInv, NEW i \in Issues, NEW d \in Decisions, Review(i, d),
         NEW k \in Keys, Written(k)
  PROVE  Cause(k)' = Cause(k)
<1>1. CASE k[2] = 0
  BY <1>1 DEF Cause
<1>2. CASE k[2] # 0
  <2>1. k \in Reviewed /\ k[1] \in Issues /\ k[2] \in 1..MaxReviews /\ k = <<k[1], k[2]>>
    BY <1>2, Pairs
  <2>2. rows[<<k[1], k[2]>>].status = "done"
    BY <2>1 DEF RowInv, DoneMeansWritten
  <2>3. k[2] <= Len(reviews[k[1]])
    BY <2>1, <2>2 DEF RowInv, Enqueued
  <2>4. k[2] \in 1..Len(reviews[k[1]])
    BY <2>1, <2>3, BeforeType, Pairs
  <2>5. QED
    BY <1>2, <2>1, <2>4, ReviewKeepsChanges DEF Cause
<1>3. QED
  BY <1>1, <1>2

\* Rows and chains survive a review.
LEMMA ReviewRows ==
  ASSUME TypeOK, RowInv, ChainInv, NEW i \in Issues, NEW d \in Decisions, Review(i, d)
  PROVE  RowInv' /\ ChainInv'
<1>1. UNCHANGED <<rows, evidence, practised>>
  BY DEF Review
<1>2. Enqueued'
  <2> SUFFICES ASSUME NEW j \in Issues, NEW n \in 1..MaxReviews, rows[<<j, n>>].status # "none"
               PROVE  n <= Len(reviews'[j]) /\ Changes(j, n)'
    BY <1>1 DEF Enqueued
  <2>1. n \in 1..Len(reviews[j]) /\ Changes(j, n)
    BY BeforeType, Pairs DEF RowInv, Enqueued
  <2>2. QED
    BY <2>1, ReviewKeepsChanges
<1>3. DoneMeansWritten'
  BY <1>1 DEF RowInv, DoneMeansWritten, Written
<1>4. Roots' /\ LinearChain'
  BY <1>1 DEF ChainInv, Roots, LinearChain, Written, Tails, HasSuccessor
<1>5. CorrectionsFit'
  <2> SUFFICES ASSUME NEW k \in Keys, Written(k), k[2] # 0
               PROVE  LET p == evidence[k].from IN
                      /\ Cause(k)' # Cause(p)'
                      /\ Cause(k)' = "confirmed" => evidence[k].proj = 0
                      /\ Cause(k)' = "reclassified" => evidence[k].proj = k[2]
                      /\ Cause(k)' = "invalidated" => evidence[k].proj = evidence[p].proj
    BY <1>1 DEF CorrectionsFit, Written, Cause
  <2> DEFINE p == evidence[k].from
  <2>1. p \in Keys /\ Written(p)
    BY DEF ChainInv, LinearChain
  <2>2. Cause(k)' = Cause(k)
    BY ReviewKeepsCauses
  <2>3. Cause(p)' = Cause(p)
    <3>1. p' = p
      BY <1>1
    <3> HIDE DEF p
    <3>2. QED
      BY <2>1, <3>1, ReviewKeepsCauses DEF Cause
  <2>4. QED
    BY <2>2, <2>3 DEF ChainInv, CorrectionsFit
<1>6. QED
  BY <1>2, <1>3, <1>4, <1>5 DEF RowInv, ChainInv

\* One more element.
LEMMA Counted ==
  ASSUME NEW n \in Nat, NEW S \in SUBSET (1..n), NEW x, x \notin S
  PROVE  /\ IsFiniteSet(S) /\ Cardinality(S) \in Nat
         /\ Cardinality(S \cup {x}) = Cardinality(S) + 1
<1>1. IsFiniteSet(1..n)
  BY FS_Interval
<1>2. IsFiniteSet(S)
  BY <1>1, FS_Subset
<1>3. QED
  BY <1>2, FS_AddElement, FS_CardinalityType

\* What is owed grows by the review, if it changes the decision.
LEMMA ReviewBalance ==
  ASSUME TypeOK, RowInv, ChainInv, Balanced,
         NEW i \in Issues, NEW d \in Decisions, Review(i, d),
         NEW n \in Nat, n = Len(reviews[i]) + 1
  PROVE  Balanced'
<1>1. UNCHANGED <<rows, evidence>>
  BY DEF Review
<1>2. ASSUME NEW j \in Issues
      PROVE  Reached(j)' = Reached(j)
  <2>1. HasEvidence(j)' = HasEvidence(j) /\ EffectiveRow(j)' = EffectiveRow(j)
    BY <1>1 DEF HasEvidence, EffectiveRow, Tails, HasSuccessor, Written
  <2>2. HasEvidence(j) => EffectiveRow(j) \in Keys /\ Written(EffectiveRow(j))
    BY EffectiveIsTail
  <2>3. HasEvidence(j) => Cause(EffectiveRow(j))' = Cause(EffectiveRow(j))
    <3> DEFINE k == EffectiveRow(j)
    <3>1. SUFFICES ASSUME HasEvidence(j) PROVE Cause(k)' = Cause(k)
      OBVIOUS
    <3>2. k \in Keys /\ Written(k) /\ k' = k
      BY <2>1, <2>2, <3>1
    <3> HIDE DEF k
    <3>3. QED
      BY <3>2, ReviewKeepsCauses DEF Cause
  <2>4. QED
    BY <2>1, <2>3 DEF Reached
<1>3. ASSUME NEW j \in Issues \ {i}, NEW c \in Decisions
      PROVE  Into(j, c)' = Into(j, c) /\ OutOf(j, c)' = OutOf(j, c) /\ Effective(j)' = Effective(j)
  <2>1. reviews'[j] = reviews[j]
    BY ReviewEffect
  <2>2. QED
    BY <1>1, <2>1 DEF Into, OutOf, Owed, Effective, Before, Changes, Written
<1>4. n \in 1..MaxReviews /\ n \in Nat /\ Len(reviews[i]) \in Nat /\ n = Len(reviews[i]) + 1
  BY ReviewEffect, BeforeType, Pairs
<1>5. ~Written(<<i, n>>)
  <2>1. rows[<<i, n>>].status = "none"
    BY <1>4 DEF RowInv, Enqueued
  <2>2. QED
    BY <1>4, <2>1, Pairs DEF RowInv, DoneMeansWritten
<1>6. Effective(i) = Before(i, n) /\ reviews'[i][n] = d /\ Before(i, n)' = Before(i, n)
      /\ Effective(i)' = d /\ Len(reviews'[i]) = n
  <2>1. n \in 1..(Len(reviews[i]) + 1)
    BY <1>4
  <2>2. reviews'[i][n] = d /\ Before(i, n)' = Before(i, n)
        /\ Effective(i)' = d /\ Len(reviews'[i]) = n
    BY <1>4, <2>1, ReviewEffect
  <2>3. QED
    BY <1>4, <2>2 DEF Effective
<1>7. Owed(i)' = Owed(i) \cup (IF d # Effective(i) THEN {n} ELSE {})
  <2>1. \A m \in 1..Len(reviews[i]) : Changes(i, m)' = Changes(i, m)
    BY ReviewKeepsChanges
  <2>2. Changes(i, n)' <=> d # Effective(i)
    BY <1>6 DEF Changes
  <2>3. 1..Len(reviews'[i]) = 1..Len(reviews[i]) \cup {n} /\ n \notin 1..Len(reviews[i])
    BY <1>4, <1>6
  <2>4. \A m : Written(<<i, m>>)' = Written(<<i, m>>)
    BY <1>1 DEF Written
  <2>5. QED
    BY <1>5, <2>1, <2>2, <2>3, <2>4 DEF Owed
<1>8. Owed(i) \subseteq 1..Len(reviews[i]) /\ n \notin Owed(i)
  BY <1>4 DEF Owed
<1>9. ASSUME NEW c \in Decisions
      PROVE  /\ Into(i, c)' = IF d # Effective(i) /\ c = d
                                THEN Into(i, c) \cup {n} ELSE Into(i, c)
             /\ OutOf(i, c)' = IF d # Effective(i) /\ c = Effective(i)
                                 THEN OutOf(i, c) \cup {n} ELSE OutOf(i, c)
  <2>1. \A m \in Owed(i) : reviews'[i][m] = reviews[i][m] /\ Before(i, m)' = Before(i, m)
    BY <1>8, ReviewKeepsChanges
  <2>2. Into(i, c)' = {m \in Owed(i)' : reviews'[i][m] = c}
    BY DEF Into
  <2>3. OutOf(i, c)' = {m \in Owed(i)' : Before(i, m)' = c}
    BY DEF OutOf
  <2>4. CASE d # Effective(i)
    <3>1. Owed(i)' = Owed(i) \cup {n}
      BY <1>7, <2>4
    <3>2. QED
      BY <1>6, <2>1, <2>2, <2>3, <2>4, <3>1 DEF Into, OutOf
  <2>5. CASE d = Effective(i)
    <3>1. Owed(i)' = Owed(i)
      BY <1>7, <2>5
    <3>2. QED
      BY <2>1, <2>2, <2>3, <2>5, <3>1 DEF Into, OutOf
  <2>6. QED
    BY <2>4, <2>5
<1>10. ASSUME NEW c \in Decisions
       PROVE  Cardinality(Into(i, c)') + One(c = Reached(i)')
                = Cardinality(OutOf(i, c)') + One(c = Effective(i)')
  <2>1. /\ Into(i, c) \in SUBSET (1..Len(reviews[i])) /\ n \notin Into(i, c)
        /\ OutOf(i, c) \in SUBSET (1..Len(reviews[i])) /\ n \notin OutOf(i, c)
    BY <1>8 DEF Into, OutOf
  <2>2. /\ Cardinality(Into(i, c)) \in Nat
        /\ Cardinality(Into(i, c) \cup {n}) = Cardinality(Into(i, c)) + 1
        /\ Cardinality(OutOf(i, c)) \in Nat
        /\ Cardinality(OutOf(i, c) \cup {n}) = Cardinality(OutOf(i, c)) + 1
    BY <1>4, <2>1, Counted
  <2>3. Cardinality(Into(i, c)) + One(c = Reached(i))
          = Cardinality(OutOf(i, c)) + One(c = Effective(i))
    BY DEF Balanced
  <2>4. Reached(i)' = Reached(i) /\ Effective(i)' = d
    BY <1>2, <1>6
  <2>5. CASE d = Effective(i)
    <3>1. Into(i, c)' = Into(i, c) /\ OutOf(i, c)' = OutOf(i, c)
      BY <1>9, <2>5
    <3>2. QED
      BY <2>3, <2>4, <2>5, <3>1
  <2>6. CASE d # Effective(i) /\ c = d
    <3>1. Into(i, c)' = Into(i, c) \cup {n} /\ OutOf(i, c)' = OutOf(i, c)
      BY <1>9, <2>6
    <3>2. One(c = Effective(i)) = 0 /\ One(c = d) = 1
      BY <2>6 DEF One
    <3>3. One(c = Reached(i)) \in Nat
      BY DEF One
    <3>4. QED
      BY <2>2, <2>3, <2>4, <3>1, <3>2, <3>3
  <2>7. CASE d # Effective(i) /\ c = Effective(i)
    <3>1. Into(i, c)' = Into(i, c) /\ OutOf(i, c)' = OutOf(i, c) \cup {n}
      BY <1>9, <2>7
    <3>2. One(c = Effective(i)) = 1 /\ One(c = d) = 0
      BY <2>7 DEF One
    <3>3. One(c = Reached(i)) \in Nat
      BY DEF One
    <3>4. QED
      BY <2>2, <2>3, <2>4, <3>1, <3>2, <3>3
  <2>8. CASE d # Effective(i) /\ c # d /\ c # Effective(i)
    <3>1. Into(i, c)' = Into(i, c) /\ OutOf(i, c)' = OutOf(i, c)
      BY <1>9, <2>8
    <3>2. One(c = Effective(i)) = 0 /\ One(c = d) = 0
      BY <2>8 DEF One
    <3>3. QED
      BY <2>3, <2>4, <3>1, <3>2
  <2>9. QED
    BY <2>5, <2>6, <2>7, <2>8
<1>11. ASSUME NEW j \in Issues, NEW c \in Decisions
       PROVE  Cardinality(Into(j, c)') + One(c = Reached(j)')
                = Cardinality(OutOf(j, c)') + One(c = Effective(j)')
  <2>1. CASE j = i
    BY <1>10, <2>1
  <2>2. CASE j # i
    BY <1>2, <1>3, <2>2 DEF Balanced
  <2>3. QED
    BY <2>1, <2>2
<1>12. QED
  BY <1>11 DEF Balanced, One
-----------------------------------------------------------------------------
(* Evidence is written *)

\* A correction is appended to the tail of its issue.
Appends(r, t, x) ==
  /\ evidence' = [evidence EXCEPT ![r] = x]
  /\ x.from = t /\ x.written = TRUE

\* It becomes the tail, other issues keep theirs.
LEMMA AppendedTail ==
  ASSUME TypeOK, ChainInv, NEW r \in Reviewed, NEW t \in Tails(r[1]), NEW x,
         ~Written(r), Appends(r, t, x)
  PROVE  /\ \A k \in Keys : Written(k)' <=> Written(k) \/ k = r
         /\ Tails(r[1])' = {r}
         /\ \A j \in Issues \ {r[1]} : Tails(j)' = Tails(j)
         /\ Roots' /\ LinearChain'
<1>1. /\ r \in Keys /\ r[1] \in Issues /\ r[2] # 0 /\ NoRow \notin Keys
      /\ t \in Keys /\ t[1] = r[1] /\ Written(t) /\ ~HasSuccessor(t) /\ t # r
  BY Pairs, EffectiveIsTail
<1>2. /\ evidence'[r] = x /\ \A k \in Keys \ {r} : evidence'[k] = evidence[k]
  BY <1>1 DEF Appends, TypeOK
<1>3. \A k \in Keys : Written(k)' <=> Written(k) \/ k = r
  BY <1>2 DEF Written, Appends
<1>4. \A s \in Keys : Written(s) => evidence[s].from # r
  BY <1>1, Pairs DEF ChainInv, Roots, LinearChain
<1>5. \A k \in Keys : HasSuccessor(k)' <=> HasSuccessor(k) \/ k = t
  BY <1>1, <1>2, <1>3 DEF HasSuccessor, Appends
<1>6. ~HasSuccessor(r)'
  BY <1>1, <1>4, <1>5 DEF HasSuccessor
<1>7. Tails(r[1])' = {r}
  <2>1. \A k \in Tails(r[1]) : k = t
    BY <1>1 DEF ChainInv, LinearChain
  <2>2. \A k \in Keys : k \in Tails(r[1])' <=> k[1] = r[1] /\ Written(k)' /\ ~HasSuccessor(k)'
    BY DEF Tails
  <2>3. \A k \in Keys : k \in Tails(r[1]) <=> k[1] = r[1] /\ Written(k) /\ ~HasSuccessor(k)
    BY DEF Tails
  <2>4. \A k \in Keys : k \in Tails(r[1])' <=> k = r
    BY <1>1, <1>3, <1>5, <1>6, <2>1, <2>2, <2>3
  <2>5. Tails(r[1])' \subseteq Keys
    BY DEF Tails
  <2>6. QED
    BY <1>1, <2>4, <2>5
<1>8. \A j \in Issues \ {r[1]} : Tails(j)' = Tails(j)
  BY <1>1, <1>3, <1>5 DEF Tails
<1>9. Roots'
  <2>1. Written(<<r[1], 0>>) /\ <<r[1], 0>> \in Keys
    BY <1>1, Pairs DEF ChainInv, Roots
  <2>2. \A k \in Keys : <<k[1], 0>> \in Keys
    BY Pairs
  <2>3. QED
    BY <1>1, <1>2, <1>3, <2>1, <2>2 DEF ChainInv, Roots
<1>10. LinearChain'
  <2>1. ASSUME NEW k \in Keys, Written(k)', k[2] # 0
        PROVE  /\ evidence'[k].from \in Keys
               /\ evidence'[k].from[1] = k[1] /\ Written(evidence[k].from)'
    <3>1. CASE k = r
      BY <1>1, <1>2, <1>3, <3>1 DEF Appends, Written
    <3>2. CASE k # r
      <4>1. evidence'[k] = evidence[k] /\ Written(k)
        BY <1>2, <1>3, <2>1, <3>2
      <4>2. evidence[k].from \in Keys /\ evidence[k].from[1] = k[1] /\ Written(evidence[k].from)
        BY <2>1, <4>1 DEF ChainInv, LinearChain
      <4>3. QED
        BY <1>2, <1>3, <4>1, <4>2 DEF Written, Appends
    <3>3. QED
      BY <3>1, <3>2
  <2>2. ASSUME NEW k \in Keys, NEW l \in Keys, Written(k)', Written(l)',
               evidence'[k].from = evidence'[l].from
        PROVE  k = l \/ evidence'[k].from = NoRow
    <3>1. CASE k = r /\ l # r
      BY <1>1, <1>2, <1>3, <2>2, <3>1 DEF HasSuccessor, Appends
    <3>2. CASE k # r /\ l = r
      BY <1>1, <1>2, <1>3, <2>2, <3>2 DEF HasSuccessor, Appends
    <3>3. CASE k # r /\ l # r
      BY <1>2, <1>3, <2>2, <3>3 DEF ChainInv, LinearChain
    <3>4. QED
      BY <3>1, <3>2, <3>3
  <2>3. \A i \in Issues : \A k, l \in Tails(i)' : k = l
    BY <1>7, <1>8 DEF ChainInv, LinearChain
  <2>4. QED
    BY <2>1, <2>2, <2>3 DEF LinearChain
<1>11. QED
  BY <1>3, <1>7, <1>8, <1>9, <1>10

\* A correction in sequence fits what it supersedes.
LEMMA AppendedFits ==
  ASSUME TypeOK, ChainInv, NEW r \in Reviewed, NEW t \in Tails(r[1]), NEW x,
         ~Written(r), Appends(r, t, x), UNCHANGED reviews,
         Cause(t) # Cause(r),
         Cause(r) = "confirmed" => x.proj = 0,
         Cause(r) = "reclassified" => x.proj = r[2],
         Cause(r) = "invalidated" => x.proj = evidence[t].proj
  PROVE  CorrectionsFit'
<1>1. /\ r \in Keys /\ t \in Keys /\ Written(t) /\ t # r
  BY Pairs, EffectiveIsTail
<1>2. /\ evidence'[r] = x /\ \A k \in Keys \ {r} : evidence'[k] = evidence[k]
  BY <1>1 DEF Appends, TypeOK
<1>3. \A k : Cause(k)' = Cause(k)
  BY DEF Cause
<1> SUFFICES ASSUME NEW k \in Keys, Written(k)', k[2] # 0
             PROVE  LET p == evidence'[k].from IN
                    /\ Cause(k) # Cause(p)
                    /\ Cause(k) = "confirmed" => evidence'[k].proj = 0
                    /\ Cause(k) = "reclassified" => evidence'[k].proj = k[2]
                    /\ Cause(k) = "invalidated" => evidence'[k].proj = evidence'[p].proj
  BY DEF CorrectionsFit, Cause
<1>4. CASE k = r
  BY <1>1, <1>2, <1>4 DEF Appends
<1>5. CASE k # r
  <2>1. evidence'[k] = evidence[k] /\ Written(k)
    BY <1>2, <1>5 DEF Written
  <2>2. evidence[k].from \in Keys /\ Written(evidence[k].from)
    BY <2>1 DEF ChainInv, LinearChain
  <2>3. evidence'[evidence[k].from] = evidence[evidence[k].from]
    BY <1>2, <2>2
  <2>4. QED
    BY <2>1, <2>3 DEF ChainInv, CorrectionsFit
<1>6. QED
  BY <1>4, <1>5

\* An issue whose tails stay keeps its effective row.
LEMMA SameTails ==
  ASSUME NEW j \in Issues, Tails(j)' = Tails(j)
  PROVE  HasEvidence(j)' = HasEvidence(j) /\ EffectiveRow(j)' = EffectiveRow(j)
<1> DEFINE Any(S) == CHOOSE k \in S : TRUE
<1>1. /\ EffectiveRow(j) = IF HasEvidence(j) THEN Any(Tails(j)) ELSE NoRow
      /\ EffectiveRow(j)' = IF HasEvidence(j)' THEN Any(Tails(j)') ELSE NoRow
  BY DEF EffectiveRow
<1>2. HasEvidence(j)' = HasEvidence(j)
  BY DEF HasEvidence
<1> HIDE DEF Any
<1>3. QED
  BY <1>1, <1>2

\* What is owed shrinks by the correction, and the evidence moves on by it.
LEMMA AppendedBalance ==
  ASSUME TypeOK, ChainInv, Balanced, UNCHANGED reviews,
         NEW i \in Issues, NEW n \in 1..MaxReviews, NEW t \in Tails(i), NEW x,
         n <= Len(reviews[i]), Changes(i, n), Cause(t) = Before(i, n),
         ~Written(<<i, n>>), Appends(<<i, n>>, t, x)
  PROVE  Balanced'
<1> DEFINE r == <<i, n>>
<1>1. r \in Reviewed /\ r[1] = i /\ r \in Keys /\ n \in 1..Len(reviews[i])
      /\ Len(reviews[i]) \in Nat /\ r[2] = n /\ n # 0
  BY Pairs, BeforeType
<1>2. /\ \A k \in Keys : Written(k)' <=> Written(k) \/ k = r
      /\ Tails(i)' = {r}
      /\ \A j \in Issues \ {i} : Tails(j)' = Tails(j)
  BY <1>1, AppendedTail
<1>3. Reached(i) = Before(i, n)
  <2>1. HasEvidence(i) /\ EffectiveRow(i) = t
    BY EffectiveIsTail DEF HasEvidence, ChainInv, LinearChain
  <2>2. QED
    BY <2>1 DEF Reached
<1>4. Reached(i)' = reviews[i][n]
  <2>1. HasEvidence(i)' /\ EffectiveRow(i)' = r
    BY <1>2 DEF HasEvidence, EffectiveRow
  <2>2. Reached(i)' = Cause(EffectiveRow(i))'
    BY <2>1 DEF Reached
  <2>3. Cause(EffectiveRow(i))' = reviews'[r[1]][r[2]]
    BY <1>1, <2>1 DEF Cause
  <2>4. QED
    BY <1>1, <2>2, <2>3
<1>5. ASSUME NEW j \in Issues \ {i}, NEW c \in Decisions
      PROVE  /\ Into(j, c)' = Into(j, c) /\ OutOf(j, c)' = OutOf(j, c)
             /\ Effective(j)' = Effective(j) /\ Reached(j)' = Reached(j)
  <2>1. \A m \in 1..Len(reviews[j]) : Written(<<j, m>>)' <=> Written(<<j, m>>)
    <3>1. \A m \in 1..Len(reviews[j]) : <<j, m>> \in Keys /\ <<j, m>> # r
      BY Pairs, BeforeType
    <3>2. QED
      BY <1>2, <3>1
  <2>2. Owed(j)' = Owed(j)
    BY <2>1 DEF Owed, Changes, Before
  <2>3. HasEvidence(j)' = HasEvidence(j) /\ EffectiveRow(j)' = EffectiveRow(j)
    <3>1. Tails(j)' = Tails(j)
      BY <1>2
    <3>2. QED
      BY <3>1, SameTails
  <2>4. Reached(j)' = Reached(j)
    BY <2>3 DEF Reached, Cause
  <2>5. QED
    BY <2>2, <2>4 DEF Into, OutOf, Effective, Before
<1>6. Owed(i)' = Owed(i) \ {n} /\ n \in Owed(i)
  <2>1. \A m \in 1..Len(reviews[i]) : Written(<<i, m>>)' <=> Written(<<i, m>>) \/ m = n
    <3>1. \A m \in 1..Len(reviews[i]) : <<i, m>> \in Keys /\ (<<i, m>> = r <=> m = n)
      BY Pairs, BeforeType
    <3>2. QED
      BY <1>2, <3>1
  <2>2. QED
    BY <1>1, <2>1 DEF Owed, Changes, Before
<1>7. ASSUME NEW c \in Decisions
      PROVE  /\ Into(i, c)' = Into(i, c) \ {n} /\ OutOf(i, c)' = OutOf(i, c) \ {n}
             /\ n \in Into(i, c) <=> c = reviews[i][n]
             /\ n \in OutOf(i, c) <=> c = Before(i, n)
             /\ Effective(i)' = Effective(i)
  BY <1>6 DEF Into, OutOf, Effective, Before
<1>8. ASSUME NEW c \in Decisions
      PROVE  Cardinality(Into(i, c)') + One(c = Reached(i)')
                = Cardinality(OutOf(i, c)') + One(c = Effective(i)')
  <2> DEFINE S == Into(i, c) \ {n}
             T == OutOf(i, c) \ {n}
  <2>1. S \in SUBSET (1..Len(reviews[i])) /\ T \in SUBSET (1..Len(reviews[i]))
        /\ n \notin S /\ n \notin T
    BY DEF Into, OutOf, Owed
  <2>2. /\ Cardinality(S) \in Nat /\ Cardinality(S \cup {n}) = Cardinality(S) + 1
        /\ Cardinality(T) \in Nat /\ Cardinality(T \cup {n}) = Cardinality(T) + 1
    BY <1>1, <2>1, Counted
  <2>3. Into(i, c) = IF c = reviews[i][n] THEN S \cup {n} ELSE S
    BY <1>7
  <2>4. OutOf(i, c) = IF c = Before(i, n) THEN T \cup {n} ELSE T
    BY <1>7
  <2>5. Cardinality(Into(i, c)) + One(c = Before(i, n))
          = Cardinality(OutOf(i, c)) + One(c = Effective(i))
    BY <1>3 DEF Balanced
  <2>6. Into(i, c)' = S /\ OutOf(i, c)' = T /\ Effective(i)' = Effective(i)
        /\ Reached(i)' = reviews[i][n]
    BY <1>4, <1>7
  <2> HIDE DEF S, T
  <2>7. reviews[i][n] # Before(i, n)
    BY DEF Changes
  <2>8. CASE c = reviews[i][n]
    <3>1. Into(i, c) = S \cup {n} /\ OutOf(i, c) = T
      BY <2>3, <2>4, <2>7, <2>8
    <3>2. One(c = Before(i, n)) = 0 /\ One(c = reviews[i][n]) = 1
      BY <2>7, <2>8 DEF One
    <3>3. One(c = Effective(i)) \in Nat
      BY DEF One
    <3>4. QED
      BY <2>2, <2>5, <2>6, <3>1, <3>2, <3>3
  <2>9. CASE c = Before(i, n)
    <3>1. Into(i, c) = S /\ OutOf(i, c) = T \cup {n}
      BY <2>3, <2>4, <2>7, <2>9
    <3>2. One(c = Before(i, n)) = 1 /\ One(c = reviews[i][n]) = 0
      BY <2>7, <2>9 DEF One
    <3>3. One(c = Effective(i)) \in Nat
      BY DEF One
    <3>4. QED
      BY <2>2, <2>5, <2>6, <3>1, <3>2, <3>3
  <2>10. CASE c # reviews[i][n] /\ c # Before(i, n)
    <3>1. Into(i, c) = S /\ OutOf(i, c) = T
      BY <2>3, <2>4, <2>10
    <3>2. One(c = Before(i, n)) = 0 /\ One(c = reviews[i][n]) = 0
      BY <2>10 DEF One
    <3>3. QED
      BY <2>5, <2>6, <3>1, <3>2
  <2>11. QED
    BY <2>8, <2>9, <2>10
<1>9. ASSUME NEW j \in Issues, NEW c \in Decisions
      PROVE  Cardinality(Into(j, c)') + One(c = Reached(j)')
               = Cardinality(OutOf(j, c)') + One(c = Effective(j)')
  <2>1. CASE j = i
    BY <1>8, <2>1
  <2>2. CASE j # i
    BY <1>5, <2>2 DEF Balanced
  <2>3. QED
    BY <2>1, <2>2
<1>10. QED
  BY <1>9 DEF Balanced, One

\* The correction that the transaction lets through.
LEMMA CorrectionStep ==
  ASSUME IInv, NEW w \in Workers, CompleteCorrection(w), NEW r \in Reviewed, r = claim[w].row
  PROVE  RowInv' /\ ChainInv' /\ Balanced'
<1>1. /\ r \in Keys /\ r \in Rows /\ r[1] \in Issues /\ r[2] \in 1..MaxReviews
      /\ r = <<r[1], r[2]>> /\ r \notin EvalRows /\ r[2] # 0
  BY Pairs
<1>2. rows[r].status = "processing" /\ UNCHANGED <<evals, reviews, practised>>
  BY DEF CompleteCorrection, Owns, Fenced
<1>3. ~Written(r) /\ r[2] <= Len(reviews[r[1]]) /\ Changes(r[1], r[2])
  BY <1>1, <1>2 DEF IInv, RowInv, DoneMeansWritten, Enqueued
<1>4. PICK t \in Tails(r[1]) : t = EffectiveRow(r[1]) /\ t = claim[w].tail
  BY <1>1, EffectiveIsTail DEF CompleteCorrection, TailMatches
<1> DEFINE x == [from |-> t, proj |-> Projection(r[1], r[2]), written |-> TRUE]
<1>5. Appends(r, t, x)
  BY <1>3, <1>4 DEF CompleteCorrection, Appends
<1>6. Cause(t) = Before(r[1], r[2]) /\ Cause(r) = reviews[r[1]][r[2]]
  BY <1>1, <1>4 DEF CompleteCorrection, InSequence, Cause
<1>7. /\ Cause(r) = "confirmed" => x.proj = 0
      /\ Cause(r) = "reclassified" => x.proj = r[2]
      /\ Cause(r) = "invalidated" => x.proj = evidence[t].proj
  BY <1>4, <1>6 DEF Projection
<1> HIDE DEF x
<1>8. TypeOK /\ ChainInv /\ Balanced /\ RowInv
  BY DEF IInv, Typed
<1>9. ChainInv' /\ \A k \in Keys : Written(k)' <=> Written(k) \/ k = r
  BY <1>2, <1>3, <1>5, <1>6, <1>7, <1>8, AppendedTail, AppendedFits DEF ChainInv, Changes
<1>10. Balanced'
  BY <1>1, <1>2, <1>3, <1>5, <1>6, <1>8, AppendedBalance
<1>11. RowInv'
  <2>1. rows'[r].status = "done" /\ \A q \in Rows \ {r} : rows'[q] = rows[q]
    BY <1>1, <1>2, EndedRow DEF CompleteCorrection, IInv, Typed
  <2>2. Enqueued'
    <3> SUFFICES ASSUME NEW i \in Issues, NEW n \in 1..MaxReviews, rows'[<<i, n>>].status # "none"
                 PROVE  n <= Len(reviews[i]) /\ Changes(i, n)
      BY <1>2 DEF Enqueued, Changes, Before
    <3>1. rows[<<i, n>>].status # "none"
      BY <1>2, <2>1, Pairs
    <3>2. QED
      BY <1>8, <3>1 DEF RowInv, Enqueued
  <2>3. DoneMeansWritten'
    <3>1. \A q \in Reviewed : rows'[q].status = "done" <=> Written(q)'
      BY <1>8, <1>9, <2>1, Pairs DEF RowInv, DoneMeansWritten
    <3>2. \A e \in Evaluations : rows'[<<e, 0>>] = rows[<<e, 0>>]
      BY <1>1, <2>1, Pairs
    <3>3. \A i \in Issues : Written(<<i, 0>>)' => rows'[<<RewrittenIn[i], 0>>].status = "done"
      <4> TAKE i \in Issues
      <4>1. <<i, 0>> \in Keys /\ <<i, 0>> # r /\ RewrittenIn[i] \in Evaluations
        BY <1>1, Pairs, EvaluationAssumption
      <4>2. QED
        BY <1>8, <1>9, <3>2, <4>1 DEF RowInv, DoneMeansWritten
    <3>4. QED
      BY <1>2, <1>8, <3>1, <3>2, <3>3 DEF RowInv, DoneMeansWritten
  <2>4. QED
    BY <2>2, <2>3 DEF RowInv
<1>12. QED
  BY <1>9, <1>10, <1>11

\* Original assertions of issues without evidence.
Asserts(S) ==
  evidence' = [k \in Keys |-> IF k[2] = 0 /\ k[1] \in S /\ ~Written(k)
                              THEN Original ELSE evidence[k]]

\* They begin chains of their own.
LEMMA AssertedTails ==
  ASSUME TypeOK, ChainInv, NEW S \in SUBSET Issues, Asserts(S),
         \A i \in S : ~Written(<<i, 0>>)
  PROVE  /\ \A k \in Keys : Written(k)' <=> Written(k) \/ (k[2] = 0 /\ k[1] \in S)
         /\ \A k \in Keys : k[2] # 0 \/ k[1] \notin S => evidence'[k] = evidence[k]
         /\ \A i \in S : Tails(i) = {} /\ Tails(i)' = {<<i, 0>>}
         /\ \A i \in Issues \ S : Tails(i)' = Tails(i)
         /\ Roots' /\ LinearChain'
<1>1. ASSUME NEW k \in Keys
      PROVE  /\ k[2] = 0 /\ k[1] \in S => evidence'[k] = Original /\ ~Written(k)
             /\ k[2] # 0 \/ k[1] \notin S => evidence'[k] = evidence[k]
  BY Pairs DEF Asserts
<1>2. Original.written /\ Original.from = NoRow
  BY DEF Original
<1>3. \A k \in Keys : Written(k)' <=> Written(k) \/ (k[2] = 0 /\ k[1] \in S)
  BY <1>1, <1>2 DEF Written
<1>4. \A k \in Keys : k[1] \in S => ~Written(k)
  BY DEF ChainInv, Roots
<1>5. \A s \in Keys : Written(s) =>
        /\ evidence'[s].from = evidence[s].from
        /\ evidence[s].from = NoRow \/ (evidence[s].from \in Keys /\ Written(evidence[s].from))
  BY <1>1, <1>4 DEF ChainInv, Roots, LinearChain
<1>6. \A s \in Keys : Written(s)' /\ ~Written(s) => evidence'[s].from = NoRow
  BY <1>1, <1>2, <1>3
<1>7. \A k \in Keys : HasSuccessor(k)' <=> HasSuccessor(k)
  BY <1>3, <1>5, <1>6, Pairs DEF HasSuccessor
<1>8. \A k \in Keys : ~Written(k) => ~HasSuccessor(k)
  BY <1>5, Pairs DEF HasSuccessor
<1>9. /\ \A i \in Issues, k \in Keys : k \in Tails(i) <=> k[1] = i /\ Written(k) /\ ~HasSuccessor(k)
      /\ \A i \in Issues, k \in Keys : k \in Tails(i)' <=> k[1] = i /\ Written(k)' /\ ~HasSuccessor(k)'
      /\ \A i \in Issues : Tails(i) \subseteq Keys /\ Tails(i)' \subseteq Keys
  BY DEF Tails
<1>10. ASSUME NEW i \in S
       PROVE  Tails(i) = {} /\ Tails(i)' = {<<i, 0>>}
  <2>1. Tails(i) = {}
    BY <1>4, <1>9
  <2>2. <<i, 0>> \in Keys
    BY Pairs
  <2>3. \A k \in Keys : k \in Tails(i)' <=> k = <<i, 0>>
    BY <1>3, <1>4, <1>7, <1>8, <1>9, <2>2, Pairs
  <2>4. QED
    BY <1>9, <2>1, <2>2, <2>3
<1>11. ASSUME NEW i \in Issues \ S
       PROVE  Tails(i)' = Tails(i)
  <2>1. \A k \in Keys : k[1] = i => (Written(k)' <=> Written(k))
    BY <1>3
  <2>2. \A k \in Keys : k \in Tails(i)' <=> k[1] = i /\ Written(k)' /\ ~HasSuccessor(k)'
    BY <1>9
  <2>3. \A k \in Keys : k \in Tails(i) <=> k[1] = i /\ Written(k) /\ ~HasSuccessor(k)
    BY <1>9
  <2>4. \A k \in Keys : k \in Tails(i)' <=> k \in Tails(i)
    BY <1>7, <2>1, <2>2, <2>3
  <2>5. Tails(i) \subseteq Keys /\ Tails(i)' \subseteq Keys
    BY <1>9
  <2>6. QED
    BY <2>4, <2>5
<1>12. Roots'
  <2>1. \A k \in Keys : <<k[1], 0>> \in Keys
    BY Pairs
  <2>2. QED
    BY <1>2, <1>1, <1>3, <2>1 DEF ChainInv, Roots
<1>13. LinearChain'
  <2>1. ASSUME NEW k \in Keys, Written(k)', k[2] # 0
        PROVE  /\ evidence'[k].from \in Keys
               /\ evidence'[k].from[1] = k[1] /\ Written(evidence[k].from)'
    <3>1. Written(k) /\ evidence'[k] = evidence[k]
      BY <1>1, <1>3, <2>1
    <3>2. evidence[k].from \in Keys /\ evidence[k].from[1] = k[1] /\ Written(evidence[k].from)
      BY <2>1, <3>1 DEF ChainInv, LinearChain
    <3>3. evidence'[evidence[k].from] = evidence[evidence[k].from]
      BY <1>1, <3>2
    <3>4. QED
      BY <3>1, <3>2, <3>3 DEF Written
  <2>2. ASSUME NEW k \in Keys, NEW l \in Keys, Written(k)', Written(l)',
               evidence'[k].from = evidence'[l].from, evidence'[k].from # NoRow
        PROVE  k = l
    <3>1. Written(k) /\ Written(l)
      BY <1>6, <2>2
    <3>2. QED
      BY <1>5, <2>2, <3>1 DEF ChainInv, LinearChain
  <2>3. \A i \in Issues : \A k, l \in Tails(i)' : k = l
    BY <1>10, <1>11 DEF ChainInv, LinearChain
  <2>4. QED
    BY <2>1, <2>2, <2>3 DEF LinearChain
<1>14. QED
  BY <1>1, <1>3, <1>10, <1>11, <1>12, <1>13

\* Nothing is owed more or less, and nothing has been reached yet.
LEMMA AssertedBalance ==
  ASSUME TypeOK, ChainInv, Balanced, UNCHANGED reviews,
         NEW S \in SUBSET Issues, Asserts(S), \A i \in S : ~Written(<<i, 0>>)
  PROVE  CorrectionsFit' /\ Balanced'
<1>1. \A k : Cause(k)' = Cause(k)
  BY DEF Cause
<1>2. CorrectionsFit'
  <2> SUFFICES ASSUME NEW k \in Keys, Written(k)', k[2] # 0
               PROVE  LET p == evidence'[k].from IN
                      /\ Cause(k) # Cause(p)
                      /\ Cause(k) = "confirmed" => evidence'[k].proj = 0
                      /\ Cause(k) = "reclassified" => evidence'[k].proj = k[2]
                      /\ Cause(k) = "invalidated" => evidence'[k].proj = evidence'[p].proj
    BY DEF CorrectionsFit, Cause
  <2>1. Written(k) /\ evidence'[k] = evidence[k]
    BY AssertedTails
  <2>2. evidence[k].from \in Keys /\ Written(evidence[k].from)
    BY <2>1 DEF ChainInv, LinearChain
  <2>3. evidence'[evidence[k].from] = evidence[evidence[k].from]
    BY <2>2, Pairs DEF Asserts
  <2>4. QED
    BY <2>1, <2>3 DEF ChainInv, CorrectionsFit
<1>3. ASSUME NEW i \in Issues, NEW c \in Decisions
      PROVE  /\ Into(i, c)' = Into(i, c) /\ OutOf(i, c)' = OutOf(i, c)
             /\ Effective(i)' = Effective(i)
  <2>1. \A n \in 1..Len(reviews[i]) : Written(<<i, n>>)' <=> Written(<<i, n>>)
    <3>1. \A n \in 1..Len(reviews[i]) : <<i, n>> \in Keys /\ <<i, n>>[2] # 0
      BY Pairs, BeforeType
    <3>2. QED
      BY <3>1, AssertedTails
  <2>2. Owed(i)' = Owed(i)
    BY <2>1 DEF Owed, Changes, Before
  <2>3. QED
    BY <2>2 DEF Into, OutOf, Effective, Before
<1>4. ASSUME NEW i \in Issues
      PROVE  Reached(i)' = Reached(i)
  <2>1. CASE i \in S
    <3>1. Reached(i) = "confirmed"
      BY <2>1, AssertedTails DEF Reached, HasEvidence
    <3>2. Tails(i)' = {<<i, 0>>}
      BY <2>1, AssertedTails
    <3>3. HasEvidence(i)' /\ EffectiveRow(i)' = <<i, 0>>
      BY <3>2 DEF HasEvidence, EffectiveRow
    <3>4. Reached(i)' = "confirmed"
      BY <3>3 DEF Reached, Cause
    <3>5. QED
      BY <3>1, <3>4
  <2>2. CASE i \notin S
    BY <2>2, AssertedTails, SameTails DEF Reached, Cause
  <2>3. QED
    BY <2>1, <2>2
<1>5. Balanced'
  BY <1>3, <1>4 DEF Balanced
<1>6. QED
  BY <1>2, <1>5

\* The batch that the transaction lets through.
LEMMA BatchStep ==
  ASSUME IInv, NEW w \in Workers, CompleteBatch(w)
  PROVE  RowInv' /\ ChainInv' /\ Balanced'
<1> DEFINE r == claim[w].row
           S == claim[w].issues
<1>1. /\ r \in EvalRows /\ r \in Rows /\ r[1] \in Evaluations /\ r = <<r[1], 0>>
      /\ S \in SUBSET Issues /\ \A i \in S : RewrittenIn[i] = r[1]
  BY Pairs DEF CompleteBatch, Owns, IInv, Typed, TypeOK, ClaimRecord, HeldRows
<1>2. rows[r].status = "processing" /\ UNCHANGED <<evals, reviews>>
      /\ practised' = practised \cup {r[1]}
  BY DEF CompleteBatch, Owns, Fenced
<1>3. Asserts(S)
  BY DEF CompleteBatch, Asserts
<1>4. \A i \in S : ~Written(<<i, 0>>)
  BY <1>1, <1>2 DEF IInv, RowInv, DoneMeansWritten
<1>5. TypeOK /\ ChainInv /\ Balanced /\ RowInv
  BY DEF IInv, Typed
<1>6. rows'[r].status = "done" /\ \A q \in Rows \ {r} : rows'[q] = rows[q]
  BY <1>1, <1>2, EndedRow DEF CompleteBatch, IInv, Typed
<1>7. /\ \A k \in Keys : Written(k)' <=> Written(k) \/ (k[2] = 0 /\ k[1] \in S)
      /\ ChainInv' /\ Balanced'
  <2> HIDE DEF S
  <2>1. Roots' /\ LinearChain'
        /\ \A k \in Keys : Written(k)' <=> Written(k) \/ (k[2] = 0 /\ k[1] \in S)
    BY <1>1, <1>3, <1>4, <1>5, AssertedTails
  <2>2. CorrectionsFit' /\ Balanced'
    BY <1>1, <1>2, <1>3, <1>4, <1>5, AssertedBalance
  <2>3. QED
    BY <2>1, <2>2 DEF ChainInv
<1>8. Enqueued'
  <2> SUFFICES ASSUME NEW i \in Issues, NEW n \in 1..MaxReviews, rows'[<<i, n>>].status # "none"
               PROVE  n <= Len(reviews[i]) /\ Changes(i, n)
    BY <1>2 DEF Enqueued, Changes, Before
  <2>1. <<i, n>> \in Rows /\ <<i, n>> # r
    BY <1>1, Pairs
  <2>2. QED
    BY <1>5, <1>6, <2>1 DEF RowInv, Enqueued
<1>9. DoneMeansWritten'
  <2> HIDE DEF r, S
  <2>1. \A q \in Reviewed : rows'[q].status = "done" <=> Written(q)'
    <3> TAKE q \in Reviewed
    <3>1. q \in Rows /\ q \in Keys /\ q # r /\ q[2] # 0
      BY <1>1, Pairs
    <3>2. QED
      BY <1>5, <1>6, <1>7, <3>1 DEF RowInv, DoneMeansWritten
  <2>2. \A e \in Evaluations : rows'[<<e, 0>>].status = "done" <=> e \in practised'
    <3> TAKE e \in Evaluations
    <3>1. <<e, 0>> \in Rows /\ (<<e, 0>> = r <=> e = r[1])
      BY <1>1, Pairs
    <3>2. QED
      BY <1>2, <1>5, <1>6, <3>1 DEF RowInv, DoneMeansWritten
  <2>3. \A i \in Issues : Written(<<i, 0>>)' => rows'[<<RewrittenIn[i], 0>>].status = "done"
    <3> TAKE i \in Issues
    <3>1. <<i, 0>> \in Keys /\ <<RewrittenIn[i], 0>> \in Rows
      BY Pairs, EvaluationAssumption
    <3>2. CASE i \in S
      BY <1>1, <1>6, <3>2
    <3>3. CASE i \notin S
      <4>1. Written(<<i, 0>>)' => rows[<<RewrittenIn[i], 0>>].status = "done"
        BY <1>5, <1>7, <3>1, <3>3 DEF RowInv, DoneMeansWritten
      <4>2. QED
        BY <1>6, <3>1, <4>1
    <3>4. QED
      BY <3>2, <3>3
  <2>4. QED
    BY <2>1, <2>2, <2>3 DEF DoneMeansWritten
<1>10. QED
  BY <1>7, <1>8, <1>9 DEF RowInv
-----------------------------------------------------------------------------
(* The inductive invariant and what follows from it *)

\* Nothing is enqueued or written at first.
LEMMA InitInv == Init => RowInv /\ ChainInv /\ Balanced
<1> SUFFICES ASSUME Init PROVE RowInv /\ ChainInv /\ Balanced
  OBVIOUS
<1>1. /\ \A r \in Rows : rows[r].status = "none"
      /\ \A k \in Keys : ~Written(k)
      /\ \A i \in Issues : reviews[i] = <<>> /\ Tails(i) = {}
      /\ practised = {}
  BY DEF Init, Missing, Absent, Written, Tails
<1>2. RowInv
  BY <1>1, Pairs, EvaluationAssumption DEF RowInv, Enqueued, DoneMeansWritten
<1>3. ChainInv
  BY <1>1 DEF ChainInv, Roots, LinearChain, CorrectionsFit
<1>4. ASSUME NEW i \in Issues, NEW d \in Decisions
      PROVE  /\ Into(i, d) = {} /\ OutOf(i, d) = {}
             /\ Reached(i) = "confirmed" /\ Effective(i) = "confirmed"
  <2>1. Len(reviews[i]) = 0
    BY <1>1
  <2>2. Owed(i) = {}
    BY <2>1 DEF Owed
  <2>3. QED
    BY <1>1, <2>1, <2>2 DEF Into, OutOf, Reached, HasEvidence, Effective, Before
<1>5. Balanced
  BY <1>4 DEF Balanced
<1>6. QED
  BY <1>2, <1>3, <1>5

\* Every step keeps the chains and their balance.
LEMMA StepInv == IInv /\ [Next]_vars => RowInv' /\ ChainInv' /\ Balanced'
<1> SUFFICES ASSUME IInv, [Next]_vars PROVE RowInv' /\ ChainInv' /\ Balanced'
  OBVIOUS
<1>1. Typed /\ TypeOK /\ RowInv /\ ChainInv /\ Balanced
  BY DEF IInv, Typed
<1>2. CASE Quiet
  <2>1. UNCHANGED <<reviews, evidence>>
    BY <1>2 DEF Quiet
  <2>2. QED
    BY <1>1, <1>2, <2>1, QuietRows, QuietChain
<1>3. ASSUME NEW i \in Issues, NEW d \in Decisions, Review(i, d)
      PROVE  RowInv' /\ ChainInv' /\ Balanced'
  <2>1. Len(reviews[i]) + 1 \in Nat
    BY <1>1, BeforeType
  <2>2. PICK n \in Nat : n = Len(reviews[i]) + 1
    BY <2>1
  <2>3. Balanced'
    BY <1>1, <1>3, <2>2, ReviewBalance
  <2>4. QED
    BY <1>1, <1>3, <2>3, ReviewRows
<1>4. ASSUME NEW w \in Workers, CompleteCorrection(w)
      PROVE  RowInv' /\ ChainInv' /\ Balanced'
  <2>1. claim[w].row \in Reviewed
    BY <1>4 DEF CompleteCorrection
  <2>2. QED
    BY <1>4, <2>1, CorrectionStep
<1>5. ASSUME NEW w \in Workers, CompleteBatch(w)
      PROVE  RowInv' /\ ChainInv' /\ Balanced'
  BY <1>5, BatchStep
<1>6. \/ Quiet
      \/ \E i \in Issues, d \in Decisions : Review(i, d)
      \/ \E w \in Workers : CompleteCorrection(w) \/ CompleteBatch(w)
  BY <1>1, QuietSteps DEF Next, Pass
<1>7. QED
  BY <1>2, <1>3, <1>4, <1>5, <1>6

\* The inductive invariant.
LEMMA Inductive == Spec => []IInv
<1>1. Init /\ Typed => IInv
  BY InitInv DEF IInv
<1>2. IInv /\ [Next]_vars /\ Typed' => IInv'
  BY StepInv DEF IInv
<1>3. QED
  BY <1>1, <1>2, TypedInv, PTL DEF Spec

\* Whatever passes claim, crash and complete, the evidence of an issue is one
\* chain (ewp_complete_review_correction and the evidence guard).
THEOREM ChainsAreLinear == Spec => []LinearChain
BY Inductive, PTL DEF IInv, ChainInv

\* Every correction changes what it corrects and carries the projection of its
\* decision (ewp_review_correction_context).
THEOREM CorrectionsAlwaysFit == Spec => []CorrectionsFit
BY Inductive, PTL DEF IInv, ChainInv

\* Nothing is owed once all corrections are applied, so the balance leaves the
\* evidence at the effective decision.
LEMMA SettledChain ==
  ASSUME IInv, NEW i \in Issues, HasEvidence(i), AllCorrected(i)
  PROVE  Tails(i) = {EffectiveRow(i)} /\ Cause(EffectiveRow(i)) = Effective(i)
<1>1. TypeOK /\ RowInv /\ ChainInv /\ Balanced
  BY DEF IInv, Typed
<1>2. ASSUME NEW n \in 1..Len(reviews[i]), Changes(i, n)
      PROVE  Written(<<i, n>>)
  <2>1. <<i, n>> \in Reviewed
    BY <1>1, BeforeType, Pairs
  <2>2. rows[<<i, n>>].status = "done"
    BY <1>2 DEF AllCorrected
  <2>3. QED
    BY <1>1, <2>1, <2>2 DEF RowInv, DoneMeansWritten
<1>3. Owed(i) = {}
  BY <1>2 DEF Owed
<1>4. \A d \in Decisions : Into(i, d) = {} /\ OutOf(i, d) = {}
  BY <1>3 DEF Into, OutOf
<1>5. Cardinality({}) = 0
  BY FS_EmptySet
<1>6. Effective(i) \in Decisions
  BY <1>1, BeforeType
<1>7. \A d \in Decisions : One(d = Reached(i)) = One(d = Effective(i))
  BY <1>1, <1>4, <1>5 DEF Balanced, One
<1>8. Reached(i) = Effective(i)
  BY <1>6, <1>7 DEF One
<1>9. EffectiveRow(i) \in Tails(i) /\ \A k, l \in Tails(i) : k = l
  BY <1>1, EffectiveIsTail DEF ChainInv, LinearChain
<1>10. QED
  BY <1>8, <1>9 DEF Reached

\* In whatever order corrections are enqueued and applied, what the planner
\* reads agrees with the latest decision once they all are
\* (effective_user_topic_mastery_evidence).
THEOREM FoldAgrees == Spec => []FoldAgreesWhenDone
<1>1. IInv => FoldAgreesWhenDone
  <2> SUFFICES ASSUME IInv, NEW i \in Issues, HasEvidence(i), AllCorrected(i)
               PROVE  IF Invalidated(i) THEN Fold(i) = {}
                      ELSE \E k \in Keys : Fold(i) = {k} /\ Cause(k) = Effective(i)
    BY DEF FoldAgreesWhenDone
  <2>1. /\ Tails(i) = {EffectiveRow(i)} /\ Cause(EffectiveRow(i)) = Effective(i)
        /\ EffectiveRow(i) \in Keys
    BY SettledChain, EffectiveIsTail
  <2>2. CASE Invalidated(i)
    BY <2>2 DEF Fold
  <2>3. CASE ~Invalidated(i)
    <3>1. Fold(i) = {EffectiveRow(i)}
      BY <2>1, <2>3 DEF Fold, Invalidated
    <3>2. QED
      BY <2>1, <2>3, <3>1
  <2>4. QED
    BY <2>2, <2>3
<1>2. QED
  BY <1>1, Inductive, PTL

\* A decision that differs from the first one goes back to the last review that
\* changed it.
Recorded ==
  \A i \in Issues : Effective(i) # "confirmed" =>
    \E n \in 1..Len(reviews[i]) :
      /\ Changes(i, n) /\ reviews[i][n] = Effective(i)
      /\ \A m \in 1..Len(reviews[i]) : m > n => ~Changes(i, m)

LEMMA RecordedStep == IInv /\ Recorded /\ [Next]_vars => Recorded'
<1> SUFFICES ASSUME IInv, Recorded, [Next]_vars PROVE Recorded'
  OBVIOUS
<1>1. TypeOK /\ Typed
  BY DEF IInv, Typed
<1>2. CASE UNCHANGED reviews
  BY <1>2 DEF Recorded, Effective, Before, Changes
<1>3. ASSUME NEW i \in Issues, NEW d \in Decisions, Review(i, d)
      PROVE  Recorded'
  <2>0. PICK L \in Nat : L = Len(reviews[i])
    BY <1>1, BeforeType
  <2>1. /\ L \in Nat /\ Len(reviews'[i]) = L + 1 /\ reviews'[i][L + 1] = d
        /\ Before(i, L + 1)' = Effective(i) /\ Effective(i)' = d
        /\ \A j \in Issues \ {i} : reviews'[j] = reviews[j]
    <3>1. L + 1 \in 1..(L + 1)
      OBVIOUS
    <3>2. QED
      BY <1>1, <1>3, <2>0, <3>1, ReviewEffect DEF Effective
  <2>2. \A n \in 1..L : reviews'[i][n] = reviews[i][n] /\ Changes(i, n)' = Changes(i, n)
    BY <1>1, <1>3, <2>0, ReviewKeepsChanges
  <2>3. Changes(i, L + 1)' <=> d # Effective(i)
    BY <2>1 DEF Changes
  <2>4. ASSUME d # "confirmed"
        PROVE  \E n \in 1..Len(reviews'[i]) :
                 /\ Changes(i, n)' /\ reviews'[i][n] = d
                 /\ \A m \in 1..Len(reviews'[i]) : m > n => ~Changes(i, m)'
    <3>1. CASE d # Effective(i)
      <4>1. L + 1 \in 1..Len(reviews'[i])
        BY <2>1
      <4>2. \A m \in 1..Len(reviews'[i]) : ~(m > L + 1)
        BY <2>1
      <4>3. QED
        BY <2>1, <2>3, <3>1, <4>1, <4>2
    <3>2. CASE d = Effective(i)
      <4>1. PICK n \in 1..L : /\ Changes(i, n) /\ reviews[i][n] = d
                              /\ \A m \in 1..L : m > n => ~Changes(i, m)
        BY <2>0, <2>4, <3>2 DEF Recorded
      <4>2. n \in 1..Len(reviews'[i]) /\ Changes(i, n)' /\ reviews'[i][n] = d
        BY <2>1, <2>2, <4>1
      <4>3. ASSUME NEW m \in 1..Len(reviews'[i]), m > n
            PROVE  ~Changes(i, m)'
        <5>1. m \in 1..L \/ m = L + 1
          BY <2>1
        <5>2. QED
          BY <2>2, <2>3, <3>2, <4>1, <4>3, <5>1
      <4>4. QED
        BY <4>2, <4>3
    <3>3. QED
      BY <3>1, <3>2
  <2>5. ASSUME NEW j \in Issues \ {i}
        PROVE  /\ Effective(j)' = Effective(j)
               /\ \A n \in 1..Len(reviews[j]) : Changes(j, n)' = Changes(j, n)
    BY <2>1 DEF Effective, Before, Changes
  <2>6. QED
    BY <2>1, <2>4, <2>5 DEF Recorded
<1>4. UNCHANGED reviews \/ \E i \in Issues, d \in Decisions : Review(i, d)
  BY <1>1, QuietSteps DEF Next, Pass, Quiet, CompleteCorrection, CompleteBatch
<1>5. QED
  BY <1>2, <1>3, <1>4

\* No issue is reclassified again after another decision.
ReclassifiedOnce ==
  \A i \in Issues : \A m, n \in 1..Len(reviews[i]) :
    /\ Changes(i, m) /\ reviews[i][m] = "reclassified"
    /\ Changes(i, n) /\ reviews[i][n] = "reclassified"
    => m = n

\* As long as no issue comes back to 'reclassified', corrections may be
\* enqueued and applied in any order: once they are, the fold carries the
\* override of the latest review, as 209:1594 says. The guard there compares
\* decisions, so it takes a decision that comes back to confuse two reviews
\* (ewp_check_evidence_correction).
THEOREM OneOverrideIsHonoured == Spec => [](ReclassifiedOnce => FoldHonoursLatestReview)
<1>1. Init => Recorded
  BY DEF Init, Recorded, Effective, Before
<1>2. IInv /\ Recorded => (ReclassifiedOnce => FoldHonoursLatestReview)
  <2> SUFFICES ASSUME IInv, Recorded, ReclassifiedOnce, NEW i \in Issues,
                      HasEvidence(i), AllCorrected(i), Effective(i) = "reclassified"
               PROVE  \E n \in 1..Len(reviews[i]) :
                        /\ evidence[EffectiveRow(i)].proj = n
                        /\ \A m \in n..Len(reviews[i]) : ~(m > n /\ Changes(i, m))
    BY DEF FoldHonoursLatestReview
  <2> DEFINE k == EffectiveRow(i)
  <2>1. k \in Keys /\ k[1] = i /\ Written(k) /\ Cause(k) = "reclassified"
    BY SettledChain, EffectiveIsTail
  <2> HIDE DEF k
  <2>2. k[2] # 0 /\ k \in Reviewed /\ k = <<i, k[2]>> /\ k[2] \in 1..MaxReviews
    BY <2>1, Pairs DEF Cause
  <2>3. reviews[i][k[2]] = "reclassified" /\ evidence[k].proj = k[2]
    BY <2>1, <2>2 DEF Cause, IInv, ChainInv, CorrectionsFit
  <2>4. k[2] \in 1..Len(reviews[i]) /\ Changes(i, k[2])
    <3>1. rows[<<i, k[2]>>].status = "done"
      BY <2>1, <2>2 DEF IInv, RowInv, DoneMeansWritten
    <3>2. k[2] <= Len(reviews[i]) /\ Changes(i, k[2])
      BY <2>2, <3>1 DEF IInv, RowInv, Enqueued
    <3>3. Len(reviews[i]) \in Nat
      BY BeforeType DEF IInv, Typed
    <3>4. QED
      BY <2>2, <3>2, <3>3
  <2>5. PICK n \in 1..Len(reviews[i]) :
          /\ Changes(i, n) /\ reviews[i][n] = "reclassified"
          /\ \A m \in 1..Len(reviews[i]) : m > n => ~Changes(i, m)
    BY DEF Recorded
  <2>6. n = k[2]
    BY <2>3, <2>4, <2>5 DEF ReclassifiedOnce
  <2>7. \A m \in n..Len(reviews[i]) : m \in 1..Len(reviews[i])
    BY BeforeType DEF IInv, Typed
  <2>8. QED
    BY <2>3, <2>5, <2>6, <2>7 DEF k
<1>3. QED
  BY <1>1, <1>2, RecordedStep, Inductive, PTL DEF Spec

\* A batch that is let through asserts what stands, at the time it is written.
LEMMA BatchFollows ==
  ASSUME IInv, NEW w \in Workers, CompleteBatch(w), NEW e \in Evaluations,
         rows[<<e, 0>>].status # "done", rows'[<<e, 0>>].status = "done"
  PROVE  /\ e \in practised'
         /\ \A i \in evals[e].resolved : Written(<<i, 0>>)' <=> ~Invalidated(i)
<1> DEFINE r == claim[w].row
           S == claim[w].issues
<1>1. /\ r \in EvalRows /\ r \in Rows /\ r[1] \in Evaluations /\ r = <<r[1], 0>>
      /\ S \in SUBSET Issues
  BY Pairs DEF CompleteBatch, Owns, IInv, Typed, TypeOK, ClaimRecord
<1>2. rows[r].status = "processing" /\ practised' = practised \cup {r[1]} /\ Asserts(S)
  BY DEF CompleteBatch, Owns, Fenced, Asserts
<1>3. \A q \in Rows \ {r} : rows'[q] = rows[q]
  BY <1>1, <1>2, EndedRow DEF CompleteBatch, IInv, Typed
<1>4. <<e, 0>> = r /\ e = r[1]
  BY <1>1, <1>3, Pairs
<1>5. S = {i \in evals[e].resolved : ~Invalidated(i)}
  BY <1>4 DEF CompleteBatch, PayloadMatches, Expected
<1> HIDE DEF r, S
<1>6. ASSUME NEW i \in evals[e].resolved
      PROVE  Written(<<i, 0>>)' <=> ~Invalidated(i)
  <2>1. i \in Issues /\ RewrittenIn[i] = e
    BY DEF IInv, Typed, ResolvedHere, TypeOK, EvalRecord
  <2>2. ~Written(<<i, 0>>) /\ <<i, 0>> \in Keys /\ <<i, 0>>[1] = i /\ <<i, 0>>[2] = 0
    BY <1>2, <1>4, <2>1, Pairs DEF IInv, RowInv, DoneMeansWritten
  <2>3. Written(<<i, 0>>)' <=> i \in S
    BY <1>2, <2>2 DEF Asserts, Written, Original
  <2>4. QED
    BY <1>5, <2>3
<1>7. QED
  BY <1>2, <1>4, <1>6

\* A review between the claim of an evaluation's row and its completion is
\* never overlooked (ewp_complete_mastery_outbox_batch compares the payload
\* with what it derives under its lock).
THEOREM DrainFollows == Spec => DrainFollowsReviews
<1>1. ASSUME IInv, [Next]_vars, NEW e \in Evaluations,
             rows[<<e, 0>>].status # "done", rows'[<<e, 0>>].status = "done"
      PROVE  /\ e \in practised'
             /\ \A i \in evals[e].resolved : Written(<<i, 0>>)' <=> ~Invalidated(i)
  <2>1. <<e, 0>> \in Rows /\ <<e, 0>> \in EvalRows /\ <<e, 0>> \notin Reviewed
    BY Pairs
  <2>2. ~Quiet
    BY <1>1, <2>1 DEF Quiet
  <2>3. \A i \in Issues, d \in Decisions : ~Review(i, d)
    BY <1>1 DEF Review
  <2>4. ASSUME NEW w \in Workers, CompleteCorrection(w)
        PROVE  FALSE
    <3>1. claim[w].row \in Reviewed /\ rows[claim[w].row].status = "processing"
          /\ Finish(claim[w].row)
      BY <2>4 DEF CompleteCorrection, Owns, Fenced
    <3>2. rows'[<<e, 0>>] = rows[<<e, 0>>]
      BY <1>1, <2>1, <3>1, EndedRow, Pairs DEF IInv, Typed
    <3>3. QED
      BY <1>1, <3>2
  <2>5. PICK w \in Workers : CompleteBatch(w)
    BY <1>1, <2>2, <2>3, <2>4, QuietSteps DEF IInv, Next, Pass
  <2>6. QED
    BY <1>1, <2>5, BatchFollows
<1>2. IInv /\ [Next]_vars =>
        [\A e \in Evaluations :
           rows[<<e, 0>>].status # "done" /\ rows'[<<e, 0>>].status = "done" =>
             /\ e \in practised'
             /\ \A i \in evals[e].resolved : Written(<<i, 0>>)' <=> ~Invalidated(i)]_vars
  BY <1>1
<1>3. QED
  BY <1>2, Inductive, PTL DEF Spec, DrainFollowsReviews
=============================================================================
