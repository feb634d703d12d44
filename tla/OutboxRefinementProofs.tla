----------------------- MODULE OutboxRefinementProofs -----------------------
(***************************************************************************)
(* The rows of MasteryOutbox implement LeasedJobs, for any number of       *)
(* issues, evaluations, drain passes, attempts and reviews.                *)
(***************************************************************************)
EXTENDS MasteryOutboxProofs

\* A function that differs from another at one point.
LEMMA OneMappedPoint ==
  ASSUME NEW S, NEW f, NEW g, NEW x \in S, NEW v,
         f = [y \in S |-> f[y]], g = [y \in S |-> g[y]],
         g[x] = v, \A y \in S \ {x} : g[y] = f[y]
  PROVE  g = [f EXCEPT ![x] = v]
OBVIOUS

\* A row has one job in the abstract table.
LEMMA RowJobs ==
  /\ Promised!Jobs = Rows \X {1}
  /\ \A r \in Rows : <<r, 1>> \in Rows \X {1}
  /\ \A j \in Rows \X {1} : j[1] \in Rows /\ j = <<j[1], 1>>
BY DEF Promised!Jobs

\* Only row r changes.
OnlyRow(r) ==
  /\ \A q \in Rows \ {r} : rows'[q] = rows[q]
  /\ \A q \in Rows \ {r} : Delivered(q)' <=> Delivered(q)

\* The abstract table changes at its job only.
LEMMA MappedRow ==
  ASSUME NEW r \in Rows, OnlyRow(r)
  PROVE  /\ [q \in Rows |-> Verdict(q)'] = [[q \in Rows |-> Verdict(q)] EXCEPT ![r] = Verdict(r)']
         /\ [q \in Rows |-> IF Delivered(q)' THEN 1 ELSE 0]
              = [[q \in Rows |-> IF Delivered(q) THEN 1 ELSE 0]
                   EXCEPT ![r] = IF Delivered(r)' THEN 1 ELSE 0]
         /\ [j \in Rows \X {1} |-> JobStatus(j[1])']
              = [[j \in Rows \X {1} |-> JobStatus(j[1])] EXCEPT ![<<r, 1>>] = JobStatus(r)']
         /\ [j \in Rows \X {1} |-> rows'[j[1]].attempts]
              = [[j \in Rows \X {1} |-> rows[j[1]].attempts] EXCEPT ![<<r, 1>>] = rows'[r].attempts]
<1> DEFINE J == Rows \X {1}
           ve == [q \in Rows |-> Verdict(q)]
           veNext == [q \in Rows |-> Verdict(q)']
           ef == [q \in Rows |-> IF Delivered(q) THEN 1 ELSE 0]
           efNext == [q \in Rows |-> IF Delivered(q)' THEN 1 ELSE 0]
           st == [j \in J |-> JobStatus(j[1])]
           stNext == [j \in J |-> JobStatus(j[1])']
           at == [j \in J |-> rows[j[1]].attempts]
           atNext == [j \in J |-> rows'[j[1]].attempts]
<1>1. \A q \in Rows \ {r} : Verdict(q)' = Verdict(q) /\ JobStatus(q)' = JobStatus(q)
  BY DEF OnlyRow, Verdict, JobStatus
<1>2. \A j \in J \ {<<r, 1>>} : j[1] \in Rows \ {r}
  BY RowJobs
<1>3. <<r, 1>> \in J /\ <<r, 1>>[1] = r
  BY RowJobs
<1>4. veNext[r] = Verdict(r)' /\ \A q \in Rows \ {r} : veNext[q] = ve[q]
  BY <1>1
<1>5. efNext[r] = (IF Delivered(r)' THEN 1 ELSE 0) /\ \A q \in Rows \ {r} : efNext[q] = ef[q]
  BY DEF OnlyRow
<1>6. stNext[<<r, 1>>] = JobStatus(r)' /\ \A j \in J \ {<<r, 1>>} : stNext[j] = st[j]
  BY <1>1, <1>2, <1>3
<1>7. atNext[<<r, 1>>] = rows'[r].attempts /\ \A j \in J \ {<<r, 1>>} : atNext[j] = at[j]
  BY <1>2, <1>3 DEF OnlyRow
<1>8. /\ ve = [q \in Rows |-> ve[q]] /\ veNext = [q \in Rows |-> veNext[q]]
      /\ ef = [q \in Rows |-> ef[q]] /\ efNext = [q \in Rows |-> efNext[q]]
      /\ st = [j \in J |-> st[j]] /\ stNext = [j \in J |-> stNext[j]]
      /\ at = [j \in J |-> at[j]] /\ atNext = [j \in J |-> atNext[j]]
  OBVIOUS
<1> HIDE DEF J, ve, veNext, ef, efNext, st, stNext, at, atNext
<1>9. veNext = [ve EXCEPT ![r] = Verdict(r)']
  BY <1>4, <1>8, OneMappedPoint
<1>10. efNext = [ef EXCEPT ![r] = IF Delivered(r)' THEN 1 ELSE 0]
  BY <1>5, <1>8, OneMappedPoint
<1>11. stNext = [st EXCEPT ![<<r, 1>>] = JobStatus(r)']
  BY <1>3, <1>6, <1>8, OneMappedPoint
<1>12. atNext = [at EXCEPT ![<<r, 1>>] = rows'[r].attempts]
  BY <1>3, <1>7, <1>8, OneMappedPoint
<1>13. QED
  BY <1>9, <1>10, <1>11, <1>12 DEF J, ve, veNext, ef, efNext, st, stNext, at, atNext

\* What did not change does not change in the abstract table either.
LEMMA MappedSame ==
  ASSUME NEW r \in Rows, OnlyRow(r)
  PROVE  /\ (Delivered(r)' <=> Delivered(r)) =>
              [q \in Rows |-> IF Delivered(q)' THEN 1 ELSE 0]
                = [q \in Rows |-> IF Delivered(q) THEN 1 ELSE 0]
         /\ Verdict(r)' = Verdict(r) =>
              [q \in Rows |-> Verdict(q)'] = [q \in Rows |-> Verdict(q)]
         /\ rows'[r].attempts = rows[r].attempts =>
              [j \in Rows \X {1} |-> rows'[j[1]].attempts]
                = [j \in Rows \X {1} |-> rows[j[1]].attempts]
<1>1. \A q \in Rows \ {r} : Verdict(q)' = Verdict(q)
  BY DEF OnlyRow, Verdict
<1>2. \A j \in Rows \X {1} : j[1] \in Rows
  BY RowJobs
<1>3. QED
  BY <1>1, <1>2 DEF OnlyRow

\* A row that appears was asked for.
LEMMA MappedAskRow ==
  ASSUME NEW r \in Rows, OnlyRow(r), rows[r].status = "none", rows'[r].status = "pending",
         rows'[r].attempts = 0, Delivered(r)' <=> Delivered(r)
  PROVE  Promised!Ask(r, 1)
<1>1. /\ Verdict(r) = "none" /\ Verdict(r)' = "open"
      /\ JobStatus(r) = "none" /\ JobStatus(r)' = "pending"
  BY DEF Verdict, JobStatus, Open
<1>2. <<r, 1>> \in Rows \X {1} /\ <<r, 1>>[1] = r
  BY RowJobs
<1>3. /\ [q \in Rows |-> Verdict(q)] [r] = "none"
      /\ [j \in Rows \X {1} |-> JobStatus(j[1])][<<r, 1>>] = "none"
  BY <1>1, <1>2
<1>4. \A h \in {1} : [j \in Rows \X {1} |-> JobStatus(j[1])][<<r, h>>] \notin Promised!Active
  BY <1>3 DEF Promised!Active
<1>5. [[q \in Rows |-> Verdict(q)] EXCEPT ![r] = Verdict(r)']
        = [[q \in Rows |-> Verdict(q)] EXCEPT ![r] = IF @ = "none" THEN "open" ELSE @]
  BY <1>1
<1>6. QED
  BY <1>1, <1>3, <1>4, <1>5, MappedRow, MappedSame DEF Promised!Ask

\* A row that is claimed, comes back or ends.
LEMMA MappedMoveRow ==
  ASSUME NEW r \in Rows, OnlyRow(r), rows[r].attempts \in Nat,
         \/ /\ rows[r].status = "pending" /\ rows'[r].status = "processing"
            /\ rows[r].attempts < MaxAttempts
            /\ rows'[r].attempts = rows[r].attempts + 1
            /\ Delivered(r)' <=> Delivered(r)
         \/ /\ rows[r].status = "processing" /\ rows'[r].status = "pending"
            /\ rows[r].attempts < MaxAttempts
            /\ rows'[r].attempts = rows[r].attempts
            /\ Delivered(r)' <=> Delivered(r)
         \/ /\ rows[r].status = "processing" /\ rows'[r].status \in {"done", "failed"}
            /\ rows'[r].attempts = rows[r].attempts
            /\ (Delivered(r)' <=> Delivered(r)) \/ (Delivered(r)' /\ ~Delivered(r))
  PROVE  \E j \in Promised!Jobs : Promised!Lease(j) \/ Promised!Return(j) \/ Promised!Settle(j)
<1> DEFINE j == <<r, 1>>
<1>1. j \in Rows \X {1} /\ j[1] = r /\ j \in Promised!Jobs
  BY RowJobs
<1>2. /\ [k \in Rows \X {1} |-> JobStatus(k[1])][j] = JobStatus(r)
      /\ [k \in Rows \X {1} |-> rows[k[1]].attempts][j] = rows[r].attempts
      /\ [q \in Rows |-> Verdict(q)][r] = Verdict(r)
      /\ [q \in Rows |-> IF Delivered(q) THEN 1 ELSE 0][r] = IF Delivered(r) THEN 1 ELSE 0
  BY <1>1
<1>3. CASE rows[r].status = "pending" /\ rows'[r].status = "processing"
  <2>1. /\ JobStatus(r) = "pending" /\ JobStatus(r)' = "running" /\ Verdict(r)' = Verdict(r)
        /\ rows[r].attempts < MaxAttempts /\ rows'[r].attempts = rows[r].attempts + 1
        /\ Delivered(r)' <=> Delivered(r)
    BY <1>3 DEF JobStatus, Verdict, Open
  <2>2. [[k \in Rows \X {1} |-> rows[k[1]].attempts] EXCEPT ![j] = rows'[r].attempts]
          = [[k \in Rows \X {1} |-> rows[k[1]].attempts] EXCEPT ![j] = @ + 1]
    BY <1>1, <2>1
  <2>3. Promised!Lease(j)
    BY <1>1, <1>2, <2>1, <2>2, MappedRow, MappedSame DEF Promised!Lease
  <2>4. QED
    BY <1>1, <2>3
<1>4. CASE rows[r].status = "processing" /\ rows'[r].status = "pending"
  <2>1. /\ JobStatus(r) = "running" /\ JobStatus(r)' = "pending" /\ Verdict(r)' = Verdict(r)
        /\ rows[r].attempts < MaxAttempts /\ rows'[r].attempts = rows[r].attempts
        /\ Delivered(r)' <=> Delivered(r)
    BY <1>4 DEF JobStatus, Verdict, Open
  <2>2. Promised!Return(j)
    BY <1>1, <1>2, <2>1, MappedRow, MappedSame DEF Promised!Return
  <2>3. QED
    BY <1>1, <2>2
<1>5. CASE rows[r].status = "processing" /\ rows'[r].status \in {"done", "failed"}
  <2>1. /\ JobStatus(r) = "running" /\ JobStatus(r)' \in {"done", "failed"}
        /\ Verdict(r) = "open" /\ Verdict(r)' = "decided"
        /\ rows'[r].attempts = rows[r].attempts
        /\ (Delivered(r)' <=> Delivered(r)) \/ (Delivered(r)' /\ ~Delivered(r))
    BY <1>5 DEF JobStatus, Verdict, Open
  <2>2. \E st \in Promised!Settled :
          [k \in Rows \X {1} |-> JobStatus(k[1])']
            = [[k \in Rows \X {1} |-> JobStatus(k[1])] EXCEPT ![j] = st]
    BY <2>1, MappedRow DEF Promised!Settled
  <2>3. [q \in Rows |-> Verdict(q)'] = [[q \in Rows |-> Verdict(q)] EXCEPT ![r] = "decided"]
    BY <2>1, MappedRow
  <2>4. \/ [q \in Rows |-> IF Delivered(q)' THEN 1 ELSE 0]
             = [q \in Rows |-> IF Delivered(q) THEN 1 ELSE 0]
        \/ [q \in Rows |-> IF Delivered(q)' THEN 1 ELSE 0]
             = [[q \in Rows |-> IF Delivered(q) THEN 1 ELSE 0] EXCEPT ![r] = @ + 1]
    <3>1. CASE Delivered(r)' <=> Delivered(r)
      BY <3>1, MappedSame
    <3>2. CASE Delivered(r)' /\ ~Delivered(r)
      <4>1. [[q \in Rows |-> IF Delivered(q) THEN 1 ELSE 0]
               EXCEPT ![r] = IF Delivered(r)' THEN 1 ELSE 0]
              = [[q \in Rows |-> IF Delivered(q) THEN 1 ELSE 0] EXCEPT ![r] = @ + 1]
        BY <3>2
      <4>2. QED
        BY <4>1, MappedRow
    <3>3. QED
      BY <2>1, <3>1, <3>2
  <2>5. Promised!Settle(j)
    BY <1>1, <1>2, <2>1, <2>2, <2>3, <2>4, MappedSame DEF Promised!Settle
  <2>6. QED
    BY <1>1, <2>5
<1>6. QED
  BY <1>3, <1>4, <1>5

\* Nothing happens to rows and evidence: the producers see nothing.
LEMMA MappedNothing ==
  ASSUME UNCHANGED <<rows, evidence, practised>>
  PROVE  UNCHANGED Promised!vars
BY DEF Promised!vars, Verdict, JobStatus, Delivered, Written
-----------------------------------------------------------------------------
(* The steps *)

\* Nothing was delivered for a row that is being processed.
LEMMA NothingYet ==
  ASSUME IInv, NEW r \in Rows, rows[r].status = "processing"
  PROVE  ~Delivered(r) /\ rows[r].attempts \in Nat
<1>1. rows[r].attempts \in Nat
  BY Pairs DEF IInv, Typed, TypeOK, RowRecord
<1>2. CASE r \in EvalRows
  <2>1. r[1] \in Evaluations /\ r = <<r[1], 0>>
    BY <1>2, Pairs
  <2>2. QED
    BY <1>1, <1>2, <2>1 DEF IInv, RowInv, DoneMeansWritten, Delivered
<1>3. CASE r \notin EvalRows
  BY <1>1, <1>3 DEF IInv, RowInv, DoneMeansWritten, Delivered, Rows
<1>4. QED
  BY <1>2, <1>3

\* Enqueueing asks.
LEMMA EnqueueMapped ==
  ASSUME IInv, NEW r \in Rows, Enqueue(r), UNCHANGED <<evidence, practised>>
  PROVE  Promised!Next \/ UNCHANGED Promised!vars
<1>1. \A q : Delivered(q)' <=> Delivered(q)
  BY DEF Delivered, Written
<1>2. CASE rows[r].status = "none"
  <2>1. /\ rows'[r] = [status |-> "pending", attempts |-> 0]
        /\ \A q \in Rows \ {r} : rows'[q] = rows[q]
    BY <1>2, EnqueueEffect DEF IInv, Typed
  <2>2. OnlyRow(r)
    BY <1>1, <2>1 DEF OnlyRow
  <2>3. Promised!Ask(r, 1)
    BY <1>1, <1>2, <2>1, <2>2, MappedAskRow
  <2>4. QED
    BY <2>3 DEF Promised!Next
<1>3. CASE rows[r].status # "none"
  BY <1>3, EnqueueEffect, MappedNothing DEF IInv, Typed
<1>4. QED
  BY <1>2, <1>3

\* A claim leases, the end of an attempt returns or settles.
LEMMA MoveMapped ==
  ASSUME IInv, NEW r \in Rows, UNCHANGED <<evidence, practised>>,
         \/ rows[r].status = "pending" /\ Lease(r)
         \/ rows[r].status = "processing" /\ Reclaim(r)
  PROVE  Promised!Next
<1>1. \A q : Delivered(q)' <=> Delivered(q)
  BY DEF Delivered, Written
<1>2. TypeOK /\ Budget /\ rows[r].attempts \in 0..MaxAttempts /\ MaxAttempts \in Nat
      /\ rows[r].attempts \in Nat
  BY Pairs DEF IInv, Typed, TypeOK, RowRecord
<1>3. CASE rows[r].status = "pending" /\ Lease(r)
  <2>1. rows[r].attempts < MaxAttempts
    BY <1>2, <1>3 DEF Budget
  <2>2. PICK x \in RowRecord : /\ rows' = [rows EXCEPT ![r] = x]
                               /\ x.status = "processing" /\ x.attempts = rows[r].attempts + 1
    BY <1>2, <1>3, <2>1, RowEffects
  <2>3. rows'[r] = x /\ OnlyRow(r)
    BY <1>1, <1>2, <2>2, OneRow DEF OnlyRow
  <2>4. QED
    BY <1>1, <1>2, <1>3, <2>1, <2>2, <2>3, MappedMoveRow DEF Promised!Next
<1>4. CASE rows[r].status = "processing" /\ Reclaim(r)
  <2>1. PICK x \in RowRecord :
          /\ rows' = [rows EXCEPT ![r] = x] /\ x.attempts = rows[r].attempts
          /\ x.status = IF rows[r].attempts >= MaxAttempts THEN "failed" ELSE "pending"
    BY <1>2, <1>4, RowEffects
  <2>2. rows'[r] = x /\ OnlyRow(r)
    BY <1>1, <1>2, <2>1, OneRow DEF OnlyRow
  <2>3. \/ x.status = "failed"
        \/ x.status = "pending" /\ rows[r].attempts < MaxAttempts
    BY <1>2, <2>1
  <2>4. QED
    BY <1>1, <1>2, <1>4, <2>1, <2>2, <2>3, MappedMoveRow DEF Promised!Next
<1>5. QED
  BY <1>3, <1>4

\* A completion settles, and delivers what was not delivered before.
LEMMA CompletionMapped ==
  ASSUME IInv, NEW w \in Workers, CompleteBatch(w) \/ CompleteCorrection(w),
         NEW r \in Rows, r = claim[w].row
  PROVE  Promised!Next
<1>1. /\ rows[r].status = "processing" /\ Finish(r)
      /\ r \in EvalRows \/ r \in Reviewed
  BY Pairs DEF CompleteBatch, CompleteCorrection, Owns, Fenced
<1>2. /\ \A q \in Rows \ {r} : rows'[q] = rows[q]
      /\ rows'[r].attempts = rows[r].attempts /\ rows'[r].status = "done"
  BY <1>1, EndedRow DEF IInv, Typed
<1>3. ~Delivered(r) /\ rows[r].attempts \in Nat
  BY <1>1, NothingYet
<1>4. CASE CompleteBatch(w)
  <2>1. /\ r \in EvalRows /\ practised' = practised \cup {r[1]}
        /\ \A k \in Keys : k[2] # 0 => evidence'[k] = evidence[k]
    BY <1>4 DEF CompleteBatch
  <2>2. Delivered(r)'
    BY <2>1 DEF Delivered
  <2>3. ASSUME NEW q \in Rows, q # r
        PROVE  Delivered(q)' <=> Delivered(q)
    <3>1. CASE q \in EvalRows
      <4>1. q[1] # r[1]
        BY <2>1, <2>3, <3>1, Pairs
      <4>2. QED
        BY <2>1, <3>1, <4>1 DEF Delivered
    <3>2. CASE q \notin EvalRows
      <4>1. q \in Keys /\ q[2] # 0
        BY <3>2, Pairs DEF Rows
      <4>2. QED
        BY <2>1, <3>2, <4>1 DEF Delivered, Written
    <3>3. QED
      BY <3>1, <3>2
  <2>4. OnlyRow(r)
    BY <1>2, <2>3 DEF OnlyRow
  <2>5. QED
    BY <1>1, <1>2, <1>3, <2>2, <2>4, MappedMoveRow DEF Promised!Next
<1>5. CASE CompleteCorrection(w)
  <2>1. /\ r \in Reviewed /\ r \notin EvalRows /\ r \in Keys /\ practised' = practised
        /\ ~Written(r)
    BY <1>3, <1>5, Pairs DEF CompleteCorrection, Delivered
  <2>2. evidence' = [evidence EXCEPT ![r] =
          [from |-> claim[w].tail, proj |-> Projection(r[1], r[2]), written |-> TRUE]]
    BY <1>5, <2>1 DEF CompleteCorrection
  <2>3. evidence \in [Keys -> EvidenceRecord]
    BY DEF IInv, Typed, TypeOK
  <2>4. Delivered(r)'
    BY <2>1, <2>2, <2>3 DEF Delivered, Written
  <2>5. \A q \in Rows \ {r} : Delivered(q)' <=> Delivered(q)
    <3>1. \A q \in Rows \ {r} : q \notin EvalRows => evidence'[q] = evidence[q]
      BY <2>2, <2>3, Pairs DEF Rows
    <3>2. QED
      BY <2>1, <3>1 DEF Delivered, Written
  <2>6. OnlyRow(r)
    BY <1>2, <2>5 DEF OnlyRow
  <2>7. QED
    BY <1>1, <1>2, <1>3, <2>4, <2>6, MappedMoveRow DEF Promised!Next
<1>6. QED
  BY <1>4, <1>5
-----------------------------------------------------------------------------
(* The refinement *)

\* Nothing was asked for at first.
LEMMA OutboxInit == Init => Promised!Init
<1> SUFFICES ASSUME Init PROVE Promised!Init
  OBVIOUS
<1>1. /\ \A r \in Rows : rows[r].status = "none" /\ rows[r].attempts = 0
      /\ \A r \in Rows : ~Delivered(r)
  BY Pairs DEF Init, Missing, Absent, Delivered, Written, Rows
<1>2. /\ [r \in Rows |-> Verdict(r)] = [r \in Rows |-> "none"]
      /\ [r \in Rows |-> IF Delivered(r) THEN 1 ELSE 0] = [r \in Rows |-> 0]
  <2>1. \A r \in Rows : Verdict(r) = "none"
    BY <1>1 DEF Verdict, Open
  <2>2. QED
    BY <1>1, <2>1
<1>3. /\ [j \in Rows \X {1} |-> JobStatus(j[1])] = [j \in Rows \X {1} |-> "none"]
      /\ [j \in Rows \X {1} |-> rows[j[1]].attempts] = [j \in Rows \X {1} |-> 0]
  BY <1>1, RowJobs DEF JobStatus
<1>4. QED
  BY <1>2, <1>3, RowJobs DEF Promised!Init

\* Every step asks, leases, returns or settles, or the producers see nothing.
LEMMA OutboxNext == IInv /\ [Next]_vars => [Promised!Next]_Promised!vars
<1> SUFFICES ASSUME IInv, [Next]_vars
             PROVE  Promised!Next \/ UNCHANGED Promised!vars
  OBVIOUS
<1>1. ASSUME NEW e \in Evaluations, StartEvaluation(e) \/ CompleteEvaluation(e)
      PROVE  Promised!Next \/ UNCHANGED Promised!vars
  <2>1. <<e, 0>> \in Rows
    BY Pairs
  <2>2. QED
    BY <1>1, <2>1, EnqueueMapped, MappedNothing DEF StartEvaluation, CompleteEvaluation
<1>2. ASSUME NEW i \in Issues, NEW n \in 1..MaxReviews, EnqueueCorrection(i, n)
      PROVE  Promised!Next \/ UNCHANGED Promised!vars
  <2>1. <<i, n>> \in Rows
    BY Pairs
  <2>2. QED
    BY <1>2, <2>1, EnqueueMapped DEF EnqueueCorrection
<1>3. ASSUME NEW i \in Issues, NEW d \in Decisions, Review(i, d)
      PROVE  UNCHANGED Promised!vars
  BY <1>3, MappedNothing DEF Review
<1>4. ASSUME NEW w \in Workers, Pass(w)
      PROVE  Promised!Next \/ UNCHANGED Promised!vars
  <2>1. ASSUME NEW r \in Rows, ClaimEvaluationRow(w, r) \/ ClaimCorrection(w, r)
        PROVE  Promised!Next
    <3>1. rows[r].status = "pending" /\ Lease(r) /\ UNCHANGED <<evidence, practised>>
      BY <2>1 DEF ClaimEvaluationRow, ClaimCorrection, Claimable
    <3>2. QED
      BY <3>1, MoveMapped
  <2>2. CASE NoEvaluationRow(w) \/ NoCorrection(w) \/ GiveUp(w)
    BY <2>2, MappedNothing DEF NoEvaluationRow, NoCorrection, GiveUp
  <2>3. CASE FailRow(w)
    <3>1. claim[w].row \in Rows /\ rows[claim[w].row].status = "processing"
      BY <2>3 DEF FailRow, Owns, Fenced, IInv, Typed, HeldRows
    <3>2. QED
      BY <2>3, <3>1, MoveMapped DEF FailRow
  <2>4. CASE CompleteBatch(w) \/ CompleteCorrection(w)
    <3>1. claim[w].row \in Rows
      BY <2>4, Pairs DEF CompleteBatch, CompleteCorrection
    <3>2. PICK r \in Rows : r = claim[w].row
      BY <3>1
    <3>3. QED
      BY <2>4, <3>2, CompletionMapped
  <2>5. QED
    BY <1>4, <2>1, <2>2, <2>3, <2>4, Pairs DEF Pass
<1>5. ASSUME NEW r \in Rows, Sweep(r)
      PROVE  Promised!Next
  BY <1>5, MoveMapped DEF Sweep
<1>6. CASE UNCHANGED vars
  BY <1>6, MappedNothing DEF vars
<1>7. QED
  BY <1>1, <1>2, <1>3, <1>4, <1>5, <1>6 DEF Next

\* Late completions, swept leases, lost replies and rejected payloads are
\* invisible: a row of the outbox is delivered once by one of a bounded number
\* of attempts, or given up (ewp_claim_mastery_outbox to
\* ewp_sweep_stale_mastery_outbox).
THEOREM OutboxIsLeasedJobs == Spec => ImplementsLeasedJobs
BY OutboxInit, OutboxNext, Inductive, PTL DEF Spec, ImplementsLeasedJobs, Promised!Spec
=============================================================================
