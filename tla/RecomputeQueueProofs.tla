----------------------- MODULE RecomputeQueueProofs -----------------------
(***************************************************************************)
(* Proofs about RecomputeQueue for any sets of users, recruitments, rows   *)
(* and drains and any bounds: the types; and, unless two administrators'   *)
(* retries of one row overlap, that claims are exclusive, that attempts    *)
(* are kept, that runs cover their requests and that a slot has one        *)
(* unfinished row.                                                         *)
(***************************************************************************)
EXTENDS RecomputeQueue, TLAPS

\* What types alone do not say: a row that exists or is held belongs to a
\* user, and a drain runs only what it holds.
Owned ==
  /\ \A r \in Rows : queue[r].status # "absent" => queue[r].user \in Users
  /\ \A d \in Drains, r \in Rows : held[d][r] > 0 => queue[r].user \in Users
  /\ \A d \in Drains : run[d].stage # "idle" =>
       run[d].row \in Rows /\ held[d][run[d].row] > 0

TypeInv == TypeOK /\ Owned

-----------------------------------------------------------------------------
(* What becomes of single rows *)

\* What a row is inserted as.
Opening == {"pending", "queued"}

\* The rows the producers write are rows.
LEMMA NewRowType ==
  ASSUME TypeOK, NEW u \in Users, NEW s \in Scopes, NEW st \in Opening
  PROVE  NewRow(u, s, st) \in Row /\ NewRow(u, s, st).user = u
<1>1. st \in Statuses
  BY DEF Opening, Statuses, Active
<1>2. QED
  BY <1>1, AttemptsAssumption DEF TypeOK, NewRow, Row

\* A request that meets a row keeps its user and its attempts.
LEMMA MetRowType ==
  ASSUME TypeOK, NEW r \in Rows, queue[r].user \in Users
  PROVE  /\ Asked(r) \in Row /\ Asked(r).user = queue[r].user
         /\ Asked(r).status = queue[r].status
         /\ Asked(r).attempts = queue[r].attempts
         /\ Requeued(r) \in Row /\ Requeued(r).user = queue[r].user
         /\ Requeued(r).attempts = queue[r].attempts
         /\ Requeued(r).status = "pending"
<1>1. queue[r] \in Row /\ input[queue[r].user] \in Version
  BY DEF TypeOK
<1>2. "pending" \in Statuses
  BY DEF Statuses, Active
<1>3. Asked(r) \in Row /\ Asked(r).user = queue[r].user
      /\ Asked(r).status = queue[r].status /\ Asked(r).attempts = queue[r].attempts
  <2>1. CASE queue[r].status = "processing"
    BY <1>1, <2>1 DEF Asked, Row
  <2>2. CASE queue[r].status # "processing"
    BY <1>1, <2>2 DEF Asked, Row
  <2>3. QED
    BY <2>1, <2>2
<1>4. Requeued(r) \in Row /\ Requeued(r).user = queue[r].user
      /\ Requeued(r).attempts = queue[r].attempts
      /\ Requeued(r).status = "pending"
  BY <1>1, <1>2 DEF Requeued, Row
<1>5. QED
  BY <1>3, <1>4

\* Deduplication changes one row: one in its scope, or a fresh one.
LEMMA EnqueueEffect ==
  ASSUME TypeInv, NEW u \in Users, NEW s \in Scopes, Enqueue(u, s)
  PROVE  \E r \in Rows :
           /\ queue' \in [Rows -> Row]
           /\ queue'[r].user \in Users
           /\ \A q \in Rows \ {r} : queue'[q] = queue[q]
           /\ \/ queue'[r].status = queue[r].status /\ queue'[r].attempts = queue[r].attempts
              \/ /\ queue[r].status = "failed" /\ queue'[r].status = "pending"
                 /\ queue'[r].attempts = queue[r].attempts
              \/ r \in Fresh /\ queue'[r].status = "pending"
<1>1. CASE \E r \in ActiveIn(u, s) : queue' = [queue EXCEPT ![r] = Asked(r)]
  <2>1. PICK r \in ActiveIn(u, s) : queue' = [queue EXCEPT ![r] = Asked(r)]
    BY <1>1
  <2>2. r \in Rows /\ queue[r].user = u
    BY DEF ActiveIn, InScope
  <2>3. QED
    BY <2>1, <2>2, MetRowType DEF TypeInv, TypeOK
<1>2. CASE \E r \in FailedIn(u, s) : queue' = [queue EXCEPT ![r] = Requeued(r)]
  <2>1. PICK r \in FailedIn(u, s) : queue' = [queue EXCEPT ![r] = Requeued(r)]
    BY <1>2
  <2>2. r \in Rows /\ queue[r].user = u /\ queue[r].status = "failed"
    BY DEF FailedIn, InScope
  <2>3. QED
    BY <2>1, <2>2, MetRowType DEF TypeInv, TypeOK
<1>3. CASE \E r \in Fresh : queue' = [queue EXCEPT ![r] = NewRow(u, s, "pending")]
  <2>1. PICK r \in Fresh : queue' = [queue EXCEPT ![r] = NewRow(u, s, "pending")]
    BY <1>3
  <2>2. r \in Rows
    BY DEF Fresh
  <2>3. "pending" \in Opening
    BY DEF Opening
  <2>4. NewRow(u, s, "pending").status = "pending"
    BY DEF NewRow
  <2>5. QED
    BY <2>1, <2>2, <2>3, <2>4, NewRowType DEF TypeInv, TypeOK
<1>4. QED
  BY <1>1, <1>2, <1>3 DEF Enqueue

\* Several fresh rows at once (the trigger, the fan-out).
LEMMA FreshRowsEffect ==
  ASSUME TypeInv,
         queue' = [r \in Rows |-> queue'[r]],
         \A r \in Rows :
           \/ queue'[r] = queue[r]
           \/ /\ r \in Fresh
              /\ \E u \in Users, s \in Scopes, st \in Opening :
                   queue'[r] = NewRow(u, s, st)
  PROVE  /\ queue' \in [Rows -> Row]
         /\ \A r \in Rows : queue'[r] # queue[r] => r \in Fresh /\ queue'[r].user \in Users
<1>1. ASSUME NEW r \in Rows, queue'[r] # queue[r]
      PROVE  queue'[r] \in Row /\ queue'[r].user \in Users /\ r \in Fresh
  <2>1. PICK u \in Users, s \in Scopes, st \in Opening : queue'[r] = NewRow(u, s, st)
    BY <1>1
  <2>2. QED
    BY <1>1, <2>1, NewRowType DEF TypeInv
<1>2. QED
  BY <1>1 DEF TypeInv, TypeOK

\* The trigger adds fresh rows and leaves the rest.
LEMMA InsertedRows ==
  ASSUME TypeInv, NEW c \in Recruitments, InsertRecruitment(c)
  PROVE  /\ queue' = [r \in Rows |-> queue'[r]]
         /\ \A r \in Rows :
              \/ queue'[r] = queue[r]
              \/ /\ r \in Fresh
                 /\ \E u \in Users, s \in Scopes, st \in Opening :
                      queue'[r] = NewRow(u, s, st)
<1>1. PICK row \in [Users -> Fresh] :
        queue' = [r \in Rows |->
          IF \E u \in Users : row[u] = r
          THEN NewRow(CHOOSE u \in Users : row[u] = r, c, "queued") ELSE queue[r]]
  BY DEF InsertRecruitment
<1>2. c \in Scopes /\ "queued" \in Opening
  BY DEF Scopes, Opening
<1>3. ASSUME NEW r \in Rows, \E u \in Users : row[u] = r
      PROVE  r \in Fresh /\ \E u \in Users : queue'[r] = NewRow(u, c, "queued")
  <2> DEFINE u == CHOOSE u \in Users : row[u] = r
  <2>1. u \in Users /\ row[u] = r
    BY <1>3
  <2>2. queue'[r] = NewRow(u, c, "queued")
    BY <1>1, <1>3
  <2>3. QED
    BY <2>1, <2>2
<1>4. ASSUME NEW r \in Rows, ~\E u \in Users : row[u] = r PROVE queue'[r] = queue[r]
  BY <1>1, <1>4
<1>5. QED
  BY <1>1, <1>2, <1>3, <1>4

\* So does the promotion's fan-out.
LEMMA FannedOutRows ==
  ASSUME TypeInv, NEW c \in Recruitments, FanoutInsert(c)
  PROVE  /\ queue' = [r \in Rows |-> queue'[r]]
         /\ \A r \in Rows :
              \/ queue'[r] = queue[r]
              \/ /\ r \in Fresh
                 /\ \E u \in Users, s \in Scopes, st \in Opening :
                      queue'[r] = NewRow(u, s, st)
<1> DEFINE rest == Users \ promo[c].skip
<1>1. CASE UNCHANGED queue
  BY <1>1 DEF TypeInv, TypeOK
<1>2. ASSUME NEW row \in [rest -> Fresh],
             queue' = [r \in Rows |->
               IF \E u \in rest : row[u] = r
               THEN NewRow(CHOOSE u \in rest : row[u] = r, Global, "pending")
               ELSE queue[r]],
             NEW r \in Rows
      PROVE  \/ queue'[r] = queue[r]
             \/ r \in Fresh /\ \E u \in Users : queue'[r] = NewRow(u, Global, "pending")
  <2>1. CASE \E u \in rest : row[u] = r
    <3> DEFINE u == CHOOSE u \in rest : row[u] = r
    <3>1. u \in rest /\ row[u] = r
      BY <2>1
    <3>2. queue'[r] = NewRow(u, Global, "pending")
      BY <1>2, <2>1
    <3>3. QED
      BY <3>1, <3>2
  <2>2. CASE ~\E u \in rest : row[u] = r
    BY <1>2, <2>2
  <2>3. QED
    BY <2>1, <2>2
<1>3. Global \in Scopes /\ "pending" \in Opening
  BY DEF Scopes, Opening
<1>4. QED
  BY <1>1, <1>2, <1>3 DEF FanoutInsert

\* Deleting the older completed rows leaves the others as they are.
LEMMA CleanedType ==
  ASSUME TypeInv, NEW r \in Rows
  PROVE  /\ Cleaned(r) \in [Rows -> Row]
         /\ Cleaned(r)[r] = queue[r]
         /\ \A q \in Rows : Cleaned(r)[q] # queue[q] => queue[q].status = "completed"
         /\ \A q \in Rows : /\ Cleaned(r)[q].status # "absent" => Cleaned(r)[q] = queue[q]
                            /\ (\E d \in Drains : held[d][q] > 0) =>
                                 Cleaned(r)[q].user = queue[q].user
<1>1. Absent \in Row
  BY NullAssumption, AttemptsAssumption, VersionAssumption
  DEF Absent, Row, Scopes, Statuses, Active, Version
<1>2. ASSUME NEW q \in Rows
      PROVE  /\ Deleted(q) \in Row /\ Deleted(q).status = "absent"
             /\ (\E d \in Drains : held[d][q] > 0) => Deleted(q).user = queue[q].user
  <2>1. queue[q] \in Row
    BY DEF TypeInv, TypeOK
  <2>2. [queue[q] EXCEPT !.status = "absent"] \in Row
    BY <2>1 DEF Row, Statuses
  <2>3. CASE \E d \in Drains : held[d][q] > 0
    BY <2>1, <2>2, <2>3 DEF Deleted, Row
  <2>4. CASE ~\E d \in Drains : held[d][q] > 0
    BY <1>1, <2>4 DEF Deleted, Absent
  <2>5. QED
    BY <2>3, <2>4
<1>3. ASSUME NEW q \in Rows
      PROVE  Cleaned(r)[q] = queue[q] \/ (/\ Cleaned(r)[q] = Deleted(q)
                                          /\ queue[q].status = "completed" /\ q # r)
  BY DEF Cleaned
<1>4. QED
  BY <1>2, <1>3 DEF Cleaned, TypeInv, TypeOK

-----------------------------------------------------------------------------
(* The type invariant *)

\* An empty queue is typed.
LEMMA TypeInvInit == Init => TypeInv
<1> SUFFICES ASSUME Init PROVE TypeInv
  OBVIOUS
<1>1. Absent \in Row
  BY NullAssumption, AttemptsAssumption, VersionAssumption
  DEF Absent, Row, Scopes, Statuses, Active, Version
<1>2. Idle \in Run
  BY VersionAssumption DEF Idle, Run, Version
<1>3. 0 \in Version /\ 0 \in 0..MaxAttempts
  BY VersionAssumption, AttemptsAssumption DEF Version
<1>4. TypeOK
  BY <1>1, <1>2, <1>3 DEF Init, TypeOK, NoneHeld, NotPromoted
<1>5. Owned
  BY DEF Init, Owned, Absent, Idle, NoneHeld
<1>6. QED
  BY <1>4, <1>5 DEF TypeInv

\* A step that only replaces one row by one of the same or some user.
LEMMA RowStep ==
  ASSUME TypeInv, UNCHANGED <<held, run>>, queue' \in [Rows -> Row],
         \A r \in Rows : queue'[r] # queue[r] => queue'[r].user \in Users
  PROVE  Owned'
BY DEF TypeInv, Owned

\* A step that ends a run and leaves every row as it was, with the same
\* user, or gone and not held.
LEMMA EndType ==
  ASSUME TypeInv, NEW d \in Drains, run[d].stage # "idle",
         Release(d, run[d].row), queue' \in [Rows -> Row],
         \A q \in Rows : /\ queue'[q].status # "absent" => queue[q].status # "absent"
                         /\ \/ queue'[q].user = queue[q].user
                            \/ /\ queue'[q].status = "absent"
                               /\ \A e \in Drains : ~(held[e][q] > 0),
         UNCHANGED <<inputVars, result, retry, acked>>
  PROVE  TypeInv'
<1> DEFINE r == run[d].row
<1>1. /\ held' \in [Drains -> [Rows -> 0..MaxAttempts]]
      /\ \A e \in Drains, q \in Rows : held'[e][q] > 0 => held[e][q] > 0
      /\ \A e \in Drains \ {d} : held'[e] = held[e]
  BY AttemptsAssumption DEF TypeInv, TypeOK, Owned, Release
<1>2. run' \in [Drains -> Run] /\ run'[d].stage = "idle"
      /\ \A e \in Drains \ {d} : run'[e] = run[e]
  <2>1. Idle \in Run
    BY VersionAssumption DEF Idle, Run, Version
  <2>2. QED
    BY <2>1 DEF TypeInv, TypeOK, Release, Idle
<1>3. TypeOK'
  BY <1>1, <1>2 DEF TypeInv, TypeOK, inputVars
<1>4. \A q \in Rows : queue'[q].status # "absent" => queue'[q].user \in Users
  BY DEF TypeInv, Owned
<1>5. \A e \in Drains, q \in Rows : held'[e][q] > 0 => queue'[q].user \in Users
  BY <1>1 DEF TypeInv, Owned
<1>6. \A e \in Drains : run'[e].stage # "idle" =>
        run'[e].row \in Rows /\ held'[e][run'[e].row] > 0
  BY <1>1, <1>2 DEF TypeInv, Owned
<1>7. QED
  BY <1>3, <1>4, <1>5, <1>6 DEF TypeInv, Owned

\* The row a run ends with is updated, after the cleanup or without it.
LEMMA EndedRows ==
  ASSUME TypeInv, NEW r \in Rows, NEW q \in {queue, Cleaned(r)}, NEW row,
         row \in Row, row.user = queue[r].user,
         queue' = Update(q, r, row) \/ queue' = q
  PROVE  /\ queue' \in [Rows -> Row]
         /\ \A x \in Rows : /\ queue'[x].status # "absent" => queue[x].status # "absent"
                            /\ \/ queue'[x].user = queue[x].user
                               \/ /\ queue'[x].status = "absent"
                                  /\ \A e \in Drains : ~(held[e][x] > 0)
<1>1. /\ q \in [Rows -> Row] /\ q[r] = queue[r]
      /\ \A x \in Rows : /\ q[x].status # "absent" => q[x] = queue[x]
                         /\ (\E d \in Drains : held[d][x] > 0) => q[x].user = queue[x].user
  <2>1. CASE q = queue
    BY <2>1 DEF TypeInv, TypeOK
  <2>2. CASE q = Cleaned(r)
    BY <2>2, CleanedType
  <2>3. QED
    BY <2>1, <2>2
<1>2. /\ queue' \in [Rows -> Row]
      /\ \A x \in Rows \ {r} : queue'[x] = q[x]
      /\ queue'[r] = queue[r] \/ (queue[r].status # "absent" /\ queue'[r] = row)
  <2>1. CASE queue' = q
    BY <1>1, <2>1
  <2>2. CASE queue' = Update(q, r, row)
    <3>1. q \in [Rows -> Row]
      BY <1>1
    <3>2. /\ Update(q, r, row) \in [Rows -> Row]
          /\ \A x \in Rows \ {r} : Update(q, r, row)[x] = q[x]
          /\ \/ Update(q, r, row)[r] = q[r]
             \/ q[r].status # "absent" /\ Update(q, r, row)[r] = row
      BY <3>1 DEF Update
    <3>3. QED
      BY <1>1, <2>2, <3>2
  <2>3. QED
    BY <2>1, <2>2
<1>3. QED
  BY <1>1, <1>2

\* The row of a run is held, and belongs to a user.
LEMMA RunRow ==
  ASSUME TypeInv, NEW d \in Drains, run[d].stage # "idle"
  PROVE  run[d].row \in Rows /\ queue[run[d].row] \in Row
BY DEF TypeInv, TypeOK, Owned

\* The completing update writes a row.
LEMMA CompletedRow ==
  ASSUME TypeInv, NEW r \in Rows
  PROVE  [queue[r] EXCEPT !.status = "completed"] \in Row
<1>1. queue[r] \in Row
  BY DEF TypeInv, TypeOK
<1>2. QED
  BY <1>1 DEF Row, Statuses

\* So does _finalise_failure.
LEMMA FinalisedRow ==
  ASSUME TypeInv, NEW r \in Rows, NEW q \in {queue, Cleaned(r)}, NEW n \in 0..MaxAttempts
  PROVE  \E row \in Row : /\ Finalised(q, r, n) = Update(q, r, row)
                          /\ row.user = queue[r].user
                          /\ row.status \in {"failed", "pending"}
<1> DEFINE row == [q[r] EXCEPT !.status = IF n >= MaxAttempts THEN "failed" ELSE "pending",
                               !.waiting = TRUE, !.attempts = n]
<1>1. q[r] = queue[r] /\ queue[r] \in Row
  BY CleanedType DEF TypeInv, TypeOK
<1>2. row \in Row /\ row.user = queue[r].user /\ row.status \in {"failed", "pending"}
  <2>1. CASE n >= MaxAttempts
    BY <1>1, <2>1 DEF Row, Statuses
  <2>2. CASE ~(n >= MaxAttempts)
    BY <1>1, <2>2 DEF Row, Statuses, Active
  <2>3. QED
    BY <2>1, <2>2
<1>3. Finalised(q, r, n) = Update(q, r, row)
  BY DEF Finalised
<1>4. QED
  BY <1>2, <1>3

\* Every step keeps the types and the owners.
LEMMA TypeInvNext == TypeInv /\ [Next]_vars => TypeInv'
<1> SUFFICES ASSUME TypeInv, [Next]_vars PROVE TypeInv'
  OBVIOUS
<1> USE DEF TypeInv
<1>1. ASSUME NEW u \in Users, EditProfile(u) PROVE TypeInv'
  <2>1. input[u] + 1 \in Version
    BY <1>1, VersionAssumption DEF EditProfile, TypeOK, Version
  <2>2. TypeOK'
    BY <1>1, <2>1 DEF EditProfile, TypeOK, drainVars
  <2>3. QED
    BY <1>1, <2>2 DEF EditProfile, Owned, drainVars
<1>2. ASSUME NEW u \in Users, EnqueueEdit(u) PROVE TypeInv'
  <2>1. Global \in Scopes
    BY DEF Scopes
  <2>2. /\ queue' \in [Rows -> Row]
        /\ \A r \in Rows : queue'[r] # queue[r] => queue'[r].user \in Users
    BY <1>2, <2>1, EnqueueEffect DEF EnqueueEdit
  <2>3. TypeOK'
    BY <1>2, <2>2 DEF EnqueueEdit, TypeOK, drainVars
  <2>4. QED
    BY <1>2, <2>2, <2>3, RowStep DEF EnqueueEdit, drainVars
<1>3. ASSUME NEW u \in Users, NEW c \in Recruitments, EnqueueScoped(u, c)
      PROVE TypeInv'
  <2>1. c \in Scopes
    BY DEF Scopes
  <2>2. /\ queue' \in [Rows -> Row]
        /\ \A r \in Rows : queue'[r] # queue[r] => queue'[r].user \in Users
    BY <1>3, <2>1, EnqueueEffect DEF EnqueueScoped
  <2>3. TypeOK'
    BY <1>3, <2>2 DEF EnqueueScoped, TypeOK, drainVars, inputVars
  <2>4. QED
    BY <1>3, <2>2, <2>3, RowStep DEF EnqueueScoped, drainVars
<1>4. ASSUME NEW c \in Recruitments, InsertRecruitment(c) PROVE TypeInv'
  <2>1. /\ queue' \in [Rows -> Row]
        /\ \A r \in Rows : queue'[r] # queue[r] => queue'[r].user \in Users
    BY <1>4, InsertedRows, FreshRowsEffect
  <2>2. TypeOK'
    BY <1>4, <2>1 DEF InsertRecruitment, TypeOK, drainVars
  <2>3. QED
    BY <1>4, <2>1, <2>2, RowStep DEF InsertRecruitment, drainVars
<1>5. ASSUME NEW c \in Recruitments, WritePosts(c) PROVE TypeInv'
  <2>1. \A u \in Users : input[u] + 1 \in Version
    BY <1>5, VersionAssumption DEF WritePosts, TypeOK, Version
  <2>2. TypeOK'
    BY <1>5, <2>1 DEF WritePosts, TypeOK, drainVars
  <2>3. QED
    BY <1>5, <2>2 DEF WritePosts, Owned, drainVars
<1>6. ASSUME NEW c \in Recruitments, FanoutRead(c) PROVE TypeInv'
  <2>1. ASSUME NEW r \in Rows
        PROVE queue'[r] \in Row /\ queue'[r].user = queue[r].user
                                /\ queue'[r].status = queue[r].status
    <3>1. CASE queue[r].status = "pending"
      <4>1. queue[r].user \in Users
        BY <3>1 DEF Owned
      <4>2. queue'[r] = Asked(r)
        BY <1>6, <3>1 DEF FanoutRead
      <4>3. QED
        BY <4>1, <4>2, MetRowType
    <3>2. CASE queue[r].status # "pending"
      BY <1>6, <3>2 DEF FanoutRead, TypeOK
    <3>3. QED
      BY <3>1, <3>2
  <2>2. queue' \in [Rows -> Row]
    BY <1>6, <2>1 DEF FanoutRead
  <2>3. TypeOK'
    BY <1>6, <2>2 DEF FanoutRead, TypeOK, drainVars
  <2>4. QED
    BY <1>6, <2>1, <2>3 DEF FanoutRead, Owned, drainVars
<1>7. ASSUME NEW c \in Recruitments, FanoutInsert(c) PROVE TypeInv'
  <2>1. /\ queue' \in [Rows -> Row]
        /\ \A r \in Rows : queue'[r] # queue[r] => queue'[r].user \in Users
    BY <1>7, FannedOutRows, FreshRowsEffect
  <2>2. TypeOK'
    BY <1>7, <2>1 DEF FanoutInsert, TypeOK, drainVars
  <2>3. QED
    BY <1>7, <2>1, <2>2, RowStep DEF FanoutInsert, drainVars
<1>8. ASSUME NEW d \in Drains, Claim(d) PROVE TypeInv'
  <2>1. PICK batch \in SUBSET Claimable :
          /\ queue' = [r \in Rows |-> IF r \in batch THEN Claimed(r) ELSE queue[r]]
          /\ held' = [held EXCEPT ![d] = [r \in Rows |->
               IF r \in batch THEN queue[r].attempts + 1 ELSE 0]]
    BY <1>8 DEF Claim
  <2>2. ASSUME NEW r \in batch
        PROVE  /\ r \in Rows /\ Claimed(r) \in Row
               /\ Claimed(r).user = queue[r].user /\ queue[r].user \in Users
               /\ queue[r].attempts + 1 \in 1..MaxAttempts
    <3>1. r \in Rows /\ queue[r] \in Row /\ queue[r].status # "absent"
          /\ queue[r].attempts < MaxAttempts
      BY DEF Claimable, TypeOK
    <3>2. queue[r].attempts + 1 \in 1..MaxAttempts /\ queue[r].attempts + 1 \in 0..MaxAttempts
      BY <3>1, AttemptsAssumption DEF Row
    <3>3. "processing" \in Statuses
      BY DEF Statuses, Active
    <3>4. Claimed(r) \in Row /\ Claimed(r).user = queue[r].user
      BY <3>1, <3>2, <3>3 DEF Claimed, Row
    <3>5. QED
      BY <3>1, <3>2, <3>4 DEF Owned
  <2>3. queue' \in [Rows -> Row] /\ \A r \in Rows : queue'[r].user = queue[r].user
    BY <2>1, <2>2 DEF TypeOK
  <2>4. /\ held' \in [Drains -> [Rows -> 0..MaxAttempts]]
        /\ \A e \in Drains \ {d} : held'[e] = held[e]
    BY <2>1, <2>2, AttemptsAssumption DEF TypeOK
  <2>5. TypeOK'
    BY <1>8, <2>3, <2>4 DEF Claim, TypeOK, inputVars
  <2>6. \A r \in Rows : queue'[r].status # "absent" => queue'[r].user \in Users
    BY <2>1, <2>2, <2>3 DEF Owned
  <2>7. \A e \in Drains, r \in Rows : held'[e][r] > 0 => queue'[r].user \in Users
    BY <2>1, <2>2, <2>3, <2>4 DEF Owned, TypeOK
  <2>8. \A e \in Drains : run[e].stage # "idle" => e # d
    BY <1>8 DEF Claim, Owned, NoneHeld
  <2>9. \A e \in Drains : run'[e].stage # "idle" =>
          run'[e].row \in Rows /\ held'[e][run'[e].row] > 0
    BY <1>8, <2>4, <2>8 DEF Claim, Owned
  <2>10. QED
    BY <2>5, <2>6, <2>7, <2>9 DEF Owned
<1>9. ASSUME NEW d \in Drains, NEW r \in Rows, ReadInput(d, r) PROVE TypeInv'
  <2>1. queue[r].user \in Users
    BY <1>9 DEF ReadInput, Owned
  <2>2. [row |-> r, user |-> queue[r].user, seen |-> input[queue[r].user],
         stage |-> "read"] \in Run
    BY <2>1 DEF TypeOK, Run
  <2>3. TypeOK'
    BY <1>9, <2>2 DEF ReadInput, TypeOK, inputVars
  <2>4. Owned'
    BY <1>9 DEF ReadInput, Owned, TypeOK
  <2>5. QED
    BY <2>3, <2>4
<1>10. ASSUME NEW d \in Drains, Persist(d) PROVE TypeInv'
  <2>1. [run[d] EXCEPT !.stage = "persisted"] \in Run /\ run[d].seen \in Version
    BY DEF TypeOK, Run
  <2>2. run' \in [Drains -> Run]
    BY <1>10, <2>1 DEF Persist, TypeOK
  <2>3. result' \in [Users -> Version]
    BY <1>10, <2>1 DEF Persist, TypeOK
  <2>4. TypeOK'
    BY <1>10, <2>2, <2>3 DEF Persist, TypeOK, inputVars
  <2>5. \A e \in Drains : run'[e].stage # "idle" =>
          run[e].stage # "idle" /\ run'[e].row = run[e].row
    BY <1>10, <2>1 DEF Persist, TypeOK, Run
  <2>6. QED
    BY <1>10, <2>4, <2>5 DEF Persist, Owned
<1>11. ASSUME NEW d \in Drains, Complete(d) PROVE TypeInv'
  <2> DEFINE r == run[d].row
             row == [queue[r] EXCEPT !.status = "completed"]
  <2>1. r \in Rows /\ queue[r] \in Row /\ run[d].stage # "idle"
    BY <1>11, RunRow DEF Complete
  <2>2. row \in Row /\ row.user = queue[r].user
    BY <2>1, CompletedRow DEF Row
  <2>3. queue' = Update(Cleaned(r), r, row)
    BY <1>11 DEF Complete
  <2>4. QED
    BY <1>11, <2>1, <2>2, <2>3, EndedRows, EndType DEF Complete
<1>12. ASSUME NEW d \in Drains, FailRun(d) PROVE TypeInv'
  <2> DEFINE r == run[d].row
  <2>1. r \in Rows /\ run[d].stage # "idle" /\ held[d][r] \in 0..MaxAttempts
    BY <1>12, RunRow DEF FailRun, TypeOK
  <2>2. PICK q \in {queue, Cleaned(r)} :
          queue' = Finalised(q, r, held[d][r]) \/ queue' = q
    BY <1>12 DEF FailRun
  <2>3. PICK row \in Row : /\ Finalised(q, r, held[d][r]) = Update(q, r, row)
                           /\ row.user = queue[r].user
    BY <2>1, FinalisedRow
  <2>4. QED
    BY <1>12, <2>1, <2>2, <2>3, EndedRows, EndType DEF FailRun
<1>13. ASSUME NEW r \in Rows, BackoffElapsed(r) PROVE TypeInv'
  <2>0. queue[r] \in Row
    BY DEF TypeOK
  <2>1. [queue[r] EXCEPT !.waiting = FALSE] \in Row
    BY <2>0 DEF Row
  <2>2. queue' \in [Rows -> Row]
    BY <1>13, <2>1 DEF BackoffElapsed, TypeOK
  <2>3. \A q \in Rows : /\ queue'[q].user = queue[q].user
                        /\ queue'[q].status = queue[q].status
    BY <1>13, <2>0 DEF BackoffElapsed, TypeOK, Row
  <2>4. TypeOK'
    BY <1>13, <2>2 DEF BackoffElapsed, TypeOK, drainVars, inputVars
  <2>5. QED
    BY <1>13, <2>3, <2>4 DEF BackoffElapsed, Owned, drainVars
<1>14. ASSUME NEW a \in Admins, NEW r \in Rows, RetryRead(a, r) PROVE TypeInv'
  <2>1. TypeOK'
    BY <1>14 DEF RetryRead, TypeOK, drainVars, inputVars
  <2>2. QED
    BY <1>14, <2>1 DEF RetryRead, Owned, drainVars
<1>15. ASSUME NEW a \in Admins, RetryWrite(a) PROVE TypeInv'
  <2> DEFINE r == retry[a]
             row == [queue[r] EXCEPT !.status = "pending", !.attempts = 0,
                                     !.waiting = FALSE]
  <2>1. r \in Rows /\ queue[r] \in Row
    BY <1>15 DEF RetryWrite, TypeOK
  <2>2. row \in Row /\ row.user = queue[r].user
    <3>1. 0 \in 0..MaxAttempts /\ "pending" \in Statuses
      BY AttemptsAssumption DEF Statuses, Active
    <3>2. QED
      BY <2>1, <3>1 DEF Row
  <2>3. /\ queue' \in [Rows -> Row]
        /\ \A q \in Rows : \/ queue'[q] = queue[q]
                           \/ queue[q].status # "absent" /\ queue'[q].user = queue[q].user
    <3>1. queue' = Update(queue, r, row)
      BY <1>15 DEF RetryWrite
    <3>2. queue \in [Rows -> Row]
      BY DEF TypeOK
    <3>3. /\ Update(queue, r, row) \in [Rows -> Row]
          /\ \A x \in Rows \ {r} : Update(queue, r, row)[x] = queue[x]
          /\ \/ Update(queue, r, row)[r] = queue[r]
             \/ queue[r].status # "absent" /\ Update(queue, r, row)[r] = row
      BY <2>1, <2>2, <3>2 DEF Update
    <3>4. QED
      BY <2>1, <2>2, <3>1, <3>3
  <2>4. TypeOK'
    BY <1>15, <2>3, <2>1 DEF RetryWrite, TypeOK, drainVars, inputVars
  <2>5. QED
    BY <1>15, <2>3, <2>4, RowStep DEF RetryWrite, Owned, drainVars
<1>16. CASE Crash
  <2>1. Idle \in Run /\ 0 \in 0..MaxAttempts
    BY VersionAssumption, AttemptsAssumption DEF Idle, Run, Version
  <2>2. promo' \in [Recruitments ->
          [stage : {"none", "inserted", "written", "fanout", "done"},
           skip : SUBSET Users]]
    BY <1>16 DEF Crash, TypeOK
  <2>3. TypeOK'
    BY <1>16, <2>1, <2>2 DEF Crash, TypeOK, NoneHeld
  <2>4. Owned'
    BY <1>16 DEF Crash, Owned, NoneHeld, Idle
  <2>5. QED
    BY <2>3, <2>4
<1>17. CASE UNCHANGED vars
  BY <1>17 DEF vars, TypeOK, Owned
<1>18. QED
  BY <1>1, <1>2, <1>3, <1>4, <1>5, <1>6, <1>7, <1>8, <1>9, <1>10, <1>11, <1>12,
     <1>13, <1>14, <1>15, <1>16, <1>17 DEF Next, Producer, Drain

\* Every variable keeps its type: in particular no row ever has more than
\* MaxAttempts attempts, whatever claims, failures and retries are mixed.
THEOREM TypeCorrect == Spec => []TypeOK
<1>1. Init => TypeInv
  BY TypeInvInit
<1>2. TypeInv /\ [Next]_vars => TypeInv'
  BY TypeInvNext
<1>3. TypeInv => TypeOK
  BY DEF TypeInv
<1>4. QED
  BY <1>1, <1>2, <1>3, PTL DEF Spec
-----------------------------------------------------------------------------
(* Exclusive claims. Two administrators whose retries of one row overlap   *)
(* can give it to two drains: the second reset lands after the row was     *)
(* claimed. That no such overlap happens is the only hypothesis; with one  *)
(* administrator it always holds.                                          *)

\* No two administrators have read one row as failed and not yet reset it.
RetriesApart ==
  \A a, b \in Admins : retry[a] # NoRow /\ retry[a] = retry[b] => a = b

\* A failed row has used its attempts, and so has a row that waits for a
\* reset, even after a request has requeued it: nothing claims it meanwhile.
SpentRows ==
  /\ \A r \in Rows : queue[r].status = "failed" => queue[r].attempts = MaxAttempts
  /\ \A a \in Admins : retry[a] # NoRow =>
       /\ queue[retry[a]].status \in {"failed", "pending"}
       /\ queue[retry[a]].attempts = MaxAttempts

\* No administrator is about to reset the row.
Unread(r) == \A a \in Admins : retry[a] # r

\* What a step may make of a row so that this is kept.
LEMMA SpentKept ==
  ASSUME TypeInv, SpentRows, UNCHANGED retry,
         \A r \in Rows :
           \/ queue'[r].status = queue[r].status /\ queue'[r].attempts = queue[r].attempts
           \/ /\ queue[r].status = "failed" /\ queue'[r].status = "pending"
              /\ queue'[r].attempts = queue[r].attempts
           \/ /\ Unread(r)
              /\ queue'[r].status = "failed" => queue'[r].attempts = MaxAttempts
  PROVE  SpentRows'
<1>1. \A a \in Admins : retry[a] # NoRow => retry[a] \in Rows
  BY DEF TypeInv, TypeOK
<1>2. QED
  BY <1>1 DEF SpentRows, Unread

\* New rows are not remembered ones.
LEMMA FreshSpent ==
  ASSUME TypeInv, SpentRows, UNCHANGED retry,
         \A r \in Rows :
           \/ queue'[r] = queue[r]
           \/ /\ r \in Fresh
              /\ \E u \in Users, s \in Scopes, st \in Opening :
                   queue'[r] = NewRow(u, s, st)
  PROVE  SpentRows'
<1>1. \A u \in Users, s \in Scopes, st \in Opening : NewRow(u, s, st).status = st
  BY DEF NewRow
<1>2. QED
  BY <1>1, SpentKept DEF Fresh, Unread, Opening

\* The end of a run: the row leaves the drain's hands, completed, failed after
\* its last attempt, to be tried again, or as it is.
LEMMA EndSpent ==
  ASSUME TypeInv, SpentRows, UNCHANGED retry, NEW r \in Rows,
         queue[r].status = "processing", NEW q \in {queue, Cleaned(r)}, NEW row,
         row.status = "failed" => row.attempts = MaxAttempts,
         queue' = Update(q, r, row) \/ queue' = q
  PROVE  SpentRows'
<1>1. /\ q \in [Rows -> Row] /\ q[r] = queue[r]
      /\ \A x \in Rows : \/ q[x] = queue[x]
                         \/ q[x].status = "absent" /\ queue[x].status = "completed"
  BY CleanedType DEF TypeInv, TypeOK
<1>2. /\ \A x \in Rows \ {r} : queue'[x] = q[x]
      /\ queue'[r] = queue[r] \/ queue'[r] = row
  BY <1>1 DEF Update
<1>3. \A x \in Rows : queue[x].status \in {"processing", "completed"} => Unread(x)
  BY NullAssumption DEF SpentRows, Unread, TypeInv, TypeOK
<1>4. QED
  BY <1>1, <1>2, <1>3, SpentKept

\* Every step keeps the attempts of failed and of remembered rows used up.
LEMMA SpentNext ==
  ASSUME TypeInv, ExclusiveClaim, SpentRows, RetriesApart, [Next]_vars
  PROVE  SpentRows'
<1>1. ASSUME UNCHANGED <<queue, retry>> PROVE SpentRows'
  BY <1>1, SpentKept
<1>2. ASSUME NEW u \in Users, NEW s \in Scopes, Enqueue(u, s), UNCHANGED retry
      PROVE  SpentRows'
  <2>1. PICK r \in Rows :
          /\ \A q \in Rows \ {r} : queue'[q] = queue[q]
          /\ \/ queue'[r].status = queue[r].status /\ queue'[r].attempts = queue[r].attempts
             \/ /\ queue[r].status = "failed" /\ queue'[r].status = "pending"
                /\ queue'[r].attempts = queue[r].attempts
             \/ r \in Fresh /\ queue'[r].status = "pending"
    BY <1>2, EnqueueEffect
  <2>2. QED
    BY <1>2, <2>1, SpentKept DEF Fresh, Unread
<1>3. ASSUME NEW u \in Users, EditProfile(u) \/ EnqueueEdit(u) PROVE SpentRows'
  BY <1>1, <1>2, <1>3 DEF EditProfile, EnqueueEdit, Scopes
<1>4. ASSUME NEW u \in Users, NEW c \in Recruitments, EnqueueScoped(u, c)
      PROVE  SpentRows'
  BY <1>2, <1>4 DEF EnqueueScoped, Scopes
<1>5. ASSUME NEW c \in Recruitments, InsertRecruitment(c) PROVE SpentRows'
  BY <1>5, InsertedRows, FreshSpent DEF InsertRecruitment
<1>6. ASSUME NEW c \in Recruitments, FanoutRead(c) PROVE SpentRows'
  <2>1. \A r \in Rows : queue'[r] = IF queue[r].status = "pending" THEN Asked(r) ELSE queue[r]
    BY <1>6 DEF FanoutRead
  <2>2. \A r \in Rows : queue[r].status = "pending" =>
          Asked(r).status = "pending" /\ Asked(r).attempts = queue[r].attempts
    BY MetRowType DEF TypeInv, Owned
  <2>3. QED
    BY <1>6, <2>1, <2>2, SpentKept DEF FanoutRead
<1>7. ASSUME NEW c \in Recruitments, FanoutInsert(c) PROVE SpentRows'
  BY <1>7, FannedOutRows, FreshSpent DEF FanoutInsert
<1>8. ASSUME NEW d \in Drains, Claim(d) PROVE SpentRows'
  <2>1. PICK batch \in SUBSET Claimable :
          queue' = [r \in Rows |-> IF r \in batch THEN Claimed(r) ELSE queue[r]]
    BY <1>8 DEF Claim
  <2>2. ASSUME NEW r \in batch
        PROVE  Unread(r) /\ Claimed(r).status = "processing"
    <3>1. r \in Rows /\ queue[r] \in Row /\ queue[r].attempts < MaxAttempts
      BY DEF Claimable, TypeInv, TypeOK
    <3>2. queue[r].attempts # MaxAttempts
      BY <3>1, AttemptsAssumption DEF Row
    <3>3. QED
      BY <3>1, <3>2, NullAssumption DEF SpentRows, Unread, Claimed, Row
  <2>3. QED
    BY <1>8, <2>1, <2>2, SpentKept DEF Claim
<1>9. ASSUME NEW d \in Drains, run[d].stage # "idle"
      PROVE  /\ run[d].row \in Rows /\ queue[run[d].row] \in Row
             /\ queue[run[d].row].status = "processing"
             /\ held[d][run[d].row] \in 0..MaxAttempts
  BY <1>9, RunRow DEF TypeInv, TypeOK, Owned, ExclusiveClaim
<1>10. ASSUME NEW d \in Drains, Complete(d) PROVE SpentRows'
  <2> DEFINE r == run[d].row
             row == [queue[r] EXCEPT !.status = "completed"]
  <2>1. r \in Rows /\ queue[r] \in Row /\ queue[r].status = "processing"
    BY <1>9, <1>10 DEF Complete
  <2>2. row.status = "completed"
    BY <2>1 DEF Row
  <2>3. queue' = Update(Cleaned(r), r, row) /\ UNCHANGED retry
    BY <1>10 DEF Complete
  <2>4. QED
    BY <2>1, <2>2, <2>3, EndSpent
<1>11. ASSUME NEW d \in Drains, FailRun(d) PROVE SpentRows'
  <2> DEFINE r == run[d].row
             n == held[d][r]
  <2>1. /\ r \in Rows /\ queue[r] \in Row /\ queue[r].status = "processing"
        /\ n \in 0..MaxAttempts
    BY <1>9, <1>11 DEF FailRun
  <2>2. PICK q \in {queue, Cleaned(r)} : queue' = Finalised(q, r, n) \/ queue' = q
    BY <1>11 DEF FailRun
  <2> DEFINE row == [q[r] EXCEPT !.status = IF n >= MaxAttempts THEN "failed" ELSE "pending",
                                 !.waiting = TRUE, !.attempts = n]
  <2>3. q[r] = queue[r]
    BY <2>1, CleanedType
  <2>4. row.status = "failed" => row.attempts = MaxAttempts
    BY <2>1, <2>3, AttemptsAssumption DEF Row
  <2>5. queue' = Update(q, r, row) \/ queue' = q
    BY <2>2 DEF Finalised
  <2>6. QED
    BY <1>11, <2>1, <2>4, <2>5, EndSpent DEF FailRun
<1>12. ASSUME NEW r \in Rows, BackoffElapsed(r) PROVE SpentRows'
  <2>1. \A q \in Rows : /\ queue'[q].status = queue[q].status
                        /\ queue'[q].attempts = queue[q].attempts
    BY <1>12 DEF BackoffElapsed, Row, TypeInv, TypeOK
  <2>2. QED
    BY <1>12, <2>1, SpentKept DEF BackoffElapsed
<1>13. ASSUME NEW a \in Admins, NEW r \in Rows, RetryRead(a, r) PROVE SpentRows'
  BY <1>13 DEF RetryRead, SpentRows, TypeInv, TypeOK
<1>14. ASSUME NEW a \in Admins, RetryWrite(a) PROVE SpentRows'
  <2> DEFINE r == retry[a]
  <2>1. r \in Rows /\ r # NoRow /\ queue[r] \in Row
    BY <1>14 DEF RetryWrite, TypeInv, TypeOK
  <2>2. /\ \A x \in Rows \ {r} : queue'[x] = queue[x]
        /\ queue'[r].status # "failed"
    <3>1. queue[r].status = "failed" \/ queue[r].status = "pending"
      BY <2>1 DEF SpentRows
    <3>2. queue' = [queue EXCEPT ![r] =
            [queue[r] EXCEPT !.status = "pending", !.attempts = 0, !.waiting = FALSE]]
      BY <1>14, <3>1 DEF RetryWrite, Update
    <3>3. QED
      BY <2>1, <3>2 DEF TypeInv, TypeOK, Row
  <2>3. \A b \in Admins : retry'[b] # NoRow => b # a /\ retry'[b] = retry[b] /\ retry[b] # r
    BY <1>14, <2>1 DEF RetryWrite, RetriesApart, TypeInv, TypeOK
  <2>4. \A b \in Admins : retry'[b] # NoRow => retry'[b] \in Rows
    BY <2>3 DEF TypeInv, TypeOK
  <2>5. QED
    BY <2>2, <2>3, <2>4 DEF SpentRows
<1>15. CASE Crash
  BY <1>15 DEF Crash, SpentRows
<1>16. QED
  BY <1>1, <1>3, <1>4, <1>5, <1>6, <1>7, <1>8, <1>10, <1>11, <1>12, <1>13, <1>14, <1>15
  DEF Next, Producer, Drain, WritePosts, ReadInput, Persist, vars


\* A step of somebody who claims and ends nothing keeps the rows in drains'
\* hands as they are.
LEMMA HeldRowsKept ==
  ASSUME ExclusiveClaim, UNCHANGED held,
         \A r \in Rows : (\E d \in Drains : held[d][r] > 0) =>
           queue'[r].status = queue[r].status /\ queue'[r].attempts = queue[r].attempts
  PROVE  ExclusiveClaim'
BY DEF ExclusiveClaim

\* A request leaves held rows' status and attempts.
LEMMA EnqueueKeepsHeld ==
  ASSUME TypeInv, ExclusiveClaim, NEW u \in Users, NEW s \in Scopes, Enqueue(u, s),
         UNCHANGED held
  PROVE  ExclusiveClaim'
<1>1. PICK r \in Rows :
        /\ \A q \in Rows \ {r} : queue'[q] = queue[q]
        /\ \/ queue'[r].status = queue[r].status /\ queue'[r].attempts = queue[r].attempts
           \/ queue[r].status = "failed"
           \/ r \in Fresh
  BY EnqueueEffect
<1>2. r \in Fresh => \A d \in Drains : held[d][r] = 0
  BY DEF Fresh
<1>3. ASSUME NEW q \in Rows, NEW d \in Drains, held[d][q] > 0
      PROVE queue'[q].status = queue[q].status /\ queue'[q].attempts = queue[q].attempts
  BY <1>1, <1>2, <1>3 DEF ExclusiveClaim
<1>4. QED
  BY <1>3, HeldRowsKept

\* Fresh rows are not held ones.
LEMMA FreshRowsKeepHeld ==
  ASSUME ExclusiveClaim, UNCHANGED held,
         \A r \in Rows : queue'[r] # queue[r] => r \in Fresh
  PROVE  ExclusiveClaim'
BY HeldRowsKept DEF Fresh

\* A run that ends gives up its row, and no row in other hands changes.
LEMMA EndKeepsOthers ==
  ASSUME TypeInv, ExclusiveClaim, NEW d \in Drains, run[d].stage # "idle",
         Release(d, run[d].row),
         \A x \in Rows \ {run[d].row} :
           queue[x].status = "processing" => queue'[x] = queue[x]
  PROVE  ExclusiveClaim'
<1> DEFINE r == run[d].row
<1>1. r \in Rows /\ held[d][r] > 0
  BY DEF TypeInv, Owned
<1>2. /\ held' = [held EXCEPT ![d][r] = 0]
      /\ held \in [Drains -> [Rows -> 0..MaxAttempts]]
  BY DEF Release, TypeInv, TypeOK
<1>3. \A e \in Drains, x \in Rows :
        held'[e][x] = IF e = d /\ x = r THEN 0 ELSE held[e][x]
  BY <1>1, <1>2
<1>4. ASSUME NEW e \in Drains, NEW x \in Rows, held'[e][x] > 0
      PROVE  /\ queue'[x].status = "processing"
             /\ queue'[x].attempts = held'[e][x]
             /\ \A f \in Drains \ {e} : held'[f][x] = 0
  <2>1. held'[e][x] = held[e][x] /\ held[e][x] > 0 /\ ~(e = d /\ x = r)
    BY <1>3, <1>4
  <2>2. /\ queue[x].status = "processing" /\ queue[x].attempts = held[e][x]
        /\ \A f \in Drains \ {e} : held[f][x] = 0
    BY <2>1 DEF ExclusiveClaim
  <2>3. x # r
    BY <1>1, <2>1, <2>2
  <2>4. queue'[x] = queue[x]
    BY <2>2, <2>3
  <2>5. QED
    BY <1>3, <2>1, <2>2, <2>4
<1>5. QED
  BY <1>4 DEF ExclusiveClaim

\* The claim takes rows nobody holds.
LEMMA ClaimIsExclusive ==
  ASSUME TypeInv, ExclusiveClaim, NEW d \in Drains, Claim(d)
  PROVE  ExclusiveClaim'
<1>1. PICK batch \in SUBSET Claimable :
        /\ queue' = [r \in Rows |-> IF r \in batch THEN Claimed(r) ELSE queue[r]]
        /\ held' = [held EXCEPT ![d] = [r \in Rows |->
             IF r \in batch THEN queue[r].attempts + 1 ELSE 0]]
  BY DEF Claim
<1>2. ASSUME NEW r \in batch
      PROVE  /\ r \in Rows /\ \A e \in Drains : held[e][r] = 0
             /\ Claimed(r).status = "processing"
             /\ Claimed(r).attempts = queue[r].attempts + 1
  <2>1. r \in Rows /\ queue[r] \in Row /\ queue[r].status # "processing"
    BY DEF Claimable, TypeInv, TypeOK
  <2>2. \A e \in Drains : held[e][r] \in 0..MaxAttempts /\ ~(held[e][r] > 0)
    BY <2>1 DEF ExclusiveClaim, TypeInv, TypeOK
  <2>3. \A e \in Drains : held[e][r] = 0
    BY <2>2, AttemptsAssumption
  <2>4. QED
    BY <2>1, <2>3 DEF Claimed, Row
<1>3. /\ \A r \in Rows : held'[d][r] = IF r \in batch THEN queue[r].attempts + 1 ELSE 0
      /\ \A e \in Drains \ {d} : held'[e] = held[e]
      /\ \A r \in Rows : held[d][r] = 0
  BY <1>1 DEF TypeInv, TypeOK, Claim, NoneHeld
<1>4. ASSUME NEW e \in Drains, NEW r \in Rows, held'[e][r] > 0
      PROVE  /\ queue'[r].status = "processing"
             /\ queue'[r].attempts = held'[e][r]
             /\ \A f \in Drains \ {e} : held'[f][r] = 0
  <2>1. CASE r \in batch
    BY <1>1, <1>2, <1>3, <1>4, <2>1
  <2>2. CASE r \notin batch
    BY <1>1, <1>3, <1>4, <2>2 DEF ExclusiveClaim
  <2>3. QED
    BY <2>1, <2>2
<1>5. QED
  BY <1>4 DEF ExclusiveClaim

\* A reset changes one row, a failed one or one requeued since.
LEMMA ResetRow ==
  ASSUME TypeInv, SpentRows, NEW a \in Admins, RetryWrite(a)
  PROVE  /\ retry[a] \in Rows /\ retry'[a] = NoRow
         /\ queue[retry[a]].status \in {"failed", "pending"}
         /\ \A r \in Rows \ {retry[a]} : queue'[r] = queue[r]
         /\ queue'[retry[a]].status = "pending" /\ queue'[retry[a]].attempts = 0
         /\ \A r \in Rows : /\ queue'[r].user = queue[r].user
                            /\ queue'[r].scope = queue[r].scope
                            /\ queue'[r].asked = queue[r].asked
                            /\ queue[r].status = "processing" => queue'[r] = queue[r]
<1> DEFINE r == retry[a]
<1>1. r \in Rows /\ r # NoRow /\ retry'[a] = NoRow
  BY DEF RetryWrite, TypeInv, TypeOK
<1>2. queue[r].status = "failed" \/ queue[r].status = "pending"
  BY <1>1 DEF SpentRows
<1>3. queue' = [queue EXCEPT ![r] =
        [queue[r] EXCEPT !.status = "pending", !.attempts = 0, !.waiting = FALSE]]
  BY <1>2 DEF RetryWrite, Update
<1>4. queue \in [Rows -> Row] /\ queue[r] \in Row
  BY <1>1 DEF TypeInv, TypeOK
<1>5. /\ \A x \in Rows \ {r} : queue'[x] = queue[x]
      /\ queue'[r] =
           [queue[r] EXCEPT !.status = "pending", !.attempts = 0, !.waiting = FALSE]
  BY <1>1, <1>3, <1>4
<1>6. /\ queue'[r].status = "pending" /\ queue'[r].attempts = 0
      /\ queue'[r].user = queue[r].user /\ queue'[r].scope = queue[r].scope
      /\ queue'[r].asked = queue[r].asked
  BY <1>4, <1>5 DEF Row
<1>7. QED
  BY <1>1, <1>2, <1>5, <1>6

\* Every step keeps the claims exclusive.
LEMMA ExclusiveNext ==
  ASSUME TypeInv, ExclusiveClaim, SpentRows, [Next]_vars
  PROVE  ExclusiveClaim'
<1>1. ASSUME NEW u \in Users, EditProfile(u) PROVE ExclusiveClaim'
  BY <1>1, HeldRowsKept DEF EditProfile, drainVars
<1>2. ASSUME NEW u \in Users, EnqueueEdit(u) PROVE ExclusiveClaim'
  BY <1>2, EnqueueKeepsHeld DEF EnqueueEdit, drainVars, Scopes
<1>3. ASSUME NEW u \in Users, NEW c \in Recruitments, EnqueueScoped(u, c)
      PROVE ExclusiveClaim'
  BY <1>3, EnqueueKeepsHeld DEF EnqueueScoped, drainVars, Scopes
<1>4. ASSUME NEW c \in Recruitments, InsertRecruitment(c) PROVE ExclusiveClaim'
  BY <1>4, InsertedRows, FreshRowsEffect, FreshRowsKeepHeld
  DEF InsertRecruitment, drainVars
<1>5. ASSUME NEW c \in Recruitments, WritePosts(c) PROVE ExclusiveClaim'
  BY <1>5, HeldRowsKept DEF WritePosts, drainVars
<1>6. ASSUME NEW c \in Recruitments, FanoutRead(c) PROVE ExclusiveClaim'
  <2>1. \A r \in Rows : queue[r].status # "pending" => queue'[r] = queue[r]
    BY <1>6 DEF FanoutRead
  <2>2. \A r \in Rows : (\E d \in Drains : held[d][r] > 0) => queue'[r] = queue[r]
    BY <2>1 DEF ExclusiveClaim
  <2>3. UNCHANGED held
    BY <1>6 DEF FanoutRead, drainVars
  <2>4. QED
    BY <2>2, <2>3, HeldRowsKept
<1>7. ASSUME NEW c \in Recruitments, FanoutInsert(c) PROVE ExclusiveClaim'
  BY <1>7, FannedOutRows, FreshRowsEffect, FreshRowsKeepHeld
  DEF FanoutInsert, drainVars
<1>8. ASSUME NEW d \in Drains, Claim(d) PROVE ExclusiveClaim'
  BY <1>8, ClaimIsExclusive
<1>9. ASSUME NEW d \in Drains, NEW r \in Rows, ReadInput(d, r) PROVE ExclusiveClaim'
  BY <1>9, HeldRowsKept DEF ReadInput
<1>10. ASSUME NEW d \in Drains, Persist(d) PROVE ExclusiveClaim'
  BY <1>10, HeldRowsKept DEF Persist
<1>11. ASSUME NEW d \in Drains, Complete(d) PROVE ExclusiveClaim'
  <2> DEFINE r == run[d].row
  <2>1. r \in Rows /\ run[d].stage # "idle"
    BY <1>11, RunRow DEF Complete
  <2>2. \A x \in Rows \ {r} : queue[x].status = "processing" =>
          Cleaned(r)[x] = queue[x] /\ queue'[x] = Cleaned(r)[x]
    BY <1>11, <2>1, CleanedType DEF Complete, Update
  <2>3. QED
    BY <1>11, <2>1, <2>2, EndKeepsOthers DEF Complete
<1>12. ASSUME NEW d \in Drains, FailRun(d) PROVE ExclusiveClaim'
  <2> DEFINE r == run[d].row
  <2>1. r \in Rows /\ run[d].stage # "idle"
    BY <1>12, RunRow DEF FailRun
  <2>2. PICK q \in {queue, Cleaned(r)} :
          queue' = Finalised(q, r, held[d][r]) \/ queue' = q
    BY <1>12 DEF FailRun
  <2>3. \A x \in Rows \ {r} : queue[x].status = "processing" => q[x] = queue[x]
    BY <2>1, <2>2, CleanedType
  <2>4. \A x \in Rows \ {r} : queue'[x] = q[x]
    <3>1. CASE queue' = q
      BY <3>1
    <3>2. CASE queue' = Finalised(q, r, held[d][r])
      <4>1. held[d][r] \in 0..MaxAttempts
        BY <2>1 DEF TypeInv, TypeOK
      <4>2. PICK row \in Row : queue' = Update(q, r, row)
        BY <2>1, <3>2, <4>1, FinalisedRow
      <4>3. q \in [Rows -> Row]
        BY <2>1, CleanedType DEF TypeInv, TypeOK
      <4>4. QED
        BY <4>2, <4>3 DEF Update
    <3>3. QED
      BY <2>2, <3>1, <3>2
  <2>5. QED
    BY <1>12, <2>1, <2>3, <2>4, EndKeepsOthers DEF FailRun
<1>13. ASSUME NEW r \in Rows, BackoffElapsed(r) PROVE ExclusiveClaim'
  <2>1. queue \in [Rows -> Row]
    BY DEF TypeInv, TypeOK
  <2>2. \A q \in Rows : /\ queue'[q].status = queue[q].status
                        /\ queue'[q].attempts = queue[q].attempts
    BY <1>13, <2>1 DEF BackoffElapsed, Row
  <2>3. QED
    BY <1>13, <2>2, HeldRowsKept DEF BackoffElapsed, drainVars
<1>14. CASE Crash
  BY <1>14 DEF Crash, ExclusiveClaim, NoneHeld
<1>15. CASE UNCHANGED vars
  BY <1>15 DEF vars, ExclusiveClaim
<1>16. ASSUME NEW a \in Admins, NEW r \in Rows, RetryRead(a, r) PROVE ExclusiveClaim'
  BY <1>16, HeldRowsKept DEF RetryRead, drainVars
<1>17. ASSUME NEW a \in Admins, RetryWrite(a) PROVE ExclusiveClaim'
  <2>1. \A r \in Rows : queue[r].status = "processing" => queue'[r] = queue[r]
    BY <1>17, ResetRow
  <2>2. \A r \in Rows : (\E d \in Drains : held[d][r] > 0) => queue'[r] = queue[r]
    BY <2>1 DEF ExclusiveClaim
  <2>3. UNCHANGED held
    BY <1>17 DEF RetryWrite, drainVars
  <2>4. QED
    BY <2>2, <2>3, HeldRowsKept
<1>18. QED
  BY <1>1, <1>2, <1>3, <1>4, <1>5, <1>6, <1>7, <1>8, <1>9, <1>10, <1>11, <1>12,
     <1>13, <1>14, <1>15, <1>16, <1>17 DEF Next, Producer, Drain

\* The claims stay exclusive and the remembered rows spent.
LEMMA ClaimInvariant ==
  /\ Init => TypeInv /\ ExclusiveClaim /\ SpentRows
  /\ TypeInv /\ ExclusiveClaim /\ SpentRows /\ RetriesApart /\ [Next]_vars
       => (TypeInv /\ ExclusiveClaim /\ SpentRows)'
<1>1. Init => TypeInv /\ ExclusiveClaim /\ SpentRows
  BY TypeInvInit DEF Init, ExclusiveClaim, NoneHeld, SpentRows, Absent
<1>2. ASSUME TypeInv, ExclusiveClaim, SpentRows, RetriesApart, [Next]_vars
      PROVE  (TypeInv /\ ExclusiveClaim /\ SpentRows)'
  BY <1>2, TypeInvNext, ExclusiveNext, SpentNext
<1>3. QED
  BY <1>1, <1>2

\* No two drains ever hold one row, and the row a drain holds is 'processing'
\* with the attempt_count that drain will write back: claims, failures,
\* back-offs, requests, crashes, deletions of old rows and administrators'
\* retries never break it, as long as no two retries of one row overlap.
THEOREM ClaimsAreExclusive == Spec /\ []RetriesApart => []ExclusiveClaim
<1>1. Init => TypeInv /\ ExclusiveClaim /\ SpentRows
  BY ClaimInvariant
<1>2. TypeInv /\ ExclusiveClaim /\ SpentRows /\ RetriesApart /\ [Next]_vars
        => (TypeInv /\ ExclusiveClaim /\ SpentRows)'
  BY ClaimInvariant
<1>3. QED
  BY <1>1, <1>2, PTL DEF Spec

\* A single administrator may retry failed rows at any time: between reading
\* the status and resetting the row nothing can claim it (retry_recompute_row).
THEOREM OneAdminIsSafe ==
  ASSUME \A a, b \in Admins : a = b
  PROVE  Spec => []ExclusiveClaim
<1>1. RetriesApart
  BY DEF RetriesApart
<1>2. QED
  BY <1>1, ClaimsAreExclusive, PTL
-----------------------------------------------------------------------------
(* The attempts of a row *)

\* An absent row has no attempts left for the next row of its id.
Gone == \A r \in Rows : queue[r].status = "absent" => queue[r].attempts = 0

\* What a step makes of a row: it goes, with its attempts, it keeps them, or
\* an administrator resets it.
RowsGrow ==
  \A r \in Rows :
    \/ /\ queue'[r].attempts >= queue[r].attempts
       /\ queue'[r].status = "absent" => queue'[r].attempts = 0
    \/ queue'[r].status = "absent" /\ queue'[r].attempts = 0
    \/ /\ \E a \in Admins : retry[a] = r /\ retry'[a] = NoRow
       /\ queue'[r].status # "absent"

\* Rows that keep their attempts and do not go.
LEMMA KeptGrow ==
  ASSUME TypeInv, Gone,
         \A r \in Rows : \/ queue'[r] = queue[r]
                         \/ /\ queue'[r].status # "absent"
                            /\ queue'[r].attempts = queue[r].attempts
                         \/ r \in Fresh /\ queue'[r].attempts = 0
  PROVE  RowsGrow
<1>1. \A r \in Rows : queue[r].attempts \in Nat
  BY AttemptsAssumption DEF TypeInv, TypeOK, Row
<1>2. QED
  BY <1>1 DEF RowsGrow, Gone, Fresh

\* Deduplication keeps the attempts of the row it finds.
LEMMA EnqueueGrows ==
  ASSUME TypeInv, Gone, NEW u \in Users, NEW s \in Scopes, Enqueue(u, s)
  PROVE  RowsGrow
<1>1. ASSUME NEW r \in Rows, NEW row, queue' = [queue EXCEPT ![r] = row],
             \/ row.status # "absent" /\ row.attempts = queue[r].attempts
             \/ r \in Fresh /\ row.attempts = 0
      PROVE  RowsGrow
  BY <1>1, KeptGrow DEF TypeInv, TypeOK
<1>2. ASSUME NEW r \in ActiveIn(u, s), queue' = [queue EXCEPT ![r] = Asked(r)]
      PROVE  RowsGrow
  <2>1. r \in Rows /\ queue[r].user \in Users /\ queue[r].status \in Active
    BY DEF ActiveIn, InScope
  <2>2. Asked(r).status # "absent" /\ Asked(r).attempts = queue[r].attempts
    BY <2>1, MetRowType DEF TypeInv, Active
  <2>3. QED
    BY <1>1, <1>2, <2>1, <2>2
<1>3. ASSUME NEW r \in FailedIn(u, s), queue' = [queue EXCEPT ![r] = Requeued(r)]
      PROVE  RowsGrow
  <2>1. r \in Rows /\ queue[r].user \in Users /\ queue[r] \in Row
    BY DEF FailedIn, InScope, TypeInv, TypeOK
  <2>2. Requeued(r).status = "pending" /\ Requeued(r).attempts = queue[r].attempts
    BY <2>1 DEF Requeued, Row
  <2>3. QED
    BY <1>1, <1>3, <2>1, <2>2
<1>4. ASSUME NEW r \in Fresh, queue' = [queue EXCEPT ![r] = NewRow(u, s, "pending")]
      PROVE  RowsGrow
  <2>1. r \in Rows /\ NewRow(u, s, "pending").attempts = 0
    BY DEF Fresh, NewRow
  <2>2. QED
    BY <1>1, <1>4, <2>1
<1>5. QED
  BY <1>2, <1>3, <1>4 DEF Enqueue

\* The trigger and the fan-out write fresh rows.
LEMMA FreshGrow ==
  ASSUME TypeInv, Gone,
         \A r \in Rows :
           \/ queue'[r] = queue[r]
           \/ /\ r \in Fresh
              /\ \E u \in Users, s \in Scopes, st \in Opening :
                   queue'[r] = NewRow(u, s, st)
  PROVE  RowsGrow
<1>1. \A u \in Users, s \in Scopes, st \in Opening : NewRow(u, s, st).attempts = 0
  BY DEF NewRow
<1>2. QED
  BY <1>1, KeptGrow

\* The row a run ends with keeps its attempts, the deleted ones are gone.
LEMMA EndGrows ==
  ASSUME TypeInv, Gone, ExclusiveClaim, NEW r \in Rows, queue[r].status # "absent",
         NEW q \in {queue, Cleaned(r)}, NEW row,
         row.status # "absent", row.attempts = queue[r].attempts,
         queue' = Update(q, r, row) \/ queue' = q
  PROVE  RowsGrow
<1>1. /\ q \in [Rows -> Row] /\ q[r] = queue[r]
      /\ \A x \in Rows : q[x] = queue[x] \/ q[x] = Absent
  <2>1. CASE q = queue
    BY <2>1 DEF TypeInv, TypeOK
  <2>2. CASE q = Cleaned(r)
    <3>1. \A x \in Rows : queue[x].status = "completed" => Deleted(x) = Absent
      BY DEF Deleted, ExclusiveClaim
    <3>2. QED
      BY <2>2, <3>1, CleanedType DEF Cleaned
  <2>3. QED
    BY <2>1, <2>2
<1>2. /\ \A x \in Rows \ {r} : queue'[x] = q[x]
      /\ queue'[r] = queue[r] \/ queue'[r] = row
  BY <1>1 DEF Update
<1>3. Absent.status = "absent" /\ Absent.attempts = 0
  BY DEF Absent
<1>4. \A x \in Rows : queue[x].attempts \in Nat
  BY AttemptsAssumption DEF TypeInv, TypeOK, Row
<1>5. QED
  BY <1>1, <1>2, <1>3, <1>4 DEF RowsGrow, Gone

\* Every step lets the attempts of a row grow or the row go, or resets it.
LEMMA GrowNext ==
  ASSUME TypeInv, Gone, ExclusiveClaim, SpentRows, [Next]_vars
  PROVE  RowsGrow
<1>1. ASSUME UNCHANGED queue PROVE RowsGrow
  BY <1>1, KeptGrow
<1>2. ASSUME NEW u \in Users, EditProfile(u) \/ EnqueueEdit(u) PROVE RowsGrow
  BY <1>1, <1>2, EnqueueGrows DEF EditProfile, EnqueueEdit, Scopes
<1>3. ASSUME NEW u \in Users, NEW c \in Recruitments, EnqueueScoped(u, c)
      PROVE  RowsGrow
  BY <1>3, EnqueueGrows DEF EnqueueScoped, Scopes
<1>4. ASSUME NEW c \in Recruitments, InsertRecruitment(c) PROVE RowsGrow
  BY <1>4, InsertedRows, FreshGrow
<1>5. ASSUME NEW c \in Recruitments, FanoutRead(c) PROVE RowsGrow
  <2>1. \A r \in Rows : queue'[r] = IF queue[r].status = "pending" THEN Asked(r) ELSE queue[r]
    BY <1>5 DEF FanoutRead
  <2>2. \A r \in Rows : queue[r].status = "pending" =>
          Asked(r).status = "pending" /\ Asked(r).attempts = queue[r].attempts
    BY MetRowType DEF TypeInv, Owned
  <2>3. QED
    BY <2>1, <2>2, KeptGrow
<1>6. ASSUME NEW c \in Recruitments, FanoutInsert(c) PROVE RowsGrow
  BY <1>6, FannedOutRows, FreshGrow
<1>7. ASSUME NEW d \in Drains, Claim(d) PROVE RowsGrow
  <2>1. PICK batch \in SUBSET Claimable :
          queue' = [r \in Rows |-> IF r \in batch THEN Claimed(r) ELSE queue[r]]
    BY <1>7 DEF Claim
  <2>2. \A r \in Rows : queue[r].attempts \in Nat /\ queue[r] \in Row
    BY AttemptsAssumption DEF TypeInv, TypeOK, Row
  <2>3. \A r \in Rows : /\ Claimed(r).status = "processing"
                        /\ Claimed(r).attempts = queue[r].attempts + 1
    BY <2>2 DEF Claimed, Row
  <2>4. QED
    BY <2>1, <2>2, <2>3 DEF RowsGrow, Gone
<1>8. ASSUME NEW d \in Drains, run[d].stage # "idle"
      PROVE  /\ run[d].row \in Rows /\ queue[run[d].row] \in Row
             /\ queue[run[d].row].status = "processing"
             /\ held[d][run[d].row] = queue[run[d].row].attempts
             /\ held[d][run[d].row] \in 0..MaxAttempts
  BY <1>8, RunRow DEF TypeInv, TypeOK, Owned, ExclusiveClaim
<1>9. ASSUME NEW d \in Drains, Complete(d) PROVE RowsGrow
  <2> DEFINE r == run[d].row
             row == [queue[r] EXCEPT !.status = "completed"]
  <2>1. r \in Rows /\ queue[r] \in Row /\ queue[r].status # "absent"
    BY <1>8, <1>9 DEF Complete
  <2>2. row.status = "completed" /\ row.attempts = queue[r].attempts
    BY <2>1 DEF Row
  <2>3. queue' = Update(Cleaned(r), r, row)
    BY <1>9 DEF Complete
  <2>4. QED
    BY <2>1, <2>2, <2>3, EndGrows
<1>10. ASSUME NEW d \in Drains, FailRun(d) PROVE RowsGrow
  <2> DEFINE r == run[d].row
             n == held[d][r]
  <2>1. /\ r \in Rows /\ queue[r] \in Row /\ queue[r].status # "absent"
        /\ n = queue[r].attempts
    BY <1>8, <1>10 DEF FailRun
  <2>2. PICK q \in {queue, Cleaned(r)} : queue' = Finalised(q, r, n) \/ queue' = q
    BY <1>10 DEF FailRun
  <2> DEFINE row == [q[r] EXCEPT !.status = IF n >= MaxAttempts THEN "failed" ELSE "pending",
                                 !.waiting = TRUE, !.attempts = n]
  <2>3. q[r] = queue[r]
    BY <2>1, CleanedType
  <2>4. row.status \in {"failed", "pending"} /\ row.attempts = queue[r].attempts
    BY <2>1, <2>3 DEF Row
  <2>5. queue' = Update(q, r, row) \/ queue' = q
    BY <2>2 DEF Finalised
  <2>6. QED
    BY <2>1, <2>4, <2>5, EndGrows
<1>11. ASSUME NEW r \in Rows, BackoffElapsed(r) PROVE RowsGrow
  <2>1. queue[r] \in Row
    BY DEF TypeInv, TypeOK
  <2>2. \A q \in Rows : /\ queue'[q].status = queue[q].status
                        /\ queue'[q].attempts = queue[q].attempts
    BY <1>11, <2>1 DEF BackoffElapsed, Row, TypeInv, TypeOK
  <2>3. \A q \in Rows : queue[q].attempts \in Nat
    BY AttemptsAssumption DEF TypeInv, TypeOK, Row
  <2>4. QED
    BY <2>2, <2>3 DEF RowsGrow, Gone
<1>12. ASSUME NEW a \in Admins, RetryWrite(a) PROVE RowsGrow
  <2>1. /\ retry'[a] = NoRow /\ queue'[retry[a]].status = "pending"
        /\ \A r \in Rows \ {retry[a]} : queue'[r] = queue[r]
    BY <1>12, ResetRow
  <2>2. \A r \in Rows : queue[r].attempts \in Nat
    BY AttemptsAssumption DEF TypeInv, TypeOK, Row
  <2>3. QED
    BY <2>1, <2>2 DEF RowsGrow, Gone
<1>13. QED
  BY <1>1, <1>2, <1>3, <1>4, <1>5, <1>6, <1>7, <1>9, <1>10, <1>11, <1>12
  DEF Next, Producer, Drain, WritePosts, ReadInput, Persist, RetryRead, Crash, vars

\* While a row exists only an administrator's reset lowers its attempts:
\* requests, requeues, crashes and the counts the drains write back never do,
\* for any number of users, drains and attempts, as long as no two retries of
\* one row overlap (enqueue_eligibility_recompute, _finalise_failure).
THEOREM RetryHistoryIsKept == Spec /\ []RetriesApart => RetryHistoryKept
<1> DEFINE Inv == TypeInv /\ ExclusiveClaim /\ SpentRows /\ Gone
<1>1. Init => Inv
  BY ClaimInvariant DEF Init, Gone, Absent
<1>2. Inv /\ RetriesApart /\ [Next]_vars => Inv' /\ [RowsGrow]_vars
  <2>1. RowsGrow => Gone'
    BY DEF RowsGrow, Gone
  <2>2. QED
    BY <2>1, ClaimInvariant, GrowNext
<1>3. RowsGrow =>
        \A r \in Rows :
          \/ queue'[r].status = "absent"
          \/ queue'[r].attempts >= queue[r].attempts
          \/ \E a \in Admins : retry[a] = r /\ retry'[a] = NoRow
  BY DEF RowsGrow
<1>4. QED
  BY <1>1, <1>2, <1>3, PTL DEF Spec, RetryHistoryKept

-----------------------------------------------------------------------------
(* What a run has read covers what its row was asked for *)

\* Nobody asks for a version that is not there yet.
AskedPast == \A r \in Rows :
  queue[r].status # "absent" => queue[r].asked <= input[queue[r].user]

\* A step keeps what a row was asked for, asks an unclaimed row for the newest
\* version, or deletes a row no drain has.
AskStep == \A r \in Rows :
  \/ /\ queue'[r].user = queue[r].user /\ queue'[r].asked = queue[r].asked
     /\ queue'[r].status # "absent" => queue[r].status # "absent"
  \/ /\ queue[r].status # "processing"
     /\ queue'[r].user \in Users /\ queue'[r].asked = input[queue'[r].user]
  \/ /\ queue[r].status # "processing" /\ queue'[r].status = "absent"

InputGrows == \A u \in Users : input[u] <= input'[u]

\* A drain goes on with the row and the version it has read, or reads both.
RunStep == \A d \in Drains : run'[d].stage # "idle" =>
  \/ /\ run[d].stage # "idle"
     /\ run'[d].row = run[d].row /\ run'[d].seen = run[d].seen
     /\ run'[d].user = run[d].user
  \/ /\ UNCHANGED queue /\ run'[d].row \in Rows /\ held[d][run'[d].row] > 0
     /\ run'[d].seen = input[queue[run'[d].row].user]
     /\ run'[d].user = queue[run'[d].row].user /\ run'[d].stage = "read"

\* Such steps keep the invariant.
LEMMA CoverStep ==
  ASSUME TypeInv, TypeInv', ExclusiveClaim, AskedPast, RunCoversRequest,
         AskStep, InputGrows, RunStep
  PROVE  AskedPast' /\ RunCoversRequest'
<1>1. /\ \A u \in Users : input[u] \in Nat /\ input'[u] \in Nat
      /\ \A r \in Rows : queue[r].asked \in Nat /\ queue'[r].asked \in Nat
      /\ \A d \in Drains : run[d].seen \in Nat /\ run'[d].seen \in Nat
  BY VersionAssumption DEF TypeInv, TypeOK, Row, Run, Version
<1>2. ASSUME NEW r \in Rows, queue'[r].status # "absent"
      PROVE  queue'[r].asked <= input'[queue'[r].user]
  <2>1. queue'[r].user \in Users
    BY <1>2 DEF TypeInv, Owned
  <2>2. queue'[r].asked <= input[queue'[r].user]
    <3>1. CASE /\ queue'[r].user = queue[r].user /\ queue'[r].asked = queue[r].asked
               /\ queue[r].status # "absent"
      BY <3>1 DEF AskedPast
    <3>2. CASE queue'[r].asked = input[queue'[r].user]
      BY <1>1, <2>1, <3>2
    <3>3. QED
      BY <1>2, <3>1, <3>2 DEF AskStep
  <2>3. QED
    BY <1>1, <2>1, <2>2 DEF InputGrows
<1>3. ASSUME NEW d \in Drains, run'[d].stage # "idle"
      PROVE  run'[d].seen >= queue'[run'[d].row].asked
  <2>1. CASE /\ run[d].stage # "idle"
             /\ run'[d].row = run[d].row /\ run'[d].seen = run[d].seen
    <3> DEFINE r == run[d].row
    <3>1. r \in Rows /\ queue[r].status = "processing" /\ run[d].seen >= queue[r].asked
      BY <2>1 DEF TypeInv, Owned, ExclusiveClaim, RunCoversRequest
    <3>2. queue'[r].asked = queue[r].asked
      BY <3>1 DEF AskStep
    <3>3. QED
      BY <2>1, <3>1, <3>2
  <2>2. CASE /\ UNCHANGED queue /\ run'[d].row \in Rows /\ held[d][run'[d].row] > 0
             /\ run'[d].seen = input[queue[run'[d].row].user]
    <3> DEFINE r == run'[d].row
    <3>1. queue[r].asked <= input[queue[r].user] /\ queue[r].user \in Users
      BY <2>2 DEF TypeInv, Owned, ExclusiveClaim, AskedPast
    <3>2. QED
      BY <1>1, <2>2, <3>1
  <2>3. QED
    BY <1>3, <2>1, <2>2 DEF RunStep
<1>4. QED
  BY <1>2, <1>3 DEF AskedPast, RunCoversRequest

\* A request asks for what there is now.
LEMMA EnqueueAsks ==
  ASSUME TypeInv, NEW u \in Users, NEW s \in Scopes, Enqueue(u, s)
  PROVE  AskStep
<1>1. ASSUME NEW r \in Rows, NEW row, queue' = [queue EXCEPT ![r] = row],
             \/ /\ row.user = queue[r].user /\ row.asked = queue[r].asked
                /\ queue[r].status # "absent"
             \/ /\ queue[r].status # "processing"
                /\ row.user \in Users /\ row.asked = input[row.user]
      PROVE  AskStep
  BY <1>1 DEF AskStep, TypeInv, TypeOK
<1>2. ASSUME NEW r \in ActiveIn(u, s), queue' = [queue EXCEPT ![r] = Asked(r)]
      PROVE  AskStep
  <2>1. /\ r \in Rows /\ queue[r] \in Row /\ queue[r].user \in Users
        /\ queue[r].status # "absent"
    BY DEF ActiveIn, InScope, TypeInv, TypeOK, Active
  <2>2. CASE queue[r].status = "processing"
    <3>1. Asked(r).user = queue[r].user /\ Asked(r).asked = queue[r].asked
      BY <2>1, <2>2 DEF Asked, Row
    <3>2. QED
      BY <1>1, <1>2, <2>1, <3>1
  <2>3. CASE queue[r].status # "processing"
    <3>1. Asked(r).user = queue[r].user /\ Asked(r).asked = input[queue[r].user]
      BY <2>1, <2>3 DEF Asked, Row
    <3>2. QED
      BY <1>1, <1>2, <2>1, <2>3, <3>1
  <2>4. QED
    BY <2>2, <2>3
<1>3. ASSUME NEW r \in FailedIn(u, s), queue' = [queue EXCEPT ![r] = Requeued(r)]
      PROVE  AskStep
  <2>1. /\ r \in Rows /\ queue[r] \in Row /\ queue[r].user \in Users
        /\ queue[r].status # "processing"
    BY DEF FailedIn, InScope, TypeInv, TypeOK
  <2>2. Requeued(r).user = queue[r].user /\ Requeued(r).asked = input[queue[r].user]
    BY <2>1 DEF Requeued, Row
  <2>3. QED
    BY <1>1, <1>3, <2>1, <2>2
<1>4. ASSUME NEW r \in Fresh, queue' = [queue EXCEPT ![r] = NewRow(u, s, "pending")]
      PROVE  AskStep
  <2>1. r \in Rows /\ queue[r].status # "processing"
    BY DEF Fresh
  <2>2. NewRow(u, s, "pending").user = u /\ NewRow(u, s, "pending").asked = input[u]
    BY DEF NewRow
  <2>3. QED
    BY <1>1, <1>4, <2>1, <2>2
<1>5. QED
  BY <1>2, <1>3, <1>4 DEF Enqueue

\* So do the trigger and the fan-out.
LEMMA FreshAsk ==
  ASSUME TypeInv,
         \A r \in Rows :
           \/ queue'[r] = queue[r]
           \/ /\ r \in Fresh
              /\ \E u \in Users, s \in Scopes, st \in Opening :
                   queue'[r] = NewRow(u, s, st)
  PROVE  AskStep
<1>1. \A u \in Users, s \in Scopes, st \in Opening :
        NewRow(u, s, st).user = u /\ NewRow(u, s, st).asked = input[u]
  BY DEF NewRow
<1>2. QED
  BY <1>1 DEF AskStep, Fresh

\* The end of a run asks for nothing.
LEMMA EndAsks ==
  ASSUME TypeInv, NEW r \in Rows, queue[r].status # "absent",
         NEW q \in {queue, Cleaned(r)}, NEW row,
         row.user = queue[r].user, row.asked = queue[r].asked,
         queue' = Update(q, r, row) \/ queue' = q
  PROVE  AskStep
<1>1. /\ q \in [Rows -> Row] /\ q[r] = queue[r]
      /\ \A x \in Rows : \/ q[x] = queue[x]
                         \/ q[x].status = "absent" /\ queue[x].status = "completed"
  BY CleanedType DEF TypeInv, TypeOK
<1>2. /\ \A x \in Rows \ {r} : queue'[x] = q[x]
      /\ queue'[r] = queue[r] \/ queue'[r] = row
  BY <1>1 DEF Update
<1>3. QED
  BY <1>1, <1>2 DEF AskStep

\* A run that is given up asks and reads nothing.
LEMMA ReleaseRuns ==
  ASSUME TypeInv, NEW d \in Drains, NEW r, Release(d, r)
  PROVE  RunStep
BY DEF Release, RunStep, Idle, TypeInv, TypeOK

\* Every step asks, grows the input and runs in this way.
LEMMA CoverNext ==
  ASSUME TypeInv, ExclusiveClaim, SpentRows, [Next]_vars
  PROVE  AskStep /\ InputGrows /\ RunStep
<1>1. /\ UNCHANGED queue => AskStep
      /\ UNCHANGED input => InputGrows
      /\ UNCHANGED run => RunStep
  <2>1. \A u \in Users : input[u] \in Nat
    BY VersionAssumption DEF TypeInv, TypeOK, Version
  <2>2. QED
    BY <2>1 DEF AskStep, InputGrows, RunStep
<1>2. ASSUME NEW u \in Users, EditProfile(u) PROVE AskStep /\ InputGrows /\ RunStep
  <2>1. InputGrows
    BY <1>2, VersionAssumption DEF EditProfile, InputGrows, TypeInv, TypeOK, Version
  <2>2. QED
    BY <1>1, <1>2, <2>1 DEF EditProfile, drainVars
<1>3. ASSUME NEW u \in Users, EnqueueEdit(u) PROVE AskStep /\ InputGrows /\ RunStep
  BY <1>1, <1>3, EnqueueAsks DEF EnqueueEdit, drainVars, Scopes
<1>4. ASSUME NEW u \in Users, NEW c \in Recruitments, EnqueueScoped(u, c)
      PROVE  AskStep /\ InputGrows /\ RunStep
  BY <1>1, <1>4, EnqueueAsks DEF EnqueueScoped, drainVars, inputVars, Scopes
<1>5. ASSUME NEW c \in Recruitments, InsertRecruitment(c)
      PROVE  AskStep /\ InputGrows /\ RunStep
  BY <1>1, <1>5, InsertedRows, FreshAsk DEF InsertRecruitment, drainVars
<1>6. ASSUME NEW c \in Recruitments, WritePosts(c)
      PROVE  AskStep /\ InputGrows /\ RunStep
  <2>1. InputGrows
    BY <1>6, VersionAssumption DEF WritePosts, InputGrows, TypeInv, TypeOK, Version
  <2>2. QED
    BY <1>1, <1>6, <2>1 DEF WritePosts, drainVars
<1>7. ASSUME NEW c \in Recruitments, FanoutRead(c)
      PROVE  AskStep /\ InputGrows /\ RunStep
  <2>1. \A r \in Rows : queue'[r] = IF queue[r].status = "pending" THEN Asked(r) ELSE queue[r]
    BY <1>7 DEF FanoutRead
  <2>2. \A r \in Rows : queue[r].status = "pending" =>
          /\ queue[r].user \in Users /\ Asked(r).user = queue[r].user
          /\ Asked(r).asked = input[queue[r].user]
    BY DEF Asked, TypeInv, TypeOK, Owned, Row
  <2>3. AskStep
    BY <2>1, <2>2 DEF AskStep
  <2>4. QED
    BY <1>1, <1>7, <2>3 DEF FanoutRead, drainVars
<1>8. ASSUME NEW c \in Recruitments, FanoutInsert(c)
      PROVE  AskStep /\ InputGrows /\ RunStep
  BY <1>1, <1>8, FannedOutRows, FreshAsk DEF FanoutInsert, drainVars
<1>9. ASSUME NEW d \in Drains, Claim(d) PROVE AskStep /\ InputGrows /\ RunStep
  <2>1. PICK batch \in SUBSET Claimable :
          queue' = [r \in Rows |-> IF r \in batch THEN Claimed(r) ELSE queue[r]]
    BY <1>9 DEF Claim
  <2>2. ASSUME NEW r \in batch
        PROVE  /\ r \in Rows /\ queue[r].status # "absent"
               /\ Claimed(r).user = queue[r].user /\ Claimed(r).asked = queue[r].asked
    <3>1. r \in Rows /\ queue[r] \in Row /\ queue[r].status # "absent"
      BY DEF Claimable, TypeInv, TypeOK
    <3>2. QED
      BY <3>1 DEF Claimed, Row
  <2>3. AskStep
    BY <2>1, <2>2 DEF AskStep
  <2>4. QED
    BY <1>1, <1>9, <2>3 DEF Claim, inputVars
<1>10. ASSUME NEW d \in Drains, NEW r \in Rows, ReadInput(d, r)
       PROVE  AskStep /\ InputGrows /\ RunStep
  <2>1. RunStep
    BY <1>10 DEF ReadInput, RunStep, TypeInv, TypeOK
  <2>2. QED
    BY <1>1, <1>10, <2>1 DEF ReadInput, inputVars
<1>11. ASSUME NEW d \in Drains, Persist(d) PROVE AskStep /\ InputGrows /\ RunStep
  <2>1. RunStep
    BY <1>11 DEF Persist, RunStep, TypeInv, TypeOK, Run
  <2>2. QED
    BY <1>1, <1>11, <2>1 DEF Persist, inputVars
<1>12. ASSUME NEW d \in Drains, run[d].stage # "idle"
       PROVE  /\ run[d].row \in Rows /\ queue[run[d].row] \in Row
              /\ queue[run[d].row].status # "absent"
  BY <1>12, RunRow DEF TypeInv, Owned, ExclusiveClaim
<1>13. ASSUME NEW d \in Drains, Complete(d) PROVE AskStep /\ InputGrows /\ RunStep
  <2> DEFINE r == run[d].row
             row == [queue[r] EXCEPT !.status = "completed"]
  <2>1. r \in Rows /\ queue[r] \in Row /\ queue[r].status # "absent"
    BY <1>12, <1>13 DEF Complete
  <2>2. row.user = queue[r].user /\ row.asked = queue[r].asked
    BY <2>1 DEF Row
  <2>3. AskStep
    BY <1>13, <2>1, <2>2, EndAsks DEF Complete
  <2>4. QED
    BY <1>1, <1>13, <2>3, ReleaseRuns DEF Complete, inputVars
<1>14. ASSUME NEW d \in Drains, FailRun(d) PROVE AskStep /\ InputGrows /\ RunStep
  <2> DEFINE r == run[d].row
             n == held[d][r]
  <2>1. r \in Rows /\ queue[r] \in Row /\ queue[r].status # "absent"
    BY <1>12, <1>14 DEF FailRun
  <2>2. PICK q \in {queue, Cleaned(r)} : queue' = Finalised(q, r, n) \/ queue' = q
    BY <1>14 DEF FailRun
  <2> DEFINE row == [q[r] EXCEPT !.status = IF n >= MaxAttempts THEN "failed" ELSE "pending",
                                 !.waiting = TRUE, !.attempts = n]
  <2>3. q[r] = queue[r]
    BY <2>1, CleanedType
  <2>4. row.user = queue[r].user /\ row.asked = queue[r].asked
    BY <2>1, <2>3 DEF Row
  <2>5. queue' = Update(q, r, row) \/ queue' = q
    BY <2>2 DEF Finalised
  <2>6. AskStep
    BY <2>1, <2>4, <2>5, EndAsks
  <2>7. QED
    BY <1>1, <1>14, <2>6, ReleaseRuns DEF FailRun, inputVars
<1>15. ASSUME NEW r \in Rows, BackoffElapsed(r) PROVE AskStep /\ InputGrows /\ RunStep
  <2>1. AskStep
    BY <1>15 DEF BackoffElapsed, AskStep, TypeInv, TypeOK, Row
  <2>2. QED
    BY <1>1, <1>15, <2>1 DEF BackoffElapsed, drainVars, inputVars
<1>16. CASE Crash
  <2>1. RunStep
    BY <1>16 DEF Crash, RunStep, Idle
  <2>2. QED
    BY <1>1, <1>16, <2>1 DEF Crash
<1>17. CASE UNCHANGED vars
  BY <1>1, <1>17 DEF vars
<1>18. ASSUME NEW a \in Admins, NEW r \in Rows, RetryRead(a, r)
       PROVE  AskStep /\ InputGrows /\ RunStep
  BY <1>1, <1>18 DEF RetryRead, drainVars, inputVars
<1>19. ASSUME NEW a \in Admins, RetryWrite(a) PROVE AskStep /\ InputGrows /\ RunStep
  <2>1. AskStep
    <3>1. \A r \in Rows : /\ queue'[r].user = queue[r].user
                          /\ queue'[r].asked = queue[r].asked
                          /\ queue'[r].status # "absent" => queue[r].status # "absent"
      BY <1>19, ResetRow
    <3>2. QED
      BY <3>1 DEF AskStep
  <2>2. QED
    BY <1>1, <1>19, <2>1 DEF RetryWrite, drainVars, inputVars
<1>20. QED
  BY <1>2, <1>3, <1>4, <1>5, <1>6, <1>7, <1>8, <1>9, <1>10, <1>11, <1>13, <1>14,
     <1>15, <1>16, <1>17, <1>18, <1>19 DEF Next, Producer, Drain

\* What a run has read is at least what its row was asked for, for any number
\* of users, recruitments and drains: neither the deduplication of requests nor
\* the fan-out that skips users with a pending row loses a change
\* (enqueue_eligibility_recompute, _enqueue_recompute_fanout, claim).
THEOREM RunsCoverRequests == Spec /\ []RetriesApart => []RunCoversRequest
<1> DEFINE Inv == /\ TypeInv /\ ExclusiveClaim /\ SpentRows
                  /\ AskedPast /\ RunCoversRequest
<1>1. Init => Inv
  BY ClaimInvariant DEF Init, AskedPast, Absent, RunCoversRequest, Idle
<1>2. Inv /\ RetriesApart /\ [Next]_vars => Inv'
  BY ClaimInvariant, CoverNext, CoverStep
<1>3. QED
  BY <1>1, <1>2, PTL DEF Spec

-----------------------------------------------------------------------------
(* One unfinished row per user and recruitment *)

Unfinished(r) == queue[r].status \in Active \cup {"failed"}

\* Nobody has a row for a recruitment that is not there yet.
Unpublished ==
  \A c \in Recruitments, r \in Rows :
    promo[c].stage = "none" /\ Unfinished(r) => queue[r].scope # c

\* A step makes no row unfinished that was not, and keeps what it is for.
NoneOpened ==
  \A r \in Rows : Unfinished(r)' =>
    /\ Unfinished(r)
    /\ queue'[r].user = queue[r].user /\ queue'[r].scope = queue[r].scope

\* No recruitment is taken back.
PromoGrows ==
  \A c \in Recruitments : promo'[c].stage = "none" => promo[c].stage = "none"

\* Steps that open no row keep the slots single.
LEMMA SlotsKept ==
  ASSUME OneUnfinishedRow, Unpublished, NoneOpened, PromoGrows
  PROVE  OneUnfinishedRow' /\ Unpublished'
BY DEF OneUnfinishedRow, Unpublished, NoneOpened, PromoGrows, Unfinished

\* A request opens a row only where there is none.
LEMMA EnqueueSlots ==
  ASSUME TypeInv, OneUnfinishedRow, Unpublished, NEW u \in Users, NEW s \in Scopes,
         s \in Recruitments => promo[s].stage # "none", Enqueue(u, s), UNCHANGED promo
  PROVE  OneUnfinishedRow' /\ Unpublished'
<1>1. PromoGrows
  BY DEF PromoGrows
<1>2. ASSUME NEW r \in Rows, NEW row, queue' = [queue EXCEPT ![r] = row],
             Unfinished(r), row.user = queue[r].user, row.scope = queue[r].scope
      PROVE  NoneOpened
  BY <1>2 DEF NoneOpened, Unfinished, TypeInv, TypeOK
<1>3. ASSUME NEW r \in ActiveIn(u, s), queue' = [queue EXCEPT ![r] = Asked(r)]
      PROVE  NoneOpened
  <2>1. r \in Rows /\ queue[r] \in Row /\ Unfinished(r)
    BY DEF ActiveIn, InScope, TypeInv, TypeOK, Unfinished
  <2>2. Asked(r).user = queue[r].user /\ Asked(r).scope = queue[r].scope
    BY <2>1 DEF Asked, Row
  <2>3. QED
    BY <1>2, <1>3, <2>1, <2>2
<1>4. ASSUME NEW r \in FailedIn(u, s), queue' = [queue EXCEPT ![r] = Requeued(r)]
      PROVE  NoneOpened
  <2>1. r \in Rows /\ queue[r] \in Row /\ Unfinished(r)
    BY DEF FailedIn, InScope, TypeInv, TypeOK, Unfinished
  <2>2. Requeued(r).user = queue[r].user /\ Requeued(r).scope = queue[r].scope
    BY <2>1 DEF Requeued, Row
  <2>3. QED
    BY <1>2, <1>4, <2>1, <2>2
<1>5. ASSUME ActiveIn(u, s) \cup FailedIn(u, s) = {}, NEW r \in Fresh,
             queue' = [queue EXCEPT ![r] = NewRow(u, s, "pending")]
      PROVE  OneUnfinishedRow' /\ Unpublished'
  <2>1. /\ r \in Rows /\ queue'[r] = NewRow(u, s, "pending")
        /\ \A q \in Rows \ {r} : queue'[q] = queue[q]
    BY <1>5 DEF Fresh, TypeInv, TypeOK
  <2>2. NewRow(u, s, "pending").user = u /\ NewRow(u, s, "pending").scope = s
    BY DEF NewRow
  <2>3. \A q \in Rows : queue[q].user = u /\ queue[q].scope = s => ~Unfinished(q)
    BY <1>5 DEF ActiveIn, FailedIn, InScope, Unfinished
  <2>4. OneUnfinishedRow'
    <3> SUFFICES ASSUME NEW p \in Rows, NEW q \in Rows,
                        Unfinished(p)', Unfinished(q)', queue'[p].user = queue'[q].user,
                        queue'[p].scope = queue'[q].scope, queue'[p].scope # Global
                 PROVE  p = q
      BY DEF OneUnfinishedRow, Unfinished
    <3>1. CASE p = r \/ q = r
      BY <2>1, <2>2, <2>3, <3>1 DEF Unfinished
    <3>2. CASE p # r /\ q # r
      BY <2>1, <3>2 DEF OneUnfinishedRow, Unfinished
    <3>3. QED
      BY <3>1, <3>2
  <2>5. Unpublished'
    BY <2>1, <2>2 DEF Unpublished, Unfinished
  <2>6. QED
    BY <2>4, <2>5
<1>6. QED
  BY <1>1, <1>3, <1>4, <1>5, SlotsKept DEF Enqueue

\* The trigger opens one row per user of a recruitment nobody had rows of.
LEMMA InsertSlots ==
  ASSUME TypeInv, OneUnfinishedRow, Unpublished,
         NEW c \in Recruitments, InsertRecruitment(c)
  PROVE  OneUnfinishedRow' /\ Unpublished'
<1>1. PICK row \in [Users -> Fresh] :
        /\ \A u, v \in Users : u # v => row[u] # row[v]
        /\ queue' = [r \in Rows |->
             IF \E u \in Users : row[u] = r
             THEN NewRow(CHOOSE u \in Users : row[u] = r, c, "queued") ELSE queue[r]]
  BY DEF InsertRecruitment
<1>2. \A u \in Users : NewRow(u, c, "queued").user = u /\ NewRow(u, c, "queued").scope = c
  BY DEF NewRow
<1>3. ASSUME NEW r \in Rows, \E u \in Users : row[u] = r
      PROVE  /\ queue'[r].user \in Users /\ row[queue'[r].user] = r
             /\ queue'[r].scope = c
  <2> DEFINE u == CHOOSE u \in Users : row[u] = r
  <2>1. u \in Users /\ row[u] = r
    BY <1>3
  <2>2. queue'[r] = NewRow(u, c, "queued")
    BY <1>1, <1>3
  <2>3. QED
    BY <1>2, <2>1, <2>2
<1>4. ASSUME NEW r \in Rows, ~\E u \in Users : row[u] = r PROVE queue'[r] = queue[r]
  BY <1>1, <1>4
<1>5. \A r \in Rows : Unfinished(r) => queue[r].scope # c
  BY DEF InsertRecruitment, Unpublished
<1>6. OneUnfinishedRow'
  <2> SUFFICES ASSUME NEW p \in Rows, NEW q \in Rows,
                      Unfinished(p)', Unfinished(q)', queue'[p].user = queue'[q].user,
                      queue'[p].scope = queue'[q].scope, queue'[p].scope # Global
               PROVE  p = q
    BY DEF OneUnfinishedRow, Unfinished
  <2>1. CASE (\E u \in Users : row[u] = p) /\ (\E u \in Users : row[u] = q)
    BY <1>3, <2>1
  <2>2. CASE (\E u \in Users : row[u] = p) /\ ~(\E u \in Users : row[u] = q)
    BY <1>3, <1>4, <1>5, <2>2 DEF Unfinished
  <2>3. CASE ~(\E u \in Users : row[u] = p) /\ (\E u \in Users : row[u] = q)
    BY <1>3, <1>4, <1>5, <2>3 DEF Unfinished
  <2>4. CASE ~(\E u \in Users : row[u] = p) /\ ~(\E u \in Users : row[u] = q)
    BY <1>4, <2>4 DEF OneUnfinishedRow, Unfinished
  <2>5. QED
    BY <2>1, <2>2, <2>3, <2>4
<1>7. Unpublished'
  <2>1. /\ promo'[c].stage # "none"
        /\ \A d \in Recruitments \ {c} : promo'[d] = promo[d]
    BY DEF InsertRecruitment, TypeInv, TypeOK
  <2>2. SUFFICES ASSUME NEW d \in Recruitments \ {c}, NEW r \in Rows,
                        promo[d].stage = "none", Unfinished(r)'
                 PROVE  queue'[r].scope # d
    BY <2>1 DEF Unpublished, Unfinished
  <2>3. CASE \E u \in Users : row[u] = r
    BY <1>3, <2>3
  <2>4. CASE ~\E u \in Users : row[u] = r
    BY <1>4, <2>2, <2>4 DEF Unpublished, Unfinished
  <2>5. QED
    BY <2>3, <2>4
<1>8. QED
  BY <1>6, <1>7

\* The fan-out opens whole-user rows.
LEMMA FanoutSlots ==
  ASSUME TypeInv, OneUnfinishedRow, Unpublished, NEW c \in Recruitments, FanoutInsert(c)
  PROVE  OneUnfinishedRow' /\ Unpublished'
<1>1. \A r \in Rows : queue'[r] = queue[r] \/ queue'[r].scope = Global
  <2>1. CASE UNCHANGED queue
    BY <2>1
  <2>2. \A u : NewRow(u, Global, "pending").scope = Global
    BY DEF NewRow
  <2>3. QED
    BY <2>1, <2>2 DEF FanoutInsert
<1>2. PromoGrows
  BY DEF FanoutInsert, PromoGrows, TypeInv, TypeOK
<1>3. QED
  BY <1>1, <1>2, NullAssumption DEF OneUnfinishedRow, Unpublished, Unfinished, PromoGrows

\* A run ends with the row it holds, which was unfinished.
LEMMA EndOpensNone ==
  ASSUME TypeInv, NEW r \in Rows, Unfinished(r),
         NEW q \in {queue, Cleaned(r)}, NEW row,
         row.user = queue[r].user, row.scope = queue[r].scope,
         queue' = Update(q, r, row) \/ queue' = q
  PROVE  NoneOpened
<1>1. /\ q \in [Rows -> Row] /\ q[r] = queue[r]
      /\ \A x \in Rows : q[x] = queue[x] \/ q[x].status = "absent"
  BY CleanedType DEF TypeInv, TypeOK
<1>2. /\ \A x \in Rows \ {r} : queue'[x] = q[x]
      /\ queue'[r] = queue[r] \/ queue'[r] = row
  BY <1>1 DEF Update
<1>3. QED
  BY <1>1, <1>2 DEF NoneOpened, Unfinished, Active

\* Every step keeps the slots single.
LEMMA SlotsNext ==
  ASSUME TypeInv, ExclusiveClaim, SpentRows, OneUnfinishedRow, Unpublished, [Next]_vars
  PROVE  OneUnfinishedRow' /\ Unpublished'
<1>1. /\ UNCHANGED queue => NoneOpened
      /\ UNCHANGED promo => PromoGrows
  BY DEF NoneOpened, PromoGrows, Unfinished
<1>2. ASSUME NEW u \in Users, EditProfile(u) PROVE NoneOpened /\ PromoGrows
  BY <1>1, <1>2 DEF EditProfile
<1>3. ASSUME NEW u \in Users, EnqueueEdit(u)
      PROVE  OneUnfinishedRow' /\ Unpublished'
  BY <1>3, EnqueueSlots, NullAssumption DEF EnqueueEdit, Scopes
<1>4. ASSUME NEW u \in Users, NEW c \in Recruitments, EnqueueScoped(u, c)
      PROVE  OneUnfinishedRow' /\ Unpublished'
  BY <1>4, EnqueueSlots DEF EnqueueScoped, inputVars, Scopes
<1>5. ASSUME NEW c \in Recruitments, WritePosts(c) PROVE NoneOpened /\ PromoGrows
  BY <1>1, <1>5 DEF WritePosts, PromoGrows, TypeInv, TypeOK
<1>6. ASSUME NEW c \in Recruitments, FanoutRead(c) PROVE NoneOpened /\ PromoGrows
  <2>1. \A r \in Rows : queue'[r] = IF queue[r].status = "pending" THEN Asked(r) ELSE queue[r]
    BY <1>6 DEF FanoutRead
  <2>2. \A r \in Rows : Asked(r).user = queue[r].user /\ Asked(r).scope = queue[r].scope
    BY DEF Asked, TypeInv, TypeOK, Row
  <2>3. NoneOpened
    BY <2>1, <2>2 DEF NoneOpened, Unfinished, Active
  <2>4. PromoGrows
    BY <1>6 DEF FanoutRead, PromoGrows, TypeInv, TypeOK
  <2>5. QED
    BY <2>3, <2>4
<1>7. ASSUME NEW d \in Drains, Claim(d) PROVE NoneOpened /\ PromoGrows
  <2>1. PICK batch \in SUBSET Claimable :
          queue' = [r \in Rows |-> IF r \in batch THEN Claimed(r) ELSE queue[r]]
    BY <1>7 DEF Claim
  <2>2. ASSUME NEW r \in batch
        PROVE  /\ r \in Rows /\ Unfinished(r)
               /\ Claimed(r).user = queue[r].user /\ Claimed(r).scope = queue[r].scope
    <3>1. r \in Rows /\ queue[r] \in Row /\ Unfinished(r)
      BY DEF Claimable, TypeInv, TypeOK, Unfinished, Active
    <3>2. QED
      BY <3>1 DEF Claimed, Row
  <2>3. NoneOpened
    BY <2>1, <2>2 DEF NoneOpened, Unfinished
  <2>4. QED
    BY <1>1, <1>7, <2>3 DEF Claim, inputVars
<1>8. ASSUME NEW d \in Drains, run[d].stage # "idle"
      PROVE  /\ run[d].row \in Rows /\ queue[run[d].row] \in Row
             /\ Unfinished(run[d].row)
  BY <1>8, RunRow DEF TypeInv, Owned, ExclusiveClaim, Unfinished, Active
<1>9. ASSUME NEW d \in Drains, Complete(d) PROVE NoneOpened /\ PromoGrows
  <2> DEFINE r == run[d].row
             row == [queue[r] EXCEPT !.status = "completed"]
  <2>1. r \in Rows /\ queue[r] \in Row /\ Unfinished(r)
    BY <1>8, <1>9 DEF Complete
  <2>2. row.user = queue[r].user /\ row.scope = queue[r].scope
    BY <2>1 DEF Row
  <2>3. NoneOpened
    BY <1>9, <2>1, <2>2, EndOpensNone DEF Complete
  <2>4. QED
    BY <1>1, <1>9, <2>3 DEF Complete, inputVars
<1>10. ASSUME NEW d \in Drains, FailRun(d) PROVE NoneOpened /\ PromoGrows
  <2> DEFINE r == run[d].row
             n == held[d][r]
  <2>1. r \in Rows /\ queue[r] \in Row /\ Unfinished(r)
    BY <1>8, <1>10 DEF FailRun
  <2>2. PICK q \in {queue, Cleaned(r)} : queue' = Finalised(q, r, n) \/ queue' = q
    BY <1>10 DEF FailRun
  <2> DEFINE row == [q[r] EXCEPT !.status = IF n >= MaxAttempts THEN "failed" ELSE "pending",
                                 !.waiting = TRUE, !.attempts = n]
  <2>3. q[r] = queue[r]
    BY <2>1, CleanedType
  <2>4. row.user = queue[r].user /\ row.scope = queue[r].scope
    BY <2>1, <2>3 DEF Row
  <2>5. queue' = Update(q, r, row) \/ queue' = q
    BY <2>2 DEF Finalised
  <2>6. NoneOpened
    BY <2>1, <2>4, <2>5, EndOpensNone
  <2>7. QED
    BY <1>1, <1>10, <2>6 DEF FailRun, inputVars
<1>11. ASSUME NEW r \in Rows, BackoffElapsed(r) PROVE NoneOpened /\ PromoGrows
  <2>1. \A q \in Rows : /\ queue'[q].status = queue[q].status
                        /\ queue'[q].user = queue[q].user
                        /\ queue'[q].scope = queue[q].scope
    BY <1>11 DEF BackoffElapsed, TypeInv, TypeOK, Row
  <2>2. NoneOpened
    BY <2>1 DEF NoneOpened, Unfinished
  <2>3. QED
    BY <1>1, <1>11, <2>2 DEF BackoffElapsed, inputVars
<1>12. CASE Crash
  <2>1. PromoGrows
    BY <1>12 DEF Crash, PromoGrows
  <2>2. QED
    BY <1>1, <1>12, <2>1, SlotsKept DEF Crash
<1>13. ASSUME UNCHANGED <<queue, promo>> PROVE NoneOpened /\ PromoGrows
  BY <1>1, <1>13
<1>14. ASSUME NEW a \in Admins, RetryWrite(a) PROVE NoneOpened /\ PromoGrows
  <2>1. NoneOpened
    <3>1. /\ queue[retry[a]].status \in {"failed", "pending"}
          /\ \A r \in Rows \ {retry[a]} : queue'[r] = queue[r]
          /\ \A r \in Rows : /\ queue'[r].user = queue[r].user
                             /\ queue'[r].scope = queue[r].scope
      BY <1>14, ResetRow
    <3>2. QED
      BY <3>1 DEF NoneOpened, Unfinished, Active
  <2>2. QED
    BY <1>1, <1>14, <2>1 DEF RetryWrite, inputVars
<1>15. QED
  BY <1>2, <1>3, <1>4, <1>5, <1>6, <1>7, <1>9, <1>10, <1>11, <1>12, <1>13, <1>14,
     SlotsKept, InsertSlots, FanoutSlots
  DEF Next, Producer, Drain, ReadInput, Persist, RetryRead, inputVars, vars

\* A user never has two unfinished rows of one recruitment's scope, for any
\* number of users, recruitments and drains, whatever the trigger, the requests,
\* the failures, the crashes and the retries do between them (header of
\* migration 041).
THEOREM SlotsAreSingle == Spec /\ []RetriesApart => []OneUnfinishedRow
<1> DEFINE Inv == /\ TypeInv /\ ExclusiveClaim /\ SpentRows
                  /\ OneUnfinishedRow /\ Unpublished
<1>1. Init => Inv
  BY ClaimInvariant
  DEF Init, OneUnfinishedRow, Unpublished, Unfinished, Absent, Active
<1>2. Inv /\ RetriesApart /\ [Next]_vars => Inv'
  BY ClaimInvariant, SlotsNext
<1>3. QED
  BY <1>1, <1>2, PTL DEF Spec

-----------------------------------------------------------------------------
(* What a single drain makes of the results *)

\* The stored verdicts and what a run has read are never ahead of the input,
\* and a run that has yet to write is not behind what is stored.
ResultsPast ==
  /\ \A u \in Users : result[u] <= input[u]
  /\ \A d \in Drains : run[d].stage # "idle" =>
       /\ run[d].user \in Users /\ run[d].seen <= input[run[d].user]
       /\ run[d].stage = "read" => result[run[d].user] <= run[d].seen

ResultsGrow == \A u \in Users : result[u] <= result'[u]

\* Every step keeps this and takes no verdict back.
LEMMA ResultsNext ==
  ASSUME \A d, e \in Drains : d = e, TypeInv, ResultsPast, [Next]_vars
  PROVE  ResultsPast' /\ ResultsGrow
<1>1. /\ \A u \in Users : input[u] \in Nat /\ result[u] \in Nat
      /\ \A d \in Drains : run[d] \in Run /\ run[d].seen \in Nat
  BY VersionAssumption DEF TypeInv, TypeOK, Run, Version
<1>2. ASSUME UNCHANGED result, \A u \in Users : input[u] <= input'[u] /\ input'[u] \in Nat,
             \A d \in Drains : run'[d] = run[d] \/ run'[d].stage = "idle"
      PROVE  ResultsPast' /\ ResultsGrow
  BY <1>1, <1>2 DEF ResultsPast, ResultsGrow
<1>3. ASSUME UNCHANGED <<input, result>>,
             \A d \in Drains : run'[d] = run[d] \/ run'[d].stage = "idle"
      PROVE  ResultsPast' /\ ResultsGrow
  BY <1>1, <1>2, <1>3
<1>4. ASSUME NEW u \in Users, EditProfile(u) PROVE ResultsPast' /\ ResultsGrow
  <2>1. \A v \in Users : input[v] <= input'[v] /\ input'[v] \in Nat
    BY <1>1, <1>4 DEF EditProfile, TypeInv, TypeOK
  <2>2. QED
    BY <1>2, <1>4, <2>1 DEF EditProfile, drainVars
<1>5. ASSUME NEW c \in Recruitments, WritePosts(c) PROVE ResultsPast' /\ ResultsGrow
  <2>1. \A v \in Users : input[v] <= input'[v] /\ input'[v] \in Nat
    BY <1>1, <1>5 DEF WritePosts
  <2>2. QED
    BY <1>2, <1>5, <2>1 DEF WritePosts, drainVars
<1>6. ASSUME NEW d \in Drains, NEW r \in Rows, ReadInput(d, r)
      PROVE  ResultsPast' /\ ResultsGrow
  <2>1. queue[r].user \in Users
    BY <1>6 DEF ReadInput, TypeInv, Owned
  <2>2. /\ UNCHANGED <<input, result>>
        /\ \A e \in Drains : run'[e] = run[e] \/ e = d
        /\ run'[d].user = queue[r].user /\ run'[d].seen = input[queue[r].user]
        /\ run'[d].stage = "read"
    BY <1>6 DEF ReadInput, inputVars, TypeInv, TypeOK
  <2>3. QED
    BY <1>1, <2>1, <2>2 DEF ResultsPast, ResultsGrow
<1>7. ASSUME NEW d \in Drains, Persist(d) PROVE ResultsPast' /\ ResultsGrow
  <2>1. /\ UNCHANGED input /\ run[d].stage = "read"
        /\ run'[d].user = run[d].user /\ run'[d].seen = run[d].seen
        /\ run'[d].stage = "persisted" /\ \A e \in Drains : e = d
    BY <1>1, <1>7 DEF Persist, inputVars, TypeInv, TypeOK, Run
  <2>2. /\ run[d].user \in Users /\ result[run[d].user] <= run[d].seen
        /\ run[d].seen <= input[run[d].user]
    BY <2>1 DEF ResultsPast
  <2>3. \/ result' = [result EXCEPT ![run[d].user] = run[d].seen]
        \/ UNCHANGED result
    BY <1>7 DEF Persist
  <2>4. \A u \in Users : result'[u] = result[u] \/ (u = run[d].user /\ result'[u] = run[d].seen)
    BY <2>2, <2>3 DEF TypeInv, TypeOK
  <2>5. QED
    BY <1>1, <2>1, <2>2, <2>4 DEF ResultsPast, ResultsGrow
<1>8. ASSUME NEW d \in Drains, Complete(d) \/ FailRun(d) PROVE ResultsPast' /\ ResultsGrow
  BY <1>3, <1>8 DEF Complete, FailRun, Release, Idle, inputVars, TypeInv, TypeOK
<1>9. CASE Crash
  BY <1>3, <1>9 DEF Crash, Idle
<1>10. QED
  BY <1>3, <1>4, <1>5, <1>6, <1>7, <1>8, <1>9
  DEF Next, Producer, Drain, EnqueueEdit, EnqueueScoped, InsertRecruitment, FanoutRead,
      FanoutInsert, Claim, BackoffElapsed, RetryRead, RetryWrite, inputVars, drainVars, vars

\* While one drain runs at a time, no user's verdicts are replaced by older
\* ones: a run reads, then writes, and nobody else writes in between
\* (run_eligibility_for_user). Two drains can: the slower one writes last.
THEOREM ResultsNeverGoBack ==
  ASSUME \A d, e \in Drains : d = e
  PROVE  Spec => [][ResultsGrow]_vars
<1> DEFINE Inv == TypeInv /\ ResultsPast
<1>1. Init => Inv
  BY TypeInvInit DEF Init, ResultsPast, Idle
<1>2. Inv /\ [Next]_vars => Inv' /\ ResultsGrow
  BY TypeInvNext, ResultsNext
<1>3. QED
  BY <1>1, <1>2, PTL DEF Spec

-----------------------------------------------------------------------------
(* When no acknowledged change is lost. Three things lose one: an edit whose *)
(* request meets a row that a drain has already read for, a failed upsert    *)
(* of the verdicts, and a second drain. Without them none is lost, whatever  *)
(* fan-outs, failures, crashes and retries do.                               *)

\* No request of an edit finds its user's whole-user row in a drain's hands.
EditsMeetNoRun ==
  \A u \in Users : EnqueueEdit(u) =>
    \A r \in ActiveIn(u, Global) : queue[r].status # "processing"

\* A change is computed, or an unfinished row has been asked to cover it.
Covered ==
  \A u \in Users : \/ result[u] >= acked[u]
                   \/ \E r \in Rows : /\ Unfinished(r) /\ queue[r].user = u
                                      /\ queue[r].asked >= acked[u]

\* A run works for its row's user and has written what the row was asked for.
RunsServe ==
  \A d \in Drains : run[d].stage # "idle" =>
    /\ run[d].user = queue[run[d].row].user
    /\ run[d].stage = "persisted" => result[run[d].user] >= queue[run[d].row].asked

\* An unfinished row stays so and stands for no less, or its run has written.
RowsGoOn ==
  \A r \in Rows : Unfinished(r) =>
    /\ queue'[r].user = queue[r].user /\ queue'[r].asked >= queue[r].asked
    /\ \/ Unfinished(r)'
       \/ \E d \in Drains : run[d].stage = "persisted" /\ run[d].row = r

\* A request leaves a row of its user that is asked for the newest version,
\* unless all it found was in a drain's hands.
LEMMA EnqueueGoesOn ==
  ASSUME TypeInv, AskedPast, NEW u \in Users, NEW s \in Scopes, Enqueue(u, s)
  PROVE  /\ RowsGoOn
         /\ \E r \in Rows :
              /\ queue'[r].user = u /\ Unfinished(r)'
              /\ \/ queue'[r].asked = input[u]
                 \/ r \in ActiveIn(u, s) /\ queue[r].status = "processing"
<1>1. /\ \A v \in Users : input[v] \in Nat
      /\ \A r \in Rows : queue[r] \in Row /\ queue[r].asked \in Nat
      /\ \A r \in Rows : Unfinished(r) => /\ queue[r].user \in Users
                                          /\ queue[r].asked <= input[queue[r].user]
  BY VersionAssumption DEF TypeInv, TypeOK, Owned, AskedPast, Unfinished, Active, Row, Version
<1>2. ASSUME NEW r \in Rows, NEW row, queue' = [queue EXCEPT ![r] = row],
             row.user = u, row.status \in Active,
             Unfinished(r) => queue[r].user = u,
             \/ row.asked = input[u]
             \/ /\ r \in ActiveIn(u, s) /\ queue[r].status = "processing"
                /\ row.asked = queue[r].asked
      PROVE  /\ RowsGoOn
             /\ \E x \in Rows :
                  /\ queue'[x].user = u /\ Unfinished(x)'
                  /\ \/ queue'[x].asked = input[u]
                     \/ x \in ActiveIn(u, s) /\ queue[x].status = "processing"
  <2>1. queue'[r] = row /\ \A x \in Rows \ {r} : queue'[x] = queue[x]
    BY <1>2 DEF TypeInv, TypeOK
  <2>2. Unfinished(r)'
    BY <1>2, <2>1 DEF Unfinished
  <2>3. ASSUME NEW x \in Rows, Unfinished(x)
        PROVE  /\ queue'[x].user = queue[x].user /\ queue'[x].asked >= queue[x].asked
               /\ Unfinished(x)'
    <3>1. CASE x = r
      BY <1>1, <1>2, <2>1, <2>2, <2>3, <3>1
    <3>2. CASE x # r
      BY <1>1, <2>1, <2>3, <3>2 DEF Unfinished
    <3>3. QED
      BY <3>1, <3>2
  <2>4. RowsGoOn
    BY <2>3 DEF RowsGoOn
  <2>5. QED
    BY <1>2, <2>1, <2>2, <2>4
<1>3. CASE \E r \in ActiveIn(u, s) : queue' = [queue EXCEPT ![r] = Asked(r)]
  <2>1. PICK r \in ActiveIn(u, s) : queue' = [queue EXCEPT ![r] = Asked(r)]
    BY <1>3
  <2>2. r \in Rows /\ queue[r].user = u /\ queue[r].status \in Active
    BY DEF ActiveIn, InScope
  <2>3. /\ Asked(r).user = u /\ Asked(r).status \in Active
        /\ IF queue[r].status = "processing" THEN Asked(r).asked = queue[r].asked
                                             ELSE Asked(r).asked = input[u]
    BY <1>1, <2>2 DEF Asked, Row
  <2>4. QED
    BY <1>2, <2>1, <2>2, <2>3
<1>4. CASE \E r \in FailedIn(u, s) : queue' = [queue EXCEPT ![r] = Requeued(r)]
  <2>1. PICK r \in FailedIn(u, s) : queue' = [queue EXCEPT ![r] = Requeued(r)]
    BY <1>4
  <2>2. r \in Rows /\ queue[r].user = u
    BY DEF FailedIn, InScope
  <2>3. Requeued(r).user = u /\ Requeued(r).status \in Active /\ Requeued(r).asked = input[u]
    BY <1>1, <2>2 DEF Requeued, Row, Active
  <2>4. QED
    BY <1>2, <2>1, <2>2, <2>3
<1>5. CASE \E r \in Fresh : queue' = [queue EXCEPT ![r] = NewRow(u, s, "pending")]
  <2>1. PICK r \in Fresh : queue' = [queue EXCEPT ![r] = NewRow(u, s, "pending")]
    BY <1>5
  <2>2. r \in Rows /\ ~Unfinished(r)
    BY DEF Fresh, Unfinished, Active
  <2>3. /\ NewRow(u, s, "pending").user = u
        /\ NewRow(u, s, "pending").status \in Active
        /\ NewRow(u, s, "pending").asked = input[u]
    BY DEF NewRow, Active
  <2>4. QED
    BY <1>2, <2>1, <2>2, <2>3
<1>6. QED
  BY <1>3, <1>4, <1>5 DEF Enqueue

\* Rows that change nothing but their status, among the unfinished ones.
LEMMA KeptGoesOn ==
  ASSUME TypeInv,
         \A r \in Rows : Unfinished(r) =>
           /\ queue'[r].user = queue[r].user /\ queue'[r].asked = queue[r].asked
           /\ Unfinished(r)'
  PROVE  RowsGoOn
<1>1. \A r \in Rows : queue[r].asked \in Nat
  BY VersionAssumption DEF TypeInv, TypeOK, Row, Version
<1>2. QED
  BY <1>1 DEF RowsGoOn

\* Every step lets the unfinished rows go on.
LEMMA GoOnNext ==
  ASSUME TypeInv, ExclusiveClaim, SpentRows, AskedPast, [Next]_vars
  PROVE  RowsGoOn
<1>1. ASSUME UNCHANGED queue PROVE RowsGoOn
  BY <1>1, KeptGoesOn DEF Unfinished
<1>2. ASSUME NEW u \in Users, EditProfile(u) \/ EnqueueEdit(u) PROVE RowsGoOn
  BY <1>1, <1>2, EnqueueGoesOn DEF EditProfile, EnqueueEdit, Scopes
<1>3. ASSUME NEW u \in Users, NEW c \in Recruitments, EnqueueScoped(u, c) PROVE RowsGoOn
  BY <1>3, EnqueueGoesOn DEF EnqueueScoped, Scopes
<1>4. ASSUME \A r \in Rows : queue'[r] = queue[r] \/ r \in Fresh PROVE RowsGoOn
  BY <1>4, KeptGoesOn DEF Unfinished, Active, Fresh
<1>5. ASSUME NEW c \in Recruitments, InsertRecruitment(c) PROVE RowsGoOn
  BY <1>4, <1>5, InsertedRows
<1>6. ASSUME NEW c \in Recruitments, FanoutRead(c) PROVE RowsGoOn
  <2>1. \A r \in Rows : queue'[r] = IF queue[r].status = "pending" THEN Asked(r) ELSE queue[r]
    BY <1>6 DEF FanoutRead
  <2>2. ASSUME NEW r \in Rows
        PROVE  /\ queue[r].asked \in Nat /\ queue[r] \in Row
               /\ queue[r].user \in Users => input[queue[r].user] \in Nat
    BY VersionAssumption DEF TypeInv, TypeOK, Row, Version
  <2>3. ASSUME NEW r \in Rows, queue[r].status = "pending"
        PROVE  /\ Asked(r).user = queue[r].user /\ Asked(r).status = "pending"
               /\ Asked(r).asked >= queue[r].asked
    <3>1. queue[r].user \in Users /\ queue[r].asked <= input[queue[r].user]
      BY <2>3 DEF TypeInv, Owned, AskedPast
    <3>2. /\ Asked(r).user = queue[r].user /\ Asked(r).status = "pending"
          /\ Asked(r).asked = input[queue[r].user]
      BY <2>2, <2>3 DEF Asked, Row
    <3>3. QED
      BY <2>2, <3>1, <3>2
  <2>4. ASSUME NEW r \in Rows, Unfinished(r)
        PROVE  /\ queue'[r].user = queue[r].user /\ queue'[r].asked >= queue[r].asked
               /\ Unfinished(r)'
    <3>1. CASE queue[r].status = "pending"
      BY <2>1, <2>3, <3>1 DEF Unfinished, Active
    <3>2. CASE queue[r].status # "pending"
      BY <2>1, <2>2, <2>4, <3>2 DEF Unfinished
    <3>3. QED
      BY <3>1, <3>2
  <2>5. QED
    BY <2>4 DEF RowsGoOn
<1>7. ASSUME NEW c \in Recruitments, FanoutInsert(c) PROVE RowsGoOn
  BY <1>4, <1>7, FannedOutRows
<1>8. ASSUME NEW d \in Drains, Claim(d) PROVE RowsGoOn
  <2>1. PICK batch \in SUBSET Claimable :
          queue' = [r \in Rows |-> IF r \in batch THEN Claimed(r) ELSE queue[r]]
    BY <1>8 DEF Claim
  <2>2. ASSUME NEW r \in Rows
        PROVE  /\ Claimed(r).user = queue[r].user /\ Claimed(r).asked = queue[r].asked
               /\ Claimed(r).status \in Active
    <3>1. queue[r] \in Row
      BY DEF TypeInv, TypeOK
    <3>2. QED
      BY <3>1 DEF Claimed, Row, Active
  <2>3. QED
    BY <2>1, <2>2, KeptGoesOn DEF Unfinished
<1>9. ASSUME NEW d \in Drains, run[d].stage # "idle"
      PROVE  /\ run[d].row \in Rows /\ queue[run[d].row] \in Row
             /\ queue[run[d].row].status = "processing"
  BY <1>9, RunRow DEF TypeInv, Owned, ExclusiveClaim
<1>10. ASSUME NEW r \in Rows, NEW q \in {queue, Cleaned(r)}
       PROVE  /\ q \in [Rows -> Row] /\ q[r] = queue[r]
              /\ \A x \in Rows : Unfinished(x) => q[x] = queue[x]
  BY CleanedType DEF TypeInv, TypeOK, Unfinished, Active
<1>11. ASSUME NEW d \in Drains, Complete(d) PROVE RowsGoOn
  <2> DEFINE r == run[d].row
             row == [queue[r] EXCEPT !.status = "completed"]
  <2>1. r \in Rows /\ queue[r] \in Row /\ run[d].stage = "persisted"
    BY <1>9, <1>11 DEF Complete
  <2>2. row.user = queue[r].user /\ row.asked = queue[r].asked
    BY <2>1 DEF Row
  <2>3. queue' = Update(Cleaned(r), r, row)
    BY <1>11 DEF Complete
  <2>4. /\ \A x \in Rows \ {r} : Unfinished(x) => queue'[x] = queue[x]
        /\ queue'[r] \in {queue[r], row}
    BY <1>10, <2>1, <2>3 DEF Update
  <2>5. \A x \in Rows : queue[x].asked \in Nat
    BY VersionAssumption DEF TypeInv, TypeOK, Row, Version
  <2>6. ASSUME NEW x \in Rows, Unfinished(x)
        PROVE  /\ queue'[x].user = queue[x].user /\ queue'[x].asked >= queue[x].asked
               /\ \/ Unfinished(x)'
                  \/ \E e \in Drains : run[e].stage = "persisted" /\ run[e].row = x
    <3>1. CASE x = r
      <4>1. queue'[r].user = queue[r].user /\ queue'[r].asked = queue[r].asked
        BY <2>2, <2>4
      <4>2. run[d].stage = "persisted" /\ run[d].row = x
        BY <2>1, <3>1
      <4>3. queue'[x].asked >= queue[x].asked
        BY <2>5, <3>1, <4>1
      <4>4. QED
        BY <3>1, <4>1, <4>2, <4>3
    <3>2. CASE x # r
      BY <2>4, <2>5, <2>6, <3>2 DEF Unfinished
    <3>3. QED
      BY <3>1, <3>2
  <2>7. QED
    BY <2>6 DEF RowsGoOn
<1>12. ASSUME NEW d \in Drains, FailRun(d) PROVE RowsGoOn
  <2> DEFINE r == run[d].row
             n == held[d][r]
  <2>1. r \in Rows /\ queue[r] \in Row
    BY <1>9, <1>12 DEF FailRun
  <2>2. PICK q \in {queue, Cleaned(r)} : queue' = Finalised(q, r, n) \/ queue' = q
    BY <1>12 DEF FailRun
  <2> DEFINE row == [q[r] EXCEPT !.status = IF n >= MaxAttempts THEN "failed" ELSE "pending",
                                 !.waiting = TRUE, !.attempts = n]
  <2>3. q[r] = queue[r]
    BY <1>10, <2>1
  <2>4. /\ row.user = queue[r].user /\ row.asked = queue[r].asked
        /\ row.status \in {"failed", "pending"}
    BY <2>1, <2>3 DEF Row
  <2>5. queue' = Update(q, r, row) \/ queue' = q
    BY <2>2 DEF Finalised
  <2>6. /\ \A x \in Rows \ {r} : Unfinished(x) => queue'[x] = queue[x]
        /\ queue'[r] \in {queue[r], row}
    <3>1. /\ q \in [Rows -> Row]
          /\ \A x \in Rows : Unfinished(x) => q[x] = queue[x]
      BY <1>10, <2>1
    <3>2. /\ \A x \in Rows \ {r} : queue'[x] = q[x]
          /\ queue'[r] = q[r] \/ queue'[r] = row
      BY <2>1, <2>5, <3>1 DEF Update
    <3>3. QED
      BY <2>3, <3>1, <3>2
  <2>7. QED
    BY <2>1, <2>4, <2>6, KeptGoesOn DEF Unfinished, Active
<1>13. ASSUME NEW r \in Rows, BackoffElapsed(r) PROVE RowsGoOn
  <2>1. \A q \in Rows : /\ queue'[q].status = queue[q].status
                        /\ queue'[q].user = queue[q].user
                        /\ queue'[q].asked = queue[q].asked
    BY <1>13 DEF BackoffElapsed, TypeInv, TypeOK, Row
  <2>2. QED
    BY <2>1, KeptGoesOn DEF Unfinished
<1>14. ASSUME NEW a \in Admins, RetryWrite(a) PROVE RowsGoOn
  <2>1. /\ \A r \in Rows \ {retry[a]} : queue'[r] = queue[r]
        /\ queue'[retry[a]].status = "pending"
        /\ \A r \in Rows : queue'[r].user = queue[r].user /\ queue'[r].asked = queue[r].asked
    BY <1>14, ResetRow
  <2>2. QED
    BY <2>1, KeptGoesOn DEF Unfinished, Active
<1>15. QED
  BY <1>1, <1>2, <1>3, <1>5, <1>6, <1>7, <1>8, <1>11, <1>12, <1>13, <1>14
  DEF Next, Producer, Drain, WritePosts, ReadInput, Persist, RetryRead, Crash, vars

\* Without failing upserts a run that has written has written what it read.
LEMMA WrittenRead ==
  ASSUME "cache" \notin Faults, TypeInv, ResultsPast, [Next]_vars, NEW d \in Drains,
         run'[d].stage = "persisted"
  PROVE  \/ run[d].stage = "persisted"
         \/ run[d].stage = "read" /\ result'[run[d].user] = run[d].seen
<1>1. ASSUME run'[d] = run[d] PROVE run[d].stage = "persisted"
  BY <1>1
<1>2. ASSUME NEW e \in Drains, NEW r \in Rows, ReadInput(e, r)
      PROVE  run[d].stage = "persisted"
  BY <1>2 DEF ReadInput, TypeInv, TypeOK
<1>3. ASSUME NEW e \in Drains, Persist(e)
      PROVE  \/ run[d].stage = "persisted"
             \/ run[d].stage = "read" /\ result'[run[d].user] = run[d].seen
  <2>1. CASE e = d
    <3>1. run[d].stage = "read" /\ run[d].user \in Users
      BY <1>3, <2>1 DEF Persist, ResultsPast
    <3>2. result' = [result EXCEPT ![run[d].user] = run[d].seen]
      BY <1>3, <2>1 DEF Persist
    <3>3. QED
      BY <3>1, <3>2 DEF TypeInv, TypeOK
  <2>2. CASE e # d
    BY <1>1, <1>3, <2>2 DEF Persist, TypeInv, TypeOK
  <2>3. QED
    BY <2>1, <2>2
<1>4. ASSUME NEW e \in Drains, Complete(e) \/ FailRun(e)
      PROVE  run[d].stage = "persisted"
  BY <1>4 DEF Complete, FailRun, Release, Idle, TypeInv, TypeOK
<1>5. ~Crash
  BY DEF Crash, Idle
<1>6. QED
  BY <1>1, <1>2, <1>3, <1>4, <1>5
  DEF Next, Producer, Drain, EditProfile, WritePosts, EnqueueEdit, EnqueueScoped,
      InsertRecruitment, FanoutRead, FanoutInsert, Claim, BackoffElapsed, RetryRead,
      RetryWrite, inputVars, drainVars, vars

\* Runs go on to serve their rows.
LEMMA ServeNext ==
  ASSUME "cache" \notin Faults, TypeInv, TypeInv', ExclusiveClaim, RunCoversRequest,
         ResultsPast, RunsServe, [Next]_vars, AskStep, RunStep, ResultsGrow
  PROVE  RunsServe'
<1>1. /\ \A u \in Users : result[u] \in Nat /\ result'[u] \in Nat
      /\ \A r \in Rows : queue[r].asked \in Nat
      /\ \A d \in Drains : run[d].seen \in Nat
  BY VersionAssumption DEF TypeInv, TypeOK, Row, Run, Version
<1>2. ASSUME NEW d \in Drains, run'[d].stage # "idle"
      PROVE  /\ run'[d].user = queue'[run'[d].row].user
             /\ run'[d].stage = "persisted" => result'[run'[d].user] >= queue'[run'[d].row].asked
  <2>1. CASE /\ run[d].stage # "idle"
             /\ run'[d].row = run[d].row /\ run'[d].seen = run[d].seen
             /\ run'[d].user = run[d].user
    <3> DEFINE r == run[d].row
    <3>1. /\ r \in Rows /\ queue[r].status = "processing" /\ run[d].seen >= queue[r].asked
          /\ run[d].user = queue[r].user /\ run[d].user \in Users
      BY <2>1 DEF TypeInv, Owned, ExclusiveClaim, RunCoversRequest, RunsServe, ResultsPast
    <3>2. queue'[r].asked = queue[r].asked /\ queue'[r].user = queue[r].user
      BY <3>1 DEF AskStep
    <3>3. ASSUME run'[d].stage = "persisted"
          PROVE  result'[run[d].user] >= queue[r].asked
      <4>1. \/ run[d].stage = "persisted"
            \/ run[d].stage = "read" /\ result'[run[d].user] = run[d].seen
        BY <3>3, WrittenRead
      <4>2. CASE run[d].stage = "persisted"
        <5>1. /\ result[run[d].user] >= queue[r].asked
              /\ result[run[d].user] <= result'[run[d].user]
          BY <3>1, <4>2 DEF RunsServe, ResultsGrow
        <5>2. QED
          BY <1>1, <3>1, <5>1
      <4>3. CASE result'[run[d].user] = run[d].seen
        BY <3>1, <4>3
      <4>4. QED
        BY <4>1, <4>2, <4>3
    <3>4. QED
      BY <2>1, <3>1, <3>2, <3>3
  <2>2. CASE /\ UNCHANGED queue /\ run'[d].user = queue[run'[d].row].user
             /\ run'[d].stage = "read"
    BY <2>2
  <2>3. QED
    BY <1>2, <2>1, <2>2 DEF RunStep
<1>3. QED
  BY <1>2 DEF RunsServe

\* A drain that runs nothing has no row.
Parked == \A d \in Drains : run[d].stage = "idle" => run[d].row = NoRow

LEMMA ParkedNext ==
  ASSUME TypeInv, Parked, [Next]_vars
  PROVE  Parked'
<1>1. ASSUME \A d \in Drains : \/ run'[d] = run[d] \/ run'[d].stage # "idle"
                               \/ run'[d] = Idle
      PROVE  Parked'
  BY <1>1 DEF Parked, Idle
<1>2. ASSUME NEW d \in Drains, NEW r \in Rows, ReadInput(d, r) PROVE Parked'
  BY <1>1, <1>2 DEF ReadInput, TypeInv, TypeOK
<1>3. ASSUME NEW d \in Drains, Persist(d) PROVE Parked'
  BY <1>1, <1>3 DEF Persist, TypeInv, TypeOK, Run
<1>4. ASSUME NEW d \in Drains, Complete(d) \/ FailRun(d) PROVE Parked'
  BY <1>1, <1>4 DEF Complete, FailRun, Release, TypeInv, TypeOK
<1>5. CASE Crash
  BY <1>1, <1>5 DEF Crash
<1>6. QED
  BY <1>1, <1>2, <1>3, <1>4, <1>5
  DEF Next, Producer, Drain, EditProfile, WritePosts, EnqueueEdit, EnqueueScoped,
      InsertRecruitment, FanoutRead, FanoutInsert, Claim, BackoffElapsed, RetryRead,
      RetryWrite, inputVars, drainVars, vars

\* A change stays covered, and a new one is when its request returns.
LEMMA CoveredNext ==
  ASSUME TypeInv, TypeInv', AskedPast, RunsServe, Covered, [Next]_vars, EditsMeetNoRun,
         RowsGoOn, ResultsGrow
  PROVE  Covered'
<1>1. /\ \A u \in Users : result[u] \in Nat /\ result'[u] \in Nat /\ acked[u] \in Nat
      /\ \A r \in Rows : queue[r].asked \in Nat /\ queue'[r].asked \in Nat
      /\ \A u \in Users : input[u] \in Nat
  BY VersionAssumption DEF TypeInv, TypeOK, Row, Version
<1>2. ASSUME NEW u \in Users, acked'[u] = acked[u]
      PROVE  \/ result'[u] >= acked'[u]
             \/ \E r \in Rows : /\ Unfinished(r)' /\ queue'[r].user = u
                                /\ queue'[r].asked >= acked'[u]
  <2>1. result'[u] >= result[u]
    BY <1>1 DEF ResultsGrow
  <2>2. CASE result[u] >= acked[u]
    BY <1>1, <1>2, <2>1, <2>2
  <2>3. ASSUME NEW r \in Rows, Unfinished(r), queue[r].user = u, queue[r].asked >= acked[u]
        PROVE  \/ result'[u] >= acked'[u]
               \/ /\ Unfinished(r)' /\ queue'[r].user = u
                  /\ queue'[r].asked >= acked'[u]
    <3>1. /\ queue'[r].user = u /\ queue'[r].asked >= queue[r].asked
          /\ \/ Unfinished(r)'
             \/ \E d \in Drains : run[d].stage = "persisted" /\ run[d].row = r
      BY <2>3 DEF RowsGoOn
    <3>2. CASE Unfinished(r)'
      BY <1>1, <1>2, <2>3, <3>1, <3>2
    <3>3. ASSUME NEW d \in Drains, run[d].stage = "persisted", run[d].row = r
          PROVE  result'[u] >= acked'[u]
      <4>1. result[u] >= queue[r].asked
        BY <2>3, <3>3 DEF RunsServe
      <4>2. QED
        BY <1>1, <1>2, <2>1, <2>3, <4>1
    <3>4. QED
      BY <3>1, <3>2, <3>3
  <2>4. QED
    BY <2>2, <2>3 DEF Covered
<1>3. ASSUME UNCHANGED acked PROVE Covered'
  BY <1>2, <1>3 DEF Covered
<1>4. ASSUME NEW v \in Users, EnqueueEdit(v) PROVE Covered'
  <2>1. /\ acked'[v] = input[v]
        /\ \A u \in Users \ {v} : acked'[u] = acked[u]
    BY <1>4 DEF EnqueueEdit, TypeInv, TypeOK
  <2>2. PICK r \in Rows :
          /\ queue'[r].user = v /\ Unfinished(r)'
          /\ \/ queue'[r].asked = input[v]
             \/ r \in ActiveIn(v, Global) /\ queue[r].status = "processing"
    BY <1>4, EnqueueGoesOn DEF EnqueueEdit, Scopes
  <2>3. queue'[r].asked = input[v]
    BY <1>4, <2>2 DEF EditsMeetNoRun
  <2>4. queue'[r].asked >= acked'[v]
    BY <1>1, <2>1, <2>3
  <2>5. QED
    BY <1>2, <2>1, <2>2, <2>4 DEF Covered
<1>5. QED
  BY <1>3, <1>4
  DEF Next, Producer, Drain, EditProfile, WritePosts, EnqueueScoped, InsertRecruitment,
      FanoutRead, FanoutInsert, Claim, ReadInput, Persist, Complete, FailRun,
      BackoffElapsed, RetryRead, RetryWrite, Crash, vars

\* Such a row also leads to a result: a run of it has read the change.
ChangesAreRead ==
  \A u \in Users :
    \/ result[u] >= acked[u]
    \/ \E r \in Rows :
         /\ queue[r].user = u
         /\ queue[r].status \in Active \cup {"failed"}
         /\ \A d \in Drains : run[d].row = r => run[d].seen >= acked[u]

\* What README.md:75 says of the queue, with what it takes: while one
\* drain runs at a time and the upsert of the verdicts succeeds, a change is
\* lost only by a request that meets its user's row in a drain's hands; fan-outs,
\* crashes, failed finalising updates, exhausted attempts and retries lose none
\* (enqueue_eligibility_recompute, claim_eligibility_queue, drain_recompute_queue).
THEOREM ChangesAreKept ==
  ASSUME \A d, e \in Drains : d = e, "cache" \notin Faults
  PROVE  Spec /\ []RetriesApart /\ [][EditsMeetNoRun]_vars => [](ChangesHaveAJob /\ ChangesAreRead)
<1> DEFINE Inv == /\ TypeInv /\ ExclusiveClaim /\ SpentRows
                  /\ AskedPast /\ RunCoversRequest
                  /\ ResultsPast /\ RunsServe /\ Parked /\ Covered
<1>1. Init => Inv
  <2>1. Init => Covered
    BY DEF Init, Covered
  <2>2. QED
    BY <2>1, ClaimInvariant
    DEF Init, AskedPast, Absent, RunCoversRequest, ResultsPast, RunsServe, Parked, Idle
<1>2. Inv /\ RetriesApart /\ [Next]_vars /\ [EditsMeetNoRun]_vars => Inv'
  <2> SUFFICES ASSUME Inv, RetriesApart, [Next]_vars, [EditsMeetNoRun]_vars PROVE Inv'
    OBVIOUS
  <2>1. (TypeInv /\ ExclusiveClaim /\ SpentRows)'
    BY ClaimInvariant
  <2>2. AskStep /\ InputGrows /\ RunStep
    BY CoverNext
  <2>3. AskedPast' /\ RunCoversRequest'
    BY <2>1, <2>2, CoverStep
  <2>4. ResultsPast' /\ ResultsGrow
    BY ResultsNext
  <2>5. RunsServe'
    BY <2>1, <2>2, <2>4, ServeNext
  <2>6. RowsGoOn
    BY GoOnNext
  <2>7. EditsMeetNoRun \/ UNCHANGED vars
    OBVIOUS
  <2>8. Covered'
    <3>1. CASE EditsMeetNoRun
      BY <2>1, <2>4, <2>6, <3>1, CoveredNext
    <3>2. CASE UNCHANGED vars
      BY <3>2 DEF vars, Covered, Unfinished
    <3>3. QED
      BY <2>7, <3>1, <3>2
  <2>9. Parked'
    BY ParkedNext
  <2>10. QED
    BY <2>1, <2>3, <2>4, <2>5, <2>8, <2>9
<1>3. Inv => ChangesHaveAJob /\ ChangesAreRead
  <2> SUFFICES ASSUME Inv, NEW u \in Users, ~(result[u] >= acked[u])
               PROVE  \E r \in Rows :
                        /\ queue[r].user = u
                        /\ queue[r].status \in Active \cup {"failed"}
                        /\ \A d \in Drains : run[d].row = r => run[d].seen >= acked[u]
    BY DEF ChangesHaveAJob, ChangesAreRead
  <2>1. PICK r \in Rows : /\ Unfinished(r) /\ queue[r].user = u
                          /\ queue[r].asked >= acked[u]
    BY DEF Covered
  <2>2. ASSUME NEW d \in Drains, run[d].row = r PROVE run[d].seen >= acked[u]
    <3>1. run[d].stage # "idle"
      BY <2>2, NullAssumption DEF Parked
    <3>2. run[d].seen >= queue[r].asked
      BY <2>2, <3>1 DEF RunCoversRequest
    <3>3. run[d].seen \in Nat /\ queue[r].asked \in Nat /\ acked[u] \in Nat
      BY VersionAssumption DEF TypeInv, TypeOK, Row, Run, Version
    <3>4. QED
      BY <2>1, <3>2, <3>3
  <2>3. QED
    BY <2>1, <2>2 DEF Unfinished
<1>4. QED
  BY <1>1, <1>2, <1>3, PTL DEF Spec
=============================================================================
