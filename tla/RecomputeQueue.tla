--------------------------- MODULE RecomputeQueue ---------------------------
(***************************************************************************)
(* The eligibility recompute queue: who asks for a recompute, how a drain  *)
(* claims and runs the rows, and what a failure, a crash or an             *)
(* administrator does to them.                                             *)
(*                                                                         *)
(*   queue    rows of eligibility_recompute_queue                          *)
(*   input    version of all that run_eligibility_for_user reads for a     *)
(*            user: profile, credentials, active posts and their criteria  *)
(*   result   version eligibility_results was last computed from           *)
(*   editing  users whose handler has committed an edit and not yet called *)
(*            enqueue_eligibility_recompute                                *)
(*   promo    progress of promote_to_recruitments for each recruitment     *)
(*   held     rows a drain claimed and has not finalised, with the         *)
(*            attempt_count it saw (0: not held)                           *)
(*   run      the row a drain is running and the version it has read       *)
(*   retry    the row an admin's retry has read and not yet written        *)
(*                                                                         *)
(* History: acked is the input version when the enqueue of a user's last   *)
(* edit returned; queue[r].asked the newest version row r was asked to     *)
(* cover while no drain could have read yet.                               *)
(*                                                                         *)
(* Each SQL function is one transaction and so one action; a handler that  *)
(* makes several PostgREST calls is several actions. queued_at is          *)
(* abstracted: where the code takes the oldest rows, any will do.          *)
(***************************************************************************)
EXTENDS Naturals, FiniteSets

CONSTANTS
  Users, Recruitments, Rows, Drains, Admins,
  Global,        \* recruitment_id null: the whole-user scope
  NoUser, NoRow, \* nulls
  MaxAttempts,   \* _MAX_ATTEMPTS, 5 in the code
  ClaimLimit,    \* p_limit, 25 in the code
  MaxVersion,    \* bound: how often a user's input may change
  Faults         \* which of AllFaults may happen

AllFaults == {"crash", "finalise", "cache", "fanout"}

ASSUME AttemptsAssumption == MaxAttempts \in Nat \ {0}
ASSUME VersionAssumption == MaxVersion \in Nat
ASSUME LimitAssumption == ClaimLimit \in Nat
ASSUME NullAssumption ==
  NoUser \notin Users /\ NoRow \notin Rows /\ Global \notin Recruitments
ASSUME FaultsAssumption == Faults \subseteq AllFaults

VARIABLES queue, input, result, editing, promo, held, run, retry, acked

vars == <<queue, input, result, editing, promo, held, run, retry, acked>>
inputVars == <<input, editing, promo>>
drainVars == <<held, run>>

Version == 0..MaxVersion
Scopes == Recruitments \cup {Global}
Active == {"pending", "queued", "processing"}
Statuses == Active \cup {"absent", "completed", "failed"}

Absent == [user |-> NoUser, scope |-> Global, status |-> "absent",
           attempts |-> 0, waiting |-> FALSE, asked |-> 0]
Idle == [row |-> NoRow, user |-> NoUser, seen |-> 0, stage |-> "idle"]
NoneHeld == [r \in Rows |-> 0]
NotPromoted == [stage |-> "none", skip |-> {}]

Row == [user : Users \cup {NoUser}, scope : Scopes, status : Statuses,
        attempts : 0..MaxAttempts, waiting : BOOLEAN, asked : Version]
Run == [row : Rows \cup {NoRow}, user : Users \cup {NoUser}, seen : Version,
        stage : {"idle", "read", "persisted"}]

TypeOK ==
  /\ queue \in [Rows -> Row]
  /\ input \in [Users -> Version]
  /\ result \in [Users -> Version]
  /\ acked \in [Users -> Version]
  /\ editing \subseteq Users
  /\ promo \in [Recruitments ->
       [stage : {"none", "inserted", "written", "fanout", "done"},
        skip : SUBSET Users]]
  /\ held \in [Drains -> [Rows -> 0..MaxAttempts]]
  /\ run \in [Drains -> Run]
  /\ retry \in [Admins -> Rows \cup {NoRow}]

Init ==
  /\ queue = [r \in Rows |-> Absent]
  /\ input = [u \in Users |-> 0]
  /\ result = [u \in Users |-> 0]
  /\ acked = [u \in Users |-> 0]
  /\ editing = {}
  /\ promo = [c \in Recruitments |-> NotPromoted]
  /\ held = [d \in Drains |-> NoneHeld]
  /\ run = [d \in Drains |-> Idle]
  /\ retry = [a \in Admins |-> NoRow]

-----------------------------------------------------------------------------
(* Row selection *)

InScope(u, s) == {r \in Rows : queue[r].user = u /\ queue[r].scope = s}
\* (mutant) The deduplication of the first schema: pending rows only.
PendingIn(u, s) == {r \in InScope(u, s) : queue[r].status = "pending"}

ActiveIn(u, s) == {r \in InScope(u, s) : queue[r].status \in Active}
FailedIn(u, s) == {r \in InScope(u, s) : queue[r].status = "failed"}
PendingFor(u) ==
  {r \in Rows : queue[r].user = u /\ queue[r].status = "pending"}

\* Ids no row has and no process remembers: a fresh uuid.
Fresh == {r \in Rows : /\ queue[r].status = "absent"
                       /\ \A d \in Drains : held[d][r] = 0
                       /\ \A a \in Admins : retry[a] # r}

\* (mutants) The claim without its attempt bound, without its status filter,
\* and without the rows the trigger inserts.
ClaimableForever == {r \in Rows : /\ queue[r].status \in {"pending", "queued"}
                                  /\ ~queue[r].waiting}
ClaimableActive == {r \in Rows : /\ queue[r].status \in Active
                                 /\ ~queue[r].waiting
                                 /\ queue[r].attempts < MaxAttempts}

ClaimablePending == {r \in Rows : /\ queue[r].status = "pending"
                                  /\ ~queue[r].waiting
                                  /\ queue[r].attempts < MaxAttempts}

Claimable == {r \in Rows : /\ queue[r].status \in {"pending", "queued"}
                           /\ ~queue[r].waiting
                           /\ queue[r].attempts < MaxAttempts}

NewRow(u, s, st) == [user |-> u, scope |-> s, status |-> st, attempts |-> 0,
                     waiting |-> FALSE, asked |-> input[u]]

\* (mutant) The requeue forgets the attempts.
RequeuedAfresh(r) == [queue[r] EXCEPT !.status = "pending", !.waiting = FALSE,
                        !.attempts = 0, !.asked = input[queue[r].user]]

Requeued(r) == [queue[r] EXCEPT !.status = "pending", !.waiting = FALSE,
                                !.asked = input[queue[r].user]]

\* A deduplicated request: the row is returned unchanged; a row no drain has
\* claimed yet now also stands for this request.
Asked(r) == [queue[r] EXCEPT !.asked =
               IF queue[r].status = "processing" THEN @ ELSE input[queue[r].user]]

-----------------------------------------------------------------------------
(* Producers *)

\* enqueue_eligibility_recompute (migration 041)
Enqueue(u, s) ==
  /\ \/ \E r \in ActiveIn(u, s) : queue' = [queue EXCEPT ![r] = Asked(r)]
     \/ /\ ActiveIn(u, s) = {}
        /\ \E r \in FailedIn(u, s) : queue' = [queue EXCEPT ![r] = Requeued(r)]
     \/ /\ ActiveIn(u, s) \cup FailedIn(u, s) = {}
        /\ \E r \in Fresh :
             queue' = [queue EXCEPT ![r] = NewRow(u, s, "pending")]

\* A profile handler commits its write ...
EditProfile(u) ==
  /\ u \notin editing
  /\ input[u] < MaxVersion
  /\ input' = [input EXCEPT ![u] = @ + 1]
  /\ editing' = editing \cup {u}
  /\ UNCHANGED <<queue, result, promo, drainVars, retry, acked>>

\* ... and then asks for the recompute.
EnqueueEdit(u) ==
  /\ u \in editing
  /\ Enqueue(u, Global)
  /\ acked' = [acked EXCEPT ![u] = input[u]]
  /\ editing' = editing \ {u}
  /\ UNCHANGED <<input, result, promo, drainVars, retry>>

\* Publish and the admin recompute button: one RPC per user, recruitment scope.
EnqueueScoped(u, c) ==
  /\ promo[c].stage # "none"
  /\ Enqueue(u, c)
  /\ UNCHANGED <<inputVars, result, drainVars, retry, acked>>

\* Inserting a recruitment fires fn_enqueue_eligibility_for_new_recruitment,
\* which adds a 'queued' row per onboarded user without looking for others.
InsertRecruitment(c) ==
  /\ promo[c].stage = "none"
  /\ promo' = [promo EXCEPT ![c].stage = "inserted"]
  /\ \E row \in [Users -> Fresh] :
       /\ \A u, v \in Users : u # v => row[u] # row[v]
       /\ queue' = [r \in Rows |->
            IF \E u \in Users : row[u] = r
            THEN NewRow(CHOOSE u \in Users : row[u] = r, c, "queued")
            ELSE queue[r]]
  /\ UNCHANGED <<input, result, editing, drainVars, retry, acked>>

\* The posts and criteria follow the recruitment row: every user's input moves.
WritePosts(c) ==
  /\ promo[c].stage = "inserted"
  /\ \A u \in Users : input[u] < MaxVersion
  /\ input' = [u \in Users |-> input[u] + 1]
  /\ promo' = [promo EXCEPT ![c].stage = "written"]
  /\ UNCHANGED <<queue, result, editing, drainVars, retry, acked>>

\* _enqueue_recompute_fanout reads who already has a pending row ...
FanoutRead(c) ==
  LET skip == {u \in Users : PendingFor(u) # {}} IN
  /\ promo[c].stage = "written"
  /\ promo' = [promo EXCEPT ![c] = [stage |-> "fanout", skip |-> skip]]
  /\ queue' = [r \in Rows |-> IF queue[r].status = "pending"
                              THEN Asked(r) ELSE queue[r]]
  /\ UNCHANGED <<input, result, editing, drainVars, retry, acked>>

\* ... and inserts a pending whole-user row for everybody else. A chunk that
\* fails to insert is swallowed (execute_or_default).
FanoutInsert(c) ==
  LET rest == Users \ promo[c].skip IN
  /\ promo[c].stage = "fanout"
  /\ promo' = [promo EXCEPT ![c] = [stage |-> "done", skip |-> {}]]
  /\ \/ "fanout" \in Faults /\ UNCHANGED queue
     \/ \E row \in [rest -> Fresh] :
          /\ \A u, v \in rest : u # v => row[u] # row[v]
          /\ queue' = [r \in Rows |->
               IF \E u \in rest : row[u] = r
               THEN NewRow(CHOOSE u \in rest : row[u] = r, Global, "pending")
               ELSE queue[r]]
  /\ UNCHANGED <<input, result, editing, drainVars, retry, acked>>

-----------------------------------------------------------------------------
(* Drains: the scheduled elig:recompute job and run_job_now beside it *)

\* (mutant) A claim that counts the attempt and leaves the status.
ClaimedQuietly(r) == [queue[r] EXCEPT !.attempts = @ + 1]

Claimed(r) == [queue[r] EXCEPT !.status = "processing", !.attempts = @ + 1]

\* claim_eligibility_queue (migration 010)
Claim(d) ==
  /\ held[d] = NoneHeld
  /\ \E batch \in SUBSET Claimable :
       /\ batch # {}
       /\ \/ batch = Claimable /\ Cardinality(batch) <= ClaimLimit
          \/ Cardinality(batch) = ClaimLimit
       /\ queue' = [r \in Rows |->
            IF r \in batch THEN Claimed(r) ELSE queue[r]]
       /\ held' = [held EXCEPT ![d] = [r \in Rows |->
            IF r \in batch THEN queue[r].attempts + 1 ELSE 0]]
  /\ UNCHANGED <<inputVars, result, run, retry, acked>>

\* run_eligibility_for_user loads the user and the active posts ...
ReadInput(d, r) ==
  /\ run[d] = Idle
  /\ held[d][r] > 0
  /\ run' = [run EXCEPT ![d] = [row |-> r, user |-> queue[r].user,
                                seen |-> input[queue[r].user], stage |-> "read"]]
  /\ UNCHANGED <<queue, inputVars, result, held, retry, acked>>

\* ... and upserts the verdicts. A failed upsert is only noted in the summary.
Persist(d) ==
  /\ run[d].stage = "read"
  /\ run' = [run EXCEPT ![d].stage = "persisted"]
  /\ \/ result' = [result EXCEPT ![run[d].user] = run[d].seen]
     \/ "cache" \in Faults /\ UNCHANGED result
  /\ UNCHANGED <<queue, inputVars, held, retry, acked>>

\* A deleted row leaves its id to be used again unless a drain remembers it.
Deleted(q) == IF \E d \in Drains : held[d][q] > 0
              THEN [queue[q] EXCEPT !.status = "absent"] ELSE Absent

\* The delete of older completed rows that precedes the completing update.
Cleaned(r) ==
  [q \in Rows |->
     IF /\ q # r
        /\ queue[q].status = "completed"
        /\ queue[q].user = queue[r].user
        /\ queue[q].scope = queue[r].scope
     THEN Deleted(q) ELSE queue[q]]

\* An update by id touches nothing when the row is gone.
Update(q, r, row) == IF q[r].status = "absent" THEN q ELSE [q EXCEPT ![r] = row]

Release(d, r) ==
  /\ held' = [held EXCEPT ![d][r] = 0]
  /\ run' = [run EXCEPT ![d] = Idle]

Complete(d) ==
  LET r == run[d].row IN
  /\ run[d].stage = "persisted"
  /\ queue' = Update(Cleaned(r), r, [queue[r] EXCEPT !.status = "completed"])
  /\ Release(d, r)
  /\ UNCHANGED <<inputVars, result, retry, acked>>

\* _finalise_failure: attempts is the count the claim returned.
Finalised(q, r, n) ==
  Update(q, r, [q[r] EXCEPT
    !.status = IF n >= MaxAttempts THEN "failed" ELSE "pending",
    !.waiting = TRUE, !.attempts = n])

\* An exception anywhere in the row's try block; in the last stage the
\* cleanup may already have happened, and the finalising update may fail too.
FailRun(d) ==
  LET r == run[d].row IN
  /\ run[d].stage # "idle"
  /\ \E q \in {queue} \cup (IF run[d].stage = "persisted" THEN {Cleaned(r)} ELSE {}) :
       \/ queue' = Finalised(q, r, held[d][r])
       \/ "finalise" \in Faults /\ queue' = q
  /\ Release(d, r)
  /\ UNCHANGED <<inputVars, result, retry, acked>>

\* next_attempt_at passes.
BackoffElapsed(r) ==
  /\ queue[r].waiting
  /\ queue' = [queue EXCEPT ![r].waiting = FALSE]
  /\ UNCHANGED <<inputVars, result, drainVars, retry, acked>>

-----------------------------------------------------------------------------
(* Operators and faults *)

\* retry_recompute_row checks the status with one call ...
RetryRead(a, r) ==
  /\ retry[a] = NoRow
  /\ queue[r].status = "failed"
  /\ retry' = [retry EXCEPT ![a] = r]
  /\ UNCHANGED <<queue, inputVars, result, drainVars, acked>>

\* ... and resets the row, by id alone, with another.
RetryWrite(a) ==
  LET r == retry[a] IN
  /\ r # NoRow
  /\ queue' = Update(queue, r, [queue[r] EXCEPT !.status = "pending",
                                  !.attempts = 0, !.waiting = FALSE])
  /\ retry' = [retry EXCEPT ![a] = NoRow]
  /\ UNCHANGED <<inputVars, result, drainVars, acked>>

\* The single backend process dies: handlers, fan-outs and drains are lost.
Crash ==
  /\ "crash" \in Faults
  /\ held' = [d \in Drains |-> NoneHeld]
  /\ run' = [d \in Drains |-> Idle]
  /\ retry' = [a \in Admins |-> NoRow]
  /\ editing' = {}
  /\ promo' = [c \in Recruitments |->
       IF promo[c].stage = "none" THEN promo[c]
       ELSE [stage |-> "done", skip |-> {}]]
  /\ UNCHANGED <<queue, input, result, acked>>

-----------------------------------------------------------------------------
Drain(d) == \/ Claim(d)
            \/ \E r \in Rows : ReadInput(d, r)
            \/ Persist(d)
            \/ Complete(d)
            \/ FailRun(d)

Producer == \/ \E u \in Users : EditProfile(u) \/ EnqueueEdit(u)
            \/ \E u \in Users, c \in Recruitments : EnqueueScoped(u, c)
            \/ \E c \in Recruitments : \/ InsertRecruitment(c)
                                       \/ WritePosts(c)
                                       \/ FanoutRead(c)
                                       \/ FanoutInsert(c)

Next == \/ Producer
        \/ \E d \in Drains : Drain(d)
        \/ \E r \in Rows : BackoffElapsed(r)
        \/ \E a \in Admins : (\E r \in Rows : RetryRead(a, r)) \/ RetryWrite(a)
        \/ Crash

Spec == Init /\ [][Next]_vars

\* The scheduler fires the job every five minutes and a started drain goes
\* on; time passes. Nobody is obliged to edit, publish, retry or crash.
FairSpec ==
  /\ Spec
  /\ \A d \in Drains : WF_vars(Drain(d))
  /\ \A r \in Rows : WF_vars(BackoffElapsed(r))

-----------------------------------------------------------------------------
(* Properties *)

\* The claim promises exclusive work: a row in a drain's hands is
\* 'processing', carries the attempt_count that drain will write back, and is
\* in no other drain's hands (claim_eligibility_queue, _finalise_failure).
ExclusiveClaim ==
  \A d \in Drains, r \in Rows : held[d][r] > 0 =>
    /\ queue[r].status = "processing"
    /\ queue[r].attempts = held[d][r]
    /\ \A e \in Drains \ {d} : held[e][r] = 0

\* A request that found its row not yet claimed, or that made one, is covered
\* by it: what the run read is at least what was asked for. For the promotion
\* fan-out this is why skipping users with a pending row loses nothing.
RunCoversRequest ==
  \A d \in Drains : run[d].stage # "idle" =>
    run[d].seen >= queue[run[d].row].asked

\* Migration 041 keeps the retry history: while a row exists only an
\* administrator's reset lowers its attempt_count, neither a requeue nor the
\* count _finalise_failure writes back from its snapshot does.
RetryHistoryKept ==
  [][\A r \in Rows :
       \/ queue'[r].status = "absent"
       \/ queue'[r].attempts >= queue[r].attempts
       \/ \E a \in Admins : retry[a] = r /\ retry'[a] = NoRow]_vars

\* A user never has two unfinished rows of one recruitment's scope: the
\* trigger, the RPC, the failures and the crashes between them keep the slot
\* single (header of migration 041). The whole-user scope is left out: the
\* promotion fan-out adds a pending row beside one that is processing.
OneUnfinishedRow ==
  \A q, r \in Rows :
    /\ queue[q].status \in Active \cup {"failed"}
    /\ queue[r].status \in Active \cup {"failed"}
    /\ queue[q].user = queue[r].user
    /\ queue[q].scope = queue[r].scope
    /\ queue[q].scope # Global
    => q = r

\* Every row that may still be claimed is brought to an end: a run completes
\* or the attempts run out, whatever drains, back-offs and administrators do in
\* between (claim, _finalise_failure). The exception is a row whose drain died or
\* could not write its end: it stays 'processing', and no sweep takes it up.
Waiting(r) == queue[r].status \in {"pending", "queued"} /\ queue[r].attempts < MaxAttempts
Orphaned(r) == queue[r].status = "processing" /\ \A d \in Drains : held[d][r] = 0
Ended(r) == queue[r].status \in {"completed", "failed", "absent"} \/ Orphaned(r)
RowsAreFinished == \A r \in Rows : Waiting(r) ~> Ended(r)

\* What README.md:75 says of the queue: an acknowledged change has been
\* computed, or the user has a row that is not yet completed (parked as failed
\* counts), whether a drain runs it or not.
ChangesHaveAJob ==
  \A u \in Users :
    \/ result[u] >= acked[u]
    \/ \E r \in Rows : queue[r].user = u /\ queue[r].status \in Active \cup {"failed"}
=============================================================================
