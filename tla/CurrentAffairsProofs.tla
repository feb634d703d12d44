----------------------- MODULE CurrentAffairsProofs ------------------------
(***************************************************************************)
(* Proofs about CurrentAffairs for any bundles, questions, options, exams, *)
(* concurrent start requests, saves and editorial changes.                 *)
(***************************************************************************)
EXTENDS CurrentAffairs, TLAPS

\* Started attempts are in one order: what came before an attempt came before
\* every later one.
Started ==
  \A w \in Weeklies : \A v \in att[w].earlier :
    /\ v # w
    /\ att[v].status # "none"
    /\ att[v].earlier \subseteq att[w].earlier
    /\ w \notin att[v].earlier

Submissions == \A b \in Bundles : att[b].status = "submitted" => att[b].submitted <= now

\* An item stands for a mistake of a submitted attempt and falls due later.
Sources ==
  \A q \in Questions : item[q].status # "none" =>
    /\ item[q].source \in Weeklies
    /\ att[item[q].source].status = "submitted"
    /\ att[item[q].source].exam = item[q].exam
    /\ att[item[q].source].submitted < item[q].due

\* A mistake in a tail has left the queue: its item is spent, or the item of a
\* newer mistake.
Spent(q, w) == /\ item[q].status # "none"
               /\ \/ item[q].source = w /\ item[q].status # "pending"
                  \/ Newer(item[q].source, w)

TailsAreSpent ==
  \A m \in Monthlies, q \in Questions : tail[m][q] # None =>
    /\ att[m].status # "none"
    /\ att[tail[m][q]].status = "submitted"
    /\ Spent(q, tail[m][q])

Owing == \A w \in Weeklies : owed[w] # {} => att[w].status = "submitted"

\* A request carries the rows of the bundle's questions and of its tail.
Asked ==
  \A r \in Requests : req[r].bundle # None =>
    /\ \A q \in Questions : req[r].keys[q] # None <=> q \in Members[req[r].bundle] \cup req[r].tail
    /\ req[r].bundle \in Weeklies => req[r].tail = {}

QueueInv == Started /\ Submissions /\ Sources /\ TailsAreSpent /\ Owing
IInv == /\ TypeOK /\ QueueInv /\ Asked
        /\ MistakesAreKept /\ OneReviewPerMistake /\ ReviewsStayInExam /\ ConfirmedAnswersCount

\* The item of a mistake just made.
Queued(w) == [status |-> "pending", source |-> w, exam |-> att[w].exam, due |-> now + 1]
-----------------------------------------------------------------------------
(* What a step does to the attempts, the items, the tails and the debts *)

\* A weekly attempt's mistakes are queued where they displace what is there.
LEMMA EnqueueEffect ==
  ASSUME TypeOK, NEW w \in Weeklies, NEW mistakes, item' = Enqueued(w, mistakes)
  PROVE  /\ \A q \in Questions : item'[q] = item[q] \/ (Displaces(w, q) /\ item'[q] = Queued(w))
         /\ \A q \in mistakes \cap Questions : Relevant(q) /\ Displaces(w, q) => item'[q] = Queued(w)
         /\ item' \in [Questions -> ItemRecord]
<1>1. \A q \in Questions : item'[q] = IF q \in mistakes /\ Relevant(q) /\ Displaces(w, q)
                                      THEN Queued(w) ELSE item[q]
  BY DEF Enqueued, Queued
<1>2. Queued(w) \in ItemRecord
  <2>1. w \in Bundles /\ att[w].exam \in Exams \cup {None} /\ now + 1 \in 0..MaxTime + 1
    BY BoundAssumption DEF TypeOK, AttemptRecord, Bundles
  <2>2. QED
    BY <2>1 DEF Queued, ItemRecord
<1>3. item' \in [Questions -> ItemRecord]
  <2>1. \A q \in Questions : item[q] \in ItemRecord
    BY DEF TypeOK
  <2>2. item' = [q \in Questions |-> item'[q]]
    BY DEF Enqueued
  <2>3. QED
    BY <1>1, <1>2, <2>1, <2>2
<1>4. QED
  BY <1>1, <1>3

\* An attempt is created once, then submitted once.
AttemptStep ==
  \/ att' = att
  \/ \E r \in Requests : Accepted(req[r]) /\ Create(req[r])
  \/ \E b \in Bundles : /\ att[b].status = "in_progress"
                        /\ att' = [att EXCEPT ![b].status = "submitted", ![b].submitted = now]

LEMMA AttemptSteps == [Next]_vars => AttemptStep
BY DEF AttemptStep, Next, vars, attempts, bank, Read, StartWeekly, StartMonthly, Drop,
       Save, Submit, Resubmit, Sweep, ChangeStanding, ChangeKey, Tick

\* So an attempt that exists keeps its exam and its place in the order, and a
\* submitted one does not change at all.
LEMMA AttemptsProgress ==
  ASSUME TypeOK, Started, [Next]_vars
  PROVE  /\ \A b \in Bundles : att[b].status # "none" =>
              /\ att'[b].status # "none"
              /\ att'[b].exam = att[b].exam
              /\ att'[b].earlier = att[b].earlier
         /\ \A b \in Bundles : att[b].status = "submitted" => att'[b] = att[b]
         /\ \A w \in Weeklies : att[w].earlier \subseteq att'[w].earlier
<1>1. AttemptStep
  BY AttemptSteps
<1>2. CASE att' = att
  BY <1>2
<1>3. ASSUME NEW r \in Requests, Accepted(req[r]), Create(req[r])
      PROVE  /\ att[req[r].bundle].status = "none"
             /\ \A b \in Bundles \ {req[r].bundle} : att'[b] = att[b]
             /\ \A w \in Weeklies : att[w].earlier \subseteq att'[w].earlier
  <2>1. req[r].bundle \in Bundles /\ att[req[r].bundle].status = "none"
    BY <1>3 DEF TypeOK, RequestRecord, Accepted
  <2>2. /\ \A b \in Bundles \ {req[r].bundle} : att'[b] = att[b]
        /\ att'[req[r].bundle].earlier = Begun
    BY <1>3, <2>1 DEF TypeOK, Create
  <2>3. \A w \in Weeklies : att[w].earlier \subseteq Begun
    BY DEF Started, Begun, TypeOK, AttemptRecord, Bundles
  <2>4. QED
    BY <2>1, <2>2, <2>3 DEF Bundles
<1>4. ASSUME NEW b \in Bundles, att[b].status = "in_progress",
             att' = [att EXCEPT ![b].status = "submitted", ![b].submitted = now]
      PROVE  /\ att'[b].status # "none" /\ att'[b].exam = att[b].exam
             /\ att'[b].earlier = att[b].earlier
             /\ \A c \in Bundles \ {b} : att'[c] = att[c]
  BY <1>4 DEF TypeOK, AttemptRecord
<1>5. QED
  BY <1>1, <1>2, <1>3, <1>4 DEF AttemptStep, Bundles

\* An item stays, expires, is consumed by a monthly attempt that starts, or is
\* taken over by a newer mistake.
ItemStep(q) ==
  \/ item'[q] = item[q]
  \/ /\ item[q].status = "pending"
     /\ item'[q] = [item[q] EXCEPT !.status = "expired"]
  \/ /\ item[q].status = "pending"
     /\ item'[q] = [item[q] EXCEPT !.status = "consumed"]
     /\ \E m \in Monthlies : tail'[m][q] = item[q].source
  \/ \E w \in Weeklies : /\ att[w].status # "none" /\ att'[w].status = "submitted"
                         /\ Displaces(w, q) /\ item'[q] = Queued(w)

\* The tail of a monthly attempt is written when the attempt starts, of items
\* that are pending, due and of its exam.
TailStep(m, q) ==
  \/ tail'[m][q] = tail[m][q]
  \/ att[m].status = "none" /\ tail'[m][q] = None
  \/ /\ att[m].status = "none" /\ att'[m].status # "none"
     /\ Due(q, att'[m].exam)
     /\ tail'[m][q] = item[q].source
     /\ item'[q] = [item[q] EXCEPT !.status = "consumed"]

\* A debt is new with the submission that makes it, and queued unless a newer
\* mistake holds the item.
OwedStep(w, q) ==
  \/ q \in owed[w]
  \/ /\ att[w].status # "none" /\ att'[w].status = "submitted"
     /\ \/ Displaces(w, q) /\ item'[q] = Queued(w)
        \/ ~Displaces(w, q) /\ item'[q] = item[q]

LEMMA QueueSteps ==
  ASSUME TypeOK, [Next]_vars
  PROVE  /\ \A q \in Questions : ItemStep(q)
         /\ \A m \in Monthlies, q \in Questions : TailStep(m, q)
         /\ \A w \in Weeklies : \A q \in owed'[w] : OwedStep(w, q)
<1>1. CASE UNCHANGED <<item, tail, owed>>
  BY <1>1 DEF ItemStep, TailStep, OwedStep
<1>2. ASSUME NEW r \in Requests, StartMonthly(r)
      PROVE  /\ \A q \in Questions : ItemStep(q)
             /\ \A m \in Monthlies, q \in Questions : TailStep(m, q)
             /\ \A w \in Weeklies : \A q \in owed'[w] : OwedStep(w, q)
  <2> DEFINE c == req[r]
             b == c.bundle
  <2>1. /\ b \in Monthlies /\ b \in Bundles /\ att[b].status = "none"
        /\ \A q \in c.tail : Due(q, c.exam)
        /\ c.tail \subseteq Questions
    BY <1>2 DEF StartMonthly, Accepted, TailHolds, Bundles, TypeOK, RequestRecord
  <2>2. att'[b].status # "none" /\ att'[b].exam = c.exam
    BY <1>2, <2>1 DEF StartMonthly, Create, TypeOK
  <2>3. \A q \in Questions :
          /\ tail'[b][q] = IF q \in c.tail THEN item[q].source ELSE None
          /\ item'[q] = IF q \in c.tail THEN [item[q] EXCEPT !.status = "consumed"] ELSE item[q]
    BY <1>2, <2>1 DEF StartMonthly, TypeOK
  <2>4. \A m \in Monthlies \ {b} : tail'[m] = tail[m]
    BY <1>2 DEF StartMonthly, TypeOK
  <2>5. \A q \in c.tail : item[q].status = "pending"
    BY <2>1 DEF Due
  <2>6. \A q \in Questions : ItemStep(q)
    BY <2>1, <2>3, <2>5 DEF ItemStep
  <2>7. \A m \in Monthlies, q \in Questions : TailStep(m, q)
    BY <2>1, <2>2, <2>3, <2>4 DEF TailStep
  <2>8. \A w \in Weeklies : \A q \in owed'[w] : OwedStep(w, q)
    BY <1>2 DEF StartMonthly, OwedStep
  <2>9. QED
    BY <2>6, <2>7, <2>8
<1>3. ASSUME NEW w \in Weeklies, Submit(w)
      PROVE  /\ \A q \in Questions : ItemStep(q)
             /\ \A m \in Monthlies, q \in Questions : TailStep(m, q)
             /\ \A v \in Weeklies : \A q \in owed'[v] : OwedStep(v, q)
  <2>1. /\ att[w].status # "none" /\ att'[w].status = "submitted"
        /\ item' = Enqueued(w, Wrong(w, Correct(w))) /\ tail' = tail
        /\ owed' = [owed EXCEPT ![w] = {q \in Wrong(w, Correct(w)) : Relevant(q)}]
    BY <1>3 DEF Submit, TypeOK, Bundles
  <2>2. /\ \A q \in Questions : item'[q] = item[q] \/ (Displaces(w, q) /\ item'[q] = Queued(w))
        /\ \A q \in Wrong(w, Correct(w)) \cap Questions :
             Relevant(q) /\ Displaces(w, q) => item'[q] = Queued(w)
    BY <2>1, EnqueueEffect
  <2>3. \A q \in Questions : ItemStep(q)
    BY <2>1, <2>2 DEF ItemStep
  <2>4. /\ \A v \in Weeklies \ {w} : owed'[v] = owed[v]
        /\ owed'[w] = {q \in Wrong(w, Correct(w)) : Relevant(q)}
        /\ owed'[w] \subseteq Questions
    BY <2>1 DEF TypeOK, Wrong, Rows
  <2>5. \A v \in Weeklies : \A q \in owed'[v] : OwedStep(v, q)
    BY <2>1, <2>2, <2>4 DEF OwedStep
  <2>6. QED
    BY <2>1, <2>3, <2>5 DEF TailStep
<1>4. ASSUME NEW w \in Weeklies, Resubmit(w)
      PROVE  \A q \in Questions : ItemStep(q)
  BY <1>4, EnqueueEffect DEF Resubmit, attempts, ItemStep
<1>5. ASSUME Sweep
      PROVE  \A q \in Questions : ItemStep(q)
  BY <1>5 DEF Sweep, Stale, ItemStep
<1>6. ASSUME tail' = tail, owed' = owed, \A q \in Questions : ItemStep(q)
      PROVE  /\ \A m \in Monthlies, q \in Questions : TailStep(m, q)
             /\ \A v \in Weeklies : \A q \in owed'[v] : OwedStep(v, q)
  BY <1>6 DEF TailStep, OwedStep
<1>7. \/ UNCHANGED <<item, tail, owed>>
      \/ \E r \in Requests : StartMonthly(r)
      \/ \E w \in Weeklies : Submit(w)
      \/ \E w \in Weeklies : Resubmit(w) /\ tail' = tail /\ owed' = owed
      \/ Sweep /\ tail' = tail /\ owed' = owed
  BY DEF Next, vars, attempts, bank, Read, StartWeekly, Drop, Save, Submit, Resubmit, Sweep,
         ChangeStanding, ChangeKey, Tick, Bundles
<1>8. QED
  BY <1>1, <1>2, <1>3, <1>4, <1>5, <1>6, <1>7
-----------------------------------------------------------------------------
(* The order of mistakes *)

LEMMA NewerIsAnOrder ==
  ASSUME TypeOK, Started
  PROVE  /\ \A w \in Weeklies : ~Newer(w, w)
         /\ \A u, v, w \in Weeklies : Newer(u, v) /\ Newer(v, w) => Newer(u, w)
<1>1. \A w \in Weeklies : PeriodEnd[w] \in Nat
  BY BundleAssumption
<1>2. \A w \in Weeklies : ~Newer(w, w)
  BY <1>1 DEF Newer, Started
<1>3. ASSUME NEW u \in Weeklies, NEW v \in Weeklies, NEW w \in Weeklies,
             Newer(u, v), Newer(v, w)
      PROVE  Newer(u, w)
  <2>1. CASE PeriodEnd[w] < PeriodEnd[u]
    BY <2>1 DEF Newer
  <2>2. CASE ~(PeriodEnd[w] < PeriodEnd[u])
    <3>1. PeriodEnd[u] = PeriodEnd[v] /\ PeriodEnd[v] = PeriodEnd[w]
      BY <1>1, <1>3, <2>2 DEF Newer
    <3>2. v \in att[u].earlier /\ w \in att[v].earlier
      BY <1>1, <1>3, <3>1 DEF Newer
    <3>3. QED
      BY <3>1, <3>2 DEF Newer, Started
  <2>3. QED
    BY <2>1, <2>2
<1>4. QED
  BY <1>2, <1>3

\* Steps only add to the order, and only below attempts that did not exist.
LEMMA NewerIsStable ==
  ASSUME TypeOK, Started, [Next]_vars
  PROVE  \A v, w \in Weeklies :
           /\ Newer(v, w) => Newer(v, w)'
           /\ att[v].status # "none" => (Newer(v, w) <=> Newer(v, w)')
<1>1. \A v \in Weeklies : /\ att[v].earlier \subseteq att'[v].earlier
                          /\ att[v].status # "none" => att'[v].earlier = att[v].earlier
  BY AttemptsProgress DEF Bundles
<1>2. QED
  BY <1>1 DEF Newer
-----------------------------------------------------------------------------
(* The invariant is preserved *)

LEMMA TypeStep == TypeOK /\ [Next]_vars => TypeOK'
<1> SUFFICES ASSUME TypeOK, [Next]_vars PROVE TypeOK'
  OBVIOUS
<1>1. CASE UNCHANGED vars
  BY <1>1 DEF TypeOK, vars, attempts, bank
<1>2. ASSUME NEW r \in Requests, NEW b \in Bundles, NEW x \in Exams, Read(r, b, x)
      PROVE  TypeOK'
  <2>1. PICK t \in SUBSET Questions : req' = [req EXCEPT ![r] =
          [bundle |-> b, exam |-> x, tail |-> t,
           keys |-> [q \in Questions |-> IF q \in Members[b] \cup t THEN key[q] ELSE None]]]
    BY <1>2 DEF Read
  <2>2. [q \in Questions |-> IF q \in Members[b] \cup t THEN key[q] ELSE None]
          \in [Questions -> Options \cup {None}]
    BY DEF TypeOK
  <2>3. [bundle |-> b, exam |-> x, tail |-> t,
         keys |-> [q \in Questions |-> IF q \in Members[b] \cup t THEN key[q] ELSE None]]
          \in RequestRecord
    BY <2>2 DEF RequestRecord
  <2>4. req' \in [Requests -> RequestRecord]
    BY <2>1, <2>3 DEF TypeOK
  <2>5. QED
    BY <1>2, <2>4 DEF Read, attempts, bank, TypeOK
<1>3. NoRequest \in RequestRecord
  BY DEF NoRequest, RequestRecord
<1>4. ASSUME NEW r \in Requests, Accepted(req[r]), Create(req[r])
      PROVE  /\ att' \in [Bundles -> AttemptRecord]
             /\ frozen' \in [Bundles -> [Questions -> Options \cup {None}]]
  <2>1. /\ req[r].bundle \in Bundles /\ req[r].exam \in Exams \cup {None}
        /\ req[r].keys \in [Questions -> Options \cup {None}]
    BY <1>4 DEF TypeOK, RequestRecord, Accepted
  <2>2. [status |-> "in_progress", exam |-> req[r].exam, earlier |-> Begun, submitted |-> 0]
          \in AttemptRecord
    BY <2>1, BoundAssumption DEF AttemptRecord, Begun
  <2>3. QED
    BY <1>4, <2>1, <2>2 DEF Create, TypeOK
<1>5. ASSUME NEW r \in Requests, StartWeekly(r)
      PROVE  TypeOK'
  <2>1. /\ att' \in [Bundles -> AttemptRecord]
        /\ frozen' \in [Bundles -> [Questions -> Options \cup {None}]]
    BY <1>4, <1>5 DEF StartWeekly
  <2>2. req' \in [Requests -> RequestRecord]
    BY <1>3, <1>5 DEF StartWeekly, TypeOK
  <2>3. QED
    BY <1>5, <2>1, <2>2 DEF StartWeekly, bank, TypeOK
<1>6. ASSUME NEW r \in Requests, StartMonthly(r)
      PROVE  TypeOK'
  <2>1. /\ att' \in [Bundles -> AttemptRecord]
        /\ frozen' \in [Bundles -> [Questions -> Options \cup {None}]]
    BY <1>4, <1>6 DEF StartMonthly
  <2>2. req' \in [Requests -> RequestRecord]
    BY <1>3, <1>6 DEF StartMonthly, TypeOK
  <2>3. item' \in [Questions -> ItemRecord]
    BY <1>6 DEF StartMonthly, TypeOK, ItemRecord
  <2>4. tail' \in [Monthlies -> [Questions -> Weeklies \cup {None}]]
    <3>1. \A q \in Questions : item[q].source \in Weeklies \cup {None}
      BY DEF TypeOK, ItemRecord
    <3>2. [q \in Questions |-> IF q \in req[r].tail THEN item[q].source ELSE None]
            \in [Questions -> Weeklies \cup {None}]
      BY <3>1
    <3>3. QED
      BY <1>6, <3>2 DEF StartMonthly, TypeOK
  <2>5. QED
    BY <1>6, <2>1, <2>2, <2>3, <2>4 DEF StartMonthly, bank, TypeOK
<1>7. ASSUME NEW r \in Requests, Drop(r)
      PROVE  TypeOK'
  BY <1>3, <1>7 DEF Drop, attempts, bank, TypeOK
<1>8. ASSUME NEW b \in Bundles, Submit(b)
      PROVE  TypeOK'
  <2>1. att' \in [Bundles -> AttemptRecord]
    <3>1. [att[b] EXCEPT !.status = "submitted", !.submitted = now] \in AttemptRecord
      <4>1. att[b] \in AttemptRecord /\ now \in 0..MaxTime
        BY DEF TypeOK
      <4>2. QED
        BY <4>1 DEF AttemptRecord
    <3>2. att' = [att EXCEPT ![b] = [att[b] EXCEPT !.status = "submitted", !.submitted = now]]
      BY <1>8 DEF Submit, TypeOK
    <3>3. QED
      BY <3>1, <3>2 DEF TypeOK
  <2>2. right' \in [Bundles -> SUBSET Questions]
    BY <1>8 DEF Submit, TypeOK, Correct, Rows
  <2>3. item' \in [Questions -> ItemRecord] /\ owed' \in [Weeklies -> SUBSET Questions]
    <3>1. CASE b \in Weeklies
      <4>1. {q \in Wrong(b, Correct(b)) : Relevant(q)} \in SUBSET Questions
        BY DEF Wrong, Rows
      <4>2. QED
        BY <1>8, <3>1, <4>1, EnqueueEffect DEF Submit, TypeOK
    <3>2. CASE b \notin Weeklies
      BY <1>8, <3>2 DEF Submit, TypeOK
    <3>3. QED
      BY <3>1, <3>2
  <2>4. QED
    BY <1>8, <2>1, <2>2, <2>3 DEF Submit, bank, TypeOK
<1>9. ASSUME NEW b \in Bundles, NEW q \in Questions, NEW n \in 1..MaxSeq[b],
             NEW o \in Options \cup {None}, Save(b, q, n, o)
      PROVE  TypeOK'
  <2>1. [option |-> o, seq |-> n] \in Answer
    BY DEF Answer
  <2>2. /\ sheet' \in [Bundles -> [Questions -> Answer]]
        /\ confirmed' \in [Bundles -> [Questions -> Answer]]
    BY <1>9, <2>1 DEF Save, TypeOK
  <2>3. QED
    BY <1>9, <2>2 DEF Save, bank, TypeOK
<1>10. ASSUME NEW w \in Weeklies, Resubmit(w)
       PROVE  TypeOK'
  <2>1. item' \in [Questions -> ItemRecord]
    BY <1>10, EnqueueEffect DEF Resubmit
  <2>2. QED
    BY <1>10, <2>1 DEF Resubmit, attempts, bank, TypeOK
<1>11. ASSUME Sweep
       PROVE  TypeOK'
  <2>1. item' \in [Questions -> ItemRecord]
    BY <1>11 DEF Sweep, TypeOK, ItemRecord
  <2>2. QED
    BY <1>11, <2>1 DEF Sweep, attempts, bank, TypeOK
<1>12. ASSUME NEW q \in Questions, ChangeStanding(q)
       PROVE  TypeOK'
  BY <1>12, BoundAssumption DEF ChangeStanding, attempts, TypeOK
<1>13. ASSUME NEW q \in Questions, NEW o \in Options, ChangeKey(q, o)
       PROVE  TypeOK'
  BY <1>13, BoundAssumption DEF ChangeKey, attempts, TypeOK
<1>14. CASE Tick
  BY <1>14, BoundAssumption DEF Tick, attempts, bank, TypeOK
<1>15. QED
  BY <1>1, <1>2, <1>5, <1>6, <1>7, <1>8, <1>9, <1>10, <1>11, <1>12, <1>13, <1>14 DEF Next

LEMMA StartedStep ==
  ASSUME TypeOK, Started, [Next]_vars
  PROVE  Started'
<1>1. AttemptStep
  BY AttemptSteps
<1>2. CASE att' = att
  BY <1>2 DEF Started
<1>3. ASSUME NEW r \in Requests, Accepted(req[r]), Create(req[r])
      PROVE  Started'
  <2>1. /\ req[r].bundle \in Bundles /\ req[r].bundle \notin Begun
        /\ \A b \in Bundles \ {req[r].bundle} : att'[b] = att[b]
        /\ att'[req[r].bundle].earlier = Begun /\ att'[req[r].bundle].status # "none"
    BY <1>3 DEF TypeOK, RequestRecord, Accepted, Create, Begun
  <2>2. \A w \in Weeklies : att[w].earlier \subseteq Begun
    BY DEF Started, Begun, TypeOK, AttemptRecord, Bundles
  <2>3. \A v \in Begun : /\ v \in Weeklies /\ v # req[r].bundle /\ att'[v] = att[v]
                         /\ att[v].status # "none"
    BY <2>1 DEF Begun, Bundles
  <2>4. ASSUME NEW w \in Weeklies, NEW v \in att'[w].earlier
        PROVE  v \in Begun /\ v # w /\ att'[v].earlier \subseteq att'[w].earlier /\ w \notin att'[v].earlier
    <3>1. CASE w = req[r].bundle
      BY <2>1, <2>2, <2>3, <2>4, <3>1
    <3>2. CASE w # req[r].bundle
      <4>1. att'[w] = att[w]
        BY <2>1, <3>2 DEF Bundles
      <4>2. QED
        BY <2>2, <2>3, <2>4, <4>1 DEF Started
    <3>3. QED
      BY <3>1, <3>2
  <2>5. QED
    BY <2>3, <2>4 DEF Started
<1>4. ASSUME NEW b \in Bundles, att[b].status = "in_progress",
             att' = [att EXCEPT ![b].status = "submitted", ![b].submitted = now]
      PROVE  Started'
  <2>1. \A w \in Weeklies : /\ att'[w].earlier = att[w].earlier
                            /\ att[w].status # "none" => att'[w].status # "none"
    BY <1>4 DEF TypeOK, AttemptRecord, Bundles
  <2>2. \A w \in Weeklies : att[w].earlier \subseteq Weeklies
    BY DEF TypeOK, AttemptRecord, Bundles
  <2>3. QED
    BY <2>1, <2>2 DEF Started
<1>5. QED
  BY <1>1, <1>2, <1>3, <1>4 DEF AttemptStep

LEMMA SubmissionsStep ==
  ASSUME TypeOK, Submissions, [Next]_vars
  PROVE  Submissions'
<1>1. now' \in Nat /\ now \in Nat /\ now <= now'
  <2>1. now \in Nat
    BY BoundAssumption DEF TypeOK
  <2>2. now' = now \/ now' = now + 1
    BY DEF Next, vars, attempts, bank, Read, StartWeekly, StartMonthly, Drop,
           Save, Submit, Resubmit, Sweep, ChangeStanding, ChangeKey, Tick
  <2>3. QED
    BY <2>1, <2>2
<1>2. \A b \in Bundles : att'[b].status = "submitted" =>
        att'[b].submitted = now \/ (att[b].status = "submitted" /\ att'[b].submitted = att[b].submitted)
  <2>1. AttemptStep
    BY AttemptSteps
  <2>2. CASE att' = att
    BY <2>2 DEF Submissions
  <2>3. ASSUME NEW r \in Requests, Accepted(req[r]), Create(req[r]), NEW b \in Bundles,
               att'[b].status = "submitted"
        PROVE  att'[b] = att[b]
    BY <2>3 DEF TypeOK, RequestRecord, Accepted, Create
  <2>4. ASSUME NEW c \in Bundles, NEW b \in Bundles,
               att' = [att EXCEPT ![c].status = "submitted", ![c].submitted = now]
        PROVE  att'[b] = att[b] \/ att'[b].submitted = now
    BY <2>4 DEF TypeOK, AttemptRecord
  <2>5. QED
    BY <2>1, <2>2, <2>3, <2>4 DEF AttemptStep
<1>3. \A b \in Bundles : att[b].submitted \in Nat
  BY BoundAssumption DEF TypeOK, AttemptRecord
<1>4. QED
  BY <1>1, <1>2, <1>3 DEF Submissions

\* Every item is of a type the steps below can rely on.
LEMMA ItemType ==
  ASSUME TypeOK, NEW q \in Questions
  PROVE  item[q] \in ItemRecord /\ item[q].due \in Nat /\ now \in Nat
BY BoundAssumption DEF TypeOK, ItemRecord

LEMMA SourcesStep ==
  ASSUME TypeOK, QueueInv, [Next]_vars
  PROVE  Sources'
<1> SUFFICES ASSUME NEW q \in Questions, item'[q].status # "none"
             PROVE  /\ item'[q].source \in Weeklies
                    /\ att'[item'[q].source].status = "submitted"
                    /\ att'[item'[q].source].exam = item'[q].exam
                    /\ att'[item'[q].source].submitted < item'[q].due
  BY DEF Sources
<1>1. ItemStep(q)
  BY QueueSteps
<1>2. \A b \in Bundles : att[b].status = "submitted" => att'[b] = att[b]
  BY AttemptsProgress DEF QueueInv
<1>3. CASE /\ item[q].status # "none"
           /\ item'[q].source = item[q].source
           /\ item'[q].exam = item[q].exam
           /\ item'[q].due = item[q].due
  BY <1>2, <1>3 DEF QueueInv, Sources, Bundles
<1>4. ASSUME NEW w \in Weeklies, att[w].status # "none", att'[w].status = "submitted",
             item'[q] = Queued(w)
      PROVE  /\ item'[q].source \in Weeklies
             /\ att'[item'[q].source].status = "submitted"
             /\ att'[item'[q].source].exam = item'[q].exam
             /\ att'[item'[q].source].submitted < item'[q].due
  <2>1. att'[w].exam = att[w].exam
    BY <1>4, AttemptsProgress DEF QueueInv, Bundles
  <2>2. att'[w].submitted <= now
    <3>1. CASE att[w].status = "submitted"
      BY <1>2, <3>1 DEF QueueInv, Submissions, Bundles
    <3>2. CASE att[w].status # "submitted"
      <4>1. AttemptStep
        BY AttemptSteps
      <4>2. att' # att
        BY <1>4, <3>2
      <4>3. ASSUME NEW r \in Requests, Accepted(req[r]), Create(req[r])
            PROVE  FALSE
        BY <1>4, <3>2, <4>3 DEF TypeOK, RequestRecord, Accepted, Create, Bundles
      <4>4. ASSUME NEW b \in Bundles,
                   att' = [att EXCEPT ![b].status = "submitted", ![b].submitted = now]
            PROVE  att'[w].submitted = now
        BY <1>4, <3>2, <4>4 DEF TypeOK, AttemptRecord, Bundles
      <4>5. att'[w].submitted = now
        BY <4>1, <4>2, <4>3, <4>4 DEF AttemptStep
      <4>6. now \in Nat
        BY BoundAssumption DEF TypeOK
      <4>7. QED
        BY <4>5, <4>6
    <3>3. QED
      BY <3>1, <3>2
  <2>3. att'[w].submitted \in Nat /\ now \in Nat
    <3>1. TypeOK'
      BY TypeStep
    <3>2. QED
      BY <3>1, BoundAssumption DEF TypeOK, AttemptRecord, Bundles
  <2>4. QED
    BY <1>4, <2>1, <2>2, <2>3 DEF Queued
<1>5. item[q] \in ItemRecord
  BY ItemType
<1>6. QED
  BY <1>1, <1>3, <1>4, <1>5 DEF ItemStep, ItemRecord

\* What is spent stays spent: an item is replaced by a newer mistake only.
LEMMA SpentStep ==
  ASSUME TypeOK, QueueInv, [Next]_vars, NEW q \in Questions, NEW w \in Weeklies,
         att[w].status = "submitted", Spent(q, w)
  PROVE  Spent(q, w)'
<1>1. ItemStep(q) /\ item[q] \in ItemRecord
  BY QueueSteps, ItemType
<1>2. item[q].source \in Weeklies
  BY DEF Spent, QueueInv, Sources
<1>3. \A v, u \in Weeklies : Newer(v, u) => Newer(v, u)'
  BY NewerIsStable DEF QueueInv
<1>4. CASE item'[q] = item[q]
  BY <1>2, <1>3, <1>4 DEF Spent, Newer
<1>5. ASSUME item[q].status = "pending", item'[q].status # "none",
             item'[q].source = item[q].source
      PROVE  Spent(q, w)'
  <2>1. Newer(item[q].source, w)
    BY <1>5 DEF Spent
  <2>2. QED
    BY <1>2, <1>3, <1>5, <2>1 DEF Spent, Newer
<1>6. ASSUME NEW v \in Weeklies, Displaces(v, q), item'[q] = Queued(v)
      PROVE  Spent(q, w)'
  <2>1. Newer(v, item[q].source)
    BY <1>6 DEF Displaces, Spent
  <2>2. Newer(v, w)
    BY <1>2, <2>1, NewerIsAnOrder DEF Spent, QueueInv
  <2>3. item'[q].source = v /\ item'[q].status # "none"
    BY <1>6 DEF Queued
  <2>4. QED
    BY <1>3, <2>2, <2>3 DEF Spent, Newer
<1>7. QED
  BY <1>1, <1>4, <1>5, <1>6 DEF ItemStep, ItemRecord

LEMMA TailsStep ==
  ASSUME TypeOK, QueueInv, ReviewsStayInExam, [Next]_vars
  PROVE  TailsAreSpent' /\ ReviewsStayInExam'
<1> SUFFICES ASSUME NEW m \in Monthlies, NEW q \in Questions, tail'[m][q] # None
             PROVE  /\ att'[m].status # "none"
                    /\ att'[tail'[m][q]].status = "submitted"
                    /\ att'[tail'[m][q]].exam = att'[m].exam
                    /\ Spent(q, tail[m][q])'
  BY DEF TailsAreSpent, ReviewsStayInExam, Spent, Newer
<1>1. TailStep(m, q)
  BY QueueSteps
<1>2. \A b \in Bundles : /\ att[b].status = "submitted" => att'[b] = att[b]
                         /\ att[b].status # "none" => /\ att'[b].status # "none"
                                                      /\ att'[b].exam = att[b].exam
  BY AttemptsProgress DEF QueueInv
<1>3. CASE tail'[m][q] = tail[m][q]
  <2> DEFINE w == tail[m][q]
  <2>1. w \in Weeklies
    BY <1>3 DEF TypeOK
  <2>2. att[m].status # "none" /\ att[w].status = "submitted" /\ Spent(q, w)
        /\ att[w].exam = att[m].exam
    BY <1>3 DEF QueueInv, TailsAreSpent, ReviewsStayInExam
  <2>3. Spent(q, w)'
    <3>1. \A u \in Weeklies : att[u].status = "submitted" /\ Spent(q, u) => Spent(q, u)'
      BY SpentStep
    <3>2. PICK u \in Weeklies : u = w /\ u = tail'[m][q]
      BY <1>3, <2>1
    <3>3. Spent(q, u)'
      BY <2>2, <3>1, <3>2
    <3>4. QED
      BY <1>3, <3>2, <3>3 DEF Spent, Newer
  <2>4. QED
    BY <1>2, <1>3, <2>1, <2>2, <2>3 DEF Bundles, Spent, Newer
<1>4. CASE /\ att'[m].status # "none"
           /\ Due(q, att'[m].exam)
           /\ tail'[m][q] = item[q].source
           /\ item'[q] = [item[q] EXCEPT !.status = "consumed"]
  <2>1. item[q].status = "pending" /\ item[q].exam = att'[m].exam
    BY <1>4 DEF Due
  <2>2. item[q].source \in Weeklies /\ att[item[q].source].status = "submitted"
        /\ att[item[q].source].exam = item[q].exam
    BY <2>1 DEF QueueInv, Sources
  <2>3. item'[q].status = "consumed" /\ item'[q].source = item[q].source
    BY <1>4, ItemType DEF ItemRecord
  <2>4. Spent(q, tail[m][q])'
    BY <1>4, <2>3 DEF Spent
  <2>5. QED
    BY <1>2, <1>4, <2>1, <2>2, <2>4 DEF Bundles
<1>5. QED
  BY <1>1, <1>3, <1>4 DEF TailStep

\* A tail takes pending items only, and one attempt starts at a time.
LEMMA OnceStep ==
  ASSUME TypeOK, QueueInv, OneReviewPerMistake, [Next]_vars
  PROVE  OneReviewPerMistake'
<1>1. ASSUME NEW m \in Monthlies, NEW n \in Monthlies,
             att[m].status = "none", att'[m].status # "none",
             att[n].status = "none", att'[n].status # "none"
      PROVE  m = n
  <2>1. AttemptStep /\ att' # att
    BY <1>1, AttemptSteps
  <2>2. ASSUME NEW r \in Requests, Accepted(req[r]), Create(req[r])
        PROVE  m = n
    BY <1>1, <2>2 DEF TypeOK, RequestRecord, Accepted, Create, Bundles
  <2>3. ASSUME NEW b \in Bundles, att[b].status = "in_progress",
               att' = [att EXCEPT ![b].status = "submitted", ![b].submitted = now]
        PROVE  FALSE
    BY <1>1, <2>3 DEF TypeOK, Bundles
  <2>4. QED
    BY <2>1, <2>2, <2>3 DEF AttemptStep
<1>2. ASSUME NEW m \in Monthlies, NEW n \in Monthlies, NEW q \in Questions,
             Due(q, att'[m].exam), tail'[m][q] = item[q].source, tail'[n][q] = tail[n][q]
      PROVE  tail'[m][q] # tail'[n][q]
  <2>1. item[q].status = "pending" /\ item[q].source \in Weeklies /\ item[q].source # None
    BY <1>2, NoneAssumption DEF Due, QueueInv, Sources, Bundles
  <2>2. ~Spent(q, item[q].source)
    BY <2>1, NewerIsAnOrder DEF Spent, QueueInv
  <2>3. QED
    BY <1>2, <2>1, <2>2 DEF QueueInv, TailsAreSpent
<1>3. \A m \in Monthlies, q \in Questions : TailStep(m, q)
  BY QueueSteps
<1>4. ASSUME NEW m \in Monthlies, NEW n \in Monthlies, NEW q \in Questions,
             tail'[m][q] # None, tail'[m][q] = tail'[n][q]
      PROVE  m = n
  <2>1. TailStep(m, q) /\ TailStep(n, q)
    BY <1>3
  <2>2. CASE tail'[m][q] = tail[m][q] /\ tail'[n][q] = tail[n][q]
    BY <1>4, <2>2 DEF OneReviewPerMistake
  <2>3. CASE tail'[m][q] # tail[m][q] /\ tail'[n][q] = tail[n][q]
    BY <1>2, <1>4, <2>1, <2>3 DEF TailStep
  <2>4. CASE tail'[m][q] = tail[m][q] /\ tail'[n][q] # tail[n][q]
    BY <1>2, <1>4, <2>1, <2>4 DEF TailStep
  <2>5. CASE tail'[m][q] # tail[m][q] /\ tail'[n][q] # tail[n][q]
    BY <1>1, <1>4, <2>1, <2>5 DEF TailStep
  <2>6. QED
    BY <2>2, <2>3, <2>4, <2>5
<1>5. QED
  BY <1>4 DEF OneReviewPerMistake

LEMMA OwingStep ==
  ASSUME TypeOK, QueueInv, [Next]_vars
  PROVE  Owing'
<1>1. \A w \in Weeklies : \A q \in owed'[w] : OwedStep(w, q)
  BY QueueSteps
<1>2. \A w \in Weeklies : att[w].status = "submitted" => att'[w] = att[w]
  BY AttemptsProgress DEF QueueInv, Bundles
<1>3. QED
  BY <1>1, <1>2 DEF Owing, QueueInv, OwedStep

LEMMA KeptStep ==
  ASSUME TypeOK, QueueInv, MistakesAreKept, [Next]_vars
  PROVE  MistakesAreKept'
<1>1. ASSUME NEW w \in Weeklies, NEW q \in owed'[w]
      PROVE  item'[q].status # "none" /\ ~Newer(w, item[q].source)'
  <2>1. q \in Questions /\ OwedStep(w, q) /\ ItemStep(q) /\ item[q] \in ItemRecord
    <3>1. TypeOK'
      BY TypeStep
    <3>2. q \in Questions
      BY <3>1 DEF TypeOK
    <3>3. QED
      BY <3>2, QueueSteps, ItemType
  <2>2. \A v, u \in Weeklies : att[v].status # "none" => (Newer(v, u) <=> Newer(v, u)')
    BY NewerIsStable DEF QueueInv
  <2>3. att[w].status # "none"
    BY <2>1 DEF OwedStep, QueueInv, Owing
  <2>4. ASSUME item[q].status # "none", ~Newer(w, item[q].source),
               item'[q].status # "none", item'[q].source = item[q].source
        PROVE  item'[q].status # "none" /\ ~Newer(w, item[q].source)'
    <3>1. item[q].source \in Weeklies
      BY <2>1, <2>4 DEF QueueInv, Sources
    <3>2. QED
      BY <2>2, <2>3, <2>4, <3>1 DEF Newer
  <2>5. ASSUME NEW v \in Weeklies, item'[q] = Queued(v), ~Newer(w, v)
        PROVE  item'[q].status # "none" /\ ~Newer(w, item[q].source)'
    <3>1. item'[q].status # "none" /\ item'[q].source = v
      BY <2>5 DEF Queued
    <3>2. QED
      BY <2>2, <2>3, <2>5, <3>1 DEF Newer
  <2>6. CASE q \in owed[w]
    <3>1. item[q].status # "none" /\ ~Newer(w, item[q].source)
      BY <2>6 DEF MistakesAreKept
    <3>2. ASSUME NEW v \in Weeklies, Displaces(v, q), item'[q] = Queued(v)
          PROVE  ~Newer(w, v)
      <4>1. Newer(v, item[q].source) /\ item[q].source \in Weeklies
        BY <2>1, <3>1, <3>2 DEF Displaces, QueueInv, Sources
      <4>2. QED
        BY <3>1, <4>1, NewerIsAnOrder DEF QueueInv
    <3>3. QED
      BY <2>1, <2>4, <2>5, <3>1, <3>2 DEF ItemStep, ItemRecord
  <2>7. CASE Displaces(w, q) /\ item'[q] = Queued(w)
    BY <2>5, <2>7, NewerIsAnOrder DEF QueueInv
  <2>8. CASE ~Displaces(w, q) /\ item'[q] = item[q]
    BY <2>4, <2>8 DEF Displaces
  <2>9. QED
    BY <2>1, <2>6, <2>7, <2>8 DEF OwedStep
<1>2. ASSUME NEW q \in Questions, item'[q].status = "consumed"
      PROVE  \E m \in Monthlies : tail'[m][q] = item'[q].source
  <2>1. ItemStep(q) /\ item[q] \in ItemRecord /\ \A m \in Monthlies : TailStep(m, q)
    BY <1>2, QueueSteps, ItemType
  <2>2. CASE item'[q] = item[q]
    <3>1. PICK m \in Monthlies : tail[m][q] = item[q].source
      BY <1>2, <2>2 DEF MistakesAreKept
    <3>2. item[q].source \in Weeklies
      BY <1>2, <2>2 DEF QueueInv, Sources
    <3>3. att[m].status # "none"
      BY <3>1, <3>2, NoneAssumption DEF QueueInv, TailsAreSpent, Bundles
    <3>4. QED
      BY <2>1, <2>2, <3>1, <3>3 DEF TailStep
  <2>3. ASSUME NEW m \in Monthlies, tail'[m][q] = item[q].source,
               item'[q] = [item[q] EXCEPT !.status = "consumed"]
        PROVE  tail'[m][q] = item'[q].source
    BY <2>1, <2>3 DEF ItemRecord
  <2>4. item'[q] # [item[q] EXCEPT !.status = "expired"]
    BY <1>2, <2>1 DEF ItemRecord
  <2>5. \A w \in Weeklies : item'[q] # Queued(w)
    BY <1>2 DEF Queued
  <2>6. QED
    BY <2>1, <2>2, <2>3, <2>4, <2>5 DEF ItemStep
<1>3. QED
  BY <1>1, <1>2 DEF MistakesAreKept, Newer

LEMMA AskedStep ==
  ASSUME TypeOK, Asked, [Next]_vars
  PROVE  Asked'
<1>1. CASE req' = req
  BY <1>1 DEF Asked
<1>2. ASSUME NEW r \in Requests, req' = [req EXCEPT ![r] = NoRequest]
      PROVE  Asked'
  BY <1>2 DEF Asked, TypeOK, NoRequest
<1>3. ASSUME NEW r \in Requests, NEW b \in Bundles, NEW x \in Exams, Read(r, b, x)
      PROVE  Asked'
  <2>1. PICK t \in SUBSET Questions :
          /\ b \in Weeklies => t = {}
          /\ req' = [req EXCEPT ![r] = [bundle |-> b, exam |-> x, tail |-> t,
               keys |-> [q \in Questions |-> IF q \in Members[b] \cup t THEN key[q] ELSE None]]]
    BY <1>3, BundleAssumption DEF Read
  <2>2. \A q \in Questions : key[q] # None
    BY NoneAssumption DEF TypeOK
  <2>3. /\ \A s \in Requests \ {r} : req'[s] = req[s]
        /\ req'[r].bundle = b /\ req'[r].tail = t
        /\ \A q \in Questions : req'[r].keys[q] = IF q \in Members[b] \cup t THEN key[q] ELSE None
    BY <2>1 DEF TypeOK
  <2>4. QED
    BY <2>1, <2>2, <2>3 DEF Asked
<1>4. QED
  BY <1>1, <1>2, <1>3 DEF Next, vars, StartWeekly, StartMonthly, Drop, Save, Submit, Resubmit,
                          Sweep, ChangeStanding, ChangeKey, Tick

LEMMA AnswersStep ==
  ASSUME TypeOK, ConfirmedAnswersCount, [Next]_vars
  PROVE  ConfirmedAnswersCount'
<1>1. CASE UNCHANGED <<att, frozen, sheet, confirmed, right>>
  BY <1>1 DEF ConfirmedAnswersCount, Correct, Rows
<1>2. ASSUME NEW r \in Requests, Accepted(req[r]), Create(req[r]), UNCHANGED <<sheet, confirmed, right>>
      PROVE  ConfirmedAnswersCount'
  <2>1. /\ req[r].bundle \in Bundles
        /\ att'[req[r].bundle].status = "in_progress"
        /\ \A b \in Bundles \ {req[r].bundle} : att'[b] = att[b] /\ frozen'[b] = frozen[b]
    BY <1>2 DEF TypeOK, RequestRecord, Accepted, Create
  <2>2. QED
    BY <1>2, <2>1 DEF ConfirmedAnswersCount, Correct, Rows
<1>3. ASSUME NEW b \in Bundles, Submit(b)
      PROVE  ConfirmedAnswersCount'
  <2>1. /\ right'[b] = Correct(b) /\ UNCHANGED <<frozen, sheet, confirmed>>
        /\ \A c \in Bundles \ {b} : att'[c] = att[c] /\ right'[c] = right[c]
    BY <1>3 DEF Submit, TypeOK
  <2>2. QED
    BY <2>1 DEF ConfirmedAnswersCount, Correct, Rows
<1>4. ASSUME NEW b \in Bundles, NEW q \in Questions, NEW n \in 1..MaxSeq[b],
             NEW o \in Options \cup {None}, Save(b, q, n, o)
      PROVE  ConfirmedAnswersCount'
  <2>1. sheet' = confirmed'
    BY <1>4 DEF Save, Fresh, ConfirmedAnswersCount
  <2>2. /\ att[b].status = "in_progress" /\ UNCHANGED <<att, frozen, right>>
        /\ \A c \in Bundles \ {b} : sheet'[c] = sheet[c]
    BY <1>4 DEF Save, TypeOK
  <2>3. QED
    BY <2>1, <2>2 DEF ConfirmedAnswersCount, Correct, Rows
<1>5. QED
  BY <1>1, <1>2, <1>3, <1>4 DEF Next, vars, attempts, bank, Read, StartWeekly, StartMonthly, Drop,
                                Resubmit, Sweep, ChangeStanding, ChangeKey, Tick
-----------------------------------------------------------------------------
(* Theorems *)

LEMMA Initially == Init => IInv
<1> SUFFICES ASSUME Init PROVE IInv
  OBVIOUS
<1>1. TypeOK
  <2>1. NotStarted \in AttemptRecord /\ Blank \in Answer /\ NoItem \in ItemRecord
        /\ NoRequest \in RequestRecord
    BY BoundAssumption DEF NotStarted, AttemptRecord, Blank, Answer, NoItem, ItemRecord,
                           NoRequest, RequestRecord
  <2>2. key \in [Questions -> Options]
    BY DEF Init
  <2>3. QED
    BY <2>1, <2>2, BoundAssumption DEF Init, TypeOK
<1>2. QueueInv
  BY DEF Init, QueueInv, Started, Submissions, Sources, TailsAreSpent, Owing, NotStarted, NoItem,
         Bundles
<1>3. /\ Asked /\ MistakesAreKept /\ OneReviewPerMistake
      /\ ReviewsStayInExam /\ ConfirmedAnswersCount
  BY DEF Init, Asked, MistakesAreKept, OneReviewPerMistake, ReviewsStayInExam,
         ConfirmedAnswersCount, NoRequest,
         NotStarted, NoItem
<1>4. QED
  BY <1>1, <1>2, <1>3 DEF IInv

LEMMA Preserved == IInv /\ [Next]_vars => IInv'
<1> SUFFICES ASSUME IInv, [Next]_vars PROVE IInv'
  OBVIOUS
<1>1. /\ TypeOK /\ QueueInv /\ Asked /\ MistakesAreKept /\ OneReviewPerMistake
      /\ ReviewsStayInExam /\ ConfirmedAnswersCount
  BY DEF IInv
<1>2. Started' /\ Submissions' /\ Sources' /\ Owing'
  BY <1>1, StartedStep, SubmissionsStep, SourcesStep, OwingStep DEF QueueInv
<1>3. TailsAreSpent' /\ ReviewsStayInExam'
  BY <1>1, TailsStep
<1>4. MistakesAreKept' /\ OneReviewPerMistake' /\ Asked' /\ ConfirmedAnswersCount'
  BY <1>1, KeptStep, OnceStep, AskedStep, AnswersStep
<1>5. QED
  BY <1>1, <1>2, <1>3, <1>4, TypeStep DEF IInv, QueueInv

LEMMA Invariance == Spec => []IInv
BY Initially, Preserved, PTL DEF Spec

\* Type correctness for every number of bundles, questions, requests and
\* saves: no due date is further ahead than one wait.
THEOREM TypeCorrect == Spec => []TypeOK
<1>1. IInv => TypeOK
  BY DEF IInv
<1>2. QED
  BY <1>1, Invariance, PTL

\* A mistake is repeated in one monthly attempt at most
\* (ca_start_monthly_current_affairs_attempt_guarded beside itself, beside
\* replays and beside newer submissions).
THEOREM ReviewedOnce == Spec => []OneReviewPerMistake
<1>1. IInv => OneReviewPerMistake
  BY DEF IInv
<1>2. QED
  BY <1>1, Invariance, PTL

\* No mistake that had to be enqueued is lost (ca_enqueue_weekly_retry_items).
THEOREM NothingForgotten == Spec => []MistakesAreKept
<1>1. IInv => MistakesAreKept
  BY DEF IInv
<1>2. QED
  BY <1>1, Invariance, PTL

\* Mistakes of one exam are not repeated in attempts for another
\* (the exact-exam rule of migration 260).
THEOREM ExamsApart == Spec => []ReviewsStayInExam
<1>1. IInv => ReviewsStayInExam
  BY DEF IInv
<1>2. QED
  BY <1>1, Invariance, PTL

\* An attempt is scored by the newest saves the server called recorded
\* (ca_save_current_affairs_answer, ca_submit_current_affairs_attempt).
THEOREM AnswersCount == Spec => []ConfirmedAnswersCount
<1>1. IInv => ConfirmedAnswersCount
  BY DEF IInv
<1>2. QED
  BY <1>1, Invariance, PTL

\* Whatever was read before it, a start freezes the whole membership with the
\* answer keys of this moment (the checks of the start calls on locked rows).
THEOREM CurrentStarts == Spec => StartsAreCurrent
<1> DEFINE Fine(b) ==
      att[b].status = "none" /\ att'[b].status # "none" =>
        /\ \A q \in Members[b] : frozen'[b][q] # None
        /\ \A q \in Questions : frozen'[b][q] # None => frozen'[b][q] = key[q] /\ Relevant(q)
<1>1. ASSUME IInv, [Next]_vars, NEW b \in Bundles, att[b].status = "none", att'[b].status # "none"
      PROVE  /\ \A q \in Members[b] : frozen'[b][q] # None
             /\ \A q \in Questions : frozen'[b][q] # None => frozen'[b][q] = key[q] /\ Relevant(q)
  <2>1. TypeOK /\ Asked
    BY <1>1 DEF IInv
  <2>2. \A c \in Bundles : att[c].status = "in_progress" => c # b
    BY <1>1
  <2>3. PICK r \in Requests : Accepted(req[r]) /\ Create(req[r])
    <3>1. AttemptStep /\ att' # att
      BY <1>1, AttemptSteps
    <3>2. ASSUME NEW c \in Bundles, att[c].status = "in_progress",
                 att' = [att EXCEPT ![c].status = "submitted", ![c].submitted = now]
          PROVE  FALSE
      BY <1>1, <2>1, <2>2, <3>2 DEF TypeOK
    <3>3. QED
      BY <3>1, <3>2 DEF AttemptStep
  <2>4. req[r].bundle = b
    BY <1>1, <2>1, <2>3 DEF TypeOK, RequestRecord, Accepted, Create
  <2>5. frozen'[b] = req[r].keys
    BY <2>1, <2>3, <2>4 DEF Create, TypeOK
  <2>6. /\ \A q \in Questions : req[r].keys[q] # None <=> q \in Members[b] \cup req[r].tail
        /\ b \in Weeklies => req[r].tail = {}
    BY <2>1, <2>3, <2>4, NoneAssumption DEF Asked, Accepted
  <2>7. /\ \A q \in Members[b] \cup req[r].tail : req[r].keys[q] = key[q]
        /\ \A q \in Members[b] : Relevant(q)
        /\ b \in Monthlies => \A q \in req[r].tail : Relevant(q)
    BY <2>3, <2>4 DEF Accepted, Verified, TailHolds
  <2>8. Members[b] \subseteq Questions
    BY BundleAssumption
  <2>9. QED
    BY <2>5, <2>6, <2>7, <2>8 DEF Bundles
<1>2. IInv /\ [Next]_vars => [\A b \in Bundles : Fine(b)]_vars
  BY <1>1
<1>3. QED
  BY <1>2, Invariance, PTL DEF Spec, StartsAreCurrent

\* A mistake waits before it is repeated (due_at at enqueue and at start).
THEOREM WaitsAWeek == Spec => ReviewsAreSpaced
<1>1. ASSUME IInv, [Next]_vars, NEW m \in Monthlies, NEW q \in Questions,
             tail'[m][q] # None, tail[m][q] = None
      PROVE  att[tail'[m][q]].submitted < now
  <2>1. TypeOK /\ QueueInv
    BY <1>1 DEF IInv
  <2>2. TailStep(m, q)
    BY <1>1, <2>1, QueueSteps
  <2>3. Due(q, att'[m].exam) /\ tail'[m][q] = item[q].source
    BY <1>1, <2>2 DEF TailStep
  <2>4. att[item[q].source].submitted < item[q].due /\ item[q].source \in Weeklies
    BY <2>1, <2>3 DEF Due, QueueInv, Sources
  <2>5. att[item[q].source].submitted \in Nat
    BY <2>1, <2>4, BoundAssumption DEF TypeOK, AttemptRecord, Bundles
  <2>6. item[q].due <= now /\ item[q].due \in Nat /\ now \in Nat
    BY <2>1, <2>3, ItemType DEF Due
  <2>7. QED
    BY <2>3, <2>4, <2>5, <2>6
<1>2. IInv /\ [Next]_vars =>
        [\A m \in Monthlies, q \in Questions : tail'[m][q] # None /\ tail[m][q] = None =>
           att[tail'[m][q]].submitted < now]_vars
  BY <1>1
<1>3. QED
  BY <1>2, Invariance, PTL DEF Spec, ReviewsAreSpaced
=============================================================================
