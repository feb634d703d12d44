-------------------------- MODULE CurrentAffairs ---------------------------
(***************************************************************************)
(* Current-affairs practice of one learner: weekly attempts, the queue of  *)
(* weekly mistakes to retry, and monthly attempts, whose frozen questions  *)
(* are the editorial core of the month plus a tail taken from that queue.  *)
(*                                                                         *)
(*   att        current_affairs_attempts, one per learner and bundle;      *)
(*              earlier is what started_at says: the weekly attempts that  *)
(*              had started when this one did                              *)
(*   frozen     current_affairs_attempt_responses: the answer key frozen   *)
(*              in the snapshot of each row of an attempt                  *)
(*   sheet      the answer saved in each row, with its client_seq          *)
(*   confirmed  (history) the newest save the server called recorded       *)
(*   right      the rows scored correct at submission                      *)
(*   item       current_affairs_retry_items, one per learner and question; *)
(*              the source_* columns are those of the attempt in source    *)
(*   tail       the retry_tail rows of a monthly attempt, with (history)   *)
(*              the weekly attempt whose mistake each one repeats          *)
(*   owed       (history) the mistakes a weekly attempt had to enqueue     *)
(*   key        the answer key of each question in the bank                *)
(*   sound      whether a question is promoted, reviewed and grounded:     *)
(*              every linked claim verified, current and officially        *)
(*              sourced, its event active                                  *)
(*   now        the time, in units of the seven days a mistake waits       *)
(*   req        start requests under way, in any process: what each read   *)
(*              and will pass to the start call                            *)
(*                                                                         *)
(* An RPC is one transaction and one action. Bundles are published, which  *)
(* fixes their membership; whether one is servable only decides if a start *)
(* is accepted, and a learner may start at any moment or never.            *)
(***************************************************************************)
EXTENDS Naturals, FiniteSets

CONSTANTS
  Weeklies,     \* weekly bundles, each naming the learner's attempt at it
  Monthlies,    \* monthly bundles, likewise
  Questions,
  Options,      \* the options of a question
  Members,      \* the questions of a bundle
  PeriodEnd,    \* the period_end of a weekly bundle
  ValidUntil,   \* when the relevance window of a question closes
  Exams,
  Requests,     \* start requests that may be under way at once
  Cap,          \* questions of a retry tail, 10 in the code
  None,         \* null
  MaxSeq,       \* bound: saves a learner makes of one answer, by bundle
  MaxTime,      \* bound: the clock
  MaxEdits      \* bound: editorial changes of questions

Bundles == Weeklies \cup Monthlies

ASSUME BundleAssumption ==
  /\ Weeklies \cap Monthlies = {}
  /\ Members \in [Bundles -> SUBSET Questions]
  /\ PeriodEnd \in [Weeklies -> Nat]
ASSUME QuestionAssumption == ValidUntil \in [Questions -> Nat]
ASSUME NoneAssumption == None \notin Bundles \cup Options \cup Exams
ASSUME BoundAssumption ==
  /\ Cap \in Nat /\ MaxTime \in Nat /\ MaxEdits \in Nat
  /\ MaxSeq \in [Bundles -> Nat]

VARIABLES att, frozen, sheet, confirmed, right, item, tail, owed,
          key, sound, edits, now, req

attempts == <<att, frozen, sheet, confirmed, right, tail, owed>>
bank == <<key, sound, edits>>
vars == <<attempts, item, bank, now, req>>

NotStarted == [status |-> "none", exam |-> None, earlier |-> {}, submitted |-> 0]
Blank == [option |-> None, seq |-> 0]
NoItem == [status |-> "none", source |-> None, exam |-> None, due |-> 0]
NoRequest == [bundle |-> None, exam |-> None, tail |-> {},
              keys |-> [q \in Questions |-> None]]

AttemptRecord == [status : {"none", "in_progress", "submitted"},
                  exam : Exams \cup {None}, earlier : SUBSET Weeklies,
                  submitted : 0..MaxTime]
Answer == [option : Options \cup {None}, seq : Nat]
ItemRecord == [status : {"none", "pending", "consumed", "expired"},
               source : Weeklies \cup {None}, exam : Exams \cup {None},
               due : 0..MaxTime + 1]
RequestRecord == [bundle : Bundles \cup {None}, exam : Exams \cup {None},
                  tail : SUBSET Questions,
                  keys : [Questions -> Options \cup {None}]]

TypeOK ==
  /\ att \in [Bundles -> AttemptRecord]
  /\ frozen \in [Bundles -> [Questions -> Options \cup {None}]]
  /\ sheet \in [Bundles -> [Questions -> Answer]]
  /\ confirmed \in [Bundles -> [Questions -> Answer]]
  /\ right \in [Bundles -> SUBSET Questions]
  /\ item \in [Questions -> ItemRecord]
  /\ tail \in [Monthlies -> [Questions -> Weeklies \cup {None}]]
  /\ owed \in [Weeklies -> SUBSET Questions]
  /\ key \in [Questions -> Options]
  /\ sound \in [Questions -> BOOLEAN]
  /\ edits \in 0..MaxEdits
  /\ now \in 0..MaxTime
  /\ req \in [Requests -> RequestRecord]

Init ==
  /\ att = [b \in Bundles |-> NotStarted]
  /\ frozen = [b \in Bundles |-> [q \in Questions |-> None]]
  /\ sheet = [b \in Bundles |-> [q \in Questions |-> Blank]]
  /\ confirmed = sheet
  /\ right = [b \in Bundles |-> {}]
  /\ item = [q \in Questions |-> NoItem]
  /\ tail = [m \in Monthlies |-> [q \in Questions |-> None]]
  /\ owed = [w \in Weeklies |-> {}]
  /\ \E o \in Options : key = [q \in Questions |-> o]
  /\ sound = [q \in Questions |-> TRUE]
  /\ edits = 0
  /\ now = 0
  /\ req = [r \in Requests |-> NoRequest]

-----------------------------------------------------------------------------
(* Reading the tables *)

\* ca_question_current_relevant
Relevant(q) == sound[q] /\ now < ValidUntil[q]

Rows(b) == {q \in Questions : frozen[b][q] # None}

\* The order of (source_period_end, source_started_at).
Newer(v, w) == \/ PeriodEnd[w] < PeriodEnd[v]
               \/ PeriodEnd[w] = PeriodEnd[v] /\ w \in att[v].earlier

\* (mutant) the exam is forgotten.
DueInAnyExam(q, x) ==
  item[q].status = "pending" /\ item[q].due <= now /\ now < ValidUntil[q]

\* ca_eligible_retry_tail: expires_at is the question's valid_until.
Due(q, x) == /\ item[q].status = "pending"
             /\ item[q].exam = x
             /\ item[q].due <= now
             /\ now < ValidUntil[q]

\* The questions a monthly start takes: oldest due first, up to the cap.
IsTail(t, x, b) ==
  LET eligible == {q \in Questions \ Members[b] : Due(q, x) /\ Relevant(q)}
  IN /\ t \subseteq eligible
     /\ Cardinality(t) <= Cap
     /\ t # eligible => /\ Cardinality(t) = Cap
                        /\ \A q \in t, p \in eligible \ t : item[q].due <= item[p].due

-----------------------------------------------------------------------------
(* Starting an attempt *)

\* A start reads the bundle's questions, the eligible tail and the bank rows
\* to freeze, in separate calls taken as one: the start call checks each part
\* on its own against what it locks. The checks a start makes on the way are
\* repeated by that call and end the request early, like Drop. A request for an
\* attempt that exists already only gets it back, so none is begun here.
Read(r, b, x) ==
  /\ req[r] = NoRequest
  /\ att[b].status = "none"
  /\ \E t \in SUBSET Questions :
       /\ IF b \in Monthlies THEN IsTail(t, x, b) ELSE t = {}
       /\ req' = [req EXCEPT ![r] =
            [bundle |-> b, exam |-> x, tail |-> t,
             keys |-> [q \in Questions |->
                         IF q \in Members[b] \cup t THEN key[q] ELSE None]]]
  /\ UNCHANGED <<attempts, item, bank, now>>

\* (mutant) the caller is trusted with the rows it froze.
VerifiedMembership(c) ==
  /\ Members[c.bundle] # {}
  /\ \A q \in Members[c.bundle] : Relevant(q)

\* The core is the bundle's whole membership, none of it degraded, and every
\* frozen row matches the locked bank row.
Verified(c) ==
  /\ Members[c.bundle] # {}
  /\ \A q \in Members[c.bundle] : Relevant(q)
  /\ \A q \in Members[c.bundle] \cup c.tail : c.keys[q] = key[q]

\* (mutant) the caller is trusted with what it read from the queue.
TailAsRead(c) == Cardinality(c.tail) <= Cap

\* Each tail question is an item of the attempt's exam that is still pending,
\* due and relevant.
TailHolds(c) ==
  /\ Cardinality(c.tail) <= Cap
  /\ \A q \in c.tail : q \notin Members[c.bundle] /\ Due(q, c.exam) /\ Relevant(q)

Accepted(c) ==
  /\ c.bundle # None
  /\ att[c.bundle].status = "none"
  /\ Verified(c)
  /\ c.bundle \in Monthlies => TailHolds(c)

Begun == {w \in Weeklies : att[w].status # "none"}

Create(c) ==
  /\ att' = [att EXCEPT ![c.bundle] =
       [status |-> "in_progress", exam |-> c.exam, earlier |-> Begun, submitted |-> 0]]
  /\ frozen' = [frozen EXCEPT ![c.bundle] = c.keys]

\* ca_start_current_affairs_attempt
StartWeekly(r) ==
  /\ Accepted(req[r]) /\ req[r].bundle \in Weeklies
  /\ Create(req[r])
  /\ req' = [req EXCEPT ![r] = NoRequest]
  /\ UNCHANGED <<sheet, confirmed, right, item, tail, owed, bank, now>>

\* ca_start_monthly_current_affairs_attempt_guarded: the tail's items are
\* consumed with the start.
StartMonthly(r) ==
  /\ Accepted(req[r]) /\ req[r].bundle \in Monthlies
  /\ Create(req[r])
  /\ tail' = [tail EXCEPT ![req[r].bundle] =
       [q \in Questions |-> IF q \in req[r].tail THEN item[q].source ELSE None]]
  /\ item' = [q \in Questions |-> IF q \in req[r].tail
                                  THEN [item[q] EXCEPT !.status = "consumed"]
                                  ELSE item[q]]
  /\ req' = [req EXCEPT ![r] = NoRequest]
  /\ UNCHANGED <<sheet, confirmed, right, owed, bank, now>>

\* The start call answers with the existing attempt or an error and writes
\* nothing, or the request dies before it.
Drop(r) ==
  /\ req[r] # NoRequest
  /\ req' = [req EXCEPT ![r] = NoRequest]
  /\ UNCHANGED <<attempts, item, bank, now>>

-----------------------------------------------------------------------------
(* Answering and submitting *)

\* (mutant) only a repeated save is refused.
NotRepeated(b, q, n) == n # sheet[b][q].seq

\* A save is newer than the one stored. Clients count from 1, and a row that
\* was visited holds the number of its save.
Fresh(b, q, n) == n > sheet[b][q].seq

\* ca_save_current_affairs_answer. Saves come from any tab, late, twice and in
\* any order; one that is not fresh is acknowledged and changes nothing.
Save(b, q, n, o) ==
  /\ att[b].status = "in_progress"
  /\ q \in Rows(b)
  /\ Fresh(b, q, n)
  /\ sheet' = [sheet EXCEPT ![b][q] = [option |-> o, seq |-> n]]
  /\ confirmed' = IF n > confirmed[b][q].seq
                  THEN [confirmed EXCEPT ![b][q] = [option |-> o, seq |-> n]]
                  ELSE confirmed
  /\ UNCHANGED <<att, frozen, right, tail, owed, item, bank, now, req>>

Correct(b) == {q \in Rows(b) : sheet[b][q].option = frozen[b][q]}

\* Answered and not correct.
Wrong(b, correct) == {q \in Rows(b) : sheet[b][q].option # None /\ q \notin correct}

\* (mutant) the rule before migration 260: the mistake of any other attempt
\* takes the item over.
FromAnother(w, q) == item[q].status = "none" \/ item[q].source # w

\* A newer mistake takes over the item of an older one.
Displaces(w, q) == item[q].status = "none" \/ Newer(w, item[q].source)

\* (mutant) a waiting item keeps its due date.
EnqueuedEarliest(w, mistakes) ==
  [q \in Questions |->
     IF q \in mistakes /\ Relevant(q) /\ Displaces(w, q)
     THEN [status |-> "pending", source |-> w, exam |-> att[w].exam,
           due |-> IF item[q].status = "pending" THEN item[q].due ELSE now + 1]
     ELSE item[q]]

\* (mutant) the wait is added to the old due date.
EnqueuedLater(w, mistakes) ==
  [q \in Questions |->
     IF q \in mistakes /\ Relevant(q) /\ Displaces(w, q)
     THEN [status |-> "pending", source |-> w, exam |-> att[w].exam,
           due |-> IF item[q].due > now THEN item[q].due + 1 ELSE now + 1]
     ELSE item[q]]

\* ca_enqueue_weekly_retry_items
Enqueued(w, mistakes) ==
  [q \in Questions |->
     IF q \in mistakes /\ Relevant(q) /\ Displaces(w, q)
     THEN [status |-> "pending", source |-> w, exam |-> att[w].exam, due |-> now + 1]
     ELSE item[q]]

\* ca_submit_current_affairs_attempt scores the attempt and, when it is a
\* weekly one, enqueues its mistakes in the same transaction.
Submit(b) ==
  /\ att[b].status = "in_progress"
  /\ att' = [att EXCEPT ![b].status = "submitted", ![b].submitted = now]
  /\ right' = [right EXCEPT ![b] = Correct(b)]
  /\ IF b \in Weeklies
     THEN /\ item' = Enqueued(b, Wrong(b, Correct(b)))
          /\ owed' = [owed EXCEPT ![b] = {q \in Wrong(b, Correct(b)) : Relevant(q)}]
     ELSE UNCHANGED <<item, owed>>
  /\ UNCHANGED <<frozen, sheet, confirmed, tail, bank, now, req>>

\* A repeated submission, or an operator's repair, enqueues again.
Resubmit(w) ==
  /\ att[w].status = "submitted"
  /\ item' = Enqueued(w, Wrong(w, right[w]))
  /\ UNCHANGED <<attempts, bank, now, req>>

-----------------------------------------------------------------------------
(* The daily sweep, the editors and time *)

\* (mutant) the window is forgotten.
StaleStanding(q) == item[q].status = "pending" /\ ~sound[q]

Stale(q) == item[q].status = "pending" /\ ~Relevant(q)

\* ca_sweep_expired_retry_items; expires_at is past only when the window of
\* the question has closed.
Sweep ==
  /\ \E q \in Questions : Stale(q)
  /\ item' = [q \in Questions |-> IF Stale(q) THEN [item[q] EXCEPT !.status = "expired"]
                                  ELSE item[q]]
  /\ UNCHANGED <<attempts, bank, now, req>>

\* A claim is superseded or verified again, a source switched off or on.
ChangeStanding(q) ==
  /\ edits < MaxEdits
  /\ sound' = [sound EXCEPT ![q] = ~sound[q]]
  /\ edits' = edits + 1
  /\ UNCHANGED <<attempts, item, key, now, req>>

\* The bank's answer key is corrected.
ChangeKey(q, o) ==
  /\ edits < MaxEdits /\ key[q] # o
  /\ key' = [key EXCEPT ![q] = o]
  /\ edits' = edits + 1
  /\ UNCHANGED <<attempts, item, sound, now, req>>

Tick ==
  /\ now < MaxTime
  /\ now' = now + 1
  /\ UNCHANGED <<attempts, item, bank, req>>

Next ==
  \/ \E r \in Requests :
       \/ \E b \in Bundles, x \in Exams : Read(r, b, x)
       \/ StartWeekly(r) \/ StartMonthly(r) \/ Drop(r)
  \/ \E b \in Bundles :
       \/ Submit(b)
       \/ \E q \in Questions, n \in 1..MaxSeq[b], o \in Options \cup {None} : Save(b, q, n, o)
  \/ \E w \in Weeklies : Resubmit(w)
  \/ Sweep
  \/ \E q \in Questions :
       \/ ChangeStanding(q)
       \/ \E o \in Options : ChangeKey(q, o)
  \/ Tick

Spec == Init /\ [][Next]_vars

\* The scheduler runs the sweep every night.
FairSpec == Spec /\ WF_vars(Sweep)

-----------------------------------------------------------------------------
(* Properties *)

\* Whatever order saves arrive in, the sheet of an attempt holds the newest
\* save the server called recorded, and a submitted attempt is scored by it.
ConfirmedAnswersCount ==
  /\ sheet = confirmed
  /\ \A b \in Bundles : att[b].status = "submitted" => right[b] = Correct(b)

\* A mistake of a weekly attempt comes back in one monthly attempt at most,
\* however starts, replays and newer mistakes interleave.
OneReviewPerMistake ==
  \A m, n \in Monthlies, q \in Questions :
    tail[m][q] # None /\ tail[m][q] = tail[n][q] => m = n

\* No mistake is lost: the item of a mistake that had to be enqueued is of
\* that attempt or of a newer one, and a consumed item is a row of a tail.
MistakesAreKept ==
  /\ \A w \in Weeklies : \A q \in owed[w] :
       item[q].status # "none" /\ ~Newer(w, item[q].source)
  /\ \A q \in Questions : item[q].status = "consumed" =>
       \E m \in Monthlies : tail[m][q] = item[q].source

\* A mistake made for one exam is reviewed in attempts for that exam only.
ReviewsStayInExam ==
  \A m \in Monthlies, q \in Questions : tail[m][q] # None =>
    att[tail[m][q]].exam = att[m].exam

\* An attempt starts with the bundle's whole membership, all of it relevant,
\* and its rows carry the answer keys the bank has at that moment, although
\* they were read before.
StartsAreCurrent ==
  [][\A b \in Bundles : att[b].status = "none" /\ att'[b].status # "none" =>
       /\ \A q \in Members[b] : frozen'[b][q] # None
       /\ \A q \in Questions : frozen'[b][q] # None => frozen'[b][q] = key[q] /\ Relevant(q)]_vars

\* A mistake is not repeated before a week has passed since the submission
\* it was made in.
ReviewsAreSpaced ==
  [][\A m \in Monthlies, q \in Questions : tail'[m][q] # None /\ tail[m][q] = None =>
       att[tail'[m][q]].submitted < now]_vars

\* An item whose question has left its relevance window leaves the queue.
StaleItemsLeave ==
  \A q \in Questions :
    item[q].status = "pending" /\ now >= ValidUntil[q] ~> item[q].status # "pending"
=============================================================================
