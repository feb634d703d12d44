---------------------------- MODULE MockAttempt ----------------------------
(***************************************************************************)
(* What a learner is promised about a mock attempt: answers can be changed *)
(* until the attempt is submitted, submitting scores the answers as they   *)
(* then are, and from then on neither changes. Who submits, how often it   *)
(* is tried and which writes it takes must not show.                       *)
(*                                                                         *)
(*   answers   the answer of each question                                 *)
(*   status    in_progress or submitted                                    *)
(*   result    for each question, the answer its score was computed from   *)
(***************************************************************************)
CONSTANTS Questions, Options, NoAnswer, Unread

VARIABLES answers, status, result

vars == <<answers, status, result>>

Init ==
  /\ answers = [q \in Questions |-> NoAnswer]
  /\ status = "in_progress"
  /\ result = [q \in Questions |-> Unread]

Change(q) ==
  /\ status = "in_progress"
  /\ \E o \in Options \cup {NoAnswer} : answers' = [answers EXCEPT ![q] = o]
  /\ UNCHANGED <<status, result>>

Score ==
  /\ status = "in_progress"
  /\ status' = "submitted"
  /\ result' = answers
  /\ UNCHANGED answers

Next == Score \/ \E q \in Questions : Change(q)

Spec == Init /\ [][Next]_vars
=============================================================================
