----------------------------- MODULE LeasedJobs -----------------------------
(***************************************************************************)
(* What a table of leased jobs promises to whoever asks for work: an item  *)
(* that was asked for is open until one of its jobs is settled, has one    *)
(* active job while it is, and its effects are written at most once. There *)
(* are no tokens, late calls, expired leases or lost replies here: an      *)
(* implementation must make them invisible.                                *)
(*                                                                         *)
(*   verdict   what the asker sees of an item                              *)
(*   effects   how often the effects of an item were written               *)
(*   status, attempts   the jobs, one per item and generation              *)
(***************************************************************************)
EXTENDS Naturals

CONSTANTS Items, Gens, MaxAttempts

VARIABLES verdict, effects, status, attempts

vars == <<verdict, effects, status, attempts>>

Jobs == Items \X Gens
Active == {"pending", "running"}
Settled == {"done", "failed"}

Init ==
  /\ verdict = [i \in Items |-> "none"]
  /\ effects = [i \in Items |-> 0]
  /\ status = [j \in Jobs |-> "none"]
  /\ attempts = [j \in Jobs |-> 0]

\* The first job of an item, or another one after it was decided.
Ask(i, g) ==
  /\ verdict[i] # "open"
  /\ status[<<i, g>>] = "none"
  /\ \A h \in Gens : status[<<i, h>>] \notin Active
  /\ status' = [status EXCEPT ![<<i, g>>] = "pending"]
  /\ attempts' = [attempts EXCEPT ![<<i, g>>] = 0]
  /\ verdict' = [verdict EXCEPT ![i] = IF @ = "none" THEN "open" ELSE @]
  /\ UNCHANGED effects

\* A lease is one attempt.
Lease(j) ==
  /\ status[j] = "pending" /\ attempts[j] < MaxAttempts
  /\ status' = [status EXCEPT ![j] = "running"]
  /\ attempts' = [attempts EXCEPT ![j] = @ + 1]
  /\ UNCHANGED <<verdict, effects>>

\* An attempt failed and another is left.
Return(j) ==
  /\ status[j] = "running" /\ attempts[j] < MaxAttempts
  /\ status' = [status EXCEPT ![j] = "pending"]
  /\ UNCHANGED <<verdict, effects, attempts>>

\* The job ends and its item is decided; only an open item has effects left
\* to write.
Settle(j) ==
  /\ status[j] = "running"
  /\ \E st \in Settled : status' = [status EXCEPT ![j] = st]
  /\ verdict' = [verdict EXCEPT ![j[1]] = "decided"]
  /\ \/ UNCHANGED effects
     \/ verdict[j[1]] = "open" /\ effects' = [effects EXCEPT ![j[1]] = @ + 1]
  /\ UNCHANGED attempts

Next == \/ \E i \in Items, g \in Gens : Ask(i, g)
        \/ \E j \in Jobs : Lease(j) \/ Return(j) \/ Settle(j)

Spec == Init /\ [][Next]_vars

\* A waiting job is leased, a leased job comes back or is settled.
FairSpec ==
  /\ Spec
  /\ \A j \in Jobs : WF_vars(Lease(j)) /\ WF_vars(Return(j) \/ Settle(j))
=============================================================================
