------------------------- MODULE MCCurrentAffairs --------------------------
EXTENDS CurrentAffairs, TLC

CONSTANTS w1, w2, m1, m2, q1, q2, q3, a, b

\* The queue: both weekly bundles hold q1, q2 is the core of both months.
\* The weekly bundles share their period, so the start decides which mistake
\* is the newer one, and the window of q1 stays open for a second review.
QueueMembers == (w1 :> {q1}) @@ (w2 :> {q1}) @@ (m1 :> {q2}) @@ (m2 :> {q2})
QueuePeriods == (w1 :> 1) @@ (w2 :> 1)
QueueWindows == (q1 :> 3) @@ (q2 :> 3)
QueueSaves == (w1 :> 1) @@ (w2 :> 1) @@ (m1 :> 0) @@ (m2 :> 0)

QueueSymmetry ==
  Permutations(Options) \cup Permutations(Monthlies) \cup Permutations(Requests)

\* The bank: one bundle of each kind, two mistakes for a tail of one, and q1
\* leaves its window.
BankMembers == (w1 :> {q1, q2}) @@ (m1 :> {q3})
BankPeriods == w1 :> 1
BankWindows == (q1 :> 2) @@ (q2 :> 3) @@ (q3 :> 3)
BankSaves == (w1 :> 2) @@ (m1 :> 0)
=============================================================================
