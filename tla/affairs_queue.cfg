SPECIFICATION Spec
CONSTANTS
  w1 = w1
  w2 = w2
  m1 = m1
  m2 = m2
  q1 = q1
  q2 = q2
  a = a
  b = b
  q3 = q3
  Weeklies = {w1, w2}
  Monthlies = {m1, m2}
  Questions = {q1, q2}
  Options = {a, b}
  Members <- QueueMembers
  PeriodEnd <- QueuePeriods
  ValidUntil <- QueueWindows
  Exams = {x1}
  Requests = {r1, r2}
  Cap = 1
  None = None
  MaxSeq <- QueueSaves
  MaxTime = 2
  MaxEdits = 0
SYMMETRY QueueSymmetry
INVARIANTS
  TypeOK
  OneReviewPerMistake
  MistakesAreKept
PROPERTIES
  ReviewsAreSpaced
