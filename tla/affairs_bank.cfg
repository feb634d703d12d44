SPECIFICATION FairSpec
CONSTANTS
  w1 = w1
  w2 = w2
  m1 = m1
  m2 = m2
  q1 = q1
  q2 = q2
  a = a
  b = b
  q3 = q3
  Weeklies = {w1}
  Monthlies = {m1}
  Questions = {q1, q2, q3}
  Options = {a, b}
  Members <- BankMembers
  PeriodEnd <- BankPeriods
  ValidUntil <- BankWindows
  Exams = {x1, x2}
  Requests = {r1}
  Cap = 1
  None = None
  MaxSeq <- BankSaves
  MaxTime = 2
  MaxEdits = 1
INVARIANTS
  ConfirmedAnswersCount
  ReviewsStayInExam
PROPERTIES
  StartsAreCurrent
  StaleItemsLeave
