SPECIFICATION Spec
CONSTANTS
  e1 = e1
  e2 = e2
  Issues = {i1}
  Evaluations = {e1, e2}
  FoundBy <- Found
  RewrittenIn <- Rewritten
  Workers = {w1}
  MaxAttempts = 1
  MaxReviews = 3
  NoRow = NoRow
INVARIANT FoldHonoursLatestReview
