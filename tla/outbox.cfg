SPECIFICATION FairSpec
CONSTANTS
  e1 = e1
  e2 = e2
  Issues = {i1}
  Evaluations = {e1, e2}
  FoundBy <- Found
  RewrittenIn <- Rewritten
  Workers = {w1, w2}
  MaxAttempts = 2
  MaxReviews = 2
  NoRow = NoRow
INVARIANTS
  TypeOK
  LinearChain
  CorrectionsFit
  FoldAgreesWhenDone
PROPERTIES
  DrainFollowsReviews
  ImplementsFairLeasedJobs
