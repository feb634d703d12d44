SPECIFICATION Spec
CONSTANTS
  UnitCount = 2
  Workers = {w1}
  Handlers = {h1, h2}
  NoJob = NoJob
  MaxAttempts = 1
  MaxVersions = 2
  MaxGen = 1
  Covering <- TwoWords
  Corruptible <- FirstAnswer
  RefreshFaults = TRUE
SYMMETRY Symmetry
INVARIANTS
  CompletedMeansDone
  SessionNeverLags
CHECK_DEADLOCK FALSE
