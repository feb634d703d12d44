SPECIFICATION Spec
CONSTANTS
  UnitCount = 1
  Workers = {w1}
  Handlers = {h1}
  NoJob = NoJob
  MaxAttempts = 1
  MaxVersions = 1
  MaxGen = 2
  Covering <- NoWords
  Corruptible <- NoAnswers
  RefreshFaults = FALSE
INVARIANT RecoveryUpgradesOutcome
CHECK_DEADLOCK FALSE
