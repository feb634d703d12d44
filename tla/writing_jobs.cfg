SPECIFICATION FairSpec
CONSTANTS
  UnitCount = 1
  Workers = {w1, w2}
  Handlers = {h1}
  NoJob = NoJob
  MaxAttempts = 2
  MaxVersions = 2
  MaxGen = 2
  Covering <- NoWords
  Corruptible <- NoAnswers
  RefreshFaults = TRUE
INVARIANTS
  TypeOK
  PendingUnitIsServed
  AppliedOnce
  VersionsAwaitVerdict
  CompletedMeansDone
  LanguageStatusHonest
PROPERTIES
  LateCallsChangeNothing
  EvaluationIsFinal
  EveryUnitGetsAVerdict
  ImplementsFairLeasedJobs
CHECK_DEADLOCK FALSE
