SPECIFICATION FairSpec
CONSTANTS
  Questions = {q1}
  Options = {a}
  NoAnswer = NoAnswer
  Unread = Unread
  Api = Api
  Timer = Timer
  Manual = {}
  MaxAttempts = 2
  ReadFaults = FALSE
  MaxRows = 4
  MaxFaults = 1
  MaxCrashes = 1
INVARIANTS
  TypeOK
  ResultMatchesAnswers
PROPERTIES
  ExpiredIsSubmitted
  JobsDeliver
