SPECIFICATION Spec
CONSTANTS
  Questions = {q1}
  Options = {a}
  NoAnswer = NoAnswer
  Unread = Unread
  Api = Api
  Timer = Timer
  Manual = {}
  MaxAttempts = 2
  ReadFaults = TRUE
  MaxRows = 4
  MaxFaults = 0
  MaxCrashes = 0
INVARIANT ResultMatchesAnswers
