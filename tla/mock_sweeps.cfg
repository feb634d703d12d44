SPECIFICATION Spec
CONSTANTS
  Questions = {q1, q2}
  Options = {a}
  NoAnswer = NoAnswer
  Unread = Unread
  Api = Api
  Timer = Timer
  Manual = {m}
  MaxAttempts = 2
  ReadFaults = FALSE
  MaxRows = 4
  MaxFaults = 0
  MaxCrashes = 0
SYMMETRY Symmetry
INVARIANTS
  ResultMatchesAnswers
  SubmittedIsAnalysed
PROPERTIES
  ResultIsFinal
  ImplementsMockAttempt
