SPECIFICATION Spec
CONSTANTS
  Users = {u1}
  Recruitments = {c1}
  Rows = {r1, r2, r3}
  Drains = {d1}
  Admins = {}
  Global = Global
  NoUser = NoUser
  NoRow = NoRow
  MaxAttempts = 2
  ClaimLimit = 2
  MaxVersion = 2
  Faults = {}
SYMMETRY RowSymmetry
INVARIANT ChangesHaveAJob
CHECK_DEADLOCK FALSE
