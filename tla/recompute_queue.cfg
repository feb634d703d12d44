SPECIFICATION FairSpec
CONSTANTS
  Users = {u1}
  Recruitments = {c1}
  Rows = {r1, r2, r3}
  Drains = {d1, d2}
  Admins = {a1}
  Global = Global
  NoUser = NoUser
  NoRow = NoRow
  MaxAttempts = 2
  ClaimLimit = 2
  MaxVersion = 1
  Faults = {"crash", "finalise", "cache", "fanout"}
INVARIANTS
  TypeOK
  ExclusiveClaim
  RunCoversRequest
  OneUnfinishedRow
PROPERTIES
  RetryHistoryKept
  RowsAreFinished
