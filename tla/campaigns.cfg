SPECIFICATION FairSpec
CONSTANTS
  Campaign = {c1}
  u1 = u1
  User = {u1, u2}
  Early <- OneUser
  Scheduler = {s1, s2}
  Request = {r1, r2}
  PageSize = 1
  BatchSize = 1
  Fault = {"crash", "error", "drop"}
  None = None
INVARIANTS
  TypeOK
  OneEmailPerUser
  DoneCoversAudience
PROPERTIES
  QueuedGetsDone
