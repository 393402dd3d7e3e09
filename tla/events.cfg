SPECIFICATION FairSpec
CONSTANTS
  e1 = e1
  e2 = e2
  e3 = e3
  Event = {e1, e2, e3}
  Valid = {e1, e2}
  Loadable = {e1}
  Fatal = {e2}
  Request = {r1, r2}
  r1 = r1
  r2 = r2
  MaxPoll = 2
  MinBatch = 2
  MaxAttempts = 2
  MaxMonth = 2
  MaxFaults = 1
INVARIANTS
  TypeOK
  SuccessIsPublished
  CommittedIsStored
PROPERTIES
  PublishedIsStoredOnce
