SPECIFICATION FairSpec
CONSTANTS
  User = {u1, u2}
  Operation = {op1}
  Request = {r1, r2}
  Amount = {0, 1, 2}
  MaxFailures = 1
  JunkType = {"unsupported"}
  None = None
INVARIANTS
  TypeOK
  OneChargePerOperation
  StatusConfirmedByStripe
PROPERTIES
  StatusNeverDowngrades
  RequestsEnd
  KeepsPromise
