SPECIFICATION FairSpec
CONSTANTS
  r1 = r1
  User = {u1}
  Role = {r1}
  BaseRole = r1
  AdminRole = r1
  Handler = {h1, h2}
  Pair = {s1, s2}
  AccessLife = 1
  RefreshLife = 2
  None = None
INVARIANTS
  TypeOK
  RevokedIsRejected
  SpentOnce
PROPERTIES
  LostRolesExpire
