SPECIFICATION FairSpec
CONSTANTS
  u1 = u1
  r1 = r1
  r2 = r2
  p1 = p1
  User = {u1}
  Role = {r1, r2}
  Permission = {p1}
  Superuser = {}
  Roles0 = {r1}
  UserRoles0 <- OneUserRole
  RolePermissions0 <- OneGrant
  Change = {w1, w2, w3}
  Check = {c1}
  MaxFaults = 1
  None = None
INVARIANTS
  TypeOK
  StaleIsExplained
PROPERTIES
  ChangesTakeEffect
