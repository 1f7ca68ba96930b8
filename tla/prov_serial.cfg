SPECIFICATION Spec
CONSTANTS
  t1 = t1
  t2 = t2
  r1 = r1
  r2 = r2
  r3 = r3
  r4 = r4
  Tenants = {t1}
  Requests = {r1, r2, r3}
  TenantOf <- OneTenant
  KindOf <- SetupRemoveClean
  Overlap <- OneByOne
  MaxNumber = 3
  InitialBase <- Nobody
  InitialTypes = {"user", "che"}
  LegacyTypes = {}
  Outsiders = {1}
  NoTenant = NoTenant
  NoRequest = NoRequest
  NoName = NoName
  NoRow = NoRow
  Faults = {"os", "template", "query", "save", "begin", "crash"}
  MaxFaults = 2
INVARIANTS
  TypeOK
  RowsFollowBaseName
  OneRowPerType
  NothingLeftBehind
CHECK_DEADLOCK FALSE
