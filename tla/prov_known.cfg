SPECIFICATION FairSpec
CONSTANTS
  t1 = t1
  t2 = t2
  r1 = r1
  r2 = r2
  r3 = r3
  r4 = r4
  Tenants = {t1}
  Requests = {r1, r2, r3}
  TenantOf <- OneTenant
  KindOf <- UpdateDeleteSetup
  Overlap <- OneByOne
  MaxNumber = 3
  InitialBase <- Known
  InitialTypes = {"che"}
  LegacyTypes = {"legacy"}
  Outsiders = {}
  NoTenant = NoTenant
  NoRequest = NoRequest
  NoName = NoName
  NoRow = NoRow
  Faults = {"os", "save"}
  MaxFaults = 2
INVARIANT
  NothingLeftBehind
PROPERTY
  Answered
CHECK_DEADLOCK FALSE
