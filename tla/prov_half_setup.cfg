SPECIFICATION Spec
CONSTANTS
  t1 = t1
  t2 = t2
  r1 = r1
  r2 = r2
  r3 = r3
  r4 = r4
  Tenants = {t1}
  Requests = {r1, r2}
  TenantOf <- OneTenant
  KindOf <- SetupsOnly
  Overlap <- OneByOne
  MaxNumber = 2
  InitialBase <- Nobody
  InitialTypes = {"user", "che"}
  LegacyTypes = {}
  Outsiders = {}
  NoTenant = NoTenant
  NoRequest = NoRequest
  NoName = NoName
  NoRow = NoRow
  Faults = {"crash"}
  MaxFaults = 1
PROPERTY
  ConflictIsProvisioned
CHECK_DEADLOCK FALSE
