SPECIFICATION Spec
CONSTANTS
  t1 = t1
  t2 = t2
  r1 = r1
  r2 = r2
  r3 = r3
  r4 = r4
  Tenants = {t1, t2}
  Requests = {r1, r2, r3, r4}
  TenantOf <- TwoTenants
  KindOf <- TwoOwners
  Overlap <- SetupAndRemoval
  MaxNumber = 4
  InitialBase <- OldSecond
  InitialTypes = {"user", "che"}
  LegacyTypes = {}
  Outsiders = {}
  NoTenant = NoTenant
  NoRequest = NoRequest
  NoName = NoName
  NoRow = NoRow
  Faults = {"os", "query"}
  MaxFaults = 1
INVARIANT
  ReadyHasProject
PROPERTIES
  AcceptedIsReady
  OthersUntouched
CHECK_DEADLOCK FALSE
