SPECIFICATION FairSpec
CONSTANTS
  p1 = p1
  p2 = p2
  c1 = c1
  c2 = c2
  l1 = l1
  Pods = {p1, p2}
  NoPod = NoPod
  Programs <- Rolling
  MigrateOnly = {p2}
  Clusters = {c1, c2}
  Lists <- OneOrTwo
  Lookups = {l1}
  MaxChanges = 1
  Faults = {"connect", "statement", "commit", "auth", "cluster", "crash"}
  MaxFaults = 1
INVARIANTS
  TypeOK
  AppliedInOrder
  FailsOnlyByFault
  SchemaBeforeService
  SnapshotOfAuth
PROPERTIES
  UpgradeSpec
  ServiceSpec
  EveryPodServes
  LookupAnswered
