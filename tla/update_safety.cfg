SPECIFICATION Spec
CONSTANTS
  u1 = u1
  u2 = u2
  u3 = u3
  c1 = c1
  c2 = c2
  t1 = t1
  t2 = t2
  Updaters = {u1, u2}
  Tenants = {t1, t2}
  Clusters = {c1, c2}
  ClusterOf <- TwoClusters
  NoUpdater = NoUpdater
  AnyCluster = AnyCluster
  NoTenant = NoTenant
  BatchSize = 1
  Requests <- AnyRequest
  InitialNamespaces <- AllOutdated
  InitialStored <- NewRelease
  Faults = {"exec", "silent", "save", "begin", "crash"}
  MaxFaults = 1
  Punctual = TRUE
  Timeout = 1
SYMMETRY Symmetry
INVARIANTS
  TypeOK
  MutualExclusion
  NothingForgotten
  FailuresReported
PROPERTY
  AbstractSpec
CHECK_DEADLOCK FALSE
