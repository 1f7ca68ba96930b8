SPECIFICATION FairSpec
CONSTANTS
  u1 = u1
  u2 = u2
  u3 = u3
  c1 = c1
  c2 = c2
  t1 = t1
  t2 = t2
  Updaters = {u1}
  Tenants = {t1}
  Clusters = {c1}
  ClusterOf <- OneCluster
  NoUpdater = NoUpdater
  AnyCluster = AnyCluster
  NoTenant = NoTenant
  BatchSize = 1
  Requests <- UserRequest
  InitialNamespaces <- CheOutdated
  InitialStored <- NewQuotas
  Faults = {}
  MaxFaults = 0
  Punctual = TRUE
  Timeout = 1
PROPERTY
  Termination
CHECK_DEADLOCK FALSE
