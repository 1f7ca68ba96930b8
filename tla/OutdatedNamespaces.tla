------------------------- MODULE OutdatedNamespaces -------------------------
(***************************************************************************)
(* The queries of tenant/repository.go that choose what a cluster-wide     *)
(* update works on. The table namespaces is a function from a tenant and   *)
(* a type to a row:                                                        *)
(*   current  - the version equals the complete version of the type's      *)
(*              templates in the running build                             *)
(*   failed   - the state is 'failed'; the other states are not told apart *)
(*   byCommit - updated_by is the commit of the running build              *)
(* The cluster of a namespace (master_url) does not change.                *)
(***************************************************************************)
EXTENDS EnvironmentTypes

CONSTANTS
  Tenants,     \* tenants that have their default namespaces
  Clusters,    \* cluster URLs
  ClusterOf    \* [Tenants -> [EnvTypes -> Clusters]], the column master_url

ASSUME ClusterOfAssumption == ClusterOf \in [Tenants -> [EnvTypes -> Clusters]]

NamespaceRow == [current : BOOLEAN, failed : BOOLEAN, byCommit : BOOLEAN]

NamespaceTable == [Tenants -> [EnvTypes -> NamespaceRow]]

(* newGetOutdatedNamespacesQuery. What failed with the running commit is   *)
(* not selected again. With no type to ask for, the disjunction of the     *)
(* conditions on type and version is empty and gorm drops it: every other  *)
(* namespace is selected.                                                  *)
IsOutdated(row, type, types) ==
  /\ ~row.failed \/ ~row.byCommit
  /\ types = {} \/ (type \in types /\ ~row.current)

(* GetClustersToUpdate *)
GetClustersToUpdate(ns, types) ==
  {c \in Clusters : \E t \in Tenants, ty \in EnvTypes :
     ClusterOf[t][ty] = c /\ IsOutdated(ns[t][ty], ty, types)}

(* newGetOutdatedTenantsQuery; GetTenantsToUpdate takes some of them. *)
OutdatedTenants(ns, types, cluster) ==
  {t \in Tenants : \E ty \in EnvTypes :
     ClusterOf[t][ty] = cluster /\ IsOutdated(ns[t][ty], ty, types)}

(* The types updateTenant selects: on every cluster, those that failed     *)
(* before included.                                                        *)
TypesToUpdate(rows, types) ==
  {ty \in types : ~rows[ty].current \/ rows[ty].failed}

(* Mutant: the version is not stored. *)
SavedWithoutVersion(isFailed) == [current |-> FALSE, failed |-> isFailed, byCommit |-> TRUE]

(* The row UpdateNamespace saves: version and commit are set whether or    *)
(* not the update of the namespace failed.                                 *)
SavedRow(isFailed) == [current |-> TRUE, failed |-> isFailed, byCommit |-> TRUE]
=============================================================================
