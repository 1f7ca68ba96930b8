--------------------------- MODULE MCTenantsUpdate ---------------------------
(***************************************************************************)
(* Instances of TenantsUpdate for TLC.                                     *)
(***************************************************************************)
EXTENDS TenantsUpdate, TLC

CONSTANTS c1, c2, t1, t2, u1, u2, u3

AllTypes == EnvTypes

(* Both namespaces of a tenant on one cluster, or on two. *)
OneCluster  == [t \in Tenants |-> [ty \in EnvTypes |-> c1]]
TwoClusters == [t \in Tenants |-> [ty \in EnvTypes |->
                  IF t = t2 /\ ty = "che" THEN c2 ELSE c1]]

Everything == [filter |-> AllTypes, limit |-> AnyCluster]
OneType(ty) == [filter |-> {ty}, limit |-> AnyCluster]
OnlyCluster(c) == [filter |-> AllTypes, limit |-> c]

AnyRequest  == {Everything, OneType("user"), OnlyCluster(c1)}
UserRequest == {OneType("user")}

Outdated == [current |-> FALSE, failed |-> FALSE, byCommit |-> FALSE]
UpToDate == [current |-> TRUE, failed |-> FALSE, byCommit |-> FALSE]

(* New templates for everything, or for the quotas of che only.            *)
AllOutdated == {[ty \in EnvTypes |-> Outdated]}
CheOutdated == {[ty \in EnvTypes |-> IF ty = "che" THEN Outdated ELSE UpToDate]}

NewRelease == {{}}
NewQuotas  == {{"user.yml", "che-mt.yml"}}

Symmetry == Permutations(Updaters)
=============================================================================
