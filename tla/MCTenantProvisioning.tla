------------------------ MODULE MCTenantProvisioning ------------------------
(***************************************************************************)
(* Instances of TenantProvisioning for TLC.                                *)
(***************************************************************************)
EXTENDS TenantProvisioning, TLC

CONSTANTS t1, t2, r1, r2, r3, r4

OneTenant == [r \in Requests |-> t1]
TwoTenants == [r \in Requests |-> IF r \in {r1, r3} THEN t1 ELSE t2]

SetupRemoveClean == [r \in Requests |->
  CASE r = r2 -> "remove" [] r = r3 -> "clean" [] OTHER -> "setup"]
UpdateDeleteSetup == [r \in Requests |->
  CASE r = r1 -> "update" [] r = r2 -> "delete" [] OTHER -> "setup"]
SetupDelete == [r \in Requests |-> IF r = r2 THEN "delete" ELSE "setup"]
SetupsOnly == [r \in Requests |-> "setup"]

Nobody      == [t \in Tenants |-> NoName]
Known       == [t \in Tenants |-> 1]
NotCompliant == [t \in Tenants |-> 0]
OldSecond   == [t \in Tenants |-> IF t = t1 THEN NoName ELSE 0]

TwoOwners == [r \in Requests |-> IF r = r4 THEN "remove" ELSE "setup"]

OneByOne == {}
AllAtOnce == {{q, r} : q, r \in Requests}

(* The first setup of one tenant overlaps with the removal of the other.   *)
SetupAndRemoval == {{r1, r4}}
=============================================================================
