-------------------------- MODULE UpdateRepository --------------------------
(***************************************************************************)
(* The single row of the table tenants_update (update/repository.go) and   *)
(* the versions of the template files recorded in it (update/versions.go). *)
(* The row is a record:                                                    *)
(*   status       - the update status                                      *)
(*   failedCount  - number of tenants whose update failed                  *)
(*   age          - time since last_time_updated, in ticks                 *)
(*   canContinue  - FALSE once somebody asked the update to stop           *)
(*   stored       - the template files whose stored version equals the     *)
(*                  version the running build carries; a stored version    *)
(*                  is only ever compared with that one                    *)
(* An operator takes the row and returns the row a statement leaves.       *)
(***************************************************************************)
EXTENDS Naturals, EnvironmentTypes

CONSTANT Timeout    \* automated update retry sleep, in ticks

ASSUME TimeoutAssumption == Timeout \in Nat \ {0}

Status == {"finished", "updating", "failed", "killed", "incomplete"}

(* RetrieveVersionManagers: a template file and the type it belongs to. *)
VersionManagers ==
  {[file |-> "user.yml",       envType |-> "user"],
   [file |-> "che-mt.yml",     envType |-> "che"],
   [file |-> "che-quotas.yml", envType |-> "che"]}

TemplateFiles == {vm.file : vm \in VersionManagers}

(* The age is kept only as far as the code can tell ages apart. *)
Ages == 0 .. (Timeout + 1)

TenantsUpdateRow ==
  [status : Status, failedCount : Nat, age : Ages,
   canContinue : BOOLEAN, stored : SUBSET TemplateFiles]

(* Mutant: already old when it is exactly as old as the timeout. *)
OlderAtTimeout(row) == row.age >= Timeout

IsOlderThanTimeout(row) == row.age > Timeout

PrepareForUpdating(row) ==
  [row EXCEPT !.status = "updating", !.failedCount = 0, !.age = 0, !.canContinue = TRUE]

UpdateStatus(row, status) == [row EXCEPT !.status = status]

UpdateLastTimeUpdated(row) == [row EXCEPT !.age = 0]

IncrementFailedCount(row) == [row EXCEPT !.failedCount = @ + 1]

Stop(row) == [row EXCEPT !.canContinue = FALSE]

(* gorm's Updates(struct) writes no zero value: a failed_count of 0 and a  *)
(* can_continue of FALSE stay as they are in the table. last_time_updated  *)
(* is written as it was read, under the lock every writer of it takes.     *)
SaveTenantsUpdate(row, tu) ==
  [row EXCEPT !.status = tu.status, !.stored = tu.stored,
              !.failedCount = IF tu.failedCount > 0 THEN tu.failedCount ELSE @,
              !.canContinue = @ \/ tu.canContinue]

(* checkVersions: the types one of whose files has an outdated version. *)
OutdatedTypes(row) ==
  {vm.envType : vm \in {v \in VersionManagers : v.file \notin row.stored}}

(* SetCurrentVersion for every file whose type passes the filter. *)
WithCurrentVersions(tu, types) ==
  [tu EXCEPT !.stored = @ \cup {vm.file : vm \in {v \in VersionManagers : v.envType \in types}}]
=============================================================================
