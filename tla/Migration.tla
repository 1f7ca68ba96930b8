------------------------------ MODULE Migration ------------------------------
(***************************************************************************)
(* Migrate (migration/migration.go): every pod brings the schema of the    *)
(* database to the version of its release before it does anything else. In *)
(* a rolling deployment pods of several releases, which know different     *)
(* numbers of versions, do so at the same time. Each version is applied in *)
(* a transaction of its own, which takes an advisory lock first and then   *)
(* reads which version comes next; it does not rely on what the previous   *)
(* transaction of the loop has read.                                       *)
(***************************************************************************)
EXTENDS Deployment, Integers, Sequences, Functions, FiniteSets

CONSTANTS
  Programs,       \* the number of versions the release of a pod knows
  NoPod           \* nobody holds the advisory lock

ASSUME MigrationAssumption ==
  /\ Programs \in [Pods -> Nat \ {0}]
  /\ NoPod \notin Pods

VARIABLES
  version,        \* the table version: its committed rows in their order
  holder,         \* the pod whose transaction holds the advisory lock
  mig             \* where the call of Migrate of each pod is

migrationVars == <<version, holder, mig>>

-----------------------------------------------------------------------------
MigratePcs == {"none", "loop", "lock", "read", "apply", "commit", "rollback",
               "migrated", "failed"}

(* next: nextVersion; new: versions inserted by the open transaction.      *)
Migrating == [pc : MigratePcs, next : Nat, new : SUBSET Nat]

NotMigrating == [pc |-> "none", next |-> 0, new |-> {}]

MigrationTypeOK ==
  /\ version \in Seq(Nat)
  /\ holder \in Pods \cup {NoPod}
  /\ mig \in [Pods -> Migrating]
  /\ faults \in Nat

MigrationInit ==
  /\ version = <<>>
  /\ holder = NoPod
  /\ mig = [p \in Pods |-> NotMigrating]

-----------------------------------------------------------------------------
(* Mutant of CurrentVersion: a missing table counts as version 0.          *)
NoTableIsVersion0 ==
  IF version = <<>>
    THEN 0
    ELSE CHOOSE v \in Range(version) : \A w \in Range(version) : w <= v

(* getCurrentVersion: -1 if the table does not exist, which version 0      *)
(* creates.                                                                *)
CurrentVersion ==
  IF version = <<>>
    THEN -1
    ELSE CHOOSE v \in Range(version) : \A w \in Range(version) : w <= v

Known(p) == Programs[p]                                   \* len(m)

Goto(p, l) == mig' = [mig EXCEPT ![p].pc = l]

Unlock(p) == holder' = IF holder = p THEN NoPod ELSE holder

StartMigrate(p) ==
  /\ mig[p].pc = "none"
  /\ Goto(p, "loop")
  /\ UNCHANGED <<version, holder>>

(* The condition of the loop.                                              *)
LoopEnds(p) ==
  /\ mig[p].pc = "loop"
  /\ mig[p].next >= Known(p)
  /\ Goto(p, "migrated")
  /\ UNCHANGED <<version, holder>>
  /\ NoFault

BeginTransaction(p) ==
  /\ mig[p].pc = "loop"
  /\ mig[p].next < Known(p)
  /\ \/ Goto(p, "lock") /\ NoFault
     \/ Goto(p, "failed") /\ Fault("statement")
  /\ UNCHANGED <<version, holder>>

(* Mutant of TakeLock: the lock is not exclusive.                          *)
TakeSharedLock(p) ==
  /\ mig[p].pc = "lock"
  /\ \/ holder' = p /\ Goto(p, "read") /\ NoFault
     \/ UNCHANGED holder /\ Goto(p, "rollback") /\ Fault("statement")
  /\ UNCHANGED version

(* pg_advisory_xact_lock waits while another transaction holds the lock.   *)
TakeLock(p) ==
  /\ mig[p].pc = "lock"
  /\ \/ holder = NoPod /\ holder' = p /\ Goto(p, "read") /\ NoFault
     \/ UNCHANGED holder /\ Goto(p, "rollback") /\ Fault("statement")
  /\ UNCHANGED version

(* Mutant of ReadVersion: nextVersion becomes the current version.         *)
ReadCurrentVersion(p) ==
  /\ mig[p].pc = "read"
  /\ mig' = [mig EXCEPT ![p].next = CurrentVersion, ![p].pc = "apply"]
  /\ UNCHANGED <<version, holder>>
  /\ NoFault

(* nextVersion is adjusted to what is in the table.                        *)
ReadVersion(p) ==
  /\ mig[p].pc = "read"
  /\ \/ LET next == CurrentVersion + 1 IN
        /\ mig' = [mig EXCEPT ![p].next = next,
                              ![p].pc = IF next >= Known(p) THEN "commit" ELSE "apply"]
        /\ NoFault
     \/ Goto(p, "rollback") /\ Fault("statement")
  /\ UNCHANGED <<version, holder>>

(* The steps of the version and the insertion of its row, which is unique: *)
(* it fails if the row exists and waits for a transaction that inserts it. *)
ApplyVersion(p) ==
  /\ mig[p].pc = "apply"
  /\ \A q \in Pods \ {p} : mig[p].next \notin mig[q].new
  /\ \/ /\ mig[p].next \notin Range(version)
        /\ mig' = [mig EXCEPT ![p].new = {mig[p].next}, ![p].pc = "commit"]
        /\ NoFault
     \/ mig[p].next \in Range(version) /\ Goto(p, "rollback") /\ NoFault
     \/ Goto(p, "rollback") /\ Fault("statement")
  /\ UNCHANGED <<version, holder>>

(* What p has inserted becomes visible, and its lock is released.          *)
Committed(p) ==
  version' = IF mig[p].new = {} THEN version ELSE Append(version, mig[p].next)

(* Mutant of Commit: an error of the commit is logged only.                *)
CommitIgnoringErrors(p) ==
  /\ mig[p].pc = "commit"
  /\ \/ Committed(p) /\ NoFault
     \/ UNCHANGED version /\ Fault("commit")
  /\ mig' = [mig EXCEPT ![p] = [pc |-> "loop", next |-> @.next + 1, new |-> {}]]
  /\ Unlock(p)

(* Both outcomes of a commit whose answer is lost end Migrate.             *)
Commit(p) ==
  /\ mig[p].pc = "commit"
  /\ \/ /\ Committed(p)
        /\ mig' = [mig EXCEPT ![p] = [pc |-> "loop", next |-> @.next + 1, new |-> {}]]
        /\ NoFault
     \/ /\ Committed(p) \/ UNCHANGED version
        /\ mig' = [mig EXCEPT ![p].pc = "failed", ![p].new = {}]
        /\ Fault("commit")
  /\ Unlock(p)

RollBack(p) ==
  /\ mig[p].pc = "rollback"
  /\ mig' = [mig EXCEPT ![p].pc = "failed", ![p].new = {}]
  /\ Unlock(p)
  /\ UNCHANGED version
  /\ NoFault

(* The process of p ends. The database rolls back its open transaction,    *)
(* unless the request to commit has reached it already.                    *)
EndMigrate(p) ==
  /\ Unlock(p)
  /\ \/ UNCHANGED version
     \/ mig[p].pc = "commit" /\ Committed(p)
  /\ mig' = [mig EXCEPT ![p] = NotMigrating]

MigrateStep(p) ==
  \/ LoopEnds(p) \/ BeginTransaction(p) \/ TakeLock(p) \/ ReadVersion(p)
  \/ ApplyVersion(p) \/ Commit(p) \/ RollBack(p)

MigrationNext == \E p \in Pods : StartMigrate(p) \/ MigrateStep(p) \/ EndMigrate(p)

MigrationSpec == MigrationInit /\ [][MigrationNext]_migrationVars
=============================================================================
