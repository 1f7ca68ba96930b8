------------------------- MODULE ProgramStartProofs -------------------------
(***************************************************************************)
(* Proofs about ProgramStart, for any number of pods and releases, any     *)
(* lists of clusters and any faults: the versions of the database are      *)
(* applied once and in order, a pod that serves has its schema, and the    *)
(* start of the program implements SchemaUpgrade.                          *)
(***************************************************************************)
EXTENDS ProgramStart, SequenceTheorems, FiniteSetTheorems, TLAPS

-----------------------------------------------------------------------------
(* The invariant of the migration *)

(* What the place of p in Migrate says about the table. The transaction    *)
(* between the lock and its end knows the table exactly, as nobody else    *)
(* can change it; before and after it, the table may have grown.           *)
Stage(p) ==
  /\ mig[p].pc \in {"read", "apply", "commit"} => holder = p
  /\ mig[p].pc \notin {"commit", "rollback"} => mig[p].new = {}
  /\ mig[p].pc = "none" => mig[p].next = 0
  /\ mig[p].pc = "loop" => mig[p].next <= Len(version) \/ Known(p) <= Len(version)
  /\ mig[p].pc = "apply" => mig[p].next = Len(version) /\ mig[p].next < Known(p)
  /\ mig[p].pc = "commit" =>
       /\ mig[p].next = Len(version)
       /\ mig[p].new = {} => Known(p) <= mig[p].next
       /\ mig[p].new # {} => mig[p].next < Known(p)
  /\ mig[p].pc = "migrated" => Known(p) <= Len(version)

MigrationInv ==
  /\ MigrationTypeOK
  /\ AppliedInOrder
  /\ \A p \in Pods : Stage(p)

(* The number of versions a release knows.                                 *)
LEMMA KnownIsPositive ==
  ASSUME NEW p \in Pods
  PROVE  Known(p) \in Nat /\ Known(p) > 0
  BY MigrationAssumption DEF Known

(* A table without gaps names the next version by its length.              *)
LEMMA NextVersion ==
  ASSUME version \in Seq(Nat), AppliedInOrder
  PROVE  /\ CurrentVersion + 1 = Len(version)
         /\ Range(version) = 0 .. Len(version) - 1
  <1>1. Len(version) \in Nat /\ DOMAIN version = 1 .. Len(version)
        BY LenProperties
  <1>2. Range(version) = 0 .. Len(version) - 1
    <2>1. ASSUME NEW v \in Range(version)
          PROVE  v \in 0 .. Len(version) - 1
      <3>1. PICK i \in DOMAIN version : v = version[i]
            BY DEF Range
      <3>2. version[i] = i - 1
            BY <3>1 DEF AppliedInOrder
      <3>3. QED  BY <1>1, <3>1, <3>2
    <2>2. ASSUME NEW v \in 0 .. Len(version) - 1
          PROVE  v \in Range(version)
      <3>1. v + 1 \in DOMAIN version
            BY <1>1
      <3>2. version[v + 1] = v
            BY <3>1 DEF AppliedInOrder
      <3>3. QED  BY <3>1, <3>2 DEF Range
    <2>3. QED  BY <2>1, <2>2
  <1>3. CASE version = <<>>
        BY <1>2, <1>3, EmptySeq DEF CurrentVersion
  <1>4. CASE version # <<>>
    <2>1. Len(version) > 0
          BY <1>1, <1>4, EmptySeq
    <2>2. Len(version) - 1 \in Range(version)
          BY <1>1, <1>2, <2>1
    <2>3. \A w \in Range(version) : w <= Len(version) - 1
          BY SMTT(40), <1>1, <1>2
    <2>4. CurrentVersion = Len(version) - 1
      <3>1. \E v \in Range(version) : \A w \in Range(version) : w <= v
            BY <2>2, <2>3
      <3>2. /\ CurrentVersion \in Range(version)
            /\ \A w \in Range(version) : w <= CurrentVersion
            BY <1>4, <3>1 DEF CurrentVersion
      <3>3. CurrentVersion <= Len(version) - 1 /\ Len(version) - 1 <= CurrentVersion
            BY <2>2, <2>3, <3>2
      <3>4. CurrentVersion \in Int
            BY <1>1, <1>2, <3>2
      <3>5. \A c \in Int, n \in Nat : c <= n - 1 /\ n - 1 <= c => c = n - 1
            OBVIOUS
      <3>6. QED  BY <1>1, <3>3, <3>4, <3>5
    <2>5. QED  BY <1>1, <1>2, <2>4
  <1>5. QED  BY <1>3, <1>4

(* A step of p that leaves another pod and its lock alone, and changes the *)
(* table only if p holds the lock.                                         *)
LEMMA OthersKeepTheirStage ==
  ASSUME MigrationInv,
         NEW p \in Pods, NEW q \in Pods \ {p},
         mig'[q] = mig[q],
         holder = q => holder' = q,
         Len(version') \in Nat, Len(version) <= Len(version'),
         version' = version \/ holder = p
  PROVE  Stage(q)'
  <1>1. Stage(q) /\ mig[q] \in Migrating /\ Len(version) \in Nat
        BY LenProperties DEF MigrationInv, MigrationTypeOK
  <1>2. mig[q].next \in Nat
        BY <1>1 DEF Migrating
  <1>3. Known(q) \in Nat /\ Known(q)' = Known(q)
        BY KnownIsPositive DEF Known
  <1>4. holder = q => version' = version
        OBVIOUS
  <1>5. QED  BY <1>1, <1>2, <1>3, <1>4 DEF Stage

(* The table after a commit of p.                                          *)
LEMMA CommittedInOrder ==
  ASSUME MigrationInv, NEW p \in Pods, mig[p].pc = "commit", Committed(p)
  PROVE  /\ version' \in Seq(Nat)
         /\ AppliedInOrder'
         /\ Len(version') = IF mig[p].new = {} THEN Len(version) ELSE Len(version) + 1
  <1>1. /\ version \in Seq(Nat) /\ mig[p].next \in Nat
        /\ mig[p].next = Len(version) /\ Len(version) \in Nat
        BY LenProperties DEF MigrationInv, MigrationTypeOK, Migrating, Stage
  <1>2. CASE mig[p].new = {}
        BY <1>1, <1>2 DEF Committed, MigrationInv, AppliedInOrder
  <1>3. CASE mig[p].new # {}
    <2>1. version' = Append(version, mig[p].next)
          BY <1>3 DEF Committed
    <2>2. /\ version' \in Seq(Nat)
          /\ Len(version') = Len(version) + 1
          /\ \A i \in 1 .. Len(version) : version'[i] = version[i]
          /\ version'[Len(version) + 1] = mig[p].next
          BY <1>1, <2>1, AppendProperties
    <2>3. DOMAIN version' = 1 .. Len(version) + 1 /\ DOMAIN version = 1 .. Len(version)
          BY <1>1, <2>2, LenProperties
    <2>4. ASSUME NEW i \in DOMAIN version'
          PROVE  version'[i] = i - 1
      <3>1. CASE i \in 1 .. Len(version)
            BY <2>2, <2>3, <3>1 DEF MigrationInv, AppliedInOrder
      <3>2. CASE i = Len(version) + 1
            BY <1>1, <2>2, <3>2
      <3>3. QED  BY <1>1, <2>3, <3>1, <3>2
    <2>5. QED  BY <1>3, <2>2, <2>4 DEF AppliedInOrder
  <1>4. QED  BY <1>2, <1>3

(* What a step of p has to leave as it should be.                          *)
LEMMA MigrationInvKept ==
  ASSUME MigrationInv,
         NEW p \in Pods, NEW m \in Migrating,
         mig' = [mig EXCEPT ![p] = m],
         holder' \in Pods \cup {NoPod}, faults' \in Nat,
         \A q \in Pods \ {p} : holder = q => holder' = q,
         version' \in Seq(Nat), AppliedInOrder', Len(version) <= Len(version'),
         version' = version \/ holder = p,
         Stage(p)'
  PROVE  MigrationInv'
  <1>1. mig \in [Pods -> Migrating]
        BY DEF MigrationInv, MigrationTypeOK
  <1>2. mig' \in [Pods -> Migrating] /\ \A q \in Pods \ {p} : mig'[q] = mig[q]
        BY <1>1
  <1>3. Len(version') \in Nat
        BY LenProperties
  <1>4. \A q \in Pods \ {p} : Stage(q)'
        BY <1>2, <1>3, OthersKeepTheirStage
  <1>5. QED  BY <1>2, <1>4 DEF MigrationInv, MigrationTypeOK

(* The shape of a step that changes neither the table nor the lock.        *)
LEMMA LocalStep ==
  ASSUME MigrationInv, NEW p \in Pods, NEW m \in Migrating,
         mig' = [mig EXCEPT ![p] = m], UNCHANGED <<version, holder>>, faults' \in Nat,
         Stage(p)'
  PROVE  MigrationInv'
  <1>1. version \in Seq(Nat) /\ AppliedInOrder /\ holder \in Pods \cup {NoPod}
        BY DEF MigrationInv, MigrationTypeOK
  <1>2. version' = version /\ holder' = holder
        OBVIOUS
  <1>3. Len(version) \in Nat /\ Len(version') = Len(version)
        BY <1>1, <1>2, LenProperties
  <1>4. AppliedInOrder'
        BY <1>1, <1>2 DEF AppliedInOrder
  <1>5. Len(version) <= Len(version')
        BY <1>3
  <1>6. version' \in Seq(Nat) /\ holder' \in Pods \cup {NoPod}
        BY <1>1, <1>2
  <1>7. QED  BY <1>2, <1>4, <1>5, <1>6, MigrationInvKept

LEMMA FaultsCount ==
  ASSUME faults \in Nat, NEW kind, NoFault \/ Fault(kind)
  PROVE  faults' \in Nat
  BY DEF NoFault, Fault

(* Setting the place of p alone.                                           *)
LEMMA GotoIsStep ==
  ASSUME MigrationInv, NEW p \in Pods, NEW l \in MigratePcs, Goto(p, l)
  PROVE  /\ [mig[p] EXCEPT !.pc = l] \in Migrating
         /\ mig' = [mig EXCEPT ![p] = [mig[p] EXCEPT !.pc = l]]
         /\ mig'[p].pc = l /\ mig'[p].next = mig[p].next /\ mig'[p].new = mig[p].new
  BY DEF MigrationInv, MigrationTypeOK, Migrating, Goto

(* Facts every step of p starts from.                                      *)
LEMMA PlaceOf ==
  ASSUME MigrationInv, NEW p \in Pods
  PROVE  /\ mig[p] \in Migrating /\ mig[p].next \in Nat
         /\ mig \in [Pods -> Migrating]
         /\ version \in Seq(Nat) /\ AppliedInOrder /\ Len(version) \in Nat
         /\ holder \in Pods \cup {NoPod} /\ faults \in Nat
         /\ Known(p) \in Nat /\ Known(p) > 0
         /\ Stage(p)
  BY KnownIsPositive, LenProperties DEF MigrationInv, MigrationTypeOK, Migrating

-----------------------------------------------------------------------------
(* Every step of Migrate keeps the invariant *)

(* Steps to a place about which the invariant says nothing.                *)
LEMMA FreePlace ==
  ASSUME MigrationInv, NEW p \in Pods,
         NEW l \in {"lock", "rollback", "failed"},
         mig[p].pc \notin {"commit", "rollback"},
         Goto(p, l), UNCHANGED <<version, holder>>, faults' \in Nat
  PROVE  MigrationInv'
  <1>1. l \in MigratePcs
        BY DEF MigratePcs
  <1>2. mig'[p].pc = l /\ mig'[p].new = mig[p].new /\ mig[p].new = {}
        BY <1>1, GotoIsStep, PlaceOf DEF Stage
  <1>3. Stage(p)'
        BY <1>2 DEF Stage
  <1>4. QED  BY <1>1, <1>3, GotoIsStep, LocalStep

LEMMA StartMigrateKeeps ==
  ASSUME MigrationInv, NEW p \in Pods, StartMigrate(p), faults' \in Nat
  PROVE  MigrationInv'
  <1>1. Goto(p, "loop") /\ UNCHANGED <<version, holder>> /\ "loop" \in MigratePcs
        BY DEF StartMigrate, MigratePcs
  <1>2. mig'[p].pc = "loop" /\ mig'[p].next = mig[p].next /\ mig'[p].new = mig[p].new
        BY <1>1, GotoIsStep
  <1>3. mig[p].pc = "none"
        BY DEF StartMigrate
  <1>4. Stage(p)'
        BY <1>1, <1>2, <1>3, PlaceOf DEF Stage
  <1>5. QED  BY <1>1, <1>4, GotoIsStep, LocalStep

LEMMA LoopEndsKeeps ==
  ASSUME MigrationInv, NEW p \in Pods, LoopEnds(p)
  PROVE  MigrationInv'
  <1>1. /\ Goto(p, "migrated") /\ UNCHANGED <<version, holder>>
        /\ "migrated" \in MigratePcs /\ faults' \in Nat
        BY PlaceOf DEF LoopEnds, MigratePcs, NoFault
  <1>2. mig'[p].pc = "migrated" /\ mig'[p].new = mig[p].new
        BY <1>1, GotoIsStep
  <1>3. Known(p) <= Len(version) /\ mig[p].new = {}
        BY PlaceOf DEF LoopEnds, Stage
  <1>4. Known(p)' = Known(p) /\ Len(version') = Len(version)
        BY <1>1 DEF Known
  <1>5. Stage(p)'
        BY <1>2, <1>3, <1>4 DEF Stage
  <1>6. QED  BY <1>1, <1>5, GotoIsStep, LocalStep

LEMMA BeginTransactionKeeps ==
  ASSUME MigrationInv, NEW p \in Pods, BeginTransaction(p)
  PROVE  MigrationInv'
  <1>1. faults' \in Nat
        BY PlaceOf, FaultsCount DEF BeginTransaction
  <1>2. QED  BY <1>1, FreePlace DEF BeginTransaction

LEMMA TakeLockKeeps ==
  ASSUME MigrationInv, NEW p \in Pods, TakeLock(p)
  PROVE  MigrationInv'
  <1>1. faults' \in Nat
        BY PlaceOf, FaultsCount DEF TakeLock
  <1>2. CASE UNCHANGED holder /\ Goto(p, "rollback")
        BY <1>1, <1>2, FreePlace DEF TakeLock
  <1>3. CASE holder = NoPod /\ holder' = p /\ Goto(p, "read")
    <2>1. "read" \in MigratePcs
          BY DEF MigratePcs
    <2>2. mig'[p].pc = "read" /\ mig'[p].new = mig[p].new /\ mig[p].new = {}
          BY <1>3, <2>1, GotoIsStep, PlaceOf DEF Stage, TakeLock
    <2>3. Stage(p)'
          BY <1>3, <2>2 DEF Stage
    <2>4. \A q \in Pods : holder # q
          BY <1>3, MigrationAssumption
    <2>5. version' = version
          BY DEF TakeLock
    <2>6. AppliedInOrder' /\ version' \in Seq(Nat) /\ Len(version) <= Len(version')
          BY <2>5, PlaceOf DEF AppliedInOrder
    <2>7. holder' \in Pods \cup {NoPod} /\ \A q \in Pods \ {p} : holder = q => holder' = q
          BY <1>3, <2>4
    <2>8. PICK m \in Migrating : mig' = [mig EXCEPT ![p] = m]
          BY <1>3, <2>1, GotoIsStep
    <2>9. QED  BY <1>1, <2>3, <2>5, <2>6, <2>7, <2>8, MigrationInvKept
  <1>4. QED  BY <1>2, <1>3 DEF TakeLock

LEMMA ReadVersionKeeps ==
  ASSUME MigrationInv, NEW p \in Pods, ReadVersion(p)
  PROVE  MigrationInv'
  <1>1. faults' \in Nat /\ UNCHANGED <<version, holder>>
        BY PlaceOf, FaultsCount DEF ReadVersion
  <1>2. CASE Goto(p, "rollback")
        BY <1>1, <1>2, FreePlace DEF ReadVersion
  <1>3. CASE mig' = [mig EXCEPT ![p].next = CurrentVersion + 1,
                 ![p].pc = IF CurrentVersion + 1 >= Known(p) THEN "commit" ELSE "apply"]
    <2> DEFINE l == IF Len(version) >= Known(p) THEN "commit" ELSE "apply"
               m == [mig[p] EXCEPT !.next = Len(version), !.pc = l]
    <2>1. CurrentVersion + 1 = Len(version)
          BY PlaceOf, NextVersion
    <2>2. m \in Migrating /\ mig' = [mig EXCEPT ![p] = m]
          BY <1>3, <2>1, PlaceOf DEF Migrating, MigratePcs
    <2>3. mig[p].pc = "read"
          BY DEF ReadVersion
    <2>4. mig'[p].pc = l /\ mig'[p].next = Len(version) /\ mig'[p].new = mig[p].new
          BY <2>2, PlaceOf DEF Migrating
    <2>5. holder = p /\ mig[p].new = {}
          BY <2>3, PlaceOf DEF Stage
    <2>6. Known(p)' = Known(p) /\ Len(version') = Len(version) /\ holder' = holder
          BY <1>1 DEF Known
    <2>7. Stage(p)'
          BY <2>4, <2>5, <2>6, PlaceOf DEF Stage
    <2>8. QED  BY <1>1, <2>2, <2>7, LocalStep
  <1>4. QED  BY <1>2, <1>3 DEF ReadVersion

LEMMA ApplyVersionKeeps ==
  ASSUME MigrationInv, NEW p \in Pods, ApplyVersion(p)
  PROVE  MigrationInv'
  <1>1. faults' \in Nat /\ UNCHANGED <<version, holder>>
        BY PlaceOf, FaultsCount DEF ApplyVersion
  <1>2. CASE Goto(p, "rollback")
        BY <1>1, <1>2, FreePlace DEF ApplyVersion
  <1>3. CASE mig' = [mig EXCEPT ![p].new = {mig[p].next}, ![p].pc = "commit"]
    <2> DEFINE m == [mig[p] EXCEPT !.new = {mig[p].next}, !.pc = "commit"]
    <2>1. m \in Migrating /\ mig' = [mig EXCEPT ![p] = m]
          BY <1>3, PlaceOf DEF Migrating, MigratePcs
    <2>2. /\ mig'[p].pc = "commit" /\ mig'[p].next = mig[p].next
          /\ mig'[p].new # {}
          BY <2>1, PlaceOf DEF Migrating
    <2>3. mig[p].next = Len(version) /\ mig[p].next < Known(p) /\ holder = p
          BY PlaceOf DEF ApplyVersion, Stage
    <2>4. Known(p)' = Known(p) /\ Len(version') = Len(version) /\ holder' = holder
          BY <1>1 DEF Known
    <2>5. Stage(p)'
          BY <2>2, <2>3, <2>4 DEF Stage
    <2>6. QED  BY <1>1, <2>1, <2>5, LocalStep
  <1>4. QED  BY <1>2, <1>3 DEF ApplyVersion

(* The end of a transaction of p gives its lock back and no other.         *)
LEMMA UnlockKeeps ==
  ASSUME MigrationInv, NEW p \in Pods, Unlock(p)
  PROVE  /\ holder' \in Pods \cup {NoPod}
         /\ \A q \in Pods \ {p} : holder = q => holder' = q
  BY PlaceOf DEF Unlock

(* What the table is after the end of a transaction of p.                  *)
LEMMA TableAfter ==
  ASSUME MigrationInv, NEW p \in Pods,
         UNCHANGED version \/ (mig[p].pc = "commit" /\ Committed(p))
  PROVE  /\ version' \in Seq(Nat) /\ AppliedInOrder'
         /\ Len(version') \in Nat /\ Len(version) <= Len(version')
         /\ version' = version \/ holder = p
  <1>1. CASE UNCHANGED version
        BY <1>1, PlaceOf DEF AppliedInOrder
  <1>2. CASE mig[p].pc = "commit" /\ Committed(p)
    <2>1. holder = p
          BY <1>2, PlaceOf DEF Stage
    <2>2. /\ version' \in Seq(Nat) /\ AppliedInOrder'
          /\ Len(version') = IF mig[p].new = {} THEN Len(version) ELSE Len(version) + 1
          BY <1>2, CommittedInOrder
    <2>3. Len(version') \in Nat /\ Len(version) <= Len(version')
          BY <2>2, PlaceOf
    <2>4. QED  BY <2>1, <2>2, <2>3
  <1>3. QED  BY <1>1, <1>2

(* The end of a transaction of p, at a place that asks nothing of the table. *)
LEMMA EndOfTransaction ==
  ASSUME MigrationInv, NEW p \in Pods, NEW m \in Migrating,
         mig' = [mig EXCEPT ![p] = m], m.pc \in {"none", "failed"},
         m.pc = "none" => m.next = 0, m.new = {},
         Unlock(p), faults' \in Nat,
         UNCHANGED version \/ (mig[p].pc = "commit" /\ Committed(p))
  PROVE  MigrationInv'
  <1>1. mig'[p] = m
        BY PlaceOf
  <1>2. Stage(p)'
        BY <1>1 DEF Stage
  <1>3. QED  BY <1>2, UnlockKeeps, TableAfter, MigrationInvKept

LEMMA CommitKeeps ==
  ASSUME MigrationInv, NEW p \in Pods, Commit(p)
  PROVE  MigrationInv'
  <1>1. faults' \in Nat /\ Unlock(p) /\ mig[p].pc = "commit"
        BY PlaceOf, FaultsCount DEF Commit
  <1>2. CASE /\ Committed(p)
             /\ mig' = [mig EXCEPT ![p] = [pc |-> "loop", next |-> @.next + 1, new |-> {}]]
    <2> DEFINE m == [pc |-> "loop", next |-> mig[p].next + 1, new |-> {}]
    <2>0. mig' = [mig EXCEPT ![p] = m]
          BY <1>2
    <2>1. m \in Migrating /\ mig' = [mig EXCEPT ![p] = m] /\ mig'[p] = m
      <3>1. mig[p].next + 1 \in Nat
            BY PlaceOf
      <3>2. m \in Migrating
            BY <3>1 DEF Migrating, MigratePcs
      <3>3. QED  BY <2>0, <3>2, PlaceOf
    <2>2. /\ mig[p].next = Len(version)
          /\ mig[p].new = {} => Known(p) <= mig[p].next
          BY <1>1, PlaceOf DEF Stage
    <2>3. Len(version') = IF mig[p].new = {} THEN Len(version) ELSE Len(version) + 1
          BY <1>1, <1>2, CommittedInOrder
    <2>4. mig'[p].next <= Len(version') \/ Known(p)' <= Len(version')
      <3>1. CASE mig[p].new = {}
            BY <2>2, <2>3, <3>1, PlaceOf DEF Known
      <3>2. CASE mig[p].new # {}
            BY <2>1, <2>2, <2>3, <3>2, PlaceOf
      <3>3. QED  BY <3>1, <3>2
    <2>5. Stage(p)'
          BY <2>1, <2>4 DEF Stage
    <2>6. QED  BY <1>1, <1>2, <2>1, <2>5, UnlockKeeps, TableAfter, MigrationInvKept
  <1>3. CASE /\ Committed(p) \/ UNCHANGED version
             /\ mig' = [mig EXCEPT ![p].pc = "failed", ![p].new = {}]
    <2> DEFINE m == [mig[p] EXCEPT !.pc = "failed", !.new = {}]
    <2>1. /\ m \in Migrating /\ mig' = [mig EXCEPT ![p] = m]
          /\ m.pc = "failed" /\ m.new = {}
          BY <1>3, PlaceOf DEF Migrating, MigratePcs
    <2>2. QED  BY <1>1, <1>3, <2>1, EndOfTransaction
  <1>4. QED  BY <1>2, <1>3 DEF Commit

LEMMA RollBackKeeps ==
  ASSUME MigrationInv, NEW p \in Pods, RollBack(p)
  PROVE  MigrationInv'
  <1> DEFINE m == [mig[p] EXCEPT !.pc = "failed", !.new = {}]
  <1>1. /\ m \in Migrating /\ mig' = [mig EXCEPT ![p] = m]
        /\ m.pc = "failed" /\ m.new = {}
        BY PlaceOf DEF Migrating, MigratePcs, RollBack
  <1>2. faults' \in Nat /\ Unlock(p) /\ UNCHANGED version
        BY PlaceOf DEF RollBack, NoFault
  <1>3. QED  BY <1>1, <1>2, EndOfTransaction

LEMMA EndMigrateKeeps ==
  ASSUME MigrationInv, NEW p \in Pods, EndMigrate(p), faults' \in Nat
  PROVE  MigrationInv'
  <1>1. NotMigrating \in Migrating /\ mig' = [mig EXCEPT ![p] = NotMigrating]
        BY DEF Migrating, MigratePcs, NotMigrating, EndMigrate
  <1>2. NotMigrating.pc = "none" /\ NotMigrating.next = 0 /\ NotMigrating.new = {}
        BY DEF NotMigrating
  <1>3. QED  BY <1>1, <1>2, EndOfTransaction DEF EndMigrate

LEMMA MigrateStepKeeps ==
  ASSUME MigrationInv, NEW p \in Pods, MigrateStep(p)
  PROVE  MigrationInv'
  BY LoopEndsKeeps, BeginTransactionKeeps, TakeLockKeeps, ReadVersionKeeps,
     ApplyVersionKeeps, CommitKeeps, RollBackKeeps DEF MigrateStep

-----------------------------------------------------------------------------
(* The program around Migrate *)

ProgramInv ==
  /\ MigrationInv
  /\ program \in [Pods -> ProgramPcs]
  /\ \A p \in Pods : program[p] \in Migrated => mig[p].pc = "migrated"

Counted == NoFault \/ \E kind \in FaultKinds : Fault(kind)

LEMMA CountedFaults ==
  ASSUME faults \in Nat, Counted
  PROVE  faults' \in Nat
  BY DEF Counted, NoFault, Fault

LEMMA RefreshCounts ==
  ASSUME NEW p, RefreshStep(p)
  PROVE  Counted
  <1>1. CASE ShowClusters(p)
        BY <1>1 DEF ShowClusters, Counted, FaultKinds
  <1>2. CASE ResolveSaToken(p)
        BY <1>2 DEF ResolveSaToken, Counted, FaultKinds
  <1>3. CASE WhoAmI(p)
        BY <1>3 DEF WhoAmI, Counted, FaultKinds
  <1>4. CASE RequestLock(p) \/ Publish(p)
        BY SMTT(40), <1>4 DEF RequestLock, Publish, Counted
  <1>5. QED  BY <1>1, <1>2, <1>3, <1>4 DEF RefreshStep

LEMMA LookStepCounts ==
  ASSUME NEW p, NEW l, LookStep(p, l) \/ GetUser(p, l)
  PROVE  Counted
  BY DEF LookStep, RLock, MakeCopy, CopyAndSearch, EndLookup, GetUser, Counted, FaultKinds

LEMMA MigrateStepCounts ==
  ASSUME NEW p, MigrateStep(p)
  PROVE  Counted
  BY DEF MigrateStep, LoopEnds, BeginTransaction, TakeLock, ReadVersion, ApplyVersion,
         Commit, RollBack, Counted, FaultKinds

LEMMA NextCounts ==
  ASSUME Next
  PROVE  Counted
  <1>1. ASSUME NEW p \in Pods, MainStep(p)
        PROVE  Counted
    <2>1. CASE Migrates(p)
          BY <2>1, MigrateStepCounts DEF Migrates
    <2>2. CASE StartProgram(p) \/ Connect(p) \/ MigrationFails(p) \/ MigrationDone(p)
          BY <2>2 DEF StartProgram, Connect, MigrationFails, MigrationDone, Counted, FaultKinds
    <2>3. CASE GetOAuthToken(p) \/ GetPublicKeys(p) \/ ClustersFail(p) \/ ClustersLoaded(p)
          BY <2>3 DEF GetOAuthToken, GetPublicKeys, ClustersFail, ClustersLoaded,
                      Counted, FaultKinds
    <2>4. QED  BY <1>1, <2>1, <2>2, <2>3 DEF MainStep
  <1>2. ASSUME NEW p \in Pods, RefresherStep(p)
        PROVE  Counted
        BY <1>2, RefreshCounts DEF RefresherStep, Refreshes, Tick, Counted
  <1>3. ASSUME NEW p \in Pods, AsksForCluster(p) \/ \E l \in Lookups : LooksUp(p, l)
        PROVE  Counted
        BY <1>3, LookStepCounts DEF AsksForCluster, LooksUp
  <1>4. CASE AuthChanges \/ \E p \in Pods : Crash(p)
        BY <1>4 DEF AuthChanges, Crash, Counted, FaultKinds
  <1>5. QED  BY <1>1, <1>2, <1>3, <1>4 DEF Next

(* What a step of the program does to the database and to its own place.   *)
OnlyGoes ==
  /\ UNCHANGED migrationVars
  /\ \/ UNCHANGED program
     \/ \E p \in Pods, pc \in ProgramPcs :
          /\ Goes(p, pc)
          /\ pc \in Migrated => mig[p].pc = "migrated"

EntersMigrate == \E p \in Pods : StartMigrate(p) /\ Goes(p, "migrate") /\ faults' \in Nat

StaysInMigrate == \E p \in Pods :
  program[p] = "migrate" /\ MigrateStep(p) /\ UNCHANGED program

SomeEnds == \E p \in Pods : Ends(p) /\ faults' \in Nat

Shapes == OnlyGoes \/ EntersMigrate \/ StaysInMigrate \/ SomeEnds

LEMMA MainStepShapes ==
  ASSUME ProgramInv, NEW p \in Pods, MainStep(p)
  PROVE  Shapes
  <1>0. faults \in Nat /\ (program[p] \in Migrated => mig[p].pc = "migrated")
        BY DEF ProgramInv, MigrationInv, MigrationTypeOK
  <1>1. CASE StartProgram(p)
        BY <1>1 DEF StartProgram, Shapes, OnlyGoes, ProgramPcs, Migrated
  <1>2. CASE Connect(p)
        BY <1>0, <1>2 DEF Connect, Shapes, OnlyGoes, EntersMigrate, NoFault
  <1>3. CASE Migrates(p)
        BY <1>3 DEF Migrates, Shapes, StaysInMigrate
  <1>4. CASE MigrationFails(p) \/ ClustersFail(p)
        BY <1>0, <1>4 DEF MigrationFails, ClustersFail, Shapes, SomeEnds, NoFault
  <1>5. CASE MigrationDone(p)
        BY <1>5 DEF MigrationDone, Shapes, OnlyGoes, ProgramPcs
  <1>6. CASE GetOAuthToken(p)
    <2>1. CASE Ends(p) /\ Fault("auth")
          BY <1>0, <2>1 DEF Shapes, SomeEnds, Fault
    <2>2. CASE Goes(p, "keys") /\ UNCHANGED migrationVars
          BY <1>0, <1>6, <2>2 DEF GetOAuthToken, Shapes, OnlyGoes, ProgramPcs, Migrated
    <2>3. QED  BY <1>6, <2>1, <2>2 DEF GetOAuthToken
  <1>7. CASE GetPublicKeys(p)
    <2>1. CASE Ends(p) /\ Fault("auth")
          BY <1>0, <2>1 DEF Shapes, SomeEnds, Fault
    <2>2. CASE Goes(p, "clusters") /\ UNCHANGED migrationVars
          BY <1>0, <1>7, <2>2 DEF GetPublicKeys, Shapes, OnlyGoes, ProgramPcs, Migrated
    <2>3. QED  BY <1>7, <2>1, <2>2 DEF GetPublicKeys
  <1>8. CASE ClustersLoaded(p)
        BY <1>0, <1>8 DEF ClustersLoaded, Shapes, OnlyGoes, ProgramPcs, Migrated
  <1>9. QED  BY <1>1, <1>2, <1>3, <1>4, <1>5, <1>6, <1>7, <1>8 DEF MainStep

LEMMA NextShapes ==
  ASSUME ProgramInv, Next
  PROVE  Shapes
  <1>0. faults \in Nat
        BY DEF ProgramInv, MigrationInv, MigrationTypeOK
  <1>1. CASE \E p \in Pods : MainStep(p)
        BY <1>1, MainStepShapes
  <1>2. CASE \E p \in Pods : RefresherStep(p)
        BY <1>2 DEF RefresherStep, Refreshes, Tick, Shapes, OnlyGoes
  <1>3. CASE \E p \in Pods : AsksForCluster(p) \/ \E l \in Lookups : LooksUp(p, l)
        BY <1>3 DEF AsksForCluster, LooksUp, Shapes, OnlyGoes
  <1>4. CASE \E p \in Pods : Crash(p)
        BY <1>0, <1>4 DEF Crash, Shapes, SomeEnds, Fault
  <1>5. CASE AuthChanges
        BY <1>5 DEF AuthChanges, Shapes, OnlyGoes
  <1>6. QED  BY <1>1, <1>2, <1>3, <1>4, <1>5 DEF Next

LEMMA OnlyGoesKeeps ==
  ASSUME ProgramInv, OnlyGoes, faults' \in Nat
  PROVE  ProgramInv'
  <1>1. version' = version /\ holder' = holder /\ mig' = mig
        BY DEF OnlyGoes, migrationVars
  <1>2. MigrationInv'
        BY <1>1 DEF ProgramInv, MigrationInv, MigrationTypeOK, AppliedInOrder, Stage, Known
  <1>3. /\ program' \in [Pods -> ProgramPcs]
        /\ \A q \in Pods : program'[q] \in Migrated => mig[q].pc = "migrated"
        BY DEF ProgramInv, OnlyGoes, Goes
  <1>4. QED  BY <1>1, <1>2, <1>3 DEF ProgramInv

LEMMA EntersMigrateKeeps ==
  ASSUME ProgramInv, EntersMigrate
  PROVE  ProgramInv'
  <1>1. PICK p \in Pods : StartMigrate(p) /\ Goes(p, "migrate") /\ faults' \in Nat
        BY DEF EntersMigrate
  <1>2. MigrationInv'
        BY <1>1, StartMigrateKeeps DEF ProgramInv
  <1>3. /\ mig \in [Pods -> Migrating]
        /\ \A q \in Pods \ {p} : mig'[q] = mig[q]
        BY <1>1 DEF ProgramInv, MigrationInv, MigrationTypeOK, StartMigrate, Goto
  <1>4. /\ program' \in [Pods -> ProgramPcs] /\ program'[p] = "migrate"
        /\ \A q \in Pods \ {p} : program'[q] = program[q]
        BY <1>1 DEF ProgramInv, Goes, ProgramPcs
  <1>5. QED  BY <1>2, <1>3, <1>4 DEF ProgramInv, Migrated

(* A step of Migrate of p is about p only.                                 *)
LEMMA MigrateStepIsOwn ==
  ASSUME MigrationInv, NEW p \in Pods, MigrateStep(p), NEW q \in Pods \ {p}
  PROVE  mig'[q] = mig[q]
  BY PlaceOf DEF MigrateStep, LoopEnds, BeginTransaction, TakeLock, ReadVersion,
                 ApplyVersion, Commit, RollBack, Goto

LEMMA StaysInMigrateKeeps ==
  ASSUME ProgramInv, StaysInMigrate
  PROVE  ProgramInv'
  <1>1. PICK p \in Pods : program[p] = "migrate" /\ MigrateStep(p) /\ UNCHANGED program
        BY DEF StaysInMigrate
  <1>2. MigrationInv'
        BY <1>1, MigrateStepKeeps DEF ProgramInv
  <1>3. \A q \in Pods \ {p} : mig'[q] = mig[q]
        BY <1>1, MigrateStepIsOwn DEF ProgramInv
  <1>4. QED  BY <1>1, <1>2, <1>3 DEF ProgramInv, Migrated

LEMMA SomeEndsKeeps ==
  ASSUME ProgramInv, SomeEnds
  PROVE  ProgramInv'
  <1>1. PICK p \in Pods : Ends(p) /\ faults' \in Nat
        BY DEF SomeEnds
  <1>2. MigrationInv'
        BY <1>1, EndMigrateKeeps DEF ProgramInv, Ends
  <1>3. \A q \in Pods \ {p} : mig'[q] = mig[q]
        BY <1>1 DEF ProgramInv, MigrationInv, MigrationTypeOK, Ends, EndMigrate
  <1>4. /\ program' \in [Pods -> ProgramPcs] /\ program'[p] = "down"
        /\ \A q \in Pods \ {p} : program'[q] = program[q]
        BY <1>1 DEF ProgramInv, Ends, Goes, ProgramPcs
  <1>5. QED  BY <1>2, <1>3, <1>4 DEF ProgramInv, Migrated

LEMMA InitEstablishes ==
  ASSUME Init
  PROVE  ProgramInv
  <1>1. /\ version = <<>> /\ holder = NoPod /\ faults = 0
        /\ mig = [p \in Pods |-> NotMigrating] /\ program = [p \in Pods |-> "down"]
        BY DEF Init, MigrationInit
  <1>2. MigrationTypeOK
        BY <1>1, EmptySeq DEF MigrationTypeOK, NotMigrating, Migrating, MigratePcs
  <1>3. AppliedInOrder
        BY <1>1 DEF AppliedInOrder
  <1>4. \A p \in Pods : Stage(p)
        BY <1>1 DEF Stage, NotMigrating
  <1>5. QED  BY <1>1, <1>2, <1>3, <1>4 DEF ProgramInv, MigrationInv, ProgramPcs, Migrated

LEMMA StepKeeps ==
  ASSUME ProgramInv, [Next]_vars
  PROVE  ProgramInv'
  <1>0. faults \in Nat
        BY DEF ProgramInv, MigrationInv, MigrationTypeOK
  <1>1. CASE Next
    <2>1. Shapes /\ faults' \in Nat
          BY <1>0, <1>1, NextShapes, NextCounts, CountedFaults
    <2>2. QED  BY <2>1, OnlyGoesKeeps, EntersMigrateKeeps, StaysInMigrateKeeps,
                  SomeEndsKeeps DEF Shapes
  <1>2. CASE UNCHANGED vars
    <2>1. OnlyGoes /\ faults' \in Nat
          BY <1>0, <1>2 DEF vars, OnlyGoes, migrationVars
    <2>2. QED  BY <2>1, OnlyGoesKeeps
  <1>3. QED  BY <1>1, <1>2

(* ProgramInv: versions are in the table in order, a migration has left    *)
(* behind what its stage says, a pod past it has migrated (migration.go).  *)
THEOREM Invariance == Spec => []ProgramInv
  <1>1. QED  BY InitEstablishes, StepKeeps, PTL DEF Spec

(* AppliedInOrder: however many pods of whatever releases start, fail and  *)
(* die, every version is applied once, and none is skipped.                *)
THEOREM VersionsInOrder == Spec => []AppliedInOrder
  <1>1. ProgramInv => AppliedInOrder
        BY DEF ProgramInv, MigrationInv
  <1>2. QED  BY <1>1, Invariance, PTL

(* SchemaBeforeService: a pod that has passed Migrate finds the versions   *)
(* of its release in the table, whoever has applied them.                  *)
THEOREM SchemaIsThere == Spec => []SchemaBeforeService
  <1>1. ASSUME ProgramInv, NEW p \in Pods, program[p] \in Migrated
        PROVE  0 .. Known(p) - 1 \subseteq Range(version)
    <2>1. Known(p) <= Len(version) /\ Known(p) \in Nat /\ Len(version) \in Nat
          BY <1>1, PlaceOf DEF ProgramInv, Stage
    <2>2. Range(version) = 0 .. Len(version) - 1
          BY NextVersion, PlaceOf, <1>1 DEF ProgramInv
    <2>3. QED  BY <2>1, <2>2
  <1>2. ProgramInv => SchemaBeforeService
        BY <1>1 DEF SchemaBeforeService
  <1>3. QED  BY <1>2, Invariance, PTL

-----------------------------------------------------------------------------
(* The start of the program implements SchemaUpgrade *)

Ready == {p \in Pods : mig[p].pc = "migrated"}

LEMMA ReadyAfter ==
  ASSUME NEW p \in Pods, \A q \in Pods \ {p} : mig'[q] = mig[q]
  PROVE  Ready' = IF mig'[p].pc = "migrated" THEN Ready \cup {p} ELSE Ready \ {p}
  BY DEF Ready

(* A transaction that ends without making p ready, or unready.             *)
LEMMA EndIsUpgrade ==
  ASSUME MigrationInv, NEW p \in Pods,
         \A q \in Pods \ {p} : mig'[q] = mig[q],
         mig'[p].pc # "migrated",
         UNCHANGED version \/ (mig[p].pc = "commit" /\ Committed(p))
  PROVE  Upgrade!UpgradeFor(p) \/ Upgrade!Stops(p)
  <1>1. Ready' = Ready \ {p}
        BY ReadyAfter
  <1>2. CASE UNCHANGED version
        BY <1>1, <1>2 DEF Upgrade!Stops, Ready
  <1>3. CASE mig[p].pc = "commit" /\ Committed(p) /\ mig[p].new = {}
        BY <1>1, <1>3 DEF Upgrade!Stops, Ready, Committed
  <1>4. CASE mig[p].pc = "commit" /\ Committed(p) /\ mig[p].new # {}
    <2>1. Len(version') = Len(version) + 1
          BY <1>4, CommittedInOrder
    <2>2. Len(version) < Programs[p]
          BY <1>4, PlaceOf DEF Stage, Known
    <2>3. Ready' = Ready
          BY <1>1, <1>4 DEF Ready
    <2>4. QED  BY <2>1, <2>2, <2>3 DEF Upgrade!UpgradeFor, Ready
  <1>5. QED  BY <1>2, <1>3, <1>4

LEMMA MigrateStepIsUpgrade ==
  ASSUME MigrationInv, NEW p \in Pods, MigrateStep(p)
  PROVE  Upgrade!UpgradeFor(p) \/ Upgrade!Stops(p) \/ Upgrade!BecomesReady(p)
  <1>1. \A q \in Pods \ {p} : mig'[q] = mig[q]
        BY MigrateStepIsOwn
  <1>2. CASE LoopEnds(p)
    <2>1. mig'[p].pc = "migrated" /\ version' = version
          BY <1>2, PlaceOf DEF LoopEnds, Goto, Migrating
    <2>2. Programs[p] <= Len(version)
          BY <1>2, PlaceOf DEF LoopEnds, Stage, Known
    <2>3. Ready' = Ready \cup {p}
          BY <1>1, <2>1, ReadyAfter
    <2>4. Len(version) \in Nat /\ Programs[p] \in Nat
          BY PlaceOf DEF Known
    <2>5. QED  BY <2>1, <2>2, <2>3, <2>4 DEF Upgrade!BecomesReady, Ready
  <1>3. CASE Commit(p) \/ RollBack(p)
    <2>1. mig'[p].pc # "migrated"
          BY <1>3, PlaceOf DEF Commit, RollBack, Migrating
    <2>2. UNCHANGED version \/ (mig[p].pc = "commit" /\ Committed(p))
          BY <1>3 DEF Commit, RollBack
    <2>3. QED  BY <1>1, <2>1, <2>2, EndIsUpgrade
  <1>4. CASE BeginTransaction(p) \/ TakeLock(p) \/ ReadVersion(p) \/ ApplyVersion(p)
    <2>1. mig'[p].pc # "migrated" /\ UNCHANGED version
          BY <1>4, PlaceOf DEF BeginTransaction, TakeLock, ReadVersion, ApplyVersion,
                               Goto, Migrating
    <2>2. QED  BY <1>1, <2>1, EndIsUpgrade
  <1>5. QED  BY <1>2, <1>3, <1>4 DEF MigrateStep

LEMMA StepIsUpgrade ==
  ASSUME ProgramInv, [Next]_vars
  PROVE  [Upgrade!Next]_Upgrade!vars
  <1>1. CASE OnlyGoes \/ UNCHANGED vars
        BY <1>1 DEF OnlyGoes, vars, migrationVars, Upgrade!vars
  <1>2. CASE EntersMigrate
    <2>1. PICK p \in Pods : StartMigrate(p)
          BY <1>2 DEF EntersMigrate
    <2>2. /\ \A q \in Pods \ {p} : mig'[q] = mig[q]
          /\ mig'[p].pc = "loop" /\ UNCHANGED version
          BY <2>1, PlaceOf DEF ProgramInv, StartMigrate, Goto, Migrating
    <2>3. QED  BY <2>2, EndIsUpgrade DEF ProgramInv, Upgrade!Next
  <1>3. CASE StaysInMigrate
        BY <1>3, MigrateStepIsUpgrade DEF ProgramInv, StaysInMigrate, Upgrade!Next
  <1>4. CASE SomeEnds
    <2>1. PICK p \in Pods : EndMigrate(p)
          BY <1>4 DEF SomeEnds, Ends
    <2>2. /\ \A q \in Pods \ {p} : mig'[q] = mig[q]
          /\ mig'[p].pc = "none"
          BY <2>1, PlaceOf DEF ProgramInv, EndMigrate, NotMigrating
    <2>3. UNCHANGED version \/ (mig[p].pc = "commit" /\ Committed(p))
          BY <2>1 DEF EndMigrate
    <2>4. QED  BY <2>2, <2>3, EndIsUpgrade DEF ProgramInv, Upgrade!Next
  <1>5. QED  BY <1>1, <1>2, <1>3, <1>4, NextShapes DEF Shapes

(* UpgradeSpec: all that the pods do to the database is to upgrade it      *)
(* version by version up to what the newest of them knows, and a pod is    *)
(* ready only when the table has reached its release.                      *)
THEOREM ImplementsUpgrade == Spec => UpgradeSpec
  <1>1. Init => Upgrade!Init
    <2>1. ASSUME Init
          PROVE  Len(version) = 0 /\ Ready = {}
          BY <2>1 DEF Init, MigrationInit, NotMigrating, Ready
    <2>2. QED  BY <2>1 DEF Upgrade!Init, Ready
  <1>2. ProgramInv /\ [Next]_vars => [Upgrade!Next]_Upgrade!vars
        BY StepIsUpgrade
  <1>3. QED  BY <1>1, <1>2, Invariance, PTL DEF Spec, UpgradeSpec, Upgrade!Spec

-----------------------------------------------------------------------------
(* Pods that migrate at the same time do not make each other fail *)

Failing == {p \in Pods : mig[p].pc \in {"rollback", "failed"}}

LEMMA FailingAfter ==
  ASSUME NEW p \in Pods, \A q \in Pods \ {p} : mig'[q] = mig[q]
  PROVE  /\ Failing' \in {Failing \cup {p}, Failing \ {p}}
         /\ mig'[p].pc \notin {"rollback", "failed"} => Failing' = Failing \ {p}
         /\ mig[p].pc \in {"rollback", "failed"} => Failing' \subseteq Failing
  BY DEF Failing

(* A step of Migrate makes p fail only by a fault: under the lock the      *)
(* version to be inserted cannot be there.                                 *)
LEMMA FailsByFault ==
  ASSUME MigrationInv, NEW p \in Pods, MigrateStep(p),
         mig[p].pc \notin {"rollback", "failed"},
         mig'[p].pc \in {"rollback", "failed"}
  PROVE  faults' = faults + 1
  <1>1. CASE LoopEnds(p) \/ RollBack(p)
        BY <1>1, PlaceOf DEF LoopEnds, RollBack, Goto, Migrating
  <1>2. CASE BeginTransaction(p) \/ TakeLock(p)
        BY <1>2, PlaceOf DEF BeginTransaction, TakeLock, Goto, Migrating, Fault
  <1>3. CASE ReadVersion(p)
        BY <1>3, PlaceOf DEF ReadVersion, Goto, Migrating, Fault
  <1>4. CASE ApplyVersion(p)
    <2>1. mig[p].next \notin Range(version)
      <3>1. mig[p].next = Len(version) /\ Range(version) = 0 .. Len(version) - 1
            BY <1>4, PlaceOf, NextVersion DEF ApplyVersion, Stage
      <3>2. QED  BY <3>1, PlaceOf
    <2>2. QED  BY <1>4, <2>1, PlaceOf DEF ApplyVersion, Goto, Migrating, Fault
  <1>5. CASE Commit(p)
        BY <1>5, PlaceOf DEF Commit, Migrating, Fault
  <1>6. QED  BY <1>1, <1>2, <1>3, <1>4, <1>5 DEF MigrateStep

(* How the pods that fail change with a step.                              *)
LEMMA FailingChanges ==
  ASSUME ProgramInv, Next
  PROVE  \/ Failing' \subseteq Failing
         \/ \E p \in Pods : Failing' = Failing \cup {p} /\ faults' = faults + 1
  <1>1. CASE OnlyGoes
        BY <1>1 DEF OnlyGoes, migrationVars, Failing
  <1>2. CASE EntersMigrate
    <2>1. PICK p \in Pods : StartMigrate(p)
          BY <1>2 DEF EntersMigrate
    <2>2. (\A q \in Pods \ {p} : mig'[q] = mig[q]) /\ mig'[p].pc = "loop"
          BY <2>1, PlaceOf DEF ProgramInv, StartMigrate, Goto, Migrating
    <2>3. QED  BY <2>2, FailingAfter
  <1>3. CASE StaysInMigrate
    <2>1. PICK p \in Pods : MigrateStep(p)
          BY <1>3 DEF StaysInMigrate
    <2>2. \A q \in Pods \ {p} : mig'[q] = mig[q]
          BY <2>1, MigrateStepIsOwn DEF ProgramInv
    <2>3. CASE mig[p].pc \in {"rollback", "failed"} \/ mig'[p].pc \notin {"rollback", "failed"}
          BY <2>2, <2>3, FailingAfter
    <2>4. CASE mig[p].pc \notin {"rollback", "failed"} /\ mig'[p].pc \in {"rollback", "failed"}
      <3>1. faults' = faults + 1
            BY <2>1, <2>4, FailsByFault DEF ProgramInv
      <3>2. QED  BY <2>2, <3>1, FailingAfter
    <2>5. QED  BY <2>3, <2>4
  <1>4. CASE SomeEnds
    <2>1. PICK p \in Pods : EndMigrate(p)
          BY <1>4 DEF SomeEnds, Ends
    <2>2. (\A q \in Pods \ {p} : mig'[q] = mig[q]) /\ mig'[p].pc = "none"
          BY <2>1, PlaceOf DEF ProgramInv, EndMigrate, NotMigrating
    <2>3. QED  BY <2>2, FailingAfter
  <1>5. QED  BY <1>1, <1>2, <1>3, <1>4, NextShapes DEF Shapes

FailingInv == IsFiniteSet(Failing) /\ Cardinality(Failing) <= faults

LEMMA FailingInvKept ==
  ASSUME ProgramInv, FailingInv, [Next]_vars
  PROVE  FailingInv'
  <1>0. faults \in Nat /\ Cardinality(Failing) \in Nat
        BY FS_CardinalityType DEF ProgramInv, MigrationInv, MigrationTypeOK, FailingInv
  <1>1. CASE UNCHANGED vars
        BY <1>1 DEF vars, FailingInv, Failing
  <1>2. CASE Next /\ Failing' \subseteq Failing
    <2>1. IsFiniteSet(Failing') /\ Cardinality(Failing') <= Cardinality(Failing)
          BY <1>2, FS_Subset DEF FailingInv
    <2>2. faults <= faults'
          BY <1>0, <1>2, NextCounts DEF Counted, NoFault, Fault
    <2>3. Cardinality(Failing') \in Nat /\ faults' \in Nat
          BY <1>0, <1>2, <2>1, FS_CardinalityType, NextCounts, CountedFaults
    <2>4. QED  BY <1>0, <2>1, <2>2, <2>3 DEF FailingInv
  <1>3. ASSUME NEW p \in Pods, Failing' = Failing \cup {p}, faults' = faults + 1
        PROVE  FailingInv'
    <2>0. /\ IsFiniteSet(Failing)
          /\ IsFiniteSet(Failing \cup {p})
          /\ \/ Cardinality(Failing \cup {p}) = Cardinality(Failing)
             \/ Cardinality(Failing \cup {p}) = Cardinality(Failing) + 1
          BY FS_AddElement DEF FailingInv
    <2>1. /\ IsFiniteSet(Failing \cup {p})
          /\ Cardinality(Failing \cup {p}) <= Cardinality(Failing) + 1
          BY <1>0, <2>0
    <2>2. Cardinality(Failing \cup {p}) \in Nat
          BY <2>1, FS_CardinalityType
    <2>3. QED  BY <1>0, <1>3, <2>1, <2>2 DEF FailingInv
  <1>4. QED  BY <1>1, <1>2, <1>3, FailingChanges

(* FailsOnlyByFault: the lock keeps pods that migrate at the same time from*)
(* making each other fail.                                                 *)
THEOREM MigrationsDoNotCollide == Spec => []FailsOnlyByFault
  <1>1. Init => FailingInv
    <2>1. ASSUME Init
          PROVE  Failing = {} /\ faults = 0
          BY <2>1 DEF Init, MigrationInit, NotMigrating, Failing
    <2>2. QED  BY <2>1, FS_EmptySet DEF FailingInv
  <1>2. ProgramInv /\ FailingInv /\ [Next]_vars => FailingInv'
        BY FailingInvKept
  <1>3. FailingInv => FailsOnlyByFault
        BY DEF FailingInv, Failing, FailsOnlyByFault
  <1>4. QED  BY <1>1, <1>2, <1>3, Invariance, PTL DEF Spec
=============================================================================
