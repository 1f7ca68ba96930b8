----------------------------- MODULE Deployment -----------------------------
(***************************************************************************)
(* The pods of the service and the faults that may befall them while they  *)
(* start and serve.                                                        *)
(***************************************************************************)
EXTENDS Naturals

CONSTANTS
  Pods,
  Faults,         \* the kinds of faults that may happen
  MaxFaults       \* bound on the number of faults of one behaviour

FaultKinds ==
  {"connect",     \* the database refuses a connection
   "statement",   \* a transaction does not begin, or one of its statements fails
   "commit",      \* the answer to a COMMIT is lost
   "auth",        \* a request to the auth service fails
   "cluster",     \* a request to an OpenShift cluster fails
   "crash"}       \* the process dies

ASSUME DeploymentAssumption ==
  /\ Faults \subseteq FaultKinds
  /\ MaxFaults \in Nat

VARIABLE faults   \* faults that happened

Fault(kind) == /\ kind \in Faults
               /\ faults < MaxFaults
               /\ faults' = faults + 1

NoFault == faults' = faults
=============================================================================
