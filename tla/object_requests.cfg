SPECIFICATION FairSpec
CONSTANTS
  p1 = p1
  p2 = p2
  Callers = {p1, p2}
  Kinds = {"ProjectRequest", "ResourceQuota", "PersistentVolumeClaim"}
  Actions = {"POST", "PATCH", "DELETE", "ENSURE_DELETION"}
  Retries <- Twice
  Faults = {"refused", "noResponse"}
  MaxFaults = 1
INVARIANTS
  TypeOK
  CreatedIfFree
  NothingLostSilently
PROPERTIES
  AcceptedIsWritten
  CreatedIsReady
  DeletedIsGoing
  PatchWaitsForRemoval
  CallsEnd
CHECK_DEADLOCK FALSE
