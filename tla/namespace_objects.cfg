SPECIFICATION Spec
CONSTANTS
  w1 = w1
  w2 = w2
  Workers = {w1, w2}
  NoObject = NoObject
  Faults = {"os", "forbidden", "template", "save", "crash"}
  MaxFaults = 3
INVARIANTS
  TypeOK
  ReadyIsComplete
PROPERTIES
  DependenciesFirst
  RightsAsDecided
  CleanedAsListed
SYMMETRY Symmetry
CHECK_DEADLOCK FALSE
