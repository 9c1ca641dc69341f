\* A cluster whose data are not to be retained, deleted.
SPECIFICATION Spec
CONSTANTS
  Names = {"simple"}
  Configs <- Chosen
  Templates <- Synthesized
  MaxAttempts = 2
  MaxPages = 2
  MaxWrites = 1
  MaxOperations = 1
  MaxFaults = 0
INVARIANTS DataRemoved
CHECK_DEADLOCK FALSE
