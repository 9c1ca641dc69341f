\* A cluster with two kinds of data groups, updated.
SPECIFICATION Spec
CONSTANTS
  Names = {"mixed"}
  Configs <- Chosen
  Templates <- Synthesized
  MaxAttempts = 2
  MaxPages = 2
  MaxWrites = 0
  MaxOperations = 1
  MaxFaults = 0
INVARIANTS OneGroupAtATime
CHECK_DEADLOCK FALSE
