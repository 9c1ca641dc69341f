\* Accepted and refused configurations of every shape.
SPECIFICATION FairSpec
CONSTANTS
  Names = {"simple", "split", "mixed", "unserved", "imported", "eks", "fargate", "noData", "noTasks", "noQuery", "fifteen", "noDomain", "twoCerts", "statsd", "crons", "eksRules", "eksOdd", "eksShape", "ecs"}
  Configs <- Chosen
  Templates <- Synthesized
  MaxAttempts = 2
  MaxPages = 2
  MaxWrites = 1
  MaxOperations = 2
  MaxFaults = 1
INVARIANTS TypeOK RolloutOrder QuorumKept RulesInForce TrafficStopped InstallRemovable SgRemovable ServiceComplete
PROPERTIES OperationsEnd
CHECK_DEADLOCK FALSE
