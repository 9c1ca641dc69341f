\* One data node, its ingestion tasks, a crash and every fault
\* of a write; the hook outlives the script (customLifecycleHookParams).
SPECIFICATION FairSpec
CONSTANTS
  a = a
  b = b
  c = c
  d = d
  e = e
  Instance <- OneOne
  Group <- One
  NotUsed = NotUsed
  NodeType = "data"
  MaxBatch = 1
  WaitTicks = 3
  TaskTicks = 4
  ExecTicks = 5
  HookTicks = 6
  WatchdogTicks = 2
  PauseTicks = 3
  BootTicks = 0
  MaxTasks = 1
  MaxCrashes = 1
  MaxScale = 0
  ReadFaults = FALSE
  WriteFaults = TRUE
INVARIANTS DrainedMeansIdle TasksGetTheirTime
PROPERTIES TerminationEnds UpdateCompletes
