\* One node at a time, but a read of the parameter may fail.
SPECIFICATION Spec
CONSTANTS
  a = a
  b = b
  c = c
  d = d
  e = e
  Instance <- TwoTwo
  Group <- Two
  NotUsed = NotUsed
  NodeType = "query"
  MaxBatch = 1
  WaitTicks = 3
  TaskTicks = 4
  ExecTicks = 5
  HookTicks = 5
  WatchdogTicks = 2
  PauseTicks = 3
  BootTicks = 1
  MaxTasks = 0
  MaxCrashes = 0
  MaxScale = 0
  ReadFaults = TRUE
  WriteFaults = FALSE
SYMMETRY SymmetryTwoTwo

PROPERTIES StopsAfterReplacement
