\* A query tier of two nodes, replaced one at a time; every call may fail but
\* the read of the parameter.
SPECIFICATION Spec
CONSTANTS
  a = a
  b = b
  c = c
  d = d
  e = e
  Instance <- TwoTwo
  Group <- Two
  NotUsed = NotUsed
  NodeType = "query"
  MaxBatch = 1
  WaitTicks = 3
  TaskTicks = 4
  ExecTicks = 5
  HookTicks = 5
  WatchdogTicks = 2
  PauseTicks = 3
  BootTicks = 1
  MaxTasks = 0
  MaxCrashes = 1
  MaxScale = 0
  ReadFaults = FALSE
  WriteFaults = TRUE
SYMMETRY SymmetryTwoTwo
INVARIANTS TypeOK StopsMatched BaseInv UpdateInv LaunchInv MatchInv
PROPERTIES StopsAfterReplacement
