\* Two nodes in one batch, with a scaling step before or after the update.
SPECIFICATION Spec
CONSTANTS
  a = a
  b = b
  c = c
  d = d
  e = e
  Instance <- TwoThree
  Group <- Two
  NotUsed = NotUsed
  NodeType = "historical"
  MaxBatch = 2
  WaitTicks = 3
  TaskTicks = 4
  ExecTicks = 5
  HookTicks = 5
  WatchdogTicks = 2
  PauseTicks = 3
  BootTicks = 1
  MaxTasks = 0
  MaxCrashes = 0
  MaxScale = 1
  ReadFaults = FALSE
  WriteFaults = FALSE
SYMMETRY SymmetryTwoThree
INVARIANTS ResetInv
PROPERTIES NoMissedReset
