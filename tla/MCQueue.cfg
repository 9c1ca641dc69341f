\* Two threads that both offer and take; a queue of four units of memory.
SPECIFICATION Spec
CONSTANTS
  t1 = t1
  t2 = t2
  small = small
  large = large
  huge = huge
  Thread <- Threads
  NoThread = NoThread
  Item <- Items
  Size <- Sizes
  Bound = 4
  MaxTake = 3
INVARIANTS MemoryExact TakeFinds
PROPERTIES Implements RefusesOnlyWhenFull
