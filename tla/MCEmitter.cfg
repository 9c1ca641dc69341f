\* Three events of any kind, requests of two data, queues of three units.
\* The emitter really stops: nothing runs after close.
SPECIFICATION FairSpec
CONSTANTS
  small = small
  large = large
  Item <- Items
  Size <- Sizes
  Bound = 3
  MaxPut = 2
  MaxEvents = 3
INVARIANTS TypeOK EventsAddUp
PROPERTIES QueuesDrain LossesLeave
CHECK_DEADLOCK FALSE
