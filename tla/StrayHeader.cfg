\* As SlotParts.cfg.
CONSTANTS
  TickMod = 16
  Timeout = 3
  Poll = 1
  Turn = 3
  Rate = 2
  WaitTicks = 2
  Delays = {0, 2, 5, 10}
  HeapSize = 14
  ArgSize = 2
  Header = 2
  SizeMod = 32
  Requests = {0, 1, 3, 30, 31}
  Garbage = {0, 31}
  MaxOwners = 2
  MaxMisuse = 2
  p1 = p1
  p2 = p2
  console = console
  none = none
  Console <- console
  NoSource <- none
  Sources <- MCSources
  Values <- MCValues
  QueueMax = 3
  MaxMerged = 2
  Wrap = 3
SPECIFICATION MCSpec
INVARIANT AllocStaysInTheHeap
