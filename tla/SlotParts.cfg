\* The tick counter wraps every 16 ticks, a delay times the tick rate before
\* that; a delay may be none, short, longer than the timeout, and more than half
\* the counter; the loop may work 3 ticks before it scans again.  A pool of 12
\* bytes of 5-bit sizes; requests of 30 and 31 bytes wrap, and what is no header
\* reads as one that fits nothing or everything.  Two pins and a ring of three
\* records, counts that saturate at 2 and statistics that wrap at 3.
CONSTANTS
  TickMod = 16
  Timeout = 3
  Poll = 1
  Turn = 3
  Rate = 2
  WaitTicks = 2
  Delays = {0, 2, 5, 10}
  HeapSize = 14
  ArgSize = 2
  Header = 2
  SizeMod = 32
  Requests = {0, 1, 3, 30, 31}
  Garbage = {0, 31}
  MaxOwners = 2
  MaxMisuse = 2
  p1 = p1
  p2 = p2
  console = console
  none = none
  Console <- console
  NoSource <- none
  Sources <- MCSources
  Values <- MCValues
  QueueMax = 3
  MaxMerged = 2
  Wrap = 3
SPECIFICATION MCSpec
INVARIANTS HungIsReclaimed PoolIsTiled DamageIsContained TypeOK NothingIsUncounted
PROPERTIES OnlyTheHungAreKilled SleepersAreSpared DeliversTheStream
