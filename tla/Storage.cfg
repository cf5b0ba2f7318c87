\* Two slots, a pool of 32 bytes in orders 1..5; the images are small,
\* middling, and without data, for which alloc(0) returns NULL.  Two banks of
\* two entries, and a sequence number that wraps after four saves.
CONSTANTS
  s1 = s1
  s2 = s2
  MinOrder = 1
  MaxOrder = 5
  P <- MCPow
  Slots = {s1, s2}
  Shapes <- MCShapes
  HeapStack = 3
  NoSlot = NoSlot
  MaxEntries = 2
  SeqMod = 4
  Images <- MCImages
  Fits <- MCFits
SYMMETRY MCSymmetry
SPECIFICATION MCSpec
INVARIANTS NoOverlap NoHiddenRoom NothingLeaks OnlyTheTestDisturbs
INVARIANTS TypeOK ASetSurvives
PROPERTIES AllocatorSpec SavesAreAtomic
