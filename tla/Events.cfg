SPECIFICATION Spec
CONSTANTS
  p1 = p1
  p2 = p2
  u1 = u1
  t1 = t1
  t2 = t2
  console = console
  none = none
  NSlots = 2
  Depth = 2
  Pins <- MCPins
  Uarts <- MCUarts
  Tasks <- MCTasks
  Images <- MCImages
  Console <- console
  NoTask <- none
  NoSlot <- none
INVARIANTS TypeOK LinesFollowTheSlots EventsAreOwn NoLostWakeup
PROPERTIES EventsAreTaken
