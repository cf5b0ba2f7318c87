SPECIFICATION Spec
CONSTANTS
  NSlots = 2
  CmdPolls = 2
  Units = {u1, u2}
  Tasks = {t1, t2}
  NoName = NoName
  NoCommand = NoCommand
  NoTask = NoTask
  Orphan = Orphan
  a = a
  b = b
  c = c
  go = go
  p = p
  q = q
  h = h
  Names <- MCNames
  Commands <- MCCommands
  Pins <- MCPins
  HostPins <- MCHostPins
  Images <- MCImages
INVARIANTS TypeOK HandlesAgree NothingIsShared HandlersSeeNoFault OneCommandAtATime WaitsOnALiveSlot

