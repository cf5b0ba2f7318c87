SPECIFICATION Spec
CONSTANTS
  Status = Status
  Load = Load
  Frames <- MCFrames
  PayloadLen <- MCPayloadLen
  Typed <- MCTyped
  MagicLen = 2
  MaxPayload = 2
  LineMax = 1
  MaxFrames = 2
  MaxKeys = 3
  NoFrame = NoFrame
INVARIANTS BuffersHoldStill ResponsesAreWhole
PROPERTIES FramesAreFound NothingWaitsForEver
\* It stops for good once a deleted task holds the lock.
CHECK_DEADLOCK FALSE
