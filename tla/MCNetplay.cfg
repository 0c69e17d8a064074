SPECIFICATION FairSpec
CONSTANTS
  Players = {1, 2}
  Wrap = 4
  Ahead = 2
  MaxAge = 2
  BufferTarget = 1
  MaxInputs = 5
INVARIANTS
  ListSound
  TakeFinds
  LimiterRestored
PROPERTIES
  InputsInOrder
  ReadReturns
CHECK_DEADLOCK FALSE
