SPECIFICATION FairSpec
CONSTANTS
  Wrap = 6
  CountPerOp = 1
  Capacity = 6
  DeviceEvents = {}
  Delays = {}
  ViDelay = 2
  NmiDelay = 2
  PowerOnCount = 1
  StatusValues <- MCDeliveryStatus
  CompareSteps = {}
  CountValues = {}
  MaxOps = 1
  MaxLate = 0
  Hle = TRUE
  ViRunning = FALSE
  AtBoundary = FALSE
  SignalWhenDue = TRUE
  Loads = FALSE
  Resets = TRUE
INVARIANTS
  CycleCountInSync
  NoLostInterrupt
PROPERTIES
  HardResetHappens
  SoftResetHappens
CHECK_DEADLOCK FALSE
