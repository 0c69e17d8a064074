SPECIFICATION Spec
CONSTANTS
  Wrap = 24
  CountPerOp = 1
  Capacity = 4
  DeviceEvents = {"PI_INT"}
  Delays = {3}
  ViDelay = 9
  NmiDelay = 5
  PowerOnCount = 2
  StatusValues = {}
  CompareSteps = {0, 9}
  CountValues = {9}
  MaxOps = 1
  MaxLate = 0
  Hle = TRUE
  ViRunning = TRUE
  AtBoundary = FALSE
  SignalWhenDue = FALSE
  Loads = TRUE
  Resets = FALSE
INVARIANTS
  TypeOK
  TimersArmed
  NeverEarly
  DueIsSeen
  LoadRestoresQueue
CHECK_DEADLOCK FALSE
