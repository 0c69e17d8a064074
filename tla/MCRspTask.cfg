SPECIFICATION FairSpec
CONSTANTS
  Writes <- MCWrites
  MaxYields = 2
  MaxPending = 1
INVARIANTS
  LockTracksTask
  TaskMakesProgress
  HaltMeansDone
  FreezeLosesNothing
PROPERTIES
  TaskCompletes
