SPECIFICATION FairSpec
CONSTANTS
  Threads = {t1, t2, t3}
  Works = {w1, w2, w3}
  Dismiss = Dismiss
INVARIANTS
  IndInv
  NoLostWakeup
  ShutdownDrains
PROPERTIES
  WorkIsRun
  ShutdownReturns
  ImplementsPool
\* The program ends after workqueue_shutdown.
CHECK_DEADLOCK FALSE
