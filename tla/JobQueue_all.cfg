SPECIFICATION StatsFairSpec
CONSTANTS
  NumThreads = 3
  MaxLines = 3
  Kinds = {"worker", "msleep", "wait"}
  Scripts <- MCScripts
  Spurious = {TRUE, FALSE}
  Stamps <- MCStamps
INVARIANTS NoLostWakeup NoHangOnIdle ReportIsTrue
PROPERTIES WaitIsBarrier Termination BusyWaitReturns PoolFairSpec
CHECK_DEADLOCK FALSE
