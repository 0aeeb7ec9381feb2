SPECIFICATION StatsFairSpec
CONSTANTS
  NumThreads = 2
  MaxLines = 2
  Kinds = {"worker", "msleep", "wait"}
  Scripts <- MCScripts
  Spurious = {FALSE}
  Stamps <- MCStamps
PROPERTIES WaitReturns
CHECK_DEADLOCK FALSE
