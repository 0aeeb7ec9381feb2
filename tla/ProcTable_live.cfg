SPECIFICATION FairSpec
CONSTANTS
  NPROC = 3
  CPUs = {c1}
  MaxPriority = 1
  MaxPid = 3
PROPERTIES EveryRunnableRuns KilledProcessesExit WaitReturns
