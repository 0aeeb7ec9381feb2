SPECIFICATION Spec
CONSTANTS
  NPROC = 4
  CPUs = {c1, c2}
  MaxPriority = 0
  MaxPid = 4
SYMMETRY Symmetry
INVARIANTS OneCPUEach NoLostWakeup EveryoneHasAParent
PROPERTIES TreeSpec
