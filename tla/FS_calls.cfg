SPECIFICATION MCSpec
CONSTANTS
  Procs = {p1, p2}
  INITPROC = p1
  NINODE = 3
  NINODES = 3
  ROOTINO = 1
  NBLOCK = 6
  NDIRECT = 1
  NINDIRECT = 2
  DirentsPerBlock = 1
  Names = {"a", "b", "c"}
  Paths <- MCPaths
  Transfers <- MCTransfers
VIEW LiveView
\* Calls that wait for each other or for their own locks, or a panic, stop
\* the machine.
CHECK_DEADLOCK FALSE
INVARIANTS
  RefsAreCounted
  OneEntryPerInode
  CacheIsCurrent
  OnlyOutOfSpace
  DeadlockNeedsPut
  BlocksBelong
  NamesAreLinks
