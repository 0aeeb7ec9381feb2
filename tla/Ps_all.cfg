SPECIFICATION Spec
CONSTANTS
  NPROC = 3
  NOFILE = 1
  UintValues = 4
  Durations <- MCDurations
  Programs <- MCPrograms
  MaxPid = 4
  MaxSwitches = 1
INVARIANTS TotalsAgree RowsAreCurrent StayersAreListed NobodyOversleeps
PROPERTIES NeverEarly
