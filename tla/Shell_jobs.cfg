SPECIFICATION LinesSpec
CONSTANTS
  MAX_PROCESSES = 2
  Pids = {p1, p2, p3, p4}
  None = None
  Words <- MCWords
  Lines <- MCLines
  Spelling <- MCSpelling
  MaxFiles = 3
SYMMETRY Symmetry
INVARIANTS
  ListedAreChildren
  BackgroundIsListed
  EndsAreReported
  NobodyIsLeft
  LinesAreMeant
  StdoutIsBack
\* exit ends the shell, and so does a failed fork or fopen.
CHECK_DEADLOCK FALSE
