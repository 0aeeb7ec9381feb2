SPECIFICATION Spec
CONSTANTS
  Half = 8
  KERNBASE = 8
  PageSize = 2
  Word = 2
  StatSize = 3
PROPERTIES KernelStaysInside SbrkMovesTheEnd
