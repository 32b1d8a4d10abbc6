SPECIFICATION Spec
CONSTANTS
  Kernels <- MC_Kernels
  PageBytes = 4
  MaxEntries = 7
  NoMap = NoMap
INVARIANTS TypeOK OneMapPool WritesOwnPages
PROPERTY HandsOver
CHECK_DEADLOCK FALSE
