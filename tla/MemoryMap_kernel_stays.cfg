SPECIFICATION Spec
CONSTANTS
  UsizeBound <- MC_UsizeBound
  Boots <- MC_KernelInside
  MapCap = 4
  PageBytes = 4
  PointerBytes = 2
INVARIANT KernelRemoved
CHECK_DEADLOCK FALSE
