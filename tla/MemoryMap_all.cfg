SPECIFICATION Spec
CONSTANTS
  UsizeBound <- MC_UsizeBound
  Boots <- MC_All
  MapCap = 4
  PageBytes = 4
  PointerBytes = 2
INVARIANTS TypeOK MapIsFree MapApart NullNotMapped UnreachableIsUnreachable
PROPERTIES RipTakesNoMore RipTakesEdges Ends
CHECK_DEADLOCK FALSE
