SPECIFICATION Spec
CONSTANTS
  Points <- MC_Points
  Radii = {0, 1, 2}
INVARIANTS TypeOK CursorInBox CursorNearLine OutlineDrawn MapSpared
CHECK_DEADLOCK FALSE
