SPECIFICATION Spec
CONSTANTS
  UsizeBound <- MC_UsizeBound
  Maps <- MC_AllMaps
  Sizes <- MC_AnySizes
  Handles = {h1, h2}
  NoBlock = NoBlock
  EntryBytes = 16
  TableCap = 3
  MaxCap = 12
  Junk <- MC_Junk
SYMMETRY SymHandles
INVARIANT TypeOK
PROPERTY NewBlockInMap
CHECK_DEADLOCK FALSE
