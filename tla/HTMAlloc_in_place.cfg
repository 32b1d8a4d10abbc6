SPECIFICATION Spec
CONSTANTS
  UsizeBound <- MC_UsizeBound
  Maps <- MC_OneSection
  Sizes <- MC_Sizes
  Handles = {h1, h2}
  NoBlock = NoBlock
  EntryBytes = 16
  TableCap = 6
  MaxCap = 6
  Junk <- MC_NoJunk
PROPERTY GrowsIntoFreeBytes
CHECK_DEADLOCK FALSE
