SPECIFICATION PlainSpec
CONSTANTS
  UsizeBound <- MC_UsizeBound
  Maps <- MC_OneSection
  Sizes <- MC_Sizes
  Handles = {h1, h2}
  NoBlock = NoBlock
  EntryBytes = 16
  TableCap = 6
  MaxCap = 6
  Junk <- MC_NoJunk
INVARIANT LiveRecorded
CHECK_DEADLOCK FALSE
