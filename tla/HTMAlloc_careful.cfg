SPECIFICATION CarefulSpec
CONSTANTS
  UsizeBound <- MC_UsizeBound
  Maps <- MC_OneSection
  Sizes <- MC_Sizes
  Handles = {h1, h2, h3}
  NoBlock = NoBlock
  EntryBytes = 16
  TableCap = 5
  MaxCap = 5
  Junk <- MC_NoJunk
SYMMETRY SymHandles
INVARIANTS LiveDisjoint LiveRecorded FirstFitComplete HeadIsTable
PROPERTY KeepsPromise
CHECK_DEADLOCK FALSE
