SPECIFICATION PlainSpec
CONSTANTS
  UsizeBound <- MC_UsizeBound
  Maps <- MC_OneSection
  Sizes <- MC_PlainSizes
  Handles = {h1, h2, h3}
  NoBlock = NoBlock
  EntryBytes = 16
  TableCap = 5
  MaxCap = 5
  Junk <- MC_NoJunk
SYMMETRY SymHandles
INVARIANTS EntriesDisjoint BooksCover
CHECK_DEADLOCK FALSE
