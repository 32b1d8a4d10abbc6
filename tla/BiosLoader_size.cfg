SPECIFICATION Spec
CONSTANTS
  Disks <- MC_Truncated
  Cpus <- MC_Cpus
  ModeLists <- MC_OneMode
  MaxLba = 50
  MaxE820 = 2
  LoadAddr = 8
  SectorBytes = 2
  SegmentBytes = 8
  MaxCount = 3
  MemoryTop = 32
  WrapAt = 48
  SizeSeen = 100
  HeaderBytes = 2
  Gigabytes = 3
  Entries = 4
INVARIANT SegmentsInFile
CHECK_DEADLOCK FALSE
