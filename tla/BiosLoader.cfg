SPECIFICATION Spec
CONSTANTS
  Disks <- MC_Disks
  Cpus <- MC_Cpus
  ModeLists <- MC_ModeLists
  MaxLba = 50
  MaxE820 = 2
  LoadAddr = 8
  SectorBytes = 2
  SegmentBytes = 8
  MaxCount = 3
  MemoryTop = 32
  WrapAt = 48
  SizeSeen = 100
  HeaderBytes = 2
  Gigabytes = 3
  Entries = 4
INVARIANTS TypeOK KernelInPlace BestModeChosen RightClass IdentityMapped
PROPERTIES ReadsFitBios HandsOver
CHECK_DEADLOCK FALSE
