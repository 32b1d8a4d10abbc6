-------------------------- MODULE BiosLoader_proofs --------------------------
(***************************************************************************)
(* The BIOS loader on every disk, processor and list of modes, for every   *)
(* size of sectors, segments and files.                                    *)
(*                                                                         *)
(* A first invariant follows load_kernel: where it got the partition, the  *)
(* data and the file from, and that what is read so far is the file's      *)
(* start, in order, from KERNEL_LOAD_ADDR on.  A second one follows the    *)
(* rest: the scan of the modes, the bits of the processor, and the two ELF *)
(* loaders.                                                                *)
(***************************************************************************)
EXTENDS BiosLoader, MinTheorems

AfterLoad == Loaded \cup {"vbe", "modes", "setMode", "stage2"}
AfterDir == AfterLoad \cup {"load"}
AfterBpb == AfterDir \cup {"dir"}
AfterGpt == AfterBpb \cup {"bpb"}
BeforeLoad == {"mbr", "a20", "a20Bios", "a20Check2", "a20Keyboard", "a20Check3", "a20Fast",
               "a20Check4", "e820", "mbrRead", "gpt", "bpb", "dir"}

\* The directory entry load_kernel took.
Taken == EntryFound(disk.dir[file.data], KernelName(x64))
TakenEntry == disk.dir[file.data][Min(Taken)]
Located ==
  /\ disk \in Disks /\ file \in [lba : Int, size : Nat, data : Int]
  /\ pc \in AfterGpt /\ Esps # {} => part = EspLba(disk)
  /\ pc \in AfterBpb => part \in 0..MaxLba /\ file.data = FirstDataLba(disk.bpb[part])
  /\ pc \in AfterDir =>
       /\ file.data \in 0..MaxLba /\ Taken # {}
       /\ file.lba = TakenEntry.cluster + file.data - disk.bpb[part].root
       /\ file.size = TakenEntry.size

\* n sectors are read; those below MemoryTop are there, as they follow on the
\* disk.
At(k) == LoadAddr + k * SectorBytes
InOrder(n) ==
  /\ dest = At(n)
  /\ lba = file.lba + n
  /\ \A a \in DOMAIN buffer : \E k \in 0..n - 1 : a = At(k)
  /\ \A k \in 0..n - 1 : At(k) < MemoryTop =>
       At(k) \in DOMAIN buffer /\ buffer[At(k)] = file.lba + k
FileSectors == Sectors(file.size)
Reading ==
  /\ pc \in BeforeLoad => dest = LoadAddr /\ DOMAIN buffer = {}
  /\ pc \in AfterDir =>
       /\ remaining \in Nat
       /\ \E n \in Nat : InOrder(n) /\ n + remaining = FileSectors
  /\ pc \in AfterLoad => remaining = 0
  /\ \A a \in DOMAIN buffer : buffer[a] \in 0..MaxLba

IInv == Located /\ Reading

-----------------------------------------------------------------------------
\* Division, for every divisor.
LEMMA Division ==
  ASSUME NEW a \in Nat, NEW b \in Nat \ {0}
  PROVE  /\ a \div b \in Nat /\ a % b \in 0..b - 1
         /\ a = b * (a \div b) + (a % b)
  OBVIOUS

LEMMA Multiple ==
  ASSUME NEW s \in Nat \ {0}, NEW a \in Nat, a % s = 0
  PROVE  \E u \in Nat : a = s * u
<1>1. a \div s \in Nat /\ a = s * (a \div s)
  BY Division
<1> QED
  BY <1>1

\* A quotient is the one number of whole divisors that fit.
LEMMA Quotient ==
  ASSUME NEW b \in Nat \ {0}, NEW a \in Nat, NEW q \in Nat, b * q <= a, a < b * (q + 1)
  PROVE  a \div b = q
<1> DEFINE d == a \div b
<1>1. d \in Nat /\ b * d <= a /\ a < b * (d + 1)
  BY Division
<1> HIDE DEF d
<1>2. ASSUME d + 1 <= q PROVE FALSE
  <2>1. b * (d + 1) <= b * q
    BY <1>1, <1>2
  <2>2. b * (d + 1) \in Int /\ b * q \in Int
    BY <1>1
  <2> QED
    BY <2>1, <2>2, <1>1
<1>3. ASSUME q + 1 <= d PROVE FALSE
  <2>1. b * (q + 1) <= b * d
    BY <1>1, <1>3
  <2>2. b * (q + 1) \in Int /\ b * d \in Int
    BY <1>1
  <2> QED
    BY <2>1, <2>2, <1>1
<1> QED
  BY <1>1, <1>2, <1>3 DEF d

\* Rounded up, there are enough sectors for every byte.
LEMMA SectorsEnough ==
  ASSUME NEW s \in Nat \ {0}, NEW z \in Nat, NEW b \in 0..z - 1
  PROVE  b \div s \in 0..((z + s - 1) \div s) - 1
<1> DEFINE x == b \div s  y == (z + s - 1) \div s
<1>1. x \in Nat /\ s * x <= b
  BY Division
<1>2. y \in Nat /\ z + s - 1 < s * y + s
  <2>1. z + s - 1 \in Nat
    OBVIOUS
  <2>2. y \in Nat /\ (z + s - 1) % s \in 0..s - 1
        /\ z + s - 1 = s * y + ((z + s - 1) % s)
    BY <2>1, Division
  <2>3. s * y \in Nat
    BY <2>2
  <2> QED
    BY <2>2, <2>3
<1> HIDE DEF x, y
<1>3. ASSUME y <= x PROVE FALSE
  <2>1. s * y <= s * x /\ s * y \in Nat /\ s * x \in Nat
    BY <1>1, <1>2, <1>3
  <2> QED
    BY <2>1, <1>1, <1>2
<1> QED
  BY <1>1, <1>2, <1>3 DEF x, y

\* Up to the next boundary of g there is room for a sector, and reading no
\* more than there is room for stays on this side of it.
LEMMA RoomToBoundary ==
  ASSUME NEW s \in Nat \ {0}, NEW g \in Nat \ {0}, g % s = 0, NEW d \in Nat, d % s = 0
  PROVE  /\ (g - (d % g)) \div s \in Nat \ {0}
         /\ \A c \in Nat \ {0} : c <= (g - (d % g)) \div s =>
              d \div g = (d + c * s - 1) \div g
<1>1. PICK w \in Nat : g = s * w
  BY Multiple
<1>2. PICK u \in Nat : d = s * u
  BY Multiple
<1> DEFINE q == d \div g
           r == d % g
           v == w - (u - w * q)
<1>3. q \in Nat /\ r \in 0..g - 1 /\ d = g * q + r
  BY Division
<1> HIDE DEF q, r
<1>4. v \in Int /\ g - r = s * v
  <2>1. g * q = s * (w * q) /\ w * q \in Nat
    BY <1>1, <1>3
  <2>2. s * v = s * w - s * u + s * (w * q)
    BY <1>1, <1>2, <2>1
  <2> QED
    BY <1>1, <1>2, <1>3, <2>1, <2>2
<1> HIDE DEF v
<1>5. v >= 1
  <2> SUFFICES ASSUME v <= 0 PROVE FALSE
    BY <1>4
  <2>1. s * v <= 0
    BY <1>4
  <2> QED
    BY <2>1, <1>3, <1>4
<1>6. (g - r) \div s = v
  <2>1. s * (v + 1) = s * v + s
    BY <1>4
  <2> QED
    BY <2>1, <1>3, <1>4, <1>5, Quotient
<1>7. ASSUME NEW c \in Nat \ {0}, c <= v
      PROVE  d \div g = (d + c * s - 1) \div g
  <2>1. c * s <= g - r
    BY <1>4, <1>7
  <2>2. c * s >= 1 /\ c * s \in Nat
    OBVIOUS
  <2>3. g * (q + 1) = g * q + g /\ g * q \in Nat
    BY <1>3
  <2>4. g * q <= d + c * s - 1 /\ d + c * s - 1 < g * (q + 1) /\ d + c * s - 1 \in Nat
    BY <2>1, <2>2, <2>3, <1>3
  <2>5. (d + c * s - 1) \div g = q
    BY <2>4, <1>3, Quotient
  <2> QED
    BY <2>5 DEF q
<1> QED
  BY <1>4, <1>5, <1>6, <1>7 DEF r
-----------------------------------------------------------------------------
\* What a disk holds.
LEMMA DiskType ==
  ASSUME NEW d \in Disks
  PROVE  /\ d.parts \in Seq([esp : BOOLEAN, lba : Nat])
         /\ \A s \in 0..MaxLba : d.bpb[s] \in BPB /\ d.dir[s] \in Seq(DirEntry)
<1>1. d \in Disk
  BY MachinesAssumption
<1> QED
  BY <1>1 DEF Disk

LEMMA TakenType ==
  ASSUME disk \in Disks, file.data \in 0..MaxLba, Taken # {}
  PROVE  /\ Min(Taken) \in Taken /\ \A k \in Taken : Min(Taken) <= k
         /\ TakenEntry \in DirEntry
<1>1. disk.dir[file.data] \in Seq(DirEntry)
  BY DiskType
<1>2. Taken \subseteq DOMAIN disk.dir[file.data] /\ DOMAIN disk.dir[file.data] \subseteq Nat
  BY <1>1 DEF Taken, EntryFound
<1>3. Min(Taken) \in Taken /\ \A k \in Taken : Min(Taken) <= k
  BY <1>2, MinInSet
<1>4. TakenEntry \in DirEntry
  BY <1>1, <1>2, <1>3 DEF TakenEntry
<1> QED
  BY <1>3, <1>4

\* A data area starts at a whole sector number.
LEMMA DataType ==
  ASSUME disk \in Disks, part \in 0..MaxLba
  PROVE  FirstDataLba(disk.bpb[part]) \in Nat
<1> DEFINE b == disk.bpb[part]
           f == IF b.spf16 # 0 THEN b.spf16 ELSE b.spf32
<1>1. b \in BPB
  BY DiskType
<1>2. part \in Nat /\ b.rsvd \in Nat /\ b.nfats \in Nat /\ f \in Nat
  BY <1>1 DEF BPB
<1>3. FirstDataLba(b) = part + b.rsvd + b.nfats * f
  BY DEF FirstDataLba
<1> HIDE DEF b, f
<1>4. b.nfats * f \in Nat
  BY <1>2
<1> QED
  BY <1>2, <1>3, <1>4 DEF b

-----------------------------------------------------------------------------
LEMMA Initially == Init => IInv
  BY DEF Init, RealInit, IInv, Located, Reading, NoFile, BeforeLoad, AfterGpt, AfterBpb,
     AfterDir, AfterLoad, Loaded

\* Steps that leave load_kernel's variables alone and do not jump ahead.
Quiet ==
  /\ UNCHANGED <<disk, part, file, loading, x64>>
  /\ pc' \in BeforeLoad => pc \in BeforeLoad
  /\ pc' \in AfterGpt => pc \in AfterGpt
  /\ pc' \in AfterBpb => pc \in AfterBpb
  /\ pc' \in AfterDir => pc \in AfterDir
  /\ pc' \in AfterLoad => pc \in AfterLoad \/ remaining = 0
LEMMA QuietKeeps == ASSUME IInv, Quiet PROVE IInv'
<1>1. /\ Esps' = Esps /\ EspLba(disk)' = EspLba(disk) /\ Taken' = Taken
      /\ TakenEntry' = TakenEntry /\ FileSectors' = FileSectors
      /\ FirstDataLba(disk.bpb[part])' = FirstDataLba(disk.bpb[part])
      /\ \A n \in Nat : InOrder(n)' <=> InOrder(n)
  BY DEF Quiet, loading, Esps, EspLba, Taken, TakenEntry, FileSectors, Sectors, FirstDataLba,
     InOrder, At
<1>2. Located'
  BY <1>1 DEF IInv, Located, Quiet
<1>3. Reading'
  BY <1>1 DEF IInv, Reading, Quiet, loading
<1> QED
  BY <1>2, <1>3 DEF IInv

LEMMA OthersAreQuiet ==
  ASSUME Next, ~ReadMbr, ~FindPartition, ~ReadBpb, ~FindKernel, ~LoadChunk
  PROVE  Quiet
<1> USE DEF Quiet, AfterGpt, AfterBpb, AfterDir, AfterLoad, Loaded, BeforeLoad, To, PanicAt,
            given, loading, video
<1>1. CASE BootSector
  BY <1>1 DEF BootSector
<1>2. CASE EnableA20
  BY <1>2 DEF EnableA20, A20Check, A20Method
<1>3. CASE WaitIo \/ E820Entry \/ E820End
  BY <1>3 DEF WaitIo, E820Entry, E820End
<1>4. CASE LoadKernelErr \/ InvalidOpcode \/ LoadDone
  BY <1>4 DEF LoadKernelErr, InvalidOpcode, LoadDone
<1>5. CASE VbeInfo \/ VbeErr \/ VbeMode \/ VbeBest \/ Handoff16
  BY <1>5 DEF VbeInfo, VbeErr, VbeMode, VbeBest, Handoff16
<1>6. CASE SecondRead \/ Prot32 \/ LongInit \/ Long64
  BY <1>6 DEF SecondRead, Prot32, LongInit, Long64, real
<1>7. CASE LoadElf32 \/ LoadElf64
  BY <1>7 DEF LoadElf32, LoadElf64, Place, Enter, real
<1> QED
  BY <1>1, <1>2, <1>3, <1>4, <1>5, <1>6, <1>7 DEF Next, RealNext

\* The partition, its data area, and the file.
LEMMA MbrKeeps == ASSUME IInv, ReadMbr PROVE IInv'
  BY DEF IInv, Located, Reading, ReadMbr, To, given, loading, BeforeLoad, AfterGpt, AfterBpb,
     AfterDir, AfterLoad, Loaded

LEMMA PartitionKeeps == ASSUME IInv, FindPartition PROVE IInv'
<1>1. /\ pc = "gpt" /\ pc' = "bpb" /\ disk' = disk /\ file' = file
      /\ dest' = dest /\ buffer' = buffer
      /\ Esps # {} => part' = EspLba(disk)
  BY DEF FindPartition, To, given, loading, Esps, EspLba
<1>2. Esps' = Esps /\ EspLba(disk)' = EspLba(disk)
  BY <1>1 DEF Esps, EspLba
<1> QED
  BY <1>1, <1>2 DEF IInv, Located, Reading, BeforeLoad, AfterBpb, AfterDir, AfterLoad, Loaded

LEMMA BpbKeeps == ASSUME IInv, ReadBpb PROVE IInv'
<1>1. /\ pc = "bpb" /\ pc' = "dir" /\ UNCHANGED <<disk, part, dest, buffer>>
      /\ part \in 0..MaxLba /\ disk \in Disks
      /\ file' = [file EXCEPT !.data = FirstDataLba(disk.bpb[part])]
  BY DEF IInv, Located, ReadBpb, To, given, loading, OnDisk
<1>2. FirstDataLba(disk.bpb[part]) \in Nat
  BY <1>1, DataType
<1>3. /\ file' \in [lba : Int, size : Nat, data : Int]
      /\ file'.data = FirstDataLba(disk.bpb[part])
  BY <1>1, <1>2 DEF IInv, Located
<1>4. /\ Esps' = Esps /\ EspLba(disk)' = EspLba(disk)
      /\ FirstDataLba(disk.bpb[part])' = FirstDataLba(disk.bpb[part])
  BY <1>1 DEF Esps, EspLba, FirstDataLba
<1>5. Located'
  BY <1>1, <1>3, <1>4 DEF IInv, Located, AfterGpt, AfterBpb, AfterDir, AfterLoad, Loaded
<1>6. Reading'
  BY <1>1 DEF IInv, Reading, BeforeLoad, AfterDir, AfterLoad, Loaded
<1> QED
  BY <1>5, <1>6 DEF IInv

LEMMA FindKernelKeeps == ASSUME IInv, FindKernel PROVE IInv'
<1> DEFINE found == EntryFound(disk.dir[file.data], KernelName(Detected64))
           e == disk.dir[file.data][Min(found)]
           root == disk.bpb[part].root
<1>1. /\ pc = "dir" /\ pc' = "load" /\ UNCHANGED <<disk, part, dest, buffer>>
      /\ disk \in Disks /\ file.data \in 0..MaxLba /\ x64' = Detected64 /\ found # {}
      /\ file' = [file EXCEPT !.lba = e.cluster + file.data - root, !.size = e.size]
      /\ lba' = e.cluster + file.data - root
      /\ remaining' = Sectors(e.size)
  BY DEF IInv, Located, FindKernel, To, OnDisk, given
<1>2. /\ part \in 0..MaxLba /\ file.data = FirstDataLba(disk.bpb[part])
      /\ file \in [lba : Int, size : Nat, data : Int]
      /\ Esps # {} => part = EspLba(disk)
  BY <1>1 DEF IInv, Located, AfterGpt, AfterBpb
<1>3. disk.dir[file.data] \in Seq(DirEntry) /\ disk.bpb[part] \in BPB
  BY <1>1, <1>2, DiskType
<1>4. e \in DirEntry
  <2>1. found \subseteq DOMAIN disk.dir[file.data] /\ DOMAIN disk.dir[file.data] \subseteq Nat
    BY <1>3 DEF EntryFound
  <2>2. Min(found) \in found
    BY <1>1, <2>1, MinInSet
  <2> QED
    BY <1>3, <2>1, <2>2
<1>5. e.cluster \in Nat /\ e.size \in Nat /\ root \in Nat
  BY <1>3, <1>4 DEF DirEntry, BPB
<1> HIDE DEF e, root
<1>6. /\ file' \in [lba : Int, size : Nat, data : Int]
      /\ file'.lba = e.cluster + file.data - root /\ file'.size = e.size /\ file'.data = file.data
  <2> DEFINE first == e.cluster + file.data - root
  <2>1. first \in Int
    BY <1>2, <1>5
  <2>2. file' = [file EXCEPT !.lba = first, !.size = e.size]
    BY <1>1
  <2> HIDE DEF first
  <2>3. file' \in [lba : Int, size : Nat, data : Int] /\ file'.lba = first
        /\ file'.size = e.size /\ file'.data = file.data
    BY <2>1, <2>2, <1>2, <1>5
  <2> QED
    BY <2>3 DEF first
<1>7. /\ Esps' = Esps /\ EspLba(disk)' = EspLba(disk)
      /\ FirstDataLba(disk.bpb[part])' = FirstDataLba(disk.bpb[part])
      /\ Taken' = found /\ TakenEntry' = e
  BY <1>1, <1>6 DEF Esps, EspLba, FirstDataLba, Taken, TakenEntry, e
<1>8. Located'
  BY <1>1, <1>2, <1>6, <1>7 DEF Located, AfterGpt, AfterBpb, root
<1>9. remaining' \in Nat /\ FileSectors' = remaining'
  <2>1. e.size + SectorBytes - 1 \in Nat
    BY <1>5, LoadAssumption
  <2> QED
    BY <2>1, <1>1, <1>6, LoadAssumption, Division DEF FileSectors, Sectors
<1>10. InOrder(0)'
  <2>1. dest = LoadAddr /\ DOMAIN buffer = {} /\ LoadAddr \in Nat /\ SectorBytes \in Nat
    BY <1>1, LoadAssumption DEF IInv, Reading, BeforeLoad
  <2>2. lba' = file'.lba /\ file'.lba \in Int
    BY <1>1, <1>6
  <2> QED
    BY <2>1, <2>2, <1>1 DEF InOrder, At
<1>11. Reading'
  BY <1>1, <1>9, <1>10 DEF IInv, Reading, BeforeLoad, AfterLoad, Loaded
<1> QED
  BY <1>8, <1>11 DEF IInv

-----------------------------------------------------------------------------
\* Count is at least one sector, and at most each of its three bounds.
LEMMA CountFits ==
  ASSUME IInv, LoadChunk
  PROVE  /\ Count \in 1..MaxCount /\ Count <= remaining
         /\ dest \in Nat
         /\ dest \div SegmentBytes = (dest + Count * SectorBytes - 1) \div SegmentBytes
<1> DEFINE room == (SegmentBytes - (dest % SegmentBytes)) \div SectorBytes
           bounds == {remaining, room, MaxCount}
<1>1. PICK n \in Nat : InOrder(n) /\ n + remaining = FileSectors
  BY DEF IInv, Reading, LoadChunk, AfterDir
<1>2. remaining \in Nat /\ remaining > 0
  BY DEF IInv, Reading, LoadChunk, AfterDir
<1>3. dest \in Nat /\ dest % SectorBytes = 0
  <2>1. PICK u \in Nat : LoadAddr = SectorBytes * u
    BY Multiple, LoadAssumption
  <2>2. dest = SectorBytes * (u + n)
    BY <2>1, <1>1, LoadAssumption DEF InOrder, At
  <2>3. SectorBytes * (u + n) \in Nat
    BY LoadAssumption
  <2>4. (SectorBytes * (u + n)) % SectorBytes = 0
    BY <2>3, LoadAssumption
  <2> QED
    BY <2>2, <2>3, <2>4
<1>4. /\ room \in Nat \ {0}
      /\ \A c \in Nat \ {0} : c <= room =>
           dest \div SegmentBytes = (dest + c * SectorBytes - 1) \div SegmentBytes
  <2>1. /\ SectorBytes \in Nat \ {0} /\ SegmentBytes \in Nat \ {0}
        /\ SegmentBytes % SectorBytes = 0
    BY LoadAssumption
  <2> QED
    BY <1>3, <2>1, RoomToBoundary, Zenon
<1> HIDE DEF room
<1>5. MaxCount \in Nat \ {0}
  BY LoadAssumption
<1>6. Count = Min(bounds)
  BY DEF Count, room
<1>7. bounds \subseteq Nat /\ bounds # {}
  BY <1>2, <1>4, <1>5
<1>8. Min(bounds) \in bounds /\ \A x \in bounds : Min(bounds) <= x
  BY <1>7, MinInSet
<1>9. Count \in Nat \ {0} /\ Count <= remaining /\ Count <= room /\ Count <= MaxCount
  BY <1>2, <1>4, <1>5, <1>6, <1>8
<1> QED
  BY <1>3, <1>4, <1>5, <1>9

\* The sectors of one read follow those read before.
LEMMA ChunkKeeps == ASSUME IInv, LoadChunk PROVE IInv'
<1> DEFINE S == SectorBytes
<1>1. S \in Nat \ {0} /\ LoadAddr \in Nat
  BY LoadAssumption
<1>2. PICK c \in Nat \ {0} : c = Count /\ c <= remaining /\ dest \in Nat
  BY CountFits, LoadAssumption
<1>3. PICK n \in Nat : InOrder(n) /\ n + remaining = FileSectors
  BY DEF IInv, Reading, LoadChunk, AfterDir
<1>4. UNCHANGED <<disk, part, file, x64>> /\ pc = "load" /\ remaining \in Nat
  BY DEF IInv, Reading, LoadChunk, given, AfterDir
<1>5. file.lba \in Int
  BY DEF IInv, Located
<1>6. /\ pc' = pc
      /\ buffer' = [a \in DOMAIN buffer \cup {b \in ReadTo : b < MemoryTop} |->
                      IF a < dest THEN buffer[a] ELSE lba + (a - dest) \div S]
      /\ dest' = dest + c * S /\ lba' = LbaNext /\ remaining' = remaining - c
      /\ ReadTo = {dest + k * S : k \in 0..c - 1}
      /\ lba \in 0..MaxLba /\ lba + c - 1 <= MaxLba
  BY <1>2 DEF LoadChunk, ReadTo, OnDisk
<1>7. dest = At(n) /\ lba = file.lba + n
  BY <1>3 DEF InOrder
<1>8. /\ \A a \in DOMAIN buffer : \E k \in 0..n - 1 : a = At(k)
      /\ \A k \in 0..n - 1 : At(k) < MemoryTop =>
           At(k) \in DOMAIN buffer /\ buffer[At(k)] = file.lba + k
      /\ \A a \in DOMAIN buffer : buffer[a] \in 0..MaxLba
  BY <1>3 DEF InOrder, IInv, Reading
<1> HIDE DEF S
<1>9. /\ \A k \in Int : At(k) \in Int /\ dest + k * S = At(n + k)
      /\ \A k, m \in Int : k < m => At(k) < At(m)
  <2>1. \A k \in Int : At(k) = LoadAddr + k * S /\ k * S \in Int
    BY <1>1 DEF At, S
  <2>2. ASSUME NEW k \in Int PROVE dest + k * S = At(n + k)
    <3>1. (n + k) * S = n * S + k * S /\ n * S \in Int
      BY <1>1
    <3>2. dest = LoadAddr + n * S /\ At(n + k) = LoadAddr + (n + k) * S
      BY <2>1, <1>7
    <3> QED
      BY <3>1, <3>2, <2>1, <1>1
  <2>3. ASSUME NEW k \in Int, NEW m \in Int, k < m PROVE At(k) < At(m)
    <3>1. (k + 1) * S <= m * S /\ (k + 1) * S = k * S + S
      BY <2>3, <1>1
    <3>2. k * S \in Int /\ m * S \in Int /\ (k + 1) * S \in Int
      BY <1>1
    <3>3. At(k) = LoadAddr + k * S /\ At(m) = LoadAddr + m * S
      BY <2>1
    <3> QED
      BY <3>1, <3>2, <3>3, <1>1
  <2>4. \A k \in Int : At(k) \in Int
    BY <2>1, <1>1
  <2>5. \A k \in Int : dest + k * S = At(n + k)
    BY <2>2
  <2>6. \A k, m \in Int : k < m => At(k) < At(m)
    BY <2>3
  <2> QED
    BY <2>4, <2>5, <2>6
<1>10. dest' = At(n + c) /\ lba' = file.lba + (n + c)
  <2>1. c \in Int /\ dest' = dest + c * S
    BY <1>6
  <2>2. dest' = At(n + c)
    BY <2>1, <1>9
  <2>3. lba' = lba + c
    BY <1>2, <1>6 DEF LbaNext
  <2>4. lba' = file.lba + (n + c)
    BY <2>3, <1>5, <1>7
  <2> QED
    BY <2>2, <2>4
\* Where a sector of this read goes, and which it is.
<1>11. ASSUME NEW k \in 0..c - 1
       PROVE  /\ dest + k * S = At(n + k) /\ ~(At(n + k) < dest)
              /\ lba + (At(n + k) - dest) \div S = file.lba + (n + k)
  <2>1. At(n + k) - dest = k * S /\ dest + k * S = At(n + k)
    <3>1. k \in Int
      OBVIOUS
    <3>2. dest + k * S = At(n + k)
      BY <3>1, <1>9
    <3>3. k * S \in Int
      BY <1>1
    <3> QED
      BY <3>2, <3>3, <1>2
  <2>2. (k * S) \div S = k /\ k * S \in Nat
    BY <1>1
  <2> QED
    BY <2>1, <2>2, <1>2, <1>5, <1>7
<1>12. \A a \in DOMAIN buffer' : \E k \in 0..n + c - 1 : a = At(k)
  <2> SUFFICES ASSUME NEW a \in DOMAIN buffer' PROVE \E k \in 0..n + c - 1 : a = At(k)
    OBVIOUS
  <2>1. CASE a \in DOMAIN buffer
    BY <2>1, <1>8, <1>2
  <2>2. CASE a \in ReadTo
    <3>1. PICK k \in 0..c - 1 : a = dest + k * S
      BY <2>2, <1>6
    <3>2. a = At(n + k) /\ n + k \in 0..n + c - 1
      BY <3>1, <1>11, <1>2
    <3> QED
      BY <3>2
  <2> QED
    BY <2>1, <2>2, <1>6
<1>13. ASSUME NEW k \in 0..n + c - 1, At(k) < MemoryTop
       PROVE  At(k) \in DOMAIN buffer' /\ buffer'[At(k)] = file.lba + k
  <2>1. CASE k < n
    <3>1. At(k) \in DOMAIN buffer /\ buffer[At(k)] = file.lba + k
      BY <2>1, <1>8, <1>13
    <3>2. At(k) < dest
      BY <2>1, <1>7, <1>9
    <3> QED
      BY <3>1, <3>2, <1>6
  <2>2. CASE k >= n
    <3>1. k - n \in 0..c - 1 /\ n + (k - n) = k
      BY <2>2, <1>2
    <3> DEFINE j == k - n
    <3>2. j \in 0..c - 1 /\ n + j = k
      BY <3>1
    <3> HIDE DEF j
    <3>3. At(k) \in ReadTo /\ ~(At(k) < dest) /\ lba + (At(k) - dest) \div S = file.lba + k
      BY <3>2, <1>6, <1>11
    <3> QED
      BY <3>3, <1>6, <1>13
  <2> QED
    BY <2>1, <2>2
<1>14. \A a \in DOMAIN buffer' : buffer'[a] \in 0..MaxLba
  <2> SUFFICES ASSUME NEW a \in DOMAIN buffer' PROVE buffer'[a] \in 0..MaxLba
    OBVIOUS
  <2>1. CASE a < dest
    <3>1. a \notin ReadTo
      <4> SUFFICES ASSUME a \in ReadTo PROVE FALSE
        OBVIOUS
      <4>1. PICK k \in 0..c - 1 : a = dest + k * S
        BY <1>6
      <4> QED
        BY <4>1, <2>1, <1>11
    <3> QED
      BY <3>1, <2>1, <1>6, <1>8
  <2>2. CASE ~(a < dest)
    <3>1. a \in ReadTo
      <4>1. CASE a \in DOMAIN buffer
        <5>1. PICK k \in 0..n - 1 : a = At(k)
          BY <4>1, <1>8
        <5>2. a < dest
          BY <5>1, <1>7, <1>9
        <5> QED
          BY <5>2, <2>2
      <4> QED
        BY <4>1, <1>6
    <3>2. PICK k \in 0..c - 1 : a = dest + k * S
      BY <3>1, <1>6
    <3>3. a = At(n + k) /\ lba + (a - dest) \div S = lba + k
      BY <3>2, <1>11, <1>7, <1>5
    <3>4. buffer'[a] = lba + k
      BY <3>3, <2>2, <1>6
    <3>5. lba \in 0..MaxLba /\ lba + c - 1 <= MaxLba
      BY <1>6
    <3>6. MaxLba \in Int
      BY LoadAssumption
    <3>7. lba + k \in 0..MaxLba
      BY <3>5, <3>6, <1>2
    <3> QED
      BY <3>4, <3>7
  <2> QED
    BY <2>1, <2>2
<1>15. InOrder(n + c)'
  <2>1. \A k : At(k)' = At(k)
    BY DEF At
  <2> QED
    BY <2>1, <1>4, <1>10, <1>12, <1>13 DEF InOrder
<1>16. remaining' \in Nat /\ n + c \in Nat /\ (n + c) + remaining' = FileSectors'
  <2>1. FileSectors' = FileSectors
    BY <1>4 DEF FileSectors, Sectors
  <2> QED
    BY <2>1, <1>2, <1>3, <1>4, <1>6
<1>17. Reading'
  <2>1. \E m \in Nat : InOrder(m)' /\ m + remaining' = FileSectors'
    BY <1>15, <1>16
  <2> QED
    BY <2>1, <1>14, <1>16, <1>4, <1>6 DEF Reading, BeforeLoad, AfterLoad, Loaded
<1>18. Located'
  <2>1. /\ Esps' = Esps /\ EspLba(disk)' = EspLba(disk) /\ Taken' = Taken
        /\ TakenEntry' = TakenEntry
        /\ FirstDataLba(disk.bpb[part])' = FirstDataLba(disk.bpb[part])
    BY <1>4 DEF Esps, EspLba, Taken, TakenEntry, FirstDataLba
  <2> QED
    BY <2>1, <1>4, <1>6 DEF IInv, Located
<1> QED
  BY <1>17, <1>18 DEF IInv

-----------------------------------------------------------------------------
LEMMA StepKeeps == ASSUME IInv, [Next]_vars PROVE IInv'
<1>1. CASE UNCHANGED vars
  <2>1. Quiet
    BY <1>1 DEF Quiet, vars, real, given, loading
  <2> QED
    BY <2>1, QuietKeeps
<1>2. CASE Next /\ ~(ReadMbr \/ FindPartition \/ ReadBpb \/ FindKernel \/ LoadChunk)
  <2>1. Quiet
    BY <1>2, OthersAreQuiet
  <2> QED
    BY <2>1, QuietKeeps
<1> QED
  BY <1>1, <1>2, MbrKeeps, PartitionKeeps, BpbKeeps, FindKernelKeeps, ChunkKeeps

\* load_kernel knows where the kernel's file is, and what is read of it so far
\* is in order: all the loader's later steps rely on.
THEOREM Inductive == Spec => []IInv
<1>1. Init => IInv
  BY Initially
<1>2. IInv /\ [Next]_vars => IInv'
  BY StepKeeps
<1> QED
  BY <1>1, <1>2, PTL DEF Spec

-----------------------------------------------------------------------------
\* load_kernel_data, for every size of sectors and segments: a read has from
\* one sector to the most the BIOS takes, and does not cross a segment.
THEOREM ReadsFit == Spec => ReadsFitBios
<1> DEFINE n == (dest' - dest) \div SectorBytes
           Fits == dest' # dest => /\ n \in 1..MaxCount
                                   /\ dest \div SegmentBytes = (dest' - 1) \div SegmentBytes
<1>1. ASSUME IInv, [Next]_vars PROVE Fits
  <2>1. CASE LoadChunk
    <3>1. dest' = dest + Count * SectorBytes
      BY <2>1 DEF LoadChunk
    <3>2. Count \in 1..MaxCount /\ dest \in Nat /\ SectorBytes \in Nat \ {0}
      BY <2>1, <1>1, CountFits, LoadAssumption
    <3>3. dest' - dest = Count * SectorBytes
      BY <3>1, <3>2, LoadAssumption
    <3>4. (Count * SectorBytes) \div SectorBytes = Count
      BY <3>2, LoadAssumption
    <3> QED
      BY <2>1, <1>1, <3>1, <3>2, <3>3, <3>4, CountFits
  <2>2. CASE ~LoadChunk /\ Next
    <3>1. dest' = dest
      <4>1. CASE ReadMbr \/ FindPartition \/ ReadBpb \/ FindKernel
        BY <4>1 DEF ReadMbr, FindPartition, ReadBpb, FindKernel, loading
      <4>2. CASE ~(ReadMbr \/ FindPartition \/ ReadBpb \/ FindKernel)
        BY <2>2, <4>2, OthersAreQuiet DEF Quiet, loading
      <4> QED
        BY <4>1, <4>2
    <3> QED
      BY <3>1
  <2>3. CASE UNCHANGED vars
    BY <2>3 DEF vars, real, loading
  <2> QED
    BY <1>1, <2>1, <2>2, <2>3
<1>2. IInv /\ [Next]_vars => [Fits]_vars
  BY <1>1
<1> QED
  BY <1>2, Inductive, PTL DEF Spec, ReadsFitBios

-----------------------------------------------------------------------------
\* On a disk as x86.sh makes it, the entry taken is the first with the
\* kernel's name, and the file starts at its first cluster.
LEMMA TakenIsKernel ==
  ASSUME Located, pc \in AfterDir, AsBuilt(disk)
  PROVE  /\ disk.dir[file.data] = RootDir(disk) /\ RootDir(disk) \in Seq(DirEntry)
         /\ Min(Taken) \in DOMAIN RootDir(disk)
         /\ IsKernelOf(disk, KernelName(x64), Min(Taken))
         /\ TakenEntry = RootDir(disk)[Min(Taken)]
         /\ TakenEntry \in DirEntry /\ file.lba = ClusterLba(disk, TakenEntry.cluster)
         /\ file.size = TakenEntry.size
         /\ \A c \in Nat : ClusterLba(disk, c) = file.data + c - 2
<1>1. /\ disk \in Disks /\ part \in 0..MaxLba /\ file.data \in 0..MaxLba /\ Taken # {}
      /\ Esps # {} /\ part = EspLba(disk) /\ file.data = FirstDataLba(disk.bpb[part])
      /\ file.lba = TakenEntry.cluster + file.data - disk.bpb[part].root
      /\ file.size = TakenEntry.size
  BY DEF Located, AfterGpt, AfterBpb, AsBuilt
<1> DEFINE b == disk.bpb[part]
           d == disk.dir[file.data]
           k == Min(Taken)
<1>2. b \in BPB /\ Bpb(disk) = b
  BY <1>1, DiskType DEF Bpb
<1>3. b.spf16 = 0 /\ b.root = 2 /\ b.spc = 1
  BY <1>2 DEF AsBuilt
<1>4. /\ k \in Taken /\ \A m \in Taken : k <= m
      /\ TakenEntry \in DirEntry
  BY <1>1, TakenType
<1>5. /\ k \in DOMAIN d /\ d[k].name = KernelName(x64)
      /\ \A m \in 1..k - 1 : d[m].name # "zero"
  BY <1>4 DEF Taken, EntryFound
<1>6. ASSUME NEW m \in 1..k - 1 PROVE d[m].name # KernelName(x64)
  <2> SUFFICES ASSUME d[m].name = KernelName(x64) PROVE FALSE
    OBVIOUS
  <2>1. d \in Seq(DirEntry)
    BY <1>1, DiskType
  <2>2. k \in 1..Len(d)
    BY <2>1, <1>5
  <2>3. m \in DOMAIN d /\ \A j \in 1..m - 1 : d[j].name # "zero"
    BY <2>1, <2>2, <1>5
  <2>4. m \in Taken
    BY <2>3 DEF Taken, EntryFound
  <2> QED
    BY <2>2, <2>4, <1>4
<1>7. file.data = part + b.rsvd + b.nfats * b.spf32
  BY <1>1, <1>3 DEF FirstDataLba
<1>8. \A c : ClusterLba(disk, c) = part + b.rsvd + b.nfats * b.spf32 + (c - 2) * b.spc
  BY <1>1, <1>2 DEF ClusterLba
<1> HIDE DEF b
<1>9. part \in Nat /\ b.rsvd \in Nat /\ b.nfats * b.spf32 \in Nat
  BY <1>1, <1>2 DEF BPB
<1>10. \A c \in Nat : ClusterLba(disk, c) = file.data + c - 2
  <2> SUFFICES ASSUME NEW c \in Nat PROVE ClusterLba(disk, c) = file.data + c - 2
    OBVIOUS
  <2>1. (c - 2) * b.spc = c - 2
    BY <1>3
  <2> QED
    BY <2>1, <1>7, <1>8, <1>9
<1>11. d = RootDir(disk)
  <2>1. ClusterLba(disk, 2) = file.data
    BY <1>1, <1>10
  <2> QED
    BY <2>1, <1>2, <1>3 DEF RootDir
<1>12. file.lba = ClusterLba(disk, TakenEntry.cluster)
  <2>1. TakenEntry.cluster \in Nat /\ file.lba = TakenEntry.cluster + file.data - 2
    BY <1>1, <1>3, <1>4 DEF DirEntry, b
  <2> QED
    BY <2>1, <1>10, <1>1
<1>13. IsKernelOf(disk, KernelName(x64), k)
  BY <1>5, <1>6, <1>11 DEF IsKernelOf
<1>14. RootDir(disk) \in Seq(DirEntry) /\ TakenEntry = RootDir(disk)[k]
  BY <1>1, <1>11, DiskType DEF TakenEntry
<1> QED
  BY <1>1, <1>4, <1>5, <1>10, <1>11, <1>12, <1>13, <1>14

\* And a file in one piece is where the loader reads it from.
LEMMA TakenInPiece ==
  ASSUME Located, pc \in AfterDir, AsBuilt(disk), InOnePiece(TakenEntry),
         NEW s \in 0..FileSectors - 1
  PROVE  SectorLba(disk, TakenEntry, s) = file.lba + s
<1> DEFINE e == TakenEntry
<1>1. /\ e \in DirEntry /\ file.lba = ClusterLba(disk, e.cluster) /\ file.size = e.size
      /\ \A c \in Nat : ClusterLba(disk, c) = file.data + c - 2
      /\ file.data \in 0..MaxLba
  BY TakenIsKernel DEF Located
<1>2. /\ Len(e.chain) >= FileSectors
      /\ \A c \in DOMAIN e.chain : e.chain[c] = e.cluster + c - 1
  BY <1>1 DEF InOnePiece, FileSectors
<1>3. e.chain \in Seq(Nat) /\ e.cluster \in Nat
  BY <1>1 DEF DirEntry
<1>4. s \in Nat /\ s < FileSectors /\ FileSectors \in Int
  <2>1. FileSectors \in Int
    <3>1. file.size \in Nat
      BY <1>1 DEF DirEntry
    <3>2. file.size + SectorBytes - 1 \in Nat
      BY <3>1, LoadAssumption
    <3> QED
      BY <3>2, LoadAssumption, Division DEF FileSectors, Sectors
  <2> QED
    BY <2>1
<1>5. s + 1 \in DOMAIN e.chain
  <2>1. DOMAIN e.chain = 1..Len(e.chain) /\ Len(e.chain) \in Nat
    BY <1>3
  <2>2. FileSectors \in Int
    BY <1>4
  <2> QED
    BY <2>1, <2>2, <1>2, <1>4
<1>6. s \div 1 = s /\ s % 1 = 0
  BY <1>4
<1>7. SectorLba(disk, e, s) = ClusterLba(disk, e.chain[s + 1]) + 0
  BY <1>6 DEF SectorLba, AsBuilt
<1>8. e.chain[s + 1] = e.cluster + s
  BY <1>2, <1>3, <1>4, <1>5
<1>9. ClusterLba(disk, e.cluster + s) = file.data + (e.cluster + s) - 2
  BY <1>1, <1>3, <1>4
<1>10. file.lba = file.data + e.cluster - 2
  BY <1>1, <1>3
<1>11. SectorLba(disk, e, s) = ClusterLba(disk, e.cluster + s)
  <2>1. e.cluster + s \in Nat
    BY <1>3, <1>4
  <2>2. ClusterLba(disk, e.cluster + s) \in Int
    BY <1>9, <2>1, <1>1
  <2> QED
    BY <1>7, <1>8, <2>2
<1>12. file.data \in Int
  BY <1>1
<1> HIDE DEF e
<1>13. SectorLba(disk, e, s) = file.data + (e.cluster + s) - 2
  BY <1>9, <1>11
<1>14. SectorLba(disk, e, s) = file.lba + s
  <2> DEFINE c == e.cluster
  <2>1. c \in Int /\ s \in Int /\ file.data \in Int
    BY <1>3, <1>4, <1>12
  <2>2. SectorLba(disk, e, s) = file.data + (c + s) - 2 /\ file.lba = file.data + c - 2
    BY <1>10, <1>13
  <2> HIDE DEF c
  <2> QED
    BY <2>1, <2>2
<1> QED
  BY <1>14 DEF e

\* What is below MemoryTop of such a file is in place.
LEMMA TakenInPlace ==
  ASSUME IInv, pc \in AfterLoad, AsBuilt(disk), InOnePiece(TakenEntry),
         NEW b \in 0..TakenEntry.size - 1, LoadAddr + b < MemoryTop
  PROVE  SectorInPlace(TakenEntry, b)
<1> DEFINE s == b \div SectorBytes
<1>1. Located /\ pc \in AfterDir
  BY DEF IInv, AfterDir
<1>2. PICK n \in Nat : InOrder(n) /\ n = FileSectors
  BY DEF IInv, Reading, AfterDir
<1>3. /\ TakenEntry.size \in Nat /\ b \in Nat /\ SectorBytes \in Nat \ {0}
      /\ file.size = TakenEntry.size /\ LoadAddr \in Nat
  BY <1>1, TakenIsKernel, LoadAssumption DEF DirEntry
<1>4. s \in 0..n - 1
  BY <1>3, <1>2, SectorsEnough DEF FileSectors, Sectors
<1>5. s \in Nat /\ s * SectorBytes <= b /\ s * SectorBytes \in Nat
  <2>1. s \in Nat /\ b % SectorBytes \in 0..SectorBytes - 1
        /\ b = SectorBytes * s + (b % SectorBytes)
    BY <1>3, Division
  <2> HIDE DEF s
  <2>2. SectorBytes * s = s * SectorBytes /\ s * SectorBytes \in Nat
    BY <2>1, <1>3
  <2> QED
    BY <2>1, <2>2
<1> HIDE DEF s
<1>6. At(s) < MemoryTop
  BY <1>3, <1>5, LoadAssumption DEF At
<1>7. At(s) \in DOMAIN buffer /\ buffer[At(s)] = file.lba + s
  BY <1>2, <1>4, <1>6 DEF InOrder
<1>8. SectorLba(disk, TakenEntry, s) = file.lba + s
  BY <1>1, <1>2, <1>4, TakenInPiece
<1> QED
  BY <1>7, <1>8 DEF SectorInPlace, At, s

\* On every disk as x86.sh makes it, whatever its directory and the sizes of
\* sectors, segments and reads: each byte of the kernel's file that there is
\* memory for below MemoryTop is where the ELF loaders look for it
\* (bios.rs:1100-1168 and 842-867).
THEOREM KernelLoaded == Spec => []KernelInPlace
<1>1. ASSUME IInv PROVE KernelInPlace
  <2> SUFFICES ASSUME pc \in Loaded, AsBuilt(disk)
               PROVE  \E k \in DOMAIN RootDir(disk) :
                        /\ IsKernelOf(disk, KernelName(x64), k)
                        /\ LET e == RootDir(disk)[k]
                           IN  InOnePiece(e) =>
                                 \A b \in 0..e.size - 1 :
                                   LoadAddr + b < MemoryTop => SectorInPlace(e, b)
    BY DEF KernelInPlace
  <2>1. pc \in AfterLoad /\ pc \in AfterDir
    BY DEF AfterDir, AfterLoad
  <2>2. /\ Min(Taken) \in DOMAIN RootDir(disk)
        /\ IsKernelOf(disk, KernelName(x64), Min(Taken))
        /\ TakenEntry = RootDir(disk)[Min(Taken)]
    BY <1>1, <2>1, TakenIsKernel DEF IInv
  <2>3. InOnePiece(TakenEntry) =>
          \A b \in 0..TakenEntry.size - 1 : LoadAddr + b < MemoryTop => SectorInPlace(TakenEntry, b)
    BY <1>1, <2>1, TakenInPlace
  <2> QED
    BY <2>2, <2>3
<1> QED
  BY <1>1, Inductive, PTL
-----------------------------------------------------------------------------
\* The rest of the loader: the variables' types, the scan of the modes, the
\* bits of the processor, and the two ELF loaders.
BeforeVbe == BeforeLoad \cup {"load", "vbe"}
BeforeElf == BeforeVbe \cup {"modes", "setMode", "stage2", "prot"}
InElf == {"seg32", "seg64", "entered"}

\* The boot information counts the entries the BIOS gave.
Counted ==
  /\ a20 \in BOOLEAN /\ count \in 0..MaxE820 /\ info.entries \in 0..MaxE820
  /\ pc \in Loaded \cup {"stage2"} => info.entries = count

\* load_kernel_data goes no further than the file does.
Positioned ==
  /\ lba \in Int /\ remaining \in Nat
  /\ dest \in LoadAddr..WrapAt /\ (dest - LoadAddr) % SectorBytes = 0

\* best_mode is the best of the modes looked at, or none of them is usable.
IsMode(b, m) == b.bpp = m.bpp /\ b.area = Area(m)
Beaten(k) ==
  LET m == modes[k]
  IN  \/ m.bpp < best.bpp
      \/ m.bpp = best.bpp /\ Area(m) < best.area
      \/ m.bpp = best.bpp /\ Area(m) = best.area /\ best.at < k
Scanned ==
  /\ modes \in ModeLists \cup {<<>>} /\ i \in 0..Len(modes)
  /\ \/ best = NoMode
     \/ best.at \in 1..i /\ Usable(modes[best.at]) /\ IsMode(best, modes[best.at])
  /\ \A k \in 1..i : Usable(modes[k]) => best # NoMode /\ (k = best.at \/ Beaten(k))
  /\ pc \in BeforeVbe => modes = <<>> /\ i = 0 /\ best = NoMode
  /\ pc \in Loaded \cup {"setMode", "stage2"} => i = Len(modes) /\ best # NoMode

\* The file found is one for the processor, and so are the tables.
Classed ==
  /\ cpu \in Cpus /\ x64 \in BOOLEAN
  /\ pc \in AfterDir => x64 = Detected64
  /\ pc \in BeforeElf => tables = NoMemory
  /\ pc \in {"long", "seg64"} => x64
  /\ pc = "seg32" => ~x64
  /\ pc \in InElf \cup {"long"} => tables = IF x64 THEN CreateMappings ELSE NoMemory
  /\ pc \in InElf => Image.valid /\ Image.class = (IF x64 THEN 64 ELSE 32)

\* The loadable segments gone through are in memory, if they share no byte.
InMemory(k) ==
  LET p == Image.ph[k]
  IN  p.load => \A a \in Span(p) : a \in DOMAIN mem /\ mem[a] = SegmentByte(p, a)
Segments ==
  /\ pc \in BeforeElf \cup {"long"} => mem = NoMemory /\ seg = 0
  /\ pc \in InElf => /\ seg \in 0..Len(Image.ph)
                     /\ Linked(Image) => \A k \in 1..seg : InMemory(k)
  /\ pc = "entered" => seg = Len(Image.ph)

LInv == /\ pc \in Stopped \cup BeforeElf \cup InElf \cup {"long"}
        /\ Counted /\ Positioned /\ Scanned /\ Classed /\ Segments

-----------------------------------------------------------------------------
LEMMA LaterInitially == Init => LInv
<1> SUFFICES ASSUME Init PROVE LInv
  OBVIOUS
<1> USE DEF Init, RealInit
<1>1. pc = "mbr" /\ pc \in BeforeElf /\ pc \in BeforeVbe /\ pc \notin InElf /\ pc \notin Loaded
      /\ pc \notin AfterDir /\ pc \notin {"long", "setMode", "stage2"}
  BY DEF BeforeElf, BeforeVbe, BeforeLoad, InElf, Loaded, AfterDir, AfterLoad
<1>2. Counted
  BY <1>1, MachinesAssumption DEF Counted, NoInfo
<1>3. Positioned
  BY LoadAssumption DEF Positioned
<1>4. Scanned
  BY <1>1 DEF Scanned
<1>5. Classed
  BY <1>1 DEF Classed
<1>6. Segments
  BY <1>1 DEF Segments
<1> QED
  BY <1>1, <1>2, <1>3, <1>4, <1>5, <1>6 DEF LInv

\* Where a step may lead.
LEMMA PlacesKnown ==
  ASSUME pc \in Stopped \cup BeforeElf \cup InElf \cup {"long"}, [Next]_vars
  PROVE  pc' \in Stopped \cup BeforeElf \cup InElf \cup {"long"}
<1> USE DEF Stopped, BeforeElf, BeforeVbe, BeforeLoad, InElf, To, PanicAt
<1>1. CASE UNCHANGED vars
  BY <1>1 DEF vars
<1>2. CASE BootSector \/ EnableA20 \/ WaitIo \/ E820Entry \/ E820End
  BY <1>2 DEF BootSector, EnableA20, A20Check, A20Method, WaitIo, E820Entry, E820End
<1>3. CASE LoadKernelErr \/ ReadMbr \/ FindPartition \/ ReadBpb \/ InvalidOpcode
  BY <1>3 DEF LoadKernelErr, ReadMbr, FindPartition, ReadBpb, InvalidOpcode
<1>4. CASE FindKernel \/ LoadChunk \/ LoadDone
  BY <1>4 DEF FindKernel, LoadChunk, LoadDone
<1>5. CASE VbeInfo \/ VbeErr \/ VbeMode \/ VbeBest \/ Handoff16
  BY <1>5 DEF VbeInfo, VbeErr, VbeMode, VbeBest, Handoff16
<1>6. CASE SecondRead \/ Prot32 \/ LongInit \/ Long64
  BY <1>6 DEF SecondRead, Prot32, LongInit, Long64
<1>7. CASE LoadElf32 \/ LoadElf64
  BY <1>7 DEF LoadElf32, LoadElf64, Place, Enter
<1> QED
  BY <1>1, <1>2, <1>3, <1>4, <1>5, <1>6, <1>7 DEF Next, RealNext

\* Only the E820 calls count, before anything is told of it.
LEMMA CountedKeeps == ASSUME LInv, [Next]_vars PROVE Counted'
<1> USE DEF LInv, Counted, Loaded, To, PanicAt
<1>1. CASE UNCHANGED vars
  BY <1>1 DEF vars, real
<1>2. CASE BootSector \/ EnableA20 \/ WaitIo
  BY <1>2 DEF BootSector, EnableA20, A20Check, A20Method, WaitIo
<1>3. CASE E820Entry
  BY <1>3, MachinesAssumption DEF E820Entry
<1>4. CASE E820End \/ LoadKernelErr \/ ReadMbr \/ FindPartition \/ ReadBpb \/ InvalidOpcode
  BY <1>4 DEF E820End, LoadKernelErr, ReadMbr, FindPartition, ReadBpb, InvalidOpcode
<1>5. CASE FindKernel \/ LoadChunk \/ LoadDone
  BY <1>5 DEF FindKernel, LoadChunk, LoadDone
<1>6. CASE VbeInfo \/ VbeErr \/ VbeMode \/ VbeBest
  BY <1>6 DEF VbeInfo, VbeErr, VbeMode, VbeBest
<1>7. CASE Handoff16
  BY <1>7 DEF Handoff16, InfoEntries
<1>8. CASE SecondRead \/ Prot32 \/ LongInit \/ Long64
  BY <1>8 DEF SecondRead, Prot32, LongInit, Long64, real
<1>9. CASE LoadElf32 \/ LoadElf64
  BY <1>9 DEF LoadElf32, LoadElf64, Place, Enter, real
<1> QED
  BY <1>1, <1>2, <1>3, <1>4, <1>5, <1>6, <1>7, <1>8, <1>9 DEF Next, RealNext

\* What is still to be read ends where the file does.
LEMMA EndsBelowWrap ==
  ASSUME IInv, pc \in AfterDir
  PROVE  dest + remaining * SectorBytes <= WrapAt
<1>1. PICK n \in Nat : InOrder(n) /\ n + remaining = FileSectors /\ remaining \in Nat
  BY DEF IInv, Reading
<1>2. disk \in Disks /\ file.data \in 0..MaxLba /\ Taken # {} /\ file.size = TakenEntry.size
  BY DEF IInv, Located
<1>3. Min(Taken) \in DOMAIN disk.dir[file.data]
  BY <1>2, TakenType DEF Taken, EntryFound
<1>4. LoadAddr + FileSectors * SectorBytes <= WrapAt
  BY <1>2, <1>3, FilesAssumption DEF FileSectors, TakenEntry
<1>5. dest = LoadAddr + n * SectorBytes
  BY <1>1 DEF InOrder, At
<1>6. LoadAddr \in Nat /\ SectorBytes \in Nat
  BY LoadAssumption
<1>7. (n + remaining) * SectorBytes = n * SectorBytes + remaining * SectorBytes
      /\ n * SectorBytes \in Nat /\ remaining * SectorBytes \in Nat
  BY <1>1, <1>6
<1> QED
  BY <1>1, <1>4, <1>5, <1>6, <1>7

\* Only load_kernel_data and the search for the file change where it reads.
LEMMA PositionedKeeps == ASSUME IInv, LInv, [Next]_vars PROVE Positioned'
<1>1. CASE UNCHANGED loading
  BY <1>1 DEF LInv, Positioned, loading
<1>2. CASE LoadChunk
  <2>1. Count \in Nat /\ Count <= remaining /\ remaining \in Nat
    BY <1>2, CountFits, LoadAssumption DEF LInv, Positioned
  <2>2. /\ dest \in Nat /\ LoadAddr \in Nat /\ SectorBytes \in Nat \ {0} /\ WrapAt \in Nat
        /\ dest >= LoadAddr /\ lba \in Int
    BY LoadAssumption DEF LInv, Positioned
  <2>3. /\ dest' = dest + Count * SectorBytes
        /\ lba' = lba + Count /\ remaining' = remaining - Count
    BY <1>2 DEF LoadChunk, LbaNext
  <2>4. Count * SectorBytes \in Nat /\ Count * SectorBytes <= remaining * SectorBytes
        /\ remaining * SectorBytes \in Nat
    BY <2>1, <2>2
  <2>5. dest + remaining * SectorBytes <= WrapAt
    BY <1>2, EndsBelowWrap DEF LoadChunk, AfterDir
  <2>6. (dest' - LoadAddr) % SectorBytes = 0
    <3>1. PICK u \in Nat : dest - LoadAddr = SectorBytes * u
      <4>1. dest - LoadAddr \in Nat /\ (dest - LoadAddr) % SectorBytes = 0
        BY <2>2 DEF LInv, Positioned
      <4> HIDE DEF LInv
      <4> QED
        BY <4>1, <2>2, Multiple
    <3>2. dest' - LoadAddr = SectorBytes * (u + Count)
      BY <3>1, <2>1, <2>2, <2>3, <2>4
    <3>3. (SectorBytes * (u + Count)) % SectorBytes = 0
      BY <2>1, <2>2
    <3> QED
      BY <3>2, <3>3
  <2> QED
    BY <2>1, <2>2, <2>3, <2>4, <2>5, <2>6 DEF Positioned
<1>3. CASE FindKernel
  <2>1. IInv'
    BY <1>3, FindKernelKeeps
  <2>2. pc' = "load" /\ dest' = dest /\ lba' = file'.lba
    BY <1>3 DEF FindKernel, To, IInv, Located
  <2> QED
    BY <2>1, <2>2 DEF IInv, Located, Reading, AfterDir, LInv, Positioned
<1>4. CASE ~(UNCHANGED loading) /\ ~LoadChunk /\ ~FindKernel
  BY <1>4, OthersAreQuiet DEF Quiet, vars, real, ReadMbr, FindPartition, ReadBpb
<1> QED
  BY <1>1, <1>2, <1>3, <1>4

-----------------------------------------------------------------------------
\* Of all actions only the three of init_framebuffer's loop touch the scan.
LEMMA OthersLeaveModes ==
  ASSUME [Next]_vars, ~VbeInfo, ~VbeMode, ~VbeBest
  PROVE  /\ UNCHANGED video
         /\ pc' \in BeforeVbe => pc \in BeforeVbe
         /\ pc' \in Loaded \cup {"setMode", "stage2"} => pc \in Loaded \cup {"setMode", "stage2"}
<1> USE DEF BeforeVbe, BeforeLoad, Loaded, To, PanicAt, video
<1>1. CASE UNCHANGED vars
  BY <1>1 DEF vars, real
<1>2. CASE BootSector \/ EnableA20 \/ WaitIo \/ E820Entry \/ E820End
  BY <1>2 DEF BootSector, EnableA20, A20Check, A20Method, WaitIo, E820Entry, E820End
<1>3. CASE LoadKernelErr \/ ReadMbr \/ FindPartition \/ ReadBpb \/ InvalidOpcode
  BY <1>3 DEF LoadKernelErr, ReadMbr, FindPartition, ReadBpb, InvalidOpcode
<1>4. CASE FindKernel \/ LoadChunk \/ LoadDone
  BY <1>4 DEF FindKernel, LoadChunk, LoadDone
<1>5. CASE VbeErr \/ Handoff16
  BY <1>5 DEF VbeErr, Handoff16
<1>6. CASE SecondRead \/ Prot32 \/ LongInit \/ Long64
  BY <1>6 DEF SecondRead, Prot32, LongInit, Long64, real
<1>7. CASE LoadElf32 \/ LoadElf64
  BY <1>7 DEF LoadElf32, LoadElf64, Place, Enter, real
<1> QED
  BY <1>1, <1>2, <1>3, <1>4, <1>5, <1>6, <1>7 DEF Next, RealNext

LEMMA ModeType ==
  ASSUME NEW l \in ModeLists \cup {<<>>}, NEW k \in 1..Len(l)
  PROVE  /\ l[k].bpp \in Nat /\ Area(l[k]) \in Nat
         /\ Usable(l[k]) => l[k].bpp > 0
<1>1. l \in Seq(Mode)
  BY MachinesAssumption
<1>2. l[k] \in Mode
  BY <1>1
<1>3. l[k].bpp \in Nat /\ l[k].width \in Nat /\ l[k].height \in Nat
  BY <1>2 DEF Mode
<1> QED
  BY <1>3 DEF Area, Usable

\* A mode replaces the best so far exactly if it beats it, so the best so far
\* beats every mode before it.
LEMMA ScanKeeps == ASSUME LInv, VbeMode PROVE Scanned'
<1> DEFINE m == modes[i + 1]
<1>1. /\ modes \in ModeLists \cup {<<>>} /\ i \in 0..Len(modes)
      /\ i < Len(modes) /\ i' = i + 1 /\ modes' = modes
      /\ pc = "modes" /\ pc' = "modes"
      /\ best' = IF Usable(m) /\ Better(m) THEN [at |-> i + 1, bpp |-> m.bpp, area |-> Area(m)]
                 ELSE best
  BY DEF LInv, Scanned, VbeMode
<1>2. i \in Nat /\ Len(modes) \in Nat /\ i + 1 \in 1..Len(modes) /\ modes \in Seq(Mode)
  BY <1>1, MachinesAssumption
<1>3. /\ best = NoMode \/ (best.at \in 1..i /\ Usable(modes[best.at]) /\ IsMode(best, modes[best.at]))
      /\ \A k \in 1..i : Usable(modes[k]) => best # NoMode /\ (k = best.at \/ Beaten(k))
  BY DEF LInv, Scanned
<1>4. m.bpp \in Nat /\ Area(m) \in Nat /\ (Usable(m) => m.bpp > 0)
  BY <1>1, <1>2, ModeType
<1>5. best.bpp \in Nat /\ best.area \in Nat /\ best.at \in 0..i
  <2>1. CASE best = NoMode
    BY <2>1, <1>2 DEF NoMode
  <2>2. CASE best.at \in 1..i /\ IsMode(best, modes[best.at])
    <3>1. best.at \in 1..Len(modes) /\ best.at \in 0..i
      BY <2>2, <1>1, <1>2
    <3> QED
      BY <3>1, <2>2, <1>1, ModeType DEF IsMode
  <2> QED
    BY <2>1, <2>2, <1>3
<1>6. ASSUME NEW k \in 1..i, Usable(modes[k])
      PROVE  /\ modes[k].bpp \in Nat /\ Area(modes[k]) \in Nat
             /\ \/ modes[k].bpp < best.bpp
                \/ modes[k].bpp = best.bpp /\ Area(modes[k]) <= best.area
             /\ best # NoMode
  <2>1. k \in 1..Len(modes)
    BY <1>1, <1>2
  <2>2. modes[k].bpp \in Nat /\ Area(modes[k]) \in Nat
    BY <2>1, <1>1, ModeType
  <2>3. best # NoMode /\ (k = best.at \/ Beaten(k))
    BY <1>3, <1>6
  <2>4. k = best.at => modes[k].bpp = best.bpp /\ Area(modes[k]) = best.area
    BY <2>3, <1>3 DEF IsMode
  <2> QED
    BY <2>2, <2>3, <2>4, <1>5 DEF Beaten
<1> HIDE DEF m
<1>7. CASE Usable(m) /\ Better(m)
  <2>1. best' = [at |-> i + 1, bpp |-> m.bpp, area |-> Area(m)]
    BY <1>1, <1>7
  <2>2. best'.at = i' /\ best'.bpp = m.bpp /\ best'.area = Area(m)
    BY <1>1, <2>1
  <2>3. best' # NoMode
    BY <2>2, <1>4, <1>7 DEF NoMode
  <2>4. best'.at \in 1..i' /\ Usable(modes[best'.at]) /\ IsMode(best', modes[best'.at])
    BY <2>2, <1>1, <1>2, <1>7 DEF IsMode, m
  <2>5. ASSUME NEW k \in 1..i', Usable(modes[k])
        PROVE  k = best'.at \/ Beaten(k)'
    <3>1. CASE k = i'
      BY <3>1, <2>2
    <3>2. CASE k # i'
      <4>1. k \in 1..i
        BY <3>2, <1>1, <1>2
      <4>2. m.bpp > best.bpp \/ (m.bpp = best.bpp /\ Area(m) > best.area)
        BY <1>7 DEF Better
      <4>3. /\ modes[k].bpp < m.bpp \/ (modes[k].bpp = m.bpp /\ Area(modes[k]) < Area(m))
        BY <4>1, <4>2, <1>4, <1>5, <1>6, <2>5
      <4> QED
        BY <4>3, <2>2, <1>1 DEF Beaten
    <3> QED
      BY <3>1, <3>2
  <2> QED
    BY <2>3, <2>4, <2>5, <1>1, <1>2 DEF Scanned, BeforeVbe, BeforeLoad, Loaded
<1>8. CASE ~(Usable(m) /\ Better(m))
  <2>1. best' = best
    BY <1>1, <1>8
  <2>2. ASSUME Usable(m)
        PROVE  best # NoMode /\ (m.bpp < best.bpp \/ (m.bpp = best.bpp /\ Area(m) <= best.area))
    <3>1. m.bpp < best.bpp \/ (m.bpp = best.bpp /\ Area(m) <= best.area)
      BY <2>2, <1>4, <1>5, <1>8 DEF Better
    <3> QED
      BY <3>1, <2>2, <1>4 DEF NoMode
  <2>3. ASSUME NEW k \in 1..i', Usable(modes[k])
        PROVE  best # NoMode /\ (k = best.at \/ Beaten(k)')
    <3>1. CASE k = i'
      <4>1. best.at < k
        BY <3>1, <1>1, <1>2, <1>5
      <4> QED
        BY <4>1, <3>1, <2>1, <2>2, <2>3, <1>1, <1>4, <1>5 DEF Beaten, m
    <3>2. CASE k # i'
      <4>1. k \in 1..i
        BY <3>2, <1>1, <1>2
      <4>2. best # NoMode /\ (k = best.at \/ Beaten(k))
        BY <4>1, <2>3, <1>3
      <4> QED
        BY <4>2, <2>1, <1>1 DEF Beaten
    <3> QED
      BY <3>1, <3>2
  <2>4. best = NoMode \/ (best.at \in 1..i' /\ Usable(modes[best.at]) /\ IsMode(best, modes[best.at]))
    BY <1>1, <1>2, <1>3
  <2> QED
    BY <2>1, <2>3, <2>4, <1>1, <1>2 DEF Scanned, BeforeVbe, BeforeLoad, Loaded
<1> QED
  BY <1>7, <1>8

LEMMA ScannedKeeps == ASSUME LInv, [Next]_vars PROVE Scanned'
<1>1. CASE ~VbeInfo /\ ~VbeMode /\ ~VbeBest
  <2>1. /\ modes' = modes /\ i' = i /\ best' = best
        /\ pc' \in BeforeVbe => pc \in BeforeVbe
        /\ pc' \in Loaded \cup {"setMode", "stage2"} => pc \in Loaded \cup {"setMode", "stage2"}
    BY <1>1, OthersLeaveModes DEF video
  <2>2. \A k : Beaten(k)' <=> Beaten(k)
    BY <2>1 DEF Beaten
  <2> QED
    BY <2>1, <2>2 DEF LInv, Scanned
<1>2. CASE VbeInfo
  <2>1. pc = "vbe" /\ pc' = "modes" /\ modes' \in ModeLists /\ i' = i /\ best' = best
    BY <1>2 DEF VbeInfo, To
  <2>2. i = 0 /\ best = NoMode
    BY <2>1 DEF LInv, Scanned, BeforeVbe
  <2>3. Len(modes') \in Nat
    BY <2>1, MachinesAssumption
  <2> QED
    BY <2>1, <2>2, <2>3 DEF Scanned, BeforeVbe, BeforeLoad, Loaded
<1>3. CASE VbeBest
  <2>1. /\ pc = "modes" /\ pc' = "setMode" /\ modes' = modes /\ i' = i /\ best' = best
        /\ i = Len(modes) /\ best # NoMode
    BY <1>3 DEF VbeBest, To, video
  <2>2. \A k : Beaten(k)' <=> Beaten(k)
    BY <2>1 DEF Beaten
  <2> QED
    BY <2>1, <2>2 DEF LInv, Scanned, BeforeVbe, BeforeLoad
<1> QED
  BY <1>1, <1>2, <1>3, ScanKeeps

-----------------------------------------------------------------------------
\* The file the ELF loaders find.
LEMMA ImageFacts ==
  ASSUME IInv
  PROVE  /\ Image \in File
         /\ Len(Image.ph) \in Nat /\ DOMAIN Image.ph = 1..Len(Image.ph)
<1>1. disk \in Disk /\ \A a \in DOMAIN buffer : buffer[a] \in 0..MaxLba
  BY MachinesAssumption DEF IInv, Located, Reading
<1>2. Image \in File
  <2>1. CASE LoadAddr \in DOMAIN buffer
    <3>1. disk.elf \in [0..MaxLba -> File] /\ buffer[LoadAddr] \in 0..MaxLba
      BY <2>1, <1>1 DEF Disk
    <3> QED
      BY <3>1, <2>1 DEF Image
  <2>2. CASE ~(LoadAddr \in DOMAIN buffer)
    <3>1. <<>> \in Seq(ProgramHeader)
      OBVIOUS
    <3> QED
      BY <3>1, <2>2 DEF Image, NoElf, File
  <2> QED
    BY <2>1, <2>2
<1>3. Image.ph \in Seq(ProgramHeader)
  BY <1>2 DEF File
<1> QED
  BY <1>2, <1>3

\* Before the ELF loaders nothing touches memory, the tables or the count of
\* headers, and only the search for the file decides which kernel it is.
LEMMA OthersLeaveStages ==
  ASSUME [Next]_vars, ~FindKernel, ~Prot32, ~LongInit, ~Long64, ~LoadElf32, ~LoadElf64
  PROVE  /\ UNCHANGED <<disk, cpu, x64, mem, seg, tables>>
         /\ pc' \in AfterDir => pc \in AfterDir
         /\ pc' \in BeforeElf => pc \in BeforeElf
         /\ pc' \in InElf \cup {"long"} => pc' = pc /\ Image' = Image
<1> USE DEF InElf, AfterDir, AfterLoad, Loaded, BeforeElf, BeforeVbe, BeforeLoad, To, PanicAt,
            given, stages, loading, Image
<1>1. CASE UNCHANGED vars
  BY <1>1 DEF vars, real
<1>2. CASE RealNext /\ UNCHANGED stages
  <2>1. CASE BootSector \/ EnableA20 \/ WaitIo \/ E820Entry \/ E820End
    BY <1>2, <2>1 DEF BootSector, EnableA20, A20Check, A20Method, WaitIo, E820Entry, E820End
  <2>2. CASE LoadKernelErr \/ ReadMbr \/ FindPartition \/ ReadBpb \/ InvalidOpcode
    BY <1>2, <2>2 DEF LoadKernelErr, ReadMbr, FindPartition, ReadBpb, InvalidOpcode
  <2>3. CASE LoadChunk \/ LoadDone
    BY <1>2, <2>3 DEF LoadChunk, LoadDone
  <2>4. CASE VbeInfo \/ VbeErr \/ VbeMode \/ VbeBest \/ Handoff16
    BY <1>2, <2>4 DEF VbeInfo, VbeErr, VbeMode, VbeBest, Handoff16
  <2> QED
    BY <1>2, <2>1, <2>2, <2>3, <2>4 DEF RealNext
<1>3. CASE SecondRead
  BY <1>3 DEF SecondRead, real
<1> QED
  BY <1>1, <1>2, <1>3 DEF Next

\* The steps from the protected mode's entry to the kernel's.
LEMMA StageSteps ==
  ASSUME IInv, LInv, [Next]_vars, Prot32 \/ LongInit \/ Long64 \/ LoadElf32 \/ LoadElf64
  PROVE  /\ UNCHANGED <<disk, cpu, x64>> /\ Image' = Image
         /\ pc \in {"prot", "long", "seg32", "seg64"}
BY DEF Prot32, LongInit, Long64, LoadElf32, LoadElf64, Place, Enter, To, real, given, loading, Image

LEMMA FindLeavesStages ==
  ASSUME FindKernel, [Next]_vars PROVE UNCHANGED <<mem, seg, tables>>
<1>1. pc = "dir" /\ pc' = "load"
  BY DEF FindKernel, To
<1> QED
  BY <1>1 DEF Next, SecondRead, Prot32, LongInit, Long64, LoadElf32, LoadElf64, Place, Enter,
     To, stages, vars

LEMMA ClassedKeeps == ASSUME IInv, LInv, [Next]_vars PROVE Classed'
<1> USE DEF InElf, AfterDir, AfterLoad, Loaded, BeforeElf, BeforeVbe, BeforeLoad
<1>1. CASE ~FindKernel /\ ~Prot32 /\ ~LongInit /\ ~Long64 /\ ~LoadElf32 /\ ~LoadElf64
  <2>1. /\ UNCHANGED <<disk, cpu, x64, mem, seg, tables>>
        /\ pc' \in AfterDir => pc \in AfterDir
        /\ pc' \in BeforeElf => pc \in BeforeElf
        /\ pc' \in InElf \cup {"long"} => pc' = pc /\ Image' = Image
    BY <1>1, OthersLeaveStages
  <2>2. Detected64' = Detected64
    BY <2>1 DEF Detected64, Is486OrLater, CpuBitness64
  <2> QED
    BY <2>1, <2>2 DEF LInv, Classed
<1>2. CASE FindKernel
  <2>1. /\ pc = "dir" /\ pc' = "load" /\ cpu' = cpu /\ x64' = Detected64
        /\ tables' = tables
    BY <1>2, FindLeavesStages DEF FindKernel, To, given
  <2>2. Detected64 \in BOOLEAN /\ Detected64' = Detected64
    BY <2>1 DEF Detected64, Is486OrLater, CpuBitness64
  <2> QED
    BY <2>1, <2>2 DEF LInv, Classed
<1>3. CASE Prot32 \/ LongInit \/ Long64 \/ LoadElf32 \/ LoadElf64
  <2>1. /\ UNCHANGED <<disk, cpu, x64>> /\ Image' = Image
        /\ pc \in {"prot", "long", "seg32", "seg64"}
    BY <1>3, StageSteps
  <2>2. Detected64' = Detected64
    BY <2>1 DEF Detected64, Is486OrLater, CpuBitness64
  <2>3. ASSUME NEW c, HeaderOk(c) PROVE Image.valid /\ Image.class = c
    BY <2>3 DEF HeaderOk
  <2>4. CASE Prot32
    <3>1. pc = "prot" /\ ~x64 /\ tables' = tables
      BY <2>4 DEF Prot32, stages
    <3>2. pc' = "red" \/ (pc' = "seg32" /\ HeaderOk(32))
      BY <2>4, Zenon DEF Prot32
    <3> QED
      BY <3>1, <3>2, <2>1, <2>2, <2>3 DEF LInv, Classed
  <2>5. CASE LongInit
    <3>1. pc = "prot" /\ pc' = "long" /\ x64 /\ tables' = CreateMappings
      BY <2>5 DEF LongInit, To
    <3> QED
      BY <3>1, <2>1, <2>2 DEF LInv, Classed
  <2>6. CASE Long64
    <3>1. pc = "long" /\ tables' = tables
      BY <2>6 DEF Long64, stages
    <3>2. pc' = "red" \/ (pc' = "seg64" /\ HeaderOk(64))
      BY <2>6, Zenon DEF Long64
    <3> QED
      BY <3>1, <3>2, <2>1, <2>2, <2>3 DEF LInv, Classed
  <2>7. CASE LoadElf32 \/ LoadElf64
    <3>1. /\ pc \in {"seg32", "seg64"} /\ tables' = tables
          /\ pc' \in {pc, "red", "entered"}
      BY <2>7 DEF LoadElf32, LoadElf64, Place, Enter, To, stages
    <3> QED
      BY <3>1, <2>1, <2>2 DEF LInv, Classed
  <2> QED
    BY <1>3, <2>4, <2>5, <2>6, <2>7
<1> QED
  BY <1>1, <1>2, <1>3

\* A segment placed leaves those before it as they are: they share no byte.
LEMMA SegmentKeeps ==
  ASSUME IInv, LInv, [Next]_vars, LoadElf32 \/ LoadElf64, seg' = seg + 1
  PROVE  /\ seg \in Nat /\ seg + 1 \in 1..Len(Image.ph)
         /\ pc' # "red" /\ Linked(Image) => \A k \in 1..seg' : InMemory(k)'
<1>1. /\ pc \in InElf /\ seg \in 0..Len(Image.ph) /\ Image' = Image
      /\ Linked(Image) => \A k \in 1..seg : InMemory(k)
  <2>1. pc \in {"seg32", "seg64"}
    BY DEF LoadElf32, LoadElf64, Place, Enter, To
  <2>2. Image' = Image
    BY StageSteps
  <2>3. pc \in InElf /\ Segments
    BY <2>1 DEF InElf, LInv
  <2>4. seg \in 0..Len(Image.ph)
    BY <2>3 DEF Segments
  <2>5. Linked(Image) => \A k \in 1..seg : InMemory(k)
    BY <2>3 DEF Segments
  <2> QED
    BY <2>2, <2>3, <2>4, <2>5
<1> DEFINE p == Image.ph[seg + 1]
<1>2. Len(Image.ph) \in Nat /\ DOMAIN Image.ph = 1..Len(Image.ph)
  BY ImageFacts
<1>3. /\ seg < Len(Image.ph)
      /\ pc' # "red" => mem' = IF p.load THEN Placed(mem, p) ELSE mem
  <2>1. PICK at : Place(at)
    BY <1>1 DEF LoadElf32, LoadElf64, Enter, stages
  <2>2. seg < Len(Image.ph)
    BY <2>1, <1>2 DEF Place
  <2>3. pc' # "red" => mem' = IF p.load THEN Placed(mem, p) ELSE mem
    BY <2>1, <1>2 DEF Place
  <2> QED
    BY <2>2, <2>3
<1>4. seg \in Nat /\ seg + 1 \in 1..Len(Image.ph)
  BY <1>1, <1>2, <1>3
<1>5. ASSUME pc' # "red", Linked(Image), NEW k \in 1..seg' PROVE InMemory(k)'
  <2>1. CASE ~p.load
    <3>1. mem' = mem
      BY <2>1, <1>3, <1>5
    <3>2. CASE k = seg + 1
      BY <3>2, <2>1, <1>1 DEF InMemory
    <3>3. CASE k # seg + 1
      <4>1. k \in 1..seg
        BY <3>3, <1>4
      <4> QED
        BY <4>1, <3>1, <1>1, <1>5 DEF InMemory
    <3> QED
      BY <3>2, <3>3
  <2>2. CASE p.load
    <3>1. mem' = Placed(mem, p)
      BY <2>2, <1>3, <1>5
    <3>2. /\ DOMAIN mem' = DOMAIN mem \cup Span(p)
          /\ \A a \in Span(p) : mem'[a] = SegmentByte(p, a)
          /\ \A a \in DOMAIN mem : a \notin Span(p) => mem'[a] = mem[a]
      BY <3>1 DEF Placed
    <3>3. CASE k = seg + 1
      BY <3>3, <3>2, <1>1 DEF InMemory
    <3>4. CASE k # seg + 1
      <4>1. k \in 1..seg /\ k \in DOMAIN Image.ph /\ seg + 1 \in DOMAIN Image.ph
        BY <3>4, <1>2, <1>4
      <4>2. InMemory(k)
        BY <4>1, <1>1, <1>5
      <4>3. Image.ph[k].load => Span(Image.ph[k]) \cap Span(p) = {}
        BY <3>4, <4>1, <2>2, <1>5 DEF Linked
      <4> HIDE DEF p
      <4> QED
        BY <4>2, <4>3, <3>2, <1>1 DEF InMemory
    <3> QED
      BY <3>3, <3>4
  <2> QED
    BY <2>1, <2>2
<1> QED
  BY <1>4, <1>5

LEMMA SegmentsKeep == ASSUME IInv, LInv, [Next]_vars PROVE Segments'
<1> USE DEF InElf, BeforeElf, BeforeVbe, BeforeLoad
<1>1. CASE ~FindKernel /\ ~Prot32 /\ ~LongInit /\ ~Long64 /\ ~LoadElf32 /\ ~LoadElf64
  <2>1. /\ UNCHANGED <<disk, cpu, x64, mem, seg, tables>>
        /\ pc' \in BeforeElf => pc \in BeforeElf
        /\ pc' \in InElf \cup {"long"} => pc' = pc /\ Image' = Image
    BY <1>1, OthersLeaveStages
  <2>2. pc' \in InElf => \A k : InMemory(k)' <=> InMemory(k)
    BY <2>1 DEF InMemory
  <2> QED
    BY <2>1, <2>2 DEF LInv, Segments
<1>2. CASE FindKernel
  <2>1. pc = "dir" /\ pc' = "load" /\ UNCHANGED <<mem, seg>>
    BY <1>2, FindLeavesStages DEF FindKernel, To
  <2> QED
    BY <2>1 DEF LInv, Segments
<1>3. CASE Prot32 \/ LongInit \/ Long64
  <2>1. /\ pc \in {"prot", "long"} /\ pc' \in {"red", "seg32", "long", "seg64"}
        /\ UNCHANGED <<mem, seg>>
    BY <1>3 DEF Prot32, LongInit, Long64, To, stages
  <2>2. Image' = Image
    BY <1>3, StageSteps
  <2>3. mem = NoMemory /\ seg = 0 /\ Len(Image.ph) \in Nat
    BY <2>1, ImageFacts DEF LInv, Segments
  <2> QED
    BY <2>1, <2>2, <2>3 DEF Segments
<1>4. CASE LoadElf32 \/ LoadElf64
  <2>1. pc \in {"seg32", "seg64"} /\ pc' \in {pc, "red", "entered"}
    BY <1>4 DEF LoadElf32, LoadElf64, Place, Enter, To
  <2>2. Image' = Image
    BY <1>4, StageSteps
  <2>3. Len(Image.ph) \in Nat
    BY ImageFacts
  <2>4. CASE seg' = seg + 1
    <3>1. /\ seg \in Nat /\ seg + 1 \in 1..Len(Image.ph)
          /\ pc' # "red" /\ Linked(Image) => \A k \in 1..seg' : InMemory(k)'
      BY <1>4, <2>4, SegmentKeeps
    <3>2. pc' # "entered"
      BY <1>4, <2>1, <2>4, <3>1 DEF LoadElf32, LoadElf64, Place, Enter, To, stages
    <3> QED
      BY <2>1, <2>2, <2>4, <3>1, <3>2 DEF Segments
  <2>5. CASE Enter("seg32") \/ Enter("seg64")
    <3>1. pc' = "entered" /\ seg = Len(Image.ph) /\ UNCHANGED <<mem, seg>>
      BY <2>5, <2>3 DEF Enter, To, stages
    <3>2. \A k : InMemory(k)' <=> InMemory(k)
      BY <3>1, <2>2 DEF InMemory
    <3> QED
      BY <2>1, <2>2, <2>3, <3>1, <3>2 DEF LInv, Segments
  <2> QED
    BY <1>4, <2>4, <2>5 DEF LoadElf32, LoadElf64, Place
<1> QED
  BY <1>1, <1>2, <1>3, <1>4

\* All of it holds from the boot sector on, to the kernel or to a stop.
LEMMA AllHolds == Spec => [](IInv /\ LInv)
<1>1. Init => IInv /\ LInv
  BY Initially, LaterInitially
<1>2. IInv /\ LInv /\ [Next]_vars => (IInv /\ LInv)'
  <2> SUFFICES ASSUME IInv, LInv, [Next]_vars PROVE IInv' /\ LInv'
    OBVIOUS
  <2>1. IInv'
    BY StepKeeps
  <2>2. pc' \in Stopped \cup BeforeElf \cup InElf \cup {"long"}
    BY PlacesKnown DEF LInv
  <2>3. Counted' /\ Positioned' /\ Scanned' /\ Classed' /\ Segments'
    BY CountedKeeps, PositionedKeeps, ScannedKeeps, ClassedKeeps, SegmentsKeep
  <2> QED
    BY <2>1, <2>2, <2>3 DEF LInv, Stopped, BeforeElf, BeforeVbe, BeforeLoad, InElf
<1> QED
  BY <1>1, <1>2, PTL DEF Spec

-----------------------------------------------------------------------------
\* Every variable keeps its type, and load_kernel_data (bios.rs:842-867) stays
\* between the kernel's address and the end of its file.
THEOREM TypesHold == Spec => []TypeOK
<1>1. ASSUME IInv, LInv PROVE TypeOK
  <2>1. Len(modes) \in Nat
    BY <1>1, MachinesAssumption DEF LInv, Scanned
  <2>2. best.at \in 0..Len(modes)
    BY <1>1, <2>1 DEF LInv, Scanned, NoMode
  <2> QED
    BY <1>1, <2>2 DEF TypeOK, IInv, Located, LInv, Counted, Positioned, Scanned, Classed,
       Stopped, BeforeElf, BeforeVbe, BeforeLoad, InElf
<1> QED
  BY <1>1, AllHolds, PTL

\* Whatever modes the card lists and in whatever order, init_framebuffer sets
\* the deepest usable one, of those the largest, of those the first.
THEOREM BestMode == Spec => []BestModeChosen
<1>1. ASSUME LInv PROVE BestModeChosen
  <2> SUFFICES ASSUME pc \in {"setMode", "stage2", "entered"}
               PROVE  /\ Usable(modes[best.at])
                      /\ \A k \in DOMAIN modes : k # best.at /\ Usable(modes[k]) =>
                           LET m == modes[k]  b == modes[best.at]
                           IN  \/ m.bpp < b.bpp
                               \/ m.bpp = b.bpp /\ Area(m) < Area(b)
                               \/ m.bpp = b.bpp /\ Area(m) = Area(b) /\ best.at < k
    BY DEF BestModeChosen
  <2>1. i = Len(modes) /\ best # NoMode /\ DOMAIN modes = 1..Len(modes)
    BY <1>1, MachinesAssumption DEF LInv, Scanned, Loaded
  <2>2. /\ best.at \in 1..i /\ Usable(modes[best.at]) /\ IsMode(best, modes[best.at])
        /\ \A k \in 1..i : Usable(modes[k]) => (k = best.at \/ Beaten(k))
    BY <1>1, <2>1 DEF LInv, Scanned
  <2> QED
    BY <2>1, <2>2 DEF IsMode, Beaten
<1> QED
  BY <1>1, AllHolds, PTL

\* The kernel entered is of the class its processor runs, and its mode is set
\* up for it: what detection, name, header and tables say agrees.
THEOREM ClassRight == Spec => []RightClass
<1>1. ASSUME IInv, LInv PROVE RightClass
  <2> SUFFICES ASSUME pc = "entered"
               PROVE  /\ Image.class = (IF cpu.lm THEN 64 ELSE 32)
                      /\ x64 <=> tables # NoMemory
    BY DEF RightClass
  <2>1. /\ cpu \in Cpus /\ x64 \in BOOLEAN /\ x64 = Detected64
        /\ tables = IF x64 THEN CreateMappings ELSE NoMemory
        /\ Image.class = (IF x64 THEN 64 ELSE 32)
    BY <1>1 DEF LInv, Classed, AfterDir, AfterLoad, Loaded, InElf
  <2>2. cpu.lm \in BOOLEAN /\ (cpu.lm => cpu.ac /\ cpu.extended)
    BY <2>1, MachinesAssumption DEF Cpu
  <2>3. x64 <=> cpu.lm
    BY <2>1, <2>2 DEF Detected64, Is486OrLater, CpuBitness64
  <2>4. CreateMappings # NoMemory
    <3>1. 0 \in 0..Gigabytes + 1
      BY SizesAssumption
    <3>2. DOMAIN CreateMappings = 0..Gigabytes + 1
      BY DEF CreateMappings
    <3>3. DOMAIN NoMemory = {}
      BY DEF NoMemory
    <3> QED
      BY <3>1, <3>2, <3>3
  <2> QED
    BY <2>1, <2>3, <2>4
<1> QED
  BY <1>1, AllHolds, PTL

-----------------------------------------------------------------------------
\* The tables long::init makes lead from every address below their limit to
\* itself, for any number of gigabytes and of entries.
LEMMA WalksToItself ==
  ASSUME tables = CreateMappings, NEW v \in 0..Gigabytes * Entries - 1
  PROVE  Walk(v) = v
<1> DEFINE q == v \div Entries
           r == v % Entries
<1>1. /\ Entries \in Nat \ {0} /\ Gigabytes \in Nat \ {0} /\ Gigabytes <= Entries
      /\ Gigabytes * Entries \in Nat /\ v \in Nat /\ v < Gigabytes * Entries
  <2>1. Entries \in Nat \ {0} /\ Gigabytes \in Nat \ {0} /\ Gigabytes <= Entries
    BY SizesAssumption
  <2>2. Gigabytes * Entries \in Nat
    BY <2>1
  <2> QED
    BY <2>1, <2>2
<1>2. q \in Nat /\ r \in 0..Entries - 1 /\ v = Entries * q + r
  BY <1>1, Division
<1> HIDE DEF q, r
<1>3. q < Gigabytes
  <2> SUFFICES ASSUME Gigabytes <= q PROVE FALSE
    BY <1>1, <1>2
  <2>1. Entries * Gigabytes <= Entries * q /\ Entries * Gigabytes = Gigabytes * Entries
    BY <1>1, <1>2
  <2> QED
    BY <2>1, <1>1, <1>2
<1>4. tables[0][0] = 1
  BY <1>1 DEF CreateMappings
<1>5. tables[1][q] = 2 + q
  <2>1. 1 \in 0..Gigabytes + 1 /\ q \in 0..Gigabytes - 1
    BY <1>1, <1>2, <1>3
  <2>2. tables[1] = [e \in 0..Gigabytes - 1 |-> L2Table(e)]
    BY <2>1 DEF CreateMappings
  <2> QED
    BY <2>1, <2>2 DEF L2Table
<1>6. tables[2 + q][r] = v
  <2>1. 2 + q \in 0..Gigabytes + 1 /\ 2 + q # 0 /\ 2 + q # 1 /\ (2 + q) - 2 = q
    BY <1>1, <1>2, <1>3
  <2>2. tables[2 + q] = [e \in 0..Entries - 1 |-> ((2 + q) - 2) * Entries + e]
    BY <2>1 DEF CreateMappings
  <2>3. tables[2 + q][r] = q * Entries + r
    BY <2>1, <2>2, <1>2
  <2>4. q * Entries = Entries * q
    BY <1>1, <1>2
  <2> QED
    BY <2>3, <2>4, <1>2
<1> QED
  BY <1>4, <1>5, <1>6 DEF Walk, q, r

\* Long mode goes on at the addresses it was switched on at.
THEOREM SameAddresses == Spec => []IdentityMapped
<1>1. ASSUME LInv PROVE IdentityMapped
  <2>1. pc \in {"long", "seg64"} => tables = CreateMappings
    BY <1>1 DEF LInv, Classed, InElf
  <2> QED
    BY <2>1, WalksToItself DEF IdentityMapped
<1> QED
  BY <1>1, AllHolds, PTL

-----------------------------------------------------------------------------
\* A step of the loader is one of BootHandoff, or changes nothing of it.
LEMMA Leaves ==
  ASSUME Next
  PROVE  /\ pc \notin Stopped \cup {"entered"}
         /\ pc' = "entered" => Enter("seg32") \/ Enter("seg64")
<1> USE DEF Stopped, To, PanicAt
<1>1. CASE BootSector \/ EnableA20 \/ WaitIo \/ E820Entry \/ E820End
  BY <1>1 DEF BootSector, EnableA20, A20Check, A20Method, WaitIo, E820Entry, E820End
<1>2. CASE LoadKernelErr \/ ReadMbr \/ FindPartition \/ ReadBpb \/ InvalidOpcode
  BY <1>2 DEF LoadKernelErr, ReadMbr, FindPartition, ReadBpb, InvalidOpcode
<1>3. CASE FindKernel \/ LoadChunk \/ LoadDone
  BY <1>3 DEF FindKernel, LoadChunk, LoadDone
<1>4. CASE VbeInfo \/ VbeErr \/ VbeMode \/ VbeBest \/ Handoff16
  BY <1>4 DEF VbeInfo, VbeErr, VbeMode, VbeBest, Handoff16
<1>5. CASE SecondRead \/ Prot32 \/ LongInit \/ Long64
  BY <1>5 DEF SecondRead, Prot32, LongInit, Long64
<1>6. CASE Place("seg32") \/ Place("seg64")
  BY <1>6 DEF Place
<1>7. CASE Enter("seg32") \/ Enter("seg64")
  BY <1>7 DEF Enter
<1> QED
  BY <1>1, <1>2, <1>3, <1>4, <1>5, <1>6, <1>7 DEF Next, RealNext, LoadElf32, LoadElf64

\* What BootHandoff calls whole.
Owed ==
  AsBuilt(disk) =>
    \A k \in DOMAIN RootDir(disk) :
      IsKernelOf(disk, KernelName(x64), k) /\ Bootable(RootDir(disk)[k])
        => WholeKernel(RootDir(disk)[k])

\* There is one first entry with the kernel's name.
LEMMA OneKernel ==
  ASSUME NEW d, NEW name, NEW k, NEW m, RootDir(d) \in Seq(DirEntry),
         IsKernelOf(d, name, k), IsKernelOf(d, name, m)
  PROVE  k = m
<1>1. k \in 1..Len(RootDir(d)) /\ m \in 1..Len(RootDir(d))
  BY DEF IsKernelOf
<1>2. ~(k \in 1..m - 1) /\ ~(m \in 1..k - 1)
  BY DEF IsKernelOf
<1> QED
  BY <1>1, <1>2

\* The ELF loaders found the file the directory names, so what they copied of
\* it is its segments.
LEMMA WholeWhenLoaded ==
  ASSUME IInv, LInv, pc \in {"seg32", "seg64"}, seg = Len(Image.ph)
  PROVE  Owed
<1> SUFFICES ASSUME AsBuilt(disk), NEW k \in DOMAIN RootDir(disk),
                    IsKernelOf(disk, KernelName(x64), k), Bootable(RootDir(disk)[k])
             PROVE  WholeKernel(RootDir(disk)[k])
  BY DEF Owed
<1> DEFINE e == TakenEntry
<1>1. pc \in AfterDir /\ pc \in AfterLoad /\ pc \in InElf
  BY DEF AfterDir, AfterLoad, Loaded, InElf
<1>2. /\ RootDir(disk) \in Seq(DirEntry) /\ IsKernelOf(disk, KernelName(x64), Min(Taken))
      /\ e = RootDir(disk)[Min(Taken)] /\ e \in DirEntry
      /\ file.lba = ClusterLba(disk, e.cluster)
  BY <1>1, TakenIsKernel DEF IInv
<1>3. RootDir(disk)[k] = e
  <2>1. k = Min(Taken)
    BY <1>2, OneKernel
  <2> QED
    BY <2>1, <1>2
<1>4. /\ InOnePiece(e) /\ LoadAddr + e.size <= MemoryTop
      /\ WellFormed(KernelOn(e))
  BY <1>3 DEF Bootable
<1>5. \A b \in 0..e.size - 1 : SectorInPlace(e, b)
  <2> SUFFICES ASSUME NEW b \in 0..e.size - 1 PROVE SectorInPlace(e, b)
    OBVIOUS
  <2>1. LoadAddr + b < MemoryTop
    <3>1. LoadAddr \in Nat /\ MemoryTop \in Nat /\ e.size \in Nat
      BY <1>2, LoadAssumption DEF DirEntry
    <3> QED
      BY <3>1, <1>4
  <2> QED
    BY <2>1, <1>1, <1>4, TakenInPlace
<1>6. Image = KernelOn(e)
  <2>1. Image.valid
    BY <1>1 DEF LInv, Classed
  <2>2. LoadAddr \in DOMAIN buffer
    BY <2>1 DEF Image, NoElf
  <2>3. PICK n \in Nat : InOrder(n) /\ n + remaining = FileSectors /\ remaining = 0
    BY <1>1 DEF IInv, Reading
  <2>4. PICK s \in 0..n - 1 : LoadAddr = At(s)
    BY <2>2, <2>3 DEF InOrder
  <2>5. s = 0
    <3>1. LoadAddr = LoadAddr + s * SectorBytes /\ LoadAddr \in Nat /\ SectorBytes \in Nat \ {0}
      BY <2>4, LoadAssumption DEF At
    <3> QED
      BY <3>1
  <2>6. LoadAddr < MemoryTop
    <3>1. LoadAddr \in Nat /\ MemoryTop \in Nat /\ e.size \in Nat /\ 0 \in 0..n - 1
      BY <1>2, <2>4, <2>5, LoadAssumption DEF DirEntry
    <3>2. e.size > 0
      <4>1. n = Sectors(e.size) /\ n >= 1
        <5>1. file.size = e.size
          BY <1>1, TakenIsKernel DEF IInv
        <5> QED
          BY <5>1, <2>3, <2>4 DEF FileSectors
      <4>2. ASSUME e.size = 0 PROVE n = 0
        <5>1. n = (SectorBytes - 1) \div SectorBytes
          BY <4>1, <4>2, LoadAssumption DEF Sectors
        <5>2. SectorBytes * 0 <= SectorBytes - 1 /\ SectorBytes - 1 < SectorBytes * (0 + 1)
              /\ SectorBytes - 1 \in Nat /\ SectorBytes \in Nat \ {0}
          BY LoadAssumption
        <5> QED
          BY <5>1, <5>2, Quotient
      <4> QED
        BY <4>1, <4>2, <3>1
    <3> QED
      BY <3>1, <3>2, <1>4
  <2>7. buffer[LoadAddr] = file.lba + 0
    BY <2>3, <2>4, <2>5, <2>6 DEF InOrder
  <2>8. file.lba \in Int
    BY DEF IInv, Located
  <2> QED
    BY <2>2, <2>7, <2>8, <1>2 DEF Image, KernelOn
<1>7. Linked(Image)
  BY <1>4, <1>6 DEF WellFormed
<1>8. (\A m \in 1..seg : InMemory(m)) /\ DOMAIN Image.ph = 1..Len(Image.ph)
  BY <1>1, <1>7, ImageFacts DEF LInv, Segments
<1>9. Whole(mem, Image)
  BY <1>7, <1>8 DEF Whole, Linked, InMemory
<1> QED
  BY <1>3, <1>5, <1>6, <1>9 DEF WholeKernel

LEMMA OwedKept ==
  ASSUME UNCHANGED <<disk, x64, mem, buffer>> PROVE Owed' <=> Owed
BY DEF Owed, AsBuilt, RootDir, IsKernelOf, Bootable, WholeKernel, SectorInPlace, SectorLba,
   InOnePiece, KernelOn, ClusterLba, EspLba, Bpb, Esps

LEMMA StepHandsOver == ASSUME IInv, LInv, [Next]_vars PROVE [Handoff!Next]_(Handoff!vars)
<1> USE DEF Owed
<1>1. CASE UNCHANGED vars
  <2>1. Owed' <=> Owed
    BY <1>1, OwedKept DEF vars, real, given, loading, stages
  <2> QED
    BY <1>1, <2>1 DEF vars, real, Handoff!vars
<1>2. CASE Enter("seg32") \/ Enter("seg64")
  <2>1. /\ pc \in {"seg32", "seg64"} /\ pc' = "entered" /\ seg = Len(Image.ph)
        /\ UNCHANGED <<real, stages>>
    BY <1>2 DEF Enter, To
  <2>2. Owed
    BY <2>1, WholeWhenLoaded
  <2>3. Owed'
    BY <2>1, <2>2, OwedKept DEF real, given, loading, stages
  <2>4. info.entries = count /\ info' = info /\ count' = count
    BY <2>1 DEF LInv, Counted, Loaded, real
  <2> QED
    BY <2>1, <2>3, <2>4 DEF Handoff!Next, Handoff!Enter, Stopped
<1>3. CASE Next /\ ~Enter("seg32") /\ ~Enter("seg64")
  <2>1. pc \notin Stopped \cup {"entered"} /\ pc' # "entered"
    BY <1>3, Leaves
  <2> QED
    BY <2>1 DEF Handoff!Next, Handoff!Load, Handoff!Stop
<1> QED
  BY <1>1, <1>2, <1>3

LEMMA InitHandsOver == Init => Handoff!Init
  BY DEF Init, RealInit, Handoff!Init, Stopped

\* From the boot sector on the loader stops, or enters the kernel with the map
\* the BIOS gave it and, if AsBuilt(disk) and Bootable of the kernel's file, with
\* the kernel's whole image.  All of BootHandoff but its end, which is liveness.
THEOREM HandsOverSafely == Spec => Handoff!Init /\ [][Handoff!Next]_(Handoff!vars)
<1>1. IInv /\ LInv /\ [Next]_vars => [Handoff!Next]_(Handoff!vars)
  BY StepHandsOver
<1> QED
  BY <1>1, AllHolds, InitHandsOver, PTL DEF Spec
=============================================================================
