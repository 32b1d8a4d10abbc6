----------------------------- MODULE BiosLoader -----------------------------
(***************************************************************************)
(* The BIOS loader from the boot sector to the kernel: RealMode, then the  *)
(* second read of boot.asm, and the 32-bit or the 64-bit loader of an ELF  *)
(* file.  One processor runs it with interrupts of no consequence.         *)
(***************************************************************************)
EXTENDS RealMode

CONSTANTS
  SizeSeen,     \* what the word at 0x7C60 holds: boot.asm's filling
  HeaderBytes,  \* size of an ELF header
  Gigabytes,    \* 10, tables of level 2 long::init makes
  Entries       \* 512, of a page table

ASSUME SizesAssumption ==
  SizeSeen \in Nat /\ HeaderBytes \in Nat /\ Gigabytes \in 1..Entries /\ Entries \in Nat

VARIABLES
  mem,    \* memory above WrapAt, as the ELF loaders write it
  seg,    \* program headers gone through
  tables  \* the page tables, by their number from PAGE_TABLE_BASE

stages == <<mem, seg, tables>>
real == <<given, a20, count, part, file, loading, video, size, x64, info>>
vars == <<pc, real, stages>>

Stopped == {"halted", "panic", "spinning", "fault", "red"}
TypeOK ==
  /\ pc \in Stopped \cup
       {"mbr", "a20", "a20Bios", "a20Check2", "a20Keyboard", "a20Check3", "a20Fast",
        "a20Check4", "e820", "mbrRead", "gpt", "bpb", "dir", "load", "vbe", "modes",
        "setMode", "stage2", "prot", "seg32", "long", "seg64", "entered"}
  /\ disk \in Disks /\ cpu \in Cpus /\ modes \in ModeLists \cup {<<>>}
  /\ a20 \in BOOLEAN /\ x64 \in BOOLEAN
  /\ count \in 0..MaxE820 /\ info.entries \in 0..MaxE820
  /\ lba \in Int /\ remaining \in Nat
  /\ dest \in LoadAddr..WrapAt /\ (dest - LoadAddr) % SectorBytes = 0
  /\ i \in 0..Len(modes) /\ best.at \in 0..Len(modes)

-----------------------------------------------------------------------------
Init == RealInit /\ mem = NoMemory /\ seg = 0 /\ tables = NoMemory

\* 0x7d00: read the other stages; if that fails, loop.
SecondRead ==
  /\ To("stage2", "prot") \/ To("stage2", "halted")
  /\ UNCHANGED <<real, stages>>

\* The ELF file the loaders find at LoadAddr: the one that starts in the
\* sector read there.  Memory nobody filled does not read as one.
NoElf == [valid |-> FALSE, class |-> 32, size |-> 0, tableEnd |-> 0, entry |-> 0, ph |-> <<>>]
Image == IF LoadAddr \in DOMAIN buffer THEN disk.elf[buffer[LoadAddr]] ELSE NoElf

\* load_elf32 and load_elf64 differ in the class they ask for.
HeaderOkAnyClass(class) ==  \* mutant
  Image.valid /\ Image.tableEnd <= SizeSeen
HeaderOk(class) ==
  /\ SizeSeen >= HeaderBytes
  /\ Image.valid /\ Image.class = class
  /\ Image.tableEnd <= SizeSeen

\* protected-mode _start.  A None is unwrapped: a red screen.
Prot32 ==
  /\ pc = "prot" /\ ~x64
  /\ pc' = IF HeaderOk(32) THEN "seg32" ELSE "red"
  /\ UNCHANGED <<real, stages>>
\* long::init: one table of level 4, one of level 3, and those of level 2,
\* whose entries are 2 MiB pages, numbered from address 0.
L2TableTooLow(k) == 1 + k  \* mutant: the first one is the level 3 table
L2Table(k) == 2 + k
CreateMappings ==
  [t \in 0..Gigabytes + 1 |->
     CASE t = 0 -> [e \in {0} |-> 1]
       [] t = 1 -> [e \in 0..Gigabytes - 1 |-> L2Table(e)]
       [] OTHER -> [e \in 0..Entries - 1 |-> (t - 2) * Entries + e]]
LongInit ==
  /\ To("prot", "long")
  /\ x64
  /\ tables' = CreateMappings
  /\ UNCHANGED <<real, mem, seg>>
\* long-mode _start.
Long64 ==
  /\ pc = "long"
  /\ pc' = IF HeaderOk(64) THEN "seg64" ELSE "red"
  /\ UNCHANGED <<real, stages>>

\* One program header: copied, cleared behind; a None as before.
Place(at) ==
  /\ pc = at /\ seg < Len(Image.ph)
  /\ LET p == Image.ph[seg + 1]
         fits == p.offset + p.filesz <= SizeSeen
     IN  /\ pc' = IF p.load /\ ~fits THEN "red" ELSE at
         /\ mem' = IF p.load /\ fits THEN Placed(mem, p) ELSE mem
  /\ seg' = seg + 1
  /\ UNCHANGED <<real, tables>>
Enter(at) ==
  /\ To(at, "entered")
  /\ seg = Len(Image.ph)
  /\ UNCHANGED <<real, stages>>
LoadElf32 == Place("seg32") \/ Enter("seg32")
LoadElf64 == Place("seg64") \/ Enter("seg64")

Next ==
  \/ RealNext /\ UNCHANGED stages
  \/ SecondRead \/ Prot32 \/ LongInit \/ Long64 \/ LoadElf32 \/ LoadElf64

\* One processor runs this alone, and the BIOS comes back from its calls.
Spec == Init /\ [][Next]_vars /\ WF_vars(Next)

-----------------------------------------------------------------------------
\* Where the FAT's layout, not the loader's arithmetic, has a cluster, the
\* root directory and the sectors of a file.
EspLba(d) == d.parts[Min({p \in DOMAIN d.parts : d.parts[p].esp})].lba
Bpb(d) == d.bpb[EspLba(d)]
ClusterLba(d, c) ==
  EspLba(d) + Bpb(d).rsvd + Bpb(d).nfats * Bpb(d).spf32 + (c - 2) * Bpb(d).spc
RootDir(d) == d.dir[ClusterLba(d, Bpb(d).root)]
SectorLba(d, e, s) == ClusterLba(d, e.chain[s \div Bpb(d).spc + 1]) + (s % Bpb(d).spc)
IsKernelOf(d, name, k) ==
  /\ k \in DOMAIN RootDir(d) /\ RootDir(d)[k].name = name
  /\ \A m \in 1..k - 1 : RootDir(d)[m].name # name

\* What the loader takes for granted of a disk, and x86.sh makes: an ESP with
\* FAT32, its root directory in cluster 2, one sector a cluster.  And of a file:
\* its clusters follow one another.
AsBuilt(d) == Esps # {} /\ Bpb(d).spf16 = 0 /\ Bpb(d).root = 2 /\ Bpb(d).spc = 1
InOnePiece(e) ==
  /\ Len(e.chain) >= Sectors(e.size)
  /\ \A c \in DOMAIN e.chain : e.chain[c] = e.cluster + c - 1

\* On such a disk load_kernel leaves the file from KERNEL_LOAD_ADDR on, however
\* its reads were split and however large it is, as far as there is memory:
\* the sector with its byte b is where b is looked for.
Loaded == {"prot", "long", "seg32", "seg64", "entered"}
SectorInPlace(e, b) ==
  LET s == b \div SectorBytes
  IN  /\ LoadAddr + s * SectorBytes \in DOMAIN buffer
      /\ buffer[LoadAddr + s * SectorBytes] = SectorLba(disk, e, s)
KernelInPlace ==
  pc \in Loaded /\ AsBuilt(disk) =>
    \E k \in DOMAIN RootDir(disk) :
      /\ IsKernelOf(disk, KernelName(x64), k)
      /\ LET e == RootDir(disk)[k]
         IN  InOnePiece(e) =>
               \A b \in 0..e.size - 1 : LoadAddr + b < MemoryTop => SectorInPlace(e, b)

\* Each BIOS read has at least one sector and no more than the BIOS takes,
\* and stays inside one 64 KiB segment.
ReadsFitBios ==
  [][dest' # dest =>
       LET n == (dest' - dest) \div SectorBytes
       IN  /\ n \in 1..MaxCount
           /\ dest \div SegmentBytes = (dest' - 1) \div SegmentBytes]_vars

\* The mode set is the deepest one that is usable, the largest of those, and
\* the first of these.
BestModeChosen ==
  pc \in {"setMode", "stage2", "entered"} =>
    /\ Usable(modes[best.at])
    /\ \A k \in DOMAIN modes : k # best.at /\ Usable(modes[k]) =>
         LET m == modes[k]  b == modes[best.at]
         IN  \/ m.bpp < b.bpp
             \/ m.bpp = b.bpp /\ Area(m) < Area(b)
             \/ m.bpp = b.bpp /\ Area(m) = Area(b) /\ best.at < k

\* A kernel is entered in the mode of its class, and in long mode only on a
\* processor that has it, whatever the file is called.
RightClass ==
  pc = "entered" =>
    /\ Image.class = (IF cpu.lm THEN 64 ELSE 32)
    /\ x64 <=> tables # NoMemory

\* load_elf32: "Sanity check: segment data must be within kbuf"; kbuf is to be
\* the kernel's file.  The size is looked for where nobody writes it.
SegmentsInFile ==
  pc = "entered" =>
    \A k \in DOMAIN Image.ph : Image.ph[k].load =>
      Image.ph[k].offset + Image.ph[k].filesz <= file.size

\* Long mode goes on with addresses that mean what they meant before.
Walk(v) == tables[tables[tables[0][0]][v \div Entries]][v % Entries]
IdentityMapped ==
  pc \in {"long", "seg64"} => \A v \in 0..Gigabytes * Entries - 1 : Walk(v) = v

\* What has to be true of the kernel's file, too, for it to be entered whole:
\* it ends below MemoryTop, and it is the whole file of a linked kernel.  Whole
\* it is if each segment was copied from where it is in the file, and the file
\* was there.
KernelOn(e) == disk.elf[ClusterLba(disk, e.cluster)]
Bootable(e) ==
  /\ InOnePiece(e) /\ LoadAddr + e.size <= MemoryTop
  /\ WellFormed(KernelOn(e)) /\ KernelOn(e).size = e.size
WholeKernel(e) ==
  Whole(mem, KernelOn(e)) /\ \A b \in 0..e.size - 1 : SectorInPlace(e, b)

\* The loader does what BootHandoff asks: it stops, or enters the kernel with
\* the map the BIOS gave it and, if the disk and the file are what it takes
\* them for, with its whole image; and it does one or the other in the end.
Handoff == INSTANCE BootHandoff WITH
  stage <- IF pc = "entered" THEN "entered"
           ELSE IF pc \in Stopped THEN "stopped" ELSE "loading",
  memory <- count,
  info <- info.entries,
  whole <- AsBuilt(disk) =>
             \A k \in DOMAIN RootDir(disk) :
               IsKernelOf(disk, KernelName(x64), k) /\ Bootable(RootDir(disk)[k])
                 => WholeKernel(RootDir(disk)[k])
HandsOver == Handoff!Spec
=============================================================================
