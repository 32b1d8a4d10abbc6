------------------------------- MODULE RealMode -------------------------------
(***************************************************************************)
(* The real-mode stage of the BIOS loader (x86/real-mode): the A20 line,   *)
(* the E820 memory map, the kernel's file on a GPT disk with a FAT file    *)
(* system, the video mode, and the words it leaves for the next stages.    *)
(*                                                                         *)
(* A sector is known by its number.  Of a mode only what is compared is    *)
(* kept.  Calls of the BIOS may fail wherever the code asks if they did.   *)
(***************************************************************************)
EXTENDS ElfImage, Integers, FiniteSetsExt

CONSTANTS
  Disks,        \* disks the BIOS may boot from
  Cpus,         \* processors it may run on
  ModeLists,    \* lists of video modes the card may have
  MaxLba,       \* last sector of a disk
  MaxE820,      \* bound of the model: entries the BIOS has
  LoadAddr,     \* KERNEL_LOAD_ADDR, 0x10000
  SectorBytes,  \* 512
  SegmentBytes, \* 0x10000
  MaxCount,     \* 127, sectors of one BIOS read
  MemoryTop,    \* 0xA0000: above are the screen's memory and the ROMs
  WrapAt        \* bound of the model: 0x100000, where dest_segment wraps

\* A disk: its MBR, its partition entries, and each sector read as a FAT
\* header, as a directory, and as the start of an ELF file.  The loader reads
\* neither spc, the sectors of a cluster, nor the FAT, whose chain of clusters
\* is kept with the file it is for.
BPB == [spc : Nat, rsvd : Nat, nfats : Nat, spf16 : Nat, spf32 : Nat, root : Nat]
DirEntry == [name : {"X64", "X86", "other", "zero"}, cluster : Nat, size : Nat,
             chain : Seq(Nat)]
Disk == [signed : BOOLEAN, protective : BOOLEAN,
         parts : Seq([esp : BOOLEAN, lba : Nat]),
         bpb : [0..MaxLba -> BPB], dir : [0..MaxLba -> Seq(DirEntry)],
         elf : [0..MaxLba -> File]]
Cpu == [ac : BOOLEAN, cpuid : BOOLEAN, extended : BOOLEAN, lm : BOOLEAN]
Mode == [ok : BOOLEAN, linear : BOOLEAN, bpp : Nat, width : Nat, height : Nat]

ASSUME LoadAssumption ==
  /\ SectorBytes \in Nat \ {0} /\ MaxCount \in Nat \ {0}
  /\ SegmentBytes \in Nat \ {0} /\ SegmentBytes % SectorBytes = 0
  /\ LoadAddr \in Nat /\ LoadAddr % SectorBytes = 0
  /\ MemoryTop \in Nat /\ MemoryTop % SegmentBytes = 0
  /\ MaxLba \in Nat /\ WrapAt \in Nat /\ LoadAddr <= MemoryTop /\ MemoryTop <= WrapAt
\* Each feature of a processor came with the one before it.
ASSUME MachinesAssumption ==
  /\ \A c \in Cpus : /\ c \in Cpu
                      /\ (c.lm => c.extended) /\ (c.extended => c.cpuid) /\ (c.cpuid => c.ac)
  /\ \A d \in Disks : d \in Disk
  /\ \A l \in ModeLists : l \in Seq(Mode)
  /\ MaxE820 \in Nat
\* No file is larger than what is below WrapAt: a larger one would be read over
\* the interrupt vectors and the loader, and nothing could be said from then on.
Sectors(n) == (n + SectorBytes - 1) \div SectorBytes
ASSUME FilesAssumption ==
  \A d \in Disks : \A s \in 0..MaxLba : \A k \in DOMAIN d.dir[s] :
    LoadAddr + Sectors(d.dir[s][k].size) * SectorBytes <= WrapAt
\* Headers lie in the first sector of a file, and segments go above WrapAt, as
\* the kernel's linker script puts them (2 MiB).
ASSUME KernelsAssumption ==
  \A d \in Disks : \A s \in 0..MaxLba : d.elf[s].valid =>
    /\ d.elf[s].tableEnd <= SectorBytes
    /\ \A k \in DOMAIN d.elf[s].ph : d.elf[s].ph[k].load => d.elf[s].ph[k].vaddr >= WrapAt

VARIABLES
  pc,      \* where the processor is
  disk, cpu,
  a20,     \* the A20 line is on
  count,   \* word at ADDR_E820_COUNT
  part,    \* part_lba
  file,    \* krnl_lba, krnl_sz and first_data_lba, once known
  dest, lba, remaining,  \* load_kernel_data
  buffer,  \* sector numbers by the address they were read to
  modes,   \* the mode list
  i,       \* modes init_framebuffer has looked at
  best,    \* best_mode, its size and bpp
  size,    \* the word at KERNEL_SIZE_ADDR
  x64,     \* load_kernel's result, then the byte at ADDR_X64
  info     \* the boot information at ADDR_BOOT_INFO: the map's entries, bpp

video == <<modes, i, best>>
loading == <<dest, lba, remaining, buffer>>
given == <<disk, cpu>>
NoFile == [lba |-> 0, size |-> 0, data |-> 0]
NoMode == [at |-> 0, bpp |-> 0, area |-> 0]
NoInfo == [entries |-> 0, bpp |-> 0]

-----------------------------------------------------------------------------
\* Each stage either goes on, or calls panic!, which prints and spins.
To(at, next) == pc = at /\ pc' = next
PanicAt(at) == To(at, "panic")

RealInit ==
  /\ pc = "mbr" /\ disk \in Disks /\ cpu \in Cpus
  /\ a20 \in BOOLEAN
  /\ count = 0 /\ part = 0 /\ file = NoFile
  /\ dest = LoadAddr /\ lba = 0 /\ remaining = 0 /\ buffer = [a \in {} |-> 0]
  /\ modes = <<>> /\ i = 0 /\ best = NoMode
  /\ size = 0 /\ x64 = FALSE /\ info = NoInfo

\* boot.asm up to its jump to the real-mode stage: extensions, one read.
BootSector ==
  /\ To("mbr", "a20") \/ To("mbr", "halted")
  /\ UNCHANGED <<given, a20, count, part, file, loading, video, size, x64, info>>

-----------------------------------------------------------------------------
\* enable_a20: check, then three methods, each followed by a check that
\* leaves the two bytes it writes as they were.  The waits for the keyboard
\* controller never give up.
A20Check(at, next) ==
  /\ pc = at
  /\ pc' = IF a20 THEN "e820" ELSE next
  /\ UNCHANGED a20
A20Method(at, next) ==
  /\ To(at, next)
  /\ a20' \in {a20, TRUE}
EnableA20 ==
  /\ \/ A20Check("a20", "a20Bios")
     \/ A20Method("a20Bios", "a20Check2")
     \/ A20Check("a20Check2", "a20Keyboard")
     \/ A20Method("a20Keyboard", "a20Check3")
     \/ A20Check("a20Check3", "a20Fast")
     \/ A20Method("a20Fast", "a20Check4")
     \/ A20Check("a20Check4", "panic")
  /\ UNCHANGED <<given, count, part, file, loading, video, size, x64, info>>
WaitIo ==
  /\ To("a20Keyboard", "spinning")
  /\ UNCHANGED <<given, a20, count, part, file, loading, video, size, x64, info>>

\* init_memory_map: one entry a call, until the BIOS says it was the last
\* (ebx = 0), or the call after it fails.
E820Entry ==
  /\ pc = "e820" /\ count < MaxE820
  /\ count' = count + 1
  /\ pc' \in {"e820", "mbrRead"}
  /\ UNCHANGED <<given, a20, part, file, loading, video, size, x64, info>>
E820End ==
  /\ To("e820", "mbrRead")
  /\ UNCHANGED <<given, a20, count, part, file, loading, video, size, x64, info>>

-----------------------------------------------------------------------------
\* Sectors the BIOS can read; it reports an error for others.
OnDisk(first, n) == first \in 0..MaxLba /\ first + n - 1 <= MaxLba

\* load_kernel.  A read that fails, or a check, is an Err that _start unwraps.
LoadKernelErr ==
  /\ \E at \in {"mbrRead", "gpt", "bpb", "dir", "load"} : PanicAt(at)
  /\ UNCHANGED <<given, a20, count, part, file, loading, video, size, x64, info>>

\* The MBR, with a protective entry that says the GPT header is sector 1.
ReadMbr ==
  /\ To("mbrRead", "gpt")
  /\ disk.signed /\ disk.protective
  /\ part' = 1
  /\ UNCHANGED <<given, a20, count, file, loading, video, size, x64, info>>

\* The first EFI system partition; without one part_lba stays at the GPT.
Esps == {k \in DOMAIN disk.parts : disk.parts[k].esp}
FindPartition ==
  /\ To("gpt", "bpb")
  /\ part' = IF Esps = {} THEN part ELSE disk.parts[Min(Esps)].lba
  /\ UNCHANGED <<given, a20, count, file, loading, video, size, x64, info>>

FirstDataLba(b) == part + b.rsvd + b.nfats * (IF b.spf16 # 0 THEN b.spf16 ELSE b.spf32)
ReadBpb ==
  /\ To("bpb", "dir")
  /\ OnDisk(part, 1)
  /\ file' = [file EXCEPT !.data = FirstDataLba(disk.bpb[part])]
  /\ UNCHANGED <<given, a20, count, part, loading, video, size, x64, info>>

\* cpu_bitness, asked on any processor that has the AC flag.  On one that
\* has no CPUID instruction this is an invalid opcode, whose handler in the
\* BIOS returns to the same instruction.
Is486OrLater == cpu.ac
CpuBitness64 == cpu.extended /\ cpu.lm
Faults == Is486OrLater /\ ~cpu.cpuid
Detected64 == Is486OrLater /\ CpuBitness64
InvalidOpcode ==
  /\ To("dir", "fault")
  /\ Faults
  /\ UNCHANGED <<given, a20, count, part, file, loading, video, size, x64, info>>

\* The entry with the kernel's name in the root directory's first sector,
\* searched up to a name of zeroes.  In the code the sum wraps at 2^32: what
\* is below 0 here is a number no disk reaches there, and OnDisk refuses both.
KernelName(is64) == IF is64 THEN "X64" ELSE "X86"
EntryFound(d, name) ==
  {k \in DOMAIN d : d[k].name = name /\ \A m \in 1..k - 1 : d[m].name # "zero"}
FindKernel ==
  /\ To("dir", "load")
  /\ ~Faults /\ OnDisk(file.data, 1)
  /\ x64' = Detected64
  /\ LET d == disk.dir[file.data]
         found == EntryFound(d, KernelName(Detected64))
         e == d[Min(found)]
         first == e.cluster + file.data - disk.bpb[part].root
     IN  /\ found # {} /\ e.cluster # 0
         /\ file' = [file EXCEPT !.lba = first, !.size = e.size]
         /\ lba' = first
         /\ remaining' = Sectors(e.size)
  /\ UNCHANGED <<given, a20, count, part, dest, buffer, video, size, info>>

\* One read of load_kernel_data, up to the next 64 KiB boundary.  Nothing
\* stops it at MemoryTop: it goes on, and what it reads to the screen's memory
\* and the ROMs is lost.
CountToLimit == Min({remaining, MaxCount})  \* mutant: the boundary is forgotten
Count ==
  Min({remaining, (SegmentBytes - (dest % SegmentBytes)) \div SectorBytes, MaxCount})
LbaNextStays == lba + Count - 1  \* mutant: off by one
LbaNext == lba + Count
ReadTo == {dest + k * SectorBytes : k \in 0..Count - 1}
LoadChunk ==
  /\ pc = "load" /\ remaining > 0 /\ OnDisk(lba, Count)
  /\ buffer' = [a \in DOMAIN buffer \cup {b \in ReadTo : b < MemoryTop} |->
                   IF a < dest THEN buffer[a] ELSE lba + (a - dest) \div SectorBytes]
  /\ dest' = dest + Count * SectorBytes
  /\ lba' = LbaNext
  /\ remaining' = remaining - Count
  /\ UNCHANGED <<pc, given, a20, count, part, file, video, size, x64, info>>
LoadDone ==
  /\ To("load", "vbe")
  /\ remaining = 0
  /\ size' = file.size
  /\ UNCHANGED <<given, a20, count, part, file, loading, video, x64, info>>

-----------------------------------------------------------------------------
\* init_framebuffer: the controller information, then the modes one by one.
VbeInfo ==
  /\ To("vbe", "modes")
  /\ modes' \in ModeLists
  /\ UNCHANGED <<given, a20, count, part, file, loading, i, best, size, x64, info>>
VbeErr ==
  /\ \/ PanicAt("vbe")
     \/ PanicAt("modes") /\ i = Len(modes) /\ best = NoMode
     \/ PanicAt("setMode")
  /\ UNCHANGED <<given, a20, count, part, file, loading, video, size, x64, info>>

Usable(m) == m.ok /\ m.linear /\ m.bpp \in {24, 32}
Area(m) == m.width * m.height
BetterByArea(m) == Area(m) > best.area \/ m.bpp > best.bpp  \* mutant: area beats depth
Better(m) == m.bpp > best.bpp \/ (m.bpp = best.bpp /\ Area(m) > best.area)
VbeMode ==
  /\ pc = "modes" /\ i < Len(modes)
  /\ i' = i + 1
  /\ LET m == modes[i + 1]
     IN  best' = IF Usable(m) /\ Better(m)
                 THEN [at |-> i + 1, bpp |-> m.bpp, area |-> Area(m)]
                 ELSE best
  /\ UNCHANGED <<pc, given, a20, count, part, file, loading, modes, size, x64, info>>
VbeBest ==
  /\ To("modes", "setMode")
  /\ i = Len(modes) /\ best # NoMode
  /\ UNCHANGED <<given, a20, count, part, file, loading, video, size, x64, info>>

\* _start: the byte at ADDR_X64 keeps x64, and the boot information.
InfoEntriesOneMore == count + 1  \* mutant
InfoEntries == count
Handoff16 ==
  /\ To("setMode", "stage2")
  /\ info' = [entries |-> InfoEntries, bpp |-> best.bpp]
  /\ UNCHANGED <<given, a20, count, part, file, loading, video, size, x64>>

RealNext ==
  \/ BootSector \/ EnableA20 \/ WaitIo \/ E820Entry \/ E820End
  \/ LoadKernelErr \/ ReadMbr \/ FindPartition \/ ReadBpb
  \/ InvalidOpcode \/ FindKernel \/ LoadChunk \/ LoadDone
  \/ VbeInfo \/ VbeErr \/ VbeMode \/ VbeBest \/ Handoff16
=============================================================================
