# Verification of HTMOS

HTMOS is a boot loader pair (BIOS and UEFI) and a kernel written in Rust. This
directory holds TLA+ modules translated from that code, TLC configurations that
check them on small instances, and TLAPS proofs of the most important results
for every instance. References such as `htmalloc.rs:265` are to files under
`src/kernel/src/` unless a path is given.

Contents: [the system](#the-system), [the modules](#the-modules),
[the runs](#the-runs), [what is proved](#what-is-proved),
[where code and documentation disagree](#where-code-and-documentation-disagree),
[what is not modelled](#what-is-not-modelled), [the plan](#the-plan).

## The system

From power-on to the kernel's idle loop the program is a pipeline. Each stage
runs alone and hands over memory and pointers; nothing is concurrent until the
kernel turns interrupts on, after its memory map and its allocator are set up.
From then on the main program and the keyboard's interrupt handler share the
processor and the console. The firmware is never still: it may change the memory
map between any two steps of the UEFI loader, and any of its calls may fail.

```
 boot.asm -> real mode -> protected mode -> (long mode) --.
             RealMode     BiosLoader         BiosLoader    \       BootHandoff
             A20, E820,   load_elf32         load_elf64     \  HTMOSBootInformation
             disk, VBE                                       >----------------------> kernel entry()
 firmware -> efi_main -> segments -> exit_boot_services ----'                        Kernel
                         UefiLoader                                                    |
                                                                                       v
      get_mmap() -> HTMAS.update() -> x86_64_stuff::init() -> interrupts on -> logo, RSDP, hlt
      MemoryMap     HTMAlloc          Keyboard                Console, Draw
```

| Component | State it keeps | Operations | Interacts with | What is hard | What makes it correct |
|---|---|---|---|---|---|
| Sections, `cmp_mem_sct` (htmalloc.rs, main.rs; two copies) | none | compare two (start, size) pairs | memory map, allocator | boundaries that touch, wrapping ends | one answer for every pair, both callers agree on what it means |
| Allocator `HTMAlloc` (htmalloc.rs) | the memory map; `taken`, a `Vec` of sections that lives in the memory it manages, its own entry first | `update`, `alloc`, `alloc_zeroed`, `dealloc`, `dealloc_ptr_only`, `realloc` | called by every `Vec` and `Box` in the kernel, and by itself when `taken` grows | index taken in one slice and used in another, growth of the table inside an `alloc`, arithmetic that wraps, a move that fails half way | blocks held share no byte with one another or with the table, lie in free memory, and stay recorded |
| Memory map (main.rs `get_mmap`, `glue_section`, `rip_section`, `organize`) | an array of 256 sections and its length | glue in what the firmware calls free, rip out what is in use | reads the boot information, the E820 or UEFI map and the UEFI tables; gives the map to `update` | any order and overlap of descriptors, edits of a copy, restarts of a loop, a full array | only free bytes, in ascending sections with gaps; nothing that is in use; ends |
| Kernel entry (main.rs `entry`, boot_info.rs, `KRNL_ERR` and `panic_handler` in kiss/mod.rs) | `BOOT_INFO`, set once; `KRNL_ERR` | checks of the boot information, search of the RSDP, phases that set the error code | everything above; the panic handler draws through `BOOT_INFO` | a panic before `BOOT_INFO` is set, a panic in the panic handler | the error code on the screen names the phase that failed; the handler always gets to its halt |
| Console and framebuffer (kiss/mod.rs) | cursor, colours; the framebuffer | `print_ascii`, `set_ascii`, `set_pixel`, `fill_screen`, `clear_screen` | main program, panic handler and keyboard interrupt, without a lock | interleaved output, a cursor past the edge, `x > width` for `x >= width` | characters land inside the framebuffer, at the cursor, in the colour set |
| Drawing (kiss/draw.rs) | none | lines, rectangles, arcs | framebuffer | signs and slopes in Bresenham's loop | ends, draws both endpoints, draws a connected line |
| Interrupts (x86_64_stuff.rs) | IDT, APIC registers, the i8042 controller | `init`, keyboard handler, exceptions | console | order of masking and unmasking, a controller that is never ready, the answer to 0xF4 read by the wrong reader | no key is lost for good: every interrupt is acknowledged |
| ACPI and configuration tables (cfg_tbl/mod.rs, main.rs) | none | search and checks of the RSDP | firmware memory | checksums | only a table whose checksum is 0 is used |
| UEFI loader (bootloader-uefi) | system table, image handle; pools it allocates | `load_file`, loading of segments, `exit_boot_services` | firmware | the map changes between two calls, retries, error paths that leak | boot services are left with the key of the map handed over, with one pool |
| BIOS loader, real mode (bootloader-bios/x86/real-mode) | boot information at 0x7C00, E820 map at 0x500 | A20, E820, kernel lookup on GPT and FAT, sector loader, VBE mode, CPU detection | BIOS services, next stages | reads that must not cross 64 KiB, a count that reaches 0, an E820 list that never ends | the file is read completely, in order, at its address |
| BIOS loader, protected and long mode | page tables, the kernel's segments | `load_elf32`, `load_elf64`, switch of modes | real-mode stage's memory, kernel | unchecked sums of header fields, a bad segment after good ones were copied | every loadable segment is where its header says, zeroed behind its file part |
| Builder (src/builder) | arguments, the image file or device | build, write image, write USB | host operating system | a step that fails leaves a half-written device | a failure is reported |
| `boot.asm` | none | loads the stages | BIOS | none beyond its reads | straight-line code |

`PROJECT.json` lists the same components with their files, and under `hazards`
what in this code is hard to test, each at its line with the properties that
would catch it, or the reason why none does.

## The modules

| Module | What it is |
|---|---|
| `MemSection`, `MemSection_proofs` | (start, size) pairs, `usize` arithmetic that wraps at `UsizeBound`, `cmp_mem_sct`; what it answers for sections that do not wrap |
| `Allocator` | abstract: what a global allocator promises its clients |
| `HTMAlloc`, `HTMAlloc_proofs` | htmalloc.rs, with three kinds of clients; an inductive invariant for each kind, and `Allocator` implemented |
| `MemoryMap`, `MemoryMap_proofs` | `get_mmap` and what it calls; the map it returns, and what each call takes out of it |
| `BootHandoff` | abstract: what a boot loader owes the kernel |
| `ElfImage` | an ELF file, memory as the three loaders leave it, and when an image is whole |
| `UefiLoader`, `UefiLoader_proofs` | `efi_main` and its helpers against a firmware that changes its map and fails calls; `BootHandoff`'s safety proved |
| `RealMode` | the real-mode stage of the BIOS loader |
| `BiosLoader`, `BiosLoader_proofs` | `RealMode` with the boot sector before it and the protected-mode and long-mode stages behind it; sector loader, video mode, page tables, ELF loaders and `BootHandoff`'s safety proved |
| `Keyboard` | `x86_64_stuff::init`, the keyboard handler, and the hardware between them |
| `Console` | the console of kiss/mod.rs, one byte a step |
| `Kernel`, `Kernel_proofs` | `entry()` and the panic handler, composed with `Keyboard` and `Console`; an invariant for each of the three parts |
| `Draw`, `Draw_proofs` | lines, rectangles and rounded rectangles of kiss/draw.rs; Bresenham's loop and the outlines proved |
| `MinTheorems` | the least element of a set of numbers |
| `MCHTMAlloc`, `MCMemoryMap`, `MCUefiLoader`, `MCBiosLoader`, `MCKernel`, `MCDraw` | small instances for TLC |

`MemSection` is extended by both components, as `cmp_mem_sct` is copied into
both files (htmalloc.rs:36-74, main.rs:48-86; the copies agree line by line).
`MemoryMap` and `HTMAlloc` meet in one place, `HTMAS.update(get_mmap())`
(main.rs:800). What `HTMAlloc` assumes of a map (`MapsAssumption`: ascending
sections with gaps between them, none at address 0, none empty) is what
`MemoryMap_proofs` proves of the result: `MapApart` and `NullNotMapped`. One
corner is left over. If the firmware frees memory at address 0 and the unstable sort
drops that section in place of a removed one (main.rs:170-173), an empty section
(0, 0) stays first in the map; the theorems do not cover such a map. The
standard library sorts up to 20 elements stably, so it takes a longer map.

`UefiLoader` and `BiosLoader` both implement `BootHandoff`; `ElfImage` is the
file format and memory they share. In `Kernel` a machine's `map` stands for all
of `MemoryMap`: `get_mmap` returns or it panics.

### HTMAlloc

State: `mmap` (`HTMAlloc.mmap`), `taken` (the `Vec`: buffer address `ptr`,
capacity `cap`, contents `v`), `live` (which block each client holds: a ghost,
what callers know), `halted` (the panic handler runs).

One action per operation: `Update`, `Alloc` (also `alloc_zeroed`, whose
bookkeeping is the same), `Dealloc`, `DeallocPtrOnly`, and for `realloc` its
three outcomes `ReallocShrink`, `ReallocInPlace` and `ReallocMove`. Its fourth
branch, for the table's own buffer, is the operator `Grow`, which `Pushed` calls
in the middle of an `Alloc` exactly as `Vec::push` does.

Points where the translation needs care:

- `taken_match` and `taken_match_start` search `v[1..]` and use the index on
  `v`. The models keep that: in TLA+'s numbering the entry found at `e` gives
  index `e - 1`.
- Sorting is `sort_unstable`, so sections with the same start may come out in
  any order, and the binary search may find any of them. `Organized` and
  `TakenMatchStart` are therefore sets of outcomes. A table that already
  increases strictly is left alone, as in the code.
- A table that is moved when it grows is not copied. What the new buffer reads
  as is any sequence of sections in the constant `Junk`.
- A block laid over the table would let the clients' own stores rewrite the
  table. No store is modelled; exploration stops at such a state (`Sane`), which
  is itself part of `LiveDisjoint`.
- `Layout::align` only pads sizes. `Sizes` are the padded ones, but for
  `dealloc_ptr_only`, which pads the size found in the table to 8 again
  (htmalloc.rs:309, `PadTo8`): a block of a size that is no multiple of 8 is not
  found under the padded one, and stays in the table.

Three kinds of clients share these actions:

- `Spec`: any order of all operations;
- `PlainSpec`: allocate and free only, the table in the lowest section and
  never full;
- `CarefulSpec`: as `PlainSpec`, and a block is freed only while no other block
  of its size (nor of the table's) is held, and moved only to a size no entry
  has. That clients behave so is an assumption and translates no code. It is
  the largest class of clients found for which the allocator keeps its promise:
  the violation runs show what goes wrong for others.

### MemoryMap

State: `boot` (what `get_mmap` reads), `todo` (calls it still has to make),
`map` (its `mmap`), `pc`, and the locals of the running call: `call` (the section
given), `arr` (the copy both methods work on), `i` and `edit` of `rip_section`.

`GlueSection` is `glue_section` up to its merging loop, `Merge` one pass of the
loop, `GlueEnd` its end. `RipSection` is `rip_section` up to its loop; then one
action per arm of its `match`: `RipTail` (StartBranch), `RipHead` (EndBranch),
`RipInside` (NoChange, with `Shrink` for the four scenarios of the comment and
`Restart` for the call of `organize`), `RipWhole` (Overwrite), `RipNone`
(Separate), and `RipEnd`. `Return` ends `get_mmap`.

- The array and its length are one sequence. A removal stores (0, 0), sorts
  downwards, drops the last pair and sorts upwards; a section that starts at 0
  ties with the (0, 0), and either may be dropped (`Removed`).
- Both methods edit a copy and assign it to `*self` on their last line. The
  early `return` of the split (main.rs:278) skips that line, and `Restart`
  organizes `self` while the loop goes on with the copy: the models keep both.
- A descriptor that is not free memory still takes a turn of `get_mmap`'s first
  loop: it is a call of its own, `PassOver`, that changes nothing else.
- Panics are values of `pc`: `"full"` for an index past the array,
  `"unreachable"` for the `unreachable!` at main.rs:252.
- `FirmwareAssumption`: no descriptor, image or table the kernel is told of ends
  at or past the end of the address space. The code adds start and size without
  a check.

### BootHandoff, ElfImage and UefiLoader

`BootHandoff` has four variables: the `stage`, the machine's `memory` map, the
map the kernel is told of (`info`), and whether the kernel's image is `whole`.
A loader goes on, stops for good, or enters the kernel; it enters with a whole
image and with the map that is the machine's at that moment; and one of the two
ends is reached.

`ElfImage` writes memory as a function from the addresses written to what was
written there, so "not written" can be told from "cleared". `Placed` is the
copy and the clearing behind it; `Whole` states the result without them.
`Linked` and `WellFormed` describe what a linker makes. No loader checks it: a
file that is not of that kind is loaded all the same, and the properties
that need it name it as their precondition.

`UefiLoader` has one action per firmware call of `efi_main` and `load_file`,
each of which may fail (`?` in the code: `"returned"`), then `LoadSegment` per
program header, and the loop of `exit_boot_services` (helper.rs:104-160) as
`QuerySize`, `AllocateMap`, `FetchMap`, `ExitAccepted`, `ExitRefused`,
`ExitFailed` and `Retry`. `FirmwareChange` may come between any two of them: it changes the number
of descriptors, which stands for the map, and makes the key the loader holds a
stale one (`fresh`). So does every allocation of the loader itself. A map that
outgrew its buffer by more than the two spare descriptors (helper.rs:129) makes
the loader give up.

Of a segment the code asks pages for `memsz` bytes (main.rs:164) and copies
`filesz` (main.rs:195) without comparing the two, and it jumps to
`kernel_pentry`, which is 0 if no segment holds `e_entry` (main.rs:157, 253).
`LoadSegment` does the same: bytes past the pages are written, and `pentry`
stays 0. `WritesOwnPages` names these bytes (`WrittenTooFar`) as the only ones
outside the pages granted, and `HandsOver` speaks of the entry point of linked
kernels only.

### RealMode and BiosLoader

`pc` is where the processor is. `RealMode` goes from the jump of boot.asm to its
jump to the next stage: `EnableA20` (a check and three methods, any of which may
do nothing), `E820Entry` and `E820End`, the lookup of the kernel (`ReadMbr`,
`FindPartition`, `ReadBpb`, `FindKernel`), `LoadChunk` once per BIOS read of
`load_kernel_data`, the choice of a video mode one mode a step, and `Handoff16`.
`LoadKernelErr` is the `Err` of any of them, which `_start` unwraps. A sector
is its number, so `buffer` says which sector is where; what a disk's sectors
hold as a FAT header, as a directory and as the start of an ELF file is given
with the disk. Two things are given that the loader never reads: the sectors of
a cluster (`spc`) and, with each file, the clusters the FAT links for it
(`chain`). They say where the file is, so that where the loader takes it from
can be compared with that.

`load_kernel_data` has no stop at the end of low memory, and `LoadChunk` has
none: sectors above `MemoryTop` go to the screen's memory and to ROM, so
`buffer` forgets them, and the load goes on, returns true, and the kernel is
entered with what is there. The ELF loaders see at `LoadAddr` whatever file
starts in the sector read there (`Image`), the right one or not; their header
check looks at the header alone. The model ends at `WrapAt`, the 1 MiB where
`dest_segment` wraps (bios.rs:815): beyond it a file is read over the
interrupt vectors and the loader itself, and `FilesAssumption` leaves such files
out. `KernelsAssumption` puts program headers into a file's first sector and
segments above `WrapAt`; linker.ld puts them at 2 MiB.

`BiosLoader` adds `SecondRead` of boot.asm, `Prot32`, `LongInit` (the page
tables), `Long64`, and one action per program header. Ends are values of `pc`:
`panic` and `halted` are loops the code means; `red` is the screen a later stage
leaves; `spinning` is a wait for the keyboard controller that never ends;
`fault` is CPUID on a processor without it.

What the loader takes for granted of a disk is `AsBuilt` (an ESP with FAT32, the
root directory in cluster 2, one sector a cluster, as x86.sh makes it), and of
a file `InOnePiece`. `KernelInPlace` and the whole image of `HandsOver` are
promised under these, and the latter for kernels that are `Bootable`: linked, the
whole file there, and below `MemoryTop`. On other disks the loader goes as far
as the code does, and the run has them enter wrong or damaged kernels.

### Keyboard, Console and Kernel

`Keyboard` has a program counter for `init` (`ip`) and one for the handler
(`hp`), and one access of a device is one step of either. The hardware is
external: bytes on their way (`sent`), the controller's output buffer (`obf`) and
input buffer (`ibf`, `taken`), the IO-APIC's entry 1, the local APIC's request
and service bits. The interrupt is an edge, as the entry is programmed: it is
requested when a byte arrives in the buffer, and lost if nobody would get it.

In `Console` two references to one console are undefined behaviour, so the
build has a choice, made once (`cached`): keep the cursor in registers during a
string, or read it for each byte. In the latter case a store may be computed
from the value read or from memory (`Stores`). The handler's output is one step:
interrupts are off and the main program cannot come in between. For a key it
prints a letter, the name of a key that has none (x86_64_stuff.rs:141; a word of
up to `Letters` letters, `PrintWord`) or a new line.

`Kernel` is `entry()`: a value of `pc` per phase, with the codes written to
`KRNL_ERR` as the phases write them. `Panic` goes to `PanicHandler`, which
needs the boot information and a pixel format it knows. `Main` is the main
program, which goes on while no handler runs: that is the processor's
interrupt gate and not code of the kernel. `Handler` is the interrupt,
`Hardware` the rest. What a machine is (`Machine`)
is what `entry()` meets, so every way through it has a machine.

### Draw

A shape is a sequence of strokes as `draw_rect` and `draw_rounded_rect` make
them, and a stroke ends when `n` moves on. A slanted line is the loop of
`draw_line`, one pixel a step, with its `err`. A pixel is a point; of an arc only
its two ends are kept. `spoiled` collects what `draw_line` writes for two equal
points: it takes the address of the memory map for the screen's (draw.rs:131).

## The runs

Bounds are constants of the models and are named there: `UsizeBound` (2^64 in
the kernel), `TableCap` (4096), `MaxCap` (no table grows beyond it), `MapCap`
(256), `PageBytes` (4096), `PointerBytes`, `MaxEntries` (descriptors of the UEFI
map), `MaxE820` (entries of the BIOS's), `MaxLba`, `WrapAt` (no file is read
up to it), `MaxKeys`, `Glyphs`, `Letters`.

| Run | Checks | What it shows |
|---|---|---|
| `HTMAlloc_careful` | `LiveDisjoint`, `LiveRecorded`, `FirstFitComplete`, `HeadIsTable`, `KeepsPromise` | careful clients get what `Allocator` promises; first fit refuses only when the section with the table has no room |
| `HTMAlloc_plain` | `EntriesDisjoint`, `BooksCover` | with blocks of equal size freed in any order, `dealloc` may drop the entry of another block; still no two entries overlap, and of each size, the table's own included, there are as many entries as blocks are held |
| `HTMAlloc_full` | `TypeOK`, `NewBlockInMap` | all operations, growth and frees by pointer only of a padded size included, table in any section: a block at a new address lies in one free section, whatever the table has become |
| `MemoryMap_all` | `TypeOK`, `MapIsFree`, `MapApart`, `NullNotMapped`, `UnreachableIsUnreachable`, `RipTakesNoMore`, `RipTakesEdges`, `Ends` | only free bytes in ascending separate sections, between all calls; never address 0, the allocator's null, at the end; the `unreachable!` is; what a rip removes and what it leaves; `get_mmap` ends |
| `UefiLoader` | `TypeOK`, `OneMapPool`, `WritesOwnPages`, `HandsOver` | over any number of retries there is one pool with a map at most; no byte is written outside the pages granted but those a segment has in the file beyond its size in memory; `efi_main` implements `BootHandoff`, its end included: a linked kernel is entered whole, at its entry point and with the map accepted, or not at all |
| `BiosLoader` | `TypeOK`, `KernelInPlace`, `BestModeChosen`, `RightClass`, `IdentityMapped`, `ReadsFitBios`, `HandsOver` | on ten disks, however the reads are split, each byte of the kernel's file below `MemoryTop` is the one the FAT's layout has there, if the disk and the file are as the code takes them for; the best video mode is the best; the kernel runs in the mode of its class; the page tables map each address to itself; the loader implements `BootHandoff`: a kernel that also fits below 0xA0000 is entered whole |
| `Kernel` | `TypeOK`, `InterruptsMatchBytes`, `LossBounded`, `CodeNamesPhase`, `PreferredTaken`, `KeyAnswered`, `BootEnds` | no byte of the keyboard waits without an interrupt, in any order of the IO-APIC's words, the flush and the keys; no more characters are lost than the handler printed during a string; the panic screen shows 2, 16, 17 for the memory map, the search of the configuration tables, the RSDP's checks, shows 0, "Success", for the search in memory and the logo, and never shows anything for the boot information and the first fill; `entry()` gets to a halt |
| `Draw` | `TypeOK`, `CursorInBox`, `CursorNearLine`, `OutlineDrawn`, `MapSpared` | the loop stays in its box and within half a pixel of the line; outlines have no holes but one corner; the memory map is spared unless a side has no length |
| `HTMAlloc_dealloc_forgets`, `HTMAlloc_in_place`, `MemoryMap_kernel_stays`, `BiosLoader_size` | one property each | see [below](#where-code-and-documentation-disagree) |

Why the bounds are enough:

- Allocator: three handles and three sizes let two blocks of equal size stand
  next to a third, which is what every index error needs; the table has room
  for all of them in `careful` and `plain`, and overflows in `full` (room for
  3 entries, growth to 12). The maps of `full` have the table in the lowest
  section, above a smaller one, below a second one, and nowhere (no section is
  large enough: every allocation answers null). Sizes 8, 16, 24 against sections
  of 24 to 160 bytes give exact fits, one-short fits and refusals; `full` has 6
  in place of 8, a size that padding to 8 changes.
- Memory map: up to three descriptors in every order out of six that nest,
  touch, overlap and start at 0, in both boot modes, with reserved ranges
  inside, over, across and beside them; and five separate sections for an array
  of four. The ranges are ripped one after another, so later rips meet maps
  that earlier ones cut. `BIOS` machines have a screen of size 0 because the
  real-mode loader writes `framebuffer_size: 0`; `BootsAssumption` records it.
- UEFI loader: a map of up to 7 descriptors can grow by 1 and 2 (room enough)
  and by 3 and more (the second query fails) between the two queries, any
  number of times. Kernels are one that is well formed, with cleared bytes and a
  header that is not loaded; one with a misaligned segment, which is refused; no
  ELF file; one with a segment of 6 bytes in the file and 3 in memory, on pages
  of 4; and one whose entry point is in no segment.
- BIOS loader: with 2 bytes a sector, 8 a segment and 3 sectors a read, a file of
  7 sectors from address 8 needs reads cut by the boundary, by the maximum and by
  the end of the file; one of 15 reaches past `MemoryTop` and below `WrapAt`: it
  is read to its end, and entered although its last sectors are not there. The
  ten disks have no ESP, two, FAT16 (where the sectors read are not the
  file's), two sectors a cluster, a kernel in two pieces, a name behind the end of
  the directory, files of the other class and no ELF file; of the FAT16, the
  clustered and the fragmented disk nothing is promised. 51 sectors hold
  two kernels behind either partition. Lists of up to three modes out of five contain every
  order of depth, area and usability. `LoadAddr % SectorBytes = 0` is assumed of
  the constants, and true of 0x10000 and 512. `SizeSeen` is what the word at
  0x7C60 holds, larger than any file here, as boot.asm's bytes are.
- Kernel: two keys and the keyboard's own answer are three bytes for a buffer of
  one: one in it, one on its way, one after the flush. Lines of one letter and
  two line ends contain each pair of bytes whose race differs, and names of
  two letters can hide more than one. One machine is wide, for only the 64-bit
  kernel runs `init`; the others, for the ways through `entry()`, are not.
- Draw: lines on 6 by 5 points have every slope up to 5 in 4, in all
  directions; rectangles have sides of 0 to 5, corners radii up to 2: sides
  longer than, equal to, and shorter than two corners.

Fairness, and why the code justifies it:

- `MemoryMap!Spec`: `WF_vars(Next)`. `get_mmap` runs on one processor before
  interrupts are enabled (main.rs:800 before main.rs:807), so nothing can keep
  it from its next step. `Ends` then says that its loops and the restart in
  `rip_section` terminate.
- `UefiLoader`: weak fairness of the loader's own steps; strong fairness of
  `ExitAccepted`. The latter is an assumption on the firmware: a map that
  changed before every single attempt would keep `exit_boot_services` going for
  ever, as the code has no limit. It says that an attempt that can succeed again
  and again does in the end.
- `BiosLoader`: `WF_vars(Next)`. One processor; the BIOS returns from its calls.
- `Kernel`: the main program, the handler and the controller each go on. The
  controller takes what is written to it: without that the wait at
  x86_64_stuff.rs:189 would never end, and the code has no limit there either.
  Nobody has to strike a key.
- The allocator's runs and `Draw` check safety only. Clients of the allocator may
  stop at any time, which is why deadlock is no error there; elsewhere the
  program stops at its end, at a halt or at a panic.

## What is proved

The theorems hold for all values of the constants that satisfy the assumptions
the modules name.

### The allocator

`MemSection_proofs` and `HTMAlloc_proofs`, from `UsizeBoundAssumption`,
`MapsAssumption`, `SizesAssumption` (no request of size 0: the code answers
those with null at once), `TableAssumption`, `JunkAssumption`,
`NoBlockAssumption`. There is one invariant for each kind of clients.

**Careful clients** (`CarefulSpec`):

- `TypeCorrect`: `TypeOK`, including that the table never holds more entries
  than its buffer has room for;
- `BlocksDisjoint`: `LiveDisjoint`; `BlocksRecorded`: `LiveRecorded`;
- `HeadStays`: `HeadIsTable`;
- `FirstFitIsComplete`: `FirstFitComplete`;
- `PromiseKept`: `KeepsPromise`, the refinement of `Allocator`.

None of these is inductive alone: that a new block is disjoint from the held
ones follows only if all held blocks are in the table, if the table is sorted,
and if its entries lie in one section without overlapping. That is a `Row`; a
`Chain` is a row that starts with the table's own entry. The inductive invariant
is

    IInv == TypeOK /\ halted = FALSE /\ (Closed \/ Opened)

`Closed` is the state before `update`; in `Opened` the table is a `Chain` in the
first section and every held block has its own entry. The argument: a row is
already organized (`RowIsOrganized`), so nothing is reordered before a slot is
looked for; the slot found lies in the section and meets no entry (`SlotIsFree`,
from `ValidInFirst` and `NoNextInFirst` about `cmp_mem_sct`); pushing it and
sorting gives a row again with the same entries (`PushKeepsRow`, on
`OrganizeMakesRow`); `dealloc` removes an entry of the size it was asked for,
behind which the block asked for starts (`DeallocIsSafe`), and since no other
held block has that size, no held block loses its entry (`EntriesSurvive`).
`FirstFitComplete` rests on `RoomIsFound`: room between entries lies in one of
the gaps the search looks at, or behind the last.

**Any clients** (`Spec`), tables that moved and read as anything included:

- `TypesHold`: `TypeOK`; `NewBlocksInMap`: `NewBlockInMap`.

    GInv == TypeOK /\ Mapped

`Mapped` says that the map is one `update` was given, or none. No order of the
table can be relied on, so each operator of the search is shown to answer with a
place in the map or null for any sequence of sections (`CheckedInMap`,
`NextInMap`, `SlotInMap`). `AllocType`, `DeallocType` and `GrowType` bound the
entries by the buffer.

**Plain clients** (`PlainSpec`):

- `EntriesStayDisjoint`: `EntriesDisjoint`; `BooksStayCovered`: `BooksCover`.

    PInv  == TypeOK, and the table is empty or a Row in the first section
    Books == finitely many blocks are held, and of every size there are at least
             as many entries as blocks held, the table's own counted

`dealloc` may remove the table's own entry, so the table is a row and need not
be a chain; every part of a row is one (`RemoveKeepsRow`). The counts are of
cardinalities: sorting is an injection of the entries of each size
(`OrganizeCounts`), a push adds one (`PushCounts`), and a removal takes one of
the size of the block given back (`RemoveCounts`, `PlainDealloc`).

### The memory map

`MemoryMap_proofs`, from `BootsAssumption`, `SizeAssumption`,
`FirmwareAssumption` and `UsizeBoundAssumption`, so for any number of
descriptors in any order, any reserved ranges and any size of the array:

- `TypesHold`: `TypeOK`; `OnlyFreeMemory`: `MapIsFree`; `GapsStay`:
  `MapApart`; `NullIsGone`: `NullNotMapped`; `PanicUnreachable`:
  `UnreachableIsUnreachable`;
- `RipsNoMore`: `RipTakesNoMore`; `RipsEdges`: `RipTakesEdges`.

The first half of the module is about sequences of sections: what sorting keeps
(`SortedFacts`, `SortedStrict`, `StrictIsUnique`: sections with different starts
come out in one order only), and what a removal leaves (`RemovedFromOrdered`: the
element is cut out, or the section at address 0 in its place). `CmpMeans` in
`MemSection_proofs` says what each answer of `cmp_mem_sct` means for any two
sections, empty ones too. The second half is the inductive invariant,

    IInv == /\ TypeOK /\ TodoOK(...) /\ Limit(call) < UsizeBound
            /\ Stored /\ Merging /\ Ripping /\ FirstPage
            /\ UnreachableIsUnreachable

`TodoOK` describes the calls to come: what is glued is free, rips come after the
glues, and the first page is last. `Stored`: map and copy hold free memory only,
and the map has gaps. `Merging`: the copy ascends while the loop joins its
neighbours. `Ripping`: the copy has gaps too; it is the map as long as nothing
was edited, and after an edit every section from the index on starts above the
range, which is why the `unreachable!` is. `FirstPage`: once the last call is
under way, address 0 is in a section only at index 1 and before an edit.

What a call takes out needs a second invariant, `Looping`, of `rip_section`'s
loop: a byte outside the range is still in the copy, and if the range lies at
edges, what is before the index is clear of it and what is behind is the map.

### The UEFI loader

`UefiLoader_proofs`, from `KernelsAssumption` (a kernel is any file, of any
segments), `SizesAssumption`, `NoMapAssumption`; `MaxEntries` is any number.

- `TypeCorrect`: `TypeOK`; `OnePool`: `OneMapPool`;
- `OwnPages`: `WritesOwnPages`, for any sizes of its segments: the exception
  for bytes a segment has in the file beyond its size in memory is part of the
  property, as it is of the code;
- `HandsOverSafely`: the initial states are those of `BootHandoff`, and every
  step is one of its steps or a stutter. Whole image and entry point are
  those of a `WellFormed` kernel.

    IInv == TypeOK /\ MapPools /\ Segments /\ WritesOwnPages /\ KeyOfMap

`MapPools` counts the pools with a map at each step of the loop; `Segments` says
that the headers gone through are in memory, each aligned one in pages of its
own (`PagesHold` is the arithmetic: a segment that starts on a page ends in
the pages counted from its size), and that `pentry` is the entry point once one
of them holds it; `KeyOfMap` says that a key accepted is the key of the map in
the buffer. Two well-formed segments share no byte, so placing one
leaves the others whole.

### The BIOS loader

`BiosLoader_proofs`, from `LoadAssumption` (sizes that divide one another, and
`LoadAddr`, `MemoryTop` and `WrapAt` in this order), `FilesAssumption` (no file
reaches past `WrapAt`), `KernelsAssumption` (program headers in a file's first
sector, segments above `WrapAt`), `MachinesAssumption` (each feature of a
processor came with the one before it) and `SizesAssumption`. None of them says
that a kernel fits below `MemoryTop`, that its file is in one piece, or that a
linker made it.

- `ReadsFit`: `ReadsFitBios`; `KernelLoaded`: `KernelInPlace`;
- `TypesHold`: `TypeOK`; `BestMode`: `BestModeChosen`; `ClassRight`:
  `RightClass`; `SameAddresses`: `IdentityMapped`;
- `HandsOverSafely`: the initial states are those of `BootHandoff`, and every
  step is one of its steps or a stutter.

    IInv == Located /\ Reading

`Located` says where the partition, the data area and the file came from, stage
by stage; `Reading` that after some number n of sectors the buffer holds
those of the n sectors from `file.lba` on that lie below `MemoryTop`, in order,
and n and `remaining` add up to the file. `ReadsFit` rests on `RoomToBoundary`:
with the address and the segment size multiples of the sector size, there is
room for a whole sector before every boundary, so no read is empty. That
`file.lba` and the sectors behind it are the file's is `KernelLoaded`, under
`AsBuilt` and `InOnePiece`; it holds of files of any length, as far as there is
memory.

The others rest on a second invariant, of the later stages,

    LInv == /\ pc is a stage
            /\ Counted /\ Positioned /\ Scanned /\ Classed /\ Segments

`Counted`: the boot information counts the entries of the map the BIOS gave;
`Positioned`: the loader is between the file's address and the file's end;
`Scanned`: the best mode is one of those looked at, and each usable other is
beaten by it, in depth, area or order; `Classed`: the processor's bits, the
name of the file, its class, the stage and the page tables agree; `Segments`:
each segment of a linked file gone through is in memory, which the next leaves
alone as linked segments share no byte. `HandsOverSafely` puts both invariants
together: if the file is in place, `Image` is the kernel's.

### Keyboard, console and kernel

`Kernel_proofs`, from `MachinesAssumption` and `MaxKeysAssumption`: for any
machines, lines and names of keys of any length and any number of keys.

- `TypesHold`: `TypeOK`; `BytesAreSeen`: `InterruptsMatchBytes`;
  `LossIsBounded`: `LossBounded`; `CodesAreRight`: `CodeNamesPhase`;
  `TakesPreferred`: `PreferredTaken`.

    IInv == Keys /\ Written /\ Entered

The parts change side by side, so each has an invariant of its own, shown for
the steps that part can take (`KeyStep`, `ConsoleStep`, `EntryStep`).

- `Keys` counts: an interrupt is under way if it is requested or its handler is
  about to read. From the flush on there is one for a byte that waits, and
  interrupts under way and reads in vain together are at most one more than the
  bytes that wait. A byte can only come into an empty buffer, and then brings its
  own edge; `init` empties the buffer after the entry is routed.
- `Written` is a potential: `Floor` is the place before which the main program
  never prints again, `Ahead` the cells at or behind it. Letters drawn over so
  far and cells ahead together are no more than the letters the handler printed
  in the middle of a string. Every letter of the main program that is not drawn
  over moves the floor past itself; only a letter of the handler in the middle of
  a string can stay ahead of it.
- `Entered` gives the code of each phase and the code a panic found; that after a
  panic of the check the boot information is not set, and after one of the first
  fill the format is none `pixel!` knows, so that the handler draws nothing in
  either case; and for the search of the configuration tables that no preferred
  one was passed by.

### Drawing

`Draw_proofs`, from `PointsAssumption` and `RadiiAssumption`, so for every
screen: `TypeCorrect`, `CursorStaysInBox` and `CursorStaysNear`;
`OutlineComplete`: `OutlineDrawn`; `MapIsSpared`: `MapSpared`. What makes the
first three inductive is `InLoop`, what `err` means: dx + dy plus the distance
gone along x times dy plus the distance gone along y times dx. The cursor stays
within half a pixel because each of the two comparisons of 2·err looks at the
pixel it would go to. The others follow from `Inked`: of every shape but a line,
exactly the strokes before the one in hand are drawn. What four strokes make
together is then geometry (`ColumnDrawn`, `RowDrawn`, `RoundedStrokesAt`).

### Only model-checked

All invariants and action properties the passing runs check are stated by a
theorem, and so is the safety of both loaders' refinements. Liveness is out of
the prover's reach and stays with TLC: `Ends`, `KeyAnswered`, `BootEnds`, and
that each loader reaches one of `BootHandoff`'s ends, which is the rest of
`HandsOver`. The four violation runs are counterexamples and need no proof.

## Where code and documentation disagree

Each of the first four is a run that TLC finds violated.

| Run | The text | The code |
|---|---|---|
| `HTMAlloc_dealloc_forgets` | "holds any taken memory" (htmalloc.rs:79) | the index from `v[1..]` is used on `v`: freeing one of two neighbours of equal size drops the entry of the other (htmalloc.rs:265); `get_size` and `realloc` share the mistake |
| `HTMAlloc_in_place` | "number of additional bytes available" (htmalloc.rs:282) | `realloc` passes the new size; the distance to the next entry wraps and a block grows over its neighbour (htmalloc.rs:373) |
| `MemoryMap_kernel_stays` | "Ranges to remove for good: The Kernel itself" (main.rs:492) | a range inside one section is split off in a copy that is not stored (main.rs:278) |
| `BiosLoader_size` | "segment data must be within kbuf" (protected-mode/src/kernel_loading.rs:90) | the size is written to 0xFFFC and read from 0x7C60, where boot.asm has code |
| | "Returns 0 if size == 0 or the update function hasn't been called yet" (htmalloc.rs:204) | 0 also when a section above has room: sections that start above the pointer are skipped (htmalloc.rs:191) |
| | "Fixed allocation limitation (hopefully)" (src/README.md:36) | a table that is moved is not copied (htmalloc.rs:366) |
| | "the following are valid free memory" (main.rs:409) | merged sizes mix pages and bytes once the map has two sections (main.rs:189) |
| | "given section continues pass current section: move on" (main.rs:296) | the index skips the section after one that was removed (main.rs:309) |
| | "physical address of destination buffer (must be below 1MB)" (real-mode/src/bios.rs:808) | `load_kernel_data` has no limit of its own: it goes on over the screen's memory at 0xA0000 (bios.rs:847) |
| | "CPUID supported" (real-mode/src/bios.rs:1127, printed) | only the AC flag was tested; `cpuid_supported` is never called |
| | "16-bit-wide string" (main.rs:549) | its length is taken in characters (main.rs:537) |

Other observations made while translating, for whoever maintains the code:

- An E820 call that fails part-way is taken for the end of the list
  (bios.rs:253): the kernel gets a shorter map.
- On a GPT disk without an EFI system partition the GPT header is read as a FAT
  header (bios.rs:1086).
- The FAT arithmetic takes one sector a cluster, a root directory in its first
  data sector and files in one piece for granted (bios.rs:1098).
- A kernel larger than 576 KiB is read on over the screen's memory and entered
  damaged (bios.rs:847).
- The UEFI loader copies `filesz` bytes into pages counted from `memsz`
  (bootloader-uefi/src/main.rs:164, 195), and jumps to 0 if the entry point is in
  no segment (main.rs:157, 253). A linker makes neither.
- `dealloc_ptr_only` pads the size it finds once more, to 8 (htmalloc.rs:309).
- The page tables at 1 MiB (protected-mode/src/long.rs:3) are in use while the
  kernel counts that memory as free.
- A panic in the search of the RSDP in memory or in the logo shows code 0,
  "Success" (main.rs:801); a panic
  about the boot information, or for a pixel format `pixel!` does not know,
  never gets to the screen.
- `draw_line` of two equal points writes to the memory map (draw.rs:131).

## What is not modelled

- Builder (src/builder): a sequential tool whose every hazard lies in what the
  operating system answers; it writes nothing yet.
- Contents of memory blocks (zeroing and copying by `alloc_zeroed` and
  `realloc`, the write through null when an allocation fails); alignment of a
  `Layout`.
- Font table, colours, UTF-16 and formatting: data. The console has no edge in
  the model, as it has none in the code.
- The ellipse and the inside of an arc: floating point.
- The registers of the mode switches, descriptor tables, and the other
  exception handlers, which print or stop.
- Code that nothing calls: everything behind the endless loop in `entry`,
  `FirmwareTable::parse`, `init_madt`, `cpuid_supported`, `dump_vbe_modes`.

Hazards without a property, each with its reason in `PROJECT.json`: alignment
(htmalloc.rs:319), sizes of merged descriptors (main.rs:189), the section passed
over after a removal (main.rs:309), the vendor's name (main.rs:537), the edge of
the screen (kiss/mod.rs:132), a kernel larger than low memory (bios.rs:847), the
wait of the A20 line (bios.rs:79), CPUID on a 486 (bios.rs:1127), page tables
counted as free (long.rs:3), and the builder. In most of them the code does go
wrong, so that no property of it holds; the models do what the code does.

## The plan

Done in the order above: sections and allocator, memory map, the two loaders
with their common abstract specification, keyboard, console and kernel, drawing;
then the proofs, in the same order. What is left:

1. Variants: the prover has no liveness, but it has arithmetic. That every step
   of `get_mmap` and of each loader lowers a measure, and that every step of
   `draw_line` brings the cursor nearer to its end, is a statement about steps.
2. The contract between `get_mmap` and `update`: what of `MapsAssumption` holds of
   every map `MemoryMap` returns, the empty section at its start included.
3. `BootMemory`: `get_mmap` composed with `update`, to check the same on the maps
   of a small machine.
