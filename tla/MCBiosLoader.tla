---------------------------- MODULE MCBiosLoader ----------------------------
(***************************************************************************)
(* Sectors of 2 bytes, segments of 8, reads of 3 sectors, memory up to 32: *)
(* files of 3, 7 and 15 sectors from address 8 on need one read, three     *)
(* with a boundary between them, and more memory than there is.            *)
(***************************************************************************)
EXTENDS BiosLoader, TLC

Ph(load, vaddr, offset, filesz, memsz) ==
  [load |-> load, vaddr |-> vaddr, offset |-> offset, filesz |-> filesz, memsz |-> memsz]
\* Its last segment is the last byte of the file.
Elf(class, bytes) ==
  [valid |-> TRUE, class |-> class, size |-> bytes, tableEnd |-> 2, entry |-> 61,
   ph |-> <<Ph(TRUE, 60, 2, 2, 3), Ph(FALSE, 0, 0, 9, 9), Ph(TRUE, 64, bytes - 1, 1, 3)>>]
NotElf == [Elf(64, 5) EXCEPT !.valid = FALSE]

Chained(name, chain, bytes) ==
  [name |-> name, cluster |-> chain[1], size |-> bytes, chain |-> chain]
Entry(name, cluster, bytes) ==
  Chained(name, [k \in 1..Sectors(bytes) + 1 |-> cluster + k - 1], bytes)
Kernels(n64, n86) == <<Entry("other", 9, 4), Entry("X64", 3, n64), Entry("X86", 20, n86)>>
Part(esp, at) == [esp |-> esp, lba |-> at]
BpbOf(spc, spf16, spf32, root) ==
  [spc |-> spc, rsvd |-> 2, nfats |-> 2, spf16 |-> spf16, spf32 |-> spf32, root |-> root]
Fat == BpbOf(1, 0, 1, 2)
Garbage == [BpbOf(0, 0, 0, 0) EXCEPT !.rsvd = 0, !.nfats = 0]

\* An ESP at sector 3 has its data from sector 7 on, one at 20 from 24 on; the
\* 64-bit kernel is in the second of them, the other in the nineteenth.
DiskOf(parts, bpb, dir, elf) ==
  [signed |-> TRUE, protective |-> TRUE, parts |-> parts,
   bpb |-> [s \in 0..MaxLba |-> IF s \in {3, 20} THEN bpb ELSE Garbage],
   dir |-> [s \in 0..MaxLba |-> IF s \in {7, 24} THEN dir ELSE <<>>],
   elf |-> [s \in 0..MaxLba |-> IF s \in DOMAIN elf THEN elf[s] ELSE NotElf]]
OneEsp == <<Part(TRUE, 3)>>
Both(n64, n86) == 8 :> Elf(64, n64) @@ 25 :> Elf(32, n86)
Normal == DiskOf(OneEsp, Fat, Kernels(5, 13), Both(5, 13))
MC_Disks ==
  {Normal,
   DiskOf(<<Part(FALSE, 2), Part(TRUE, 20), Part(TRUE, 3)>>, Fat, Kernels(13, 5),
          25 :> Elf(64, 13) @@ 42 :> Elf(32, 5)),
   \* no ESP; FAT16; nothing of that name; a name behind the end
   [Normal EXCEPT !.parts = <<Part(FALSE, 3)>>],
   DiskOf(OneEsp, BpbOf(1, 1, 9, 5), Kernels(5, 5), Both(5, 5)),
   DiskOf(OneEsp, Fat, <<Entry("X64", 3, 5), Entry("zero", 0, 0), Entry("X86", 20, 5)>>, Both(5, 5)),
   \* too large a file; no ELF file; files of the other class; not bootable
   DiskOf(OneEsp, Fat, Kernels(30, 5), 8 :> Elf(64, 30)),
   DiskOf(OneEsp, Fat, Kernels(5, 5), 8 :> Elf(32, 5) @@ 25 :> Elf(64, 5)),
   [Normal EXCEPT !.signed = FALSE],
   \* two sectors a cluster; a file in two pieces
   DiskOf(OneEsp, BpbOf(2, 0, 1, 2), Kernels(5, 5), 9 :> Elf(64, 5)),
   DiskOf(OneEsp, Fat, <<Chained("X64", <<3, 4, 5, 9, 10, 11, 12>>, 13), Entry("X86", 20, 5)>>,
          Both(13, 5))}

\* The file ends inside its last segment.
MC_Truncated ==
  {[Normal EXCEPT !.elf[8].ph = <<Ph(TRUE, 60, 2, 2, 3), Ph(TRUE, 64, 4, 3, 3)>>]}

MC_Cpus ==
  {[ac |-> FALSE, cpuid |-> FALSE, extended |-> FALSE, lm |-> FALSE],
   [ac |-> TRUE, cpuid |-> FALSE, extended |-> FALSE, lm |-> FALSE],
   [ac |-> TRUE, cpuid |-> TRUE, extended |-> FALSE, lm |-> FALSE],
   [ac |-> TRUE, cpuid |-> TRUE, extended |-> TRUE, lm |-> TRUE]}

VbeModeOf(linear, bpp, width) ==
  [ok |-> TRUE, linear |-> linear, bpp |-> bpp, width |-> width, height |-> 1]
Some == {VbeModeOf(TRUE, 32, 2), VbeModeOf(TRUE, 24, 3), VbeModeOf(FALSE, 32, 4),
         VbeModeOf(TRUE, 32, 3), VbeModeOf(TRUE, 16, 5)}
MC_OneMode == {<<VbeModeOf(TRUE, 32, 2)>>}
MC_ModeLists == UNION {[1..n -> Some] : n \in 0..3}
=============================================================================
