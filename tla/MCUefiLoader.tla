---------------------------- MODULE MCUefiLoader ----------------------------
(***************************************************************************)
(* Kernels of a few bytes on pages of 4: one the loader can place, one     *)
(* whose second segment is misaligned, one that is no ELF file, one with   *)
(* more bytes in the file than it has pages for, one whose entry point is  *)
(* in no segment.                                                          *)
(***************************************************************************)
EXTENDS UefiLoader

Ph(load, vaddr, offset, filesz, memsz) ==
  [load |-> load, vaddr |-> vaddr, offset |-> offset, filesz |-> filesz, memsz |-> memsz]
KernelOf(valid, ph) ==
  [valid |-> valid, class |-> 64, size |-> 8, tableEnd |-> 2, entry |-> 9, ph |-> ph]
MC_Kernels ==
  {KernelOf(TRUE, <<Ph(TRUE, 8, 2, 4, 5), Ph(FALSE, 0, 0, 1, 1), Ph(TRUE, 16, 6, 2, 7)>>),
   KernelOf(TRUE, <<Ph(TRUE, 8, 2, 4, 4), Ph(TRUE, 18, 6, 1, 2)>>),
   KernelOf(FALSE, <<>>),
   KernelOf(TRUE, <<Ph(TRUE, 8, 2, 6, 3), Ph(TRUE, 16, 6, 2, 7)>>),
   KernelOf(TRUE, <<Ph(TRUE, 16, 6, 2, 7)>>)}
=============================================================================
