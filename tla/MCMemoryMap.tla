----------------------------- MODULE MCMemoryMap -----------------------------
(***************************************************************************)
(* Small machines: pages of 4 bytes, an address space of 64, memory maps   *)
(* of up to three descriptors, in any order, that may touch or overlap.    *)
(***************************************************************************)
EXTENDS MemoryMap

MC_UsizeBound == 64

Nowhere == Sct(56, 2)
Machine(mode, memory, kernel, memmap, screen, vendor) ==
  [mode |-> mode, memory |-> memory, kernel |-> kernel, stack |-> Nowhere,
   info |-> Nowhere, screen |-> screen, memmap |-> memmap, system |-> Nowhere,
   config |-> Nowhere, services |-> Nowhere, vendor |-> vendor, functions |-> <<56>>]
Free(s) == [sct |-> s, free |-> TRUE]
Held(s) == [sct |-> s, free |-> FALSE]
NoVendor == [start |-> 56, chars |-> 0]

\* Every order of up to three of these descriptors.
Ram == {Sct(0, 4), Sct(0, 8), Sct(4, 8), Sct(12, 4), Sct(12, 12), Sct(20, 8)}
Memories == UNION {[1..n -> {Free(s) : s \in Ram}] : n \in 1..3}
Reserved == {Sct(4, 4), Sct(6, 2), Sct(8, 12), Sct(2, 28), Sct(10, 6), Sct(22, 4)}
MC_Boots ==
  {Machine("bios", m, k, s, Sct(17, 0), NoVendor) :
     m \in Memories, k \in Reserved, s \in {Sct(0, 8), Sct(16, 4), Sct(5, 24)}}
  \cup {Machine("uefi", <<Free(a), Held(Sct(8, 4)), Free(b)>>, k, Sct(16, 4), Nowhere,
                [start |-> 12, chars |-> 1]) :
          a \in Ram, b \in Ram, k \in Reserved}
\* As many sections as the array has pairs, and one more.
Apart2 == <<Free(Sct(32, 2)), Free(Sct(24, 2)), Free(Sct(16, 2)), Free(Sct(0, 8)),
            Free(Sct(40, 2))>>
MC_All == MC_Boots \cup
  {Machine("bios", SubSeq(Apart2, 1, n), k, Sct(0, 4), Sct(0, 0), NoVendor) :
     n \in 4..5, k \in {Sct(2, 4), Sct(4, 4)}}

Uefi(memory, kernel, vendor) == Machine("uefi", memory, kernel, Nowhere, Nowhere, vendor)
\* The kernel inside one free section.
MC_KernelInside == {Uefi(<<Free(Sct(8, 24))>>, Sct(16, 4), NoVendor)}
=============================================================================
