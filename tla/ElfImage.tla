------------------------------- MODULE ElfImage -------------------------------
(***************************************************************************)
(* An ELF file as the three loaders read it, and memory as they leave it.  *)
(* Memory maps the addresses written to what was written: byte k of the    *)
(* file is k + 1, a cleared byte is 0.                                     *)
(***************************************************************************)
EXTENDS Naturals, Sequences

\* A program header, and a file: its class, its length, where its table of
\* program headers ends, whether its magic and byte order are the right ones.
ProgramHeader ==
  [load : BOOLEAN, vaddr : Nat, offset : Nat, filesz : Nat, memsz : Nat]
File ==
  [valid : BOOLEAN, class : {32, 64}, size : Nat, tableEnd : Nat,
   entry : Nat, ph : Seq(ProgramHeader)]

\* Bytes a header's segment takes: its file part, cleared behind it.
Longer(p) == IF p.memsz > p.filesz THEN p.memsz ELSE p.filesz
Span(p) == p.vaddr .. p.vaddr + Longer(p) - 1
SegmentByte(p, a) ==
  IF a - p.vaddr < p.filesz THEN p.offset + (a - p.vaddr) + 1 ELSE 0

\* copy_nonoverlapping of the file part, then zeroes.
PlacedUncleared(mem, p) ==  \* mutant: the bss is not cleared
  [a \in DOMAIN mem \cup p.vaddr .. p.vaddr + p.filesz - 1 |->
     IF a \in p.vaddr .. p.vaddr + p.filesz - 1 THEN SegmentByte(p, a) ELSE mem[a]]
Placed(mem, p) ==
  [a \in DOMAIN mem \cup Span(p) |->
     IF a \in Span(p) THEN SegmentByte(p, a) ELSE mem[a]]

NoMemory == [a \in {} |-> 0]

\* The reference: an image holds every loadable segment, and the entry point
\* lies in one.
Whole(mem, file) ==
  /\ \A k \in DOMAIN file.ph : file.ph[k].load =>
       \A a \in Span(file.ph[k]) :
         a \in DOMAIN mem /\ mem[a] = SegmentByte(file.ph[k], a)
  /\ \E k \in DOMAIN file.ph : file.ph[k].load /\ file.entry \in Span(file.ph[k])

\* What the kernel's linker script makes of any kernel: segments that do not
\* share bytes, the entry point in one of them.
Linked(file) ==
  /\ \A k \in DOMAIN file.ph : file.ph[k].load =>
       \A m \in DOMAIN file.ph : m # k /\ file.ph[m].load =>
         Span(file.ph[k]) \cap Span(file.ph[m]) = {}
  /\ \E k \in DOMAIN file.ph : file.ph[k].load /\ file.entry \in Span(file.ph[k])

\* And the whole file of such a kernel: its segments lie in the file, with no more
\* bytes there than in memory.  The loaders check none of this.
WellFormed(file) ==
  /\ file.valid /\ Linked(file)
  /\ file.tableEnd <= file.size
  /\ \A k \in DOMAIN file.ph : file.ph[k].load =>
       /\ file.ph[k].offset + file.ph[k].filesz <= file.size
       /\ file.ph[k].filesz <= file.ph[k].memsz
=============================================================================
