------------------------------ MODULE MCHTMAlloc ------------------------------
(***************************************************************************)
(* Small instances of the allocator: sizes in bytes, tables of a few       *)
(* entries of 16 bytes, maps of one or two sections.                       *)
(***************************************************************************)
EXTENDS HTMAlloc, TLC

SymHandles == Permutations(Handles)

MC_UsizeBound == 4096
MC_Sizes == {8, 16, 24}
\* A size that is no multiple of 8 among them.
MC_AnySizes == {6, 16, 24}
\* A block as large as the table, 5 entries of 16 bytes, among them.
MC_PlainSizes == {8, 16, 24, 80}
MC_NoJunk == {Sct(0, 0)}
MC_Junk == {Sct(0, 0), Sct(72, 8)}

\* One section, the table at its start.
MC_OneSection == {<<Sct(64, 160)>>, <<Sct(64, 136), Sct(256, 24)>>}
MC_AllMaps == {<<Sct(64, 112)>>, <<Sct(16, 32), Sct(64, 88)>>,
               <<Sct(64, 72), Sct(256, 64)>>, <<Sct(16, 24)>>}
=============================================================================
