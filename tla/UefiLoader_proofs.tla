-------------------------- MODULE UefiLoader_proofs --------------------------
(***************************************************************************)
(* For every file, page size and firmware: one pool with a memory map, no  *)
(* byte outside the granted pages but those the file has too many, and the *)
(* safety part of BootHandoff.                                             *)
(*                                                                         *)
(* The invariant says at each call of efi_main what is behind it: whose    *)
(* pool is held, which segments are in place, which map the key belongs to.*)
(***************************************************************************)
EXTENDS UefiLoader, TLAPS

\* Between two attempts no pool with a map is held, during one exactly one,
\* and at most one is lost.
Before == Straight \cup {"segment", "poolBoot", "query", "poolMap"}
MapPools ==
  /\ pc \in Before => mapPools = 0
  /\ pc \in {"fetch", "exit", "retry", "fill", "entered"} => mapPools = 1
  /\ mapPools \in {0, 1}

\* The segments gone through are in memory as they are in the file, if they
\* share no byte; and kernel_pentry is the entry point if one of them has it.
InMemory(k) ==
  kernel.ph[k].load =>
    \A a \in Span(kernel.ph[k]) : a \in DOMAIN mem /\ mem[a] = SegmentByte(kernel.ph[k], a)
Behind == {"poolBoot", "query", "poolMap", "fetch", "exit", "retry", "fill", "entered"}
Segments ==
  /\ pc \in Behind => i = Len(kernel.ph)
  /\ Linked(kernel) => \A k \in 1..i : InMemory(k)
  /\ \A k \in 1..i : kernel.ph[k].load /\ Holds(kernel.ph[k], kernel.entry) =>
       pentry = kernel.entry

\* An accepted key is that of the map as it is.
KeyOfMap ==
  /\ pc = "exit" /\ fresh => room = entries
  /\ pc = "fill" => room = entries

IInv == TypeOK /\ MapPools /\ Segments /\ WritesOwnPages /\ KeyOfMap

-----------------------------------------------------------------------------
LEMMA HeaderType ==
  ASSUME TypeOK, NEW k \in 1..Len(kernel.ph)
  PROVE  kernel.ph[k] \in ProgramHeader
<1>1. kernel \in File
  BY KernelsAssumption DEF TypeOK
<1>2. kernel.ph \in Seq(ProgramHeader)
  BY <1>1 DEF File
<1> QED
  BY <1>2

\* Rounding up counts enough pages for a segment that starts on one.
LEMMA PagesHold ==
  ASSUME NEW b \in Nat \ {0}, NEW v \in Nat, NEW s \in Nat, v % b = 0,
         NEW a \in v .. v + s - 1
  PROVE  a \div b \in (v \div b) .. (v \div b) + ((s + b - 1) \div b) - 1
<1> DEFINE q == v \div b
           c == (s + b - 1) \div b
           d == a \div b
<1>1. q \in Nat /\ v = b * q
  OBVIOUS
<1>2. c \in Nat /\ s + b - 1 < b * (c + 1)
  OBVIOUS
<1>3. d \in Nat /\ b * d <= a /\ a < b * (d + 1)
  OBVIOUS
<1> HIDE DEF q, c, d
<1>4. b * c >= s
  BY <1>2
<1>5. d >= q
  <2> SUFFICES ASSUME d + 1 <= q PROVE FALSE
    BY <1>1, <1>3
  <2>1. b * (d + 1) <= b * q
    BY <1>1, <1>3
  <2> QED
    BY <2>1, <1>1, <1>3
<1>6. d < q + c
  <2> SUFFICES ASSUME q + c <= d PROVE FALSE
    BY <1>1, <1>2, <1>3
  <2>1. b * (q + c) <= b * d /\ b * (q + c) = b * q + b * c
    BY <1>1, <1>2, <1>3
  <2>2. b * q \in Int /\ b * c \in Int /\ b * d \in Int /\ a \in Int /\ a < v + s
    BY <1>1, <1>2, <1>3
  <2> QED
    BY <2>1, <2>2, <1>1, <1>3, <1>4
<1> QED
  BY <1>1, <1>2, <1>3, <1>5, <1>6 DEF q, c, d

LEMMA Initially == Init => IInv
<1> SUFFICES ASSUME Init PROVE IInv
  OBVIOUS
<1>1. kernel.ph \in Seq(ProgramHeader)
  BY KernelsAssumption DEF Init, File
<1>2. TypeOK
  <2>1. i \in 0..Len(kernel.ph) /\ room \in Nat /\ mapPools \in Nat /\ pentry \in Nat
    BY <1>1 DEF Init
  <2>2. pc \in Straight /\ info = NoMap /\ fresh = FALSE /\ pools = {}
    BY DEF Init, Straight
  <2> QED
    BY <2>1, <2>2 DEF Init, TypeOK
<1>3. MapPools /\ Segments /\ KeyOfMap
  BY DEF Init, MapPools, Segments, KeyOfMap, Straight, Before, Behind
<1>4. WritesOwnPages
  BY DEF Init, WritesOwnPages, NoMemory
<1> QED
  BY <1>2, <1>3, <1>4 DEF IInv

-----------------------------------------------------------------------------
\* Most calls touch neither segments nor pages.
LEMMA SegmentsKeep ==
  ASSUME IInv, UNCHANGED <<kernel, mem, pages, i, pentry>>,
         pc' \in Behind => i = Len(kernel.ph)
  PROVE  Segments' /\ WritesOwnPages'
  BY DEF IInv, Segments, InMemory, WritesOwnPages, WrittenTooFar

\* Moves keeps the number of descriptors in its bounds.
LEMMA MovesType == ASSUME TypeOK, Moves PROVE entries' \in 1..MaxEntries /\ fresh' = FALSE
  BY SizesAssumption DEF TypeOK, Moves

LEMMA StraightKeeps ==
  ASSUME IInv, GraphicsOutput \/ LoadFile \/ FileInfo \/ ReadKernel
  PROVE  IInv'
<1>1. TypeOK'
  BY DEF IInv, TypeOK, GraphicsOutput, LoadFile, FileInfo, ReadKernel, Call, firmware,
         held, Straight, Ended
<1>2. MapPools' /\ KeyOfMap'
  BY DEF IInv, MapPools, KeyOfMap, GraphicsOutput, LoadFile, FileInfo, ReadKernel, Call,
         held, Straight, Before
<1>3. Segments' /\ WritesOwnPages'
  BY SegmentsKeep DEF GraphicsOutput, LoadFile, FileInfo, ReadKernel, Call, held, Behind
<1> QED
  BY <1>1, <1>2, <1>3 DEF IInv

LEMMA PoolKeeps ==
  ASSUME IInv, AllocateInfo \/ AllocateKernel \/ AllocateBootInfo
  PROVE  IInv'
<1>1. /\ pc \in {"poolInfo", "poolKernel", "poolBoot"}
      /\ pc' \in {"info2", "read", "query", "returned"}
      /\ pc' = "query" => pc = "poolBoot"
      /\ pools' \subseteq pools \cup {"fileInfo", "kernel", "bootInfo"}
      /\ Moves \/ UNCHANGED firmware
      /\ UNCHANGED <<kernel, mapPools, pages, mem, i, pentry, room, info>>
  BY DEF AllocateInfo, AllocateKernel, AllocateBootInfo, Pool, held
<1>2. entries' \in 1..MaxEntries /\ fresh' \in BOOLEAN
  BY <1>1, MovesType DEF IInv, TypeOK, firmware
<1>3. TypeOK'
  BY <1>1, <1>2 DEF IInv, TypeOK, Straight, Ended
<1>4. MapPools' /\ KeyOfMap'
  BY <1>1 DEF IInv, MapPools, KeyOfMap, Straight, Before
<1>5. Segments' /\ WritesOwnPages'
  BY <1>1, SegmentsKeep DEF IInv, Segments, Behind
<1> QED
  BY <1>3, <1>4, <1>5 DEF IInv

\* exit_boot_services, its retries and what follows it.
LEMMA ExitKeeps ==
  ASSUME IInv,
         \/ SegmentsDone \/ QuerySize \/ AllocateMap \/ FetchMap \/ ExitAccepted
         \/ ExitRefused \/ ExitFailed \/ Retry \/ FillBootInfo
  PROVE  IInv'
<1>1. /\ pc \in Behind \cup {"segment"} /\ pc # "entered"
      /\ pc' \in (Behind \ {"poolBoot"}) \cup {"returned"} \/ (pc' = "poolBoot" /\ i = Len(kernel.ph))
      /\ UNCHANGED <<kernel, pools, pages, mem, i, pentry>>
      /\ Moves \/ entries' = entries
      /\ fresh' \in {fresh, TRUE, FALSE}
  BY DEF SegmentsDone, QuerySize, AllocateMap, FetchMap, ExitAccepted, ExitRefused,
         ExitFailed, Retry, FillBootInfo, Call, firmware, held, Behind, Moves
<1>2. entries' \in 1..MaxEntries /\ fresh' \in BOOLEAN
  BY <1>1, MovesType DEF IInv, TypeOK
<1>3. mapPools' \in {0, 1} /\ room' \in Nat /\ info' \in Nat \cup {NoMap}
  BY <1>2 DEF IInv, TypeOK, MapPools, SegmentsDone, QuerySize, AllocateMap, FetchMap, ExitAccepted,
     ExitRefused, ExitFailed, Retry, FillBootInfo, Call, held, FreeMap, MapSize, Before
<1>4. TypeOK'
  BY <1>1, <1>2, <1>3 DEF IInv, TypeOK, Behind, Straight, Ended
<1>5. MapPools'
  BY <1>3 DEF IInv, MapPools, SegmentsDone, QuerySize, AllocateMap, FetchMap, ExitAccepted,
     ExitRefused, ExitFailed, Retry, FillBootInfo, Call, held, FreeMap, Before, Straight
<1>6. KeyOfMap'
  BY <1>2 DEF IInv, TypeOK, KeyOfMap, SegmentsDone, QuerySize, AllocateMap, FetchMap, ExitAccepted,
     ExitRefused, ExitFailed, Retry, FillBootInfo, Call, firmware, MapSize, Moves
<1>7. Segments' /\ WritesOwnPages'
  <2>1. pc' \in Behind => i = Len(kernel.ph)
    BY DEF IInv, Segments, SegmentsDone, QuerySize, AllocateMap, FetchMap, ExitAccepted,
       ExitRefused, ExitFailed, Retry, FillBootInfo, Call, Behind
  <2> QED
    BY <1>1, <2>1, SegmentsKeep
<1> QED
  BY <1>4, <1>5, <1>6, <1>7 DEF IInv

LEMMA FirmwareKeeps == ASSUME IInv, FirmwareChange PROVE IInv'
<1>1. TypeOK' /\ MapPools' /\ KeyOfMap'
  BY DEF IInv, TypeOK, MapPools, KeyOfMap, FirmwareChange, held
<1>2. Segments' /\ WritesOwnPages'
  BY SegmentsKeep DEF IInv, Segments, FirmwareChange, held
<1> QED
  BY <1>1, <1>2 DEF IInv

-----------------------------------------------------------------------------
\* A segment is placed: the page count covers what it has in memory, and the
\* segments of a linked kernel placed before share no byte with it.
LEMMA PlacedSegment ==
  ASSUME IInv, pc = "segment", i < Len(kernel.ph), kernel.ph[i + 1].load,
         Granted(kernel.ph[i + 1]), pages' = pages \cup PagesAt(kernel.ph[i + 1]),
         mem' = Placed(mem, kernel.ph[i + 1]), i' = i + 1, kernel' = kernel
  PROVE  (Linked(kernel) => \A k \in 1..i' : InMemory(k)') /\ WritesOwnPages'
<1> DEFINE p == kernel.ph[i + 1]
<1>1. i \in Nat /\ i + 1 \in 1..Len(kernel.ph)
  <2>1. kernel.ph \in Seq(ProgramHeader)
    BY KernelsAssumption DEF IInv, TypeOK, File
  <2> QED
    BY <2>1 DEF IInv, TypeOK
<1>2. p \in ProgramHeader
  BY <1>1, HeaderType DEF IInv
<1>3. DOMAIN kernel.ph = 1..Len(kernel.ph)
  BY KernelsAssumption DEF IInv, TypeOK, File
<1>4. DOMAIN mem' = DOMAIN mem \cup Span(p)
  BY DEF Placed
<1>5. \A a \in Span(p) : mem'[a] = SegmentByte(p, a)
  BY DEF Placed
<1>6. \A a \in DOMAIN mem : a \notin Span(p) => mem'[a] = mem[a]
  BY DEF Placed
<1>7. ASSUME Linked(kernel), NEW k \in 1..i' PROVE InMemory(k)'
  <2>1. CASE k = i + 1
    BY <2>1, <1>4, <1>5 DEF InMemory
  <2>2. CASE k # i + 1
    <3>1. k \in 1..i /\ k \in DOMAIN kernel.ph /\ i + 1 \in DOMAIN kernel.ph
      BY <2>2, <1>1, <1>3
    <3>2. InMemory(k)
      BY <3>1, <1>7 DEF IInv, Segments
    <3>3. kernel.ph[k].load => Span(kernel.ph[k]) \cap Span(p) = {}
      BY <2>2, <3>1, <1>7 DEF Linked
    <3> HIDE DEF p
    <3> QED
      BY <3>2, <3>3, <1>4, <1>6 DEF InMemory
  <2> QED
    BY <2>1, <2>2
<1>8. WritesOwnPages'
  <2> SUFFICES ASSUME NEW a \in DOMAIN mem'
               PROVE  a \div PageBytes \in pages' \/ WrittenTooFar(a)'
    BY DEF WritesOwnPages
  <2>1. CASE a \in DOMAIN mem
    <3>1. WrittenTooFar(a) => WrittenTooFar(a)'
      BY <1>1 DEF WrittenTooFar
    <3> QED
      BY <2>1, <3>1 DEF IInv, WritesOwnPages
  <2>2. CASE a \in Span(p)
    <3>1. /\ p.vaddr \in Nat /\ p.memsz \in Nat /\ p.filesz \in Nat
          /\ p.vaddr % PageBytes = 0
      BY <1>2 DEF ProgramHeader, Granted
    <3>2. \/ a \in p.vaddr .. p.vaddr + p.memsz - 1
          \/ a \in p.vaddr + p.memsz .. p.vaddr + p.filesz - 1
      BY <2>2, <3>1 DEF Span, Longer
    <3>3. CASE a \in p.vaddr .. p.vaddr + p.memsz - 1
      <4>1. a \div PageBytes \in PagesAt(p)
        BY <3>1, <3>3, PagesHold, SizesAssumption DEF PagesAt, PageCount
      <4> QED
        BY <4>1
    <3>4. CASE a \in p.vaddr + p.memsz .. p.vaddr + p.filesz - 1
      <4>1. i + 1 \in 1..i'
        BY <1>1
      <4> QED
        BY <3>4, <4>1 DEF WrittenTooFar
    <3> QED
      BY <3>2, <3>3, <3>4
  <2> QED
    BY <2>1, <2>2, <1>4
<1> QED
  BY <1>7, <1>8

LEMMA SegmentKeeps == ASSUME IInv, LoadSegment PROVE IInv'
<1> DEFINE p == kernel.ph[i + 1]
<1>1. /\ pc = "segment" /\ i < Len(kernel.ph) /\ i' \in {i, i + 1}
      /\ pc' \in {"segment", "returned"} /\ (pc' = "segment" <=> i' = i + 1)
      /\ UNCHANGED <<kernel, pools, mapPools, room, info>>
      /\ Moves \/ UNCHANGED firmware
  <2>1. i \in Nat
    BY DEF IInv, TypeOK
  <2> QED
    BY <2>1 DEF LoadSegment, held
<1>2. entries' \in 1..MaxEntries /\ fresh' \in BOOLEAN
  BY <1>1, MovesType DEF IInv, TypeOK, firmware
<1>3. i' \in 0..Len(kernel.ph)
  <2>1. Len(kernel.ph) \in Nat
    BY KernelsAssumption DEF IInv, TypeOK, File
  <2> QED
    BY <2>1, <1>1 DEF IInv, TypeOK
<1>4. TypeOK'
  <2>1. pentry' \in Nat
    <3>1. kernel.entry \in Nat
      BY KernelsAssumption DEF IInv, TypeOK, File
    <3> QED
      BY <3>1 DEF IInv, TypeOK, LoadSegment, held
  <2> QED
    BY <2>1, <1>1, <1>2, <1>3 DEF IInv, TypeOK, Ended
<1>5. MapPools' /\ KeyOfMap'
  BY <1>1 DEF IInv, MapPools, KeyOfMap, Before, Straight
<1>6. pc' \notin Behind
  BY <1>1 DEF Behind
<1>7. (Linked(kernel) => \A k \in 1..i' : InMemory(k)') /\ WritesOwnPages'
  <2>1. CASE ~p.load /\ i' = i + 1 /\ UNCHANGED held
    <3>1. i \in Nat
      BY DEF IInv, TypeOK
    <3>2. WritesOwnPages'
      BY <2>1, <3>1, <1>1 DEF IInv, WritesOwnPages, WrittenTooFar, held
    <3>3. \A k \in 1..i' : k \in 1..i \/ k = i + 1
      BY <2>1, <3>1
    <3> QED
      BY <2>1, <3>2, <3>3, <1>1 DEF IInv, Segments, InMemory, held
  <2>2. CASE i' = i /\ UNCHANGED held
    BY <2>2, <1>1 DEF IInv, Segments, InMemory, WritesOwnPages, WrittenTooFar, held
  <2>3. CASE p.load /\ Granted(p) /\ i' = i + 1 /\ pages' = pages \cup PagesAt(p)
             /\ mem' = Placed(mem, p)
    BY <2>3, <1>1, PlacedSegment
  <2> QED
    BY <2>1, <2>2, <2>3 DEF LoadSegment
<1>8. ASSUME NEW k \in 1..i', kernel.ph[k].load, Holds(kernel.ph[k], kernel.entry)
      PROVE  pentry' = kernel.entry
  <2>1. CASE k \in 1..i
    <3>1. pentry = kernel.entry
      BY <2>1, <1>8 DEF IInv, Segments
    <3> QED
      BY <3>1 DEF LoadSegment, held
  <2>2. CASE k \notin 1..i
    <3>1. k = i + 1 /\ i' = i + 1 /\ i' # i
      BY <2>2, <1>1 DEF IInv, TypeOK
    <3> QED
      BY <3>1, <1>8 DEF LoadSegment
  <2> QED
    BY <2>1, <2>2
<1>9. Segments'
  BY <1>1, <1>6, <1>7, <1>8 DEF Segments
<1> QED
  BY <1>4, <1>5, <1>7, <1>9 DEF IInv

LEMMA StepKeeps == ASSUME IInv, [Next]_vars PROVE IInv'
<1>1. CASE UNCHANGED vars
  BY <1>1 DEF vars, IInv, TypeOK, MapPools, Segments, InMemory, WritesOwnPages, WrittenTooFar,
     KeyOfMap
<1>2. CASE FirmwareChange
  BY <1>2, FirmwareKeeps
<1>3. CASE Loader
  BY <1>3, StraightKeeps, PoolKeeps, SegmentKeeps, ExitKeeps DEF Loader
<1> QED
  BY <1>1, <1>2, <1>3 DEF Next

\* What efi_main has checked, allocated and fetched when it gets to each of its
\* steps: all the results below follow from it.
THEOREM Inductive == Spec => []IInv
  BY Initially, StepKeeps, PTL DEF Spec

\* Every variable keeps its type, however often the map is fetched.
THEOREM TypeCorrect == Spec => []TypeOK
  BY Inductive, PTL DEF IInv

\* However often exit_boot_services retries (helper.rs:104-160), one pool with
\* a memory map is held at most, and one when the kernel is entered.
THEOREM OnePool == Spec => []OneMapPool
<1>1. IInv => OneMapPool
  BY DEF IInv, MapPools, OneMapPool
<1> QED
  BY <1>1, Inductive, PTL

\* Whatever the file, efi_main writes no byte outside the pages it was granted
\* but those its segments have in the file beyond their size in memory, which
\* it copies without pages for them (main.rs:158-204).
THEOREM OwnPages == Spec => []WritesOwnPages
  BY Inductive, PTL DEF IInv

-----------------------------------------------------------------------------
\* A step of the loader is one of BootHandoff, or changes nothing of it.
Owed == WellFormed(kernel) => Whole(mem, kernel) /\ pentry = kernel.entry
LEMMA WholeWhenLoaded == ASSUME IInv, pc = "fill" PROVE Owed
<1> SUFFICES ASSUME WellFormed(kernel) PROVE Whole(mem, kernel) /\ pentry = kernel.entry
  BY DEF Owed
<1>1. kernel \in File /\ DOMAIN kernel.ph = 1..Len(kernel.ph)
  BY KernelsAssumption DEF IInv, TypeOK, File
<1>2. Linked(kernel) /\ i = Len(kernel.ph)
  BY DEF IInv, Segments, Behind, WellFormed
<1>3. \A k \in 1..i : InMemory(k)
  BY <1>2 DEF IInv, Segments
<1>4. PICK k \in DOMAIN kernel.ph : kernel.ph[k].load /\ kernel.entry \in Span(kernel.ph[k])
  BY <1>2 DEF Linked
<1>5. kernel.ph[k].filesz <= kernel.ph[k].memsz
  BY <1>4 DEF WellFormed
<1>6. Holds(kernel.ph[k], kernel.entry)
  <2>1. kernel.ph[k] \in ProgramHeader
    BY <1>1, <1>4, HeaderType DEF IInv
  <2> QED
    BY <2>1, <1>4, <1>5 DEF Holds, Span, Longer, ProgramHeader
<1>7. pentry = kernel.entry
  BY <1>1, <1>2, <1>4, <1>6 DEF IInv, Segments
<1>8. Whole(mem, kernel)
  BY <1>1, <1>2, <1>3, <1>4 DEF Whole, InMemory
<1> QED
  BY <1>7, <1>8

LEMMA Leaves ==
  ASSUME Next
  PROVE  /\ pc \notin Ended
         /\ pc' \notin Ended \/ pc' \in {"returned", "reset"} \/ FillBootInfo
  BY DEF Next, Loader, GraphicsOutput, LoadFile, FileInfo, AllocateInfo, AllocateKernel,
     AllocateBootInfo, Pool, ReadKernel, LoadSegment, SegmentsDone, QuerySize, AllocateMap,
     FetchMap, ExitAccepted, ExitRefused, ExitFailed, Retry, FillBootInfo, FirmwareChange,
     Call, Ended

LEMMA StepHandsOver == ASSUME IInv, [Next]_vars PROVE [Handoff!Next]_(Handoff!vars)
<1> USE DEF Owed
<1>1. CASE UNCHANGED vars
  BY <1>1 DEF vars, Handoff!vars, Ended
<1>2. CASE FillBootInfo
  <2>1. Owed /\ UNCHANGED <<mem, kernel, pentry>>
    BY <1>2, WholeWhenLoaded DEF FillBootInfo, held
  <2>2. pc = "fill" /\ pc' = "entered" /\ entries' = entries /\ info' = entries
    BY <1>2 DEF FillBootInfo, IInv, KeyOfMap, firmware
  <2>3. Handoff!Enter
    BY <2>1, <2>2 DEF Handoff!Enter, Ended
  <2> QED
    BY <2>3 DEF Handoff!Next
<1>3. CASE Next /\ ~FillBootInfo
  <2>1. pc \notin Ended /\ (pc' \notin Ended \/ pc' \in {"returned", "reset"})
    BY <1>3, Leaves
  <2>2. CASE pc' \notin Ended
    BY <2>1, <2>2 DEF Handoff!Next, Handoff!Load, Ended
  <2>3. CASE pc' \in {"returned", "reset"}
    BY <2>1, <2>3 DEF Handoff!Next, Handoff!Stop, Ended
  <2> QED
    BY <2>1, <2>2, <2>3
<1> QED
  BY <1>1, <1>2, <1>3

LEMMA InitHandsOver == Init => Handoff!Init
  BY DEF Init, Handoff!Init, Ended

\* efi_main enters the kernel once, with the map whose key was accepted and
\* that is still the machine's, and a linked kernel whole and at its entry point;
\* or it never does: BootHandoff but for its end, which is liveness.
THEOREM HandsOverSafely == Spec => Handoff!Init /\ [][Handoff!Next]_(Handoff!vars)
  BY Inductive, InitHandsOver, StepHandsOver, PTL DEF Spec
=============================================================================
