------------------------------ MODULE UefiLoader ------------------------------
(***************************************************************************)
(* efi_main and its helpers (bootloader-uefi).  Every call of the firmware *)
(* may fail.  The firmware may change its memory map between any two steps *)
(* of the loader; the loader's own allocations change it too.  The number  *)
(* of its descriptors stands for the map, and fresh for the map key: the   *)
(* key the loader holds is still the firmware's.                           *)
(*                                                                         *)
(* Left out: texts, stalls, and what the loader holds of the screen.       *)
(***************************************************************************)
EXTENDS ElfImage, Integers

CONSTANTS
  Kernels,     \* files the kernel may be, good or bad
  PageBytes,   \* 0x1000
  MaxEntries,  \* bound of the model: descriptors in the firmware's map
  NoMap        \* the kernel has been told of no map

ASSUME KernelsAssumption == Kernels \subseteq File
ASSUME SizesAssumption == PageBytes \in Nat \ {0} /\ MaxEntries \in Nat \ {0}
ASSUME NoMapAssumption == NoMap \notin Nat

VARIABLES
  pc,        \* the call efi_main makes next
  kernel,    \* the file
  entries,   \* descriptors in the firmware's memory map
  fresh,     \* map_key is the firmware's key
  pools,     \* pools the loader holds, but for memory maps
  mapPools,  \* pools that hold memory maps
  pages,     \* pages the loader holds
  mem,       \* what it wrote there, and behind them
  i,         \* segments efi_main has gone through
  pentry,    \* kernel_pentry, 0 until a segment has the entry point
  room,      \* descriptors mem_map has room for
  info       \* the map the boot information describes

vars == <<pc, kernel, entries, fresh, pools, mapPools, pages, mem, i, pentry, room, info>>
firmware == <<entries, fresh>>
held == <<pools, mapPools, pages, mem, pentry>>

Straight == {"locate", "openGop", "image", "fileSystem", "volume", "file",
             "info1", "poolInfo", "info2", "poolKernel", "read"}
Ended == {"entered", "returned", "reset"}
TypeOK ==
  /\ pc \in Straight \cup Ended
            \cup {"segment", "poolBoot", "query", "poolMap", "fetch", "exit",
                  "retry", "fill"}
  /\ kernel \in Kernels
  /\ entries \in 1..MaxEntries /\ fresh \in BOOLEAN
  /\ pools \subseteq {"fileInfo", "kernel", "bootInfo"} /\ mapPools \in Nat
  /\ i \in 0..Len(kernel.ph) /\ pentry \in Nat
  /\ room \in Nat /\ info \in Nat \cup {NoMap}

-----------------------------------------------------------------------------
Call(at, ok, failed) == pc = at /\ pc' \in {ok, failed}

\* An allocation or a release moves the map: up to two more descriptors.
Moves ==
  /\ \E n \in entries .. entries + 2 :
       entries' = IF n > MaxEntries THEN MaxEntries ELSE n
  /\ fresh' = FALSE

\* allocate_pool, and what is left as it is when it fails.
Pool(at, ok, p) ==
  \/ /\ pc = at /\ pc' = ok
     /\ pools' = pools \cup {p} /\ Moves
     /\ UNCHANGED <<kernel, mapPools, pages, mem, i, pentry, room, info>>
  \/ /\ pc = at /\ pc' = "returned"
     /\ UNCHANGED <<kernel, firmware, held, i, room, info>>

Init ==
  /\ pc = "locate" /\ kernel \in Kernels
  /\ entries \in 1..MaxEntries /\ fresh = FALSE
  /\ pools = {} /\ mapPools = 0 /\ pages = {} /\ mem = NoMemory
  /\ i = 0 /\ pentry = 0 /\ room = 0 /\ info = NoMap

\* The graphics output, then load_file, then the size of the file: calls
\* that change nothing here.  load_file panics where efi_main returns.
GraphicsOutput ==
  /\ \/ Call("locate", "openGop", "returned")
     \/ Call("openGop", "image", "returned")
  /\ UNCHANGED <<kernel, firmware, held, i, room, info>>
LoadFile ==
  /\ \/ Call("image", "fileSystem", "reset")
     \/ Call("fileSystem", "volume", "reset")
     \/ Call("volume", "file", "reset")
     \/ Call("file", "info1", "reset")
  /\ UNCHANGED <<kernel, firmware, held, i, room, info>>
FileInfo ==
  /\ \/ Call("info1", "poolInfo", "returned")
     \/ Call("info2", "poolKernel", "returned")
  /\ UNCHANGED <<kernel, firmware, held, i, room, info>>
AllocateInfo == Pool("poolInfo", "info2", "fileInfo")
AllocateKernel == Pool("poolKernel", "read", "kernel")
\* minimal_parse and segments are unwrapped: what they refuse is a panic.
\* They look at the header and at where its table is, not at the segments.
Parses == kernel.valid /\ kernel.tableEnd <= kernel.size
ReadKernel ==
  /\ pc = "read"
  /\ pc' \in {"returned", IF Parses THEN "segment" ELSE "reset"}
  /\ UNCHANGED <<kernel, firmware, held, i, room, info>>

-----------------------------------------------------------------------------
\* allocate_pages at the segment's own address, for memsz bytes; then the
\* filesz bytes of the file are copied there, however many they are, and what
\* is left of memsz is cleared.  What else was in pages that nobody granted is
\* not known here: from such a copy on, the machine may do anything.
PageCountWhole(p) == p.memsz \div PageBytes  \* mutant: not rounded up
PageCount(p) == (p.memsz + PageBytes - 1) \div PageBytes
PagesAt(p) == (p.vaddr \div PageBytes) .. (p.vaddr \div PageBytes) + PageCount(p) - 1
Granted(p) ==
  /\ p.vaddr % PageBytes = 0
  /\ PagesAt(p) # {} /\ PagesAt(p) \cap pages = {}
Holds(p, a) == a \in p.vaddr .. p.vaddr + p.memsz - 1
LoadSegment ==
  /\ pc = "segment" /\ i < Len(kernel.ph)
  /\ LET p == kernel.ph[i + 1]
     IN  \/ /\ ~p.load
            /\ i' = i + 1
            /\ UNCHANGED <<pc, firmware, held>>
         \/ /\ p.load /\ Granted(p)
            /\ i' = i + 1
            /\ pages' = pages \cup PagesAt(p) /\ Moves
            /\ mem' = Placed(mem, p)
            /\ pentry' = IF Holds(p, kernel.entry) THEN kernel.entry ELSE pentry
            /\ UNCHANGED <<pc, pools, mapPools>>
         \/ /\ p.load /\ pc' = "returned"
            /\ UNCHANGED <<i, firmware, held>>
  /\ UNCHANGED <<kernel, room, info>>
SegmentsDone ==
  /\ pc = "segment" /\ i = Len(kernel.ph)
  /\ pc' = "poolBoot"
  /\ UNCHANGED <<kernel, firmware, held, i, room, info>>
AllocateBootInfo == Pool("poolBoot", "query", "bootInfo")

-----------------------------------------------------------------------------
\* helper::exit_boot_services, whose Err efi_main returns.
QuerySize ==
  /\ Call("query", "poolMap", "returned")
  /\ room' = entries + 2
  /\ UNCHANGED <<kernel, firmware, held, i, info>>
AllocateMap ==
  /\ \/ /\ Call("poolMap", "fetch", "fetch")
        /\ mapPools' = mapPools + 1 /\ Moves
     \/ /\ Call("poolMap", "returned", "returned")
        /\ UNCHANGED <<mapPools, firmware>>
  /\ UNCHANGED <<kernel, pools, pages, mem, i, pentry, room, info>>
\* mem_map_size, at first the size of the buffer, becomes that of the map.
MapSizeOfBuffer == room  \* mutant: the size asked for is handed over
MapSize == entries
FetchMap ==
  /\ \/ /\ Call("fetch", "exit", "exit")
        /\ entries <= room
        /\ fresh' = TRUE /\ room' = MapSize
     \/ /\ Call("fetch", "returned", "returned")
        /\ UNCHANGED <<fresh, room>>
  /\ UNCHANGED <<kernel, entries, held, i, info>>
ExitAccepted ==
  /\ pc = "exit" /\ fresh
  /\ pc' = "fill"
  /\ UNCHANGED <<kernel, firmware, held, i, room, info>>
\* EFI_INVALID_PARAMETER: the key is stale.
ExitRefused ==
  /\ pc = "exit" /\ ~fresh
  /\ pc' = "retry"
  /\ UNCHANGED <<kernel, firmware, held, i, room, info>>
\* Another error: free_pool, and efi_main returns.
ExitFailed ==
  /\ pc = "exit"
  /\ pc' = "returned"
  /\ mapPools' = mapPools - 1 /\ Moves
  /\ UNCHANGED <<kernel, pools, pages, mem, i, pentry, room, info>>
FreeMapNever == mapPools      \* mutant: the retry keeps the old map
FreeMapTwice == mapPools - 2  \* mutant: the failed attempt had freed it
FreeMap == mapPools - 1
Retry ==
  /\ pc = "retry"
  /\ pc' = "query"
  /\ mapPools' = FreeMap /\ Moves
  /\ UNCHANGED <<kernel, pools, pages, mem, i, pentry, room, info>>

\* The boot information is filled in, and the kernel entered at pentry.
FillBootInfo ==
  /\ pc = "fill"
  /\ info' = room
  /\ pc' = "entered"
  /\ UNCHANGED <<kernel, firmware, held, i, room>>

\* The firmware's timers and drivers, until boot services are left.
FirmwareChange ==
  /\ pc \notin Ended \cup {"fill"}
  /\ entries' \in 1..MaxEntries
  /\ fresh' = FALSE
  /\ UNCHANGED <<pc, kernel, held, i, room, info>>

Loader ==
  \/ GraphicsOutput \/ LoadFile \/ FileInfo \/ AllocateInfo \/ AllocateKernel
  \/ ReadKernel \/ LoadSegment \/ SegmentsDone \/ AllocateBootInfo
  \/ QuerySize \/ AllocateMap \/ FetchMap
  \/ ExitAccepted \/ ExitRefused \/ ExitFailed \/ Retry \/ FillBootInfo
Next == Loader \/ FirmwareChange

\* One processor runs the loader without pause.  A firmware that changed its
\* map after every single fetch could never be left.
Spec ==
  /\ Init /\ [][Next]_vars
  /\ WF_vars(Loader)
  /\ SF_vars(ExitAccepted)

-----------------------------------------------------------------------------
\* However often exit_boot_services retries, there is one pool with a memory
\* map at most, and the one handed to the kernel is still there.
OneMapPool ==
  /\ mapPools <= 1
  /\ pc \in {"exit", "fill", "entered"} => mapPools = 1

\* Whatever the positions and sizes of its segments, efi_main writes only into
\* pages it was given, but for one thing: of a segment with more bytes in the
\* file than in memory it copies them all, while only those in memory have
\* pages.  No other byte is ever written outside.
WrittenTooFar(a) ==
  \E k \in 1..i : LET p == kernel.ph[k]
                  IN  p.load /\ a \in p.vaddr + p.memsz .. p.vaddr + p.filesz - 1
WritesOwnPages == \A a \in DOMAIN mem : a \div PageBytes \in pages \/ WrittenTooFar(a)

\* efi_main does what BootHandoff asks: it stops or enters the kernel with the
\* memory map as it is once boot services are left and, if the file is a linked
\* kernel, with its whole image and at its entry point; and it does so in the
\* end.  Of other files the code takes what it finds.
Handoff == INSTANCE BootHandoff WITH
  stage <- IF pc = "entered" THEN "entered"
           ELSE IF pc \in Ended THEN "stopped" ELSE "loading",
  memory <- entries,
  whole <- WellFormed(kernel) => Whole(mem, kernel) /\ pentry = kernel.entry
HandsOver == Handoff!Spec
=============================================================================
