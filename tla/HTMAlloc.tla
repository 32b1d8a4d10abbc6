------------------------------- MODULE HTMAlloc -------------------------------
(***************************************************************************)
(* The kernel's global allocator, kernel/src/htmalloc.rs: a table, held in *)
(* the memory it manages, with one section per block handed out.  The      *)
(* first entry of the table describes the table's own memory.              *)
(*                                                                         *)
(* Sections of size 0 are never asked for.  Stores of the clients through  *)
(* the pointers they own are not modelled, so nothing is explored once a   *)
(* block lies over the table itself (Sane).                                *)
(***************************************************************************)
EXTENDS MemSection, FiniteSetsExt, SequencesExt

CONSTANTS
  Maps,        \* the memory maps get_mmap may hand to update
  Sizes,       \* sizes asked for, as pad_to_align rounds them
  Handles,     \* identities of the blocks the clients hold at one time
  NoBlock,     \* a handle that holds no block
  EntryBytes,  \* size_of::<(usize, usize)>()
  TableCap,    \* entries the first table has room for (4096 in the kernel)
  MaxCap,      \* bound of the model: no table has more entries than this
  Junk         \* sections that memory holding no table may read as

TableBytes == EntryBytes * TableCap

\* get_mmap hands over sections in ascending order with gaps between them and
\* none at address 0, and memory ends far below 2^64.
ASSUME MapsAssumption ==
  /\ Maps \subseteq Seq(Section)
  /\ \A m \in Maps : \A i \in DOMAIN m :
       /\ m[i].start > 0 /\ m[i].size > 0
       /\ \A size \in Sizes : Limit(m[i]) + size < UsizeBound
       /\ \A j \in DOMAIN m : i < j => Limit(m[i]) < m[j].start
ASSUME SizesAssumption == Sizes \subseteq Nat \ {0}
ASSUME TableAssumption ==
  /\ EntryBytes \in Nat \ {0}
  /\ TableCap \in Nat \ {0}
  /\ MaxCap \in Nat
  /\ TableBytes \in Nat \ {0}
ASSUME JunkAssumption == Junk \subseteq Section
ASSUME NoBlockAssumption == NoBlock \notin Section

VARIABLES
  mmap,     \* HTMAlloc.mmap: the sections of free memory, in order
  taken,    \* HTMAlloc.taken: the Vec, its buffer (ptr, cap) and contents v
  live,     \* the block each handle holds, or NoBlock
  halted    \* the panic handler runs

vars == <<mmap, taken, live, halted>>

Table == [ptr : Nat, cap : Nat, v : Seq(Section)]
TypeOK ==
  /\ mmap \in Seq(Section)
  /\ taken \in Table /\ Len(taken.v) <= taken.cap
  /\ live \in [Handles -> Section \cup {NoBlock}]
  /\ halted \in BOOLEAN

Held == {h \in Handles : live[h] # NoBlock}
TableBuffer(t) == Sct(t.ptr, t.cap * EntryBytes)

-----------------------------------------------------------------------------
(***************************************************************************)
(* Questions about the memory map.  Each loop of the code returns at the   *)
(* first section that decides, which is the smallest index that does.      *)
(***************************************************************************)
ValidMemoryCheckStart(ptr, size) ==  \* mutant: a section that starts it will do
  \E i \in DOMAIN mmap : CmpMemSct(mmap[i], Sct(ptr, size)) \in {"NoChange", "StartBranch"}
ValidMemoryCheck(ptr, size) ==
  LET answer(i) == CmpMemSct(mmap[i], Sct(ptr, size))
      deciding  == {i \in DOMAIN mmap : answer(i) # "Separate"}
  IN  deciding # {} /\ answer(Min(deciding)) = "NoChange"

NextValidMemoryPtr(from, size) ==
  LET answer(i) == CmpMemSct(mmap[i], Sct(from, size))
      deciding  == {i \in DOMAIN mmap :
                      /\ from >= mmap[i].start /\ size <= mmap[i].size
                      /\ answer(i) \in {"NoChange", "Separate"}}
  IN  IF size = 0 \/ deciding = {} THEN 0
      ELSE IF answer(Min(deciding)) = "NoChange" THEN from
      ELSE mmap[Min(deciding)].start

ReduceSizeFit(start, size) ==
  LET answer(i) == CmpMemSct(mmap[i], Sct(start, size))
      deciding  == {i \in DOMAIN mmap : answer(i) # "Separate"}
      m         == mmap[Min(deciding)]
  IN  IF deciding = {} THEN Sct(0, 0)
      ELSE CASE answer(Min(deciding)) = "StartBranch" -> Sct(start, Sub(End(m), start))
             [] answer(Min(deciding)) = "EndBranch"   ->
                  Sct(m.start, Sub(Add(start, size), m.start))
             [] answer(Min(deciding)) = "Overwrite"   -> m
             [] answer(Min(deciding)) = "NoChange"    -> Sct(start, size)

(***************************************************************************)
(* taken_organize: the entries after the first are sorted by start unless  *)
(* their starts already increase strictly.  The sort is unstable, so ties  *)
(* may come out in any order.                                              *)
(***************************************************************************)
Increasing(v) == \A i, j \in 2..Len(v) : i < j => v[i].start < v[j].start
Rearranged(v, p) == [i \in 1..Len(v) |-> IF i = 1 THEN v[1] ELSE v[p[i]]]
SortsTail(v, p) == \A i, j \in 2..Len(v) : i < j => v[p[i]].start <= v[p[j]].start

OrganizedNever(v) == {v}  \* mutant: the table stays in the order of the pushes
Organized(v) ==
  IF Increasing(v) THEN {v}
  ELSE {Rearranged(v, p) :
          p \in {q \in Bijection(2..Len(v), 2..Len(v)) : SortsTail(v, q)}}

(***************************************************************************)
(* next_available_slot over an organized table v: the first gap after an   *)
(* entry, else behind the last entry, else wherever next_valid_memory_ptr  *)
(* says.  0 is "none".                                                     *)
(***************************************************************************)
SlotInAnyGap(v, size) ==  \* mutant: a gap may be shorter than the block
  LET gaps == {i \in 1..Len(v) - 1 : /\ End(v[i]) < v[i + 1].start
                                     /\ ValidMemoryCheck(End(v[i]), size)}
      last == End(v[Len(v)])
  IN  IF v = <<>> THEN 0
      ELSE IF gaps # {} THEN End(v[Min(gaps)])
      ELSE IF ValidMemoryCheck(last, size) THEN last ELSE 0
SlotBehindLast(v, size) ==  \* mutant: gaps are not looked at
  IF v = <<>> THEN 0
  ELSE IF ValidMemoryCheck(End(v[Len(v)]), size) THEN End(v[Len(v)]) ELSE 0
NextAvailableSlot(v, size) ==
  LET gaps == {i \in 1..Len(v) - 1 : /\ Add(End(v[i]), size) <= v[i + 1].start
                                     /\ ValidMemoryCheck(End(v[i]), size)}
      last == End(v[Len(v)])
  IN  CASE v = <<>>                                  -> 0
        [] v # <<>> /\ gaps # {}                     -> End(v[Min(gaps)])
        [] v # <<>> /\ gaps = {} /\ ValidMemoryCheck(last, size)  -> last
        [] v # <<>> /\ gaps = {} /\ ~ValidMemoryCheck(last, size) ->
             NextValidMemoryPtr(last, size)

(***************************************************************************)
(* taken_match_start and taken_match over an organized table v: the        *)
(* possible indices, 0 for None.  The binary search runs over v[1..] and   *)
(* its index is then used on v, which is the entry BEFORE the one found;   *)
(* with equal starts it may find any of them.                              *)
(***************************************************************************)
TakenMatchStart(v, start) ==
  LET found == {e \in 2..Len(v) : v[e].start = start}
  IN  IF found = {} THEN {0} ELSE {e - 1 : e \in found}

TakenMatchAnySize(v, start, size) == TakenMatchStart(v, start)  \* mutant
TakenMatch(v, start, size) ==
  {IF i # 0 /\ v[i].size = size THEN i ELSE 0 : i \in TakenMatchStart(v, start)}

\* taken_more_size_available: bytes it says may be added behind (start, size).
TakenMoreSizeAvailable(v, start, size) ==
  LET pstart == Add(start, size)
      fit(psz) == LET good == ReduceSizeFit(pstart, psz)
                  IN  IF psz > 0 /\ good.start = pstart THEN good.size ELSE 0
  IN  {IF i = 0 THEN 0 ELSE fit(Sub(v[i + 1].start, pstart)) :
         i \in TakenMatch(v, start, size)}

-----------------------------------------------------------------------------
(***************************************************************************)
(* Vec::push on a full table doubles it with HTMAlloc::realloc on the      *)
(* table's own buffer (the "fakeout").  A moved table is not copied: it    *)
(* reads as whatever the memory at the new address held.  No memory means  *)
(* a null buffer, and handle_alloc_error panics.                           *)
(***************************************************************************)
Grow(t) ==
  LET old  == t.cap * EntryBytes
      size == 2 * old
      good == NextValidMemoryPtr(End(t.v[Len(t.v)]), size)
      grown(ptr, v) == [ptr |-> ptr, cap |-> 2 * t.cap, v |-> v]
      headed(ptr)   == [t.v EXCEPT ![1] = Sct(ptr, size)]
      more == TakenMoreSizeAvailable(t.v, t.ptr, size)
  IN  {grown(t.ptr, headed(t.ptr)) : add \in {a \in more : Add(old, a) >= size}}
      \cup (IF \A add \in more : Add(old, add) >= size THEN {}
            ELSE CASE good = 0     -> {grown(0, <<>>)}
                   [] good = t.ptr -> {grown(t.ptr, headed(t.ptr))}
                   [] good \notin {0, t.ptr} ->
                        {grown(good, junk) : junk \in [1..Len(t.v) -> Junk]})

\* The tables push((start, size)) may leave; a null buffer is a panic.
PushedPastEnd(t, entry) ==  \* mutant: one more entry than there is room for
  {[u EXCEPT !.v = IF u.ptr = 0 THEN u.v ELSE Append(u.v, entry)] :
     u \in IF Len(t.v) <= t.cap THEN {t} ELSE Grow(t)}
Pushed(t, entry) ==
  {[u EXCEPT !.v = IF u.ptr = 0 THEN u.v ELSE Append(u.v, entry)] :
     u \in IF Len(t.v) < t.cap THEN {t} ELSE Grow(t)}

(***************************************************************************)
(* alloc: what it returns (0 is null) with the table it leaves.            *)
(* alloc_zeroed has the same bookkeeping.                                  *)
(***************************************************************************)
AllocOrganized(t, size) ==
  LET slot == NextAvailableSlot(t.v, size)
  IN  IF slot = 0 THEN {[ptr |-> 0, table |-> t]}
      ELSE UNION {{[ptr |-> slot, table |-> [u EXCEPT !.v = v]] : v \in Organized(u.v)} :
                  u \in Pushed(t, Sct(slot, size))}
AllocResults(t, size) ==
  UNION {AllocOrganized([t EXCEPT !.v = v], size) : v \in Organized(t.v)}

\* dealloc: v.remove(i) of the index taken_match gives, or nothing.
DeallocResults(t, start, size) ==
  UNION {{[t EXCEPT !.v = IF i = 0 THEN v ELSE RemoveAt(v, i)] :
            i \in TakenMatch(v, start, size)} : v \in Organized(t.v)}

-----------------------------------------------------------------------------
Init ==
  /\ mmap = <<>>
  /\ taken = [ptr |-> 0, cap |-> 0, v |-> <<>>]
  /\ live = [h \in Handles |-> NoBlock]
  /\ halted = FALSE

Overlies(a, b) == ~Disjoint(a, b)
Sane == \A h \in Held : ~Overlies(live[h], TableBuffer(taken))
Running == ~halted /\ Sane

\* update: the table goes to the first section that can hold all of it.
TableHome(m) == {i \in DOMAIN m : m[i].size >= TableBytes}
UpdateInEntries(m) ==  \* mutant: the table's own entry counts entries, not bytes
  /\ Running /\ mmap = <<>>
  /\ mmap' = m
  /\ taken' = IF TableHome(m) = {} THEN taken
              ELSE LET start == m[Min(TableHome(m))].start
                   IN  [ptr |-> start, cap |-> TableCap, v |-> <<Sct(start, TableCap)>>]
  /\ UNCHANGED <<live, halted>>
Update(m) ==
  /\ Running /\ mmap = <<>>
  /\ mmap' = m
  /\ taken' = IF TableHome(m) = {} THEN taken
              ELSE LET start == m[Min(TableHome(m))].start
                   IN  [ptr |-> start, cap |-> TableCap,
                        v |-> <<Sct(start, TableBytes)>>]
  /\ UNCHANGED <<live, halted>>

\* What an operation that may have moved the table leaves behind.
LeaveTable(t) == taken' = t /\ halted' = (t.ptr = 0 /\ taken.ptr # 0)

\* alloc and alloc_zeroed; the caller gets null and holds nothing, or a block.
Alloc(h, size) ==
  /\ Running /\ live[h] = NoBlock
  /\ \E r \in AllocResults(taken, size) :
       /\ r.table.cap <= MaxCap
       /\ LeaveTable(r.table)
       /\ live' = IF r.ptr = 0 \/ halted' THEN live
                  ELSE [live EXCEPT ![h] = Sct(r.ptr, size)]
  /\ UNCHANGED mmap

Dealloc(h) ==
  /\ Running /\ h \in Held
  /\ \E t \in DeallocResults(taken, live[h].start, live[h].size) : taken' = t
  /\ live' = [live EXCEPT ![h] = NoBlock]
  /\ UNCHANGED <<mmap, halted>>

\* dealloc_ptr_only: dealloc with the size get_size finds, padded once more, to
\* an alignment of 8 whatever the block's own; unwrap of None panics.
PadTo8(size) == 8 * ((size + 7) \div 8)
DeallocPtrOnly(h) ==
  /\ Running /\ h \in Held
  /\ \E v \in Organized(taken.v) : \E i \in TakenMatchStart(v, live[h].start) :
       IF i = 0
       THEN /\ halted' = TRUE /\ taken' = [taken EXCEPT !.v = v]
            /\ UNCHANGED live
       ELSE /\ taken' \in DeallocResults([taken EXCEPT !.v = v],
                                         live[h].start, PadTo8(v[i].size))
            /\ live' = [live EXCEPT ![h] = NoBlock]
            /\ UNCHANGED halted
  /\ UNCHANGED mmap

\* v[i] = (ptr, new_size) of the index taken_match_start gives.
Resize(v, i, b) == [taken EXCEPT !.v = IF i = 0 THEN v ELSE [v EXCEPT ![i] = b]]

ReallocShrink(h, size) ==
  /\ Running /\ h \in Held /\ live[h].size >= size
  /\ LET b == Sct(live[h].start, size)
     IN  /\ \E v \in Organized(taken.v) : \E i \in TakenMatchStart(v, b.start) :
              taken' = Resize(v, i, b)
         /\ live' = [live EXCEPT ![h] = b]
  /\ UNCHANGED <<mmap, halted>>

\* The block grows where it is when the bytes said to be available suffice.
ReallocInPlace(h, size) ==
  /\ Running /\ h \in Held /\ live[h].size < size
  /\ LET b == Sct(live[h].start, size)
     IN  /\ \E v \in Organized(taken.v) :
              /\ \E add \in TakenMoreSizeAvailable(v, b.start, size) :
                   Add(live[h].size, add) >= size
              /\ \E i \in TakenMatchStart(v, b.start) : taken' = Resize(v, i, b)
         /\ live' = [live EXCEPT ![h] = b]
  /\ UNCHANGED <<mmap, halted>>

\* Otherwise alloc_zeroed, copy, dealloc of the old block, even for a null.
ReallocMove(h, size) ==
  /\ Running /\ h \in Held /\ live[h].size < size
  /\ \E v \in Organized(taken.v) :
       /\ \E add \in TakenMoreSizeAvailable(v, live[h].start, size) :
            Add(live[h].size, add) < size
       /\ \E r \in AllocResults([taken EXCEPT !.v = v], size) :
            /\ r.table.cap <= MaxCap
            /\ IF r.table.ptr = 0 THEN LeaveTable(r.table)
               ELSE \E t \in DeallocResults(r.table, live[h].start, live[h].size) :
                      LeaveTable(t)
            /\ live' = IF r.ptr = 0 \/ halted' THEN live
                       ELSE [live EXCEPT ![h] = Sct(r.ptr, size)]
  /\ UNCHANGED mmap

Next ==
  \/ \E m \in Maps : Update(m)
  \/ \E h \in Handles, size \in Sizes :
       \/ Alloc(h, size)
       \/ ReallocShrink(h, size)
       \/ ReallocInPlace(h, size)
       \/ ReallocMove(h, size)
  \/ \E h \in Handles : Dealloc(h) \/ DeallocPtrOnly(h)

Spec == Init /\ [][Next]_vars

(***************************************************************************)
(* Clients that only allocate and free, and never fill the table.          *)
(***************************************************************************)
HasRoom == taken.v = <<>> \/ Len(taken.v) < taken.cap

PlainNext ==
  \/ \E m \in Maps : TableHome(m) # {} /\ Min(TableHome(m)) = 1 /\ Update(m)
  \/ \E h \in Handles, size \in Sizes : HasRoom /\ Alloc(h, size)
  \/ \E h \in Handles : Dealloc(h)

PlainSpec == Init /\ [][PlainNext]_vars

(***************************************************************************)
(* Clients careful enough for the table: a block is freed only while no    *)
(* other block of its size is held, and reallocated only to a size no      *)
(* entry has.  This is assumed of them and translates no code.             *)
(***************************************************************************)
OnlyOfItsSize(h) ==
  /\ live[h].size # TableBytes
  /\ \A k \in Held \ {h} : live[k].size # live[h].size
NewSize(size) == \A i \in DOMAIN taken.v : taken.v[i].size # size

CarefulUpdate(m) == TableHome(m) # {} /\ Min(TableHome(m)) = 1 /\ Update(m)
CarefulAlloc(h, size) == HasRoom /\ Alloc(h, size)
CarefulDealloc(h) == h \in Held /\ OnlyOfItsSize(h) /\ Dealloc(h)
CarefulRealloc(h, size) ==
  /\ h \in Held /\ OnlyOfItsSize(h) /\ NewSize(size)
  /\ HasRoom /\ ReallocMove(h, size)

CarefulNext ==
  \/ \E m \in Maps : CarefulUpdate(m)
  \/ \E h \in Handles, size \in Sizes : CarefulAlloc(h, size)
  \/ \E h \in Handles, size \in Sizes : CarefulRealloc(h, size)
  \/ \E h \in Handles : CarefulDealloc(h)

CarefulSpec == Init /\ [][CarefulNext]_vars

-----------------------------------------------------------------------------
\* No two held blocks share a byte, and none lies over the table: what the
\* clients of a global allocator rely on (htmalloc.rs alloc, dealloc, realloc).
LiveDisjoint ==
  /\ \A h, k \in Held : h # k => Disjoint(live[h], live[k])
  /\ Sane

\* "This holds any taken memory in the mmap" (htmalloc.rs:79): every held
\* block has its own entry behind the table's.
LiveRecorded ==
  \A h \in Held : \E i \in 2..Len(taken.v) : taken.v[i] = live[h]

\* "The first element is always ... an allocated chunk for this Vec itself"
\* (htmalloc.rs:81).
HeadIsTable == taken.v # <<>> => taken.v[1] = TableBuffer(taken)

\* Whatever the table says, even one that reads as garbage, a block at a new
\* address lies wholly in one section of free memory (next_available_slot
\* checks every slot with valid_memory_check or cmp_mem_sct).
NewBlockInMap ==
  [][\A h \in Handles :
       (/\ live'[h] # NoBlock
        /\ live[h] = NoBlock \/ live'[h].start # live[h].start)
       => \E i \in DOMAIN mmap : Within(live'[h], mmap[i])]_vars

\* Entries never overlap one another, whichever of them dealloc removes.
EntriesDisjoint ==
  \A i, j \in DOMAIN taken.v : i # j => Disjoint(taken.v[i], taken.v[j])

\* dealloc may drop the entry of another block, and the table's own, but only of
\* one as large: of each size there are as many entries as blocks are held.
EntriesOf(size) == {i \in DOMAIN taken.v : taken.v[i].size = size}
BlocksOf(size) == {h \in Held : live[h].size = size}
TablesOf(size) == IF size = TableBytes THEN 1 ELSE 0
BooksCover ==
  mmap # <<>> => \A size \in Sizes \cup {TableBytes} :
    Cardinality(EntriesOf(size)) >= Cardinality(BlocksOf(size)) + TablesOf(size)

\* First fit gives up only when there is no room: a request gets null only if
\* no free stretch of the section with the table is long enough.
RoomIn(m, v, size) ==
  \E a \in m.start .. Limit(m) :
     /\ Within(Sct(a, size), m)
     /\ \A i \in DOMAIN v : Disjoint(Sct(a, size), v[i])
FirstFitComplete ==
  taken.v # <<>> =>
    \A v \in Organized(taken.v), size \in Sizes :
      RoomIn(mmap[1], v, size) => NextAvailableSlot(v, size) # 0

\* "Returns the number of additional bytes available for reallocation"
\* (htmalloc.rs:282): a block that grows in place grows into free bytes.
GrowsIntoFreeBytes ==
  [][\A h, k \in Held :
       (h # k /\ live'[h] # NoBlock /\ live'[k] = live[k]
        /\ live'[h].start = live[h].start /\ Disjoint(live[h], live[k]))
       => Disjoint(live'[h], live[k])]_vars

-----------------------------------------------------------------------------
(***************************************************************************)
(* The promise of Allocator.  Its arena is what the table leaves of the    *)
(* section it was put in.                                                  *)
(***************************************************************************)
Arena ==
  IF taken.v = <<>> THEN NoBlock
  ELSE LET first == TableBuffer(taken)
       IN  Sct(Limit(first), Limit(mmap[1]) - Limit(first))

Promise == INSTANCE Allocator WITH arena <- Arena, blocks <- live

\* Careful clients get from alloc, dealloc and realloc exactly what a global
\* allocator promises: every step is one of Allocator or changes nothing of it.
KeepsPromise == Promise!Spec
=============================================================================
