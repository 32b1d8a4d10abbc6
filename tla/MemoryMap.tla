------------------------------ MODULE MemoryMap ------------------------------
(***************************************************************************)
(* get_mmap (kernel/src/main.rs): what the boot loader says about memory   *)
(* becomes the sections the allocator may use.  Sections the firmware      *)
(* calls free are glued in, then what is still needed is ripped out.       *)
(*                                                                         *)
(* The array of 256 pairs and its length are the sequence of its first sz  *)
(* pairs: what a removal leaves behind the length is only ever (0, ...),   *)
(* and rip_section's first test, the one reader of it, then finds nothing  *)
(* to do.  glue_section and rip_section work on a copy (arr, sz) of the    *)
(* map and write it back on their last line.                               *)
(***************************************************************************)
EXTENDS MemSection, FiniteSetsExt, SequencesExt

CONSTANTS
  Boots,        \* what the boot loader may hand over
  MapCap,       \* length of the array (256 in the kernel)
  PageBytes,    \* 4096 in the kernel
  PointerBytes  \* size_of a function pointer

\* What get_mmap reads: the mode, the firmware's memory map, and where things lie.
Boot == [mode : {"bios", "uefi"},
         memory : Seq([sct : Section, free : BOOLEAN]),
         kernel : Section, stack : Section, info : Section, screen : Section,
         memmap : Section, system : Section, config : Section, services : Section,
         vendor : [start : Nat, chars : Nat], functions : Seq(Nat)]

\* The BIOS loader gives no size for the screen (real-mode main.rs, _start).
ASSUME BootsAssumption ==
  \A b \in Boots : b \in Boot /\ (b.mode = "bios" => b.screen.size = 0)
ASSUME SizeAssumption ==
  /\ MapCap \in Nat \ {0}
  /\ PageBytes \in Nat \ {0}
  /\ PointerBytes \in Nat \ {0}

VARIABLES
  boot,  \* the boot information
  todo,  \* calls get_mmap still has to make
  map,   \* get_mmap's mmap, in and between the calls
  pc,    \* where the program is
  call,  \* section given to the running call
  arr,   \* its copy of the map
  i,     \* rip_section's index
  edit   \* rip_section's edit; "organized" once it has called organize

vars == <<boot, todo, map, pc, call, arr, i, edit>>
locals == <<call, arr, i, edit>>

TypeOK ==
  /\ boot \in Boots
  /\ todo \in Seq([op : {"glue", "pass", "rip"}, sct : Section])
  /\ map \in Seq(Section) /\ Len(map) <= MapCap
  /\ pc \in {"ready", "merge", "rip", "done", "full", "unreachable"}
  /\ call \in Section
  /\ arr \in Seq(Section) /\ Len(arr) <= MapCap
  /\ i \in 1..Len(arr) + 2
  /\ edit \in {"none", "edited", "organized"}

-----------------------------------------------------------------------------
\* sort_unstable_by start: ties may come out in any order.
Ascending(v) == \A j, k \in DOMAIN v : j < k => v[j].start <= v[k].start
Sorted(v) ==
  {w \in {[k \in DOMAIN v |-> v[p[k]]] : p \in Bijection(DOMAIN v, DOMAIN v)} :
     Ascending(w)}

\* The idiom that removes the pair at j: make it (0, 0), sort downwards, drop
\* the last, sort upwards.  A section that starts at 0 ties with (0, 0).
Zeroed(v, j) == [v EXCEPT ![j] = Sct(0, 0)]
Removed(v, j) ==
  UNION {Sorted(RemoveAt(Zeroed(v, j), k)) :
           k \in {n \in DOMAIN v : Zeroed(v, j)[n].start = 0}}

\* The windows of two neighbours the merging loops act on, and what organize
\* returns: FALSE if there is none.
Answer(v, j) == CmpMemSct(v[j], v[j + 1])
WindowsButLast(v) == {j \in 1..Len(v) - 2 : Answer(v, j) # "Separate"}  \* mutant
Windows(v) == {j \in 1..Len(v) - 1 : Answer(v, j) # "Separate"}
Organizes(v) == Windows(v) # {}

\* One pass of glue_section's loop.  Two sections that meet get a size
\* measured from the first start in pages.
Pages(bytes) == bytes \div PageBytes
MergePassKeeping(v) ==  \* mutant: what another covers is not removed
  IF Answer(v, Min(Windows(v))) = "NoChange" THEN {v} ELSE Removed(v, Min(Windows(v)))
MergePass(v) ==
  LET j == Min(Windows(v))
      a == v[j]
      b == v[j + 1]
  IN  CASE Answer(v, j) = "NoChange"    -> Removed(v, j + 1)
        [] Answer(v, j) = "Overwrite"   -> Removed(v, j)
        [] Answer(v, j) = "StartBranch" ->
             Removed([v EXCEPT ![j] = Sct(a.start, Pages(Sub(b.start, a.start)) + b.size)],
                     j + 1)
        [] Answer(v, j) = "EndBranch"   ->
             Removed([v EXCEPT ![j] = Sct(b.start, Pages(Sub(a.start, b.start)) + a.size)],
                     j + 1)

\* glue_section into a map of one section a.
GlueToOneAdding(a, s) ==  \* mutant: sizes added up though the two overlap
  IF CmpMemSct(a, s) = "Separate" THEN Sorted(<<a, s>>)
  ELSE {<<Sct(Min({a.start, s.start}), Add(a.size, s.size))>>}
GlueToOne(a, s) ==
  CASE CmpMemSct(a, s) = "NoChange"    -> {<<a>>}
    [] CmpMemSct(a, s) = "Overwrite"   -> {<<s>>}
    [] CmpMemSct(a, s) = "Separate"    -> Sorted(<<a, s>>)
    [] CmpMemSct(a, s) = "StartBranch" ->
         {<<Sct(a.start, Add(Sub(s.start, a.start), s.size))>>}
    [] CmpMemSct(a, s) = "EndBranch"   ->
         {<<Sct(s.start, Add(Sub(a.start, s.start), a.size))>>}

\* The calls of get_mmap, in its order: one per descriptor of the firmware's
\* map, which is passed over if it is not free, and one per range to remove.
Glue(s) == [op |-> "glue", sct |-> s]
Pass(s) == [op |-> "pass", sct |-> s]
Rip(s) == [op |-> "rip", sct |-> s]
Glues(b) ==
  [k \in DOMAIN b.memory |-> IF b.memory[k].free THEN Glue(b.memory[k].sct)
                                                ELSE Pass(b.memory[k].sct)]
FirmwareRips(b) ==
  <<Rip(b.system), Rip(Sct(b.vendor.start, b.vendor.chars + 1)),
    Rip(b.config), Rip(b.services)>>
  \o [k \in DOMAIN b.functions |-> Rip(Sct(b.functions[k], PointerBytes))]
RipsLeavingFirstPage(b) ==  \* mutant: what the caller gave, and no more
  <<Rip(b.kernel), Rip(b.stack), Rip(b.info), Rip(b.screen), Rip(b.memmap)>>
  \o (IF b.mode = "uefi" THEN FirmwareRips(b) ELSE <<>>)
Rips(b) ==
  <<Rip(b.kernel), Rip(b.stack), Rip(b.info)>>
  \o (IF b.screen.start > 0 THEN <<Rip(b.screen)>> ELSE <<>>)
  \o <<Rip(b.memmap)>>
  \o (IF b.mode = "uefi" THEN FirmwareRips(b) ELSE <<>>)
  \o <<Rip(Sct(0, PageBytes))>>

\* What these sections describe is memory, of which none lies at the very end
\* of the address space: no end of theirs wraps around.
ASSUME FirmwareAssumption ==
  \A b \in Boots : \A k \in DOMAIN (Glues(b) \o Rips(b)) :
    Limit((Glues(b) \o Rips(b))[k].sct) < UsizeBound

-----------------------------------------------------------------------------
Init ==
  /\ boot \in Boots
  /\ todo = Glues(boot) \o Rips(boot)
  /\ map = <<>>
  /\ pc = "ready"
  /\ call = Sct(0, 0) /\ arr = <<>> /\ i = 1 /\ edit = "none"

Calls(op) == pc = "ready" /\ todo # <<>> /\ Head(todo).op = op
Given == Head(todo).sct

\* A descriptor of another type.
PassOver ==
  /\ Calls("pass")
  /\ todo' = Tail(todo)
  /\ UNCHANGED <<boot, map, pc, locals>>

\* arr[sz] = ... panics behind the last pair of the array.
FullPastEnd(v, s) == Len(v) = MapCap + 1 /\ ~Contains(v, s)  \* mutant
Full(v, s) == Len(v) = MapCap /\ ~Contains(v, s)

\* glue_section up to its loop, which a map of two or more sections reaches.
GlueSection ==
  /\ Calls("glue")
  /\ todo' = Tail(todo)
  /\ call' = Given
  /\ \/ Given.size = 0 /\ UNCHANGED <<map, arr, pc>>
     \/ /\ Given.size # 0 /\ map = <<>>
        /\ map' = <<Given>>
        /\ UNCHANGED <<arr, pc>>
     \/ /\ Given.size # 0 /\ Len(map) = 1
        /\ IF CmpMemSct(map[1], Given) = "Separate" /\ Full(map, Given)
           THEN pc' = "full" /\ UNCHANGED map
           ELSE map' \in GlueToOne(map[1], Given) /\ UNCHANGED pc
        /\ UNCHANGED arr
     \/ /\ Given.size # 0 /\ Len(map) >= 2
        /\ IF Full(map, Given)
           THEN pc' = "full" /\ UNCHANGED arr
           ELSE /\ arr' \in IF Contains(map, Given) THEN {map}
                            ELSE Sorted(Append(map, Given))
                /\ pc' = "merge"
        /\ UNCHANGED map
  /\ UNCHANGED <<boot, i, edit>>

Merge ==
  /\ pc = "merge" /\ Windows(arr) # {}
  /\ arr' \in MergePass(arr)
  /\ UNCHANGED <<boot, todo, map, pc, call, i, edit>>

GlueEnd ==
  /\ pc = "merge" /\ Windows(arr) = {}
  /\ map' = arr
  /\ pc' = "ready"
  /\ UNCHANGED <<boot, todo, locals>>

\* rip_section up to its loop, which it enters if something is not Separate.
RipSection ==
  /\ Calls("rip")
  /\ todo' = Tail(todo)
  /\ call' = Given
  /\ arr' = map /\ i' = 1 /\ edit' = "none"
  /\ pc' = IF \E k \in DOMAIN map : CmpMemSct(Given, map[k]) # "Separate"
           THEN "rip" ELSE "ready"
  /\ UNCHANGED <<boot, map>>

\* The section at i, in the loop, lies so with respect to the given one.
Meets(answer) == pc = "rip" /\ i <= Len(arr) /\ CmpMemSct(arr[i], call) = answer
Edited == IF edit = "none" THEN "edited" ELSE edit

RipTailLeaving ==  \* mutant: the loop ends where the range's start was cut off
  /\ Meets("StartBranch")
  /\ map' = [arr EXCEPT ![i].size = Sub(call.start, arr[i].start)]
  /\ pc' = "ready"
  /\ UNCHANGED <<boot, todo, locals>>
RipTail ==
  /\ Meets("StartBranch")
  /\ edit' = Edited
  /\ arr' = [arr EXCEPT ![i].size = Sub(call.start, arr[i].start)]
  /\ i' = i + 1
  /\ UNCHANGED <<boot, todo, map, pc, call>>

\* Leaving the loop: *self = (arr, sz).
WriteBack(v) == map' = v /\ pc' = "ready" /\ arr' = v

RipHeadShort ==  \* mutant: the range's whole size is taken off what is left
  /\ Meets("EndBranch")
  /\ WriteBack([arr EXCEPT ![i] = Sct(End(call), Sub(arr[i].size, call.size))])
  /\ UNCHANGED <<boot, todo, call, i, edit>>
RipHead ==
  /\ Meets("EndBranch")
  /\ WriteBack([arr EXCEPT ![i] = Sct(End(call), Sub(End(arr[i]), End(call)))])
  /\ UNCHANGED <<boot, todo, call, i, edit>>

\* The given section s has a part of: inside it, the two halves are stored in
\* the copy, and the return that follows skips the line that writes it back.
Shrink(s) ==
  LET rest == Sub(s.size, call.size)
  IN  \/ /\ s.size = call.size
         /\ \E v \in Removed(arr, i) : WriteBack(v)
      \/ /\ s.size # call.size /\ s.start = call.start
         /\ WriteBack([arr EXCEPT ![i] = Sct(End(call), rest)])
      \/ /\ s.size # call.size /\ s.start # call.start /\ End(s) = End(call)
         /\ WriteBack([arr EXCEPT ![i].size = rest])
      \/ /\ s.size # call.size /\ s.start # call.start /\ End(s) # End(call)
         /\ pc' = IF Len(arr) = MapCap THEN "full" ELSE "ready"
         /\ UNCHANGED <<map, arr>>

\* After an edit the map itself, not the copy, is organized, and the loop
\* restarts on the copy; a map with nothing to organize is a panic.  What
\* organize leaves in the map is never read before it is overwritten.
Restart ==
  /\ IF edit = "edited" /\ Organizes(map)
     THEN edit' = "organized" /\ i' = 1 /\ UNCHANGED pc
     ELSE pc' = "unreachable" /\ UNCHANGED <<edit, i>>
  /\ UNCHANGED <<map, arr>>

RipInside ==
  /\ Meets("NoChange")
  /\ IF edit # "none" THEN Restart ELSE Shrink(arr[i]) /\ UNCHANGED <<i, edit>>
  /\ UNCHANGED <<boot, todo, call>>

\* The section is removed; the one that takes its place at i is passed over.
RipWhole ==
  /\ Meets("Overwrite")
  /\ edit' = Edited
  /\ \E v \in Removed(arr, i) :
       IF End(arr[i]) = End(call) THEN WriteBack(v) /\ UNCHANGED i
       ELSE arr' = v /\ i' = i + 1 /\ UNCHANGED <<map, pc>>
  /\ UNCHANGED <<boot, todo, call>>

RipNone ==
  /\ Meets("Separate")
  /\ IF edit # "none" THEN WriteBack(arr) /\ UNCHANGED i
     ELSE i' = i + 1 /\ UNCHANGED <<map, pc, arr>>
  /\ UNCHANGED <<boot, todo, call, edit>>

RipEnd ==
  /\ pc = "rip" /\ i > Len(arr)
  /\ WriteBack(arr)
  /\ UNCHANGED <<boot, todo, call, i, edit>>

Return ==
  /\ pc = "ready" /\ todo = <<>>
  /\ pc' = "done"
  /\ UNCHANGED <<boot, todo, map, locals>>

Next ==
  \/ PassOver \/ GlueSection \/ Merge \/ GlueEnd
  \/ RipSection \/ RipTail \/ RipHead \/ RipInside \/ RipWhole \/ RipNone \/ RipEnd
  \/ Return

\* get_mmap runs alone, before interrupts are on: it goes on as long as it can.
Spec == Init /\ [][Next]_vars /\ WF_vars(Next)

-----------------------------------------------------------------------------
BytesOf(v) == UNION {Bytes(v[k]) : k \in DOMAIN v}
FreeBytes == UNION {Bytes(e.sct) : e \in {f \in Range(boot.memory) : f.free}}
RipEnds == pc = "rip" /\ pc' = "ready"

\* The map never holds a byte the firmware did not call free, whatever the
\* merging does to sizes: the allocator is never given memory that is not RAM.
MapIsFree == BytesOf(map) \cup BytesOf(arr) \subseteq FreeBytes

\* Between the calls sections ascend with gaps between them, which organize,
\* rip_section's early exits and the allocator's table all take for granted.
MapApart == \A j, k \in DOMAIN map : j < k => Limit(map[j]) < map[k].start

\* Address 0 is never available once get_mmap returns, whichever sections the
\* earlier rips cut, dropped or passed over: the allocator answers "no memory"
\* with 0 and takes a slot at 0 for that answer (htmalloc.rs:322).
NullNotMapped == pc = "done" => 0 \notin BytesOf(map)

\* unreachable!("NoChange memory comparison when an edit in remove comparisons
\* happened previously.") (main.rs:252-254) really is.
UnreachableIsUnreachable == pc # "unreachable"

\* rip_section takes nothing but what it was given out of the map, except that
\* the section at address 0 may go with any other it removes.
RipTakesNoMore ==
  [][RipEnds => \A k \in DOMAIN map :
       map[k].start > 0 => Bytes(map[k]) \ Bytes(call) \subseteq BytesOf(map')]_vars

\* rip_section does take out a range that covers or cuts one section, or the
\* end of one and the start of the next, and is not inside one.
StrictlyInside(s, m) == m.start < s.start /\ Limit(s) < Limit(m)
Covers(s, m) == s.start <= m.start /\ Limit(m) <= Limit(s)
Hit(v, s) == {k \in DOMAIN v : Bytes(v[k]) \cap Bytes(s) # {}}
RipTakesEdges ==
  [][(/\ RipEnds
      /\ \A k \in DOMAIN map : ~StrictlyInside(call, map[k])
      /\ \A k \in Hit(map, call) : Covers(call, map[k]) => Hit(map, call) = {k})
       => BytesOf(map') \cap Bytes(call) = {}]_vars

\* "Ranges to remove for good: - The Kernel itself" (main.rs:492-493).
KernelRemoved == pc = "done" => BytesOf(map) \cap Bytes(boot.kernel) = {}

\* get_mmap ends, by returning or by a panic: the merging loop and rip_section's
\* restart come to an end.
Ends == <>(pc \in {"done", "full", "unreachable"})
=============================================================================
