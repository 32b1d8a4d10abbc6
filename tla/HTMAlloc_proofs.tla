---------------------------- MODULE HTMAlloc_proofs ----------------------------
(***************************************************************************)
(* For every memory map with the table in its lowest section, every table  *)
(* size and any number of careful clients: the blocks held are disjoint,   *)
(* off the table and recorded, the fit search is complete, and the         *)
(* allocator keeps the promise of Allocator.  Under any clients: the types *)
(* and where new blocks lie; under plain ones: the entries never overlap.  *)
(***************************************************************************)
EXTENDS HTMAlloc, MemSection_proofs, MinTheorems, SequenceTheorems,
        FiniteSetTheorems

(***************************************************************************)
(* The inductive invariant.  Row says that the entries of v lie one after  *)
(* the other in the section m, Chain that the table's own is the first.    *)
(***************************************************************************)
Row(v, m) ==
  /\ v \in Seq(Section)
  /\ \A i \in 1..Len(v) : v[i].size > 0 /\ Within(v[i], m)
  /\ \A i, j \in 1..Len(v) : i < j => Limit(v[i]) <= v[j].start
Chain(v, m) == Row(v, m) /\ v # <<>> /\ v[1] = Sct(m.start, TableBytes)

Closed == mmap = <<>> /\ taken = [ptr |-> 0, cap |-> 0, v |-> <<>>] /\ Held = {}

Opened ==
  /\ mmap \in Maps /\ mmap # <<>>
  /\ taken.ptr = mmap[1].start /\ taken.cap = TableCap
  /\ Chain(taken.v, mmap[1])
  /\ LiveRecorded
  /\ \A h, k \in Held : h # k => Disjoint(live[h], live[k])

IInv == TypeOK /\ halted = FALSE /\ (Closed \/ Opened)

-----------------------------------------------------------------------------
(***************************************************************************)
(* The sections of a map, and room above each of them.                     *)
(***************************************************************************)
LEMMA MapFacts ==
  ASSUME NEW m \in Maps
  PROVE  /\ m \in Seq(Section)
         /\ \A i \in 1..Len(m) : /\ m[i] \in Section /\ m[i].size > 0 /\ m[i].start > 0
                                 /\ m[i].start \in Nat /\ m[i].size \in Nat
                                 /\ \A size \in Sizes : Limit(m[i]) + size < UsizeBound
         /\ \A i, j \in 1..Len(m) : i < j => Limit(m[i]) < m[j].start
<1>1. m \in Seq(Section)
  BY MapsAssumption
<1>2. DOMAIN m = 1..Len(m) /\ \A i \in 1..Len(m) : m[i] \in Section
  BY <1>1
<1> QED
  BY <1>1, <1>2, MapsAssumption DEF Section

(***************************************************************************)
(* The memory check succeeds at an address that is not past the first      *)
(* section exactly if that section holds the block.                        *)
(***************************************************************************)
LEMMA ValidInFirst ==
  ASSUME mmap \in Maps, mmap # <<>>, NEW size \in Sizes, NEW p \in Nat,
         mmap[1].start <= p, p <= Limit(mmap[1])
  PROVE  ValidMemoryCheck(p, size) <=> p + size <= Limit(mmap[1])
<1> DEFINE b == Sct(p, size)
           answer(i) == CmpMemSct(mmap[i], b)
           deciding == {i \in DOMAIN mmap : answer(i) # "Separate"}
<1>1. DOMAIN mmap = 1..Len(mmap) /\ 1 \in 1..Len(mmap) /\ Len(mmap) \in Nat
  BY MapFacts
<1>2. size \in Nat /\ size > 0
  BY SizesAssumption
<1>m. mmap[1] \in Section /\ Limit(mmap[1]) + size < UsizeBound /\ Limit(mmap[1]) \in Nat
  BY <1>1, MapFacts DEF Limit, Section
<1>3. b \in Section /\ Proper(b) /\ Limit(b) = p + size /\ b.start = p /\ b.size = size
  <2>1. b \in Section /\ b.start = p /\ b.size = size
    BY <1>2 DEF Sct, Section
  <2>2. p + size < UsizeBound
    BY <1>m, <1>2, UsizeBoundAssumption
  <2> QED
    BY <2>1, <2>2, <1>2 DEF Proper, Limit
<1>4. Limit(mmap[1]) < UsizeBound
  BY <1>2, <1>m, UsizeBoundAssumption
<1>5. answer(1) # "Separate"
  <2>1. answer(1) = "Separate" <=> Apart(mmap[1], b)
    BY <1>m, <1>3, <1>4, CmpSeparate DEF Proper
  <2>2. mmap[1].start \in Nat
    BY <1>m DEF Section
  <2> QED
    BY <2>1, <2>2, <1>2, <1>3, <1>m DEF Apart
<1>6. Min(deciding) = 1
  <2>1. 1 \in deciding /\ deciding \subseteq Nat
    BY <1>1, <1>5
  <2>2. Min(deciding) \in deciding /\ Min(deciding) <= 1
    BY <2>1, MinInSet
  <2> QED
    BY <2>2, <1>1
<1>7. ValidMemoryCheck(p, size) <=> answer(1) = "NoChange"
  BY <1>6, <1>5, <1>1 DEF ValidMemoryCheck
<1>8. answer(1) = "NoChange" <=> Within(b, mmap[1])
  BY <1>m, <1>3, <1>4, CmpNoChange
<1> QED
  BY <1>7, <1>8, <1>3 DEF Within

(***************************************************************************)
(* Past the last block that fits, the search for another section finds     *)
(* none: every other section starts above the address it starts from.      *)
(***************************************************************************)
LEMMA NoNextInFirst ==
  ASSUME mmap \in Maps, mmap # <<>>, NEW size \in Sizes, NEW p \in Nat,
         mmap[1].start <= p, p <= Limit(mmap[1]), Limit(mmap[1]) < p + size
  PROVE  NextValidMemoryPtr(p, size) = 0
<1> DEFINE b == Sct(p, size)
           answer(i) == CmpMemSct(mmap[i], b)
           deciding == {i \in DOMAIN mmap :
                          /\ p >= mmap[i].start /\ size <= mmap[i].size
                          /\ answer(i) \in {"NoChange", "Separate"}}
<1>1. DOMAIN mmap = 1..Len(mmap) /\ 1 \in 1..Len(mmap) /\ Len(mmap) \in Nat
  BY MapFacts
<1>2. size \in Nat /\ size > 0
  BY SizesAssumption
<1>m. mmap[1] \in Section /\ Limit(mmap[1]) + size < UsizeBound /\ Limit(mmap[1]) \in Nat
  BY <1>1, MapFacts DEF Limit, Section
<1>3. b \in Section /\ Proper(b) /\ Limit(b) = p + size /\ b.start = p /\ b.size = size
  <2>1. b \in Section /\ b.start = p /\ b.size = size
    BY <1>2 DEF Sct, Section
  <2>2. p + size < UsizeBound
    BY <1>m, <1>2, UsizeBoundAssumption
  <2> QED
    BY <2>1, <2>2, <1>2 DEF Proper, Limit
<1>4. Limit(mmap[1]) < UsizeBound
  BY <1>2, <1>m, UsizeBoundAssumption
<1>5. answer(1) # "Separate"
  <2>1. answer(1) = "Separate" <=> Apart(mmap[1], b)
    BY <1>m, <1>3, <1>4, CmpSeparate DEF Proper
  <2>2. mmap[1].start \in Nat
    BY <1>m DEF Section
  <2> QED
    BY <2>1, <2>2, <1>2, <1>3, <1>m DEF Apart
<1>6. answer(1) # "NoChange"
  <2>1. answer(1) = "NoChange" <=> Within(b, mmap[1])
    BY <1>m, <1>3, <1>4, CmpNoChange
  <2> QED
    BY <2>1, <1>2, <1>3, <1>m DEF Within
<1>7. \A i \in 1..Len(mmap) : i # 1 => p < mmap[i].start
  BY <1>1, MapFacts DEF Limit
<1>8. deciding = {}
  BY <1>1, <1>5, <1>6, <1>7, MapFacts
<1> QED
  BY <1>8 DEF NextValidMemoryPtr

-----------------------------------------------------------------------------
(***************************************************************************)
(* Facts about a row, and about a chain.                                   *)
(***************************************************************************)
LEMMA RowFacts ==
  ASSUME NEW m \in Section, NEW v, Row(v, m)
  PROVE  /\ Len(v) \in Nat /\ (v # <<>> => Len(v) >= 1) /\ DOMAIN v = 1..Len(v)
         /\ \A i \in 1..Len(v) : /\ v[i] \in Section /\ v[i].start \in Nat
                                 /\ v[i].size \in Nat /\ v[i].size > 0
                                 /\ m.start <= v[i].start /\ Limit(v[i]) <= Limit(m)
                                 /\ Limit(v[i]) \in Nat /\ v[i].start < Limit(v[i])
         /\ \A i, j \in 1..Len(v) : i < j => Limit(v[i]) <= v[j].start
<1>1. v \in Seq(Section)
  BY DEF Row
<1>2. Len(v) \in Nat /\ (v # <<>> => Len(v) >= 1) /\ DOMAIN v = 1..Len(v)
  BY <1>1
<1>3. \A i \in 1..Len(v) : v[i] \in Section
  BY <1>1
<1> QED
  BY <1>2, <1>3 DEF Row, Within, Limit, Section

\* A chain is a row with at least one entry.
LEMMA ChainFacts ==
  ASSUME NEW m \in Section, NEW v, Chain(v, m)
  PROVE  /\ Len(v) \in Nat /\ Len(v) >= 1 /\ DOMAIN v = 1..Len(v)
         /\ \A i \in 1..Len(v) : /\ v[i] \in Section /\ v[i].start \in Nat
                                 /\ v[i].size \in Nat /\ v[i].size > 0
                                 /\ m.start <= v[i].start /\ Limit(v[i]) <= Limit(m)
                                 /\ Limit(v[i]) \in Nat /\ v[i].start < Limit(v[i])
         /\ \A i, j \in 1..Len(v) : i < j => Limit(v[i]) <= v[j].start
<1>1. Row(v, m) /\ v # <<>>
  BY DEF Chain
<1> QED
  BY <1>1, RowFacts, Zenon

(***************************************************************************)
(* The entries of a row end where their section does not wrap.             *)
(***************************************************************************)
LEMMA RowEnds ==
  ASSUME mmap \in Maps, mmap # <<>>, NEW v, Row(v, mmap[1]), NEW size \in Sizes
  PROVE  /\ mmap[1] \in Section /\ Limit(mmap[1]) + size < UsizeBound /\ Limit(mmap[1]) \in Nat
         /\ size \in Nat /\ size > 0
         /\ \A i \in 1..Len(v) : /\ End(v[i]) = Limit(v[i]) /\ Limit(v[i]) \in Nat
                                 /\ mmap[1].start <= Limit(v[i]) /\ 0 < Limit(v[i])
                                 /\ Limit(v[i]) <= Limit(mmap[1])
<1>1. mmap[1] \in Section /\ Limit(mmap[1]) + size < UsizeBound /\ Limit(mmap[1]) \in Nat
  <2>1. 1 \in 1..Len(mmap)
    BY MapFacts
  <2> QED
    BY <2>1, MapFacts DEF Limit, Section
<1>2. size \in Nat /\ size > 0
  BY SizesAssumption
<1>3. \A i \in 1..Len(v) : End(v[i]) = Limit(v[i])
  <2> SUFFICES ASSUME NEW i \in 1..Len(v) PROVE End(v[i]) = Limit(v[i])
    OBVIOUS
  <2>1. v[i] \in Section /\ Limit(v[i]) <= Limit(mmap[1]) /\ Limit(v[i]) \in Nat
    BY <1>1, RowFacts
  <2>2. Limit(v[i]) < UsizeBound
    BY <2>1, <1>1, <1>2, UsizeBoundAssumption
  <2> QED
    BY <2>1, <2>2, EndIsLimit
<1>4. \A i \in 1..Len(v) : /\ Limit(v[i]) \in Nat /\ 0 < Limit(v[i])
                            /\ mmap[1].start <= Limit(v[i])
                            /\ Limit(v[i]) <= Limit(mmap[1])
  BY <1>1, RowFacts DEF Section
<1> QED
  BY <1>1, <1>2, <1>3, <1>4

(***************************************************************************)
(* A slot that is not 0 holds the block, in the section and off every      *)
(* entry.                                                                  *)
(***************************************************************************)
LEMMA SlotIsFree ==
  ASSUME mmap \in Maps, mmap # <<>>, NEW v, Row(v, mmap[1]), NEW size \in Sizes,
         NextAvailableSlot(v, size) # 0
  PROVE  LET b == Sct(NextAvailableSlot(v, size), size)
         IN  /\ b \in Section /\ b.size = size /\ size > 0 /\ Within(b, mmap[1])
             /\ \A i \in 1..Len(v) : Disjoint(b, v[i])
             /\ \E i \in 1..Len(v) : Limit(v[i]) <= b.start
<1> DEFINE slot == NextAvailableSlot(v, size)
           b == Sct(slot, size)
           gaps == {i \in 1..Len(v) - 1 : /\ Add(End(v[i]), size) <= v[i + 1].start
                                          /\ ValidMemoryCheck(End(v[i]), size)}
           last == End(v[Len(v)])
<1>1. mmap[1] \in Section /\ Limit(mmap[1]) + size < UsizeBound /\ Limit(mmap[1]) \in Nat
  BY RowEnds
<1>2. size \in Nat /\ size > 0
  BY SizesAssumption
<1>3. \A i \in 1..Len(v) : End(v[i]) = Limit(v[i])
  BY RowEnds
<1>4. \A i \in 1..Len(v) : /\ Limit(v[i]) \in Nat
                            /\ mmap[1].start <= Limit(v[i])
                            /\ Limit(v[i]) <= Limit(mmap[1])
  BY RowEnds
<1>v. v # <<>>
  BY DEF NextAvailableSlot
<1>5. v # <<>> /\ Len(v) \in Nat /\ Len(v) >= 1
  BY <1>1, <1>v, RowFacts
<1>6. CASE gaps # {}
  <2> DEFINE i == Min(gaps)
  <2>1. i \in gaps
    <3>1. gaps \subseteq Nat
      BY <1>5
    <3> HIDE DEF gaps
    <3> QED
      BY <3>1, <1>6, MinInSet
  <2>2. i \in 1..Len(v) /\ i + 1 \in 1..Len(v) /\ slot = Limit(v[i])
    <3>1. i \in 1..Len(v) /\ i + 1 \in 1..Len(v)
      BY <2>1, <1>5
    <3>2. slot = End(v[i])
      BY <1>5, <1>6, Zenon DEF NextAvailableSlot
    <3> QED
      BY <3>1, <3>2, <1>3
  <2>3. slot + size <= v[i + 1].start
    <3>1. Add(slot, size) <= v[i + 1].start
      BY <2>1, <2>2, <1>3
    <3>2. slot \in Nat /\ slot + size < UsizeBound
      BY <2>2, <1>1, <1>2, <1>4, UsizeBoundAssumption
    <3> QED
      BY <3>1, <3>2 DEF Add
  <2>4. slot + size <= Limit(mmap[1])
    BY <2>1, <2>2, <1>2, <1>3, <1>4, ValidInFirst
  <2>5. \A j \in 1..Len(v) : Limit(v[j]) <= slot \/ slot + size <= v[j].start
    <3> SUFFICES ASSUME NEW j \in 1..Len(v)
                 PROVE Limit(v[j]) <= slot \/ slot + size <= v[j].start
      OBVIOUS
    <3>1. CASE j < i
      <4>1. Limit(v[j]) <= v[i].start /\ v[i].start < Limit(v[i])
            /\ v[i].start \in Nat /\ Limit(v[i]) \in Nat /\ Limit(v[j]) \in Nat
        BY <3>1, <2>2, <1>1, RowFacts
      <4> QED
        BY <4>1, <2>2
    <3>2. CASE j = i
      BY <3>2, <2>2, <1>4
    <3>3. CASE j = i + 1
      BY <3>3, <2>3
    <3>4. CASE j > i + 1
      <4>1. Limit(v[i + 1]) <= v[j].start /\ v[i + 1].start < Limit(v[i + 1])
            /\ v[j].start \in Nat /\ v[i + 1].start \in Nat /\ Limit(v[i + 1]) \in Nat
        BY <3>4, <2>2, <1>1, RowFacts
      <4> QED
        BY <4>1, <2>2, <2>3, <1>2, <1>4, SMTT(40)
    <3> QED
      BY <3>1, <3>2, <3>3, <3>4, <2>2
  <2>6. \E j \in 1..Len(v) : Limit(v[j]) <= slot
    <3>1. Limit(v[i]) <= slot
      BY <2>2, <1>4
    <3> QED
      BY <3>1, <2>2
  <2> QED
    BY <2>2, <2>4, <2>5, <2>6, <1>2, <1>4 DEF Sct, Section, Within, Disjoint, Limit
<1>7. CASE gaps = {}
  <2>1. Len(v) \in 1..Len(v) /\ last = Limit(v[Len(v)])
    BY <1>3, <1>5
  <2>2. ValidMemoryCheck(last, size)
    <3> SUFFICES ASSUME ~ValidMemoryCheck(last, size) PROVE FALSE
      OBVIOUS
    <3>1. Limit(mmap[1]) < last + size
      BY <2>1, <1>1, <1>2, <1>4, ValidInFirst
    <3>2. NextValidMemoryPtr(last, size) = 0
      BY <3>1, <2>1, <1>4, NoNextInFirst
    <3> QED
      BY <3>2, <1>5, <1>7 DEF NextAvailableSlot
  <2>3. slot = Limit(v[Len(v)])
    BY <2>1, <2>2, <1>5, <1>7 DEF NextAvailableSlot
  <2>4. slot + size <= Limit(mmap[1])
    BY <2>1, <2>2, <2>3, <1>4, ValidInFirst
  <2>5. \A j \in 1..Len(v) : Limit(v[j]) <= slot
    <3> SUFFICES ASSUME NEW j \in 1..Len(v) PROVE Limit(v[j]) <= slot
      OBVIOUS
    <3>1. CASE j = Len(v)
      BY <3>1, <2>3, <1>4, <2>1
    <3>2. CASE j < Len(v)
      <4>1. Limit(v[j]) <= v[Len(v)].start /\ v[Len(v)].start < Limit(v[Len(v)])
            /\ v[Len(v)].start \in Nat
        BY <3>2, <2>1, <1>1, RowFacts
      <4> QED
        BY <4>1, <2>1, <2>3, <1>4
    <3> QED
      BY <3>1, <3>2, <1>5
  <2>6. \E j \in 1..Len(v) : Limit(v[j]) <= slot
    BY <2>1, <2>5
  <2> QED
    BY <2>1, <2>3, <2>4, <2>5, <2>6, <1>2, <1>4 DEF Sct, Section, Within, Disjoint, Limit
<1> QED
  BY <1>6, <1>7

-----------------------------------------------------------------------------
(***************************************************************************)
(* taken_organize leaves a row alone.                                      *)
(***************************************************************************)
LEMMA RowIsOrganized ==
  ASSUME NEW m \in Section, NEW v, Row(v, m)
  PROVE  Organized(v) = {v}
<1>1. ASSUME NEW i \in 2..Len(v), NEW j \in 2..Len(v), i < j
      PROVE  v[i].start < v[j].start
  <2>1. i \in 1..Len(v) /\ j \in 1..Len(v)
    BY RowFacts
  <2>2. /\ Limit(v[i]) <= v[j].start /\ v[i].start < Limit(v[i])
        /\ v[i].start \in Nat /\ v[j].start \in Nat /\ Limit(v[i]) \in Nat
    BY <2>1, <1>1, RowFacts
  <2> QED
    BY <2>2
<1> QED
  BY <1>1 DEF Organized, Increasing

(***************************************************************************)
(* What taken_organize may return is a permutation p that keeps the head   *)
(* and sorts the rest.                                                     *)
(***************************************************************************)
Sorts(p, u, x) ==
  /\ p \in [2..Len(u) -> 2..Len(u)]
  /\ \A i, j \in 2..Len(u) : p[i] = p[j] => i = j
  /\ \A w \in 2..Len(u) : \E i \in 2..Len(u) : p[i] = w
  /\ \A i, j \in 2..Len(u) : i < j => u[p[i]].start <= u[p[j]].start
  /\ \A i \in 1..Len(u) : x[i] = u[IF i = 1 THEN 1 ELSE p[i]]

\* What taken_organize leaves: the first entry, and the others sorted.
LEMMA OrganizedSorts ==
  ASSUME NEW u \in Seq(Section), Len(u) >= 1, NEW x \in Organized(u)
  PROVE  x \in Seq(Section) /\ Len(x) = Len(u) /\ \E p : Sorts(p, u, x)
<1> DEFINE n == Len(u)
<1>1. n \in Nat /\ DOMAIN u = 1..n /\ \A i \in 1..n : u[i] \in Section
  OBVIOUS
<1>2. CASE Increasing(u)
  <2> DEFINE id == [i \in 2..n |-> i]
  <2>1. x = u
    BY <1>2 DEF Organized
  <2>2. id \in [2..n -> 2..n] /\ \A i \in 2..n : id[i] = i
    OBVIOUS
  <2>3. \A i, j \in 2..n : i < j => u[i].start <= u[j].start
    <3> SUFFICES ASSUME NEW i \in 2..n, NEW j \in 2..n, i < j
                 PROVE  u[i].start <= u[j].start
      OBVIOUS
    <3>1. u[i].start < u[j].start /\ u[i] \in Section /\ u[j] \in Section
      BY <1>2, <1>1 DEF Increasing
    <3> QED
      BY <3>1 DEF Section
  <2> HIDE DEF id
  <2>4. Sorts(id, u, x)
    BY <2>1, <2>2, <2>3, <1>1 DEF Sorts
  <2> QED
    BY <2>1, <2>4
<1>3. CASE ~Increasing(u)
  <2>1. PICK p \in Bijection(2..n, 2..n) : SortsTail(u, p) /\ x = Rearranged(u, p)
    BY <1>3 DEF Organized
  <2>2. p \in [2..n -> 2..n] /\ \A w \in 2..n : \E i \in 2..n : p[i] = w
    BY Zenon DEF Bijection, Injection, Surjection
  <2>3. \A i, j \in 2..n : p[i] = p[j] => i = j
    BY <2>2 DEF Bijection, Injection, IsInjective
  <2>4. x = [i \in 1..n |-> IF i = 1 THEN u[1] ELSE u[p[i]]]
    BY <2>1 DEF Rearranged
  <2>5. \A i \in 1..n : x[i] = u[IF i = 1 THEN 1 ELSE p[i]] /\ x[i] \in Section
    <3> SUFFICES ASSUME NEW i \in 1..n
                 PROVE  x[i] = u[IF i = 1 THEN 1 ELSE p[i]] /\ x[i] \in Section
      OBVIOUS
    <3>1. CASE i = 1
      BY <3>1, <2>4, <1>1
    <3>2. CASE i # 1
      <4>1. p[i] \in 1..n /\ x[i] = u[p[i]]
        BY <3>2, <2>2, <2>4, <1>1
      <4> QED
        BY <4>1, <3>2, <1>1
    <3> QED
      BY <3>1, <3>2
  <2>6. x \in Seq(Section) /\ Len(x) = n
    BY <2>4, <2>5, <1>1
  <2>7. Sorts(p, u, x)
    BY <2>1, <2>2, <2>3, <2>5 DEF Sorts, SortsTail
  <2> QED
    BY <2>6, <2>7
<1> QED
  BY <1>2, <1>3

(***************************************************************************)
(* Organizing a table whose entries are disjoint and in the section, the   *)
(* lowest first, makes it a row with the same entries.                     *)
(***************************************************************************)
LEMMA OrganizeMakesRow ==
  ASSUME NEW m \in Section, NEW n \in Nat, n >= 1,
         NEW u \in Seq(Section), Len(u) = n, \A i \in 1..n : u[1].start <= u[i].start,
         \A i \in 1..n : u[i].size > 0 /\ Within(u[i], m),
         \A i, j \in 1..n : i # j => Disjoint(u[i], u[j]),
         NEW x \in Organized(u)
  PROVE  Row(x, m) /\ Len(x) = n /\ x[1] = u[1] /\ \A w \in 2..n : \E j \in 2..n : x[j] = u[w]
<1>1. PICK p : x \in Seq(Section) /\ Len(x) = n /\ Sorts(p, u, x)
  BY OrganizedSorts
<1> DEFINE q == [i \in 1..n |-> IF i = 1 THEN 1 ELSE p[i]]
<1>2. /\ \A i \in 1..n : q[i] \in 1..n /\ x[i] = u[q[i]]
      /\ q[1] = 1
      /\ \A i, j \in 1..n : i # j => q[i] # q[j]
      /\ \A i, j \in 2..n : i < j => x[i].start <= x[j].start
      /\ \A w \in 2..n : \E i \in 2..n : q[i] = w
  <2>1. \A i \in 2..n : i \in 1..n /\ i # 1 /\ q[i] = p[i] /\ p[i] \in 2..n
    BY <1>1 DEF Sorts
  <2>2. \A i \in 1..n : i = 1 \/ i \in 2..n
    OBVIOUS
  <2>3. q[1] = 1
    OBVIOUS
  <2>4. \A i \in 1..n : x[i] = u[q[i]]
    BY <1>1 DEF Sorts
  <2> HIDE DEF q
  <2>5. \A i \in 1..n : q[i] \in 1..n
    BY <2>1, <2>2, <2>3
  <2>6. \A i, j \in 1..n : i # j => q[i] # q[j]
    <3> SUFFICES ASSUME NEW i \in 1..n, NEW j \in 1..n, q[i] = q[j] PROVE i = j
      OBVIOUS
    <3>1. \A k \in 2..n : q[k] # 1
      BY <2>1
    <3>2. CASE i = 1 \/ j = 1
      BY <3>1, <3>2, <2>2, <2>3
    <3>3. CASE i \in 2..n /\ j \in 2..n
      <4>1. p[i] = p[j]
        BY <3>3, <2>1
      <4> QED
        BY <3>3, <4>1, <1>1 DEF Sorts
    <3> QED
      BY <3>2, <3>3, <2>2
  <2>7. \A i, j \in 2..n : i < j => x[i].start <= x[j].start
    <3> SUFFICES ASSUME NEW i \in 2..n, NEW j \in 2..n, i < j
                 PROVE  x[i].start <= x[j].start
      OBVIOUS
    <3>1. u[p[i]].start <= u[p[j]].start
      BY <1>1 DEF Sorts
    <3>2. x[i] = u[p[i]] /\ x[j] = u[p[j]]
      BY <2>1, <2>4
    <3> QED
      BY <3>1, <3>2
  <2>8. \A w \in 2..n : \E i \in 2..n : q[i] = w
    BY <2>1, <1>1 DEF Sorts
  <2> QED
    BY <2>3, <2>4, <2>5, <2>6, <2>7, <2>8
<1> HIDE DEF q
<1>3. \A i \in 1..n : /\ u[i] \in Section /\ u[i].start \in Nat /\ Limit(u[i]) \in Nat
                      /\ u[i].start < Limit(u[i]) /\ m.start <= u[i].start
  <2> SUFFICES ASSUME NEW i \in 1..n
               PROVE  /\ u[i] \in Section /\ u[i].start \in Nat /\ Limit(u[i]) \in Nat
                      /\ u[i].start < Limit(u[i]) /\ m.start <= u[i].start
    OBVIOUS
  <2>1. u[i] \in Section /\ u[i].size > 0 /\ Within(u[i], m)
    OBVIOUS
  <2> QED
    BY <2>1 DEF Section, Limit, Within
<1>5. x[1] = u[1]
  BY <1>2
<1>6. ASSUME NEW i \in 1..n, NEW j \in 1..n, i < j
      PROVE  Limit(x[i]) <= x[j].start
  <2>0. /\ q[i] \in 1..n /\ q[j] \in 1..n
        /\ x[i] = u[q[i]] /\ x[j] = u[q[j]]
    BY <1>2
  <2>1. q[i] # q[j]
    <3>1. i # j
      BY <1>6
    <3> QED
      BY <3>1, <1>2, Zenon
  <2>2. Limit(x[i]) <= x[j].start \/ Limit(x[j]) <= x[i].start
    <3>1. Disjoint(u[q[i]], u[q[j]])
      BY <2>0, <2>1
    <3> QED
      BY <3>1, <2>0 DEF Disjoint
  <2>3. x[i].start <= x[j].start
    <3>1. CASE i = 1
      <4>1. x[1].start = u[1].start
        BY <1>5
      <4>2. u[1].start <= u[q[j]].start /\ x[j] = u[q[j]]
        BY <1>2, <1>3
      <4> QED
        BY <3>1, <4>1, <4>2
    <3>2. CASE i # 1
      <4>1. i \in 2..n /\ j \in 2..n
        BY <3>2, <1>6
      <4> QED
        BY <4>1, <1>2, <1>6
    <3> QED
      BY <3>1, <3>2
  <2>4. x[j].start < Limit(x[j]) /\ x[i].start \in Nat /\ x[j].start \in Nat
        /\ Limit(x[j]) \in Nat /\ Limit(x[i]) \in Nat
    BY <2>0, <1>3
  <2> QED
    BY <2>2, <2>3, <2>4
<1>7. \A i \in 1..n : x[i].size > 0 /\ Within(x[i], m)
  BY <1>2, ZenonT(60)
<1>8. Row(x, m)
  BY <1>1, <1>6, <1>7 DEF Row
<1>9. \A w \in 2..n : \E j \in 2..n : x[j] = u[w]
  <2> SUFFICES ASSUME NEW w \in 2..n PROVE \E j \in 2..n : x[j] = u[w]
    OBVIOUS
  <2>1. PICK j \in 2..n : q[j] = w
    BY <1>2
  <2>2. j \in 1..n
    OBVIOUS
  <2>3. x[j] = u[q[j]]
    BY <2>2, <1>2, Zenon
  <2> QED
    BY <2>1, <2>3
<1> QED
  BY <1>1, <1>5, <1>8, <1>9

(***************************************************************************)
(* Pushing a block that is in the section and off every entry, and then    *)
(* organizing, keeps the row, the first entry and every other.             *)
(***************************************************************************)
LEMMA PushKeepsRow ==
  ASSUME NEW m \in Section, NEW v, Row(v, m), v # <<>>,
         NEW b \in Section, b.size > 0, Within(b, m),
         \A i \in 1..Len(v) : Disjoint(b, v[i]),
         \E i \in 1..Len(v) : Limit(v[i]) <= b.start,
         NEW x \in Organized(Append(v, b))
  PROVE  /\ Row(x, m) /\ Len(x) = Len(v) + 1 /\ x[1] = v[1]
         /\ \A i \in 2..Len(v) : \E j \in 2..Len(x) : x[j] = v[i]
         /\ \E j \in 2..Len(x) : x[j] = b
<1> DEFINE u == Append(v, b)
           n == Len(v) + 1
<1>1. /\ n \in Nat /\ n >= 2 /\ Len(v) \in Nat /\ Len(v) = n - 1
      /\ u \in Seq(Section) /\ Len(u) = n
      /\ \A i \in 1..Len(v) : u[i] = v[i]
      /\ u[n] = b
  <2>1. v \in Seq(Section) /\ Len(v) \in Nat /\ Len(v) >= 1
    BY RowFacts DEF Row
  <2> QED
    BY <2>1
<1>x. x \in Organized(u)
  OBVIOUS
<1> HIDE DEF u, n
<1>2. \A i \in 1..n : u[i].size > 0 /\ Within(u[i], m)
  BY <1>1 DEF Row
<1>3. \A i, j \in 1..n : i # j => Disjoint(u[i], u[j])
  <2> SUFFICES ASSUME NEW i \in 1..n, NEW j \in 1..n, i < j
               PROVE  Disjoint(u[i], u[j]) /\ Disjoint(u[j], u[i])
    BY <1>1
  <2>1. CASE j = n
    BY <2>1, <1>1 DEF Disjoint
  <2>2. CASE j < n
    <3>1. i \in 1..Len(v) /\ j \in 1..Len(v)
      BY <2>2, <1>1
    <3>2. Limit(v[i]) <= v[j].start
      BY <3>1 DEF Row
    <3> QED
      BY <3>1, <3>2, <1>1 DEF Disjoint
  <2> QED
    BY <2>1, <2>2, <1>1
<1>4. \A i \in 1..n : u[1].start <= u[i].start
  <2>1. 1 \in 1..Len(v) /\ u[1] = v[1] /\ v[1].start \in Nat
    BY <1>1, RowFacts
  <2>2. PICK k \in 1..Len(v) : Limit(v[k]) <= b.start
    OBVIOUS
  <2>3. \A i \in 1..Len(v) : v[1].start <= v[i].start
    <3> SUFFICES ASSUME NEW i \in 1..Len(v), i # 1 PROVE v[1].start <= v[i].start
      BY <2>1
    <3>1. Limit(v[1]) <= v[i].start /\ v[1].start < Limit(v[1]) /\ Limit(v[1]) \in Nat
          /\ v[i].start \in Nat
      BY <2>1, <1>1, RowFacts
    <3> QED
      BY <3>1, <2>1
  <2>4. v[1].start <= b.start
    <3>1. v[1].start <= v[k].start /\ v[k].start < Limit(v[k]) /\ Limit(v[k]) \in Nat
          /\ v[k].start \in Nat /\ b.start \in Nat
      BY <2>3, RowFacts DEF Section
    <3> QED
      BY <3>1, <2>1, <2>2
  <2> QED
    BY <2>1, <2>3, <2>4, <1>1
<1>5. Row(x, m) /\ Len(x) = n /\ x[1] = u[1] /\ \A w \in 2..n : \E j \in 2..n : x[j] = u[w]
  <2>1. n >= 1
    BY <1>1
  <2>2. n \in Nat /\ u \in Seq(Section) /\ Len(u) = n
    BY <1>1
  <2> QED
    BY <2>1, <2>2, <1>x, <1>2, <1>3, <1>4, OrganizeMakesRow, Zenon
<1>6. n \in 2..n /\ \A i \in 2..Len(v) : i \in 2..n /\ i \in 1..Len(v)
  BY <1>1
<1>7. ASSUME NEW i \in 2..Len(v) PROVE \E j \in 2..Len(x) : x[j] = v[i]
  <2>1. i \in 2..n /\ u[i] = v[i]
    BY <1>1, <1>6
  <2> QED
    BY <2>1, <1>5
<1>8. \E j \in 2..Len(x) : x[j] = b
  BY <1>1, <1>5, <1>6
<1>9. Len(x) = Len(v) + 1
  BY <1>1, <1>5
<1>10. x[1] = v[1]
  BY <1>1, <1>5
<1> QED
  BY <1>5, <1>7, <1>8, <1>9, <1>10

-----------------------------------------------------------------------------
(***************************************************************************)
(* Removing an entry: what RemoveAt gives.                                 *)
(***************************************************************************)
LEMMA RemoveAtFacts ==
  ASSUME NEW S, NEW v \in Seq(S), NEW i \in 1..Len(v)
  PROVE  /\ RemoveAt(v, i) \in Seq(S) /\ Len(RemoveAt(v, i)) = Len(v) - 1
         /\ \A k \in 1..Len(v) - 1 :
              RemoveAt(v, i)[k] = IF k < i THEN v[k] ELSE v[k + 1]
<1> DEFINE a == SubSeq(v, 1, i - 1)
           c == SubSeq(v, i + 1, Len(v))
<1>1. a \in Seq(S) /\ Len(a) = i - 1 /\ \A k \in 1..i - 1 : a[k] = v[k]
  OBVIOUS
<1>2. c \in Seq(S) /\ Len(c) = Len(v) - i /\ \A k \in 1..Len(v) - i : c[k] = v[i + k]
  OBVIOUS
<1>3. RemoveAt(v, i) = a \o c
  BY DEF RemoveAt
<1>k. Len(v) \in Nat /\ i \in Nat /\ i >= 1 /\ i <= Len(v)
  OBVIOUS
<1> HIDE DEF a, c
<1>4. a \o c \in Seq(S) /\ Len(a \o c) = Len(v) - 1
  <2>1. a \o c \in Seq(S) /\ Len(a \o c) = Len(a) + Len(c)
    BY <1>1, <1>2, ConcatProperties
  <2> QED
    BY <2>1, <1>1, <1>2, <1>k
<1>5. ASSUME NEW k \in 1..Len(v) - 1
      PROVE  (a \o c)[k] = IF k < i THEN v[k] ELSE v[k + 1]
  <2>1. CASE k < i
    BY <2>1, <1>1, <1>2
  <2>2. CASE k >= i
    <3>1. (a \o c)[k] = c[k - (i - 1)] /\ k - (i - 1) \in 1..Len(v) - i
      BY <2>2, <1>1, <1>2
    <3> QED
      BY <3>1, <2>2, <1>2
  <2>3. k < i \/ k >= i
    BY <1>k
  <2> QED
    BY <2>1, <2>2, <2>3
<1> QED
  BY <1>3, <1>4, <1>5

\* Removing an entry keeps the row and the other entries, and behind the first
\* one the first.
LEMMA RemoveKeepsRow ==
  ASSUME NEW m \in Section, NEW v, Row(v, m), NEW i \in 1..Len(v)
  PROVE  /\ Row(RemoveAt(v, i), m) /\ Len(RemoveAt(v, i)) = Len(v) - 1
         /\ i # 1 => RemoveAt(v, i) # <<>> /\ RemoveAt(v, i)[1] = v[1]
         /\ i # 1 => \A j \in 2..Len(v) :
              j # i => \E k \in 2..Len(RemoveAt(v, i)) : RemoveAt(v, i)[k] = v[j]
<1> DEFINE w == RemoveAt(v, i)
           n == Len(v)
           from(k) == IF k < i THEN k ELSE k + 1
<1>1. v \in Seq(Section) /\ n \in Nat /\ i \in 1..n
  BY RowFacts DEF Row
<1>2. /\ w \in Seq(Section) /\ Len(w) = n - 1
      /\ \A k \in 1..n - 1 : from(k) \in 1..n /\ w[k] = v[from(k)]
  <2>1. /\ w \in Seq(Section) /\ Len(w) = n - 1
        /\ \A k \in 1..n - 1 : w[k] = IF k < i THEN v[k] ELSE v[k + 1]
    BY <1>1, RemoveAtFacts
  <2> HIDE DEF w
  <2>2. ASSUME NEW k \in 1..n - 1 PROVE from(k) \in 1..n /\ w[k] = v[from(k)]
    <3>1. w[k] = IF k < i THEN v[k] ELSE v[k + 1]
      BY <2>1
    <3>2. CASE k < i
      BY <1>1, <3>1, <3>2
    <3>3. CASE ~(k < i)
      BY <1>1, <3>1, <3>3
    <3> QED
      BY <3>2, <3>3
  <2> QED
    BY <2>1, <2>2
<1> HIDE DEF w
<1>3. i # 1 => w # <<>> /\ w[1] = v[1]
  BY <1>1, <1>2
<1>4. \A k \in 1..Len(w) : w[k].size > 0 /\ Within(w[k], m)
  BY <1>2 DEF Row
<1>5. ASSUME NEW j \in 1..Len(w), NEW k \in 1..Len(w), j < k
      PROVE  Limit(w[j]) <= w[k].start
  <2>1. from(j) \in 1..n /\ from(k) \in 1..n /\ from(j) < from(k)
    BY <1>1, <1>2, <1>5
  <2>2. w[j] = v[from(j)] /\ w[k] = v[from(k)]
    BY <1>2
  <2> HIDE DEF from
  <2> QED
    BY <2>1, <2>2 DEF Row
<1>6. Row(w, m)
  BY <1>2, <1>4, <1>5 DEF Row
<1>7. ASSUME i # 1, NEW j \in 2..n, j # i PROVE \E k \in 2..Len(w) : w[k] = v[j]
  <2>1. CASE j < i
    <3>1. j \in 2..Len(w) /\ from(j) = j /\ j \in 1..n - 1
      BY <2>1, <1>1, <1>2
    <3> QED
      BY <3>1, <1>2
  <2>2. CASE j > i
    <3>1. j - 1 \in 2..Len(w) /\ from(j - 1) = j /\ j - 1 \in 1..n - 1
      BY <2>2, <1>1, <1>2, <1>7
    <3> QED
      BY <3>1, <1>2
  <2> QED
    BY <2>1, <2>2, <1>7
<1> QED
  BY <1>2, <1>3, <1>6, <1>7 DEF w

(***************************************************************************)
(* alloc on a table with room: nothing happens, or a free block is handed  *)
(* out and recorded.                                                       *)
(***************************************************************************)
Granted(r, t, size) ==
  LET b == Sct(r.ptr, size)
  IN  /\ b \in Section /\ Within(b, mmap[1])
      /\ \A i \in 1..Len(t.v) : Disjoint(b, t.v[i])
      /\ \E x : /\ r.table = [t EXCEPT !.v = x] /\ Chain(x, mmap[1])
                /\ Len(x) = Len(t.v) + 1
                /\ \A i \in 2..Len(t.v) : \E j \in 2..Len(x) : x[j] = t.v[i]
                /\ \E j \in 2..Len(x) : x[j] = b

\* alloc on a table with room gives null and changes nothing, or grants a free block.
LEMMA AllocIsSafe ==
  ASSUME mmap \in Maps, mmap # <<>>, NEW t \in Table, Chain(t.v, mmap[1]),
         Len(t.v) < t.cap, t.ptr # 0,
         NEW size \in Sizes, NEW r \in AllocResults(t, size)
  PROVE  /\ r.ptr = 0 => r.table = t
         /\ r.ptr # 0 => Granted(r, t, size)
<1> DEFINE slot == NextAvailableSlot(t.v, size)
           b == Sct(slot, size)
<1>1. mmap[1] \in Section
  <2>1. 1 \in 1..Len(mmap)
    BY MapFacts
  <2> QED
    BY <2>1, MapFacts
<1>2. Organized(t.v) = {t.v} /\ [t EXCEPT !.v = t.v] = t
  BY <1>1, RowIsOrganized DEF Table, Chain
<1>3. r \in IF slot = 0 THEN {[ptr |-> 0, table |-> t]}
            ELSE UNION {{[ptr |-> slot, table |-> [w EXCEPT !.v = x]] :
                           x \in Organized(w.v)} : w \in Pushed(t, b)}
  <2>1. r \in AllocOrganized(t, size)
    BY <1>2, Zenon DEF AllocResults
  <2> QED
    BY <2>1, Zenon DEF AllocOrganized
<1>4. CASE slot = 0
  BY <1>3, <1>4
<1>5. CASE slot # 0
  <2> DEFINE w == [t EXCEPT !.v = Append(t.v, b)]
  <2>1. Pushed(t, b) = {w}
    BY DEF Pushed
  <2>2. PICK x \in Organized(w.v) : r = [ptr |-> slot, table |-> [w EXCEPT !.v = x]]
    <3> HIDE DEF w, b
    <3>1. r \in UNION {{[ptr |-> slot, table |-> [z EXCEPT !.v = x]] :
                           x \in Organized(z.v)} : z \in {w}}
      BY <2>1, <1>3, <1>5, Zenon
    <3> QED
      BY <3>1, ZenonT(60)
  <2>3. w.v = Append(t.v, b) /\ [w EXCEPT !.v = x] = [t EXCEPT !.v = x]
    BY DEF Table
  <2>4. /\ b \in Section /\ b.size > 0 /\ Within(b, mmap[1])
        /\ \A i \in 1..Len(t.v) : Disjoint(b, t.v[i])
        /\ \E i \in 1..Len(t.v) : Limit(t.v[i]) <= b.start
    BY <1>5, SlotIsFree, Zenon DEF Chain
  <2>5. /\ Chain(x, mmap[1]) /\ Len(x) = Len(t.v) + 1
        /\ \A i \in 2..Len(t.v) : \E j \in 2..Len(x) : x[j] = t.v[i]
        /\ \E j \in 2..Len(x) : x[j] = b
    <3>1. x \in Organized(Append(t.v, b))
      BY <2>3
    <3> HIDE DEF b, w
    <3> QED
      <4>1. Row(t.v, mmap[1]) /\ t.v # <<>> /\ t.v[1] = Sct(mmap[1].start, TableBytes)
        BY DEF Chain
      <4>2. /\ Row(x, mmap[1]) /\ Len(x) = Len(t.v) + 1 /\ x[1] = t.v[1]
            /\ \A i \in 2..Len(t.v) : \E j \in 2..Len(x) : x[j] = t.v[i]
            /\ \E j \in 2..Len(x) : x[j] = b
        <5> DEFINE v == t.v
        <5>1. Row(v, mmap[1]) /\ v # <<>> /\ x \in Organized(Append(v, b))
          BY <4>1, <3>1
        <5>2. \A i \in 1..Len(v) : Disjoint(b, v[i])
          BY <2>4
        <5>3. \E i \in 1..Len(v) : Limit(v[i]) <= b.start
          BY <2>4
        <5> HIDE DEF v
        <5>4. /\ Row(x, mmap[1]) /\ Len(x) = Len(v) + 1 /\ x[1] = v[1]
              /\ \A i \in 2..Len(v) : \E j \in 2..Len(x) : x[j] = v[i]
              /\ \E j \in 2..Len(x) : x[j] = b
          BY <5>1, <5>2, <5>3, <2>4, <1>1, PushKeepsRow
        <5> QED
          BY <5>4 DEF v
      <4>3. x # <<>>
        BY <4>2 DEF Row
      <4> QED
        BY <4>1, <4>2, <4>3 DEF Chain
  <2>6. r.ptr = slot /\ r.table = [t EXCEPT !.v = x]
    BY <2>2, <2>3
  <2> QED
    BY <2>4, <2>5, <2>6, <1>5 DEF Granted
<1> QED
  BY <1>4, <1>5

(***************************************************************************)
(* dealloc of a block smaller or larger than the table: nothing happens,   *)
(* or the entry before the block's, of the same size, goes.                *)
(***************************************************************************)
LEMMA DeallocIsSafe ==
  ASSUME NEW m \in Section, NEW t \in Table, Chain(t.v, m),
         NEW start, NEW size, size # TableBytes, NEW u \in DeallocResults(t, start, size)
  PROVE  \E x : /\ u = [t EXCEPT !.v = x] /\ Chain(x, m) /\ Len(x) <= Len(t.v)
               /\ \A i \in 2..Len(t.v) :
                    \/ \E j \in 2..Len(x) : x[j] = t.v[i]
                    \/ t.v[i].size = size /\ i < Len(t.v) /\ t.v[i + 1].start = start
<1>1. Organized(t.v) = {t.v}
  BY RowIsOrganized DEF Chain
<1>2. PICK i \in TakenMatch(t.v, start, size) :
        u = [t EXCEPT !.v = IF i = 0 THEN t.v ELSE RemoveAt(t.v, i)]
  <2>1. PICK v \in Organized(t.v) :
          u \in {[t EXCEPT !.v = IF i = 0 THEN v ELSE RemoveAt(v, i)] :
                   i \in TakenMatch(v, start, size)}
    BY Zenon DEF DeallocResults
  <2>2. v = t.v
    BY <1>1
  <2> QED
    BY <2>1, <2>2, Zenon
<1>3. CASE i = 0
  <2>1. u = [t EXCEPT !.v = t.v]
    BY <1>2, <1>3
  <2>2. Len(t.v) \in Nat
    BY DEF Chain
  <2>3. Len(t.v) <= Len(t.v)
    BY <2>2
  <2> QED
    BY <2>1, <2>3
<1>4. CASE i # 0
  <2>1. i \in TakenMatchStart(t.v, start) /\ t.v[i].size = size
    BY <1>4 DEF TakenMatch
  <2>2. PICK e \in 2..Len(t.v) : t.v[e].start = start /\ i = e - 1
    BY <2>1, <1>4 DEF TakenMatchStart
  <2>3. i # 1
    BY <2>1 DEF Chain, Sct
  <2>4. Len(t.v) \in Nat
    BY ChainFacts
  <2>5. i \in 2..Len(t.v) /\ i < Len(t.v) /\ i + 1 = e
    BY <2>2, <2>3, <2>4
  <2>6. /\ Chain(RemoveAt(t.v, i), m) /\ Len(RemoveAt(t.v, i)) <= Len(t.v)
        /\ \A j \in 2..Len(t.v) :
             j # i => \E k \in 2..Len(RemoveAt(t.v, i)) : RemoveAt(t.v, i)[k] = t.v[j]
    <3>1. i \in 2..Len(t.v)
      BY <2>5
    <3>2. /\ Chain(RemoveAt(t.v, i), m) /\ Len(RemoveAt(t.v, i)) = Len(t.v) - 1
          /\ \A j \in 2..Len(t.v) :
               j # i => \E k \in 2..Len(RemoveAt(t.v, i)) : RemoveAt(t.v, i)[k] = t.v[j]
      <4>1. Row(t.v, m) /\ t.v[1] = Sct(m.start, TableBytes) /\ i \in 1..Len(t.v) /\ i # 1
        BY <2>3, <2>4, <3>1 DEF Chain
      <4> QED
        BY <4>1, RemoveKeepsRow DEF Chain
    <3> QED
      BY <2>4, <3>2
  <2>7. u = [t EXCEPT !.v = RemoveAt(t.v, i)]
    BY <1>2, <1>4
  <2> DEFINE x == RemoveAt(t.v, i)
  <2>8. \A k \in 2..Len(t.v) :
          \/ \E j \in 2..Len(x) : x[j] = t.v[k]
          \/ t.v[k].size = size /\ k < Len(t.v) /\ t.v[k + 1].start = start
    <3> HIDE DEF x
    <3> SUFFICES ASSUME NEW k \in 2..Len(t.v), k = i
                 PROVE  t.v[k].size = size /\ k < Len(t.v) /\ t.v[k + 1].start = start
      BY <2>6 DEF x
    <3> QED
      BY <2>1, <2>2, <2>5
  <2> HIDE DEF x
  <2> QED
    BY <2>6, <2>7, <2>8 DEF x
<1> QED
  BY <1>3, <1>4

-----------------------------------------------------------------------------
\* HTMAlloc::ginit: an empty map, an empty table, no block.
LEMMA InitInv == Init => IInv
<1> SUFFICES ASSUME Init PROVE IInv
  OBVIOUS
<1>1. TypeOK
  <2>1. <<>> \in Seq(Section)
    OBVIOUS
  <2>2. taken \in Table
    BY <2>1 DEF Init, Table
  <2>3. live \in [Handles -> Section \cup {NoBlock}]
    BY DEF Init
  <2>4. Len(taken.v) <= taken.cap
    <3>1. Len(taken.v) = 0 /\ taken.cap = 0
      BY DEF Init
    <3> QED
      BY <3>1
  <2> QED
    BY <2>2, <2>3, <2>4, <2>1 DEF Init, TypeOK
<1>2. Closed /\ halted = FALSE
  BY DEF Init, Closed, Held
<1> QED
  BY <1>1, <1>2 DEF IInv

\* update opens the allocator with a table of one entry, its own.
LEMMA UpdateInv ==
  ASSUME IInv, NEW m \in Maps, CarefulUpdate(m)
  PROVE  IInv'
<1>1. mmap = <<>> /\ mmap' = m /\ live' = live /\ halted' = halted
  BY DEF CarefulUpdate, Update
<1>2. 1 \in TableHome(m) /\ Min(TableHome(m)) = 1
  <2>1. TableHome(m) \subseteq Nat
    BY MapFacts DEF TableHome
  <2> QED
    BY <2>1, MinInSet DEF CarefulUpdate
<1>3. m # <<>> /\ m \in Seq(Section) /\ 1 \in 1..Len(m) /\ m[1] \in Section
      /\ m[1].size >= TableBytes /\ m[1].start \in Nat
  BY <1>2, MapFacts DEF TableHome
<1>4. taken' = [ptr |-> m[1].start, cap |-> TableCap, v |-> <<Sct(m[1].start, TableBytes)>>]
  BY <1>2 DEF CarefulUpdate, Update
<1>5. Held = {} /\ TypeOK /\ halted = FALSE
  BY <1>1 DEF IInv, Closed, Opened
<1>6. Sct(m[1].start, TableBytes) \in Section
  BY <1>3, TableAssumption DEF Sct, Section
<1>7. TypeOK'
  <2>1. taken' \in Table /\ Len(taken'.v) = 1 /\ taken'.cap >= 1
    BY <1>3, <1>4, <1>6, TableAssumption DEF Table
  <2> QED
    BY <2>1, <1>1, <1>3, <1>5, TableAssumption DEF TypeOK, Table
<1>8. Chain(taken'.v, mmap'[1])
  <2> DEFINE v == <<Sct(m[1].start, TableBytes)>>
  <2>1. v \in Seq(Section) /\ Len(v) = 1 /\ v[1] = Sct(m[1].start, TableBytes) /\ v # <<>>
    BY <1>6
  <2>2. v[1].size > 0 /\ Within(v[1], m[1])
    BY <2>1, <1>3, TableAssumption DEF Sct, Within, Limit, Section
  <2>3. Chain(v, m[1])
    BY <2>1, <2>2 DEF Chain, Row
  <2> QED
    BY <2>3, <1>1, <1>4
<1>9. Held' = {}
  BY <1>1, <1>5 DEF Held
<1>10. Opened'
  BY <1>1, <1>3, <1>4, <1>8, <1>9 DEF Opened, LiveRecorded
<1> QED
  BY <1>1, <1>5, <1>7, <1>10 DEF IInv

(***************************************************************************)
(* Before update every request gets null.                                  *)
(***************************************************************************)
LEMMA ClosedAllocates ==
  ASSUME Closed, NEW size \in Sizes, NEW r \in AllocResults(taken, size)
  PROVE  r = [ptr |-> 0, table |-> taken]
<1>1. taken.v = <<>> /\ [taken EXCEPT !.v = taken.v] = taken
  BY DEF Closed
<1>2. Organized(taken.v) = {taken.v}
  BY <1>1 DEF Organized, Increasing
<1>3. r \in AllocOrganized(taken, size)
  BY <1>1, <1>2, Zenon DEF AllocResults
<1>4. NextAvailableSlot(taken.v, size) = 0
  BY <1>1 DEF NextAvailableSlot
<1> QED
  BY <1>3, <1>4 DEF AllocOrganized

\* What an open allocator's map, table and blocks look like.
LEMMA OpenedFacts ==
  ASSUME IInv, Opened
  PROVE  /\ mmap \in Maps /\ mmap # <<>> /\ mmap[1] \in Section /\ mmap[1].start > 0
         /\ taken \in Table /\ taken.ptr # 0 /\ taken.v # <<>>
         /\ \A h \in Held : live[h] \in Section
<1>1. 1 \in 1..Len(mmap)
  BY MapFacts DEF Opened
<1>2. mmap[1] \in Section /\ mmap[1].start > 0
  BY <1>1, MapFacts DEF Opened
<1>3. \A h \in Held : live[h] \in Section
  BY DEF IInv, TypeOK, Held
<1> QED
  BY <1>2, <1>3 DEF Opened, IInv, TypeOK, Chain, Section

\* What a step of alloc or realloc does to the blocks held.
Grants(h, size) ==
  \/ live' = live
  \/ \E b \in Section :
       /\ Opened /\ b.size = size /\ Within(b, mmap[1]) /\ Disjoint(b, taken.v[1])
       /\ \A k \in Held : Disjoint(b, live[k])
       /\ live' = [live EXCEPT ![h] = b]

\* alloc and alloc_zeroed keep the invariant and grant at most one block.
LEMMA AllocInv ==
  ASSUME IInv, NEW h \in Handles, NEW size \in Sizes, CarefulAlloc(h, size)
  PROVE  IInv' /\ Grants(h, size)
<1>1. PICK r \in AllocResults(taken, size) :
         /\ LeaveTable(r.table)
         /\ live' = IF r.ptr = 0 \/ halted' THEN live
                    ELSE [live EXCEPT ![h] = Sct(r.ptr, size)]
  BY DEF CarefulAlloc, Alloc
<1>2. mmap' = mmap /\ live[h] = NoBlock /\ HasRoom
  BY DEF CarefulAlloc, Alloc
<1>3. CASE Closed
  <2>1. r = [ptr |-> 0, table |-> taken]
    BY <1>3, ClosedAllocates
  <2>2. taken' = taken /\ live' = live /\ halted' = FALSE
    BY <2>1, <1>1, <1>3 DEF LeaveTable, Closed
  <2> QED
    BY <2>2, <1>2, <1>3 DEF IInv, TypeOK, Closed, Held, Grants
<1>4. CASE Opened
  <2>1. /\ mmap \in Maps /\ mmap # <<>> /\ mmap[1] \in Section
        /\ taken \in Table /\ taken.ptr # 0 /\ taken.v # <<>> /\ Chain(taken.v, mmap[1])
        /\ Len(taken.v) < taken.cap
    BY <1>2, <1>4, OpenedFacts DEF Opened, HasRoom
  <2>2. CASE r.ptr = 0
    <3>1. r.table = taken
      BY <2>1, <2>2, AllocIsSafe
    <3>2. taken' = taken /\ live' = live /\ halted' = FALSE
      BY <3>1, <2>1, <2>2, <1>1 DEF LeaveTable
    <3> QED
      BY <3>2, <1>2, <1>4 DEF IInv, TypeOK, Opened, Held, LiveRecorded, Grants
  <2>3. CASE r.ptr # 0
    <3> DEFINE b == Sct(r.ptr, size)
    <3>1. /\ b \in Section /\ Within(b, mmap[1])
          /\ \A i \in 1..Len(taken.v) : Disjoint(b, taken.v[i])
          /\ \E x : /\ r.table = [taken EXCEPT !.v = x] /\ Chain(x, mmap[1])
                    /\ Len(x) = Len(taken.v) + 1
                    /\ \A i \in 2..Len(taken.v) : \E j \in 2..Len(x) : x[j] = taken.v[i]
                    /\ \E j \in 2..Len(x) : x[j] = b
      <4>1. Granted(r, taken, size)
        BY <2>1, <2>3, AllocIsSafe
      <4> QED
        BY <4>1, Zenon DEF Granted
    <3>2. PICK x : /\ r.table = [taken EXCEPT !.v = x] /\ Chain(x, mmap[1])
                   /\ Len(x) = Len(taken.v) + 1
                   /\ \A i \in 2..Len(taken.v) : \E j \in 2..Len(x) : x[j] = taken.v[i]
                   /\ \E j \in 2..Len(x) : x[j] = b
      BY <3>1
    <3> HIDE DEF b
    <3>3. taken' = [taken EXCEPT !.v = x] /\ halted' = FALSE /\ live' = [live EXCEPT ![h] = b]
      BY <2>1, <2>3, <3>2, <1>1 DEF LeaveTable, Table, b
    <3>4. /\ taken'.ptr = taken.ptr /\ taken'.cap = taken.cap /\ taken'.v = x
          /\ taken' \in Table
      BY <2>1, <3>2, <3>3 DEF Table, Chain, Row
    <3>5. live \in [Handles -> Section \cup {NoBlock}] /\ b # NoBlock
      BY <3>1, NoBlockAssumption DEF IInv, TypeOK
    <3>6. /\ live' \in [Handles -> Section \cup {NoBlock}]
          /\ Held' = Held \cup {h} /\ h \notin Held
          /\ live'[h] = b /\ \A k \in Held : live'[k] = live[k] /\ k \in Handles
      BY <3>1, <3>3, <3>5, <1>2 DEF Held
    <3>7. TypeOK'
      <4>1. Len(taken'.v) <= taken'.cap
        BY <2>1, <3>2, <3>4 DEF Table
      <4> QED
        BY <4>1, <3>3, <3>4, <3>6, <1>2 DEF TypeOK, IInv
    <3>8. \A k \in Held : Disjoint(b, live[k])
      <4> SUFFICES ASSUME NEW k \in Held PROVE Disjoint(b, live[k])
        OBVIOUS
      <4>1. PICK i \in 2..Len(taken.v) : taken.v[i] = live[k]
        BY <1>4 DEF Opened, LiveRecorded
      <4> QED
        BY <4>1, <3>1
    <3>9. \A k, l \in Held' : k # l => Disjoint(live'[k], live'[l])
      BY <3>6, <3>8, <1>4 DEF Opened, Disjoint
    <3>10. \A k \in Held' : \E j \in 2..Len(x) : x[j] = live'[k]
      <4> SUFFICES ASSUME NEW k \in Held' PROVE \E j \in 2..Len(x) : x[j] = live'[k]
        OBVIOUS
      <4>1. CASE k = h
        BY <4>1, <3>2, <3>6
      <4>2. CASE k # h
        <5>1. k \in Held /\ live'[k] = live[k]
          BY <4>2, <3>6
        <5>2. PICK i \in 2..Len(taken.v) : taken.v[i] = live[k]
          BY <5>1, <1>4 DEF Opened, LiveRecorded
        <5> QED
          BY <5>1, <5>2, <3>2
      <4> QED
        BY <4>1, <4>2
    <3>11. Opened'
      BY <3>2, <3>4, <3>9, <3>10, <1>2, <1>4 DEF Opened, LiveRecorded
    <3>12. Grants(h, size)
      <4>1. b.size = size
        BY DEF b, Sct
      <4>2. Disjoint(b, taken.v[1])
        BY <2>1, <3>1, ChainFacts
      <4> QED
        BY <4>1, <4>2, <3>1, <3>3, <3>8, <1>4 DEF Grants
    <3> QED
      BY <3>3, <3>7, <3>11, <3>12 DEF IInv
  <2> QED
    BY <2>2, <2>3
<1> QED
  BY <1>3, <1>4 DEF IInv

(***************************************************************************)
(* dealloc of the only block of its size leaves the entries of all other   *)
(* blocks: the entry it drops is none of theirs.                           *)
(***************************************************************************)
LEMMA EntriesSurvive ==
  ASSUME NEW v, NEW b, NEW c, b.size # c.size, \E i \in 2..Len(v) : v[i] = b,
         NEW x, \A i \in 2..Len(v) :
           \/ \E j \in 2..Len(x) : x[j] = v[i]
           \/ v[i].size = c.size /\ i < Len(v) /\ v[i + 1].start = c.start
  PROVE  \E j \in 2..Len(x) : x[j] = b
<1>1. PICK i \in 2..Len(v) : v[i] = b
  OBVIOUS
<1> QED
  BY <1>1

(***************************************************************************)
(* No two neighbours of a chain start at the same address.                 *)
(***************************************************************************)
LEMMA NextStartsLater ==
  ASSUME NEW m \in Section, NEW v, Chain(v, m), NEW i \in 1..Len(v), i < Len(v)
  PROVE  v[i + 1].start # v[i].start
<1>1. i + 1 \in 1..Len(v) /\ i < i + 1
  BY ChainFacts
<1>2. Limit(v[i]) <= v[i + 1].start /\ v[i].start < Limit(v[i])
      /\ v[i].start \in Nat /\ Limit(v[i]) \in Nat /\ v[i + 1].start \in Nat
  BY <1>1, ChainFacts
<1> QED
  BY <1>2

\* dealloc keeps the invariant when no other block has the size freed.
LEMMA DeallocInv ==
  ASSUME IInv, NEW h \in Handles, CarefulDealloc(h)
  PROVE  IInv'
<1>1. /\ h \in Held /\ OnlyOfItsSize(h) /\ mmap' = mmap /\ halted' = halted
      /\ live' = [live EXCEPT ![h] = NoBlock]
      /\ taken' \in DeallocResults(taken, live[h].start, live[h].size)
  BY DEF CarefulDealloc, Dealloc
<1>2. Opened /\ TypeOK /\ halted = FALSE
  BY <1>1 DEF IInv, Closed
<1>3. /\ mmap[1] \in Section /\ taken \in Table /\ Chain(taken.v, mmap[1])
      /\ live[h].size # TableBytes
  BY <1>1, <1>2, OpenedFacts DEF Opened, OnlyOfItsSize
<1>4. PICK x : /\ taken' = [taken EXCEPT !.v = x] /\ Chain(x, mmap[1])
               /\ Len(x) <= Len(taken.v)
               /\ \A i \in 2..Len(taken.v) :
                    \/ \E j \in 2..Len(x) : x[j] = taken.v[i]
                    \/ /\ taken.v[i].size = live[h].size /\ i < Len(taken.v)
                       /\ taken.v[i + 1].start = live[h].start
  BY <1>1, <1>3, DeallocIsSafe, SMTT(40)
<1>5. /\ taken'.ptr = taken.ptr /\ taken'.cap = taken.cap /\ taken'.v = x /\ taken' \in Table
  BY <1>3, <1>4 DEF Table, Chain, Row
<1>6. /\ live' \in [Handles -> Section \cup {NoBlock}]
      /\ Held' = Held \ {h} /\ \A k \in Held' : live'[k] = live[k] /\ k \in Held /\ k # h
  BY <1>1, <1>2 DEF Held, TypeOK
<1>7. TypeOK'
  <2>1. Len(taken'.v) <= taken'.cap
    BY <1>2, <1>3, <1>4, <1>5 DEF TypeOK, Table, Chain
  <2> QED
    BY <2>1, <1>1, <1>2, <1>5, <1>6 DEF TypeOK
<1>8. \A k \in Held' : \E j \in 2..Len(x) : x[j] = live'[k]
  <2> SUFFICES ASSUME NEW k \in Held' PROVE \E j \in 2..Len(x) : x[j] = live[k]
    BY <1>6
  <2>1. k \in Held /\ k # h
    BY <1>6
  <2>2. \E i \in 2..Len(taken.v) : taken.v[i] = live[k]
    BY <2>1, <1>2 DEF Opened, LiveRecorded
  <2>3. live[k].size # live[h].size
    BY <2>1, <1>1 DEF OnlyOfItsSize
  <2> QED
    BY <2>2, <2>3, <1>4, EntriesSurvive
<1>9. \A k, l \in Held' : k # l => Disjoint(live'[k], live'[l])
  BY <1>2, <1>6 DEF Opened
<1>10. Opened'
  BY <1>1, <1>2, <1>4, <1>5, <1>8, <1>9 DEF Opened, LiveRecorded
<1> QED
  BY <1>1, <1>2, <1>7, <1>10 DEF IInv

(***************************************************************************)
(* realloc to a size no entry has never grows in place: nothing is         *)
(* available behind any block.  It allocates, and frees the old block.     *)
(***************************************************************************)
LEMMA ReallocInv ==
  ASSUME IInv, NEW h \in Handles, NEW size \in Sizes, CarefulRealloc(h, size)
  PROVE  IInv' /\ Grants(h, size)
<1>1. /\ h \in Held /\ OnlyOfItsSize(h) /\ HasRoom /\ mmap' = mmap
      /\ live[h].size < size
  BY DEF CarefulRealloc, ReallocMove
<1>2. Opened /\ TypeOK /\ halted = FALSE
  BY <1>1 DEF IInv, Closed
<1>3. /\ mmap \in Maps /\ mmap # <<>> /\ mmap[1] \in Section
      /\ taken \in Table /\ taken.ptr # 0 /\ taken.v # <<>> /\ Chain(taken.v, mmap[1])
      /\ Len(taken.v) < taken.cap /\ live[h].size # TableBytes
      /\ \A k \in Held : live[k] \in Section
  BY <1>1, <1>2, OpenedFacts DEF Opened, HasRoom, OnlyOfItsSize
<1>4. Organized(taken.v) = {taken.v} /\ [taken EXCEPT !.v = taken.v] = taken
  BY <1>3, RowIsOrganized DEF Table, Chain
<1>5. PICK r \in AllocResults(taken, size) :
        /\ IF r.table.ptr = 0 THEN LeaveTable(r.table)
           ELSE \E t \in DeallocResults(r.table, live[h].start, live[h].size) : LeaveTable(t)
        /\ live' = IF r.ptr = 0 \/ halted' THEN live
                   ELSE [live EXCEPT ![h] = Sct(r.ptr, size)]
  BY <1>4 DEF CarefulRealloc, ReallocMove
<1> DEFINE old == live[h]
           Dropped(v, x) ==
             \A i \in 2..Len(v) :
               \/ \E j \in 2..Len(x) : x[j] = v[i]
               \/ v[i].size = old.size /\ i < Len(v) /\ v[i + 1].start = old.start
<1>6. CASE r.ptr = 0
  <2>1. r.table = taken
    BY <1>3, <1>6, AllocIsSafe
  <2>2. PICK t \in DeallocResults(taken, old.start, old.size) : LeaveTable(t)
    BY <2>1, <1>3, <1>5
  <2>3. PICK x : /\ t = [taken EXCEPT !.v = x] /\ Chain(x, mmap[1]) /\ Dropped(taken.v, x)
                 /\ Len(x) <= Len(taken.v)
    BY <1>3, <2>2, DeallocIsSafe
  <2>4. taken' = t /\ taken'.ptr = taken.ptr /\ taken'.cap = taken.cap /\ taken'.v = x
        /\ taken' \in Table /\ halted' = FALSE
    BY <1>3, <2>2, <2>3 DEF LeaveTable, Table, Chain, Row
  <2>5. live' = live /\ Held' = Held
    BY <1>5, <1>6 DEF Held
  <2>6. \A k \in Held : \E j \in 2..Len(x) : x[j] = live[k]
    <3> SUFFICES ASSUME NEW k \in Held PROVE \E j \in 2..Len(x) : x[j] = live[k]
      OBVIOUS
    <3>1. \E i \in 2..Len(taken.v) : taken.v[i] = live[k]
      BY <1>2 DEF Opened, LiveRecorded
    <3>2. CASE k = h
      <4>1. PICK i \in 2..Len(taken.v) : taken.v[i] = live[k]
        BY <3>1
      <4>2. i < Len(taken.v) => taken.v[i + 1].start # old.start
        <5>1. i \in 1..Len(taken.v)
          OBVIOUS
        <5>2. i < Len(taken.v) => taken.v[i + 1].start # taken.v[i].start
          BY <5>1, <1>3, NextStartsLater
        <5> QED
          BY <5>2, <4>1, <3>2
      <4> QED
        BY <4>1, <4>2, <2>3
    <3>3. CASE k # h
      <4>1. live[k].size # old.size
        BY <3>3, <1>1 DEF OnlyOfItsSize
      <4> QED
        BY <4>1, <3>1, <2>3, EntriesSurvive
    <3> QED
      BY <3>2, <3>3
  <2>7. Opened'
    BY <2>3, <2>4, <2>5, <2>6, <1>1, <1>2 DEF Opened, LiveRecorded
  <2>8. Len(taken'.v) <= taken'.cap
    BY <2>3, <2>4, <1>3 DEF Table, Chain
  <2> QED
    BY <2>4, <2>5, <2>7, <2>8, <1>1, <1>2 DEF IInv, TypeOK, Grants
<1>7. CASE r.ptr # 0
  <2> DEFINE b == Sct(r.ptr, size)
  <2>1. Granted(r, taken, size)
    BY <1>3, <1>7, AllocIsSafe
  <2>2. /\ b \in Section /\ Within(b, mmap[1])
        /\ \A i \in 1..Len(taken.v) : Disjoint(b, taken.v[i])
        /\ \E x : /\ r.table = [taken EXCEPT !.v = x] /\ Chain(x, mmap[1])
                  /\ Len(x) = Len(taken.v) + 1
                  /\ \A i \in 2..Len(taken.v) : \E j \in 2..Len(x) : x[j] = taken.v[i]
                  /\ \E j \in 2..Len(x) : x[j] = b
    BY <2>1, Zenon DEF Granted
  <2>3. PICK y : /\ r.table = [taken EXCEPT !.v = y] /\ Chain(y, mmap[1])
                 /\ Len(y) = Len(taken.v) + 1
                 /\ \A i \in 2..Len(taken.v) : \E j \in 2..Len(y) : y[j] = taken.v[i]
                 /\ \E j \in 2..Len(y) : y[j] = b
    BY <2>2
  <2>4. b.size = size
    BY DEF Sct
  <2> HIDE DEF b
  <2>5. /\ r.table \in Table /\ r.table.v = y /\ r.table.ptr = taken.ptr
        /\ r.table.cap = taken.cap
    BY <1>3, <2>3 DEF Table, Chain, Row
  <2>6. PICK t \in DeallocResults(r.table, old.start, old.size) : LeaveTable(t)
    BY <2>5, <1>3, <1>5
  <2>7. PICK x : /\ t = [r.table EXCEPT !.v = x] /\ Chain(x, mmap[1]) /\ Dropped(y, x)
                 /\ Len(x) <= Len(y)
    <3>1. Chain(r.table.v, mmap[1])
      BY <2>3, <2>5
    <3>2. PICK x : /\ t = [r.table EXCEPT !.v = x] /\ Chain(x, mmap[1])
                   /\ Dropped(r.table.v, x) /\ Len(x) <= Len(r.table.v)
      <4> HIDE DEF old
      <4> QED
        BY <3>1, <2>5, <2>6, <1>3, DeallocIsSafe, SMTT(40) DEF old
    <3> QED
      BY <3>2, <2>5
  <2>8. /\ taken'.ptr = taken.ptr /\ taken'.cap = taken.cap /\ taken'.v = x
        /\ taken' \in Table /\ halted' = FALSE
    BY <1>3, <2>5, <2>6, <2>7 DEF LeaveTable, Table, Chain, Row
  <2>9. live' = [live EXCEPT ![h] = b] /\ b # NoBlock
    BY <1>5, <1>7, <2>2, <2>8, NoBlockAssumption DEF b
  <2>10. /\ live' \in [Handles -> Section \cup {NoBlock}] /\ Held' = Held
         /\ live'[h] = b /\ \A k \in Held : k # h => live'[k] = live[k]
    BY <2>2, <2>9, <1>1, <1>2 DEF Held, TypeOK
  <2>11. \A k \in Held : \E j \in 2..Len(x) : x[j] = live'[k]
    <3> SUFFICES ASSUME NEW k \in Held PROVE \E j \in 2..Len(x) : x[j] = live'[k]
      OBVIOUS
    <3>1. CASE k = h
      <4>1. b.size # old.size
        BY <2>4, <1>1, <1>3, SizesAssumption DEF Section
      <4> QED
        BY <3>1, <4>1, <2>3, <2>7, <2>10, EntriesSurvive
    <3>2. CASE k # h
      <4>1. live[k].size # old.size
        BY <3>2, <1>1 DEF OnlyOfItsSize
      <4>2. PICK i \in 2..Len(taken.v) : taken.v[i] = live[k]
        BY <1>2 DEF Opened, LiveRecorded
      <4>3. \E j \in 2..Len(y) : y[j] = live[k]
        BY <4>2, <2>3
      <4> QED
        BY <3>2, <4>1, <4>3, <2>7, <2>10, EntriesSurvive
    <3> QED
      BY <3>1, <3>2
  <2>12. \A k \in Held : Disjoint(b, live[k])
    <3> SUFFICES ASSUME NEW k \in Held PROVE Disjoint(b, live[k])
      OBVIOUS
    <3>1. PICK i \in 2..Len(taken.v) : taken.v[i] = live[k]
      BY <1>2 DEF Opened, LiveRecorded
    <3> QED
      BY <3>1, <2>2
  <2>13. \A k, l \in Held : k # l => Disjoint(live'[k], live'[l])
    BY <2>10, <2>12, <1>2 DEF Opened, Disjoint
  <2>14. Opened'
    BY <2>7, <2>8, <2>10, <2>11, <2>13, <1>1, <1>2 DEF Opened, LiveRecorded
  <2> QED
    <3>1. IInv'
      <4>1. Len(taken'.v) <= taken'.cap
        <5>1. /\ Len(taken'.v) \in Nat /\ Len(y) \in Nat /\ Len(taken.v) \in Nat
              /\ taken.cap \in Nat
          BY <2>3, <2>8, <1>3 DEF Table, Chain
        <5> QED
          BY <5>1, <2>3, <2>7, <2>8, <1>3
      <4> QED
        BY <4>1, <2>8, <2>10, <2>14, <1>1, <1>2 DEF IInv, TypeOK
    <3>2. Disjoint(b, taken.v[1])
      BY <1>3, <2>2, ChainFacts
    <3> QED
      BY <3>1, <3>2, <2>2, <2>4, <2>9, <2>12, <1>2 DEF Grants
<1> QED
  BY <1>6, <1>7

-----------------------------------------------------------------------------
\* Every step of careful clients keeps the invariant.
LEMMA StepInv == IInv /\ [CarefulNext]_vars => IInv'
<1> SUFFICES ASSUME IInv, [CarefulNext]_vars PROVE IInv'
  OBVIOUS
<1>1. CASE UNCHANGED vars
  BY <1>1 DEF vars, IInv, TypeOK, Closed, Opened, Held, LiveRecorded
<1>2. ASSUME NEW m \in Maps, CarefulUpdate(m) PROVE IInv'
  BY <1>2, UpdateInv
<1>3. ASSUME NEW h \in Handles, NEW size \in Sizes, CarefulAlloc(h, size) PROVE IInv'
  BY <1>3, AllocInv
<1>4. ASSUME NEW h \in Handles, NEW size \in Sizes, CarefulRealloc(h, size) PROVE IInv'
  BY <1>4, ReallocInv
<1>5. ASSUME NEW h \in Handles, CarefulDealloc(h) PROVE IInv'
  BY <1>5, DeallocInv
<1> QED
  BY <1>1, <1>2, <1>3, <1>4, <1>5 DEF CarefulNext

\* The invariant holds in every state careful clients reach.
LEMMA CarefulInvariant == CarefulSpec => []IInv
BY InitInv, StepInv, PTL DEF CarefulSpec

(***************************************************************************)
(* What the invariant says.                                                *)
(***************************************************************************)
LEMMA TableEntry ==
  ASSUME IInv, Opened
  PROVE  /\ taken.v[1] = TableBuffer(taken) /\ taken.v # <<>>
         /\ TableBuffer(taken) \in Section
         /\ TableBuffer(taken).start = mmap[1].start
         /\ Limit(TableBuffer(taken)) \in Nat
         /\ mmap[1].start < Limit(TableBuffer(taken))
         /\ Limit(TableBuffer(taken)) <= Limit(mmap[1])
<1>1. taken.cap * EntryBytes = TableBytes
  BY TableAssumption DEF Opened, TableBytes
<1>2. taken.v[1] = TableBuffer(taken)
  BY <1>1 DEF Opened, Chain, TableBuffer
<1>3. mmap[1] \in Section /\ Chain(taken.v, mmap[1])
  BY OpenedFacts DEF Opened
<1>4. 1 \in 1..Len(taken.v)
  BY <1>3, ChainFacts
<1>5. /\ taken.v[1] \in Section /\ Limit(taken.v[1]) \in Nat
      /\ Limit(taken.v[1]) <= Limit(mmap[1]) /\ taken.v[1].start < Limit(taken.v[1])
  BY <1>3, <1>4, ChainFacts
<1>6. taken.v[1].start = mmap[1].start
  BY <1>3 DEF Chain, Sct
<1> QED
  BY <1>2, <1>3, <1>5, <1>6 DEF Chain

\* The invariant implies the properties of the runs.
LEMMA InvImpliesSafe == IInv => LiveDisjoint /\ LiveRecorded /\ HeadIsTable
<1> SUFFICES ASSUME IInv PROVE LiveDisjoint /\ LiveRecorded /\ HeadIsTable
  OBVIOUS
<1>1. CASE Closed
  BY <1>1 DEF Closed, LiveDisjoint, LiveRecorded, HeadIsTable, Sane
<1>2. CASE Opened
  <2>1. HeadIsTable
    BY <1>2, TableEntry DEF HeadIsTable
  <2>2. Sane
    <3> SUFFICES ASSUME NEW h \in Held PROVE Disjoint(live[h], TableBuffer(taken))
      BY DEF Sane, Overlies
    <3>1. PICK i \in 2..Len(taken.v) : taken.v[i] = live[h]
      BY <1>2 DEF Opened, LiveRecorded
    <3>2. 1 \in 1..Len(taken.v) /\ i \in 1..Len(taken.v) /\ 1 < i
      BY <1>2, OpenedFacts, ChainFacts DEF Opened
    <3>3. Limit(taken.v[1]) <= taken.v[i].start
      BY <3>2, <1>2 DEF Opened, Chain, Row
    <3> QED
      BY <3>1, <3>3, <1>2, TableEntry DEF Disjoint
  <2> QED
    BY <2>1, <2>2, <1>2 DEF Opened, LiveDisjoint
<1> QED
  BY <1>1, <1>2 DEF IInv

-----------------------------------------------------------------------------
\* The state always has its type, and the kernel never panics in the allocator
\* (Vec::push never finds the table full, update never misses a section).
THEOREM TypeCorrect == CarefulSpec => [](TypeOK /\ halted = FALSE)
<1>1. IInv => TypeOK /\ halted = FALSE
  BY DEF IInv
<1> QED
  BY <1>1, CarefulInvariant, PTL

\* Blocks held by careful clients of alloc, dealloc and realloc share no byte
\* with one another or with the table.
THEOREM BlocksDisjoint == CarefulSpec => []LiveDisjoint
BY CarefulInvariant, InvImpliesSafe, PTL

\* Every block held is recorded: the entry dealloc drops by mistake, the one
\* before the block's own, is never that of another block still held.
THEOREM BlocksRecorded == CarefulSpec => []LiveRecorded
BY CarefulInvariant, InvImpliesSafe, PTL

\* The first entry of the table is always the memory of the table itself.
THEOREM HeadStays == CarefulSpec => []HeadIsTable
BY CarefulInvariant, InvImpliesSafe, PTL

-----------------------------------------------------------------------------
(***************************************************************************)
(* The refinement.  The arena stays what it is once update has made it.    *)
(***************************************************************************)
LEMMA ArenaFacts ==
  ASSUME IInv, Opened
  PROVE  /\ Arena \in Section /\ Arena # NoBlock
         /\ Arena.start = Limit(taken.v[1]) /\ Limit(Arena) = Limit(mmap[1])
<1>1. /\ Limit(TableBuffer(taken)) \in Nat /\ taken.v # <<>>
      /\ Limit(TableBuffer(taken)) <= Limit(mmap[1])
      /\ taken.v[1] = TableBuffer(taken)
  BY TableEntry
<1>2. Limit(mmap[1]) \in Nat
  BY OpenedFacts DEF Limit, Section
<1>3. Arena = Sct(Limit(TableBuffer(taken)), Limit(mmap[1]) - Limit(TableBuffer(taken)))
  BY <1>1 DEF Arena
<1>4. Limit(mmap[1]) - Limit(TableBuffer(taken)) \in Nat
  BY <1>1, <1>2
<1>5. Arena \in Section /\ Arena.start = Limit(TableBuffer(taken))
      /\ Arena.size = Limit(mmap[1]) - Limit(TableBuffer(taken))
  BY <1>1, <1>3, <1>4 DEF Sct, Section
<1>6. Arena.start + Arena.size = Limit(mmap[1])
  BY <1>1, <1>2, <1>5
<1> QED
  BY <1>1, <1>5, <1>6, NoBlockAssumption DEF Limit

\* Once open, the arena is what the table leaves of the lowest section.
LEMMA ArenaStays ==
  ASSUME IInv, IInv', mmap' = mmap, Opened, Opened'
  PROVE  Arena' = Arena
<1>1. taken'.ptr = taken.ptr /\ taken'.cap = taken.cap /\ taken.v # <<>> /\ taken'.v # <<>>
  BY DEF Opened, Chain
<1>2. TableBuffer(taken)' = TableBuffer(taken)
  BY <1>1 DEF TableBuffer
<1> QED
  BY <1>1, <1>2 DEF Arena

\* Once open, the allocator stays open.
LEMMA OpenStays ==
  ASSUME IInv', mmap' = mmap, mmap # <<>>
  PROVE  Opened'
BY DEF IInv, Closed

\* Before update there is no arena.
LEMMA ClosedStays ==
  ASSUME IInv, IInv', mmap' = mmap, mmap = <<>>
  PROVE  Arena' = NoBlock /\ Arena = NoBlock /\ Held = {} /\ Held' = {}
BY DEF IInv, Closed, Opened, Arena

\* A grant is what Allocator may do to the blocks of a handle.
LEMMA GrantRefines ==
  ASSUME IInv, IInv', mmap' = mmap, NEW h \in Handles, NEW size \in Sizes, Grants(h, size)
  PROVE  \/ Arena' = Arena /\ live' = live
         \/ Promise!Acquire(h) \/ Promise!Move(h)
<1>1. CASE live' = live
  <2>1. CASE mmap = <<>>
    BY <2>1, <1>1, ClosedStays
  <2>2. CASE mmap # <<>>
    <3>1. Opened /\ Opened'
      BY <2>2, OpenStays DEF IInv, Closed
    <3> QED
      BY <3>1, <1>1, ArenaStays
  <2> QED
    BY <2>1, <2>2
<1>2. CASE live' # live
  <2>1. Opened
    BY <1>2 DEF Grants
  <2>2. PICK b \in Section :
          /\ b.size = size /\ Within(b, mmap[1]) /\ Disjoint(b, taken.v[1])
          /\ \A k \in Held : Disjoint(b, live[k])
          /\ live' = [live EXCEPT ![h] = b]
    BY <1>2 DEF Grants
  <2>3. Opened'
    BY <2>1, OpenStays DEF Opened
  <2>4. Arena' = Arena
    BY <2>1, <2>3, ArenaStays
  <2>5. Arena # NoBlock /\ Within(b, Arena)
    <3>1. /\ taken.v[1].start = mmap[1].start /\ taken.v[1] \in Section
          /\ Limit(taken.v[1]) \in Nat /\ mmap[1].start < Limit(taken.v[1])
      BY <2>1, TableEntry
    <3>2. b.start \in Nat /\ b.size > 0 /\ b.size \in Nat
      BY <2>2, SizesAssumption DEF Section
    <3>3. Limit(b) > b.start /\ Limit(b) \in Nat /\ mmap[1].start <= b.start
      BY <2>2, <3>2 DEF Limit, Within
    <3>4. Limit(taken.v[1]) <= b.start
      BY <2>2, <3>1, <3>2, <3>3 DEF Disjoint, Section
    <3> QED
      BY <2>1, <2>2, <3>4, ArenaFacts DEF Within
  <2>6. live \in [Handles -> Section \cup {NoBlock}]
    BY DEF IInv, TypeOK
  <2>7. live'[h] = b
    BY <2>2, <2>6
  <2>8. Promise!Free(b)
    BY <2>2, <2>5 DEF Promise!Free, Held, Promise!Within, Promise!Disjoint, Promise!Limit,
      Within, Disjoint, Limit
  <2>9. CASE live[h] = NoBlock
    BY <2>2, <2>4, <2>5, <2>7, <2>8, <2>9 DEF Promise!Acquire, Promise!Section, Section
  <2>10. CASE live[h] # NoBlock
    BY <2>2, <2>4, <2>5, <2>7, <2>8, <2>10 DEF Promise!Move, Promise!Section, Section
  <2> QED
    BY <2>9, <2>10
<1> QED
  BY <1>1, <1>2

\* The initial states are those of Allocator.
LEMMA RefineInit == Init => Promise!Init
BY DEF Init, Promise!Init, Arena

\* Every step is one of Allocator, or changes neither arena nor blocks.
LEMMA RefineStep ==
  IInv /\ IInv' /\ [CarefulNext]_vars => [Promise!Next]_<<Arena, live>>
<1> SUFFICES ASSUME IInv, IInv', [CarefulNext]_vars
             PROVE  Promise!Next \/ (Arena' = Arena /\ live' = live)
  OBVIOUS
<1>1. CASE UNCHANGED vars
  BY <1>1 DEF vars, Arena, TableBuffer
<1>2. ASSUME NEW m \in Maps, CarefulUpdate(m) PROVE Promise!Next
  <2>1. mmap = <<>> /\ live' = live /\ taken'.v # <<>>
    BY <1>2, TableAssumption DEF CarefulUpdate, Update
  <2>2. taken.v = <<>> /\ Arena = NoBlock
    BY <2>1 DEF IInv, Closed, Opened, Arena
  <2>3. /\ mmap' = m /\ 1 \in 1..Len(m) /\ m[1].size >= TableBytes
        /\ taken' = [ptr |-> m[1].start, cap |-> TableCap, v |-> <<Sct(m[1].start, TableBytes)>>]
    <3>1. TableHome(m) \subseteq Nat
      BY MapFacts DEF TableHome
    <3>2. 1 \in TableHome(m) /\ Min(TableHome(m)) = 1
      BY <1>2, <3>1, MinInSet DEF CarefulUpdate
    <3> QED
      BY <1>2, <3>2, MapFacts DEF CarefulUpdate, Update, TableHome
  <2>4. m[1] \in Section
    BY <2>3, MapFacts
  <2>5. TableBuffer(taken)' = Sct(m[1].start, TableBytes)
    BY <2>3, TableAssumption DEF TableBuffer, TableBytes
  <2>6. Arena' = Sct(m[1].start + TableBytes, Limit(m[1]) - (m[1].start + TableBytes))
    BY <2>1, <2>3, <2>5 DEF Arena, Limit, Sct
  <2>7. Limit(m[1]) - (m[1].start + TableBytes) \in Nat /\ m[1].start + TableBytes \in Nat
    BY <2>3, <2>4, TableAssumption DEF Limit, Section
  <2>8. Arena' \in Section
    BY <2>6, <2>7 DEF Sct, Section
  <2> QED
    BY <2>1, <2>2, <2>8 DEF Promise!Next, Promise!Open, Promise!Section, Section
<1>3. ASSUME NEW h \in Handles, NEW size \in Sizes, CarefulAlloc(h, size)
      PROVE  Promise!Next \/ (Arena' = Arena /\ live' = live)
  <2>1. Grants(h, size) /\ mmap' = mmap
    BY <1>3, AllocInv DEF CarefulAlloc, Alloc
  <2> QED
    BY <2>1, GrantRefines DEF Promise!Next
<1>4. ASSUME NEW h \in Handles, NEW size \in Sizes, CarefulRealloc(h, size)
      PROVE  Promise!Next \/ (Arena' = Arena /\ live' = live)
  <2>1. Grants(h, size) /\ mmap' = mmap
    BY <1>4, ReallocInv DEF CarefulRealloc, ReallocMove
  <2> QED
    BY <2>1, GrantRefines DEF Promise!Next
<1>5. ASSUME NEW h \in Handles, CarefulDealloc(h) PROVE Promise!Next
  <2>1. /\ live[h] # NoBlock /\ live' = [live EXCEPT ![h] = NoBlock] /\ mmap' = mmap
    BY <1>5 DEF CarefulDealloc, Dealloc, Held
  <2>2. Opened
    BY <2>1 DEF IInv, Closed, Held
  <2>3. Opened'
    BY <2>1, <2>2, OpenStays DEF Opened
  <2>4. Arena' = Arena
    BY <2>1, <2>2, <2>3, ArenaStays
  <2> QED
    BY <2>1, <2>4 DEF Promise!Next, Promise!Release
<1> QED
  BY <1>1, <1>2, <1>3, <1>4, <1>5 DEF CarefulNext

\* alloc, dealloc and realloc in the hands of careful clients implement
\* Allocator: every step takes a free block, gives one back, or moves one.
THEOREM PromiseKept == CarefulSpec => KeepsPromise
<1>1. CarefulSpec => []IInv
  BY CarefulInvariant
<1> QED
  BY <1>1, RefineInit, RefineStep, PTL DEF CarefulSpec, KeepsPromise, Promise!Spec

-----------------------------------------------------------------------------
(***************************************************************************)
(* First fit is complete.  A free stretch lies behind a last entry that    *)
(* ends below it; the gap behind that entry is as long, or longer.         *)
(***************************************************************************)
LEMMA RoomIsFound ==
  ASSUME mmap \in Maps, mmap # <<>>, NEW v, Chain(v, mmap[1]), NEW size \in Sizes,
         RoomIn(mmap[1], v, size)
  PROVE  NextAvailableSlot(v, size) # 0
<1> DEFINE gaps == {i \in 1..Len(v) - 1 : /\ Add(End(v[i]), size) <= v[i + 1].start
                                          /\ ValidMemoryCheck(End(v[i]), size)}
           last == End(v[Len(v)])
           m == mmap[1]
<1>1. /\ m \in Section /\ Limit(m) + size < UsizeBound /\ Limit(m) \in Nat
      /\ size \in Nat /\ size > 0
      /\ \A i \in 1..Len(v) : /\ End(v[i]) = Limit(v[i]) /\ Limit(v[i]) \in Nat
                              /\ m.start <= Limit(v[i]) /\ 0 < Limit(v[i])
                              /\ Limit(v[i]) <= Limit(m)
  BY RowEnds DEF Chain
<1>2. v # <<>> /\ Len(v) \in Nat /\ Len(v) >= 1 /\ DOMAIN v = 1..Len(v)
  BY <1>1, ChainFacts DEF Chain
<1>3. \A i \in 1..Len(v) : v[i].start \in Nat /\ v[i].start < Limit(v[i])
  BY <1>1, ChainFacts
<1>4. PICK a \in m.start..Limit(m) :
        /\ Within(Sct(a, size), m)
        /\ \A i \in DOMAIN v : Disjoint(Sct(a, size), v[i])
  BY DEF RoomIn
<1>5. a \in Nat /\ m.start \in Nat /\ m.start <= a /\ a + size <= Limit(m)
      /\ \A i \in 1..Len(v) : a + size <= v[i].start \/ Limit(v[i]) <= a
  <2>1. m.start \in Nat /\ a \in Nat /\ m.start <= a
    BY <1>1 DEF Section
  <2>2. Limit(Sct(a, size)) = a + size /\ Sct(a, size).start = a
    BY DEF Limit, Sct
  <2>3. a + size <= Limit(m)
    BY <2>2, <1>4 DEF Within
  <2>4. \A i \in 1..Len(v) : a + size <= v[i].start \/ Limit(v[i]) <= a
    BY <2>2, <1>2, <1>4 DEF Disjoint
  <2> QED
    BY <2>1, <2>3, <2>4
<1>6. v[1].start = m.start /\ 1 \in 1..Len(v)
  BY <1>2 DEF Chain, Sct
<1>7. Limit(v[1]) <= a
  BY <1>1, <1>5, <1>6
<1>g. \A i \in gaps : i \in 1..Len(v)
  BY <1>2
<1>8. CASE \A j \in 1..Len(v) : Limit(v[j]) <= a
  <2>1. Len(v) \in 1..Len(v) /\ last = Limit(v[Len(v)])
    BY <1>1, <1>2
  <2>2. Limit(v[Len(v)]) <= a
    BY <2>1, <1>8
  <2>3. last \in Nat /\ 0 < last /\ m.start <= last /\ last <= Limit(m)
        /\ last + size <= Limit(m)
    BY <2>1, <2>2, <1>1, <1>5
  <2>4. ValidMemoryCheck(last, size)
    BY <2>3, ValidInFirst
  <2>5. CASE gaps = {}
    BY <2>3, <2>4, <2>5, <1>2 DEF NextAvailableSlot
  <2>6. CASE gaps # {}
    <3>1. Min(gaps) \in gaps
      <4>1. gaps \subseteq Nat
        BY <1>2
      <4> HIDE DEF gaps
      <4> QED
        BY <4>1, <2>6, MinInSet
    <3>2. End(v[Min(gaps)]) # 0
      <4> HIDE DEF gaps
      <4>1. Min(gaps) \in 1..Len(v)
        BY <3>1, <1>g, Zenon
      <4> QED
        BY <4>1, <1>1
    <3> QED
      BY <3>2, <2>6, <1>2, Zenon DEF NextAvailableSlot
  <2> QED
    BY <2>5, <2>6
<1>9. CASE \E j \in 1..Len(v) : ~(Limit(v[j]) <= a)
  <2> DEFINE Above == {j \in 1..Len(v) : ~(Limit(v[j]) <= a)}
             k == Min(Above)
  <2>1. k \in Above /\ \A j \in Above : k <= j
    <3>1. Above \subseteq Nat /\ Above # {}
      BY <1>9, <1>2
    <3> HIDE DEF Above
    <3> QED
      BY <3>1, MinInSet
  <2>2. k \in 1..Len(v) /\ k # 1 /\ k - 1 \in 1..Len(v) /\ k - 1 \in 1..Len(v) - 1
        /\ a + size <= v[k].start
    <3>1. k \in 1..Len(v) /\ ~(Limit(v[k]) <= a)
      BY <2>1
    <3>2. k # 1
      BY <3>1, <1>7
    <3> HIDE DEF k
    <3> QED
      BY <3>1, <3>2, <1>2, <1>5
  <2>3. Limit(v[k - 1]) <= a
    <3>1. k - 1 \notin Above
      <4> HIDE DEF Above
      <4>1. ~(k <= k - 1)
        BY <2>2
      <4> QED
        BY <4>1, <2>1
    <3> QED
      BY <3>1, <2>2
  <2> HIDE DEF k, Above
  <2> DEFINE i == k - 1
  <2>4. i \in 1..Len(v) - 1 /\ i \in 1..Len(v) /\ i + 1 = k
    BY <2>2
  <2>5. Limit(v[i]) + size <= v[i + 1].start /\ Limit(v[i]) + size <= Limit(m)
    <3>1. Limit(v[i]) \in Nat /\ v[k].start \in Nat /\ Limit(v[i]) <= a
      BY <2>2, <2>3, <2>4, <1>1, <1>3
    <3> HIDE DEF i
    <3> QED
      BY <3>1, <2>2, <2>4, <1>1, <1>5
  <2> HIDE DEF i
  <2>6. Add(End(v[i]), size) <= v[i + 1].start
    <3>1. End(v[i]) = Limit(v[i]) /\ Limit(v[i]) \in Nat /\ Limit(v[i]) <= Limit(m)
      BY <2>4, <1>1
    <3>2. Limit(v[i]) + size < UsizeBound
      BY <3>1, <1>1, UsizeBoundAssumption
    <3> QED
      BY <3>1, <3>2, <2>5 DEF Add
  <2>7. ValidMemoryCheck(End(v[i]), size)
    <3>1. End(v[i]) \in Nat /\ m.start <= End(v[i]) /\ End(v[i]) <= Limit(m)
          /\ End(v[i]) + size <= Limit(m)
      BY <2>4, <2>5, <1>1
    <3> QED
      BY <3>1, ValidInFirst
  <2>8. i \in gaps
    BY <2>4, <2>6, <2>7
  <2>9. Min(gaps) \in gaps
    <3>1. gaps \subseteq Nat
      BY <1>2
    <3> HIDE DEF gaps
    <3> QED
      BY <3>1, <2>8, MinInSet
  <2>10. End(v[Min(gaps)]) # 0
    <3> HIDE DEF gaps
    <3>1. Min(gaps) \in 1..Len(v)
      BY <2>9, <1>g, Zenon
    <3> QED
      BY <3>1, <1>1
  <2> QED
    BY <2>8, <2>10, <1>2, Zenon DEF NextAvailableSlot
<1> QED
  BY <1>8, <1>9

\* Careful clients get null only when no free stretch of the table's section
\* is long enough: next_available_slot looks behind every entry.
THEOREM FirstFitIsComplete == CarefulSpec => []FirstFitComplete
<1>1. IInv => FirstFitComplete
  <2> SUFFICES ASSUME IInv, taken.v # <<>>, NEW v \in Organized(taken.v), NEW size \in Sizes,
                      RoomIn(mmap[1], v, size)
               PROVE  NextAvailableSlot(v, size) # 0
    BY DEF FirstFitComplete
  <2>1. Opened
    BY DEF IInv, Closed
  <2>2. mmap \in Maps /\ mmap # <<>> /\ mmap[1] \in Section /\ Chain(taken.v, mmap[1])
    BY <2>1, OpenedFacts DEF Opened
  <2>3. v = taken.v
    BY <2>2, RowIsOrganized DEF Chain
  <2> QED
    BY <2>2, <2>3, RoomIsFound
<1> QED
  BY <1>1, CarefulInvariant, PTL

-----------------------------------------------------------------------------
(***************************************************************************)
(* Any clients, any map and any table, even one that moved and reads as    *)
(* garbage: the types, and where a new block lies.                         *)
(***************************************************************************)
TableOK(t) == t \in Table /\ Len(t.v) <= t.cap
Mapped == mmap = <<>> \/ mmap \in Maps
InMap(b) == \E i \in DOMAIN mmap : Within(b, mmap[i])
GInv == TypeOK /\ Mapped

\* Where a section ends is an address, wrapped or not.
LEMMA EndType == ASSUME NEW s \in Section PROVE End(s) \in Nat
  BY UsizeBoundAssumption DEF End, Add, Section

\* A map, or none, is a sequence of sections.
LEMMA MappedFacts ==
  ASSUME Mapped
  PROVE  mmap \in Seq(Section) /\ DOMAIN mmap = 1..Len(mmap) /\ DOMAIN mmap \subseteq Nat
         /\ \A i \in DOMAIN mmap : mmap[i] \in Section
<1>1. mmap \in Seq(Section)
  <2>1. <<>> \in Seq(Section)
    OBVIOUS
  <2> QED
    BY <2>1, MapsAssumption, Zenon DEF Mapped
<1> QED
  BY <1>1

\* The answer NoChange keeps its word for a block at any address: it cannot
\* wrap, since it starts below the end of a section with room above it.
LEMMA NoChangeHolds ==
  ASSUME NEW o \in Section, NEW p \in Nat, NEW size \in Nat, size > 0,
         Limit(o) + size < UsizeBound, CmpMemSct(o, Sct(p, size)) = "NoChange"
  PROVE  Within(Sct(p, size), o)
<1> DEFINE g == Sct(p, size)
<1>1. Limit(o) \in Nat /\ o.start \in Nat /\ o.size \in Nat /\ Limit(o) = o.start + o.size
  BY DEF Limit, Section
<1>2. Limit(o) < UsizeBound
  BY <1>1, UsizeBoundAssumption
<1>3. End(o) = Limit(o)
  BY <1>2, EndIsLimit
<1>4. g.start = p /\ g.size = size /\ Limit(g) = p + size
      /\ End(g) = IF p + size < UsizeBound THEN p + size ELSE (p + size) - UsizeBound
  BY DEF Sct, Limit, End, Add
<1>5. CASE o = g
  BY <1>5 DEF Within, Limit, Section
<1>6. CASE o # g
  <2>1. ~(End(o) < g.start) /\ g.start # End(o) /\ g.start >= o.start /\ End(g) <= End(o)
    BY <1>6 DEF CmpMemSct
  <2>2. p < Limit(o) /\ o.start <= p
    BY <2>1, <1>1, <1>3, <1>4
  <2>3. p + size < UsizeBound
    BY <2>2, <1>1, UsizeBoundAssumption
  <2> QED
    BY <2>1, <2>2, <2>3, <1>1, <1>3, <1>4 DEF Within
<1> QED
  BY <1>5, <1>6

\* valid_memory_check says yes only to what one section holds.
LEMMA CheckedInMap ==
  ASSUME Mapped, NEW p \in Nat, NEW size \in Sizes, ValidMemoryCheck(p, size)
  PROVE  InMap(Sct(p, size))
<1> DEFINE deciding == {i \in DOMAIN mmap : CmpMemSct(mmap[i], Sct(p, size)) # "Separate"}
           k == Min(deciding)
<1>1. deciding # {} /\ CmpMemSct(mmap[k], Sct(p, size)) = "NoChange"
  BY DEF ValidMemoryCheck
<1>2. deciding \subseteq Nat
  BY MappedFacts
<1>3. k \in deciding
  <2> HIDE DEF deciding
  <2> QED
    BY <1>1, <1>2, MinInSet
<1> HIDE DEF k
<1>4. k \in DOMAIN mmap /\ mmap \in Maps /\ mmap[k] \in Section
  BY <1>3, MappedFacts DEF Mapped
<1>5. Limit(mmap[k]) + size < UsizeBound /\ size \in Nat /\ size > 0
  BY <1>4, MapsAssumption, SizesAssumption
<1>6. Within(Sct(p, size), mmap[k])
  BY <1>1, <1>4, <1>5, NoChangeHolds
<1> QED
  BY <1>4, <1>6 DEF InMap

\* next_valid_memory_ptr returns an address, and for a size asked for one
\* where a section holds that much.
LEMMA NextInMap ==
  ASSUME Mapped, NEW from \in Nat, NEW size \in Nat
  PROVE  /\ NextValidMemoryPtr(from, size) \in Nat
         /\ size \in Sizes /\ NextValidMemoryPtr(from, size) # 0
              => InMap(Sct(NextValidMemoryPtr(from, size), size))
<1> DEFINE answer(i) == CmpMemSct(mmap[i], Sct(from, size))
           deciding == {i \in DOMAIN mmap :
                          /\ from >= mmap[i].start /\ size <= mmap[i].size
                          /\ answer(i) \in {"NoChange", "Separate"}}
           k == Min(deciding)
<1>1. CASE size = 0 \/ deciding = {}
  BY <1>1 DEF NextValidMemoryPtr
<1>2. CASE size # 0 /\ deciding # {}
  <2>1. NextValidMemoryPtr(from, size) = IF answer(k) = "NoChange" THEN from ELSE mmap[k].start
    BY <1>2 DEF NextValidMemoryPtr
  <2>2. k \in deciding
    <3>1. deciding \subseteq Nat
      BY MappedFacts
    <3> HIDE DEF deciding
    <3> QED
      BY <3>1, <1>2, MinInSet
  <2> HIDE DEF k
  <2>3. k \in DOMAIN mmap /\ mmap[k] \in Section /\ size <= mmap[k].size /\ mmap \in Maps
    BY <2>2, MappedFacts DEF Mapped
  <2>4. mmap[k].start \in Nat
    BY <2>3 DEF Section
  <2>5. CASE answer(k) = "NoChange"
    <3>1. NextValidMemoryPtr(from, size) = from
      BY <2>1, <2>5
    <3>2. size \in Sizes => Within(Sct(from, size), mmap[k])
      <4> SUFFICES ASSUME size \in Sizes PROVE Within(Sct(from, size), mmap[k])
        OBVIOUS
      <4>1. Limit(mmap[k]) + size < UsizeBound /\ size > 0
        BY <2>3, MapsAssumption, SizesAssumption
      <4> QED
        BY <4>1, <2>3, <2>5, NoChangeHolds
    <3> QED
      BY <3>1, <3>2, <2>3 DEF InMap
  <2>6. CASE answer(k) # "NoChange"
    <3>1. NextValidMemoryPtr(from, size) = mmap[k].start
      BY <2>1, <2>6
    <3>2. Within(Sct(mmap[k].start, size), mmap[k])
      BY <2>3, <2>4 DEF Within, Sct, Limit, Section
    <3> QED
      BY <3>1, <3>2, <2>3, <2>4 DEF InMap
  <2> QED
    BY <2>5, <2>6
<1> QED
  BY <1>1, <1>2

\* next_available_slot, over any table: 0, or a block that one section holds.
LEMMA SlotInMap ==
  ASSUME Mapped, NEW v \in Seq(Section), NEW size \in Sizes
  PROVE  /\ NextAvailableSlot(v, size) \in Nat
         /\ NextAvailableSlot(v, size) # 0
              => v # <<>> /\ InMap(Sct(NextAvailableSlot(v, size), size))
<1> DEFINE gaps == {i \in 1..Len(v) - 1 : /\ Add(End(v[i]), size) <= v[i + 1].start
                                          /\ ValidMemoryCheck(End(v[i]), size)}
           last == End(v[Len(v)])
<1>1. Len(v) \in Nat /\ \A i \in 1..Len(v) : End(v[i]) \in Nat
  BY EndType
<1>2. size \in Nat
  BY SizesAssumption
<1>3. CASE v = <<>>
  BY <1>3 DEF NextAvailableSlot
<1>4. CASE v # <<>> /\ gaps # {}
  <2>1. Min(gaps) \in gaps
    <3>1. gaps \subseteq Nat
      BY <1>1
    <3> HIDE DEF gaps
    <3> QED
      BY <3>1, <1>4, MinInSet
  <2>2. Min(gaps) \in 1..Len(v) /\ ValidMemoryCheck(End(v[Min(gaps)]), size)
    BY <2>1, <1>1
  <2>3. NextAvailableSlot(v, size) = End(v[Min(gaps)])
    BY <1>4, Zenon DEF NextAvailableSlot
  <2> HIDE DEF gaps
  <2>4. End(v[Min(gaps)]) \in Nat
    BY <2>2, <1>1
  <2>5. InMap(Sct(End(v[Min(gaps)]), size))
    BY <2>2, <2>4, CheckedInMap
  <2> QED
    BY <2>3, <2>4, <2>5, <1>4
<1>5. CASE v # <<>> /\ gaps = {}
  <2>1. last \in Nat
    BY <1>1, <1>5
  <2>2. CASE ValidMemoryCheck(last, size)
    <3>1. NextAvailableSlot(v, size) = last
      BY <2>2, <1>5 DEF NextAvailableSlot
    <3>2. InMap(Sct(last, size))
      BY <2>1, <2>2, CheckedInMap
    <3> QED
      BY <3>1, <3>2, <2>1, <1>5
  <2>3. CASE ~ValidMemoryCheck(last, size)
    <3>1. NextAvailableSlot(v, size) = NextValidMemoryPtr(last, size)
      BY <2>3, <1>5 DEF NextAvailableSlot
    <3> HIDE DEF last
    <3>2. /\ NextValidMemoryPtr(last, size) \in Nat
          /\ NextValidMemoryPtr(last, size) # 0
               => InMap(Sct(NextValidMemoryPtr(last, size), size))
      BY <2>1, <1>2, NextInMap
    <3> QED
      BY <3>1, <3>2, <1>5
  <2> QED
    BY <2>2, <2>3
<1> QED
  BY <1>3, <1>4, <1>5

\* taken_organize returns as many sections as it gets.
LEMMA OrganizedType ==
  ASSUME NEW v \in Seq(Section), NEW x \in Organized(v)
  PROVE  x \in Seq(Section) /\ Len(x) = Len(v)
<1>1. CASE Len(v) >= 1
  BY <1>1, OrganizedSorts
<1>2. CASE ~(Len(v) >= 1)
  <2>1. Len(v) = 0
    BY <1>2
  <2>2. Increasing(v)
    BY <2>1 DEF Increasing
  <2>3. x = v
    BY <2>2 DEF Organized
  <2> QED
    BY <2>3
<1> QED
  BY <1>1, <1>2

\* The index taken_match_start and taken_match give is one of the table.
LEMMA MatchType ==
  ASSUME NEW v \in Seq(Section), NEW start, NEW size
  PROVE  /\ \A i \in TakenMatchStart(v, start) : i = 0 \/ i \in 1..Len(v)
         /\ \A i \in TakenMatch(v, start, size) : i = 0 \/ i \in 1..Len(v)
<1>1. \A i \in TakenMatchStart(v, start) : i = 0 \/ i \in 1..Len(v)
  BY DEF TakenMatchStart
<1> QED
  BY <1>1 DEF TakenMatch

\* A table that grows has twice the room, and no entry more.
LEMMA GrowType ==
  ASSUME Mapped, NEW t, TableOK(t), t.v # <<>>, NEW u \in Grow(t)
  PROVE  u \in Table /\ u.cap = 2 * t.cap /\ Len(u.v) <= Len(t.v)
<1> DEFINE old == t.cap * EntryBytes
           size == 2 * old
           good == NextValidMemoryPtr(End(t.v[Len(t.v)]), size)
           headed(ptr) == [t.v EXCEPT ![1] = Sct(ptr, size)]
<1>1. t.ptr \in Nat /\ t.cap \in Nat /\ t.v \in Seq(Section) /\ Len(t.v) \in Nat
      /\ Len(t.v) \in 1..Len(t.v) /\ 2 * t.cap \in Nat
  BY DEF TableOK, Table
<1>2. old \in Nat
  BY <1>1, TableAssumption
<1>3. size \in Nat
  <2> HIDE DEF old
  <2> QED
    BY <1>2
<1>4. good \in Nat
  <2>1. End(t.v[Len(t.v)]) \in Nat
    BY <1>1, EndType
  <2> HIDE DEF size
  <2> QED
    BY <2>1, <1>3, NextInMap
<1>5. \E ptr \in Nat, v \in Seq(Section) :
        /\ u = [ptr |-> ptr, cap |-> 2 * t.cap, v |-> v] /\ Len(v) <= Len(t.v)
  <2>1. headed(t.ptr) \in Seq(Section) /\ Len(headed(t.ptr)) = Len(t.v)
    <3> HIDE DEF size
    <3>1. Sct(t.ptr, size) \in Section
      BY <1>1, <1>3 DEF Sct, Section
    <3> QED
      BY <3>1, <1>1
  <2>2. <<>> \in Seq(Section) /\ Len(<<>>) <= Len(t.v)
    BY <1>1
  <2>3. \A junk \in [1..Len(t.v) -> Junk] : junk \in Seq(Section) /\ Len(junk) = Len(t.v)
    <3> SUFFICES ASSUME NEW junk \in [1..Len(t.v) -> Junk]
                 PROVE  junk \in Seq(Section) /\ Len(junk) = Len(t.v)
      OBVIOUS
    <3>1. \A i \in 1..Len(t.v) : junk[i] \in Section
      BY JunkAssumption
    <3>2. junk = [i \in 1..Len(t.v) |-> junk[i]]
      OBVIOUS
    <3> QED
      BY <3>1, <3>2, <1>1
  <2>4. \/ u = [ptr |-> t.ptr, cap |-> 2 * t.cap, v |-> headed(t.ptr)]
        \/ u = [ptr |-> 0, cap |-> 2 * t.cap, v |-> <<>>]
        \/ \E junk \in [1..Len(t.v) -> Junk] :
              u = [ptr |-> good, cap |-> 2 * t.cap, v |-> junk]
    BY DEF Grow
  <2> HIDE DEF headed, good
  <2>a. Len(headed(t.ptr)) <= Len(t.v)
    BY <2>1, <1>1
  <2>5. CASE u = [ptr |-> t.ptr, cap |-> 2 * t.cap, v |-> headed(t.ptr)]
    BY <2>1, <2>a, <2>5, <1>1, Zenon
  <2>6. CASE u = [ptr |-> 0, cap |-> 2 * t.cap, v |-> <<>>]
    <3>1. 0 \in Nat
      OBVIOUS
    <3> QED
      BY <2>2, <2>6, <3>1, Zenon
  <2>7. CASE \E junk \in [1..Len(t.v) -> Junk] :
               u = [ptr |-> good, cap |-> 2 * t.cap, v |-> junk]
    <3>1. PICK junk \in [1..Len(t.v) -> Junk] :
                 u = [ptr |-> good, cap |-> 2 * t.cap, v |-> junk]
      BY <2>7, Zenon
    <3>2. junk \in Seq(Section) /\ Len(junk) <= Len(t.v)
      BY <2>3, <1>1
    <3> QED
      BY <3>1, <3>2, <1>4, Zenon
  <2> QED
    BY <2>4, <2>5, <2>6, <2>7, Zenon
<1> QED
  BY <1>1, <1>5 DEF Table

\* push leaves a table with room for its entries.
LEMMA PushedType ==
  ASSUME Mapped, NEW t, TableOK(t), t.v # <<>>, NEW b \in Section, NEW u \in Pushed(t, b)
  PROVE  TableOK(u)
<1>1. PICK w \in IF Len(t.v) < t.cap THEN {t} ELSE Grow(t) :
        u = [w EXCEPT !.v = IF w.ptr = 0 THEN w.v ELSE Append(w.v, b)]
  BY DEF Pushed
<1>2. t.cap \in Nat /\ Len(t.v) \in Nat /\ Len(t.v) >= 1 /\ Len(t.v) <= t.cap
  BY DEF TableOK, Table
<1>3. w \in Table /\ Len(w.v) + 1 <= w.cap
  <2>1. CASE Len(t.v) < t.cap
    BY <2>1, <1>1, <1>2 DEF TableOK
  <2>2. CASE ~(Len(t.v) < t.cap)
    <3>1. w \in Table /\ w.cap = 2 * t.cap /\ Len(w.v) <= Len(t.v)
      BY <2>2, <1>1, GrowType
    <3>2. Len(w.v) \in Nat
      BY <3>1 DEF Table
    <3> QED
      BY <3>1, <3>2, <1>2
  <2> QED
    BY <2>1, <2>2
<1>4. w.v \in Seq(Section) /\ w.ptr \in Nat /\ w.cap \in Nat /\ Len(w.v) \in Nat
      /\ Append(w.v, b) \in Seq(Section) /\ Len(Append(w.v, b)) = Len(w.v) + 1
  BY <1>3 DEF Table
<1>5. u = [ptr |-> w.ptr, cap |-> w.cap, v |-> IF w.ptr = 0 THEN w.v ELSE Append(w.v, b)]
  BY <1>1, <1>3 DEF Table
<1> QED
  BY <1>3, <1>4, <1>5 DEF TableOK, Table

\* alloc leaves a table, and what it returns one section holds.
LEMMA AllocType ==
  ASSUME Mapped, NEW t, TableOK(t), NEW size \in Sizes, NEW r \in AllocResults(t, size)
  PROVE  /\ TableOK(r.table) /\ r.ptr \in Nat
         /\ r.ptr # 0 => InMap(Sct(r.ptr, size))
<1>1. PICK v \in Organized(t.v) : r \in AllocOrganized([t EXCEPT !.v = v], size)
  BY Zenon DEF AllocResults
<1> DEFINE w == [t EXCEPT !.v = v]
           slot == NextAvailableSlot(v, size)
<1>2. v \in Seq(Section) /\ Len(v) = Len(t.v)
  BY <1>1, OrganizedType DEF TableOK, Table
<1>3. w.v = v /\ TableOK(w)
  BY <1>2 DEF TableOK, Table
<1>4. slot \in Nat /\ (slot # 0 => v # <<>> /\ InMap(Sct(slot, size)))
  BY <1>2, SlotInMap
<1>5. r \in IF slot = 0 THEN {[ptr |-> 0, table |-> w]}
            ELSE UNION {{[ptr |-> slot, table |-> [u EXCEPT !.v = x]] : x \in Organized(u.v)} :
                          u \in Pushed(w, Sct(slot, size))}
  BY <1>1, <1>3 DEF AllocOrganized
<1> HIDE DEF w, slot
<1>6. CASE slot = 0
  BY <1>3, <1>5, <1>6
<1>7. CASE slot # 0
  <2>a. PICK u \in Pushed(w, Sct(slot, size)) :
           r \in {[ptr |-> slot, table |-> [u EXCEPT !.v = x]] : x \in Organized(u.v)}
    BY <1>5, <1>7, ZenonT(60)
  <2>1. PICK x \in Organized(u.v) : r = [ptr |-> slot, table |-> [u EXCEPT !.v = x]]
    BY <2>a, Zenon
  <2>2. Sct(slot, size) \in Section
    BY <1>4, SizesAssumption DEF Sct, Section
  <2>3. TableOK(u)
    BY <2>1, <2>2, <1>3, <1>4, <1>7, PushedType
  <2>4. x \in Seq(Section) /\ Len(x) = Len(u.v)
    BY <2>3, OrganizedType DEF TableOK, Table
  <2>5. TableOK([u EXCEPT !.v = x])
    BY <2>3, <2>4 DEF TableOK, Table
  <2> QED
    BY <2>1, <2>5, <1>4, <1>7
<1> QED
  BY <1>6, <1>7

\* dealloc leaves a table.
LEMMA DeallocType ==
  ASSUME NEW t, TableOK(t), NEW start, NEW size, NEW u \in DeallocResults(t, start, size)
  PROVE  TableOK(u)
<1>a. PICK v \in Organized(t.v) :
        u \in {[t EXCEPT !.v = IF i = 0 THEN v ELSE RemoveAt(v, i)] :
                 i \in TakenMatch(v, start, size)}
  BY Zenon DEF DeallocResults
<1>1. PICK i \in TakenMatch(v, start, size) :
        u = [t EXCEPT !.v = IF i = 0 THEN v ELSE RemoveAt(v, i)]
  BY <1>a, Zenon
<1>2. t \in Table /\ t.v \in Seq(Section) /\ v \in Seq(Section) /\ Len(v) = Len(t.v)
      /\ Len(t.v) <= t.cap
  BY <1>1, OrganizedType DEF TableOK, Table
<1>3. i = 0 \/ i \in 1..Len(v)
  BY <1>2, MatchType
<1> DEFINE x == IF i = 0 THEN v ELSE RemoveAt(v, i)
<1>4. x \in Seq(Section) /\ Len(x) \in Nat /\ Len(x) <= Len(t.v)
  <2>1. CASE i = 0
    BY <2>1, <1>2
  <2>2. CASE i # 0
    <3>1. RemoveAt(v, i) \in Seq(Section) /\ Len(RemoveAt(v, i)) = Len(v) - 1
      BY <2>2, <1>2, <1>3, RemoveAtFacts
    <3>2. x = RemoveAt(v, i)
      BY <2>2
    <3> QED
      BY <3>1, <3>2, <1>2
  <2> QED
    BY <2>1, <2>2
<1> HIDE DEF x
<1>5. u = [t EXCEPT !.v = x]
  BY <1>1 DEF x
<1> QED
  BY <1>2, <1>4, <1>5 DEF TableOK, Table

\* A step that gives one handle a block: the same address, or one in the map.
NewAddress(h, b) ==
  \/ live[h] # NoBlock /\ b.start = live[h].start
  \/ InMap(b)
\* Every new address of the step lies in the map.
BlocksInMap ==
  \A h \in Handles :
    (/\ live'[h] # NoBlock
     /\ live[h] = NoBlock \/ live'[h].start # live[h].start)
    => InMap(live'[h])
\* A step that changes one handle, and moves it only into the map, is such a step.
LEMMA OneBlockMoves ==
  ASSUME TypeOK, NEW h \in Handles,
         \/ live' = live
         \/ live' = [live EXCEPT ![h] = NoBlock]
         \/ \E b \in Section : NewAddress(h, b) /\ live' = [live EXCEPT ![h] = b]
  PROVE  live' \in [Handles -> Section \cup {NoBlock}] /\ BlocksInMap
<1>1. live \in [Handles -> Section \cup {NoBlock}]
  BY DEF TypeOK
<1>2. CASE live' = live
  BY <1>1, <1>2 DEF BlocksInMap
<1>3. CASE live' = [live EXCEPT ![h] = NoBlock]
  BY <1>1, <1>3 DEF BlocksInMap
<1>4. CASE \E b \in Section : NewAddress(h, b) /\ live' = [live EXCEPT ![h] = b]
  <2>1. PICK b \in Section : NewAddress(h, b) /\ live' = [live EXCEPT ![h] = b]
    BY <1>4
  <2>2. live'[h] = b /\ \A k \in Handles : k # h => live'[k] = live[k]
    BY <2>1, <1>1
  <2>3. live' \in [Handles -> Section \cup {NoBlock}]
    BY <2>1, <1>1
  <2>4. ASSUME NEW k \in Handles, live'[k] # NoBlock,
               live[k] = NoBlock \/ live'[k].start # live[k].start
        PROVE  InMap(live'[k])
    <3>1. k = h
      BY <2>2, <2>4
    <3> QED
      BY <3>1, <2>1, <2>2, <2>4 DEF NewAddress
  <2> QED
    BY <2>3, <2>4, Zenon DEF BlocksInMap
<1> QED
  BY <1>2, <1>3, <1>4

\* What any step leaves: a table, and one block that moved at most.
LEMMA AnyStep ==
  ASSUME GInv, [Next]_vars
  PROVE  /\ GInv'
         /\ BlocksInMap
<1>1. /\ TypeOK /\ Mapped /\ TableOK(taken) /\ taken \in Table /\ taken.v \in Seq(Section)
      /\ Len(taken.v) <= taken.cap /\ halted \in BOOLEAN
      /\ live \in [Handles -> Section \cup {NoBlock}]
  BY DEF GInv, TypeOK, TableOK, Table
<1>2. ASSUME NEW h \in Handles, UNCHANGED mmap, TableOK(taken'), halted' \in BOOLEAN,
             \/ live' = live
             \/ live' = [live EXCEPT ![h] = NoBlock]
             \/ \E b \in Section : NewAddress(h, b) /\ live' = [live EXCEPT ![h] = b]
      PROVE  GInv' /\ BlocksInMap
  <2>1. live' \in [Handles -> Section \cup {NoBlock}] /\ BlocksInMap
    BY <1>1, <1>2, OneBlockMoves
  <2>2. taken' \in Table /\ Len(taken'.v) <= taken'.cap
    BY <1>2 DEF TableOK
  <2> QED
    BY <2>1, <2>2, <1>1, <1>2 DEF GInv, TypeOK, Mapped
<1>3. \A v \in Organized(taken.v) :
        /\ v \in Seq(Section) /\ Len(v) = Len(taken.v) /\ TableOK([taken EXCEPT !.v = v])
        /\ [taken EXCEPT !.v = v].v = v
  BY <1>1, OrganizedType DEF TableOK, Table
<1>4. \A v \in Organized(taken.v), i \in Nat, b \in Section :
        i = 0 \/ i \in 1..Len(v) => TableOK(Resize(v, i, b))
  <2> SUFFICES ASSUME NEW v \in Organized(taken.v), NEW i \in Nat, NEW b \in Section,
                      i = 0 \/ i \in 1..Len(v)
               PROVE  TableOK(Resize(v, i, b))
    OBVIOUS
  <2>1. v \in Seq(Section) /\ Len(v) = Len(taken.v)
    BY <1>3
  <2> DEFINE w == IF i = 0 THEN v ELSE [v EXCEPT ![i] = b]
  <2>2. w \in Seq(Section) /\ Len(w) = Len(v)
    BY <2>1
  <2> HIDE DEF w
  <2>3. Resize(v, i, b) = [taken EXCEPT !.v = w]
    BY DEF Resize, w
  <2> QED
    BY <2>1, <2>2, <2>3, <1>1 DEF TableOK, Table
<1>5. \A h \in Held : h \in Handles /\ live[h] \in Section /\ live[h] # NoBlock
  BY <1>1 DEF Held
<1>6. ASSUME NEW m \in Maps, Update(m) PROVE GInv' /\ BlocksInMap
  <2>1. mmap' = m /\ live' = live /\ halted' = halted
    BY <1>6 DEF Update
  <2>2. TableOK(taken')
    <3>1. CASE TableHome(m) = {}
      BY <3>1, <1>1, <1>6 DEF Update
    <3>2. CASE TableHome(m) # {}
      <4> DEFINE start == m[Min(TableHome(m))].start
      <4>1. m \in Seq(Section)
        BY MapsAssumption
      <4>2. TableHome(m) \subseteq 1..Len(m)
        BY <4>1 DEF TableHome
      <4>3. start \in Nat
        <5> DEFINE k == Min(TableHome(m))
        <5>1. k \in TableHome(m)
          BY <4>2, <3>2, MinInSet
        <5>2. k \in 1..Len(m)
          BY <5>1, <4>2, Zenon
        <5> HIDE DEF k
        <5>3. m[k] \in Section
          BY <5>2, <4>1
        <5>4. m[k].start \in Nat
          BY <5>3 DEF Section
        <5> QED
          BY <5>4 DEF k
      <4> HIDE DEF start
      <4>4. taken' = [ptr |-> start, cap |-> TableCap, v |-> <<Sct(start, TableBytes)>>]
        BY <3>2, <1>6 DEF Update, start
      <4>5. Sct(start, TableBytes) \in Section
        BY <4>3, TableAssumption DEF Sct, Section
      <4>6. <<Sct(start, TableBytes)>> \in Seq(Section) /\ Len(<<Sct(start, TableBytes)>>) = 1
        BY <4>5
      <4> QED
        BY <4>3, <4>4, <4>6, TableAssumption DEF TableOK, Table
    <3> QED
      BY <3>1, <3>2
  <2>3. m \in Seq(Section)
    BY MapsAssumption
  <2> QED
    BY <2>1, <2>2, <2>3, <1>1 DEF GInv, TypeOK, Mapped, TableOK, BlocksInMap
<1>7. ASSUME NEW h \in Handles, NEW size \in Sizes, Alloc(h, size) PROVE GInv' /\ BlocksInMap
  <2>1. PICK r \in AllocResults(taken, size) :
          /\ LeaveTable(r.table)
          /\ live' = IF r.ptr = 0 \/ halted' THEN live
                     ELSE [live EXCEPT ![h] = Sct(r.ptr, size)]
    BY <1>7 DEF Alloc
  <2>2. /\ TableOK(r.table) /\ r.ptr \in Nat
        /\ r.ptr # 0 => InMap(Sct(r.ptr, size))
    BY <1>1, AllocType
  <2>3. Sct(r.ptr, size) \in Section
    BY <2>2, SizesAssumption DEF Sct, Section
  <2>4. TableOK(taken') /\ halted' \in BOOLEAN /\ UNCHANGED mmap
    BY <2>1, <2>2, <1>7 DEF LeaveTable, Alloc
  <2>5. live' = live \/ \E b \in Section : NewAddress(h, b) /\ live' = [live EXCEPT ![h] = b]
    BY <2>1, <2>2, <2>3 DEF NewAddress
  <2> QED
    BY <2>4, <2>5, <1>2
<1>8. ASSUME NEW h \in Handles, Dealloc(h) PROVE GInv' /\ BlocksInMap
  <2>1. /\ taken' \in DeallocResults(taken, live[h].start, live[h].size)
        /\ live' = [live EXCEPT ![h] = NoBlock] /\ UNCHANGED <<mmap, halted>>
    BY <1>8 DEF Dealloc
  <2>2. TableOK(taken')
    BY <2>1, <1>1, DeallocType
  <2> QED
    BY <2>1, <2>2, <1>1, <1>2
<1>9. ASSUME NEW h \in Handles, DeallocPtrOnly(h) PROVE GInv' /\ BlocksInMap
  <2>1. PICK v \in Organized(taken.v) : \E i \in TakenMatchStart(v, live[h].start) :
          IF i = 0
          THEN /\ halted' = TRUE /\ taken' = [taken EXCEPT !.v = v]
               /\ UNCHANGED live
          ELSE /\ taken' \in DeallocResults([taken EXCEPT !.v = v],
                                            live[h].start, PadTo8(v[i].size))
               /\ live' = [live EXCEPT ![h] = NoBlock]
               /\ UNCHANGED halted
    BY <1>9, Zenon DEF DeallocPtrOnly
  <2>2. PICK i \in TakenMatchStart(v, live[h].start) :
          IF i = 0
          THEN /\ halted' = TRUE /\ taken' = [taken EXCEPT !.v = v]
               /\ UNCHANGED live
          ELSE /\ taken' \in DeallocResults([taken EXCEPT !.v = v],
                                            live[h].start, PadTo8(v[i].size))
               /\ live' = [live EXCEPT ![h] = NoBlock]
               /\ UNCHANGED halted
    BY <2>1, Zenon
  <2>3. UNCHANGED mmap
    BY <1>9 DEF DeallocPtrOnly
  <2>4. TableOK([taken EXCEPT !.v = v])
    BY <1>3
  <2>5. CASE i = 0
    BY <2>2, <2>3, <2>4, <2>5, <1>2
  <2>6. CASE i # 0
    <3>1. TableOK(taken')
      BY <2>2, <2>4, <2>6, DeallocType
    <3> QED
      BY <3>1, <2>2, <2>3, <2>6, <1>1, <1>2
  <2> QED
    BY <2>5, <2>6
<1>10. ASSUME NEW h \in Handles, NEW size \in Sizes, ReallocShrink(h, size) \/ ReallocInPlace(h, size)
       PROVE  GInv' /\ BlocksInMap
  <2> DEFINE b == Sct(live[h].start, size)
  <2>1. h \in Held /\ UNCHANGED <<mmap, halted>> /\ live' = [live EXCEPT ![h] = b]
    BY <1>10 DEF ReallocShrink, ReallocInPlace
  <2>2. PICK v \in Organized(taken.v) : \E i \in TakenMatchStart(v, b.start) :
          taken' = Resize(v, i, b)
    BY <1>10 DEF ReallocShrink, ReallocInPlace
  <2>3. PICK i \in TakenMatchStart(v, b.start) : taken' = Resize(v, i, b)
    BY <2>2
  <2>4. b \in Section /\ b.start = live[h].start /\ live[h] # NoBlock
    BY <2>1, <1>5, SizesAssumption DEF Sct, Section
  <2> HIDE DEF b
  <2>5. i \in Nat /\ (i = 0 \/ i \in 1..Len(v))
    <3>1. v \in Seq(Section)
      BY <1>3
    <3>2. i = 0 \/ i \in 1..Len(v)
      BY <3>1, MatchType, Zenon
    <3> QED
      BY <3>1, <3>2
  <2>6. TableOK(taken')
    BY <2>3, <2>4, <2>5, <1>4
  <2>7. NewAddress(h, b)
    BY <2>4 DEF NewAddress
  <2> QED
    BY <2>1, <2>4, <2>6, <2>7, <1>1, <1>2
<1>11. ASSUME NEW h \in Handles, NEW size \in Sizes, ReallocMove(h, size)
       PROVE  GInv' /\ BlocksInMap
  <2>1. PICK v \in Organized(taken.v) : \E r \in AllocResults([taken EXCEPT !.v = v], size) :
            /\ IF r.table.ptr = 0 THEN LeaveTable(r.table)
               ELSE \E t \in DeallocResults(r.table, live[h].start, live[h].size) :
                      LeaveTable(t)
            /\ live' = IF r.ptr = 0 \/ halted' THEN live
                       ELSE [live EXCEPT ![h] = Sct(r.ptr, size)]
    BY <1>11, Zenon DEF ReallocMove
  <2>2. PICK r \in AllocResults([taken EXCEPT !.v = v], size) :
            /\ IF r.table.ptr = 0 THEN LeaveTable(r.table)
               ELSE \E t \in DeallocResults(r.table, live[h].start, live[h].size) :
                      LeaveTable(t)
            /\ live' = IF r.ptr = 0 \/ halted' THEN live
                       ELSE [live EXCEPT ![h] = Sct(r.ptr, size)]
    BY <2>1, Zenon
  <2>3. UNCHANGED mmap
    BY <1>11 DEF ReallocMove
  <2>4. TableOK([taken EXCEPT !.v = v])
    BY <1>3
  <2>5. /\ TableOK(r.table) /\ r.ptr \in Nat
        /\ r.ptr # 0 => InMap(Sct(r.ptr, size))
    BY <2>4, <1>1, AllocType
  <2>6. TableOK(taken') /\ halted' \in BOOLEAN
    BY <2>2, <2>5, DeallocType DEF LeaveTable
  <2>7. Sct(r.ptr, size) \in Section
    BY <2>5, SizesAssumption DEF Sct, Section
  <2>8. live' = live \/ \E b \in Section : NewAddress(h, b) /\ live' = [live EXCEPT ![h] = b]
    BY <2>2, <2>5, <2>7 DEF NewAddress
  <2> QED
    BY <2>3, <2>6, <2>8, <1>2
<1>12. CASE UNCHANGED vars
  BY <1>12, <1>1 DEF vars, GInv, TypeOK, Mapped, BlocksInMap
<1> QED
  BY <1>6, <1>7, <1>8, <1>9, <1>10, <1>11, <1>12 DEF Next

\* GInv holds of every allocator, whatever its clients ask for.
LEMMA AnyInvariant == Spec => []GInv
<1>1. Init => GInv
  BY InitInv DEF IInv, GInv, Mapped, Init
<1>2. GInv /\ [Next]_vars => GInv'
  BY AnyStep
<1> QED
  BY <1>1, <1>2, PTL DEF Spec

\* Whatever the clients do, and whatever a moved table reads as, the
\* allocator's variables keep their types: no table has more entries than room.
THEOREM TypesHold == Spec => []TypeOK
<1>1. GInv => TypeOK
  BY DEF GInv
<1> QED
  BY <1>1, AnyInvariant, PTL

\* A block at a new address lies wholly in one section of free memory, for any
\* map and any clients and even over a table that reads as garbage.
THEOREM NewBlocksInMap == Spec => NewBlockInMap
<1>1. GInv /\ [Next]_vars =>
        [\A h \in Handles :
           (/\ live'[h] # NoBlock
            /\ live[h] = NoBlock \/ live'[h].start # live[h].start)
           => \E i \in DOMAIN mmap : Within(live'[h], mmap[i])]_vars
  BY AnyStep DEF BlocksInMap, InMap
<1> QED
  BY <1>1, AnyInvariant, PTL DEF Spec, NewBlockInMap

-----------------------------------------------------------------------------
(***************************************************************************)
(* Clients that only allocate and free.  dealloc may drop the entry of     *)
(* another block, and even the table's own: the entries stay a row.        *)
(***************************************************************************)
PInv ==
  /\ TypeOK
  /\ IF mmap = <<>> THEN taken.v = <<>>
     ELSE mmap \in Maps /\ taken.ptr # 0 /\ Row(taken.v, mmap[1])

\* A row is organized, so is no table at all.
LEMMA PlainFacts ==
  ASSUME PInv
  PROVE  /\ taken \in Table /\ taken.v \in Seq(Section) /\ [taken EXCEPT !.v = taken.v] = taken
         /\ mmap = <<>> => taken.v = <<>>
         /\ mmap # <<>> => /\ mmap \in Maps /\ mmap[1] \in Section
                           /\ taken.ptr # 0 /\ Row(taken.v, mmap[1])
         /\ Organized(taken.v) = {taken.v}
<1>1. ASSUME mmap # <<>>, mmap \in Maps PROVE mmap[1] \in Section
  <2>1. 1 \in 1..Len(mmap)
    BY <1>1, MapFacts
  <2> QED
    BY <1>1, <2>1, MapFacts
<1>2. taken \in Table /\ taken.v \in Seq(Section) /\ [taken EXCEPT !.v = taken.v] = taken
  BY DEF PInv, TypeOK, Table
<1>3. Organized(taken.v) = {taken.v}
  <2>1. CASE taken.v = <<>>
    BY <2>1 DEF Organized, Increasing
  <2>2. CASE mmap # <<>>
    BY <2>2, <1>1, RowIsOrganized DEF PInv
  <2> QED
    BY <2>1, <2>2 DEF PInv
<1> QED
  BY <1>1, <1>2, <1>3 DEF PInv

\* alloc on a table with room leaves it alone, or adds the new block to it.
LEMMA PlainAlloc ==
  ASSUME PInv, NEW h \in Handles, NEW size \in Sizes, HasRoom, Alloc(h, size)
  PROVE  /\ mmap' = mmap /\ taken'.ptr = taken.ptr /\ live[h] = NoBlock
         /\ \/ taken' = taken /\ live' = live
            \/ /\ mmap # <<>>
               /\ \E b \in Section : /\ b.size = size /\ live' = [live EXCEPT ![h] = b]
                                     /\ taken'.v \in Organized(Append(taken.v, b))
                                     /\ Row(taken'.v, mmap[1])
<1>1. /\ taken \in Table /\ taken.v \in Seq(Section) /\ [taken EXCEPT !.v = taken.v] = taken
      /\ mmap = <<>> => taken.v = <<>>
      /\ mmap # <<>> => /\ mmap \in Maps /\ mmap[1] \in Section
                        /\ taken.ptr # 0 /\ Row(taken.v, mmap[1])
      /\ Organized(taken.v) = {taken.v}
  BY PlainFacts
<1>2. PICK r \in AllocResults(taken, size) :
        /\ taken' = r.table /\ mmap' = mmap /\ live[h] = NoBlock
        /\ halted' = (r.table.ptr = 0 /\ taken.ptr # 0)
        /\ live' = IF r.ptr = 0 \/ halted' THEN live
                   ELSE [live EXCEPT ![h] = Sct(r.ptr, size)]
  BY DEF Alloc, LeaveTable
<1>3. r \in AllocOrganized(taken, size)
  BY <1>1, <1>2, Zenon DEF AllocResults
<1> DEFINE slot == NextAvailableSlot(taken.v, size)
           b == Sct(slot, size)
<1>4. r \in IF slot = 0 THEN {[ptr |-> 0, table |-> taken]}
            ELSE UNION {{[ptr |-> slot, table |-> [w EXCEPT !.v = x]] :
                           x \in Organized(w.v)} : w \in Pushed(taken, b)}
  BY <1>3, Zenon DEF AllocOrganized
<1>5. CASE slot = 0
  <2>1. taken' = taken /\ r.ptr = 0
    BY <1>2, <1>4, <1>5
  <2> QED
    BY <2>1, <1>2
<1>6. CASE slot # 0
  <2>1. taken.v # <<>>
    BY <1>6 DEF NextAvailableSlot
  <2>2. mmap # <<>> /\ Len(taken.v) < taken.cap /\ taken.ptr # 0
    BY <2>1, <1>1 DEF HasRoom
  <2> DEFINE app == Append(taken.v, b)
             w == [taken EXCEPT !.v = IF taken.ptr = 0 THEN taken.v ELSE app]
  <2>3. Pushed(taken, b) = {w}
    BY <2>2 DEF Pushed
  <2>4. w.v = app /\ w \in [ptr : {taken.ptr}, cap : {taken.cap}, v : {app}]
    BY <1>1, <2>2 DEF Table
  <2> HIDE DEF w, slot, app
  <2>5. PICK x \in Organized(w.v) : r = [ptr |-> slot, table |-> [w EXCEPT !.v = x]]
    <3>1. r \in UNION {{[ptr |-> slot, table |-> [z EXCEPT !.v = x]] :
                           x \in Organized(z.v)} : z \in {w}}
      BY <2>3, <1>4, <1>6, Zenon
    <3> QED
      BY <3>1, ZenonT(60)
  <2>6. taken'.v = x /\ taken'.ptr = taken.ptr /\ r.ptr = slot /\ r.table.ptr = taken.ptr
    BY <2>4, <2>5, <1>2
  <2>7. live' = [live EXCEPT ![h] = b]
    BY <2>2, <2>6, <1>2, <1>6
  <2>8. x \in Organized(Append(taken.v, b))
    BY <2>4, <2>5 DEF app
  <2>9. /\ b \in Section /\ b.size > 0 /\ Within(b, mmap[1])
        /\ \A i \in 1..Len(taken.v) : Disjoint(b, taken.v[i])
        /\ \E i \in 1..Len(taken.v) : Limit(taken.v[i]) <= b.start
    BY <1>6, <2>2, <1>1, SlotIsFree, Zenon DEF slot
  <2>10. b.size = size
    BY DEF Sct
  <2>11. Row(x, mmap[1])
    <3> DEFINE v == taken.v
    <3>1. Row(v, mmap[1]) /\ v # <<>> /\ x \in Organized(Append(v, b))
      BY <2>1, <2>2, <2>8, <1>1
    <3>2. \A i \in 1..Len(v) : Disjoint(b, v[i])
      BY <2>9
    <3>3. \E i \in 1..Len(v) : Limit(v[i]) <= b.start
      BY <2>9
    <3> HIDE DEF v, b
    <3> QED
      BY <2>9, <3>1, <3>2, <3>3, <2>2, <1>1, PushKeepsRow
  <2> HIDE DEF b
  <2> QED
    BY <2>2, <2>6, <2>7, <2>8, <2>9, <2>10, <2>11, <1>2
<1> QED
  BY <1>5, <1>6

\* dealloc removes no entry, or one of the size it was given.
LEMMA PlainDealloc ==
  ASSUME PInv, NEW h \in Handles, Dealloc(h)
  PROVE  /\ mmap' = mmap /\ taken'.ptr = taken.ptr /\ h \in Held
         /\ live' = [live EXCEPT ![h] = NoBlock]
         /\ \/ taken'.v = taken.v
            \/ \E i \in 1..Len(taken.v) : /\ taken.v[i].size = live[h].size
                                          /\ taken'.v = RemoveAt(taken.v, i)
<1>1. /\ taken \in Table /\ taken.v \in Seq(Section)
      /\ Organized(taken.v) = {taken.v}
  BY PlainFacts
<1>2. /\ taken' \in DeallocResults(taken, live[h].start, live[h].size) /\ mmap' = mmap
      /\ h \in Held /\ live' = [live EXCEPT ![h] = NoBlock]
  BY DEF Dealloc
<1>3. PICK i \in TakenMatch(taken.v, live[h].start, live[h].size) :
        taken' = [taken EXCEPT !.v = IF i = 0 THEN taken.v ELSE RemoveAt(taken.v, i)]
  <2>1. PICK v \in Organized(taken.v) :
          taken' \in {[taken EXCEPT !.v = IF i = 0 THEN v ELSE RemoveAt(v, i)] :
                        i \in TakenMatch(v, live[h].start, live[h].size)}
    BY <1>2, Zenon DEF DeallocResults
  <2>2. v = taken.v
    BY <1>1
  <2> QED
    BY <2>1, <2>2, Zenon
<1>4. taken'.v = (IF i = 0 THEN taken.v ELSE RemoveAt(taken.v, i)) /\ taken'.ptr = taken.ptr
  BY <1>3, <1>1 DEF Table
<1>5. i = 0 \/ i \in 1..Len(taken.v)
  BY <1>3, <1>1, MatchType
<1>6. i # 0 => taken.v[i].size = live[h].size
  BY <1>3 DEF TakenMatch
<1> QED
  BY <1>2, <1>4, <1>5, <1>6

\* update, alloc on a table with room, and dealloc keep the row.
LEMMA PlainStep ==
  ASSUME PInv, [PlainNext]_vars
  PROVE  PInv'
<1>1. GInv
  BY DEF PInv, GInv, Mapped
<1>2. [Next]_vars
  BY DEF PlainNext, Next
<1>3. TypeOK'
  BY <1>1, <1>2, AnyStep DEF GInv
<1>4. /\ taken.v \in Seq(Section)
      /\ mmap = <<>> => taken.v = <<>>
      /\ mmap # <<>> => /\ mmap \in Maps /\ mmap[1] \in Section
                        /\ taken.ptr # 0 /\ Row(taken.v, mmap[1])
  BY PlainFacts
<1>5. ASSUME mmap' = mmap, taken'.ptr = taken.ptr,
             mmap = <<>> => taken'.v = <<>>, mmap # <<>> => Row(taken'.v, mmap[1])
      PROVE  PInv'
  BY <1>3, <1>4, <1>5 DEF PInv
<1>6. ASSUME NEW m \in Maps, TableHome(m) # {}, Min(TableHome(m)) = 1, Update(m) PROVE PInv'
  <2>1. /\ mmap' = m /\ taken'.v = <<Sct(m[1].start, TableBytes)>>
        /\ taken'.ptr = m[1].start
    BY <1>6 DEF Update
  <2>2. 1 \in TableHome(m)
    <3>1. TableHome(m) \subseteq Nat
      BY MapFacts DEF TableHome
    <3> QED
      BY <3>1, <1>6, MinInSet
  <2>3. m # <<>> /\ m[1] \in Section /\ m[1].size >= TableBytes /\ m[1].start > 0
    BY <2>2, MapFacts DEF TableHome
  <2> DEFINE v == <<Sct(m[1].start, TableBytes)>>
  <2>4. Sct(m[1].start, TableBytes) \in Section
    BY <2>3, TableAssumption DEF Sct, Section
  <2>5. v \in Seq(Section) /\ Len(v) = 1 /\ v[1] = Sct(m[1].start, TableBytes)
    BY <2>4
  <2>6. v[1].size > 0 /\ Within(v[1], m[1])
    BY <2>5, <2>3, TableAssumption DEF Sct, Within, Limit, Section
  <2>7. Row(v, m[1])
    BY <2>5, <2>6 DEF Row
  <2>8. taken'.ptr # 0
    BY <2>1, <2>3 DEF Section
  <2> QED
    BY <2>1, <2>3, <2>7, <2>8, <1>3 DEF PInv
<1>7. ASSUME NEW h \in Handles, NEW size \in Sizes, HasRoom, Alloc(h, size) PROVE PInv'
  BY <1>7, <1>4, <1>5, PlainAlloc
<1>8. ASSUME NEW h \in Handles, Dealloc(h) PROVE PInv'
  <2>1. /\ mmap' = mmap /\ taken'.ptr = taken.ptr
        /\ \/ taken'.v = taken.v
           \/ \E i \in 1..Len(taken.v) : taken'.v = RemoveAt(taken.v, i)
    BY <1>8, PlainDealloc
  <2>2. CASE taken'.v = taken.v
    BY <2>1, <2>2, <1>4, <1>5
  <2>3. CASE \E i \in 1..Len(taken.v) : taken'.v = RemoveAt(taken.v, i)
    <3>1. PICK i \in 1..Len(taken.v) : taken'.v = RemoveAt(taken.v, i)
      BY <2>3
    <3>2. mmap # <<>>
      BY <3>1, <1>4
    <3>3. Row(RemoveAt(taken.v, i), mmap[1])
      BY <3>1, <3>2, <1>4, RemoveKeepsRow
    <3> QED
      BY <3>1, <3>2, <3>3, <2>1, <1>5
  <2> QED
    BY <2>1, <2>2, <2>3
<1>9. CASE UNCHANGED vars
  BY <1>9 DEF vars, PInv, TypeOK
<1> QED
  BY <1>6, <1>7, <1>8, <1>9 DEF PlainNext

\* PInv holds of every table under plain clients.
LEMMA PlainInvariant == PlainSpec => []PInv
<1>1. Init => PInv
  BY InitInv DEF IInv, PInv, Init
<1> QED
  BY <1>1, PlainStep, PTL DEF PlainSpec

\* Entries of the table never overlap, whichever of them dealloc removes.
THEOREM EntriesStayDisjoint == PlainSpec => []EntriesDisjoint
<1>1. PInv => EntriesDisjoint
  <2> SUFFICES ASSUME PInv, NEW i \in DOMAIN taken.v, NEW j \in DOMAIN taken.v, i # j
               PROVE  Disjoint(taken.v[i], taken.v[j])
    BY DEF EntriesDisjoint
  <2>1. taken.v \in Seq(Section) /\ mmap # <<>>
    BY DEF PInv, TypeOK, Table
  <2>2. i \in 1..Len(taken.v) /\ j \in 1..Len(taken.v) /\ i \in Int /\ j \in Int
    BY <2>1
  <2>3. i < j \/ j < i
    BY <2>2
  <2> QED
    BY <2>1, <2>2, <2>3 DEF PInv, Row, Disjoint
<1> QED
  BY <1>1, PlainInvariant, PTL

-----------------------------------------------------------------------------
(***************************************************************************)
(* The entries of each size, counted.  Sorting keeps their number, push    *)
(* adds one, and dealloc takes one of the size it was given.               *)
(***************************************************************************)
Sized(v, size) == {i \in 1..Len(v) : v[i].size = size}
Count(v, size) == Cardinality(Sized(v, size))
OneIf(b) == IF b THEN 1 ELSE 0

\* Entries are finitely many.
LEMMA SizedFinite ==
  ASSUME NEW v \in Seq(Section), NEW size
  PROVE  IsFiniteSet(Sized(v, size)) /\ Count(v, size) \in Nat
<1>1. Len(v) \in Int /\ 1 \in Int
  OBVIOUS
<1>2. IsFiniteSet(1..Len(v))
  BY <1>1, FS_Interval
<1>3. Sized(v, size) \in SUBSET (1..Len(v))
  BY DEF Sized
<1>4. IsFiniteSet(Sized(v, size))
  BY <1>2, <1>3, FS_Subset
<1> QED
  BY <1>4, FS_CardinalityType DEF Count

\* Entries that go to different entries of their size are no more than those.
LEMMA NoFewer ==
  ASSUME NEW w \in Seq(Section), NEW size, NEW T, NEW f \in [T -> Sized(w, size)],
         \A j, k \in T : f[j] = f[k] => j = k
  PROVE  Cardinality(T) <= Count(w, size)
<1>1. f \in Injection(T, Sized(w, size))
  BY DEF Injection, IsInjective
<1> QED
  BY <1>1, SizedFinite, FS_Injection DEF Count

\* taken_organize loses no entry.
LEMMA OrganizeCounts ==
  ASSUME NEW v \in Seq(Section), NEW x \in Organized(v), NEW size
  PROVE  Count(x, size) >= Count(v, size)
<1>0. x \in Seq(Section) /\ Len(x) = Len(v)
  BY OrganizedType
<1>1. CASE Len(v) = 0
  <2>1. Sized(v, size) = {} /\ Sized(x, size) = {}
    BY <1>0, <1>1 DEF Sized
  <2>2. Count(v, size) = 0 /\ Count(x, size) = 0
    BY <2>1, FS_EmptySet DEF Count
  <2> QED
    BY <2>2
<1>2. CASE Len(v) >= 1
  <2>1. PICK p : Sorts(p, v, x)
    BY <1>2, OrganizedSorts
  <2> DEFINE n == Len(v)
             to(i) == IF i = 1 THEN 1 ELSE CHOOSE k \in 2..n : p[k] = i
             f == [i \in Sized(v, size) |-> to(i)]
  <2>2. ASSUME NEW i \in 1..n
        PROVE  /\ to(i) \in 1..n /\ x[to(i)] = v[i] /\ (i = 1 <=> to(i) = 1)
               /\ i # 1 => p[to(i)] = i
    <3>1. CASE i = 1
      BY <3>1, <1>2, <2>1 DEF Sorts
    <3>2. CASE i # 1
      <4>1. i \in 2..n
        BY <3>2
      <4>2. to(i) \in 2..n /\ p[to(i)] = i
        BY <3>2, <4>1, <2>1, Zenon DEF Sorts
      <4> HIDE DEF to
      <4>3. to(i) \in 1..n /\ to(i) # 1
        BY <4>2
      <4>4. x[to(i)] = v[p[to(i)]]
        BY <4>2, <4>3, <2>1 DEF Sorts
      <4> QED
        BY <4>2, <4>3, <4>4, <3>2
    <3> QED
      BY <3>1, <3>2
  <2> HIDE DEF to
  <2>3. \A i \in Sized(v, size) : to(i) \in Sized(x, size)
    BY <2>2, <1>0 DEF Sized
  <2>4. f \in [Sized(v, size) -> Sized(x, size)]
    BY <2>3
  <2>5. \A j, k \in Sized(v, size) : f[j] = f[k] => j = k
    <3> SUFFICES ASSUME NEW j \in Sized(v, size), NEW k \in Sized(v, size), to(j) = to(k)
                 PROVE  j = k
      OBVIOUS
    <3>1. j \in 1..n /\ k \in 1..n
      BY DEF Sized
    <3> QED
      BY <3>1, <2>2
  <2> HIDE DEF f
  <2>6. Cardinality(Sized(v, size)) <= Count(x, size)
    BY <2>4, <2>5, <1>0, NoFewer
  <2> QED
    BY <2>6, <1>0, SizedFinite DEF Count
<1>3. Len(v) \in Nat
  OBVIOUS
<1> QED
  BY <1>1, <1>2, <1>3

\* push adds one entry of the size pushed.
LEMMA PushCounts ==
  ASSUME NEW v \in Seq(Section), NEW b \in Section, NEW size
  PROVE  Count(Append(v, b), size) = Count(v, size) + OneIf(b.size = size)
<1> DEFINE n == Len(v)
<1>1. /\ n \in Nat /\ Append(v, b) \in Seq(Section) /\ Len(Append(v, b)) = n + 1
      /\ \A i \in 1..n : Append(v, b)[i] = v[i]
      /\ Append(v, b)[n + 1] = b
  OBVIOUS
<1>2. IsFiniteSet(Sized(v, size)) /\ Count(v, size) \in Nat /\ n + 1 \notin Sized(v, size)
  <2>1. IsFiniteSet(Sized(v, size)) /\ Count(v, size) \in Nat
    BY SizedFinite
  <2>2. n + 1 \notin Sized(v, size)
    BY <1>1 DEF Sized
  <2> QED
    BY <2>1, <2>2
<1>3. CASE b.size = size
  <2>1. Sized(Append(v, b), size) = Sized(v, size) \cup {n + 1}
    BY <1>1, <1>3 DEF Sized
  <2> QED
    BY <2>1, <1>2, <1>3, FS_AddElement DEF Count, OneIf
<1>4. CASE b.size # size
  <2>1. Sized(Append(v, b), size) = Sized(v, size)
    BY <1>1, <1>4 DEF Sized
  <2> QED
    BY <2>1, <1>2, <1>4 DEF Count, OneIf
<1> QED
  BY <1>3, <1>4

\* remove takes one entry of the size it had.
LEMMA RemoveCounts ==
  ASSUME NEW v \in Seq(Section), NEW i \in 1..Len(v), NEW size
  PROVE  Count(RemoveAt(v, i), size) >= Count(v, size) - OneIf(v[i].size = size)
<1> DEFINE n == Len(v)
           w == RemoveAt(v, i)
           to(k) == IF k < i THEN k ELSE k - 1
           T == Sized(v, size) \ {i}
           f == [k \in T |-> to(k)]
<1>1. n \in Nat /\ i \in 1..n
  OBVIOUS
<1>2. /\ w \in Seq(Section) /\ Len(w) = n - 1
      /\ \A k \in 1..n - 1 : w[k] = IF k < i THEN v[k] ELSE v[k + 1]
  BY RemoveAtFacts
<1> HIDE DEF w
<1>3. ASSUME NEW k \in T PROVE to(k) \in Sized(w, size)
  <2>1. k \in 1..n /\ k # i /\ v[k].size = size
    BY DEF Sized
  <2>2. to(k) \in 1..n - 1 /\ w[to(k)] = v[k]
    <3>1. CASE k < i
      BY <3>1, <2>1, <1>1, <1>2
    <3>2. CASE ~(k < i)
      <4>1. k - 1 \in 1..n - 1 /\ ~(k - 1 < i) /\ (k - 1) + 1 = k /\ to(k) = k - 1
        BY <3>2, <2>1, <1>1
      <4>2. w[k - 1] = v[(k - 1) + 1]
        BY <4>1, <1>2
      <4> QED
        BY <4>1, <4>2
    <3> QED
      BY <3>1, <3>2
  <2> HIDE DEF to
  <2> QED
    BY <2>1, <2>2, <1>2 DEF Sized
<1>4. \A j, k \in T : f[j] = f[k] => j = k
  <2> SUFFICES ASSUME NEW j \in T, NEW k \in T, to(j) = to(k) PROVE j = k
    OBVIOUS
  <2>1. j \in 1..n /\ k \in 1..n /\ j # i /\ k # i
    BY DEF Sized
  <2> QED
    BY <2>1, <1>1
<1>5. f \in [T -> Sized(w, size)]
  BY <1>3
<1>6. IsFiniteSet(Sized(v, size)) /\ Count(v, size) \in Nat /\ Count(w, size) \in Nat
  BY <1>2, SizedFinite
<1>7. Cardinality(T) = Count(v, size) - OneIf(v[i].size = size)
  <2>1. i \in Sized(v, size) <=> v[i].size = size
    BY DEF Sized
  <2>2. Cardinality(T) = IF i \in Sized(v, size) THEN Count(v, size) - 1 ELSE Count(v, size)
    BY <1>6, FS_RemoveElement DEF Count
  <2>3. CASE v[i].size = size
    BY <2>1, <2>2, <2>3 DEF OneIf
  <2>4. CASE v[i].size # size
    BY <2>1, <2>2, <2>4, <1>6 DEF OneIf
  <2> QED
    BY <2>3, <2>4
<1> HIDE DEF T, f
<1>8. Cardinality(T) <= Count(w, size)
  BY <1>2, <1>4, <1>5, NoFewer
<1> QED
  BY <1>6, <1>7, <1>8 DEF w, OneIf

-----------------------------------------------------------------------------
(***************************************************************************)
(* The books of plain clients, for every size at once.                     *)
(***************************************************************************)
Books ==
  /\ IsFiniteSet(Held)
  /\ mmap = <<>> => Held = {}
  /\ mmap # <<>> => \A size \in Nat :
       Count(taken.v, size) >= Cardinality(BlocksOf(size)) + TablesOf(size)

\* A block more is held, of the size asked for.
LEMMA OneMore ==
  ASSUME IsFiniteSet(Held), live \in [Handles -> Section \cup {NoBlock}],
         NEW h \in Handles, live[h] = NoBlock,
         NEW b \in Section, live' = [live EXCEPT ![h] = b]
  PROVE  /\ IsFiniteSet(Held')
         /\ \A size \in Nat :
              /\ Cardinality(BlocksOf(size)) \in Nat
              /\ Cardinality(BlocksOf(size)') = Cardinality(BlocksOf(size)) + OneIf(b.size = size)
<1>1. b # NoBlock
  BY NoBlockAssumption
<1>2. Held' = Held \cup {h} /\ h \notin Held
  BY <1>1 DEF Held
<1>3. IsFiniteSet(Held')
  BY <1>2, FS_AddElement
<1>4. ASSUME NEW size \in Nat
      PROVE  /\ Cardinality(BlocksOf(size)) \in Nat
             /\ Cardinality(BlocksOf(size)') = Cardinality(BlocksOf(size)) + OneIf(b.size = size)
  <2>1. IsFiniteSet(BlocksOf(size)) /\ h \notin BlocksOf(size)
    BY <1>2, FS_Subset DEF BlocksOf
  <2>2. BlocksOf(size)' = IF b.size = size THEN BlocksOf(size) \cup {h} ELSE BlocksOf(size)
    BY <1>1, <1>2 DEF BlocksOf, Held
  <2>3. /\ Cardinality(BlocksOf(size)) \in Nat
        /\ Cardinality(BlocksOf(size) \cup {h}) = Cardinality(BlocksOf(size)) + 1
    BY <2>1, FS_AddElement, FS_CardinalityType
  <2>4. CASE b.size = size
    BY <2>2, <2>3, <2>4 DEF OneIf
  <2>5. CASE b.size # size
    BY <2>2, <2>3, <2>5 DEF OneIf
  <2> QED
    BY <2>4, <2>5
<1> QED
  BY <1>3, <1>4

\* A block is given back.
LEMMA OneLess ==
  ASSUME IsFiniteSet(Held), live \in [Handles -> Section \cup {NoBlock}],
         NEW h \in Held, live' = [live EXCEPT ![h] = NoBlock]
  PROVE  /\ IsFiniteSet(Held') /\ (Held = {} => Held' = {})
         /\ \A size \in Nat :
              /\ Cardinality(BlocksOf(size)) \in Nat
              /\ Cardinality(BlocksOf(size)')
                   = Cardinality(BlocksOf(size)) - OneIf(live[h].size = size)
<1>1. Held' = Held \ {h} /\ h \in Handles
  BY DEF Held
<1>2. IsFiniteSet(Held')
  BY <1>1, FS_RemoveElement
<1>3. ASSUME NEW size \in Nat
      PROVE  /\ Cardinality(BlocksOf(size)) \in Nat
             /\ Cardinality(BlocksOf(size)')
                  = Cardinality(BlocksOf(size)) - OneIf(live[h].size = size)
  <2>1. IsFiniteSet(BlocksOf(size)) /\ (h \in BlocksOf(size) <=> live[h].size = size)
    BY FS_Subset DEF BlocksOf
  <2>2. BlocksOf(size)' = BlocksOf(size) \ {h}
    BY <1>1 DEF BlocksOf, Held
  <2> QED
    BY <2>1, <2>2, FS_RemoveElement, FS_CardinalityType DEF OneIf
<1> QED
  BY <1>1, <1>2, <1>3

\* update, alloc and dealloc keep the books.
LEMMA BooksStep ==
  ASSUME PInv, Books, [PlainNext]_vars
  PROVE  Books'
<1>1. /\ taken.v \in Seq(Section) /\ live \in [Handles -> Section \cup {NoBlock}]
      /\ mmap = <<>> => taken.v = <<>>
  BY PlainFacts DEF PInv, TypeOK
<1>2. \A size \in Nat : Count(taken.v, size) \in Nat
  BY <1>1, SizedFinite
<1>3. ASSUME NEW m \in Maps, TableHome(m) # {}, Min(TableHome(m)) = 1, Update(m) PROVE Books'
  <2> DEFINE e == Sct(m[1].start, TableBytes)
  <2>1. mmap' = m /\ taken'.v = <<e>> /\ mmap = <<>> /\ live' = live
    BY <1>3 DEF Update
  <2>2. 1 \in TableHome(m)
    <3>1. TableHome(m) \subseteq Nat
      BY MapFacts DEF TableHome
    <3> QED
      BY <3>1, <1>3, MinInSet
  <2>3. m # <<>>
    BY <2>2 DEF TableHome
  <2>4. Held' = {} /\ IsFiniteSet(Held')
    BY <2>1, FS_EmptySet DEF Books, Held
  <2>5. ASSUME NEW size \in Nat
        PROVE  Count(<<e>>, size) >= Cardinality(BlocksOf(size)') + TablesOf(size)
    <3>1. Cardinality(BlocksOf(size)') = 0
      <4>1. BlocksOf(size)' = {}
        BY <2>4 DEF BlocksOf
      <4> QED
        BY <4>1, FS_EmptySet
    <3>2. Sized(<<e>>, size) = IF size = TableBytes THEN {1} ELSE {}
      BY DEF Sized, Sct
    <3>3. Count(<<e>>, size) = IF size = TableBytes THEN 1 ELSE 0
      BY <3>2, FS_Singleton, FS_EmptySet DEF Count
    <3> QED
      BY <3>1, <3>3 DEF TablesOf
  <2> HIDE DEF e
  <2> QED
    BY <2>1, <2>3, <2>4, <2>5 DEF Books
<1>4. ASSUME NEW h \in Handles, NEW size \in Sizes, HasRoom, Alloc(h, size) PROVE Books'
  <2>1. mmap' = mmap /\ live[h] = NoBlock
    BY <1>4, PlainAlloc
  <2>2. CASE taken' = taken /\ live' = live
    BY <2>1, <2>2 DEF Books, Held, BlocksOf, TablesOf
  <2>3. CASE mmap # <<>> /\ \E b \in Section :
              /\ live' = [live EXCEPT ![h] = b] /\ taken'.v \in Organized(Append(taken.v, b))
    <3>1. PICK b \in Section : /\ live' = [live EXCEPT ![h] = b]
                               /\ taken'.v \in Organized(Append(taken.v, b))
      BY <2>3
    <3>2. PICK x \in Organized(Append(taken.v, b)) : taken'.v = x
      BY <3>1
    <3>3. /\ IsFiniteSet(Held')
          /\ \A s \in Nat :
               /\ Cardinality(BlocksOf(s)) \in Nat
               /\ Cardinality(BlocksOf(s)') = Cardinality(BlocksOf(s)) + OneIf(b.size = s)
      BY <1>1, <2>1, <3>1, OneMore DEF Books
    <3>4. ASSUME NEW s \in Nat
          PROVE  Count(x, s) >= Cardinality(BlocksOf(s)') + TablesOf(s)
      <4> DEFINE v == taken.v
                 app == Append(v, b)
      <4>1. app \in Seq(Section) /\ v \in Seq(Section)
        BY <1>1
      <4>2. Count(app, s) = Count(v, s) + OneIf(b.size = s)
        BY <4>1, PushCounts
      <4>3. Count(v, s) >= Cardinality(BlocksOf(s)) + TablesOf(s) /\ Count(v, s) \in Nat
        BY <2>3, <1>2 DEF Books
      <4>4. x \in Organized(app)
        BY <3>2
      <4> HIDE DEF v, app
      <4>5. Count(x, s) >= Count(app, s) /\ Count(x, s) \in Nat
        BY <4>1, <4>4, OrganizeCounts, OrganizedType, SizedFinite
      <4> QED
        BY <4>2, <4>3, <4>5, <3>3 DEF OneIf, TablesOf
    <3> QED
      BY <2>1, <2>3, <3>2, <3>3, <3>4 DEF Books, TablesOf
  <2> QED
    BY <1>4, <2>2, <2>3, PlainAlloc
<1>5. ASSUME NEW h \in Handles, Dealloc(h) PROVE Books'
  <2>1. /\ mmap' = mmap /\ h \in Held /\ live' = [live EXCEPT ![h] = NoBlock]
        /\ \/ taken'.v = taken.v
           \/ \E i \in 1..Len(taken.v) : /\ taken.v[i].size = live[h].size
                                         /\ taken'.v = RemoveAt(taken.v, i)
    BY <1>5, PlainDealloc
  <2>2. /\ IsFiniteSet(Held') /\ (Held = {} => Held' = {})
        /\ \A s \in Nat :
             /\ Cardinality(BlocksOf(s)) \in Nat
             /\ Cardinality(BlocksOf(s)') = Cardinality(BlocksOf(s)) - OneIf(live[h].size = s)
    BY <1>1, <2>1, OneLess DEF Books
  <2>3. ASSUME mmap # <<>>, NEW s \in Nat
        PROVE  Count(taken'.v, s) >= Cardinality(BlocksOf(s)') + TablesOf(s)
    <3>1. Count(taken.v, s) >= Cardinality(BlocksOf(s)) + TablesOf(s) /\ Count(taken.v, s) \in Nat
      BY <2>3, <1>2 DEF Books
    <3>2. CASE taken'.v = taken.v
      BY <3>1, <3>2, <2>2 DEF OneIf, TablesOf
    <3>3. CASE \E i \in 1..Len(taken.v) : /\ taken.v[i].size = live[h].size
                                          /\ taken'.v = RemoveAt(taken.v, i)
      <4>1. PICK i \in 1..Len(taken.v) : /\ taken.v[i].size = live[h].size
                                         /\ taken'.v = RemoveAt(taken.v, i)
        BY <3>3
      <4> DEFINE v == taken.v
                 w == RemoveAt(v, i)
      <4>2. v \in Seq(Section) /\ i \in 1..Len(v) /\ v[i].size = live[h].size
        BY <1>1, <4>1
      <4>3. Count(w, s) >= Count(v, s) - OneIf(live[h].size = s)
        <5> HIDE DEF v
        <5> QED
          BY <4>2, RemoveCounts
      <4>4. Count(w, s) \in Nat
        <5> HIDE DEF v
        <5> QED
          BY <4>2, RemoveAtFacts, SizedFinite
      <4>5. Count(taken'.v, s) = Count(w, s)
        BY <4>1
      <4> HIDE DEF w, v
      <4>6. Count(v, s) >= Cardinality(BlocksOf(s)) + TablesOf(s) /\ Count(v, s) \in Nat
        BY <3>1 DEF v
      <4>7. /\ Cardinality(BlocksOf(s)) \in Nat
            /\ Cardinality(BlocksOf(s)') = Cardinality(BlocksOf(s)) - OneIf(live[h].size = s)
        BY <2>2
      <4> DEFINE one == OneIf(live[h].size = s)
      <4>8. one \in Nat
        BY DEF OneIf
      <4>9. TablesOf(s) \in Nat
        BY DEF TablesOf
      <4> HIDE DEF one
      <4>10. Count(w, s) >= Count(v, s) - one
        BY <4>3 DEF one
      <4>11. Cardinality(BlocksOf(s)') = Cardinality(BlocksOf(s)) - one
        BY <4>7 DEF one
      <4>12. Count(w, s) >= Cardinality(BlocksOf(s)') + TablesOf(s)
        BY <4>4, <4>6, <4>7, <4>8, <4>9, <4>10, <4>11
      <4> QED
        BY <4>5, <4>12
    <3> QED
      BY <2>1, <3>2, <3>3
  <2> QED
    BY <2>1, <2>2, <2>3 DEF Books, TablesOf
<1>6. CASE UNCHANGED vars
  BY <1>6 DEF vars, Books, Held, BlocksOf, TablesOf
<1> QED
  BY <1>3, <1>4, <1>5, <1>6 DEF PlainNext

\* Of each size the table has an entry for every block held, and one for
\* itself: dealloc may forget a block's place, but never that it is there.
THEOREM BooksStayCovered == PlainSpec => []BooksCover
<1>1. Init => Books
  BY FS_EmptySet DEF Init, Books, Held
<1>2. PInv /\ Books /\ [PlainNext]_vars => Books'
  BY BooksStep
<1>3. PInv /\ Books => BooksCover
  <2> SUFFICES ASSUME PInv, Books, mmap # <<>>, NEW size \in Sizes \cup {TableBytes}
               PROVE  Cardinality(EntriesOf(size))
                        >= Cardinality(BlocksOf(size)) + TablesOf(size)
    BY DEF BooksCover
  <2>1. size \in Nat
    BY SizesAssumption, TableAssumption
  <2>2. EntriesOf(size) = Sized(taken.v, size)
    BY PlainFacts DEF EntriesOf, Sized
  <2> QED
    BY <2>1, <2>2 DEF Books, Count
<1> QED
  BY <1>1, <1>2, <1>3, PlainInvariant, PTL DEF PlainSpec
=============================================================================
