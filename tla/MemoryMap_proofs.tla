--------------------------- MODULE MemoryMap_proofs ---------------------------
(***************************************************************************)
(* get_mmap on every memory map, every set of reserved ranges and every    *)
(* array length: what it returns is free memory in ascending sections with *)
(* gaps between them, without address 0, and rip_section takes out what it *)
(* was given at a section's edges and nothing besides.                     *)
(*                                                                         *)
(* The first half is about the operators on sequences of sections, for all *)
(* sequences; the second about the states of get_mmap.                     *)
(***************************************************************************)
EXTENDS MemoryMap, MemSection_proofs, MinTheorems, SequenceTheorems

\* Sections that ascend with gaps between them; only the first can start at 0.
Ordered(v) == \A j, k \in DOMAIN v : j < k => Limit(v[j]) < v[k].start

\* Every section of v is in w, and strictly ascending starts.
Among(v, w) == \A k \in 1..Len(v) : \E j \in 1..Len(w) : v[k] = w[j]
Strict(v) == \A j, k \in 1..Len(v) : j < k => v[j].start < v[k].start
Distinct(v) == \A j, k \in 1..Len(v) : v[j].start = v[k].start => j = k

\* w is v in the order of p.
Permutes(p, v, w) ==
  /\ p \in [1..Len(v) -> 1..Len(v)]
  /\ \A j, k \in 1..Len(v) : p[j] = p[k] => j = k
  /\ \A m \in 1..Len(v) : \E k \in 1..Len(v) : p[k] = m
  /\ \A k \in 1..Len(v) : w[k] = v[p[k]]

-----------------------------------------------------------------------------
\* A section's numbers.
LEMMA SectionFacts ==
  ASSUME NEW s \in Section
  PROVE  /\ s.start \in Nat /\ s.size \in Nat /\ Limit(s) \in Nat
         /\ Limit(s) = s.start + s.size /\ s = Sct(s.start, s.size)
BY DEF Section, Limit, Sct

\* The fields and the limit of a section that is built.
LEMMA SctFacts ==
  ASSUME NEW start \in Nat, NEW size \in Nat
  PROVE  /\ Sct(start, size) \in Section /\ Sct(start, size).start = start
         /\ Sct(start, size).size = size /\ Limit(Sct(start, size)) = start + size
BY DEF Section, Limit, Sct

\* Sorting permutes: every section stays, none is added.
LEMMA SortedFacts ==
  ASSUME NEW v \in Seq(Section), NEW w \in Sorted(v)
  PROVE  /\ w \in Seq(Section) /\ Len(w) = Len(v) /\ Ascending(w)
         /\ \E p : Permutes(p, v, w)
<1> DEFINE n == Len(v)
<1>1. n \in Nat /\ DOMAIN v = 1..n /\ \A k \in 1..n : v[k] \in Section
  OBVIOUS
<1>2. PICK p \in Bijection(1..n, 1..n) : w = [k \in 1..n |-> v[p[k]]] /\ Ascending(w)
  BY <1>1, Zenon DEF Sorted
<1>3. p \in [1..n -> 1..n] /\ \A m \in 1..n : \E k \in 1..n : p[k] = m
  BY Zenon DEF Bijection, Injection, Surjection
<1>4. \A j, k \in 1..n : p[j] = p[k] => j = k
  BY <1>3 DEF Bijection, Injection, IsInjective
<1>5. w \in Seq(Section) /\ Len(w) = n /\ \A k \in 1..n : w[k] = v[p[k]]
  <2>1. \A k \in 1..n : p[k] \in 1..n
    BY <1>3
  <2>2. \A k \in 1..n : v[p[k]] \in Section
    BY <2>1, <1>1
  <2> QED
    BY <1>1, <1>2, <2>2
<1>6. Permutes(p, v, w)
  BY <1>3, <1>4, <1>5, Zenon DEF Permutes
<1> QED
  BY <1>2, <1>5, <1>6

\* Sorting neither adds a section nor loses one.
LEMMA SortedAmong ==
  ASSUME NEW v \in Seq(Section), NEW w \in Sorted(v)
  PROVE  Among(v, w) /\ Among(w, v)
<1>1. PICK p : w \in Seq(Section) /\ Len(w) = Len(v) /\ Permutes(p, v, w)
  BY SortedFacts
<1>2. ASSUME NEW m \in 1..Len(v) PROVE \E k \in 1..Len(w) : v[m] = w[k]
  <2>1. PICK k \in 1..Len(v) : p[k] = m
    BY <1>1 DEF Permutes
  <2> QED
    BY <1>1, <2>1 DEF Permutes
<1>3. ASSUME NEW k \in 1..Len(w) PROVE \E m \in 1..Len(v) : w[k] = v[m]
  BY <1>1 DEF Permutes
<1> QED
  BY <1>2, <1>3 DEF Among

\* Sections that start in different places come out strictly ascending.
LEMMA SortedStrict ==
  ASSUME NEW v \in Seq(Section), NEW w \in Sorted(v), Distinct(v)
  PROVE  Strict(w)
<1>1. PICK p : w \in Seq(Section) /\ Len(w) = Len(v) /\ Ascending(w) /\ Permutes(p, v, w)
  BY SortedFacts
<1> SUFFICES ASSUME NEW j \in 1..Len(w), NEW k \in 1..Len(w), j < k
             PROVE  w[j].start < w[k].start
  BY DEF Strict
<1>2. j \in DOMAIN w /\ k \in DOMAIN w /\ w[j] \in Section /\ w[k] \in Section
  BY <1>1
<1>3. w[j].start <= w[k].start /\ w[j].start \in Nat /\ w[k].start \in Nat
  <2>1. w[j].start <= w[k].start
    BY <1>1, <1>2 DEF Ascending
  <2> QED
    BY <2>1, <1>2, SectionFacts, Zenon
<1>4. w[j].start # w[k].start
  <2>1. /\ p[j] \in 1..Len(v) /\ p[k] \in 1..Len(v) /\ p[j] # p[k]
        /\ w[j] = v[p[j]] /\ w[k] = v[p[k]]
    <3>1. j \in 1..Len(v) /\ k \in 1..Len(v) /\ j # k
      BY <1>1
    <3> QED
      BY <3>1, <1>1, Zenon DEF Permutes
  <2> QED
    BY <2>1, Zenon DEF Distinct
<1> QED
  BY <1>3, <1>4

\* What is among what is among.
LEMMA AmongTransitive ==
  ASSUME NEW u, NEW v, NEW w, Among(u, v), Among(v, w)
  PROVE  Among(u, w)
BY Zenon DEF Among

\* Two sequences of the same sections, with strictly ascending starts, are one.
LEMMA StrictIsUnique ==
  ASSUME NEW v \in Seq(Section), NEW w \in Seq(Section), Len(v) = Len(w),
         Strict(v), Strict(w), Among(v, w), Among(w, v)
  PROVE  w = v
<1> DEFINE differ == {k \in 1..Len(v) : w[k] # v[k]}
<1>1. \A k \in 1..Len(v) : /\ v[k] \in Section /\ w[k] \in Section
                           /\ v[k].start \in Nat /\ w[k].start \in Nat
  <2>1. \A k \in 1..Len(v) : v[k] \in Section /\ w[k] \in Section
    OBVIOUS
  <2> QED
    BY <2>1, SectionFacts, Zenon
<1>2. ASSUME differ # {} PROVE FALSE
  <2>1. differ \subseteq Nat
    OBVIOUS
  <2>2. PICK m \in differ : \A k \in differ : m <= k
    BY <1>2, <2>1, MinInSet
  <2>3. m \in 1..Len(v) /\ w[m] # v[m] /\ \A k \in 1..Len(v) : k < m => w[k] = v[k]
    BY <2>2
  <2>4. PICK j \in 1..Len(v) : w[m] = v[j]
    BY <2>3 DEF Among
  <2>5. PICK l \in 1..Len(v) : v[m] = w[l]
    BY <2>3 DEF Among
  <2>6. v[m].start < w[m].start
    <3>1. CASE j < m
      <4>1. w[m] = w[j] /\ w[j].start < w[m].start
        BY <3>1, <2>3, <2>4 DEF Strict
      <4> QED
        BY <4>1, <1>1, <2>3
    <3>2. CASE j > m
      BY <3>2, <2>3, <2>4 DEF Strict
    <3> QED
      BY <3>1, <3>2, <2>3, <2>4
  <2>7. w[m].start < v[m].start
    <3>1. CASE l < m
      <4>1. v[m] = v[l] /\ v[l].start < v[m].start
        BY <3>1, <2>3, <2>5 DEF Strict
      <4> QED
        BY <4>1, <1>1, <2>3
    <3>2. CASE l > m
      BY <3>2, <2>3, <2>5 DEF Strict
    <3> QED
      BY <3>1, <3>2, <2>3, <2>5
  <2> QED
    BY <2>6, <2>7, <2>3, <1>1
<1>3. \A k \in 1..Len(v) : w[k] = v[k]
  BY <1>2
<1> QED
  BY <1>3, SeqEqual

\* Sorting sections of which no two touch puts gaps between neighbours.
LEMMA SortedApart ==
  ASSUME NEW v \in Seq(Section), NEW w \in Sorted(v),
         \A j, k \in 1..Len(v) : j # k => Apart(v[j], v[k])
  PROVE  Ordered(w)
<1>1. PICK p : w \in Seq(Section) /\ Len(w) = Len(v) /\ Ascending(w) /\ Permutes(p, v, w)
  BY SortedFacts
<1>2. DOMAIN w = 1..Len(v) /\ \A k \in 1..Len(v) : w[k] \in Section
  BY <1>1
<1> SUFFICES ASSUME NEW j \in DOMAIN w, NEW k \in DOMAIN w, j < k
             PROVE  Limit(w[j]) < w[k].start
  BY DEF Ordered
<1>3. j \in 1..Len(v) /\ k \in 1..Len(v) /\ p[j] # p[k]
  BY <1>1, <1>2 DEF Permutes
<1>s. /\ w[j].start \in Nat /\ w[j].size \in Nat /\ Limit(w[j]) = w[j].start + w[j].size
      /\ w[k].start \in Nat /\ w[k].size \in Nat /\ Limit(w[k]) = w[k].start + w[k].size
  BY <1>2, <1>3, SectionFacts, Zenon
<1>4. Apart(w[j], w[k])
  <2>1. p[j] \in 1..Len(v) /\ p[k] \in 1..Len(v) /\ w[j] = v[p[j]] /\ w[k] = v[p[k]]
    BY <1>1, <1>3 DEF Permutes
  <2> QED
    BY <2>1, <1>3
<1>5. w[j].start <= w[k].start
  BY <1>1 DEF Ascending
<1> QED
  BY <1>s, <1>4, <1>5 DEF Apart

\* RemoveAt closes the gap.
LEMMA RemoveAtFacts ==
  ASSUME NEW v \in Seq(Section), NEW j \in 1..Len(v)
  PROVE  /\ RemoveAt(v, j) \in Seq(Section) /\ Len(RemoveAt(v, j)) = Len(v) - 1
         /\ \A k \in 1..Len(v) - 1 :
              RemoveAt(v, j)[k] = IF k < j THEN v[k] ELSE v[k + 1]
<1> DEFINE a == SubSeq(v, 1, j - 1)
           c == SubSeq(v, j + 1, Len(v))
<1>1. a \in Seq(Section) /\ Len(a) = j - 1 /\ \A k \in 1..j - 1 : a[k] = v[k]
  OBVIOUS
<1>2. c \in Seq(Section) /\ Len(c) = Len(v) - j /\ \A k \in 1..Len(v) - j : c[k] = v[j + k]
  OBVIOUS
<1>3. RemoveAt(v, j) = a \o c /\ Len(v) \in Nat /\ j \in Nat /\ j >= 1 /\ j <= Len(v)
  BY DEF RemoveAt
<1> HIDE DEF a, c
<1>4. a \o c \in Seq(Section) /\ Len(a \o c) = Len(v) - 1
  <2>1. a \o c \in Seq(Section) /\ Len(a \o c) = Len(a) + Len(c)
    BY <1>1, <1>2, ConcatProperties
  <2> QED
    BY <2>1, <1>1, <1>2, <1>3
<1>5. ASSUME NEW k \in 1..Len(v) - 1
      PROVE  (a \o c)[k] = IF k < j THEN v[k] ELSE v[k + 1]
  <2>1. CASE k < j
    BY <2>1, <1>1, <1>2
  <2>2. CASE k >= j
    <3>1. (a \o c)[k] = c[k - (j - 1)] /\ k - (j - 1) \in 1..Len(v) - j
      BY <2>2, <1>1, <1>2
    <3> QED
      BY <3>1, <2>2, <1>2
  <2>3. k < j \/ k >= j
    BY <1>3
  <2> QED
    BY <2>1, <2>2, <2>3
<1> QED
  BY <1>3, <1>4, <1>5

\* The removing idiom, at j: one of (0, 0) and the sections that start at 0
\* goes, the others are sorted.
LEMMA RemovedIs ==
  ASSUME NEW v \in Seq(Section), NEW j \in 1..Len(v), NEW w \in Removed(v, j)
  PROVE  \E m \in 1..Len(v) :
           /\ IF m = j THEN TRUE ELSE v[m].start = 0
           /\ w \in Sorted(RemoveAt(Zeroed(v, j), m))
           /\ Zeroed(v, j) \in Seq(Section) /\ Len(Zeroed(v, j)) = Len(v)
           /\ \A k \in 1..Len(v) : Zeroed(v, j)[k] = IF k = j THEN Sct(0, 0) ELSE v[k]
<1> DEFINE z == Zeroed(v, j)
<1>1. Sct(0, 0) \in Section
  BY DEF Sct, Section
<1>2. /\ z \in Seq(Section) /\ Len(z) = Len(v)
      /\ \A k \in 1..Len(v) : z[k] = IF k = j THEN Sct(0, 0) ELSE v[k]
  BY <1>1 DEF Zeroed
<1>3. PICK m \in DOMAIN v : z[m].start = 0 /\ w \in Sorted(RemoveAt(z, m))
  BY Zenon DEF Removed
<1>4. m \in 1..Len(v)
  OBVIOUS
<1>5. IF m = j THEN TRUE ELSE v[m].start = 0
  BY <1>2, <1>3, <1>4
<1> QED
  BY <1>2, <1>3, <1>4, <1>5

\* So what is left ascends, and holds nothing new but a (0, 0).
LEMMA RemovedFacts ==
  ASSUME NEW v \in Seq(Section), NEW j \in 1..Len(v), NEW w \in Removed(v, j)
  PROVE  /\ w \in Seq(Section) /\ Len(w) = Len(v) - 1 /\ Ascending(w)
         /\ \A k \in 1..Len(w) : w[k] = Sct(0, 0) \/ \E m \in 1..Len(v) : w[k] = v[m]
<1> DEFINE z == Zeroed(v, j)
<1>1. PICK m \in 1..Len(v) :
        /\ w \in Sorted(RemoveAt(z, m)) /\ z \in Seq(Section) /\ Len(z) = Len(v)
        /\ \A k \in 1..Len(v) : z[k] = IF k = j THEN Sct(0, 0) ELSE v[k]
  BY RemovedIs, Zenon
<1> DEFINE u == RemoveAt(z, m)
<1> HIDE DEF z
<1>2. /\ u \in Seq(Section) /\ Len(u) = Len(v) - 1
      /\ \A k \in 1..Len(v) - 1 : u[k] = IF k < m THEN z[k] ELSE z[k + 1]
  BY <1>1, RemoveAtFacts
<1> HIDE DEF u
<1>3. w \in Seq(Section) /\ Len(w) = Len(u) /\ Ascending(w) /\ Among(w, u)
  <2>1. w \in Sorted(u)
    BY <1>1 DEF u
  <2> QED
    BY <2>1, <1>2, SortedFacts, SortedAmong
<1>4. ASSUME NEW k \in 1..Len(w)
      PROVE  w[k] = Sct(0, 0) \/ \E l \in 1..Len(v) : w[k] = v[l]
  <2>1. PICK q \in 1..Len(v) - 1 : w[k] = u[q]
    BY <1>2, <1>3 DEF Among
  <2>2. \E l \in 1..Len(v) : w[k] = z[l]
    <3>1. q \in 1..Len(v) /\ q + 1 \in 1..Len(v)
      OBVIOUS
    <3>2. u[q] = z[q] \/ u[q] = z[q + 1]
      BY <2>1, <1>2
    <3> QED
      BY <2>1, <3>1, <3>2
  <2> QED
    BY <2>2, <1>1
<1> QED
  BY <1>2, <1>3, <1>4

(***************************************************************************)
(* From sections with gaps between them the idiom removes the right one,   *)
(* or empties the one at address 0 as well.                                *)
(***************************************************************************)
Cut(v, j, w) ==
  /\ w \in Seq(Section) /\ Len(w) = Len(v) - 1
  /\ \A k \in 1..Len(v) - 1 :
       \/ w[k] = IF k < j THEN v[k] ELSE v[k + 1]
       \/ k = 1 /\ j # 1 /\ v[1].start = 0 /\ w[k] = Sct(0, 0)

\* In an ordered array a lower index means lower addresses.
LEMMA OrderedFacts ==
  ASSUME NEW v \in Seq(Section), Ordered(v), NEW j \in 1..Len(v), NEW k \in 1..Len(v), j < k
  PROVE  /\ Limit(v[j]) < v[k].start /\ v[j].start < v[k].start /\ v[k].start > 0
         /\ v[j].start \in Nat /\ v[k].start \in Nat
         /\ Limit(v[j]) \in Nat /\ v[j].start <= Limit(v[j])
<1>1. v[j] \in Section /\ v[k] \in Section /\ j \in DOMAIN v /\ k \in DOMAIN v
  OBVIOUS
<1>2. Limit(v[j]) < v[k].start
  BY <1>1 DEF Ordered
<1>3. /\ v[j].start \in Nat /\ v[j].size \in Nat /\ v[k].start \in Nat
      /\ Limit(v[j]) = v[j].start + v[j].size
  BY <1>1, SectionFacts, Zenon
<1> QED
  BY <1>2, <1>3

\* organize after the removal of one section leaves the other sections of an ordered array as they are.
LEMMA RemovedFromOrdered ==
  ASSUME NEW v \in Seq(Section), Ordered(v), NEW j \in 1..Len(v), NEW w \in Removed(v, j)
  PROVE  Cut(v, j, w)
<1> DEFINE z == Zeroed(v, j)
           n == Len(v) - 1
<1>0. Len(v) \in Nat /\ n \in Nat /\ j \in 1..n + 1 /\ Len(v) = n + 1
  OBVIOUS
<1>1. PICK m \in 1..n + 1 :
        /\ IF m = j THEN TRUE ELSE v[m].start = 0
        /\ w \in Sorted(RemoveAt(z, m)) /\ z \in Seq(Section) /\ Len(z) = n + 1
        /\ \A k \in 1..n + 1 : z[k] = IF k = j THEN Sct(0, 0) ELSE v[k]
  BY RemovedIs, <1>0
<1> DEFINE u == RemoveAt(z, m)
           x == [k \in 1..n |-> IF k = 1 /\ m # j THEN Sct(0, 0)
                                ELSE IF k < j THEN v[k] ELSE v[k + 1]]
<1> HIDE DEF z
<1>2. /\ u \in Seq(Section) /\ Len(u) = n
      /\ \A k \in 1..n : u[k] = IF k < m THEN z[k] ELSE z[k + 1]
  <2>1. Len(z) - 1 = n /\ m \in 1..Len(z)
    BY <1>0, <1>1
  <2> QED
    BY <1>1, <2>1, RemoveAtFacts
<1>3. w \in Sorted(u)
  BY <1>1
<1>n. n = Len(v) - 1
  OBVIOUS
<1> HIDE DEF u, n
<1>4. m # j => m = 1 /\ v[1].start = 0
  <2> SUFFICES ASSUME m # j PROVE m = 1 /\ v[1].start = 0
    OBVIOUS
  <2>1. v[m].start = 0 /\ m \in Nat /\ m >= 1
    BY <1>0, <1>1
  <2>2. ~ (1 < m)
    <3> SUFFICES ASSUME 1 < m PROVE FALSE
      OBVIOUS
    <3>1. 1 \in 1..Len(v) /\ m \in 1..Len(v)
      BY <1>0, <1>1
    <3>2. v[m].start > 0
      BY <3>1, OrderedFacts
    <3> QED
      BY <3>2, <2>1
  <2> QED
    BY <2>1, <2>2
<1>5. /\ x \in Seq(Section) /\ Len(x) = n
      /\ \A k \in 1..n : x[k] = IF k = 1 /\ m # j THEN Sct(0, 0)
                                ELSE IF k < j THEN v[k] ELSE v[k + 1]
  <2>1. Sct(0, 0) \in Section
    BY DEF Sct, Section
  <2>2. \A k \in 1..n : v[k] \in Section /\ v[k + 1] \in Section
    BY <1>0
  <2>3. x \in [1..n -> Section]
    BY <2>1, <2>2
  <2> QED
    BY <2>3, <1>0
<1> HIDE DEF x
<1>6. Strict(x)
  <2> SUFFICES ASSUME NEW k \in 1..n, NEW l \in 1..n, k < l
               PROVE  x[k].start < x[l].start
    BY <1>5 DEF Strict
  <2> DEFINE at(q) == IF q < j THEN q ELSE q + 1
  <2>1. /\ at(k) \in 1..Len(v) /\ at(l) \in 1..Len(v) /\ at(k) < at(l) /\ l # 1
    BY <1>0
  <2>2. x[l] = v[at(l)]
    BY <1>5, <2>1
  <2>3. x[k] = Sct(0, 0) \/ x[k] = v[at(k)]
    BY <1>5
  <2>4. v[at(k)].start < v[at(l)].start /\ v[at(l)].start > 0
    BY <2>1, OrderedFacts
  <2> HIDE DEF at
  <2> QED
    BY <2>2, <2>3, <2>4 DEF Sct
<1>7. Among(x, u) /\ Among(u, x)
  <2>1. CASE m = j
    <3>1. \A k \in 1..n : k \in 1..n + 1 /\ k + 1 \in 1..n + 1
      BY <1>0
    <3>2. \A k \in 1..n : u[k] = x[k]
      BY <2>1, <3>1, <1>0, <1>1, <1>2, <1>5
    <3> QED
      BY <3>2, <1>2, <1>5 DEF Among
  <2>2. CASE m # j
    <3>1. \A k \in 1..n : u[k] = IF k + 1 = j THEN Sct(0, 0) ELSE v[k + 1]
      BY <2>2, <1>0, <1>1, <1>2, <1>4
    <3>2. j \in 2..n + 1
      BY <2>2, <1>4, <1>0
    <3>3. ASSUME NEW k \in 1..n PROVE \E l \in 1..n : x[k] = u[l]
      <4>1. CASE k = 1
        <5>1. j - 1 \in 1..n /\ u[j - 1] = Sct(0, 0)
          BY <3>1, <3>2, <1>0
        <5> QED
          BY <5>1, <4>1, <2>2, <1>5
      <4>2. CASE k # 1 /\ k < j
        <5>1. k - 1 \in 1..n /\ u[k - 1] = v[k]
          BY <4>2, <3>1, <1>0
        <5> QED
          BY <5>1, <4>2, <1>5
      <4>3. CASE k # 1 /\ ~(k < j)
        <5>1. u[k] = v[k + 1]
          BY <4>3, <3>1, <3>2, <1>0
        <5> QED
          BY <5>1, <4>3, <1>5
      <4> QED
        BY <4>1, <4>2, <4>3
    <3>4. ASSUME NEW k \in 1..n PROVE \E l \in 1..n : u[k] = x[l]
      <4>1. CASE k + 1 = j
        <5>1. 1 \in 1..n /\ x[1] = Sct(0, 0)
          BY <2>2, <1>0, <1>5
        <5> QED
          BY <5>1, <4>1, <3>1
      <4>2. CASE k + 1 < j
        <5>1. k + 1 \in 1..n /\ x[k + 1] = v[k + 1]
          BY <4>2, <3>2, <1>0, <1>5
        <5> QED
          BY <5>1, <4>2, <3>1
      <4>3. CASE k + 1 > j
        <5>1. x[k] = v[k + 1]
          BY <4>3, <3>2, <1>0, <1>5
        <5> QED
          BY <5>1, <4>3, <3>1
      <4> QED
        BY <4>1, <4>2, <4>3, <3>2, <1>0
    <3> QED
      BY <3>3, <3>4, <1>2, <1>5 DEF Among
  <2> QED
    BY <2>1, <2>2
<1>8. Distinct(u)
  <2> SUFFICES ASSUME NEW k \in 1..n, NEW l \in 1..n, k < l
               PROVE  u[k].start # u[l].start
    BY <1>2 DEF Distinct
  <2>1. CASE m = j
    <3>1. u[k] = x[k] /\ u[l] = x[l]
      BY <2>1, <1>0, <1>1, <1>2, <1>5
    <3>2. u[k].start < u[l].start /\ u[k] \in Section /\ u[l] \in Section
      BY <3>1, <1>2, <1>5, <1>6 DEF Strict
    <3>3. u[k].start \in Nat /\ u[l].start \in Nat
      BY <3>2, SectionFacts, Zenon
    <3> QED
      BY <3>2, <3>3
  <2>2. CASE m # j
    <3>1. \A q \in 1..n : u[q] = IF q + 1 = j THEN Sct(0, 0) ELSE v[q + 1]
      BY <2>2, <1>0, <1>1, <1>2, <1>4
    <3>2. /\ k + 1 \in 1..Len(v) /\ l + 1 \in 1..Len(v) /\ 1 \in 1..Len(v)
          /\ k + 1 < l + 1 /\ 1 < k + 1 /\ 1 < l + 1
      BY <1>0
    <3>3. /\ v[k + 1].start < v[l + 1].start /\ v[k + 1].start > 0 /\ v[l + 1].start > 0
          /\ v[k + 1].start \in Nat /\ v[l + 1].start \in Nat
      BY <3>2, OrderedFacts
    <3>4. \/ u[k] = Sct(0, 0) /\ u[l] = v[l + 1]
          \/ u[k] = v[k + 1] /\ u[l] = Sct(0, 0)
          \/ u[k] = v[k + 1] /\ u[l] = v[l + 1]
      BY <3>1, <3>2
    <3>5. Sct(0, 0).start = 0
      BY DEF Sct
    <3> QED
      BY <3>3, <3>4, <3>5
  <2> QED
    BY <2>1, <2>2
<1>9. w = x
  <2>1. w \in Seq(Section) /\ Len(w) = n /\ Among(w, u) /\ Among(u, w) /\ Strict(w)
    BY <1>2, <1>3, <1>8, SortedFacts, SortedAmong, SortedStrict
  <2>2. Among(w, x) /\ Among(x, w)
    BY <2>1, <1>7, AmongTransitive
  <2> QED
    BY <2>1, <2>2, <1>5, <1>6, StrictIsUnique
<1> QED
  BY <1>n, <1>4, <1>5, <1>9 DEF Cut

-----------------------------------------------------------------------------
(***************************************************************************)
(* Sections the map may hold: no byte outside the free ones, no end that   *)
(* wraps, and none empty but what the removing idiom leaves at address 0.  *)
(***************************************************************************)
Safe(s, free) ==
  /\ s \in Section /\ Limit(s) < UsizeBound
  /\ Bytes(s) \subseteq free
  /\ s.size = 0 => s.start = 0
AllSafe(v, free) == v \in Seq(Section) /\ \A k \in 1..Len(v) : Safe(v[k], free)

\* The section the removed element is marked with is safe whatever is free.
LEMMA EmptySafe ==
  ASSUME NEW free
  PROVE  Safe(Sct(0, 0), free)
BY UsizeBoundAssumption DEF Safe, Sct, Section, Limit, Bytes

\* A part of a safe section is safe.
LEMMA WithinSafe ==
  ASSUME NEW free, NEW m, Safe(m, free), NEW s \in Section, Within(s, m),
         s.size = 0 => s.start = 0
  PROVE  Safe(s, free)
BY UsizeBoundAssumption DEF Safe, Section, Limit, Bytes, Within

\* organize after a removal leaves safe sections, in ascending order and one fewer.
LEMMA RemovedSafe ==
  ASSUME NEW free, NEW v, AllSafe(v, free), NEW j \in 1..Len(v), NEW w \in Removed(v, j)
  PROVE  AllSafe(w, free) /\ Len(w) = Len(v) - 1 /\ Ascending(w)
<1>1. v \in Seq(Section)
  BY DEF AllSafe
<1>2. /\ w \in Seq(Section) /\ Len(w) = Len(v) - 1 /\ Ascending(w)
      /\ \A k \in 1..Len(w) : w[k] = Sct(0, 0) \/ \E m \in 1..Len(v) : w[k] = v[m]
  BY <1>1, RemovedFacts
<1>3. ASSUME NEW k \in 1..Len(w) PROVE Safe(w[k], free)
  <2>1. CASE w[k] = Sct(0, 0)
    BY <2>1, EmptySafe
  <2>2. CASE \E m \in 1..Len(v) : w[k] = v[m]
    BY <2>2 DEF AllSafe
  <2> QED
    BY <1>2, <2>1, <2>2
<1> QED
  BY <1>2, <1>3 DEF AllSafe

\* Counting in pages gives no more than counting in bytes.
LEMMA PagesAtMost ==
  ASSUME NEW n \in Nat
  PROVE  Pages(n) \in Nat /\ Pages(n) <= n
<1>1. PageBytes \in Nat /\ PageBytes >= 1
  BY SizeAssumption
<1>2. PICK q \in Nat, r \in Nat : q = Pages(n) /\ n = (PageBytes * q) + r
  <2>1. /\ n \div PageBytes \in Nat /\ n % PageBytes \in Nat
        /\ n = (PageBytes * (n \div PageBytes)) + (n % PageBytes)
    BY <1>1
  <2> QED
    BY <2>1 DEF Pages
<1>3. q <= PageBytes * q
  BY <1>1
<1> QED
  BY <1>1, <1>2, <1>3

(***************************************************************************)
(* glue_section's merging loop.                                            *)
(***************************************************************************)
\* Two sections that meet leave, at most, what they held together.
LEMMA MeetingSafe ==
  ASSUME NEW free, NEW a, NEW b, Safe(a, free), Safe(b, free),
         a.start <= b.start, b.start <= Limit(a),
         NEW gap \in Nat, gap <= b.start - a.start
  PROVE  LET s == Sct(a.start, gap + b.size)
         IN  s \in Section /\ (Limit(a) <= Limit(b) => Safe(s, free))
<1> DEFINE s == Sct(a.start, gap + b.size)
<1>1. /\ a \in Section /\ b \in Section
      /\ a.start \in Nat /\ a.size \in Nat /\ Limit(a) = a.start + a.size
      /\ b.start \in Nat /\ b.size \in Nat /\ Limit(b) = b.start + b.size
  BY SectionFacts, Zenon DEF Safe
<1>2. /\ s \in Section /\ s.start = a.start /\ s.size = gap + b.size
      /\ Limit(s) = a.start + gap + b.size
  BY <1>1 DEF Sct, Section, Limit
<1> HIDE DEF s
<1>3. Limit(s) <= Limit(b)
  BY <1>1, <1>2
<1>4. ASSUME NEW x \in Bytes(s) PROVE x \in Bytes(a) \cup Bytes(b)
  BY <1>1, <1>2, <1>3 DEF Bytes
<1>5. s.size = 0 => s.start = 0
  <2>1. b.size = 0 => b.start = 0
    BY DEF Safe
  <2>2. s.size = 0 => b.size = 0
    BY <1>1, <1>2
  <2>3. b.start = 0 => s.start = 0
    BY <1>1, <1>2
  <2> QED
    BY <2>1, <2>2, <2>3, Zenon
<1>6. Safe(s, free)
  BY <1>1, <1>2, <1>3, <1>4, <1>5, UsizeBoundAssumption DEF Safe
<1> QED
  BY <1>2, <1>6 DEF s

\* One pass of glue_section's merging loop keeps the array safe and ascending and shortens it.
LEMMA MergePassSafe ==
  ASSUME NEW free, NEW v, AllSafe(v, free), Ascending(v), Windows(v) # {},
         NEW w \in MergePass(v)
  PROVE  AllSafe(w, free) /\ Len(w) = Len(v) - 1 /\ Ascending(w)
<1> DEFINE j == Min(Windows(v))
           a == v[j]
           b == v[j + 1]
<1>1. /\ j \in 1..Len(v) /\ j + 1 \in 1..Len(v) /\ Answer(v, j) # "Separate"
      /\ v \in Seq(Section)
  <2>1. Windows(v) \subseteq Nat
    BY DEF Windows
  <2>2. j \in Windows(v)
    BY <2>1, MinInSet
  <2> QED
    BY <2>2 DEF Windows, AllSafe
<1>w. w \in CASE Answer(v, j) = "NoChange"    -> Removed(v, j + 1)
        [] Answer(v, j) = "Overwrite"   -> Removed(v, j)
        [] Answer(v, j) = "StartBranch" ->
             Removed([v EXCEPT ![j] = Sct(a.start, Pages(Sub(b.start, a.start)) + b.size)],
                     j + 1)
        [] Answer(v, j) = "EndBranch"   ->
             Removed([v EXCEPT ![j] = Sct(b.start, Pages(Sub(a.start, b.start)) + a.size)],
                     j + 1)
  BY Zenon DEF MergePass
<1> HIDE DEF j
<1>2. Safe(a, free) /\ Safe(b, free) /\ a.start <= b.start
  <2>1. j \in DOMAIN v /\ j + 1 \in DOMAIN v /\ j < j + 1
    BY <1>1
  <2> QED
    BY <2>1, <1>1 DEF AllSafe, Ascending
<1>3. /\ a \in Section /\ b \in Section
      /\ a.start \in Nat /\ a.size \in Nat /\ Limit(a) = a.start + a.size
      /\ b.start \in Nat /\ b.size \in Nat /\ Limit(b) = b.start + b.size
      /\ Limit(a) < UsizeBound /\ Limit(b) < UsizeBound
  BY <1>2, SectionFacts, Zenon DEF Safe
<1> HIDE DEF a, b
<1>4. ASSUME NEW s, Safe(s, free), w \in Removed([v EXCEPT ![j] = s], j + 1)
      PROVE  AllSafe(w, free) /\ Len(w) = Len(v) - 1 /\ Ascending(w)
  <2> DEFINE u == [v EXCEPT ![j] = s]
  <2>1. u \in Seq(Section) /\ Len(u) = Len(v) /\ \A k \in 1..Len(v) : u[k] = IF k = j THEN s ELSE v[k]
    BY <1>1, <1>4 DEF Safe
  <2>2. w \in Removed(u, j + 1)
    BY <1>4
  <2> HIDE DEF u
  <2>3. AllSafe(u, free)
    BY <2>1, <1>4 DEF AllSafe
  <2> QED
    BY <2>1, <2>2, <2>3, <1>1, RemovedSafe
<1>5. CASE Answer(v, j) = "NoChange"
  <2>1. w \in Removed(v, j + 1)
    BY <1>5, <1>w
  <2> QED
    BY <2>1, <1>1, RemovedSafe
<1>6. CASE Answer(v, j) = "Overwrite"
  <2>1. w \in Removed(v, j)
    BY <1>6, <1>w
  <2> QED
    BY <2>1, <1>1, RemovedSafe
<1>7. CASE Answer(v, j) = "StartBranch"
  <2> DEFINE gap == Pages(Sub(b.start, a.start))
             s == Sct(a.start, gap + b.size)
  <2>1. w \in Removed([v EXCEPT ![j] = s], j + 1)
    BY <1>7, <1>w
  <2>2. b.start <= Limit(a) /\ Limit(a) <= Limit(b)
    BY <1>7, <1>3, CmpMeans DEF Answer, a, b
  <2>3. gap \in Nat /\ gap <= b.start - a.start
    BY <1>2, <1>3, PagesAtMost DEF Sub
  <2> HIDE DEF gap
  <2>4. Safe(s, free)
    BY <2>2, <2>3, <1>2, MeetingSafe
  <2> HIDE DEF s
  <2> QED
    BY <2>1, <2>4, <1>4
<1>8. CASE Answer(v, j) = "EndBranch"
  <2> DEFINE gap == Pages(Sub(a.start, b.start))
             s == Sct(b.start, gap + a.size)
  <2>1. w \in Removed([v EXCEPT ![j] = s], j + 1)
    BY <1>8, <1>w
  <2>2. b.start <= a.start /\ a.start <= Limit(b) /\ Limit(b) <= Limit(a)
    BY <1>8, <1>3, CmpMeans DEF Answer, a, b
  <2>3. gap \in Nat /\ gap <= a.start - b.start
    BY <2>2, <1>3, PagesAtMost DEF Sub
  <2> HIDE DEF gap
  <2>4. Safe(s, free)
    BY <2>2, <2>3, <1>2, MeetingSafe
  <2> HIDE DEF s
  <2> QED
    BY <2>1, <2>4, <1>4
<1>9. Answer(v, j) \in {"Separate", "StartBranch", "EndBranch", "NoChange", "Overwrite"}
  BY <1>3, CmpMeans DEF Answer, a, b
<1> QED
  BY <1>1, <1>5, <1>6, <1>7, <1>8, <1>9

\* Nothing left to merge: gaps everywhere.
LEMMA MergedIsOrdered ==
  ASSUME NEW free, NEW v, AllSafe(v, free), Ascending(v), Windows(v) = {}
  PROVE  Ordered(v)
<1> SUFFICES ASSUME NEW j \in DOMAIN v, NEW k \in DOMAIN v, j < k
             PROVE  Limit(v[j]) < v[k].start
  BY DEF Ordered
<1>1. v \in Seq(Section)
  BY DEF AllSafe
<1>2. j \in 1..Len(v) - 1 /\ j + 1 \in DOMAIN v /\ j + 1 <= k
  BY <1>1
<1>3. Safe(v[j], free) /\ Safe(v[j + 1], free) /\ v[k] \in Section
  BY <1>1, <1>2 DEF AllSafe
<1>4. Apart(v[j], v[j + 1])
  <2>1. CmpMemSct(v[j], v[j + 1]) = "Separate"
    BY <1>2 DEF Windows, Answer
  <2> QED
    BY <2>1, <1>3, CmpSeparate DEF Safe
<1>5. v[j].start <= v[j + 1].start /\ v[j + 1].start <= v[k].start
  <2>1. v[j + 1].start \in Nat
    BY <1>3, SectionFacts DEF Safe
  <2> QED
    BY <2>1, <1>2 DEF Ascending
<1>6. /\ v[j].start \in Nat /\ v[j].size \in Nat /\ Limit(v[j]) = v[j].start + v[j].size
      /\ v[j + 1].start \in Nat /\ v[j + 1].size \in Nat
      /\ Limit(v[j + 1]) = v[j + 1].start + v[j + 1].size
      /\ v[k].start \in Nat
  BY <1>3, SectionFacts, Zenon DEF Safe
<1> QED
  BY <1>4, <1>5, <1>6 DEF Apart

\* Sorting keeps sections safe.
LEMMA SortedSafe ==
  ASSUME NEW free, NEW v, AllSafe(v, free), NEW w \in Sorted(v)
  PROVE  AllSafe(w, free) /\ Len(w) = Len(v) /\ Ascending(w)
<1>1. v \in Seq(Section)
  BY DEF AllSafe
<1>2. w \in Seq(Section) /\ Len(w) = Len(v) /\ Ascending(w) /\ Among(w, v)
  BY <1>1, SortedFacts, SortedAmong
<1>3. ASSUME NEW k \in 1..Len(w) PROVE Safe(w[k], free)
  <2>1. PICK m \in 1..Len(v) : w[k] = v[m]
    BY <1>2 DEF Among
  <2> QED
    BY <2>1 DEF AllSafe
<1> QED
  BY <1>2, <1>3 DEF AllSafe

\* A map of one section, and what glue_section may make of it.
LEMMA OneIsOrdered ==
  ASSUME NEW free, NEW s, Safe(s, free)
  PROVE  AllSafe(<<s>>, free) /\ Len(<<s>>) = 1 /\ Ordered(<<s>>)
<1>1. s \in Section
  BY DEF Safe
<1>2. <<s>> \in Seq(Section) /\ Len(<<s>>) = 1 /\ <<s>>[1] = s /\ DOMAIN <<s>> = 1..1
  BY <1>1
<1> QED
  BY <1>2 DEF AllSafe, Ordered

\* glue_section on a map of one section leaves one or two safe ones, apart from each other.
LEMMA GlueToOneSafe ==
  ASSUME NEW free, NEW a, NEW s, Safe(a, free), Safe(s, free), NEW w \in GlueToOne(a, s)
  PROVE  /\ AllSafe(w, free) /\ Ordered(w)
         /\ IF CmpMemSct(a, s) = "Separate" THEN Len(w) = 2 ELSE Len(w) = 1
<1>1. /\ a \in Section /\ s \in Section
      /\ a.start \in Nat /\ a.size \in Nat /\ Limit(a) = a.start + a.size
      /\ s.start \in Nat /\ s.size \in Nat /\ Limit(s) = s.start + s.size
      /\ Limit(a) < UsizeBound /\ Limit(s) < UsizeBound
  BY SectionFacts, Zenon DEF Safe
<1>2. ASSUME NEW x, Safe(x, free), w = <<x>>
      PROVE  AllSafe(w, free) /\ Ordered(w) /\ Len(w) = 1
  BY <1>2, OneIsOrdered
<1>3. CASE CmpMemSct(a, s) = "NoChange"
  BY <1>2, <1>3 DEF GlueToOne
<1>4. CASE CmpMemSct(a, s) = "Overwrite"
  BY <1>2, <1>4 DEF GlueToOne
<1>5. CASE CmpMemSct(a, s) = "Separate"
  <2> DEFINE v == <<a, s>>
  <2>1. v \in Seq(Section) /\ Len(v) = 2 /\ v[1] = a /\ v[2] = s
    BY <1>1
  <2>2. w \in Sorted(v)
    BY <1>5 DEF GlueToOne
  <2> HIDE DEF v
  <2>3. AllSafe(v, free)
    BY <2>1 DEF AllSafe
  <2>4. Apart(a, s) /\ Apart(s, a)
    BY <1>1, <1>5, CmpSeparate DEF Apart
  <2>5. Ordered(w)
    <3>1. \A j, k \in 1..Len(v) : j # k => Apart(v[j], v[k])
      BY <2>1, <2>4
    <3> QED
      BY <3>1, <2>1, <2>2, SortedApart
  <2> QED
    BY <2>1, <2>2, <2>3, <2>5, <1>5, SortedSafe
<1>6. CASE CmpMemSct(a, s) = "StartBranch"
  <2>1. a.start <= s.start /\ s.start <= Limit(a) /\ Limit(a) <= Limit(s)
    BY <1>1, <1>6, CmpMeans
  <2> DEFINE x == Sct(a.start, (s.start - a.start) + s.size)
  <2>2. w = <<x>>
    <3>1. Sub(s.start, a.start) = s.start - a.start /\ s.start - a.start \in Nat
      BY <2>1, <1>1 DEF Sub
    <3>2. Add(s.start - a.start, s.size) = (s.start - a.start) + s.size
      BY <2>1, <1>1, UsizeBoundAssumption DEF Add
    <3> QED
      BY <1>6, <3>1, <3>2 DEF GlueToOne
  <2>3. Safe(x, free)
    BY <2>1, <1>1, MeetingSafe
  <2> HIDE DEF x
  <2> QED
    BY <2>2, <2>3, <1>2, <1>6
<1>7. CASE CmpMemSct(a, s) = "EndBranch"
  <2>1. s.start <= a.start /\ a.start <= Limit(s) /\ Limit(s) <= Limit(a)
    BY <1>1, <1>7, CmpMeans
  <2> DEFINE x == Sct(s.start, (a.start - s.start) + a.size)
  <2>2. w = <<x>>
    <3>1. Sub(a.start, s.start) = a.start - s.start /\ a.start - s.start \in Nat
      BY <2>1, <1>1 DEF Sub
    <3>2. Add(a.start - s.start, a.size) = (a.start - s.start) + a.size
      BY <2>1, <1>1, UsizeBoundAssumption DEF Add
    <3> QED
      BY <1>7, <3>1, <3>2 DEF GlueToOne
  <2>3. Safe(x, free)
    BY <2>1, <1>1, MeetingSafe
  <2> HIDE DEF x
  <2> QED
    BY <2>2, <2>3, <1>2, <1>7
<1>8. CmpMemSct(a, s) \in {"Separate", "StartBranch", "EndBranch", "NoChange", "Overwrite"}
  BY <1>1, CmpMeans
<1> QED
  BY <1>3, <1>4, <1>5, <1>6, <1>7, <1>8

(***************************************************************************)
(* rip_section's edits of the section at j, when the copy has gaps.        *)
(***************************************************************************)
\* The given range g takes nothing from the section at j, which is apart from
\* it; or what they share; or all of it.
Clear(s, g) == Bytes(s) \cap Bytes(g) = {}
Trims(v, j, g, w) ==
  \/ w = v /\ (j \in 1..Len(v) => Apart(v[j], g))
  \/ /\ j \in 1..Len(v)
     /\ \/ \E s \in Section :
             /\ Within(s, v[j]) /\ (s.size = 0 => s.start = 0)
             /\ Bytes(v[j]) \ Bytes(s) \subseteq Bytes(g) /\ Clear(s, g)
             /\ w = [v EXCEPT ![j] = s]
        \/ /\ Within(v[j], g) /\ (v[j].size > 0 \/ g.size = 0)
           /\ w \in Removed(v, j)

\* A section within another leaves the gaps.
LEMMA ReplaceOrdered ==
  ASSUME NEW v \in Seq(Section), Ordered(v), NEW j \in 1..Len(v),
         NEW s \in Section, Within(s, v[j])
  PROVE  Ordered([v EXCEPT ![j] = s])
<1> DEFINE w == [v EXCEPT ![j] = s]
<1>1. w \in Seq(Section) /\ Len(w) = Len(v) /\ \A k \in 1..Len(v) : w[k] = IF k = j THEN s ELSE v[k]
  OBVIOUS
<1> HIDE DEF w
<1> SUFFICES ASSUME NEW k \in 1..Len(v), NEW l \in 1..Len(v), k < l
             PROVE  Limit(w[k]) < w[l].start
  BY <1>1 DEF Ordered, w
<1>2. Limit(v[k]) < v[l].start
  BY OrderedFacts
<1>3. /\ v[k] \in Section /\ v[l] \in Section
      /\ Limit(v[k]) \in Nat /\ v[l].start \in Nat /\ Limit(s) \in Nat /\ s.start \in Nat
  BY SectionFacts
<1>4. v[j].start <= s.start /\ Limit(s) <= Limit(v[j])
  BY DEF Within
<1>5. CASE k = j
  BY <1>1, <1>2, <1>3, <1>4, <1>5
<1>6. CASE l = j
  BY <1>1, <1>2, <1>3, <1>4, <1>6
<1> QED
  BY <1>1, <1>2, <1>5, <1>6

\* What is cut out of sections with gaps has gaps.
LEMMA CutOrdered ==
  ASSUME NEW v \in Seq(Section), Ordered(v), NEW j \in 1..Len(v), NEW w, Cut(v, j, w)
  PROVE  Ordered(w)
<1>1. w \in Seq(Section) /\ Len(w) = Len(v) - 1 /\ DOMAIN w = 1..Len(v) - 1
  BY DEF Cut
<1> SUFFICES ASSUME NEW k \in 1..Len(v) - 1, NEW l \in 1..Len(v) - 1, k < l
             PROVE  Limit(w[k]) < w[l].start
  BY <1>1 DEF Ordered
<1> DEFINE at(q) == IF q < j THEN q ELSE q + 1
<1>2. at(k) \in 1..Len(v) /\ at(l) \in 1..Len(v) /\ at(k) < at(l) /\ l # 1
  OBVIOUS
<1>3. w[l] = v[at(l)] /\ (w[k] = v[at(k)] \/ w[k] = Sct(0, 0))
  BY <1>2 DEF Cut
<1> HIDE DEF at
<1>4. Limit(v[at(k)]) < v[at(l)].start /\ v[at(l)].start > 0
  BY <1>2, OrderedFacts
<1>5. Limit(Sct(0, 0)) = 0
  BY DEF Limit, Sct
<1> QED
  BY <1>3, <1>4, <1>5

\* Whatever rip_section does to one section keeps the map safe and ordered.
LEMMA TrimsSafe ==
  ASSUME NEW free, NEW v, AllSafe(v, free), Ordered(v),
         NEW j, NEW g, NEW w, Trims(v, j, g, w)
  PROVE  AllSafe(w, free) /\ Ordered(w) /\ Len(w) <= Len(v)
<1>1. v \in Seq(Section) /\ Len(v) \in Nat
  BY DEF AllSafe
<1>2. CASE w = v
  BY <1>1, <1>2
<1>3. ASSUME j \in 1..Len(v), NEW s \in Section, Within(s, v[j]), s.size = 0 => s.start = 0,
             w = [v EXCEPT ![j] = s]
      PROVE  AllSafe(w, free) /\ Ordered(w) /\ Len(w) <= Len(v)
  <2>1. Safe(s, free)
    BY <1>3, WithinSafe DEF AllSafe
  <2>2. w \in Seq(Section) /\ Len(w) = Len(v) /\ \A k \in 1..Len(v) : w[k] = IF k = j THEN s ELSE v[k]
    BY <1>1, <1>3
  <2>3. AllSafe(w, free)
    BY <2>1, <2>2 DEF AllSafe
  <2>4. Ordered(w)
    BY <1>1, <1>3, ReplaceOrdered, Zenon
  <2> QED
    BY <2>2, <2>3, <2>4, <1>1
<1>4. ASSUME j \in 1..Len(v), w \in Removed(v, j)
      PROVE  AllSafe(w, free) /\ Ordered(w) /\ Len(w) <= Len(v)
  <2>1. AllSafe(w, free) /\ Len(w) = Len(v) - 1
    BY <1>4, RemovedSafe
  <2>2. Ordered(w)
    BY <1>1, <1>4, RemovedFromOrdered, CutOrdered
  <2> QED
    BY <2>1, <2>2, <1>1
<1> QED
  BY <1>2, <1>3, <1>4 DEF Trims

\* What an edit leaves held nothing else before.
LEMMA TrimsWithin ==
  ASSUME NEW v \in Seq(Section), Ordered(v), NEW j, NEW g, NEW w, Trims(v, j, g, w),
         NEW k \in 1..Len(w), NEW b \in Bytes(w[k])
  PROVE  w \in Seq(Section) /\ \E m \in 1..Len(v) : b \in Bytes(v[m])
<1>1. CASE w = v
  BY <1>1
<1>2. ASSUME j \in 1..Len(v), NEW s \in Section, Within(s, v[j]), w = [v EXCEPT ![j] = s]
      PROVE  w \in Seq(Section) /\ \E m \in 1..Len(v) : b \in Bytes(v[m])
  <2>1. /\ w \in Seq(Section) /\ k \in 1..Len(v)
        /\ w[k] = IF k = j THEN s ELSE v[k]
    BY <1>2
  <2>2. Bytes(s) \subseteq Bytes(v[j])
    <3>1. v[j] \in Section /\ v[j].start <= s.start /\ Limit(s) <= Limit(v[j])
      BY <1>2 DEF Within
    <3>2. /\ v[j].start \in Nat /\ Limit(v[j]) \in Nat
          /\ s.start \in Nat /\ Limit(s) \in Nat
      BY <3>1, SectionFacts
    <3> QED
      BY <3>1, <3>2 DEF Bytes
  <2> QED
    BY <2>1, <2>2, <1>2
<1>3. ASSUME j \in 1..Len(v), w \in Removed(v, j)
      PROVE  w \in Seq(Section) /\ \E m \in 1..Len(v) : b \in Bytes(v[m])
  <2>1. w \in Seq(Section) /\ (w[k] = Sct(0, 0) \/ \E m \in 1..Len(v) : w[k] = v[m])
    BY <1>3, RemovedFacts
  <2>2. w[k] # Sct(0, 0)
    BY DEF Bytes, Limit, Sct
  <2> QED
    BY <2>1, <2>2
<1> QED
  BY <1>1, <1>2, <1>3 DEF Trims

\* What an edit takes was in the given range, or in the section at address 0.
LEMMA TrimsKeep ==
  ASSUME NEW v \in Seq(Section), Ordered(v), NEW j, NEW g \in Section, NEW w,
         Trims(v, j, g, w), NEW k \in 1..Len(v), v[k].start > 0, NEW b \in Bytes(v[k]), b \notin Bytes(g)
  PROVE  \E m \in 1..Len(w) : w[m].start > 0 /\ b \in Bytes(w[m])
<1>1. CASE w = v
  BY <1>1
<1>2. ASSUME j \in 1..Len(v), NEW s \in Section, Within(s, v[j]),
             Bytes(v[j]) \ Bytes(s) \subseteq Bytes(g), w = [v EXCEPT ![j] = s]
      PROVE  \E m \in 1..Len(w) : w[m].start > 0 /\ b \in Bytes(w[m])
  <2>1. k \in 1..Len(w) /\ w[k] = IF k = j THEN s ELSE v[k]
    BY <1>2
  <2>2. CASE k # j
    BY <2>1, <2>2
  <2>3. CASE k = j
    <3>1. b \in Bytes(s)
      BY <1>2, <2>3
    <3>2. s.start > 0
      <4>1. v[j].start <= s.start /\ v[j].start \in Nat /\ s.start \in Nat /\ v[j].start > 0
        BY <1>2, <2>3, SectionFacts DEF Within
      <4> QED
        BY <4>1
    <3> QED
      BY <3>1, <3>2, <2>1, <2>3
  <2> QED
    BY <2>2, <2>3
<1>3. ASSUME j \in 1..Len(v), Within(v[j], g), w \in Removed(v, j)
      PROVE  \E m \in 1..Len(w) : w[m].start > 0 /\ b \in Bytes(w[m])
  <2>1. Cut(v, j, w)
    BY <1>3, RemovedFromOrdered
  <2>2. k # j
    <3> SUFFICES ASSUME k = j PROVE FALSE
      OBVIOUS
    <3>1. g.start <= v[j].start /\ Limit(v[j]) <= Limit(g) /\ b >= v[j].start /\ b <= Limit(v[j]) - 1
      BY <1>3 DEF Within, Bytes
    <3>2. /\ b \in Int /\ v[j].start \in Nat /\ Limit(v[j]) \in Nat
          /\ g.start \in Nat /\ Limit(g) \in Nat
      <4>1. v[j] \in Section
        BY <1>3
      <4> QED
        BY <4>1, SectionFacts DEF Bytes
    <3>3. b \in Bytes(g)
      BY <3>1, <3>2 DEF Bytes
    <3> QED
      BY <3>3
  <2> DEFINE to == IF k < j THEN k ELSE k - 1
  <2>3. /\ to \in 1..Len(v) - 1 /\ k = IF to < j THEN to ELSE to + 1
        /\ Len(w) = Len(v) - 1
    BY <1>3, <2>1, <2>2 DEF Cut
  <2>4. w[to] = v[k] \/ (to = 1 /\ j # 1 /\ v[1].start = 0)
    BY <2>1, <2>3 DEF Cut
  <2>5. ~ (to = 1 /\ j # 1 /\ v[1].start = 0)
    <3> SUFFICES ASSUME to = 1, j # 1, v[1].start = 0 PROVE FALSE
      OBVIOUS
    <3>1. k = 1
      BY <2>3, <1>3
    <3> QED
      BY <3>1
  <2> QED
    BY <2>3, <2>4, <2>5
<1> QED
  BY <1>1, <1>2, <1>3 DEF Trims

-----------------------------------------------------------------------------
(***************************************************************************)
(* The inductive invariant.  The calls to come take nothing that is not    *)
(* free in, rip after they have glued, and end with the first page; the    *)
(* map and the copy hold free memory; the map, and the copy while it is    *)
(* ripped, have gaps; nothing behind an edit can be inside the given       *)
(* range's start; and the last call leaves no address 0.                   *)
(***************************************************************************)
CallType == [op : {"glue", "pass", "rip"}, sct : Section]
LastCall == Rip(Sct(0, PageBytes))
TodoOK(t, index, free) ==
  /\ t \in Seq(CallType)
  /\ \A k \in 1..Len(t) :
       /\ Limit(t[k].sct) < UsizeBound
       /\ t[k].op = "glue" => Bytes(t[k].sct) \subseteq free
       /\ t[k].op # "rip" => index = 1
  /\ \A j, k \in 1..Len(t) : j < k /\ t[j].op = "rip" => t[k].op = "rip"
  /\ t # <<>> => t[Len(t)] = LastCall

AllRips(t) == \A k \in 1..Len(t) : t[k].op = "rip"

Stored ==
  /\ AllSafe(map, FreeBytes) /\ AllSafe(arr, FreeBytes)
  /\ Ordered(map)
Merging == pc = "merge" => Ascending(arr) /\ i = 1 /\ todo # <<>>
Ripping ==
  pc = "rip" =>
    /\ AllRips(todo) /\ Ordered(arr) /\ edit \in {"none", "edited"}
    /\ edit = "none" => arr = map
    /\ edit = "edited" => \A k \in 1..Len(arr) : k >= i => call.start < arr[k].start
HoldsNull(v) == \E k \in 1..Len(v) : 0 \in Bytes(v[k])
FirstPage ==
  /\ pc = "done" => todo = <<>>
  /\ todo = <<>> /\ pc = "rip" =>
       /\ call = Sct(0, PageBytes)
       /\ HoldsNull(arr) => i = 1 /\ edit = "none"
  /\ todo = <<>> /\ pc \in {"ready", "done"} => ~HoldsNull(map)

IInv ==
  /\ TypeOK /\ TodoOK(todo, i, FreeBytes) /\ Limit(call) < UsizeBound
  /\ Stored /\ Merging /\ Ripping /\ FirstPage /\ UnreachableIsUnreachable

-----------------------------------------------------------------------------
\* The calls get_mmap makes.
LEMMA RipsFacts ==
  ASSUME NEW b \in Boot
  PROVE  /\ Rips(b) \in Seq([op : {"rip"}, sct : Section]) /\ Len(Rips(b)) > 0
         /\ Rips(b)[Len(Rips(b))] = LastCall
<1> DEFINE RipCall == [op : {"rip"}, sct : Section]
<1>1. ASSUME NEW s \in Section PROVE Rip(s) \in RipCall
  BY DEF Rip
<1>2. /\ b.kernel \in Section /\ b.stack \in Section /\ b.info \in Section
      /\ b.screen \in Section /\ b.memmap \in Section /\ b.system \in Section
      /\ b.config \in Section /\ b.services \in Section
      /\ b.vendor.start \in Nat /\ b.vendor.chars \in Nat /\ b.functions \in Seq(Nat)
  BY DEF Boot
<1>3. PageBytes \in Nat /\ PointerBytes \in Nat
  BY SizeAssumption
<1>4. Sct(0, PageBytes) \in Section /\ Sct(b.vendor.start, b.vendor.chars + 1) \in Section
  <2>1. b.vendor.start \in Nat /\ b.vendor.chars + 1 \in Nat
    BY <1>2
  <2> QED
    BY <2>1, <1>3, SctFacts
<1> DEFINE start == <<Rip(b.kernel), Rip(b.stack), Rip(b.info)>>
           screen == IF b.screen.start > 0 THEN <<Rip(b.screen)>> ELSE <<>>
           memmap == <<Rip(b.memmap)>>
           tables == <<Rip(b.system), Rip(Sct(b.vendor.start, b.vendor.chars + 1)),
                       Rip(b.config), Rip(b.services)>>
           pointers == [k \in DOMAIN b.functions |-> Rip(Sct(b.functions[k], PointerBytes))]
           uefi == IF b.mode = "uefi" THEN FirmwareRips(b) ELSE <<>>
           last == <<Rip(Sct(0, PageBytes))>>
<1>5. /\ start \in Seq(RipCall) /\ screen \in Seq(RipCall) /\ memmap \in Seq(RipCall)
      /\ tables \in Seq(RipCall) /\ last \in Seq(RipCall) /\ Len(last) = 1
  <2> HIDE DEF RipCall
  <2> QED
    BY <1>1, <1>2, <1>4
<1>6. pointers \in Seq(RipCall)
  <2>1. ASSUME NEW k \in DOMAIN b.functions
        PROVE  Rip(Sct(b.functions[k], PointerBytes)) \in RipCall
    <3>1. Sct(b.functions[k], PointerBytes) \in Section
      <4>1. b.functions[k] \in Nat
        BY <1>2, ElementOfSeq
      <4> QED
        BY <4>1, <1>3, SctFacts
    <3> QED
      BY <3>1, <1>1
  <2> HIDE DEF RipCall
  <2>2. DOMAIN b.functions = 1..Len(b.functions) /\ Len(b.functions) \in Nat
    BY <1>2
  <2> QED
    BY <2>1, <2>2, IsASeq
<1>7. FirmwareRips(b) = tables \o pointers
  BY DEF FirmwareRips
<1> HIDE DEF start, screen, memmap, tables, pointers, RipCall
<1>8. uefi \in Seq(RipCall)
  <2>1. FirmwareRips(b) \in Seq(RipCall)
    BY <1>5, <1>6, <1>7, ConcatProperties
  <2> QED
    BY <2>1
<1>9. Rips(b) = (((start \o screen) \o memmap) \o uefi) \o last
  BY DEF Rips, start, screen, memmap
<1> HIDE DEF uefi
<1> DEFINE front == ((start \o screen) \o memmap) \o uefi
<1>10. front \in Seq(RipCall)
  <2>1. start \o screen \in Seq(RipCall)
    BY <1>5, ConcatProperties
  <2>2. (start \o screen) \o memmap \in Seq(RipCall)
    BY <2>1, <1>5, ConcatProperties
  <2> QED
    BY <2>2, <1>8, ConcatProperties
<1>11. last[1] = LastCall
  BY DEF LastCall
<1> HIDE DEF front, last
<1>12. /\ front \o last \in Seq(RipCall) /\ Len(front \o last) = Len(front) + 1
       /\ (front \o last)[Len(front) + 1] = last[1]
  <2>1. /\ front \o last \in Seq(RipCall) /\ Len(front \o last) = Len(front) + Len(last)
        /\ \A k \in 1..Len(front) + Len(last) :
             (front \o last)[k] = IF k <= Len(front) THEN front[k] ELSE last[k - Len(front)]
    BY <1>5, <1>10, ConcatProperties, Zenon
  <2>2. Len(front) \in Nat
    BY <1>10, LenProperties
  <2>3. Len(front) + 1 \in 1..Len(front) + Len(last) /\ (Len(front) + 1) - Len(front) = 1
    BY <2>2, <1>5
  <2>4. ~(Len(front) + 1 <= Len(front))
    BY <2>2
  <2> QED
    BY <2>1, <2>3, <2>4, <1>5
<1>13. Rips(b) = front \o last
  BY <1>9 DEF front
<1> QED
  BY <1>10, <1>11, <1>12, <1>13 DEF RipCall

\* The calls made for the firmware's descriptors: one each, and a glue only for free memory.
LEMMA GluesFacts ==
  ASSUME NEW b \in Boot
  PROVE  /\ Glues(b) \in Seq([op : {"glue", "pass"}, sct : Section])
         /\ Len(Glues(b)) = Len(b.memory)
         /\ \A k \in 1..Len(b.memory) :
              Glues(b)[k].op = "glue" =>
                b.memory[k].free /\ Glues(b)[k].sct = b.memory[k].sct
<1>1. b.memory \in Seq([sct : Section, free : BOOLEAN])
  BY DEF Boot
<1>2. ASSUME NEW k \in 1..Len(b.memory)
      PROVE  b.memory[k].sct \in Section
  <2>1. b.memory[k] \in [sct : Section, free : BOOLEAN]
    BY <1>1, ElementOfSeq
  <2> QED
    BY <2>1
<1>3. DOMAIN b.memory = 1..Len(b.memory) /\ Len(b.memory) \in Nat
  BY <1>1
<1>4. ASSUME NEW k \in 1..Len(b.memory)
      PROVE  /\ Glues(b)[k] \in [op : {"glue", "pass"}, sct : Section]
             /\ Glues(b)[k].op = "glue" =>
                  b.memory[k].free /\ Glues(b)[k].sct = b.memory[k].sct
  <2>1. Glues(b)[k] = IF b.memory[k].free THEN Glue(b.memory[k].sct) ELSE Pass(b.memory[k].sct)
    BY <1>3 DEF Glues
  <2> QED
    BY <2>1, <1>2 DEF Glue, Pass
<1>5. Glues(b) = [k \in 1..Len(b.memory) |-> Glues(b)[k]]
  BY <1>3 DEF Glues
<1>6. Glues(b) \in Seq([op : {"glue", "pass"}, sct : Section]) /\ Len(Glues(b)) = Len(b.memory)
  <2> DEFINE g == Glues(b)
             n == Len(b.memory)
             S == [op : {"glue", "pass"}, sct : Section]
  <2>1. n \in Nat /\ g = [k \in 1..n |-> g[k]] /\ \A k \in 1..n : g[k] \in S
    BY <1>3, <1>4, <1>5
  <2> HIDE DEF g, n, S
  <2>2. g \in Seq(S) /\ Len(g) = n
    BY <2>1, IsASeq
  <2> QED
    BY <2>2 DEF g, n, S
<1> QED
  BY <1>4, <1>6

\* What a free descriptor describes is free memory.
LEMMA FreeIsFree ==
  ASSUME boot \in Boot, NEW k \in 1..Len(boot.memory), boot.memory[k].free
  PROVE  Bytes(boot.memory[k].sct) \subseteq FreeBytes
<1>1. k \in DOMAIN boot.memory
  BY DEF Boot
<1>2. boot.memory[k] \in Range(boot.memory)
  BY <1>1 DEF Range
<1> QED
  BY <1>2 DEF FreeBytes

\* The calls get_mmap is about to make at its start are what the invariant asks of them.
LEMMA TodoAtFirst ==
  ASSUME boot \in Boots
  PROVE  TodoOK(Glues(boot) \o Rips(boot), 1, FreeBytes)
<1> DEFINE g == Glues(boot)
           r == Rips(boot)
           t == g \o r
<1>1. boot \in Boot
  BY BootsAssumption
<1>2. /\ g \in Seq([op : {"glue", "pass"}, sct : Section])
      /\ Len(g) = Len(boot.memory)
      /\ \A k \in 1..Len(g) :
           g[k].op = "glue" => boot.memory[k].free /\ g[k].sct = boot.memory[k].sct
  BY <1>1, GluesFacts
<1>3. r \in Seq([op : {"rip"}, sct : Section]) /\ Len(r) > 0 /\ r[Len(r)] = LastCall
  BY <1>1, RipsFacts
<1>4. \A k \in DOMAIN t : Limit(t[k].sct) < UsizeBound
  BY FirmwareAssumption
<1> HIDE DEF g, r
<1>5. ASSUME NEW k \in 1..Len(g) PROVE g[k] \in CallType /\ g[k].op \in {"glue", "pass"}
  <2>1. g[k] \in [op : {"glue", "pass"}, sct : Section]
    BY <1>2, ElementOfSeq
  <2> QED
    BY <2>1 DEF CallType
<1>6. ASSUME NEW k \in 1..Len(r) PROVE r[k] \in CallType /\ r[k].op = "rip"
  <2>1. r[k] \in [op : {"rip"}, sct : Section]
    BY <1>3, ElementOfSeq
  <2> QED
    BY <2>1 DEF CallType
<1>7. Len(g) \in Nat /\ Len(r) \in Nat /\ g \in Seq(CallType) /\ r \in Seq(CallType)
  <2>1. Len(g) \in Nat /\ Len(r) \in Nat
    BY <1>2, <1>3
  <2>2. g = [k \in 1..Len(g) |-> g[k]] /\ r = [k \in 1..Len(r) |-> r[k]]
    BY <1>2, <1>3
  <2> QED
    BY <2>1, <2>2, <1>5, <1>6, IsASeq
<1>8. /\ t \in Seq(CallType) /\ Len(t) = Len(g) + Len(r)
      /\ \A k \in 1..Len(t) : t[k] = IF k <= Len(g) THEN g[k] ELSE r[k - Len(g)]
  BY <1>7, ConcatProperties
<1>9. DOMAIN t = 1..Len(t)
  BY <1>8
<1> HIDE DEF t
<1>10. ASSUME NEW k \in 1..Len(t)
       PROVE  /\ t[k].op = "glue" => Bytes(t[k].sct) \subseteq FreeBytes
              /\ t[k].op = "rip" <=> k > Len(g)
  <2>1. CASE k <= Len(g)
    <3>1. k \in 1..Len(g) /\ t[k] = g[k]
      BY <2>1, <1>7, <1>8
    <3>2. t[k].op = "glue" => Bytes(t[k].sct) \subseteq FreeBytes
      BY <3>1, <1>1, <1>2, FreeIsFree
    <3> QED
      BY <3>1, <3>2, <1>5, <2>1, <1>7
  <2>2. CASE k > Len(g)
    <3>1. k - Len(g) \in 1..Len(r) /\ t[k] = r[k - Len(g)]
      BY <2>2, <1>7, <1>8
    <3> QED
      BY <3>1, <1>6, <2>2
  <2> QED
    BY <2>1, <2>2, <1>7
<1>11. t[Len(t)] = LastCall
  <2>1. Len(t) \in 1..Len(t) /\ ~(Len(t) <= Len(g)) /\ Len(t) - Len(g) = Len(r)
    BY <1>3, <1>7, <1>8
  <2> QED
    BY <2>1, <1>3, <1>8
<1>12. \A j, k \in 1..Len(t) : j < k /\ t[j].op = "rip" => t[k].op = "rip"
  BY <1>7, <1>10
<1>13. TodoOK(t, 1, FreeBytes)
  BY <1>4, <1>8, <1>9, <1>10, <1>11, <1>12 DEF TodoOK
<1> QED
  BY <1>13 DEF t, g, r

\* The next call, and those after it.
LEMMA TailOK ==
  ASSUME NEW t, NEW index, NEW free, TodoOK(t, index, free), t # <<>>
  PROVE  /\ Head(t) \in CallType /\ Head(t).sct \in Section
         /\ Limit(Head(t).sct) < UsizeBound
         /\ Head(t).op = "glue" => Bytes(Head(t).sct) \subseteq free
         /\ Head(t).op # "rip" => index = 1
         /\ TodoOK(Tail(t), index, free)
         /\ Head(t).op = "rip" => AllRips(Tail(t))
         /\ Tail(t) = <<>> => Head(t) = LastCall
<1> DEFINE n == Len(t)
           u == Tail(t)
<1>1. t \in Seq(CallType) /\ n \in Nat /\ n >= 1
  BY DEF TodoOK
<1>2. Head(t) = t[1] /\ t[1] \in CallType /\ 1 \in 1..n
  BY <1>1, ElementOfSeq
<1>3. t[1].sct \in Section
  BY <1>2 DEF CallType
<1>4. u \in Seq(CallType) /\ Len(u) = n - 1 /\ \A k \in 1..n - 1 : u[k] = t[k + 1]
  BY <1>1
<1> HIDE DEF u
<1>5. ASSUME NEW k \in 1..n - 1
      PROVE  /\ Limit(u[k].sct) < UsizeBound
             /\ u[k].op = "glue" => Bytes(u[k].sct) \subseteq free
             /\ u[k].op # "rip" => index = 1
             /\ t[1].op = "rip" => u[k].op = "rip"
  <2>1. k + 1 \in 1..n /\ 1 < k + 1 /\ u[k] = t[k + 1]
    BY <1>4
  <2> QED
    BY <2>1, <1>2 DEF TodoOK
<1>6. ASSUME NEW j \in 1..n - 1, NEW k \in 1..n - 1, j < k, u[j].op = "rip"
      PROVE  u[k].op = "rip"
  <2>1. j + 1 \in 1..n /\ k + 1 \in 1..n /\ j + 1 < k + 1 /\ u[j] = t[j + 1] /\ u[k] = t[k + 1]
    BY <1>4, <1>6
  <2> QED
    BY <2>1, <1>6 DEF TodoOK
<1>7. t[n] = LastCall
  BY <1>1 DEF TodoOK
<1>8. u # <<>> => u[Len(u)] = LastCall
  BY <1>1, <1>4, <1>7
<1>9. u = <<>> => Head(t) = LastCall
  <2> SUFFICES ASSUME u = <<>> PROVE n = 1
    BY <1>2, <1>7
  <2> QED
    BY <1>1, <1>4
<1>10. TodoOK(u, index, free)
  BY <1>4, <1>5, <1>6, <1>8 DEF TodoOK
<1>11. t[1].op = "rip" => AllRips(u)
  BY <1>4, <1>5 DEF AllRips
<1>12. /\ Limit(t[1].sct) < UsizeBound
       /\ t[1].op = "glue" => Bytes(t[1].sct) \subseteq free
       /\ t[1].op # "rip" => index = 1
  BY <1>2 DEF TodoOK
<1> QED
  BY <1>2, <1>3, <1>9, <1>10, <1>11, <1>12 DEF u

\* Where only rips are left, the index may be any.
LEMMA RipsAtAnyIndex ==
  ASSUME NEW t, NEW index, NEW free, TodoOK(t, index, free), AllRips(t), NEW new
  PROVE  TodoOK(t, new, free)
BY DEF TodoOK, AllRips

-----------------------------------------------------------------------------
\* The map get_mmap starts with is safe and ordered.
LEMMA EmptyMap ==
  ASSUME NEW free
  PROVE  AllSafe(<<>>, free) /\ Ordered(<<>>) /\ ~HoldsNull(<<>>)
BY DEF AllSafe, Ordered, HoldsNull

\* The invariant at first.
LEMMA InitHolds ==
  ASSUME Init
  PROVE  IInv
<1>1. boot \in Boots /\ todo = Glues(boot) \o Rips(boot) /\ TodoOK(todo, 1, FreeBytes)
  BY TodoAtFirst DEF Init
<1>2. call = Sct(0, 0) /\ call \in Section /\ Limit(call) < UsizeBound
  <2>1. call = Sct(0, 0)
    BY DEF Init
  <2> QED
    BY <2>1, SctFacts, UsizeBoundAssumption
<1>3. TypeOK
  <2>1. todo \in Seq([op : {"glue", "pass", "rip"}, sct : Section])
    BY <1>1 DEF TodoOK, CallType
  <2> QED
    BY <2>1, <1>1, <1>2, SizeAssumption DEF TypeOK, Init
<1>4. todo # <<>>
  <2>1. boot \in Boot
    BY <1>1, BootsAssumption
  <2>2. /\ Rips(boot) \in Seq([op : {"rip"}, sct : Section]) /\ Len(Rips(boot)) > 0
        /\ Glues(boot) \in Seq([op : {"glue", "pass"}, sct : Section])
    BY <2>1, RipsFacts, GluesFacts
  <2> QED
    BY <2>2, <1>1
<1>5. Stored
  BY EmptyMap DEF Stored, Init
<1> QED
  BY <1>1, <1>2, <1>3, <1>4, <1>5
     DEF IInv, Init, Merging, Ripping, FirstPage, UnreachableIsUnreachable

\* A descriptor of another type changes nothing the invariant is about.
LEMMA PassOverKeeps ==
  ASSUME IInv, PassOver
  PROVE  IInv'
<1>1. /\ todo # <<>> /\ todo' = Tail(todo) /\ Head(todo).op = "pass"
      /\ UNCHANGED <<boot, map, pc, call, arr, i, edit>> /\ pc = "ready"
  BY DEF PassOver, Calls, locals
<1>2. /\ TodoOK(todo', i, FreeBytes) /\ (todo' = <<>> => Head(todo) = LastCall)
  BY <1>1, TailOK DEF IInv
<1>3. todo' # <<>>
  BY <1>1, <1>2 DEF LastCall, Rip
<1>4. FreeBytes' = FreeBytes
  BY <1>1 DEF FreeBytes
<1>5. TypeOK'
  BY <1>1, <1>2 DEF IInv, TypeOK, TodoOK, CallType
<1> QED
  BY <1>1, <1>2, <1>3, <1>4, <1>5
     DEF IInv, Stored, Merging, Ripping, FirstPage, UnreachableIsUnreachable

\* glue_section starts.
LEMMA GlueSectionKeeps ==
  ASSUME IInv, GlueSection
  PROVE  IInv'
<1>1. /\ todo # <<>> /\ todo' = Tail(todo) /\ Head(todo).op = "glue" /\ pc = "ready"
      /\ call' = Given /\ UNCHANGED <<boot, i, edit>>
  BY DEF GlueSection, Calls
<1>2. /\ TodoOK(todo', i, FreeBytes) /\ (todo' = <<>> => Head(todo) = LastCall)
      /\ Given \in Section /\ Limit(Given) < UsizeBound
      /\ Bytes(Given) \subseteq FreeBytes /\ i = 1
  BY <1>1, TailOK DEF IInv, Given
<1>3. todo' # <<>>
  BY <1>1, <1>2 DEF LastCall, Rip
<1>4. FreeBytes' = FreeBytes
  BY <1>1 DEF FreeBytes
<1>5. /\ AllSafe(map, FreeBytes) /\ AllSafe(arr, FreeBytes) /\ Ordered(map)
      /\ Len(map) <= MapCap /\ Len(arr) <= MapCap
      /\ map \in Seq(Section) /\ Len(map) \in Nat /\ arr \in Seq(Section) /\ Len(arr) \in Nat
  BY DEF IInv, Stored, TypeOK
<1>6. /\ AllSafe(map', FreeBytes) /\ AllSafe(arr', FreeBytes) /\ Ordered(map')
      /\ Len(map') <= MapCap /\ Len(arr') <= MapCap
      /\ pc' \in {"ready", "full", "merge"} /\ (pc' = "merge" => Ascending(arr'))
  <2>1. Given.size # 0 => Safe(Given, FreeBytes)
    BY <1>2 DEF Safe
  <2>2. CASE Given.size = 0 /\ UNCHANGED <<map, arr, pc>>
    BY <2>2, <1>1, <1>5
  <2>3. CASE Given.size # 0 /\ map = <<>> /\ map' = <<Given>> /\ UNCHANGED <<arr, pc>>
    BY <2>1, <2>3, <1>1, <1>5, OneIsOrdered, SizeAssumption
  <2>4. CASE /\ Given.size # 0 /\ Len(map) = 1 /\ UNCHANGED arr
             /\ IF CmpMemSct(map[1], Given) = "Separate" /\ Full(map, Given)
                THEN pc' = "full" /\ UNCHANGED map
                ELSE map' \in GlueToOne(map[1], Given) /\ UNCHANGED pc
    <3>1. CASE CmpMemSct(map[1], Given) = "Separate" /\ Full(map, Given)
      BY <2>4, <3>1, <1>1, <1>5
    <3>2. CASE ~(CmpMemSct(map[1], Given) = "Separate" /\ Full(map, Given))
      <4>1. map' \in GlueToOne(map[1], Given) /\ UNCHANGED <<arr, pc>>
        BY <2>4, <3>2
      <4>2. Safe(map[1], FreeBytes)
        BY <2>4, <1>5 DEF AllSafe
      <4>3. /\ AllSafe(map', FreeBytes) /\ Ordered(map')
            /\ IF CmpMemSct(map[1], Given) = "Separate" THEN Len(map') = 2 ELSE Len(map') = 1
        BY <2>1, <2>4, <4>1, <4>2, GlueToOneSafe
      <4>4. Len(map') <= MapCap
        <5>1. CASE CmpMemSct(map[1], Given) = "Separate"
          <6>1. ~Contains(map, Given)
            <7> SUFFICES ASSUME Contains(map, Given) PROVE FALSE
              OBVIOUS
            <7>1. map[1] = Given
              BY <2>4, <1>5 DEF Contains
            <7> QED
              BY <7>1, <5>1 DEF CmpMemSct
          <6>2. Len(map) # MapCap
            BY <6>1, <5>1, <3>2 DEF Full
          <6>3. MapCap \in Nat /\ Len(map) = 1 /\ Len(map) <= MapCap /\ Len(map') = 2
            BY <5>1, <4>3, <2>4, <1>5, SizeAssumption
          <6> QED
            BY <6>2, <6>3
        <5>2. CASE CmpMemSct(map[1], Given) # "Separate"
          BY <5>2, <4>3, SizeAssumption
        <5> QED
          BY <5>1, <5>2
      <4> QED
        BY <4>1, <4>3, <4>4, <1>1, <1>5
    <3> QED
      BY <3>1, <3>2
  <2>5. CASE /\ Given.size # 0 /\ Len(map) >= 2 /\ UNCHANGED map
             /\ IF Full(map, Given)
                THEN pc' = "full" /\ UNCHANGED arr
                ELSE /\ arr' \in IF Contains(map, Given) THEN {map}
                                 ELSE Sorted(Append(map, Given))
                     /\ pc' = "merge"
    <3>1. CASE Full(map, Given)
      BY <2>5, <3>1, <1>5
    <3>2. CASE ~Full(map, Given) /\ Contains(map, Given)
      <4>1. Ascending(map)
        <5> SUFFICES ASSUME NEW j \in DOMAIN map, NEW k \in DOMAIN map, j < k
                     PROVE  map[j].start <= map[k].start
          BY DEF Ascending
        <5>1. j \in 1..Len(map) /\ k \in 1..Len(map)
          BY <1>5
        <5> QED
          BY <5>1, <1>5, OrderedFacts
      <4> QED
        BY <4>1, <2>5, <3>2, <1>5
    <3>3. CASE ~Full(map, Given) /\ ~Contains(map, Given)
      <4> DEFINE v == Append(map, Given)
      <4>1. arr' \in Sorted(v) /\ pc' = "merge"
        BY <2>5, <3>3
      <4>2. v \in Seq(Section) /\ Len(v) = Len(map) + 1
            /\ \A k \in 1..Len(v) : v[k] = IF k <= Len(map) THEN map[k] ELSE Given
        BY <1>2, <1>5
      <4> HIDE DEF v
      <4>3. AllSafe(v, FreeBytes)
        BY <2>1, <2>5, <4>2, <1>5 DEF AllSafe
      <4>4. AllSafe(arr', FreeBytes) /\ Len(arr') = Len(v) /\ Ascending(arr')
        BY <4>1, <4>3, SortedSafe
      <4>5. Len(map) < MapCap
        BY <3>3, <1>5, SizeAssumption DEF Full
      <4> QED
        BY <4>1, <4>2, <4>4, <4>5, <2>5, <1>5, SizeAssumption
    <3> QED
      BY <3>1, <3>2, <3>3
  <2> QED
    BY <2>2, <2>3, <2>4, <2>5 DEF GlueSection
<1>7. TypeOK'
  <2>1. map' \in Seq(Section) /\ arr' \in Seq(Section) /\ Len(arr') \in Nat
    BY <1>6 DEF AllSafe
  <2> QED
    BY <2>1, <1>1, <1>2, <1>6 DEF IInv, TypeOK, TodoOK, CallType
<1> QED
  BY <1>1, <1>2, <1>3, <1>4, <1>6, <1>7
     DEF IInv, Stored, Merging, Ripping, FirstPage, UnreachableIsUnreachable

\* The merging loop.
LEMMA MergeKeeps ==
  ASSUME IInv, Merge
  PROVE  IInv'
<1>1. /\ pc = "merge" /\ Windows(arr) # {} /\ arr' \in MergePass(arr)
      /\ UNCHANGED <<boot, todo, map, pc, call, i, edit>>
  BY DEF Merge
<1>2. AllSafe(arr, FreeBytes) /\ Ascending(arr) /\ i = 1 /\ todo # <<>> /\ Len(arr) <= MapCap
  BY <1>1 DEF IInv, Stored, Merging, TypeOK
<1>3. AllSafe(arr', FreeBytes) /\ Len(arr') = Len(arr) - 1 /\ Ascending(arr')
  BY <1>1, <1>2, MergePassSafe
<1>4. FreeBytes' = FreeBytes
  BY <1>1 DEF FreeBytes
<1>5. arr' \in Seq(Section) /\ Len(arr') \in Nat /\ Len(arr') <= MapCap
  BY <1>2, <1>3, SizeAssumption DEF AllSafe
<1>6. TypeOK'
  BY <1>1, <1>2, <1>5 DEF IInv, TypeOK
<1> QED
  BY <1>1, <1>2, <1>3, <1>4, <1>6
     DEF IInv, Stored, Merging, Ripping, FirstPage, UnreachableIsUnreachable

\* The end of glue_section keeps the invariant: no window left means the map is ordered.
LEMMA GlueEndKeeps ==
  ASSUME IInv, GlueEnd
  PROVE  IInv'
<1>1. /\ pc = "merge" /\ Windows(arr) = {} /\ map' = arr /\ pc' = "ready"
      /\ UNCHANGED <<boot, todo, call, arr, i, edit>>
  BY DEF GlueEnd, locals
<1>2. AllSafe(arr, FreeBytes) /\ Ascending(arr) /\ i = 1 /\ todo # <<>>
  BY <1>1 DEF IInv, Stored, Merging
<1>3. Ordered(arr)
  BY <1>1, <1>2, MergedIsOrdered
<1>4. FreeBytes' = FreeBytes
  BY <1>1 DEF FreeBytes
<1>5. TypeOK'
  BY <1>1 DEF IInv, TypeOK
<1> QED
  BY <1>1, <1>2, <1>3, <1>4, <1>5
     DEF IInv, Stored, Merging, Ripping, FirstPage, UnreachableIsUnreachable

\* rip_section starts.
LEMMA RipSectionKeeps ==
  ASSUME IInv, RipSection
  PROVE  IInv'
<1>1. /\ todo # <<>> /\ todo' = Tail(todo) /\ Head(todo).op = "rip" /\ pc = "ready"
      /\ call' = Given /\ arr' = map /\ i' = 1 /\ edit' = "none" /\ UNCHANGED <<boot, map>>
      /\ pc' = IF \E k \in DOMAIN map : CmpMemSct(Given, map[k]) # "Separate"
               THEN "rip" ELSE "ready"
  BY DEF RipSection, Calls
<1>2. /\ TodoOK(todo', 1, FreeBytes) /\ (todo' = <<>> => Head(todo) = LastCall)
      /\ AllRips(todo') /\ Given \in Section /\ Limit(Given) < UsizeBound
  BY <1>1, TailOK, RipsAtAnyIndex DEF IInv, Given
<1>3. FreeBytes' = FreeBytes
  BY <1>1 DEF FreeBytes
<1>4. AllSafe(map, FreeBytes) /\ Ordered(map) /\ map \in Seq(Section) /\ Len(map) \in Nat
  BY DEF IInv, Stored, TypeOK
<1>5. ASSUME todo' = <<>>, pc' = "ready" PROVE ~HoldsNull(map)
  <2> SUFFICES ASSUME NEW k \in 1..Len(map), 0 \in Bytes(map[k]) PROVE FALSE
    BY DEF HoldsNull
  <2>1. k \in DOMAIN map /\ map[k] \in Section /\ Limit(map[k]) < UsizeBound
    BY <1>4 DEF AllSafe, Safe
  <2>2. Apart(Given, map[k])
    <3>1. CmpMemSct(Given, map[k]) = "Separate"
      BY <1>1, <1>5, <2>1
    <3> QED
      BY <3>1, <2>1, <1>2, CmpSeparate
  <2>3. Given.start = 0
    BY <1>2, <1>5, SizeAssumption DEF LastCall, Rip, Given, Sct
  <2>4. /\ map[k].start \in Nat /\ Limit(map[k]) \in Nat
        /\ Given.start \in Nat /\ Limit(Given) \in Nat
    BY <1>2, <2>1, SectionFacts
  <2> QED
    BY <2>2, <2>3, <2>4 DEF Apart, Bytes
<1>6. todo' = <<>> => call' = Sct(0, PageBytes)
  BY <1>1, <1>2 DEF LastCall, Rip, Given
<1>7. TypeOK'
  BY <1>1, <1>2, <1>4 DEF IInv, TypeOK, TodoOK, CallType
<1> QED
  BY <1>1, <1>2, <1>3, <1>4, <1>5, <1>6, <1>7
     DEF IInv, Stored, Merging, Ripping, FirstPage, UnreachableIsUnreachable

(***************************************************************************)
(* A step of rip_section's loop: it goes on behind the section at i, or    *)
(* writes back what it made of the copy, or gives a range inside up.       *)
(***************************************************************************)
GoesOn(v) ==
  /\ pc' = "rip" /\ arr' = v /\ map' = map
  /\ i \in 1..Len(arr) /\ i' = i + 1 /\ i' <= Len(v) + 2
  /\ edit' \in {"none", "edited"}
  /\ edit' = "none" => arr' = map
  /\ edit' = "edited" => \A k \in 1..Len(v) : k >= i + 1 => call.start < v[k].start
Leaves(v) ==
  /\ pc' = "ready" /\ arr' = v /\ map' = v /\ i' = i /\ i <= Len(v) + 2
  /\ edit' \in {"none", "edited"}
  /\ \A k \in 1..Len(arr) : k > i => Limit(call) < arr[k].start
GivesUp ==
  /\ pc' \in {"ready", "full"} /\ UNCHANGED <<map, arr, i, edit>>
  /\ edit = "none" /\ i \in 1..Len(arr) /\ StrictlyInside(call, arr[i])

RipStep ==
  /\ pc = "rip" /\ UNCHANGED <<boot, todo, call>>
  /\ \/ \E v : Trims(arr, i, call, v) /\ (GoesOn(v) \/ Leaves(v))
     \/ GivesUp

RipLoop == RipTail \/ RipHead \/ RipInside \/ RipWhole \/ RipNone \/ RipEnd

\* What the invariant says in the loop.
LEMMA LoopFacts ==
  ASSUME IInv, pc = "rip"
  PROVE  /\ arr \in Seq(Section) /\ Len(arr) \in Nat /\ AllSafe(arr, FreeBytes) /\ Ordered(arr)
         /\ call \in Section /\ Limit(call) < UsizeBound
         /\ call.start \in Nat /\ call.size \in Nat /\ Limit(call) = call.start + call.size
         /\ i \in 1..Len(arr) + 2 /\ edit \in {"none", "edited"}
         /\ edit = "none" => arr = map
         /\ edit = "edited" => \A k \in 1..Len(arr) : k >= i => call.start < arr[k].start
<1>1. call \in Section
  BY DEF IInv, TypeOK
<1>2. call.start \in Nat /\ call.size \in Nat /\ Limit(call) = call.start + call.size
  BY <1>1, SectionFacts
<1> QED
  BY <1>1, <1>2 DEF IInv, TypeOK, Stored, Ripping

\* What meeting the section at i means.
LEMMA MeetsFacts ==
  ASSUME IInv, NEW answer, Meets(answer)
  PROVE  /\ pc = "rip" /\ i \in 1..Len(arr) /\ arr[i] \in Section /\ Safe(arr[i], FreeBytes)
         /\ CmpMemSct(arr[i], call) = answer
         /\ arr[i].start \in Nat /\ arr[i].size \in Nat
         /\ Limit(arr[i]) = arr[i].start + arr[i].size /\ Limit(arr[i]) < UsizeBound
         /\ End(arr[i]) = Limit(arr[i]) /\ End(call) = Limit(call)
         /\ arr[i].size = 0 => arr[i].start = 0
<1>1. pc = "rip" /\ i <= Len(arr) /\ CmpMemSct(arr[i], call) = answer
  BY DEF Meets
<1>2. i \in 1..Len(arr)
  BY <1>1, LoopFacts
<1>3. Safe(arr[i], FreeBytes)
  BY <1>1, <1>2, LoopFacts DEF AllSafe
<1>4. arr[i] \in Section /\ Limit(arr[i]) < UsizeBound /\ (arr[i].size = 0 => arr[i].start = 0)
  BY <1>3 DEF Safe
<1>5. End(arr[i]) = Limit(arr[i]) /\ End(call) = Limit(call)
  BY <1>1, <1>4, LoopFacts, EndIsLimit
<1> QED
  BY <1>1, <1>2, <1>3, <1>4, <1>5, SectionFacts

\* A section of the copy replaced by one that shares nothing with the range.
LEMMA TrimTo ==
  ASSUME NEW v \in Seq(Section), NEW j \in 1..Len(v), NEW g \in Section,
         NEW s \in Section, s.size = 0 => s.start = 0,
         v[j].start <= s.start, Limit(s) <= Limit(v[j]),
         \/ s.start = v[j].start /\ Limit(s) = g.start /\ Limit(v[j]) <= Limit(g)
         \/ Limit(s) = Limit(v[j]) /\ s.start = Limit(g) /\ g.start <= v[j].start
  PROVE  Trims(v, j, g, [v EXCEPT ![j] = s])
<1>1. /\ v[j].start \in Nat /\ Limit(v[j]) \in Nat
      /\ s.start \in Nat /\ Limit(s) \in Nat /\ g.start \in Nat /\ Limit(g) \in Nat
  BY SectionFacts
<1>2. Bytes(v[j]) \ Bytes(s) \subseteq Bytes(g)
  BY <1>1 DEF Bytes
<1>3. Clear(s, g)
  BY <1>1 DEF Bytes, Clear
<1> QED
  BY <1>2, <1>3 DEF Trims, Within

\* A section whose end is cut off.
LEMMA RipTailStep ==
  ASSUME IInv, RipTail
  PROVE  RipStep
<1> DEFINE s == Sct(arr[i].start, call.start - arr[i].start)
           v == [arr EXCEPT ![i] = s]
<1>1. Meets("StartBranch") /\ edit' = Edited /\ i' = i + 1
      /\ arr' = [arr EXCEPT ![i].size = Sub(call.start, arr[i].start)]
      /\ UNCHANGED <<boot, todo, map, pc, call>>
  BY DEF RipTail
<1>2. /\ pc = "rip" /\ i \in 1..Len(arr) /\ arr[i] \in Section
      /\ arr[i].start \in Nat /\ arr[i].size \in Nat
      /\ Limit(arr[i]) = arr[i].start + arr[i].size
      /\ arr[i].size = 0 => arr[i].start = 0
  BY <1>1, MeetsFacts
<1>3. /\ arr[i].start <= call.start /\ call.start <= Limit(arr[i])
      /\ Limit(arr[i]) <= Limit(call)
      /\ arr[i].size > 0 => arr[i].start < call.start
  BY <1>1, MeetsFacts, LoopFacts, CmpMeans
<1>l. call \in Section /\ call.start \in Nat /\ arr \in Seq(Section) /\ Ordered(arr)
      /\ edit \in {"none", "edited"}
  BY <1>2, LoopFacts
<1>4. /\ s \in Section /\ s.start = arr[i].start /\ Limit(s) = call.start
      /\ s.size = call.start - arr[i].start
  <2>1. call.start - arr[i].start \in Nat
    BY <1>2, <1>3, <1>l
  <2>2. /\ s \in Section /\ s.start = arr[i].start /\ s.size = call.start - arr[i].start
        /\ Limit(s) = arr[i].start + (call.start - arr[i].start)
    BY <2>1, <1>2, SctFacts
  <2> QED
    BY <2>2, <1>2, <1>l
<1>5. arr' = v
  <2>1. Sub(call.start, arr[i].start) = call.start - arr[i].start
    BY <1>2, <1>3, <1>l DEF Sub
  <2>2. [arr[i] EXCEPT !.size = call.start - arr[i].start] = s
    BY <1>2 DEF Section, Sct
  <2> QED
    BY <1>1, <2>1, <2>2
<1> HIDE DEF s
<1>6. Trims(arr, i, call, v)
  <2>1. s.size = 0 => s.start = 0
    BY <1>2, <1>3, <1>4, <1>l
  <2>2. Limit(s) <= Limit(arr[i]) /\ arr[i].start <= s.start
    BY <1>2, <1>3, <1>4
  <2> QED
    BY <2>1, <2>2, <1>2, <1>3, <1>4, <1>l, TrimTo
<1>7. GoesOn(v)
  <2>1. Len(v) = Len(arr) /\ \A k \in 1..Len(v) : v[k] = IF k = i THEN s ELSE arr[k]
    BY <1>2, <1>4, <1>l
  <2>2. ASSUME NEW k \in 1..Len(v), k >= i + 1 PROVE call.start < v[k].start
    <3>1. k \in 1..Len(arr) /\ i < k /\ v[k] = arr[k]
      BY <1>2, <2>1, <2>2
    <3>2. Limit(arr[i]) < arr[k].start /\ arr[k].start \in Nat /\ Limit(arr[i]) \in Nat
      BY <3>1, <1>2, <1>l, OrderedFacts
    <3> QED
      BY <3>1, <3>2, <1>3, <1>l
  <2>3. edit' = "edited"
    BY <1>1, <1>l DEF Edited
  <2>4. i + 1 <= Len(v) + 2
    BY <1>2, <2>1
  <2> QED
    BY <1>1, <1>2, <1>5, <2>2, <2>3, <2>4 DEF GoesOn
<1> QED
  BY <1>1, <1>2, <1>6, <1>7 DEF RipStep

\* A section whose beginning is cut off.
LEMMA RipHeadStep ==
  ASSUME IInv, RipHead
  PROVE  RipStep
<1> DEFINE s == Sct(Limit(call), Limit(arr[i]) - Limit(call))
           v == [arr EXCEPT ![i] = s]
<1>1. /\ Meets("EndBranch")
      /\ WriteBack([arr EXCEPT ![i] = Sct(End(call), Sub(End(arr[i]), End(call)))])
      /\ UNCHANGED <<boot, todo, call, i, edit>>
  BY DEF RipHead
<1>2. /\ pc = "rip" /\ i \in 1..Len(arr) /\ arr[i] \in Section
      /\ arr[i].start \in Nat /\ arr[i].size \in Nat
      /\ Limit(arr[i]) = arr[i].start + arr[i].size
      /\ arr[i].size = 0 => arr[i].start = 0
      /\ End(arr[i]) = Limit(arr[i]) /\ End(call) = Limit(call)
  BY <1>1, MeetsFacts
<1>3. /\ call.start <= arr[i].start /\ arr[i].start <= Limit(call)
      /\ Limit(call) <= Limit(arr[i])
      /\ arr[i].size > 0 => Limit(call) < Limit(arr[i])
  BY <1>1, MeetsFacts, LoopFacts, CmpMeans
<1>l. /\ call \in Section /\ call.start \in Nat /\ arr \in Seq(Section) /\ Ordered(arr)
      /\ edit \in {"none", "edited"} /\ Limit(call) \in Nat
      /\ i \in 1..Len(arr) + 2
  BY <1>2, LoopFacts
<1>4. /\ s \in Section /\ s.start = Limit(call) /\ Limit(s) = Limit(arr[i])
      /\ s.size = Limit(arr[i]) - Limit(call)
  <2>1. Limit(arr[i]) - Limit(call) \in Nat
    BY <1>2, <1>3, <1>l
  <2>2. /\ s \in Section /\ s.start = Limit(call) /\ s.size = Limit(arr[i]) - Limit(call)
        /\ Limit(s) = Limit(call) + (Limit(arr[i]) - Limit(call))
    BY <2>1, <1>l, SctFacts
  <2> QED
    BY <2>2, <1>2, <1>l
<1>5. WriteBack(v)
  <2>1. Sub(End(arr[i]), End(call)) = Limit(arr[i]) - Limit(call)
    BY <1>2, <1>3, <1>l DEF Sub
  <2> QED
    BY <1>1, <1>2, <2>1
<1> HIDE DEF s
<1>6. Trims(arr, i, call, v)
  <2>1. s.size = 0 => s.start = 0
    BY <1>2, <1>3, <1>4, <1>l
  <2>2. Limit(s) <= Limit(arr[i]) /\ arr[i].start <= s.start
    BY <1>2, <1>3, <1>4
  <2> QED
    BY <2>1, <2>2, <1>2, <1>3, <1>4, <1>l, TrimTo
<1>7. Len(v) = Len(arr) /\ v[i] = s
  BY <1>2, <1>4, <1>l
<1>8. Leaves(v)
  <2>1. ASSUME NEW k \in 1..Len(arr), k > i PROVE Limit(call) < arr[k].start
    <3>1. Limit(arr[i]) < arr[k].start /\ arr[k].start \in Nat /\ Limit(arr[i]) \in Nat
      BY <2>1, <1>2, <1>l, OrderedFacts
    <3> QED
      BY <3>1, <1>3, <1>l
  <2>2. i <= Len(v) + 2
    BY <1>2, <1>7
  <2> QED
    BY <1>1, <1>5, <1>l, <2>1, <2>2 DEF Leaves, WriteBack
<1> QED
  BY <1>1, <1>2, <1>6, <1>8 DEF RipStep

\* The sections behind one that reaches the range's end are behind the range.
LEMMA BehindRange ==
  ASSUME NEW v \in Seq(Section), Ordered(v), NEW j \in 1..Len(v), NEW g \in Section,
         Limit(g) <= Limit(v[j]), NEW k \in 1..Len(v), k > j
  PROVE  Limit(g) < v[k].start
<1>1. Limit(v[j]) < v[k].start /\ v[k].start \in Nat /\ Limit(v[j]) \in Nat
  BY OrderedFacts
<1>2. Limit(g) \in Nat
  BY SectionFacts
<1> QED
  BY <1>1, <1>2

\* A section that is cut in two.
LEMMA RipInsideStep ==
  ASSUME IInv, RipInside
  PROVE  RipStep
<1>1. /\ Meets("NoChange")
      /\ IF edit # "none" THEN Restart ELSE Shrink(arr[i]) /\ UNCHANGED <<i, edit>>
      /\ UNCHANGED <<boot, todo, call>>
  BY DEF RipInside
<1>2. /\ pc = "rip" /\ i \in 1..Len(arr) /\ arr[i] \in Section
      /\ arr[i].start \in Nat /\ arr[i].size \in Nat
      /\ Limit(arr[i]) = arr[i].start + arr[i].size
      /\ arr[i].size = 0 => arr[i].start = 0
      /\ End(arr[i]) = Limit(arr[i]) /\ End(call) = Limit(call)
  BY <1>1, MeetsFacts
<1>3. arr[i].start <= call.start /\ Limit(call) <= Limit(arr[i])
  BY <1>1, MeetsFacts, LoopFacts, CmpMeans DEF Within
<1>l. /\ call \in Section /\ call.start \in Nat /\ arr \in Seq(Section) /\ Ordered(arr)
      /\ call.size \in Nat /\ Limit(call) = call.start + call.size
      /\ edit \in {"none", "edited"} /\ Limit(call) \in Nat
      /\ edit = "edited" => \A k \in 1..Len(arr) : k >= i => call.start < arr[k].start
      /\ Len(arr) \in Nat
  BY <1>2, LoopFacts
<1>4. edit = "none"
  <2> SUFFICES ASSUME edit = "edited" PROVE FALSE
    BY <1>l
  <2>1. call.start < arr[i].start
    BY <1>2, <1>l
  <2> QED
    BY <2>1, <1>2, <1>3, <1>l
<1> DEFINE rest == arr[i].size - call.size
<1>5. Sub(arr[i].size, call.size) = rest /\ rest \in Nat
  BY <1>2, <1>3, <1>l DEF Sub
<1>6. ASSUME NEW k \in 1..Len(arr), k > i PROVE Limit(call) < arr[k].start
  BY <1>6, <1>2, <1>3, <1>l, BehindRange
<1>7. CASE arr[i].size = call.size /\ \E v \in Removed(arr, i) : WriteBack(v)
  <2>1. PICK v \in Removed(arr, i) : WriteBack(v)
    BY <1>7
  <2>2. Within(arr[i], call)
    BY <1>2, <1>3, <1>7, <1>l DEF Within
  <2>3. Len(v) = Len(arr) - 1
    BY <1>2, <1>l, RemovedFacts
  <2>4. i <= Len(v) + 2
    BY <2>3, <1>2, <1>l
  <2>5. Leaves(v)
    BY <1>1, <1>4, <1>6, <2>1, <2>4 DEF Leaves, WriteBack
  <2>6. Trims(arr, i, call, v)
    BY <2>2, <1>2, <1>7, <1>l, <2>1 DEF Trims
  <2> QED
    BY <1>1, <1>2, <2>5, <2>6 DEF RipStep
<1>8. ASSUME NEW s \in Section, rest # 0, s.size = rest, WriteBack([arr EXCEPT ![i] = s]),
             \/ s.start = arr[i].start /\ Limit(s) = call.start /\ Limit(arr[i]) = Limit(call)
             \/ Limit(s) = Limit(arr[i]) /\ s.start = Limit(call) /\ call.start = arr[i].start
      PROVE  RipStep
  <2> DEFINE v == [arr EXCEPT ![i] = s]
  <2>1. arr[i].start <= s.start /\ Limit(s) <= Limit(arr[i])
    BY <1>2, <1>3, <1>8, <1>l
  <2>2. Trims(arr, i, call, v)
    BY <2>1, <1>2, <1>5, <1>8, <1>l, TrimTo
  <2>3. Len(v) = Len(arr)
    BY <1>2, <1>l
  <2>4. i <= Len(v) + 2
    BY <2>3, <1>2, <1>l
  <2>5. Leaves(v)
    BY <1>1, <1>4, <1>6, <1>8, <2>4 DEF Leaves, WriteBack
  <2> QED
    BY <1>1, <1>2, <2>2, <2>5 DEF RipStep
<1>9. CASE /\ arr[i].size # call.size /\ arr[i].start = call.start
           /\ WriteBack([arr EXCEPT ![i] = Sct(End(call), rest)])
  <2> DEFINE s == Sct(Limit(call), rest)
  <2>1. /\ s \in Section /\ s.start = Limit(call) /\ s.size = rest
        /\ Limit(s) = Limit(call) + rest
    BY <1>5, <1>l, SctFacts
  <2>2. rest # 0 /\ Limit(call) + rest = Limit(arr[i])
    BY <1>2, <1>9, <1>l
  <2>3. WriteBack([arr EXCEPT ![i] = s])
    BY <1>2, <1>9
  <2> HIDE DEF s, rest
  <2> QED
    BY <2>1, <2>2, <2>3, <1>8, <1>9
<1>10. CASE /\ arr[i].size # call.size /\ arr[i].start # call.start
            /\ End(arr[i]) = End(call) /\ WriteBack([arr EXCEPT ![i].size = rest])
  <2> DEFINE s == Sct(arr[i].start, rest)
  <2>1. /\ s \in Section /\ s.start = arr[i].start /\ s.size = rest
        /\ Limit(s) = arr[i].start + rest
    BY <1>2, <1>5, SctFacts
  <2>2. rest # 0 /\ arr[i].start + rest = call.start /\ Limit(arr[i]) = Limit(call)
    BY <1>2, <1>10, <1>l
  <2>3. [arr[i] EXCEPT !.size = rest] = s
    BY <1>2 DEF Section, Sct
  <2>4. WriteBack([arr EXCEPT ![i] = s])
    BY <1>10, <2>3
  <2> HIDE DEF s, rest
  <2> QED
    BY <2>1, <2>2, <2>4, <1>8
<1>11. CASE /\ arr[i].size # call.size /\ arr[i].start # call.start /\ End(arr[i]) # End(call)
            /\ pc' = IF Len(arr) = MapCap THEN "full" ELSE "ready"
            /\ UNCHANGED <<map, arr>>
  <2>1. StrictlyInside(call, arr[i])
    BY <1>2, <1>3, <1>11, <1>l DEF StrictlyInside
  <2>2. GivesUp
    BY <2>1, <1>1, <1>2, <1>4, <1>11 DEF GivesUp
  <2> QED
    BY <2>2, <1>1, <1>2 DEF RipStep
<1> QED
  <2>1. Shrink(arr[i])
    BY <1>1, <1>4
  <2> QED
    BY <2>1, <1>5, <1>7, <1>9, <1>10, <1>11 DEF Shrink

\* A section that is removed whole.
LEMMA RipWholeStep ==
  ASSUME IInv, RipWhole
  PROVE  RipStep
<1>1. PICK v \in Removed(arr, i) :
        /\ Meets("Overwrite") /\ edit' = Edited /\ UNCHANGED <<boot, todo, call>>
        /\ IF End(arr[i]) = End(call) THEN WriteBack(v) /\ UNCHANGED i
           ELSE arr' = v /\ i' = i + 1 /\ UNCHANGED <<map, pc>>
  BY DEF RipWhole
<1>2. /\ pc = "rip" /\ i \in 1..Len(arr) /\ arr[i] \in Section
      /\ arr[i].start \in Nat /\ arr[i].size \in Nat
      /\ Limit(arr[i]) = arr[i].start + arr[i].size
      /\ End(arr[i]) = Limit(arr[i]) /\ End(call) = Limit(call)
  BY <1>1, MeetsFacts
<1>3. /\ Within(arr[i], call) /\ call.start <= arr[i].start
      /\ arr[i].size = 0 => call.start < arr[i].start /\ arr[i].start = 0
  BY <1>1, MeetsFacts, LoopFacts, CmpMeans DEF Within
<1>l. /\ call \in Section /\ call.start \in Nat /\ arr \in Seq(Section) /\ Ordered(arr)
      /\ edit \in {"none", "edited"} /\ Limit(call) \in Nat /\ Len(arr) \in Nat
  BY <1>2, LoopFacts
<1>4. Trims(arr, i, call, v)
  <2>1. arr[i].size > 0
    BY <1>2, <1>3, <1>l
  <2> QED
    BY <2>1, <1>2, <1>3 DEF Trims
<1>5. edit' = "edited"
  BY <1>1, <1>l DEF Edited
<1>6. Cut(arr, i, v)
  BY <1>2, <1>l, RemovedFromOrdered
<1>7. Len(v) = Len(arr) - 1
  BY <1>6 DEF Cut
<1>8. CASE End(arr[i]) = End(call)
  <2>1. ASSUME NEW k \in 1..Len(arr), k > i PROVE Limit(call) < arr[k].start
    BY <2>1, <1>2, <1>8, <1>l, BehindRange
  <2>2. Leaves(v)
    BY <1>1, <1>2, <1>5, <1>7, <1>8, <1>l, <2>1 DEF Leaves, WriteBack
  <2> QED
    BY <1>1, <1>2, <1>4, <2>2 DEF RipStep
<1>9. CASE End(arr[i]) # End(call)
  <2>1. ASSUME NEW k \in 1..Len(v), k >= i + 1 PROVE call.start < v[k].start
    <3>1. k \in 1..Len(arr) - 1 /\ k + 1 \in 1..Len(arr) /\ i < k + 1 /\ k # 1 /\ ~(k < i)
      BY <1>2, <1>7, <1>l, <2>1
    <3>2. v[k] = arr[k + 1]
      BY <3>1, <1>6 DEF Cut
    <3>3. arr[i].start < arr[k + 1].start /\ arr[k + 1].start \in Nat
      BY <3>1, <1>2, <1>l, OrderedFacts
    <3> QED
      BY <3>2, <3>3, <1>2, <1>3, <1>l
  <2>2. i + 1 <= Len(v) + 2
    BY <1>2, <1>7, <1>l
  <2>3. GoesOn(v)
    BY <1>1, <1>2, <1>5, <1>9, <2>1, <2>2 DEF GoesOn
  <2> QED
    BY <1>1, <1>2, <1>4, <2>3 DEF RipStep
<1> QED
  BY <1>8, <1>9

\* A section the call does not meet.
LEMMA RipNoneStep ==
  ASSUME IInv, RipNone
  PROVE  RipStep
<1>1. /\ Meets("Separate") /\ UNCHANGED <<boot, todo, call, edit>>
      /\ IF edit # "none" THEN WriteBack(arr) /\ UNCHANGED i
         ELSE i' = i + 1 /\ UNCHANGED <<map, pc, arr>>
  BY DEF RipNone
<1>2. /\ pc = "rip" /\ i \in 1..Len(arr) /\ arr[i] \in Section
      /\ arr[i].start \in Nat /\ arr[i].size \in Nat
      /\ Limit(arr[i]) = arr[i].start + arr[i].size /\ Limit(arr[i]) < UsizeBound
  BY <1>1, MeetsFacts
<1>l. /\ call \in Section /\ call.start \in Nat /\ arr \in Seq(Section) /\ Ordered(arr)
      /\ edit \in {"none", "edited"} /\ Limit(call) \in Nat /\ Len(arr) \in Nat
      /\ edit = "none" => arr = map
      /\ edit = "edited" => \A k \in 1..Len(arr) : k >= i => call.start < arr[k].start
  BY <1>2, LoopFacts
<1>3. Apart(arr[i], call)
  BY <1>1, <1>2, MeetsFacts, LoopFacts, CmpSeparate
<1>4. Trims(arr, i, call, arr)
  BY <1>3 DEF Trims
<1>5. CASE edit = "none"
  <2>1. GoesOn(arr)
    BY <1>1, <1>2, <1>5, <1>l DEF GoesOn
  <2> QED
    BY <1>1, <1>2, <1>4, <2>1 DEF RipStep
<1>6. CASE edit = "edited"
  <2>1. Limit(call) < arr[i].start
    <3>1. call.start < arr[i].start
      BY <1>2, <1>6, <1>l
    <3> QED
      BY <3>1, <1>2, <1>3, <1>l DEF Apart
  <2>2. ASSUME NEW k \in 1..Len(arr), k > i PROVE Limit(call) < arr[k].start
    <3>1. arr[i].start < arr[k].start /\ arr[k].start \in Nat
      BY <2>2, <1>2, <1>l, OrderedFacts
    <3> QED
      BY <3>1, <2>1, <1>2, <1>l
  <2>3. Leaves(arr)
    BY <1>1, <1>2, <1>6, <1>l, <2>2 DEF Leaves, WriteBack
  <2> QED
    BY <1>1, <1>2, <1>4, <2>3 DEF RipStep
<1> QED
  BY <1>5, <1>6, <1>l

\* The end of rip_section's loop.
LEMMA RipEndStep ==
  ASSUME IInv, RipEnd
  PROVE  RipStep
<1>1. pc = "rip" /\ i > Len(arr) /\ WriteBack(arr) /\ UNCHANGED <<boot, todo, call, i, edit>>
  BY DEF RipEnd
<1>2. i \in 1..Len(arr) + 2 /\ Len(arr) \in Nat /\ edit \in {"none", "edited"}
  BY <1>1, LoopFacts
<1>3. Trims(arr, i, call, arr)
  BY <1>1, <1>2 DEF Trims
<1>4. Leaves(arr)
  BY <1>1, <1>2 DEF Leaves, WriteBack
<1> QED
  BY <1>1, <1>3, <1>4 DEF RipStep

-----------------------------------------------------------------------------
\* The first page's range takes address 0 from a copy that has it where the
\* loop stands, at the first section.
LEMMA TrimsNull ==
  ASSUME NEW v \in Seq(Section), Ordered(v), NEW j, NEW g \in Section, NEW w,
         Trims(v, j, g, w), g.start = 0, g.size > 0, HoldsNull(v) => j = 1
  PROVE  ~HoldsNull(w)
<1> SUFFICES ASSUME NEW k \in 1..Len(w), 0 \in Bytes(w[k]) PROVE FALSE
  BY DEF HoldsNull
<1>1. PICK m \in 1..Len(v) : 0 \in Bytes(v[m])
  BY TrimsWithin
<1>2. j = 1
  BY <1>1 DEF HoldsNull
<1>3. ASSUME NEW l \in 1..Len(v), 0 \in Bytes(v[l]) PROVE l = 1 /\ v[1].start = 0
  <2>1. v[l].start = 0
    <3>1. v[l].start \in Nat
      BY SectionFacts
    <3> QED
      BY <3>1, <1>3 DEF Bytes
  <2>2. ~(1 < l)
    <3> SUFFICES ASSUME 1 < l PROVE FALSE
      OBVIOUS
    <3>1. 1 \in 1..Len(v)
      OBVIOUS
    <3>2. v[l].start > 0
      BY <3>1, OrderedFacts
    <3> QED
      BY <3>2, <2>1
  <2> QED
    BY <2>1, <2>2
<1>4. v[1].start = 0 /\ 1 \in 1..Len(v) /\ v[1] \in Section
  BY <1>1, <1>3
<1>5. 0 \in Bytes(g) /\ Limit(g) > 0
  <2>1. g.size \in Nat /\ Limit(g) = g.start + g.size
    BY SectionFacts
  <2> QED
    BY <2>1 DEF Bytes
<1>6. CASE w = v /\ (j \in 1..Len(v) => Apart(v[j], g))
  <2>1. Apart(v[1], g) /\ Limit(v[1]) \in Nat /\ Limit(g) \in Nat
    BY <1>2, <1>4, <1>6, SectionFacts
  <2> QED
    BY <2>1, <1>4 DEF Apart
<1>7. ASSUME NEW s \in Section, Clear(s, g), w = [v EXCEPT ![j] = s] PROVE FALSE
  <2>1. k \in 1..Len(v) /\ w[k] = IF k = 1 THEN s ELSE v[k]
    BY <1>2, <1>7
  <2>2. k = 1
    BY <2>1, <1>3
  <2> QED
    BY <2>1, <2>2, <1>5, <1>7 DEF Clear
<1>8. ASSUME w \in Removed(v, j) PROVE FALSE
  <2>1. Cut(v, 1, w)
    BY <1>2, <1>4, <1>8, RemovedFromOrdered
  <2>2. k \in 1..Len(v) - 1 /\ k + 1 \in 1..Len(v) /\ ~(k < 1)
    BY <2>1 DEF Cut
  <2>3. w[k] = v[k + 1]
    BY <2>1, <2>2 DEF Cut
  <2> QED
    BY <2>2, <2>3, <1>3
<1> QED
  BY <1>6, <1>7, <1>8 DEF Trims

\* Every pass of rip_section's loop is one of the six above.
LEMMA RipLoopSteps ==
  ASSUME IInv, RipLoop
  PROVE  RipStep
BY RipTailStep, RipHeadStep, RipInsideStep, RipWholeStep, RipNoneStep, RipEndStep, Zenon
   DEF RipLoop

\* A pass of rip_section's loop keeps the invariant.
LEMMA RipStepKeeps ==
  ASSUME IInv, RipStep
  PROVE  IInv'
<1>1. /\ pc = "rip" /\ UNCHANGED <<boot, todo, call>>
      /\ \/ \E v : Trims(arr, i, call, v) /\ (GoesOn(v) \/ Leaves(v))
         \/ GivesUp
  BY DEF RipStep
<1>2. FreeBytes' = FreeBytes
  BY <1>1 DEF FreeBytes
<1>3. /\ arr \in Seq(Section) /\ Len(arr) \in Nat /\ AllSafe(arr, FreeBytes) /\ Ordered(arr)
      /\ call \in Section /\ Len(arr) <= MapCap /\ AllRips(todo)
      /\ TodoOK(todo, i, FreeBytes) /\ AllSafe(map, FreeBytes) /\ Ordered(map)
  BY <1>1, LoopFacts DEF IInv, TypeOK, Ripping, Stored
<1>4. TodoOK(todo, i', FreeBytes)
  BY <1>3, RipsAtAnyIndex
<1>5. todo = <<>> => /\ call = Sct(0, PageBytes) /\ call.start = 0 /\ call.size > 0
                     /\ HoldsNull(arr) => i = 1 /\ edit = "none"
  BY <1>1, SizeAssumption DEF IInv, FirstPage, Sct
<1>6. ASSUME NEW v, Trims(arr, i, call, v), GoesOn(v) \/ Leaves(v) PROVE IInv'
  <2>1. AllSafe(v, FreeBytes) /\ Ordered(v) /\ Len(v) <= Len(arr)
    BY <1>3, <1>6, TrimsSafe
  <2>2. todo = <<>> => ~HoldsNull(v)
    BY <1>3, <1>5, <1>6, TrimsNull
  <2>3. v \in Seq(Section) /\ Len(v) \in Nat /\ Len(v) <= MapCap
    BY <2>1, <1>3, SizeAssumption DEF AllSafe
  <2>4. CASE GoesOn(v)
    <3>1. TypeOK'
      BY <2>3, <2>4, <1>1 DEF IInv, TypeOK, GoesOn
    <3>2. Ripping'
      <4>1. /\ arr' = v /\ edit' \in {"none", "edited"} /\ i' = i + 1
            /\ edit' = "none" => arr' = map' /\ map' = map
            /\ edit' = "edited" => \A k \in 1..Len(v) : k >= i + 1 => call.start < v[k].start
        BY <2>4 DEF GoesOn
      <4> QED
        BY <4>1, <2>1, <1>1, <1>3 DEF Ripping
    <3>3. Stored' /\ Merging' /\ FirstPage' /\ UnreachableIsUnreachable'
      BY <2>1, <2>2, <2>4, <1>1, <1>2, <1>3, <1>5
         DEF Stored, Merging, FirstPage, UnreachableIsUnreachable, GoesOn
    <3> QED
      BY <3>1, <3>2, <3>3, <1>1, <1>2, <1>4 DEF IInv
  <2>5. CASE Leaves(v)
    <3>1. TypeOK'
      BY <2>3, <2>5, <1>1 DEF IInv, TypeOK, Leaves
    <3>2. Stored' /\ Merging' /\ Ripping' /\ FirstPage' /\ UnreachableIsUnreachable'
      BY <2>1, <2>2, <2>5, <1>1, <1>2
         DEF Stored, Merging, Ripping, FirstPage, UnreachableIsUnreachable, Leaves
    <3> QED
      BY <3>1, <3>2, <1>1, <1>2, <1>4 DEF IInv
  <2> QED
    BY <2>4, <2>5, <1>6
<1>7. CASE GivesUp
  <2>1. /\ pc' \in {"ready", "full"} /\ UNCHANGED <<map, arr, i, edit>>
        /\ edit = "none" /\ i \in 1..Len(arr) /\ StrictlyInside(call, arr[i]) /\ arr = map
    BY <1>1, <1>7, LoopFacts DEF GivesUp
  <2>2. todo = <<>> => ~HoldsNull(map)
    <3> SUFFICES ASSUME todo = <<>>, HoldsNull(arr) PROVE FALSE
      BY <2>1
    <3>1. arr[i].start < 0 /\ arr[i] \in Section
      BY <2>1, <1>3, <1>5 DEF StrictlyInside
    <3> QED
      BY <3>1, SectionFacts
  <2>3. TypeOK'
    BY <2>1, <1>1 DEF IInv, TypeOK
  <2> QED
    BY <2>1, <2>2, <2>3, <1>1, <1>2, <1>3, <1>4
       DEF IInv, Stored, Merging, Ripping, FirstPage, UnreachableIsUnreachable
<1> QED
  BY <1>1, <1>6, <1>7

\* The return of get_mmap keeps the invariant.
LEMMA ReturnKeeps ==
  ASSUME IInv, Return
  PROVE  IInv'
<1>1. /\ pc = "ready" /\ todo = <<>> /\ pc' = "done"
      /\ UNCHANGED <<boot, todo, map, call, arr, i, edit>>
  BY DEF Return, locals
<1>2. FreeBytes' = FreeBytes
  BY <1>1 DEF FreeBytes
<1>3. TypeOK'
  BY <1>1 DEF IInv, TypeOK
<1> QED
  BY <1>1, <1>2, <1>3
     DEF IInv, Stored, Merging, Ripping, FirstPage, UnreachableIsUnreachable

\* get_mmap keeps the invariant, whatever the boot loader hands over.
THEOREM Inductive == Spec => []IInv
<1>1. Init => IInv
  BY InitHolds
<1>2. IInv /\ [Next]_vars => IInv'
  <2> SUFFICES ASSUME IInv, [Next]_vars PROVE IInv'
    OBVIOUS
  <2>1. CASE UNCHANGED vars
    BY <2>1 DEF vars, IInv, TypeOK, Stored, Merging, Ripping, FirstPage,
                UnreachableIsUnreachable, FreeBytes
  <2>2. CASE RipLoop
    BY <2>2, RipLoopSteps, RipStepKeeps
  <2> QED
    BY <2>1, <2>2, PassOverKeeps, GlueSectionKeeps, MergeKeeps, GlueEndKeeps,
       RipSectionKeeps, ReturnKeeps, Zenon DEF Next, RipLoop
<1> QED
  BY <1>1, <1>2, PTL DEF Spec

-----------------------------------------------------------------------------
(***************************************************************************)
(* What the runs check of every state follows from the invariant.          *)
(***************************************************************************)
\* The map and the copy are arrays of sections, no longer than the array.
THEOREM TypesHold == Spec => []TypeOK
<1>1. IInv => TypeOK
  BY DEF IInv
<1> QED
  BY <1>1, Inductive, PTL

\* The allocator is given no byte the firmware did not call free.
THEOREM OnlyFreeMemory == Spec => []MapIsFree
<1>1. ASSUME NEW v, NEW free, AllSafe(v, free) PROVE BytesOf(v) \subseteq free
  <2>1. v \in Seq(Section) /\ \A k \in 1..Len(v) : Bytes(v[k]) \subseteq free
    BY <1>1 DEF AllSafe, Safe
  <2>2. DOMAIN v = 1..Len(v)
    BY <2>1
  <2> QED
    BY <2>1, <2>2 DEF BytesOf
<1>2. IInv => MapIsFree
  BY <1>1 DEF IInv, Stored, MapIsFree
<1> QED
  BY <1>2, Inductive, PTL

\* Between and during the calls the map's sections ascend with gaps.
THEOREM GapsStay == Spec => []MapApart
<1>1. IInv => MapApart
  BY DEF IInv, Stored, MapApart, Ordered
<1> QED
  BY <1>1, Inductive, PTL

\* Address 0 is not in the map get_mmap returns.
THEOREM NullIsGone == Spec => []NullNotMapped
<1>1. IInv => NullNotMapped
  <2> SUFFICES ASSUME IInv, pc = "done" PROVE 0 \notin BytesOf(map)
    BY DEF NullNotMapped
  <2>1. ~HoldsNull(map) /\ map \in Seq(Section)
    BY DEF IInv, FirstPage, TypeOK
  <2>2. DOMAIN map = 1..Len(map)
    BY <2>1
  <2> QED
    BY <2>1, <2>2 DEF HoldsNull, BytesOf
<1> QED
  BY <1>1, Inductive, PTL

\* The panic for a range inside a section after an edit is never reached.
THEOREM PanicUnreachable == Spec => []UnreachableIsUnreachable
<1>1. IInv => UnreachableIsUnreachable
  BY DEF IInv
<1> QED
  BY <1>1, Inductive, PTL

-----------------------------------------------------------------------------
(***************************************************************************)
(* What a call of rip_section takes out.  In its loop, a byte that was in  *)
(* the map, outside the range, is still in the copy; and behind i the copy *)
(* is the map, if nothing of the range is left before i.                   *)
(***************************************************************************)
StillThere(v) ==
  \A k \in 1..Len(map) : map[k].start > 0 =>
    \A b \in Bytes(map[k]) : b \notin Bytes(call) =>
      \E m \in 1..Len(v) : v[m].start > 0 /\ b \in Bytes(v[m])
AtEdges(v, s) ==
  /\ \A k \in DOMAIN v : ~StrictlyInside(s, v[k])
  /\ \A k \in Hit(v, s) : Covers(s, v[k]) => Hit(v, s) = {k}
Cleared(v) == \A k \in 1..Len(v) : Clear(v[k], call)
ClearedTo(v, j) ==
  \/ Cleared(v)
  \/ /\ Len(v) = Len(map)
     /\ \A k \in 1..Len(v) : IF k < j THEN Clear(v[k], call) ELSE v[k] = map[k]
Looping ==
  pc = "rip" => StillThere(arr) /\ (AtEdges(map, call) => ClearedTo(arr, i))

\* A trim of one section leaves all bytes outside of the call in the map.
LEMMA StillThereAfter ==
  ASSUME IInv, pc = "rip", StillThere(arr), NEW v, Trims(arr, i, call, v)
  PROVE  StillThere(v)
<1>1. arr \in Seq(Section) /\ Ordered(arr) /\ call \in Section
  BY LoopFacts
<1> SUFFICES ASSUME NEW k \in 1..Len(map), map[k].start > 0,
                    NEW b \in Bytes(map[k]), b \notin Bytes(call)
             PROVE  \E m \in 1..Len(v) : v[m].start > 0 /\ b \in Bytes(v[m])
  BY DEF StillThere
<1>2. PICK m \in 1..Len(arr) : arr[m].start > 0 /\ b \in Bytes(arr[m])
  BY DEF StillThere
<1> QED
  BY <1>1, <1>2, TrimsKeep

\* Two sections apart share no byte.
LEMMA ApartIsClear ==
  ASSUME NEW s \in Section, NEW g \in Section,
         Limit(s) <= g.start \/ Limit(g) <= s.start
  PROVE  Clear(s, g)
<1>1. /\ s.start \in Nat /\ Limit(s) \in Nat
      /\ g.start \in Nat /\ Limit(g) \in Nat
  BY SectionFacts
<1> QED
  BY <1>1 DEF Clear, Bytes

\* An edit at i leaves nothing of the range up to i.
LEMMA ClearedAfter ==
  ASSUME IInv, pc = "rip", AtEdges(map, call), ClearedTo(arr, i),
         NEW v, Trims(arr, i, call, v), i \in 1..Len(arr)
  PROVE  ClearedTo(v, i + 1)
<1>1. arr \in Seq(Section) /\ Ordered(arr) /\ call \in Section /\ AllSafe(arr, FreeBytes)
  BY LoopFacts
<1>2. CASE Cleared(arr)
  <2> SUFFICES ASSUME NEW k \in 1..Len(v), NEW b \in Bytes(v[k]), b \in Bytes(call)
               PROVE  FALSE
    BY DEF ClearedTo, Cleared, Clear
  <2>1. PICK m \in 1..Len(arr) : b \in Bytes(arr[m])
    BY <1>1, TrimsWithin
  <2> QED
    BY <2>1, <1>2 DEF Cleared, Clear
<1>3. ASSUME Len(arr) = Len(map),
             \A k \in 1..Len(arr) : IF k < i THEN Clear(arr[k], call) ELSE arr[k] = map[k]
      PROVE  ClearedTo(v, i + 1)
  <2>1. CASE v = arr /\ Apart(arr[i], call)
    <3>1. arr[i] \in Section /\ call \in Section /\ Limit(arr[i]) \in Nat /\ call.start \in Nat
          /\ Limit(call) \in Nat /\ arr[i].start \in Nat
      BY <1>1, SectionFacts
    <3>2. Limit(arr[i]) <= call.start \/ Limit(call) <= arr[i].start
      BY <3>1, <2>1 DEF Apart
    <3>3. Clear(arr[i], call)
      BY <3>1, <3>2, ApartIsClear
    <3>4. \A k \in 1..Len(v) : IF k < i + 1 THEN Clear(v[k], call) ELSE v[k] = map[k]
      BY <2>1, <3>3, <1>1, <1>3
    <3> QED
      BY <3>4, <2>1, <1>3 DEF ClearedTo
  <2>2. ASSUME NEW s \in Section, Clear(s, call), v = [arr EXCEPT ![i] = s]
        PROVE  ClearedTo(v, i + 1)
    <3>1. Len(v) = Len(arr) /\ \A k \in 1..Len(v) : v[k] = IF k = i THEN s ELSE arr[k]
      BY <1>1, <2>2
    <3>2. \A k \in 1..Len(v) : IF k < i + 1 THEN Clear(v[k], call) ELSE v[k] = map[k]
      BY <3>1, <1>1, <1>3, <2>2
    <3> QED
      BY <3>1, <3>2, <1>3 DEF ClearedTo
  <2>3. ASSUME Within(arr[i], call), arr[i].size > 0 \/ call.size = 0, v \in Removed(arr, i)
        PROVE  ClearedTo(v, i + 1)
    <3>1. Cut(arr, i, v)
      BY <1>1, <2>3, RemovedFromOrdered
    <3>2. ASSUME NEW k \in 1..Len(arr), k # i PROVE Clear(arr[k], call)
      <4>1. CASE call.size = 0
        BY <4>1, <1>1, SectionFacts DEF Clear, Bytes
      <4>2. CASE arr[i].size > 0
        <5>1. arr[i] = map[i] /\ i \in 1..Len(map) /\ map[i] \in Section
          BY <1>1, <1>3
        <5>2. /\ map[i].start \in Nat /\ map[i].size \in Nat
              /\ Limit(map[i]) = map[i].start + map[i].size
              /\ call.start \in Nat /\ Limit(call) \in Nat
              /\ call.start <= map[i].start /\ Limit(map[i]) <= Limit(call)
          BY <5>1, <2>3, <1>1, SectionFacts DEF Within
        <5>3. map[i].start \in Bytes(map[i]) \cap Bytes(call) /\ Covers(call, map[i])
          BY <5>1, <5>2, <4>2 DEF Bytes, Covers
        <5>4. DOMAIN map = 1..Len(map)
          BY DEF IInv, TypeOK
        <5>5. Hit(map, call) = {i}
          <6>1. i \in Hit(map, call)
            BY <5>1, <5>3, <5>4 DEF Hit
          <6> QED
            BY <6>1, <5>3 DEF AtEdges
        <5>6. Clear(map[k], call)
          <6>1. k \in DOMAIN map /\ k \notin Hit(map, call)
            BY <5>4, <5>5, <3>2, <1>3
          <6> QED
            BY <6>1 DEF Hit, Clear
        <5> QED
          BY <5>6, <1>3
      <4> QED
        BY <4>1, <4>2, <2>3
    <3>3. ASSUME NEW k \in 1..Len(v) PROVE Clear(v[k], call)
      <4>1. k \in 1..Len(arr) - 1 /\ k \in 1..Len(arr) /\ k + 1 \in 1..Len(arr)
        BY <3>1, <1>1 DEF Cut
      <4>2. CASE v[k] = Sct(0, 0)
        BY <4>2 DEF Clear, Bytes, Limit, Sct
      <4>3. CASE v[k] = IF k < i THEN arr[k] ELSE arr[k + 1]
        <5>1. CASE k < i
          BY <5>1, <4>1, <4>3, <3>2
        <5>2. CASE ~(k < i)
          <6>1. k + 1 # i
            BY <5>2, <4>1
          <6> QED
            BY <6>1, <5>2, <4>1, <4>3, <3>2
        <5> QED
          BY <5>1, <5>2
      <4> QED
        BY <4>1, <4>2, <4>3, <3>1 DEF Cut
    <3> QED
      BY <3>3 DEF ClearedTo, Cleared
  <2> QED
    BY <2>1, <2>2, <2>3 DEF Trims
<1> QED
  BY <1>2, <1>3 DEF ClearedTo

\* The loop is left with nothing of the range behind i.
LEMMA ClearedAtEnd ==
  ASSUME IInv, pc = "rip", AtEdges(map, call), ClearedTo(arr, i),
         NEW v, Trims(arr, i, call, v), Leaves(v)
  PROVE  Cleared(v)
<1>1. /\ arr \in Seq(Section) /\ Ordered(arr) /\ call \in Section
      /\ Len(arr) \in Nat /\ i \in 1..Len(arr) + 2
  BY LoopFacts
<1>2. ASSUME NEW k \in 1..Len(arr), k > i PROVE Clear(arr[k], call)
  <2>1. Limit(call) < arr[k].start /\ arr[k] \in Section
    BY <1>1, <1>2 DEF Leaves
  <2>2. Limit(call) <= arr[k].start
    BY <2>1, <1>1, SectionFacts
  <2> QED
    BY <2>1, <2>2, <1>1, ApartIsClear
<1>3. CASE i \in 1..Len(arr)
  <2>1. ClearedTo(v, i + 1)
    BY <1>3, ClearedAfter
  <2>2. ASSUME Len(v) = Len(arr), \A k \in 1..Len(arr) : k > i => v[k] = arr[k],
               \A k \in 1..Len(v) : IF k < i + 1 THEN Clear(v[k], call) ELSE v[k] = map[k]
        PROVE  Cleared(v)
    <3> SUFFICES ASSUME NEW k \in 1..Len(v) PROVE Clear(v[k], call)
      BY DEF Cleared
    <3>1. CASE k < i + 1
      BY <3>1, <2>2
    <3>2. CASE ~(k < i + 1)
      BY <3>2, <2>2, <1>1, <1>2
    <3> QED
      BY <3>1, <3>2
  <2>3. CASE v = arr
    BY <2>1, <2>2, <2>3 DEF ClearedTo
  <2>4. ASSUME NEW s \in Section, v = [arr EXCEPT ![i] = s] PROVE Cleared(v)
    <3>1. Len(v) = Len(arr) /\ \A k \in 1..Len(arr) : k > i => v[k] = arr[k]
      BY <1>1, <1>3, <2>4
    <3> QED
      BY <3>1, <2>1, <2>2 DEF ClearedTo
  <2>5. ASSUME v \in Removed(arr, i) PROVE Cleared(v)
    <3>1. Len(v) = Len(arr) - 1
      BY <1>1, <1>3, <2>5, RemovedFacts
    <3>2. CASE Cleared(arr)
      <4> SUFFICES ASSUME NEW k \in 1..Len(v), NEW b \in Bytes(v[k]), b \in Bytes(call)
                   PROVE  FALSE
        BY DEF Cleared, Clear
      <4>1. PICK m \in 1..Len(arr) : b \in Bytes(arr[m])
        BY <1>1, TrimsWithin
      <4> QED
        BY <4>1, <3>2 DEF Cleared, Clear
    <3>3. CASE Len(arr) = Len(map)
      BY <3>1, <3>3, <2>1, <1>1 DEF ClearedTo
    <3> QED
      BY <3>2, <3>3 DEF ClearedTo
  <2> QED
    BY <2>3, <2>4, <2>5, <1>3 DEF Trims
<1>4. CASE i \notin 1..Len(arr)
  <2>1. v = arr
    BY <1>4 DEF Trims
  <2>2. \A k \in 1..Len(arr) : k < i
    BY <1>1, <1>4
  <2> QED
    BY <2>1, <2>2 DEF ClearedTo, Cleared
<1> QED
  BY <1>3, <1>4

\* How the call that runs takes its range out, in every state.
LEMMA LoopingHolds == Spec => [](IInv /\ Looping)
<1>1. Init => Looping
  BY DEF Init, Looping
<1>2. IInv /\ Looping /\ [Next]_vars => Looping'
  <2> SUFFICES ASSUME IInv, Looping, [Next]_vars, pc' = "rip"
               PROVE  StillThere(arr)' /\ (AtEdges(map, call) => ClearedTo(arr, i))'
    BY DEF Looping
  <2>1. CASE UNCHANGED vars
    BY <2>1 DEF vars, Looping, StillThere, AtEdges, ClearedTo, Cleared, Hit
  <2>2. CASE RipSection
    <3>1. /\ arr' = map /\ map' = map /\ i' = 1 /\ call' \in Section
      BY <2>2, RipSectionKeeps DEF RipSection, IInv, TypeOK
    <3>2. StillThere(arr)'
      BY <3>1 DEF StillThere
    <3>3. ClearedTo(arr, i)'
      BY <3>1 DEF ClearedTo
    <3> QED
      BY <3>2, <3>3
  <2>3. CASE RipLoop
    <3>1. PICK v : Trims(arr, i, call, v) /\ GoesOn(v)
      BY <2>3, RipLoopSteps DEF RipStep, Leaves, GivesUp
    <3>2. pc = "rip" /\ call' = call
      BY <2>3, RipLoopSteps DEF RipStep
    <3>3. arr' = v /\ map' = map /\ i' = i + 1 /\ i \in 1..Len(arr)
      BY <3>1 DEF GoesOn
    <3>4. StillThere(v)
      BY <3>1, <3>2, StillThereAfter DEF Looping
    <3>5. AtEdges(map, call) => ClearedTo(v, i + 1)
      BY <3>1, <3>2, <3>3, ClearedAfter DEF Looping
    <3>6. StillThere(arr)'
      BY <3>2, <3>3, <3>4 DEF StillThere
    <3>7. (AtEdges(map, call) => ClearedTo(arr, i))'
      BY <3>2, <3>3, <3>5 DEF AtEdges, Hit, ClearedTo, Cleared
    <3> QED
      BY <3>6, <3>7
  <2>4. CASE PassOver \/ GlueSection \/ Merge \/ GlueEnd \/ Return
    BY <2>4 DEF PassOver, GlueSection, Merge, GlueEnd, Return, Calls
  <2> QED
    BY <2>1, <2>2, <2>3, <2>4 DEF Next, RipLoop
<1> QED
  BY <1>1, <1>2, Inductive, PTL DEF Spec

\* A step that leaves the loop: what it wrote back, or nothing, into the map.
LEMMA RipEndsFacts ==
  ASSUME IInv, [Next]_vars, RipEnds
  PROVE  /\ pc = "rip"
         /\ \/ \E v : Trims(arr, i, call, v) /\ Leaves(v)
            \/ GivesUp
<1>1. pc = "rip" /\ pc' = "ready"
  BY DEF RipEnds
<1>2. RipLoop
  BY <1>1 DEF vars, Next, RipLoop, PassOver, GlueSection, Merge, GlueEnd, RipSection, Return,
              Calls
<1> QED
  BY <1>1, <1>2, RipLoopSteps DEF RipStep, GoesOn

\* A call of rip_section takes nothing but its range, and perhaps the section
\* at address 0, out of the map.
THEOREM RipsNoMore == Spec => RipTakesNoMore
<1>1. IInv /\ Looping /\ IInv' /\ [Next]_vars =>
        [RipEnds => \A k \in DOMAIN map :
           map[k].start > 0 => Bytes(map[k]) \ Bytes(call) \subseteq BytesOf(map')]_vars
  <2> SUFFICES ASSUME IInv, Looping, IInv', [Next]_vars, RipEnds,
                      NEW k \in DOMAIN map, map[k].start > 0,
                      NEW b \in Bytes(map[k]), b \notin Bytes(call)
               PROVE  b \in BytesOf(map')
    OBVIOUS
  <2>1. /\ DOMAIN map = 1..Len(map)
        /\ DOMAIN (map') = 1..Len(map')
    BY DEF IInv, TypeOK
  <2>2. CASE GivesUp
    BY <2>2 DEF GivesUp, BytesOf
  <2>3. ASSUME NEW v, Trims(arr, i, call, v), Leaves(v) PROVE b \in BytesOf(map')
    <3>1. StillThere(v)
      BY <2>3, RipEndsFacts, StillThereAfter DEF Looping
    <3>2. PICK m \in 1..Len(v) : b \in Bytes(v[m])
      BY <3>1, <2>1 DEF StillThere
    <3>3. map' = v
      BY <2>3 DEF Leaves
    <3> QED
      BY <3>2, <3>3, <2>1 DEF BytesOf
  <2> QED
    BY <2>2, <2>3, RipEndsFacts
<1> QED
  BY <1>1, LoopingHolds, PTL DEF Spec, RipTakesNoMore

\* A call of rip_section does take its range out, when that covers or cuts one
\* section, or the end of one and the start of the next.
THEOREM RipsEdges == Spec => RipTakesEdges
<1>1. IInv /\ Looping /\ IInv' /\ [Next]_vars =>
        [(/\ RipEnds
          /\ \A k \in DOMAIN map : ~StrictlyInside(call, map[k])
          /\ \A k \in Hit(map, call) : Covers(call, map[k]) => Hit(map, call) = {k})
           => BytesOf(map') \cap Bytes(call) = {}]_vars
  <2> SUFFICES ASSUME IInv, Looping, IInv', [Next]_vars, RipEnds, AtEdges(map, call)
               PROVE  BytesOf(map') \cap Bytes(call) = {}
    BY DEF AtEdges
  <2>1. /\ DOMAIN map = 1..Len(map)
        /\ DOMAIN (map') = 1..Len(map')
    BY DEF IInv, TypeOK
  <2>2. ~GivesUp
    <3> SUFFICES ASSUME GivesUp PROVE FALSE
      OBVIOUS
    <3>1. pc = "rip" /\ edit = "none" /\ i \in 1..Len(arr) /\ StrictlyInside(call, arr[i])
      BY RipEndsFacts DEF GivesUp
    <3>2. arr = map
      BY <3>1, LoopFacts
    <3> QED
      BY <3>1, <3>2, <2>1 DEF AtEdges
  <2>3. ASSUME NEW v, Trims(arr, i, call, v), Leaves(v)
        PROVE  BytesOf(map') \cap Bytes(call) = {}
    <3>1. Cleared(v) /\ map' = v
      BY <2>3, RipEndsFacts, ClearedAtEnd DEF Looping, Leaves
    <3> QED
      BY <3>1, <2>1 DEF Cleared, Clear, BytesOf
  <2> QED
    BY <2>2, <2>3, RipEndsFacts
<1> QED
  BY <1>1, LoopingHolds, PTL DEF Spec, RipTakesEdges
=============================================================================
