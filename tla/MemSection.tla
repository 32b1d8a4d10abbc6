------------------------------ MODULE MemSection ------------------------------
(***************************************************************************)
(* A memory section is a (start, size) pair of usize values.  The kernel   *)
(* compares sections with one function, cmp_mem_sct, of which it keeps two *)
(* textual copies: one in htmalloc.rs (the allocator) and one in main.rs   *)
(* (the memory map).  Both are the operator CmpMemSct below.               *)
(***************************************************************************)
EXTENDS Naturals

CONSTANT UsizeBound  \* 2^64 in the kernel: usize arithmetic is modulo it

ASSUME UsizeBoundAssumption == UsizeBound \in Nat \ {0}

Section == [start : Nat, size : Nat]
Sct(start, size) == [start |-> start, size |-> size]

(***************************************************************************)
(* usize arithmetic of a release build: it wraps.  The operands are        *)
(* usize values, so one addition exceeds the bound at most once.           *)
(***************************************************************************)
Add(a, b) == IF a + b < UsizeBound THEN a + b ELSE (a + b) - UsizeBound
Sub(a, b) == IF a >= b THEN a - b ELSE (a + UsizeBound) - b

End(s) == Add(s.start, s.size)

(***************************************************************************)
(* cmp_mem_sct(original, given): how the given section lies with respect   *)
(* to the original one.                                                    *)
(***************************************************************************)
CmpMemSct(o, g) ==
  IF o = g                                         THEN "NoChange"
  ELSE IF End(o) < g.start \/ End(g) < o.start      THEN "Separate"
  ELSE IF g.start = End(o)                         THEN "StartBranch"
  ELSE IF o.start = End(g)                         THEN "EndBranch"
  ELSE IF g.start >= o.start /\ End(g) <= End(o)   THEN "NoChange"
  ELSE IF g.start <= o.start /\ End(g) >= End(o)   THEN "Overwrite"
  ELSE IF g.start > o.start                        THEN "StartBranch"
  ELSE                                                  "EndBranch"

-----------------------------------------------------------------------------
(***************************************************************************)
(* What the answers mean, over the bytes a section holds.                  *)
(***************************************************************************)
Limit(s) == s.start + s.size          \* one past the last byte, unbounded
Bytes(s) == s.start .. (Limit(s) - 1)
Proper(s) == s.size > 0 /\ Limit(s) < UsizeBound

Within(a, b) == b.start <= a.start /\ Limit(a) <= Limit(b)
Disjoint(a, b) == Limit(a) <= b.start \/ Limit(b) <= a.start
Apart(a, b) == Limit(a) < b.start \/ Limit(b) < a.start
=============================================================================
