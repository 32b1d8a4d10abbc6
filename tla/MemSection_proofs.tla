--------------------------- MODULE MemSection_proofs ---------------------------
(***************************************************************************)
(* What each answer of cmp_mem_sct says about the bytes of the two         *)
(* sections, for every pair of sections that do not wrap.                  *)
(***************************************************************************)
EXTENDS MemSection, TLAPS

\* The end of a section is its limit: the sum does not wrap.
LEMMA EndIsLimit ==
  ASSUME NEW s \in Section, Limit(s) < UsizeBound
  PROVE  End(s) = Limit(s) /\ Limit(s) \in Nat
BY UsizeBoundAssumption DEF End, Add, Limit, Section

\* Separate: the sections neither overlap nor touch.
LEMMA CmpSeparate ==
  ASSUME NEW o \in Section, NEW g \in Section,
         Limit(o) < UsizeBound, Limit(g) < UsizeBound
  PROVE  CmpMemSct(o, g) = "Separate" <=> Apart(o, g)
BY EndIsLimit DEF CmpMemSct, Apart, Limit, Section

\* NoChange: the original holds every byte of the given one.
LEMMA CmpNoChange ==
  ASSUME NEW o \in Section, NEW g \in Section,
         Limit(o) < UsizeBound, Proper(g)
  PROVE  CmpMemSct(o, g) = "NoChange" <=> Within(g, o)
<1>1. End(o) = Limit(o) /\ End(g) = Limit(g) /\ g.size > 0
  BY EndIsLimit DEF Proper
<1>2. o = g <=> o.start = g.start /\ o.size = g.size
  BY DEF Section
<1> QED
  BY <1>1, <1>2 DEF CmpMemSct, Within, Limit, Section

\* Overwrite: the given one holds every byte of the original, and more.
LEMMA CmpOverwrite ==
  ASSUME NEW o \in Section, NEW g \in Section, Proper(o), Proper(g)
  PROVE  CmpMemSct(o, g) = "Overwrite" <=> Within(o, g) /\ o # g
<1>1. End(o) = Limit(o) /\ End(g) = Limit(g) /\ g.size > 0 /\ o.size > 0
  BY EndIsLimit DEF Proper
<1>2. o = g <=> o.start = g.start /\ o.size = g.size
  BY DEF Section
<1> QED
  BY <1>1, <1>2 DEF CmpMemSct, Within, Limit, Section

\* StartBranch: the original starts first and the given one continues it.
LEMMA CmpStartBranch ==
  ASSUME NEW o \in Section, NEW g \in Section, Proper(o), Proper(g)
  PROVE  CmpMemSct(o, g) = "StartBranch" <=>
           o.start < g.start /\ g.start <= Limit(o) /\ Limit(o) < Limit(g)
<1>1. End(o) = Limit(o) /\ End(g) = Limit(g) /\ g.size > 0 /\ o.size > 0
  BY EndIsLimit DEF Proper
<1>2. o = g <=> o.start = g.start /\ o.size = g.size
  BY DEF Section
<1> QED
  BY <1>1, <1>2 DEF CmpMemSct, Limit, Section

\* EndBranch: the given one starts first and the original continues it.
LEMMA CmpEndBranch ==
  ASSUME NEW o \in Section, NEW g \in Section, Proper(o), Proper(g)
  PROVE  CmpMemSct(o, g) = "EndBranch" <=>
           g.start < o.start /\ o.start <= Limit(g) /\ Limit(g) < Limit(o)
<1>1. End(o) = Limit(o) /\ End(g) = Limit(g) /\ g.size > 0 /\ o.size > 0
  BY EndIsLimit DEF Proper
<1>2. o = g <=> o.start = g.start /\ o.size = g.size
  BY DEF Section
<1> QED
  BY <1>1, <1>2 DEF CmpMemSct, Limit, Section
\* What each answer says of any two sections, empty ones too.
LEMMA CmpMeans ==
  ASSUME NEW o \in Section, NEW g \in Section,
         Limit(o) < UsizeBound, Limit(g) < UsizeBound
  PROVE  /\ CmpMemSct(o, g) = "StartBranch" =>
              /\ o.start <= g.start /\ g.start <= Limit(o) /\ Limit(o) <= Limit(g)
              /\ o.size > 0 => o.start < g.start
         /\ CmpMemSct(o, g) = "EndBranch" =>
              /\ g.start <= o.start /\ o.start <= Limit(g) /\ Limit(g) <= Limit(o)
              /\ o.size > 0 => Limit(g) < Limit(o)
         /\ CmpMemSct(o, g) = "NoChange" => Within(g, o)
         /\ CmpMemSct(o, g) = "Overwrite" =>
              /\ Within(o, g)
              /\ o.size = 0 => g.start < o.start
         /\ CmpMemSct(o, g) \in
              {"Separate", "StartBranch", "EndBranch", "NoChange", "Overwrite"}
<1>1. End(o) = Limit(o) /\ End(g) = Limit(g)
  BY EndIsLimit
<1>2. o = g <=> o.start = g.start /\ o.size = g.size
  BY DEF Section
<1> QED
  BY <1>1, <1>2 DEF CmpMemSct, Within, Limit, Section
=============================================================================
