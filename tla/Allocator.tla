------------------------------ MODULE Allocator ------------------------------
(***************************************************************************)
(* What a global allocator promises its clients, with no table and no      *)
(* strategy: a block handed out lies in the arena and shares no byte with  *)
(* a block somebody still holds.  HTMAlloc is shown to implement it for    *)
(* careful clients.                                                        *)
(***************************************************************************)
EXTENDS MemSection

CONSTANTS Handles, Sizes, NoBlock

VARIABLES
  arena,   \* the section blocks are carved from; NoBlock until there is one
  blocks   \* the block each handle holds, or NoBlock

Init == arena = NoBlock /\ blocks = [h \in Handles |-> NoBlock]

Open ==
  /\ arena = NoBlock
  /\ arena' \in Section
  /\ UNCHANGED blocks

Free(b) ==
  /\ Within(b, arena)
  /\ \A k \in Handles : blocks[k] # NoBlock => Disjoint(b, blocks[k])

Acquire(h) ==
  /\ arena # NoBlock /\ blocks[h] = NoBlock
  /\ blocks'[h] \in Section /\ blocks'[h].size \in Sizes /\ Free(blocks'[h])
  /\ blocks' = [blocks EXCEPT ![h] = blocks'[h]]
  /\ UNCHANGED arena

Release(h) ==
  /\ blocks[h] # NoBlock
  /\ blocks' = [blocks EXCEPT ![h] = NoBlock]
  /\ UNCHANGED arena

\* The old block is held until the new one is there: they share no byte.
Move(h) ==
  /\ blocks[h] # NoBlock
  /\ blocks'[h] \in Section /\ blocks'[h].size \in Sizes /\ Free(blocks'[h])
  /\ blocks' = [blocks EXCEPT ![h] = blocks'[h]]
  /\ UNCHANGED arena

Next == Open \/ \E h \in Handles : Acquire(h) \/ Release(h) \/ Move(h)

Spec == Init /\ [][Next]_<<arena, blocks>>
=============================================================================
