----------------------------- MODULE BootHandoff -----------------------------
(***************************************************************************)
(* What a boot loader owes the kernel, whichever firmware it runs on: it   *)
(* either stops, or enters the kernel once, with the kernel's whole image  *)
(* in memory and a memory map that is the machine's at that moment.        *)
(***************************************************************************)
VARIABLES
  stage,   \* "loading", then "entered" or "stopped" for good
  memory,  \* the machine's memory map, which changes while it loads
  info,    \* the memory map the kernel is told of
  whole    \* the kernel's image is complete in memory

vars == <<stage, memory, info, whole>>

Init == stage = "loading"

\* The firmware, and the loader's own allocations, change memory.
Load ==
  /\ stage = "loading"
  /\ stage' = "loading"

Stop ==
  /\ stage = "loading"
  /\ stage' = "stopped"

Enter ==
  /\ stage = "loading"
  /\ stage' = "entered"
  /\ memory' = memory
  /\ info' = memory
  /\ whole'

Next == Load \/ Stop \/ Enter
Ends == <>(stage # "loading")
Spec == Init /\ [][Next]_vars /\ Ends
=============================================================================
