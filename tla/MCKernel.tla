------------------------------ MODULE MCKernel ------------------------------
(***************************************************************************)
(* One machine for each way through entry(); the 64-bit kernel runs init.  *)
(***************************************************************************)
EXTENDS Kernel

Bios ==
  [info |-> "ok", uefi |-> FALSE, wide |-> TRUE, format |-> 32, map |-> TRUE, logo |-> TRUE,
   area |-> <<"none", "good">>, config |-> <<>>]
T(guid, table) == [guid |-> guid, table |-> table]
Uefi(wide, config) ==
  [Bios EXCEPT !.uefi = TRUE, !.wide = wide, !.format = 1, !.config = config]
Mixed == <<T("acpi1", "good"), T("other", "sdt"), T("acpi2", "good"), T("acpi1", "sdt")>>
Narrow(m) == [m EXCEPT !.wide = FALSE]
MC_Machines ==
  {Uefi(TRUE, Mixed)}
  \cup {Narrow(m) : m \in
     {Bios, [Bios EXCEPT !.area = <<"none", "none">>], [Bios EXCEPT !.area = <<"checksum", "good">>],
      [Bios EXCEPT !.map = FALSE], [Bios EXCEPT !.logo = FALSE],
      [Bios EXCEPT !.format = 24], [Bios EXCEPT !.info = "null"], [Bios EXCEPT !.info = "magic"]}}
  \cup {Uefi(FALSE, c) : c \in
     {<<>>, Mixed, <<T("acpi2", "good"), T("acpi1", "checksum"), T("acpi2", "sdt")>>}}
=============================================================================
