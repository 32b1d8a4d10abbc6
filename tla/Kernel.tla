------------------------------- MODULE Kernel -------------------------------
(***************************************************************************)
(* entry() of the kernel, its phases and error codes, and its panic        *)
(* handler, composed with Keyboard and Console: what it prints once        *)
(* interrupts are enabled shares the console with the keyboard handler.    *)
(*                                                                         *)
(* A machine is what entry() meets: the boot information, the tables, the  *)
(* screen.  get_mmap is module MemoryMap; here it returns or panics.       *)
(***************************************************************************)
EXTENDS Keyboard, Console, Integers

CONSTANTS
  Machines,  \* machines the kernel may be started on
  Glyphs,    \* bound of the model: bytes of a line, but for its end
  Letters    \* bound of the model: letters of a key's name

\* area: what the search of the RSDP meets, 16 bytes a place.  config: the
\* UEFI configuration tables.  A table is one of Tables.
Tables == {"good", "signature", "checksum", "sdt"}
Machine ==
  [info : {"null", "magic", "ok"}, uefi : BOOLEAN, wide : BOOLEAN,
   format : {0, 1, 3, 24, 32}, map : BOOLEAN, logo : BOOLEAN,
   area : Seq({"none"} \cup Tables),
   config : Seq([guid : {"acpi1", "acpi2", "other"}, table : Tables])]
ASSUME MachinesAssumption ==
  /\ \A m \in Machines : m \in Machine
  /\ Glyphs \in Nat /\ Letters \in Nat

VARIABLES
  machine,
  pc,        \* where entry(), then the panic handler, is
  strings,   \* strings a println! still has to write
  after,     \* pc behind it
  bootInfo,  \* BOOT_INFO is set
  err,       \* KRNL_ERR
  at,        \* place of the search for the RSDP or the tables
  rsdp,      \* what was found: its number, 0 for none
  where,     \* where a panic came from, or "none"
  shown      \* error code the panic handler printed, or -1

mainVars == <<machine, pc, strings, after, bootInfo, err, at, rsdp, where, shown>>
vars == <<mainVars, keyboardVars, consoleVars>>
devices == <<keyboardVars, consoleVars>>

Ended == {"halted", "panicHalted", "lost"}
Phases == {"check", "search", "fill", "map", "clear", "init", "logo", "mode",
           "config", "rsdp"}
TypeOK ==
  /\ machine \in Machines
  /\ pc \in Phases \cup {"print", "panic", "red"} \cup Ended
  /\ bootInfo \in BOOLEAN /\ err \in {0, 1, 2, 16, 17} /\ shown \in {-1, 0, 1, 2, 16, 17}
  /\ at \in Nat /\ rsdp \in 0..Len(machine.area) + Len(machine.config)
  /\ cursor.x \in Nat /\ cursor.y \in Nat
  /\ hp \in {"none", "read", "print", "eoi"} /\ (hp # "none" => isr /\ ~enabled)
  /\ Len(sent) <= MaxKeys + 1

Init ==
  /\ KeyboardInit /\ ConsoleInit
  /\ machine \in Machines
  /\ pc = "check" /\ strings = <<>> /\ after = "none"
  /\ bootInfo = FALSE /\ err = 1 /\ at = 1 /\ rsdp = 0
  /\ where = "none" /\ shown = -1

-----------------------------------------------------------------------------
Goto(here, next) == pc = here /\ pc' = next
Panic ==
  /\ pc' = "panic" /\ where' = pc
  /\ UNCHANGED <<machine, strings, after, bootInfo, err, at, rsdp, shown, devices>>
\* println!: the text, then \r\n, each a string of its own.  One stands for
\* those that follow each other.
Text == [k \in 1..Glyphs |-> "glyph"]
Println(here, next) ==
  /\ pc = here /\ pc' = "print" /\ after' = next
  /\ strings' = <<Text, <<"cr", "lf">>>>
PrintString ==
  /\ pc = "print"
  /\ \/ /\ step = "idle" /\ strings # <<>>
        /\ Begin(Head(strings))
        /\ strings' = Tail(strings)
        /\ UNCHANGED pc
     \/ /\ WriteStep
        /\ UNCHANGED <<pc, strings>>
     \/ /\ step = "idle" /\ strings = <<>>
        /\ pc' = after
        /\ UNCHANGED <<strings, consoleVars>>
  /\ UNCHANGED <<machine, after, bootInfo, err, at, rsdp, where, shown, keyboardVars>>

-----------------------------------------------------------------------------
\* pixel! panics for a format it does not know.
Drawable == machine.format \in {0, 1, 32}

CheckInfo ==
  /\ pc = "check"
  /\ \/ machine.info # "ok" /\ Panic
     \/ /\ machine.info = "ok"
        /\ bootInfo' = TRUE /\ err' = 0
        /\ pc' = IF machine.uefi THEN "fill" ELSE "search"
        /\ UNCHANGED <<machine, strings, after, at, rsdp, where, shown, devices>>

\* more_info = 0: the first place with the signature, whatever its sums.
NextPlaceStays(k) == k  \* mutant: ptr is not advanced
NextPlace(k) == k + 1
SearchRsdp ==
  /\ pc = "search"
  /\ \/ at > Len(machine.area) /\ Panic
     \/ /\ at <= Len(machine.area)
        /\ LET found == machine.area[at] # "none"
           IN  /\ pc' = IF found THEN "fill" ELSE "search"
               /\ rsdp' = IF found THEN at ELSE 0
               /\ at' = IF found THEN at ELSE NextPlace(at)
        /\ UNCHANGED <<machine, strings, after, bootInfo, err, where, shown, devices>>

FillTwice ==
  /\ pc = "fill"
  /\ \/ ~Drawable /\ Panic
     \/ /\ Drawable
        /\ pc' = "map" /\ err' = 2
        /\ FillScreen
        /\ UNCHANGED <<machine, strings, after, bootInfo, at, rsdp, where, shown, keyboardVars>>
ErrAfterMapStays == err  \* mutant: the code is not taken back
ErrAfterMap == 0
MapMemory ==
  /\ pc = "map"
  /\ \/ ~machine.map /\ Panic
     \/ /\ machine.map
        /\ pc' = "clear" /\ err' = ErrAfterMap
        /\ UNCHANGED <<machine, strings, after, bootInfo, at, rsdp, where, shown, devices>>
\* init is only in the 64-bit kernel.
Clear ==
  /\ Goto("clear", IF machine.wide THEN "init" ELSE "logo")
  /\ ClearScreen
  /\ UNCHANGED <<machine, strings, after, bootInfo, err, at, rsdp, where, shown, keyboardVars>>
InitInterrupts ==
  \/ /\ pc = "init" /\ InitStep
     /\ UNCHANGED <<mainVars, consoleVars>>
  \/ /\ ip = "done" /\ Println("init", "logo")
     /\ UNCHANGED <<machine, bootInfo, err, at, rsdp, where, shown, devices>>
\* set_pixel refuses what is off a small screen; logo unwraps.
Logo ==
  /\ pc = "logo"
  /\ \/ ~machine.logo /\ Panic
     \/ /\ machine.logo
        /\ pc' = "mode" /\ err' = 16
        /\ UNCHANGED <<machine, strings, after, bootInfo, at, rsdp, where, shown, devices>>

\* The last RSDP of the configuration tables of the GUID the width prefers
\* least, up to the first of the one it prefers.
Preferred == IF machine.wide THEN "acpi2" ELSE "acpi1"
Mode ==
  /\ Println("mode", IF machine.uefi THEN "config" ELSE "rsdp")
  /\ at' = 1
  /\ err' = IF machine.uefi THEN err ELSE 17
  /\ UNCHANGED <<machine, bootInfo, rsdp, where, shown, devices>>
StopsAtAny(k) == machine.config[k].guid # "other"  \* mutant: break in both branches
Stops(k) == machine.config[k].guid = Preferred
SearchConfig ==
  /\ pc = "config"
  /\ \/ /\ at <= Len(machine.config)
        /\ rsdp' = IF machine.config[at].guid = "other" THEN rsdp ELSE at
        /\ at' = IF Stops(at) THEN Len(machine.config) + 1 ELSE at + 1
        /\ UNCHANGED <<machine, pc, strings, after, bootInfo, err, where, shown, devices>>
     \/ at > Len(machine.config) /\ rsdp = 0 /\ Panic
     \/ /\ at > Len(machine.config) /\ rsdp # 0
        /\ pc' = "rsdp" /\ err' = 17
        /\ UNCHANGED <<machine, strings, after, bootInfo, at, rsdp, where, shown, devices>>
Found == IF machine.uefi THEN machine.config[rsdp].table ELSE machine.area[rsdp]
CheckRsdp ==
  \/ pc = "rsdp" /\ Found # "good" /\ Panic
  \/ /\ pc = "rsdp" /\ Found = "good"
     /\ Println("rsdp", "halted")
     /\ err' = 0
     /\ UNCHANGED <<machine, bootInfo, at, rsdp, where, shown, devices>>

-----------------------------------------------------------------------------
\* panic_handler reads the boot information first: through a null pointer if
\* it is not set.  A format pixel! does not know makes it panic again, and
\* again, until the stack is gone.
PanicHandler ==
  \/ /\ Goto("panic", "lost")
     /\ ~bootInfo \/ ~Drawable
     /\ UNCHANGED <<machine, strings, after, bootInfo, err, at, rsdp, where, shown, devices>>
  \/ /\ Goto("panic", "red")
     /\ bootInfo /\ Drawable
     /\ ClearScreen
     /\ UNCHANGED <<machine, strings, after, bootInfo, err, at, rsdp, where, shown, keyboardVars>>
  \/ /\ Println("red", "panicHalted")
     /\ FillScreen
     /\ shown' = err
     /\ UNCHANGED <<machine, bootInfo, err, at, rsdp, where, keyboardVars>>

-----------------------------------------------------------------------------
Entry ==
  \/ CheckInfo \/ SearchRsdp \/ FillTwice \/ MapMemory \/ Clear \/ InitInterrupts
  \/ Logo \/ Mode \/ SearchConfig \/ CheckRsdp \/ PanicHandler \/ PrintString
\* The main program goes on while no handler runs.
Main == hp = "none" /\ Entry

\* What a byte prints: a letter, the name of a key that has none, a new line,
\* or nothing (a key let go, an answer of the keyboard).
PrintCode ==
  /\ hp = "print" /\ hp' = "eoi"
  /\ \/ code = "key" /\ (PrintNewLine \/ \E n \in 1..Letters : PrintWord(n))
     \/ UNCHANGED consoleVars
  /\ UNCHANGED <<ip, code, stale, enabled, isr, hardware>>
Handler ==
  \/ /\ Deliver \/ ReadPort \/ Eoi
     /\ UNCHANGED consoleVars
  \/ PrintCode

Next ==
  \/ Main
  \/ pc # "lost" /\ Handler /\ UNCHANGED mainVars
  \/ pc # "lost" /\ Hardware /\ UNCHANGED <<mainVars, consoleVars>>

\* The processor does not stand still, the controller takes what is written
\* to it and passes on what the keyboard sends.  Nobody has to strike a key.
Spec ==
  /\ Init /\ [][Next]_vars
  /\ WF_vars(Main)
  /\ WF_vars(pc # "lost" /\ Handler /\ UNCHANGED mainVars)
  /\ WF_vars(pc # "lost" /\ (Arrive \/ Take) /\ UNCHANGED <<mainVars, consoleVars>>)

-----------------------------------------------------------------------------
\* Once init has flushed the controller, a byte that waits in it has its
\* interrupt requested or being handled, whatever the order of the IO-APIC's
\* words and of the bytes; a request whose byte is gone remains at most once.
InterruptsMatchBytes ==
  /\ (ip \in {"sti", "done"} /\ obf) => (irr \/ hp = "read")
  /\ stale <= 1

\* A byte that waits is read in the end, so that the next one can come.
KeyAnswered == (ip = "done" /\ obf) ~> ~obf

\* Of what is printed no more is drawn over than the handler printed while
\* the main program was in the middle of a string; with no such interrupt
\* nothing is.
LossBounded == hidden <= raced

\* The panic handler shows the code of the phase that failed, for the three that
\* have one in the table at KRNL_ERR; for the search of the RSDP and for the logo,
\* which set none, it shows 0, "Success"; and it never gets to show anything for
\* the boot information, whose code is 1, and for the fill.
CodeNamesPhase ==
  shown # -1 =>
    \/ where = "map" /\ shown = 2
    \/ where = "config" /\ shown = 16
    \/ where = "rsdp" /\ shown = 17
    \/ where \in {"search", "logo"} /\ shown = 0

\* Of several RSDPs the kernel takes the first of the version its width
\* prefers, if there is one.
PreferredTaken ==
  pc = "rsdp" /\ machine.uefi =>
    LET best == {k \in DOMAIN machine.config : machine.config[k].guid = Preferred}
    IN  best # {} => rsdp \in best /\ \A k \in best : rsdp <= k

\* entry() gets to its halt, or to the panic handler's, or is lost in the
\* latter; no wait for a device and no search holds it up.
BootEnds == <>(pc \in Ended)
=============================================================================
