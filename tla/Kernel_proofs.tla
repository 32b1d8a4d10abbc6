---------------------------- MODULE Kernel_proofs ----------------------------
(***************************************************************************)
(* Proofs about module Kernel, for any machines, any number of keys and    *)
(* lines of any length.                                                    *)
(*                                                                         *)
(* The three parts of the kernel's state change side by side, so each has  *)
(* an invariant of its own, proved from the steps that part can take:      *)
(* Keys of the keyboard and the interrupts, Written of the console, and    *)
(* Entered of entry() and the panic handler.                               *)
(***************************************************************************)
EXTENDS Kernel, FiniteSetTheorems, TLAPS

-----------------------------------------------------------------------------
\* Keyboard and interrupts.

\* Accesses of init from the flush on: 0xF4 has been written.
Late == {"flush", "flushRead", "sti", "done"}
Early == {"pics", "svr", "low", "high", "wait1", "ae", "wait2", "f4"}
One(b) == IF b THEN 1 ELSE 0

KeyTypes ==
  /\ ip \in Early \cup Late /\ hp \in {"none", "read", "print", "eoi"}
  /\ enabled \in BOOLEAN /\ lapic \in BOOLEAN /\ irr \in BOOLEAN /\ isr \in BOOLEAN
  /\ obf \in BOOLEAN /\ port \in BOOLEAN
  /\ entry1 \in [masked : BOOLEAN, here : BOOLEAN]
  /\ sent \in Seq({"key", "ack"}) /\ keys \in Nat /\ stale \in Nat

\* What init has set up by the time it waits for the controller.
Routed ==
  /\ ip # "pics" /\ ip # "svr" => lapic
  /\ ip \notin {"pics", "svr", "low"} => ~entry1.masked
  /\ ip \notin {"pics", "svr", "low", "high"} => entry1.here
\* The keyboard sends a byte a key and one answer, to 0xF4.
Answers ==
  /\ taken = "F4" => ip \in Late
  /\ keys <= MaxKeys
  /\ Len(sent) <= keys + One(ip \in Late /\ taken # "F4")
\* The handler runs with interrupts off, and not before init is done.
Served ==
  /\ isr <=> hp # "none"
  /\ hp # "none" => ~enabled
  /\ ip # "done" => ~enabled /\ hp = "none" /\ stale = 0
\* Interrupts under way, requested or about to read, are one for each byte
\* that waits, and one more at most, as long as none has read in vain.
UnderWay == One(irr) + One(hp = "read")
Matched ==
  /\ ip \in {"sti", "done"} => One(obf) <= UnderWay
  /\ UnderWay + stale <= 1 + One(obf)
Keys == KeyTypes /\ Routed /\ Answers /\ Served /\ Matched

-----------------------------------------------------------------------------
\* Console.

Place == [x : Nat, y : Nat]
CrLf == <<"cr", "lf">>
ConsoleTypes ==
  /\ cached \in BOOLEAN /\ cursor \in Place /\ reg \in Place
  /\ step \in {"idle", "draw", "advance"}
  /\ cells \in SUBSET Place /\ IsFiniteSet(cells)
  /\ hidden \in Nat /\ raced \in Nat
  /\ out \in Seq({"glyph"}) \cup {CrLf, <<"lf">>}
  /\ strings \in {<<>>, <<CrLf>>, <<Text, CrLf>>}
  /\ pc # "print" => step = "idle"
\* While a byte is put away, nobody moved the cursor back.
Forward ==
  step = "advance" =>
    /\ out # <<>>
    /\ ~cached => reg.x <= cursor.x /\ reg.y <= cursor.y

Before(a, b) == a.y < b.y \/ (a.y = b.y /\ a.x < b.x)
\* Where the main program prints its next character.
Here == IF step = "advance" \/ (step = "draw" /\ cached) THEN reg ELSE cursor
\* No character is printed by the main program, or by the handler between two
\* strings, before this place any more: a line that ends counts as left.
Floor ==
  IF step # "idle" /\ out # <<>> /\ Head(out) # "glyph" THEN [x |-> 0, y |-> Here.y + 1]
  ELSE IF step = "advance" THEN [x |-> Here.x + 1, y |-> Here.y]
  ELSE Here
Ahead == {c \in cells : ~Before(c, Floor)}
\* A character printed in the middle of a string is drawn over at once, or
\* lies ahead, or never will be.
Paid == hidden + Cardinality(Ahead) <= raced
Written == ConsoleTypes /\ Forward /\ Paid

-----------------------------------------------------------------------------
\* entry() and the panic handler.

\* The phase entry() is in, or goes to once it has printed.
Phase == IF pc = "print" THEN after ELSE pc
Panics == {"check", "search", "fill", "map", "logo", "config", "rsdp"}
Panicked == {"panic", "red", "panicHalted", "lost"}
\* KRNL_ERR in a phase.
CodeOf(p) ==
  CASE p = "check" -> 1
    [] p = "map" -> 2
    [] p \in {"mode", "config"} -> 16
    [] p = "rsdp" -> 17
    [] OTHER -> 0
EntryTypes ==
  /\ machine \in Machines
  /\ Phase \in Phases \cup {"panic", "red"} \cup Ended
  /\ bootInfo \in BOOLEAN /\ at \in Nat \ {0}
  /\ rsdp \in 0..Len(machine.area) + Len(machine.config)
Coded ==
  IF Phase \in Panicked
  THEN /\ where \in Panics /\ err = CodeOf(where) /\ shown \in {-1, err}
       /\ where = "check" => ~bootInfo
       /\ where = "fill" => ~Drawable
       /\ Phase = "red" \/ shown # -1 => bootInfo /\ Drawable
  ELSE /\ where = "none" /\ err = CodeOf(Phase) /\ shown = -1
       /\ Phase = "check" => ~bootInfo
Best == {k \in DOMAIN machine.config : machine.config[k].guid = Preferred}
Firsts(k) == k \in Best /\ \A j \in Best : k <= j
Searched ==
  /\ Phase = "config" =>
       (at > Len(machine.config) /\ Firsts(rsdp)) \/ \A k \in Best : at <= k
  /\ Phase = "rsdp" /\ machine.uefi => Firsts(rsdp) \/ Best = {}
Entered == EntryTypes /\ Coded /\ Searched

-----------------------------------------------------------------------------
\* The steps, as each part sees them.

Printed ==
  /\ hp = "print" /\ hp' = "eoi"
  /\ UNCHANGED <<ip, code, stale, enabled, isr, hardware>>
KeyStep ==
  \/ MaskPics \/ EnableLapic \/ Redirect \/ WaitInput \/ Write \/ Flush \/ Sti
  \/ Deliver \/ ReadPort \/ Printed \/ Eoi
  \/ Strike \/ Arrive \/ Take
ConsoleStep ==
  \/ /\ pc' = pc /\ strings' = strings
     /\ (pc = "print" /\ WriteStep) \/ PrintNewLine \/ \E n \in 1..Letters : PrintWord(n)
  \/ /\ pc = "print" /\ pc' = pc
     /\ strings # <<>> /\ Begin(Head(strings)) /\ strings' = Tail(strings)
  \/ /\ pc' = pc \/ step = "idle"
     /\ strings' = strings /\ UNCHANGED consoleVars
  \/ /\ pc # "print" /\ (strings' = strings \/ strings' = <<Text, CrLf>>)
     /\ FillScreen \/ ClearScreen \/ UNCHANGED consoleVars
EntryStep ==
  \/ CheckInfo \/ SearchRsdp \/ FillTwice \/ MapMemory \/ Clear \/ InitInterrupts
  \/ Logo \/ Mode \/ SearchConfig \/ CheckRsdp \/ PanicHandler \/ PrintString

\* The keyboard's part of a step; init's accesses run while no handler does.
LEMMA KeyboardMoves ==
  ASSUME [Next]_vars
  PROVE  (KeyStep /\ (ip' # ip => hp = "none")) \/ UNCHANGED keyboardVars
<1>1. CASE Main
  <2>1. CASE InitInterrupts /\ InitStep
    BY <2>1 DEF InitStep, KeyStep
  <2>2. CASE Entry /\ ~(InitInterrupts /\ InitStep)
    BY <2>2 DEF Entry, CheckInfo, SearchRsdp, FillTwice, MapMemory, Clear, InitInterrupts,
       Logo, Mode, SearchConfig, CheckRsdp, PanicHandler, PrintString, Panic, Println,
       devices
  <2> QED
    BY <1>1, <2>1, <2>2 DEF Main, Entry
<1>2. CASE pc # "lost" /\ Handler /\ UNCHANGED mainVars
  BY <1>2 DEF Handler, PrintCode, Printed, KeyStep, Deliver, ReadPort, Eoi
<1>3. CASE pc # "lost" /\ Hardware /\ UNCHANGED <<mainVars, consoleVars>>
  BY <1>3 DEF Hardware, KeyStep, Strike, Arrive, Take
<1>4. CASE UNCHANGED vars
  BY <1>4 DEF vars
<1> QED
  BY <1>1, <1>2, <1>3, <1>4 DEF Next

\* The console's part of a step, with the strings println! has left.
LEMMA ConsoleMoves == ASSUME [Next]_vars PROVE ConsoleStep
<1>1. CASE PrintString
  BY <1>1 DEF PrintString, ConsoleStep
<1>2. CASE CheckInfo \/ SearchRsdp \/ FillTwice \/ MapMemory \/ Clear \/ Logo \/ SearchConfig
  <2>1. pc # "print" /\ strings' = strings
    BY <1>2 DEF CheckInfo, SearchRsdp, FillTwice, MapMemory, Clear, Logo, SearchConfig, Panic,
       Goto
  <2>2. FillScreen \/ ClearScreen \/ UNCHANGED consoleVars
    BY <1>2 DEF CheckInfo, SearchRsdp, FillTwice, MapMemory, Clear, Logo, SearchConfig, Panic,
       devices
  <2> QED
    BY <2>1, <2>2 DEF ConsoleStep
<1>6. CASE InitInterrupts \/ Mode \/ CheckRsdp \/ PanicHandler
  <2>1. pc # "print" /\ (strings' = strings \/ strings' = <<Text, CrLf>>)
    BY <1>6 DEF InitInterrupts, Mode, CheckRsdp, PanicHandler, Panic, Println, Goto, CrLf, mainVars
  <2>2. FillScreen \/ ClearScreen \/ UNCHANGED consoleVars
    BY <1>6 DEF InitInterrupts, Mode, CheckRsdp, PanicHandler, Panic, devices
  <2> QED
    BY <2>1, <2>2 DEF ConsoleStep
<1>3. CASE pc # "lost" /\ Handler /\ UNCHANGED mainVars
  BY <1>3 DEF Handler, PrintCode, ConsoleStep, mainVars
<1>4. CASE pc # "lost" /\ Hardware /\ UNCHANGED <<mainVars, consoleVars>>
  BY <1>4 DEF ConsoleStep, mainVars
<1>5. CASE UNCHANGED vars
  BY <1>5 DEF vars, mainVars, ConsoleStep
<1> QED
  BY <1>1, <1>2, <1>3, <1>4, <1>5, <1>6 DEF Next, Main, Entry

\* The main program's part of a step.
LEMMA EntryMoves == ASSUME [Next]_vars PROVE EntryStep \/ UNCHANGED mainVars
  BY DEF Next, Main, Entry, EntryStep, vars

-----------------------------------------------------------------------------
\* Keys holds before init and is kept by every access and every byte.

LEMMA KeysFirst == ASSUME Init PROVE Keys
<1>1. sent = <<>> /\ sent \in Seq({"key", "ack"}) /\ Len(sent) = 0
  BY DEF Init, KeyboardInit
<1>2. obf \in BOOLEAN
  BY DEF Init, KeyboardInit
<1>3. KeyTypes
  BY <1>1, <1>2 DEF Init, KeyboardInit, KeyTypes, Early
<1>4. Routed /\ Answers /\ Served /\ Matched
  BY <1>1, <1>2, MaxKeysAssumption DEF Init, KeyboardInit, Routed, Answers, Served,
     Matched, UnderWay, One, Late
<1> QED
  BY <1>3, <1>4 DEF Keys

\* Each step of the keyboard, the controller, init and the handler.
LEMMA KeysKept ==
  ASSUME Keys, KeyStep \/ UNCHANGED keyboardVars, ip' # ip => hp = "none"
  PROVE  Keys'
<1> USE DEF KeyTypes, keyboardVars, hardware, Early, Late, One
<1>1. KeyTypes'
  <2>1. CASE Deliver
    BY <2>1 DEF Keys, Deliver, InterruptGate
  <2>2. CASE ReadPort
    <3>1. stale' \in Nat
      BY <2>2 DEF Keys, ReadPort
    <3>2. hp' = "print" /\ obf' = FALSE
      BY <2>2 DEF ReadPort
    <3>3. UNCHANGED <<ip, enabled, isr, lapic, entry1, irr, port, sent, keys>>
      BY <2>2 DEF ReadPort
    <3> QED
      BY <3>1, <3>2, <3>3 DEF Keys
  <2>3. CASE Printed \/ Eoi
    BY <2>3 DEF Keys, Printed, Eoi, EndOfInterrupt
  <2>4. CASE Strike
    BY <2>4 DEF Keys, Strike
  <2>5. CASE Arrive
    BY <2>5 DEF Keys, Arrive
  <2>6. CASE Take
    BY <2>6 DEF Keys, Take
  <2>7. CASE MaskPics \/ EnableLapic \/ Redirect \/ WaitInput \/ Write \/ Flush \/ Sti
    BY <2>7 DEF Keys, MaskPics, EnableLapic, Redirect, WaitInput, Write, Flush, Sti, At,
       LowWord, HighWord
  <2> QED
    BY <2>1, <2>2, <2>3, <2>4, <2>5, <2>6, <2>7 DEF Keys, KeyStep
<1>2. Routed'
  BY DEF Keys, Routed, KeyStep, Deliver, ReadPort, Printed, Eoi, Strike, Arrive, Take, MaskPics,
     EnableLapic, Redirect, WaitInput, Write, Flush, Sti, At, LowWord, HighWord
<1>3. Answers'
  <2>1. CASE Strike \/ Arrive \/ Take
    BY <2>1, MaxKeysAssumption DEF Keys, Answers, Strike, Arrive, Take
  <2>2. CASE Deliver \/ ReadPort \/ Printed \/ Eoi \/ UNCHANGED keyboardVars
    BY <2>2 DEF Keys, Answers, Deliver, ReadPort, Printed, Eoi
  <2>3. CASE MaskPics \/ EnableLapic \/ Redirect \/ WaitInput \/ Write \/ Flush \/ Sti
    BY <2>3 DEF Keys, Answers, MaskPics, EnableLapic, Redirect, WaitInput, Write, Flush, Sti, At
  <2> QED
    BY <2>1, <2>2, <2>3 DEF KeyStep
<1>4. Served'
  BY DEF Keys, Served, KeyStep, Deliver, ReadPort, Printed, Eoi, Strike, Arrive, Take, MaskPics,
     EnableLapic, Redirect, WaitInput, Write, Flush, Sti, At, InterruptGate, EndOfInterrupt
<1>5. Matched'
  <2>1. CASE Strike \/ Arrive \/ Take
    BY <2>1 DEF Keys, Matched, UnderWay, Served, Routed, Strike, Arrive, Take
  <2>2. CASE Deliver \/ ReadPort \/ Printed \/ Eoi \/ UNCHANGED keyboardVars
    BY <2>2 DEF Keys, Matched, UnderWay, Served, Deliver, ReadPort, Printed, Eoi
  <2>3. CASE MaskPics \/ EnableLapic \/ Redirect \/ WaitInput \/ Write \/ Flush \/ Sti
    BY <2>3 DEF Keys, Matched, UnderWay, Served, MaskPics, EnableLapic, Redirect, WaitInput,
       Write, Flush, Flushed, Sti, At
  <2> QED
    BY <2>1, <2>2, <2>3 DEF KeyStep
<1> QED
  BY <1>1, <1>2, <1>3, <1>4, <1>5 DEF Keys

-----------------------------------------------------------------------------
\* Entered: the phases in their order, and what each leaves for the next.

\* A machine's tables are sequences.
LEMMA MachineTypes ==
  ASSUME EntryTypes
  PROVE  /\ Len(machine.area) \in Nat /\ Len(machine.config) \in Nat
         /\ DOMAIN machine.config = 1..Len(machine.config)
         /\ machine.uefi \in BOOLEAN
<1>1. machine \in Machine
  BY MachinesAssumption DEF EntryTypes
<1> QED
  BY <1>1 DEF Machine

\* What numbers a place of either table fits rsdp.
LEMMA PlaceFits ==
  ASSUME NEW a \in Nat, NEW b \in Nat, NEW k \in Nat, k <= a \/ k <= b
  PROVE  k \in 0..a + b
  OBVIOUS

\* entry() starts with the code 1 and nothing found.
LEMMA EnteredFirst == ASSUME Init PROVE Entered
<1>1. machine \in Machine
  BY MachinesAssumption DEF Init
<1>2. Len(machine.area) \in Nat /\ Len(machine.config) \in Nat
  BY <1>1 DEF Machine
<1>3. Phase = "check" /\ machine \in Machines /\ err = 1 /\ at = 1 /\ rsdp = 0
      /\ bootInfo = FALSE /\ where = "none" /\ shown = -1
  BY DEF Init, Phase
<1>a. rsdp = 0 /\ at = 1 /\ bootInfo = FALSE
  BY <1>3
<1>b. 0 <= Len(machine.area) /\ 0 \in Nat
  BY <1>2
<1>c. rsdp \in 0..Len(machine.area) + Len(machine.config)
  BY <1>2, <1>a, <1>b, PlaceFits
<1>d. at \in Nat \ {0}
  BY <1>a
<1>e. bootInfo \in BOOLEAN
  BY <1>a
<1>4. EntryTypes
  BY <1>3, <1>c, <1>d, <1>e DEF EntryTypes, Phases
<1>5. Coded /\ Searched
  BY <1>3 DEF Coded, Searched, CodeOf, Panicked
<1> QED
  BY <1>4, <1>5 DEF Entered

\* A panic takes the phase's code with it.
LEMMA PanicKeeps ==
  ASSUME Entered, Panic, pc \in Panics, pc = "fill" => ~Drawable
  PROVE  Entered'
<1>1. Phase' = "panic" /\ where' = pc /\ Phase = pc
      /\ UNCHANGED <<machine, bootInfo, err, at, rsdp, shown>>
  BY DEF Panic, Phase, Panics
<1>2. EntryTypes'
  BY <1>1 DEF Entered, EntryTypes
<1>3. /\ where = "none" /\ err = CodeOf(pc) /\ shown = -1
      /\ pc = "check" => ~bootInfo
  BY <1>1 DEF Entered, Coded, Panics, Panicked
<1>4. Phase' \in Panicked /\ where' \in Panics /\ err' = CodeOf(where') /\ shown' \in {-1, err'}
  BY <1>1, <1>3 DEF Panicked
<1>6. /\ where' = "check" => ~bootInfo'
      /\ where' = "fill" => ~Drawable'
      /\ ~(Phase' = "red" \/ shown' # -1)
  BY <1>1, <1>3 DEF Drawable
<1>7. Coded'
  BY <1>4, <1>6 DEF Coded
<1>5. Searched'
  BY <1>1 DEF Searched
<1> QED
  BY <1>2, <1>7, <1>5 DEF Entered

\* A phase that ends well, with what it does to the code, the place and the
\* number found, and the panic handler's steps.
LEMMA EnteredKept ==
  ASSUME Entered, EntryStep \/ UNCHANGED mainVars
  PROVE  Entered'
<1> USE DEF Entered
<1>0. EntryTypes /\ Coded /\ Searched
  OBVIOUS
<1>a. CASE Panic /\ pc \in Panics /\ (pc = "fill" => ~Drawable)
  BY <1>a, PanicKeeps
<1>b. CASE UNCHANGED <<machine, Phase, bootInfo, err, at, rsdp, where, shown>>
  BY <1>b DEF EntryTypes, Coded, Searched, Firsts, Best, Preferred, Drawable
<1>c. ASSUME Phase \in Phases, Phase' \in Phases \cup {"halted"}, Phase' # "check",
             err' = CodeOf(Phase'), UNCHANGED <<machine, where, shown>>,
             bootInfo' \in BOOLEAN, at' \in Nat \ {0},
             rsdp' \in 0..Len(machine.area) + Len(machine.config), Searched'
      PROVE  Entered'
  <2>1. Phase \notin Panicked /\ Phase' \notin Panicked
    BY <1>c DEF Phases, Panicked
  <2>2. Coded'
    BY <1>0, <1>c, <2>1 DEF Coded
  <2>3. EntryTypes'
    BY <1>0, <1>c DEF EntryTypes, Ended
  <2> QED
    BY <1>c, <2>2, <2>3
<1>1. CASE CheckInfo
  <2>1. CASE Panic
    BY <2>1, <1>1, <1>a DEF CheckInfo, Panics
  <2>2. CASE ~Panic
    <3>1. Phase = "check" /\ Phase' = pc' /\ pc' \in {"fill", "search"}
          /\ bootInfo' = TRUE /\ err' = 0 /\ UNCHANGED <<machine, at, rsdp, where, shown>>
      BY <1>1, <2>2 DEF CheckInfo, Phase
    <3>2. Phase \in Phases /\ Phase' \in Phases /\ Searched' /\ err' = CodeOf(Phase')
      BY <3>1 DEF Phases, CodeOf, Searched
    <3> QED
      BY <3>1, <3>2, <1>0, <1>c DEF EntryTypes
  <2> QED
    BY <2>1, <2>2
<1>2. CASE SearchRsdp
  <2>1. CASE Panic
    BY <2>1, <1>2, <1>a DEF SearchRsdp, Panics
  <2>2. CASE ~Panic
    <3>1. Phase = "search" /\ Phase' = pc' /\ pc' \in {"fill", "search"}
          /\ rsdp' \in {at, 0} /\ at' \in {at, at + 1} /\ at <= Len(machine.area)
          /\ UNCHANGED <<machine, bootInfo, err, where, shown>>
      BY <1>2, <2>2 DEF SearchRsdp, NextPlace, Phase
    <3>2. at \in Nat \ {0} /\ at' \in Nat \ {0}
      BY <3>1, <1>0 DEF EntryTypes
    <3>a. Len(machine.area) \in Nat /\ Len(machine.config) \in Nat
      BY <1>0, MachineTypes
    <3>b. rsdp' \in Nat /\ rsdp' <= Len(machine.area)
      BY <3>1, <3>2, <3>a
    <3>3. rsdp' \in 0..Len(machine.area) + Len(machine.config)
      BY <3>a, <3>b, PlaceFits
    <3>4. err' = 0
      BY <3>1, <1>0 DEF Coded, Panicked, CodeOf
    <3>5. Phase \in Phases /\ Phase' \in Phases /\ Searched' /\ err' = CodeOf(Phase')
      BY <3>1, <3>4 DEF Phases, CodeOf, Searched
    <3> QED
      BY <3>1, <3>2, <3>3, <3>5, <1>0, <1>c DEF EntryTypes
  <2> QED
    BY <2>1, <2>2
<1>3. CASE FillTwice \/ MapMemory \/ Logo
  <2>1. CASE Panic
    BY <2>1, <1>3, <1>a DEF FillTwice, MapMemory, Logo, Panics, Panic
  <2>2. CASE ~Panic
    <3>1. /\ Phase = pc /\ pc \in {"fill", "map", "logo"} /\ Phase' = pc'
          /\ pc' \in {"map", "clear", "mode"} /\ err' = CodeOf(pc')
          /\ UNCHANGED <<machine, bootInfo, at, rsdp, where, shown>>
      BY <1>3, <2>2 DEF FillTwice, MapMemory, Logo, Phase, CodeOf, ErrAfterMap
    <3>2. Phase \in Phases /\ Phase' \in Phases /\ Searched'
      BY <3>1 DEF Phases, Searched
    <3> QED
      BY <3>1, <3>2, <1>0, <1>c DEF EntryTypes
  <2> QED
    BY <2>1, <2>2
<1>4. CASE Clear \/ InitInterrupts
  <2>1. CASE InitInterrupts /\ InitStep
    <3>1. CASE UNCHANGED mainVars
      BY <3>1, <1>b DEF mainVars, Phase
    <3>2. CASE ~UNCHANGED mainVars
      <4>1. FALSE
        BY <2>1, <3>2 DEF InitInterrupts, InitStep, devices, keyboardVars, hardware,
           MaskPics, EnableLapic, Redirect, WaitInput, Write, Flush, Sti, At
      <4> QED
        BY <4>1
    <3> QED
      BY <3>1, <3>2
  <2>2. CASE ~(InitInterrupts /\ InitStep)
    <3>1. /\ Phase \in {"clear", "init"} /\ Phase' \in {"init", "logo"}
          /\ UNCHANGED <<machine, bootInfo, err, at, rsdp, where, shown>>
      BY <1>4, <2>2 DEF Clear, InitInterrupts, Goto, Println, Phase
    <3>2. err' = 0
      BY <3>1, <1>0 DEF Coded, Panicked, CodeOf
    <3>3. Phase \in Phases /\ Phase' \in Phases /\ Searched' /\ err' = CodeOf(Phase')
      BY <3>1, <3>2 DEF Phases, CodeOf, Searched
    <3> QED
      BY <3>1, <3>3, <1>0, <1>c DEF EntryTypes
  <2> QED
    BY <2>1, <2>2
<1>5. CASE Mode
  <2>1. /\ Phase = "mode" /\ Phase' = (IF machine.uefi THEN "config" ELSE "rsdp") /\ at' = 1
        /\ err' = (IF machine.uefi THEN err ELSE 17)
        /\ UNCHANGED <<machine, bootInfo, rsdp, where, shown>>
    BY <1>5 DEF Mode, Println, Phase
  <2>2. err = 16
    BY <2>1, <1>0 DEF Coded, Panicked, CodeOf
  <2>3. err' = CodeOf(Phase')
    BY <2>1, <2>2 DEF CodeOf
  <2>4. \A k \in Best' : at' <= k
    BY <2>1, <1>0, MachineTypes DEF Best
  <2>5. Searched'
    BY <2>1, <2>4 DEF Searched
  <2>6. Phase \in Phases /\ Phase' \in Phases /\ Phase' # "check"
    BY <2>1 DEF Phases
  <2>a. at' = 1
    BY <2>1
  <2>b. bootInfo' \in BOOLEAN /\ rsdp' \in 0..Len(machine.area) + Len(machine.config)
    BY <2>1, <1>0 DEF EntryTypes
  <2>7. at' \in Nat \ {0}
    BY <2>a
  <2>8. UNCHANGED <<machine, where, shown>>
    BY <2>1
  <2> QED
    BY <2>3, <2>5, <2>6, <2>7, <2>8, <2>b, <1>c
<1>6. CASE SearchConfig
  <2>0. Phase = "config" /\ Phase' = pc'
    BY <1>6 DEF SearchConfig, Phase, Panic
  <2>1. CASE Panic
    BY <2>1, <1>6, <1>a DEF SearchConfig, Panics
  <2>2. CASE pc' = "config"
    <3>1. /\ at <= Len(machine.config)
          /\ rsdp' = (IF machine.config[at].guid = "other" THEN rsdp ELSE at)
          /\ at' = (IF Stops(at) THEN Len(machine.config) + 1 ELSE at + 1)
          /\ UNCHANGED <<machine, bootInfo, err, where, shown>>
      BY <1>6, <2>2 DEF SearchConfig, Panic
    <3>2. at \in Nat \ {0} /\ at' \in Nat \ {0}
      BY <3>1, <1>0, MachineTypes DEF EntryTypes
    <3>3. rsdp' \in 0..Len(machine.area) + Len(machine.config)
      <4>1. rsdp' = rsdp \/ rsdp' = at
        BY <3>1
      <4>2. CASE rsdp' = rsdp
        BY <4>2, <1>0 DEF EntryTypes
      <4>3. CASE rsdp' = at
        <5>1. Len(machine.area) \in Nat /\ Len(machine.config) \in Nat
          BY <1>0, MachineTypes
        <5>2. rsdp' \in Nat /\ rsdp' <= Len(machine.config)
          BY <4>3, <3>1, <3>2
        <5> QED
          BY <5>1, <5>2, PlaceFits
      <4> QED
        BY <4>1, <4>2, <4>3
    <3>4. err' = 16
      BY <3>1, <2>0, <1>0 DEF Coded, Panicked, CodeOf
    <3>5. Best' = Best /\ Best \subseteq Nat
      BY <3>1, <1>0, MachineTypes DEF Best, Preferred
    <3>6. \A k \in Best : at <= k
      BY <3>1, <3>2, <2>0, <1>0, MachineTypes DEF Searched
    <3>7. (at' > Len(machine.config) /\ Firsts(rsdp)') \/ \A k \in Best' : at' <= k
      <4>1. CASE Stops(at)
        <5>1. machine.config[at].guid # "other" /\ at \in Best
          BY <4>1, <3>1, <3>2, <1>0, MachineTypes DEF Stops, Best, Preferred
        <5>2. rsdp' = at
          BY <5>1, <3>1
        <5> QED
          BY <4>1, <5>1, <5>2, <3>1, <3>5, <3>6, <1>0, MachineTypes DEF Firsts
      <4>2. CASE ~Stops(at)
        <5>1. at \notin Best /\ at' = at + 1
          BY <4>2, <3>1 DEF Stops, Best
        <5> QED
          BY <5>1, <3>2, <3>5, <3>6
      <4> QED
        BY <4>1, <4>2
    <3>8. Searched'
      BY <3>1, <3>7, <2>0, <2>2 DEF Searched
    <3>9. Phase \in Phases /\ Phase' \in Phases \ {"check"} /\ err' = CodeOf(Phase')
      BY <3>4, <2>0, <2>2 DEF Phases, CodeOf
    <3> QED
      BY <3>1, <3>2, <3>3, <3>8, <3>9, <1>0, <1>c DEF EntryTypes
  <2>3. CASE pc' = "rsdp"
    <3>1. /\ at > Len(machine.config) /\ err' = 17
          /\ UNCHANGED <<machine, bootInfo, at, rsdp, where, shown>>
      BY <1>6, <2>3 DEF SearchConfig, Panic
    <3>2. Firsts(rsdp)' <=> Firsts(rsdp)
      BY <3>1 DEF Firsts, Best, Preferred
    <3>3. Best' = Best /\ \A k \in Best : k \in Nat /\ k < at
      BY <3>1, <1>0, MachineTypes DEF Best, Preferred, EntryTypes
    <3>4. Firsts(rsdp)' \/ Best' = {}
      <4>1. CASE \A k \in Best : at <= k
        BY <4>1, <3>3, <1>0 DEF EntryTypes
      <4> QED
        BY <4>1, <3>2, <2>0, <1>0 DEF Searched
    <3>5. Searched'
      BY <3>4, <2>0, <2>3 DEF Searched
    <3>6. Phase \in Phases /\ Phase' \in Phases \ {"check"} /\ err' = CodeOf(Phase')
      BY <3>1, <2>0, <2>3 DEF Phases, CodeOf
    <3> QED
      BY <3>1, <3>5, <3>6, <1>0, <1>c DEF EntryTypes
  <2> QED
    BY <1>6, <2>1, <2>2, <2>3 DEF SearchConfig
<1>7. CASE CheckRsdp
  <2>1. CASE Panic
    BY <2>1, <1>7, <1>a DEF CheckRsdp, Panics
  <2>2. CASE ~Panic
    <3>1. Phase = "rsdp" /\ Phase' = "halted" /\ err' = 0
          /\ UNCHANGED <<machine, bootInfo, at, rsdp, where, shown>>
      BY <1>7, <2>2 DEF CheckRsdp, Println, Phase
    <3>2. Phase \in Phases /\ Searched' /\ err' = CodeOf(Phase')
      BY <3>1 DEF Phases, CodeOf, Searched
    <3> QED
      BY <3>1, <3>2, <1>0, <1>c DEF EntryTypes
  <2> QED
    BY <2>1, <2>2
<1>8. CASE PanicHandler
  <2>1. /\ Phase \in {"panic", "red"} /\ Phase' \in {"lost", "red", "panicHalted"}
        /\ shown' \in {shown, err}
        /\ UNCHANGED <<machine, bootInfo, err, at, rsdp, where>>
    BY <1>8 DEF PanicHandler, Goto, Println, Phase
  <2>2. EntryTypes' /\ Searched'
    BY <2>1, <1>0 DEF EntryTypes, Ended, Searched
  <2>3. Phase' = "red" \/ shown' # shown => bootInfo /\ Drawable
    BY <1>8, <1>0 DEF PanicHandler, Goto, Println, Phase, Coded, Panicked
  <2>5. Drawable' = Drawable
    BY <2>1 DEF Drawable
  <2>6. Phase \in Panicked /\ Phase' \in Panicked
    BY <2>1 DEF Panicked
  <2>7. Coded'
    BY <2>1, <2>3, <2>5, <2>6, <1>0 DEF Coded
  <2> QED
    BY <2>2, <2>7
<1>9. CASE PrintString
  <2>1. UNCHANGED <<machine, Phase, bootInfo, err, at, rsdp, where, shown>>
    BY <1>9 DEF PrintString, Phase
  <2> QED
    BY <2>1, <1>b
<1>10. CASE UNCHANGED mainVars
  BY <1>10, <1>b DEF mainVars, Phase
<1> QED
  BY <1>1, <1>2, <1>3, <1>4, <1>5, <1>6, <1>7, <1>8, <1>9, <1>10 DEF EntryStep

-----------------------------------------------------------------------------
\* Written: what is drawn over was printed by the handler in between.

\* A string is all glyphs, or the end of a line.
LEMMA StringTypes ==
  ASSUME ConsoleTypes, strings # <<>>
  PROVE  /\ Head(strings) \in {Text, CrLf} /\ Tail(strings) \in {<<>>, <<CrLf>>}
         /\ Text \in Seq({"glyph"})
<1>1. Text \in Seq({"glyph"})
  BY MachinesAssumption DEF Text
<1>2. CASE strings = <<CrLf>>
  BY <1>1, <1>2
<1>3. CASE strings = <<Text, CrLf>>
  BY <1>1, <1>3
<1> QED
  BY <1>2, <1>3 DEF ConsoleTypes

\* What is left of a string, byte by byte.
LEMMA OutTypes ==
  ASSUME ConsoleTypes, out # <<>>
  PROVE  /\ Head(out) \in {"glyph", "cr", "lf"}
         /\ Tail(out) \in Seq({"glyph"}) \cup {CrLf, <<"lf">>}
         /\ Head(out) = "glyph" /\ Tail(out) # <<>> => Head(Tail(out)) = "glyph"
         /\ Head(out) = "cr" => Tail(out) # <<>> /\ Head(Tail(out)) = "lf"
         /\ Head(out) = "lf" => Tail(out) = <<>>
<1>1. CASE out \in Seq({"glyph"})
  <2>1. Tail(out) \in Seq({"glyph"}) /\ Head(out) = "glyph"
    BY <1>1
  <2>2. Tail(out) # <<>> => Head(Tail(out)) = "glyph"
    BY <2>1
  <2> QED
    BY <2>1, <2>2
<1>2. CASE out = CrLf
  <2>1. Head(out) = "cr" /\ Tail(out) = <<"lf">> /\ Head(<<"lf">>) = "lf" /\ <<"lf">> # <<>>
    BY <1>2 DEF CrLf
  <2> QED
    BY <2>1
<1>3. CASE out = <<"lf">>
  <2>1. Head(out) = "lf" /\ Tail(out) = <<>> /\ <<>> \in Seq({"glyph"})
    BY <1>3
  <2> QED
    BY <2>1
<1> QED
  BY <1>1, <1>2, <1>3 DEF ConsoleTypes

\* The floor is a place, before and after a step.
LEMMA FloorType ==
  ASSUME ConsoleTypes, ConsoleTypes'
  PROVE  Here \in Place /\ Floor \in Place /\ Here' \in Place /\ Floor' \in Place
<1>1. Here \in Place /\ Here' \in Place
  BY DEF ConsoleTypes, Here
<1>2. \A p \in Place : [x |-> 0, y |-> p.y + 1] \in Place /\ [x |-> p.x + 1, y |-> p.y] \in Place
  BY DEF Place
<1>3. Floor \in {Here, [x |-> 0, y |-> Here.y + 1], [x |-> Here.x + 1, y |-> Here.y]}
  BY DEF Floor
<1>4. Floor' \in {Here', [x |-> 0, y |-> Here'.y + 1], [x |-> Here'.x + 1, y |-> Here'.y]}
  BY DEF Floor
<1> QED
  BY <1>1, <1>2, <1>3, <1>4

\* What is not behind a place is not behind one that is not after it.
LEMMA NotBehind ==
  ASSUME NEW c \in Place, NEW p \in Place, NEW q \in Place, ~Before(q, p), ~Before(c, q)
  PROVE  ~Before(c, p)
  BY DEF Before, Place

\* Characters can be counted.
LEMMA AheadFinite ==
  ASSUME ConsoleTypes, ConsoleTypes'
  PROVE  /\ IsFiniteSet(Ahead) /\ Cardinality(Ahead) \in Nat
         /\ IsFiniteSet(Ahead') /\ Cardinality(Ahead') \in Nat
<1>1. Ahead \in SUBSET cells /\ Ahead' \in SUBSET cells'
  BY DEF Ahead
<1>2. IsFiniteSet(Ahead) /\ IsFiniteSet(Ahead')
  BY <1>1, FS_Subset DEF ConsoleTypes
<1> QED
  BY <1>1, <1>2, FS_CardinalityType

\* The screen after characters were drawn, and how many lie over others.
LEMMA DrawTypes ==
  ASSUME ConsoleTypes, NEW here \in SUBSET Place, IsFiniteSet(here), Draw(here)
  PROVE  cells' \in SUBSET Place /\ IsFiniteSet(cells') /\ hidden' \in Nat
<1>1. cells' = cells \cup here /\ hidden' = hidden + Cardinality(here \cap cells)
  BY DEF Draw
<1>2. cells \in SUBSET Place /\ IsFiniteSet(cells) /\ hidden \in Nat
  BY DEF ConsoleTypes
<1>3. IsFiniteSet(cells \cup here)
  BY <1>2, FS_Union
<1>4. Cardinality(here \cap cells) \in Nat
  BY FS_Subset, FS_CardinalityType
<1> QED
  BY <1>1, <1>2, <1>3, <1>4

\* Nothing is drawn, and the floor does not go back.
LEMMA NothingDrawn ==
  ASSUME ConsoleTypes, Paid, ConsoleTypes',
         UNCHANGED <<cells, hidden, raced>>, ~Before(Floor', Floor)
  PROVE  Paid'
<1>1. Floor \in Place /\ Floor' \in Place
  BY FloorType
<1>2. Ahead' \in SUBSET Ahead
  BY <1>1 DEF Ahead, Before, Place, ConsoleTypes
<1>3. Cardinality(Ahead') <= Cardinality(Ahead)
  BY <1>2, AheadFinite, FS_Subset
<1>4. Cardinality(Ahead') \in Nat /\ Cardinality(Ahead) \in Nat
  BY AheadFinite
<1> QED
  BY <1>3, <1>4 DEF Paid, ConsoleTypes

\* Characters are drawn: in a hurry they are paid for, from the floor on they
\* leave the floor behind them.
LEMMA SomeDrawn ==
  ASSUME ConsoleTypes, Paid, ConsoleTypes', NEW here \in SUBSET Place, IsFiniteSet(here),
         Draw(here), ~Before(Floor', Floor),
         \/ raced' >= raced + Cardinality(here)
         \/ /\ raced' = raced
            /\ \A h \in here : ~Before(h, Floor) /\ Before(h, Floor')
  PROVE  Paid'
<1> DEFINE over == here \cap cells
           new == here \ cells
<1>1. Floor \in Place /\ Floor' \in Place
  BY FloorType
<1>2. /\ IsFiniteSet(Ahead) /\ Cardinality(Ahead) \in Nat
      /\ IsFiniteSet(Ahead') /\ Cardinality(Ahead') \in Nat
  BY AheadFinite
<1>3. cells' = cells \cup here /\ hidden' = hidden + Cardinality(over)
  BY DEF Draw
<1>4. /\ IsFiniteSet(over) /\ IsFiniteSet(new)
      /\ Cardinality(over) \in Nat /\ Cardinality(new) \in Nat
      /\ Cardinality(here) = Cardinality(over) + Cardinality(new)
  <2>1. IsFiniteSet(over) /\ IsFiniteSet(new)
    BY FS_Subset
  <2>2. here = over \cup new /\ over \cap new = {}
    OBVIOUS
  <2> HIDE DEF over, new
  <2>3. Cardinality(over) \in Nat /\ Cardinality(new) \in Nat
    BY <2>1, FS_CardinalityType
  <2>4. Cardinality(over \cup new) =
          Cardinality(over) + Cardinality(new) - Cardinality(over \cap new)
    BY <2>1, FS_Union
  <2> QED
    BY <2>1, <2>2, <2>3, <2>4, FS_EmptySet
<1>5. hidden \in Nat /\ raced \in Nat /\ raced' \in Nat /\ hidden + Cardinality(Ahead) <= raced
  BY DEF ConsoleTypes, Paid
<1>6. CASE raced' >= raced + Cardinality(here)
  <2>1. Ahead' \in SUBSET (Ahead \cup new)
    <3> SUFFICES ASSUME NEW c \in Ahead', c \notin new PROVE c \in Ahead
      OBVIOUS
    <3>1. c \in cells /\ ~Before(c, Floor')
      BY <1>3 DEF Ahead
    <3>2. ~Before(c, Floor)
      BY <3>1, <1>1, NotBehind DEF ConsoleTypes
    <3> QED
      BY <3>1, <3>2 DEF Ahead
  <2> HIDE DEF over, new
  <2>2. /\ IsFiniteSet(Ahead \cup new)
        /\ Cardinality(Ahead \cup new) =
             Cardinality(Ahead) + Cardinality(new) - Cardinality(Ahead \cap new)
    BY <1>2, <1>4, FS_Union
  <2>3. Cardinality(Ahead \cap new) \in Nat
    BY <1>2, FS_Subset, FS_CardinalityType
  <2>4. Cardinality(Ahead') <= Cardinality(Ahead \cup new)
    BY <2>1, <2>2, FS_Subset
  <2>5. Cardinality(Ahead') <= Cardinality(Ahead) + Cardinality(new)
    BY <2>2, <2>3, <2>4, <1>2, <1>4
  <2>6. hidden' + Cardinality(Ahead') <= raced'
    BY <2>5, <1>2, <1>3, <1>4, <1>5, <1>6
  <2> QED
    BY <2>6 DEF Paid
<1>7. CASE raced' = raced /\ \A h \in here : ~Before(h, Floor) /\ Before(h, Floor')
  <2>1. Ahead' \in SUBSET (Ahead \ over)
    <3> SUFFICES ASSUME NEW c \in Ahead' PROVE c \in Ahead /\ c \notin over
      OBVIOUS
    <3>1. c \in cells /\ c \notin here /\ ~Before(c, Floor')
      BY <1>3, <1>7 DEF Ahead
    <3>2. ~Before(c, Floor)
      BY <3>1, <1>1, NotBehind DEF ConsoleTypes
    <3> QED
      BY <3>1, <3>2 DEF Ahead
  <2>2. over \in SUBSET Ahead
    BY <1>7 DEF Ahead
  <2> HIDE DEF over, new
  <2>3. IsFiniteSet(Ahead \ over) /\ Cardinality(Ahead \ over) \in Nat
    BY <1>2, FS_Subset, FS_CardinalityType
  <2>4. (Ahead \ over) \cup over = Ahead /\ (Ahead \ over) \cap over = {}
    BY <2>2
  <2>5. Cardinality((Ahead \ over) \cup over) =
          Cardinality(Ahead \ over) + Cardinality(over) - Cardinality((Ahead \ over) \cap over)
    BY <2>3, <1>4, FS_Union
  <2>a. Cardinality((Ahead \ over) \cup over) = Cardinality(Ahead)
    BY <2>4
  <2>b. Cardinality((Ahead \ over) \cap over) = 0
    BY <2>4, FS_EmptySet
  <2>6. Cardinality(Ahead) = Cardinality(Ahead \ over) + Cardinality(over)
    BY <2>3, <2>5, <2>a, <2>b, <1>4
  <2>7. Cardinality(Ahead') <= Cardinality(Ahead \ over)
    BY <2>1, <2>3, FS_Subset
  <2>8. hidden' + Cardinality(Ahead') <= raced'
    BY <2>3, <2>6, <2>7, <1>2, <1>3, <1>4, <1>5, <1>7
  <2> QED
    BY <2>8 DEF Paid
<1> QED
  BY <1>6, <1>7

\* The main program puts a character on the screen, at the floor.
LEMMA PrintByteKeeps ==
  ASSUME ConsoleTypes, Forward, Paid, PrintByte, pc' = pc, strings' = strings,
         pc = "print"
  PROVE  ConsoleTypes' /\ Forward' /\ Paid'
<1>1. /\ step = "draw" /\ step' = "advance" /\ out # <<>> /\ out' = out
      /\ reg' = Here /\ Here' = Here
      /\ UNCHANGED <<cached, cursor, raced>>
  BY DEF PrintByte, Here
<1>2. Here \in Place
  BY DEF ConsoleTypes, Here
<1>3. CASE Head(out) = "glyph"
  <2>1. Draw({Here})
    BY <1>1, <1>3 DEF PrintByte
  <2>2. cells' \in SUBSET Place /\ IsFiniteSet(cells') /\ hidden' \in Nat
    BY <2>1, <1>2, FS_Singleton, DrawTypes
  <2>3. ConsoleTypes'
    BY <2>2, <1>1, <1>2 DEF ConsoleTypes
  <2>4. Floor = Here /\ Floor' = [x |-> Here.x + 1, y |-> Here.y]
    BY <1>1, <1>3 DEF Floor
  <2>5. Paid'
    <3>1. /\ raced' = raced /\ ~Before(Floor', Floor)
          /\ \A h \in {Here} : ~Before(h, Floor) /\ Before(h, Floor')
      BY <1>1, <1>2, <2>4 DEF Before, Place
    <3> QED
      BY <3>1, <2>1, <2>3, <2>4, <1>2, FS_Singleton, SomeDrawn
  <2> QED
    BY <2>3, <2>5, <1>1 DEF Forward, Here, ConsoleTypes, Place
<1>4. CASE Head(out) # "glyph"
  <2>1. UNCHANGED <<cells, hidden>>
    BY <1>4 DEF PrintByte
  <2>2. ConsoleTypes'
    BY <2>1, <1>1, <1>2 DEF ConsoleTypes
  <2>3. Floor' = Floor
    BY <1>1, <1>4 DEF Floor
  <2>4. ~Before(Floor', Floor)
    BY <2>2, <2>3, FloorType DEF Before, Place
  <2>5. Paid'
    BY <2>1, <2>2, <2>4, <1>1, NothingDrawn
  <2> QED
    BY <2>2, <2>5, <1>1 DEF Forward, Here, ConsoleTypes, Place
<1> QED
  BY <1>3, <1>4

\* The cursor moves on, from what the registers hold or from memory.
LEMMA AdvanceByteKeeps ==
  ASSUME ConsoleTypes, Forward, Paid, AdvanceByte, pc' = pc, strings' = strings,
         pc = "print"
  PROVE  ConsoleTypes' /\ Forward' /\ Paid'
<1>1. /\ step = "advance" /\ step' = "draw" /\ out # <<>> /\ out' = Tail(out)
      /\ reg' = Advance(reg, Head(out))
      /\ cached => cursor' = cursor
      /\ ~cached => cursor' \in Stores(reg, Head(out))
      /\ UNCHANGED <<cached, cells, hidden, raced>>
  BY DEF AdvanceByte, Forward
<1>2. reg \in Place /\ cursor \in Place /\ Head(out) \in {"glyph", "cr", "lf"}
  BY <1>1, OutTypes DEF ConsoleTypes
<1>3. reg' \in Place
  BY <1>1, <1>2 DEF Advance, Place
<1>4. cursor' \in Place
  BY <1>1, <1>2 DEF Advance, Stores, Place, ConsoleTypes
<1>5. ConsoleTypes'
  BY <1>1, <1>3, <1>4, OutTypes DEF ConsoleTypes
<1>6. Forward'
  BY <1>1 DEF Forward
<1>7. /\ Here' = (IF cached THEN reg' ELSE cursor')
      /\ Here = reg
      /\ ~cached => reg.x <= cursor.x /\ reg.y <= cursor.y
  BY <1>1 DEF Here, Forward
<1>8. ~Before(Floor', Floor)
  <2>1. CASE Head(out) = "glyph"
    <3>1. Floor = [x |-> reg.x + 1, y |-> reg.y]
      BY <1>1, <1>7, <2>1 DEF Floor
    <3>2. Floor' = Here'
      BY <1>1, <2>1, OutTypes DEF Floor
    <3>a. \A p \in Place : /\ Advance(p, Head(out)) \in Place
                             /\ Advance(p, Head(out)).x = p.x + 1
                             /\ Advance(p, Head(out)).y = p.y
      BY <2>1 DEF Advance, Place
    <3>3. Here'.y >= reg.y /\ Here'.x >= reg.x + 1 /\ Here' \in Place
      <4>1. CASE cached
        <5>1. Here' = reg' /\ reg' = Advance(reg, Head(out))
          BY <4>1, <1>1, <1>7
        <5> QED
          BY <5>1, <3>a, <1>2 DEF Place
      <4>2. CASE ~cached
        <5>1. Here' = cursor' /\ cursor' \in Stores(reg, Head(out))
              /\ reg.x <= cursor.x /\ reg.y <= cursor.y
          BY <4>2, <1>1, <1>7
        <5>2. cursor' \in {Advance(cursor, Head(out)), [cursor EXCEPT !.x = reg.x + 1]}
          BY <5>1, <3>a, <1>2, <2>1 DEF Stores
        <5> QED
          BY <5>1, <5>2, <3>a, <1>2 DEF Place
      <4> QED
        BY <4>1, <4>2
    <3> QED
      BY <3>1, <3>2, <3>3, <1>2 DEF Before, Place
  <2>2. CASE Head(out) = "cr"
    <3>1. Floor = [x |-> 0, y |-> reg.y + 1]
      BY <1>1, <1>7, <2>2 DEF Floor
    <3>2. Floor' = [x |-> 0, y |-> Here'.y + 1]
      BY <1>1, <2>2, OutTypes DEF Floor
    <3>3. Here'.y >= reg.y /\ Here' \in Place
      BY <1>1, <1>2, <1>3, <1>4, <1>7, <2>2 DEF Advance, Stores, Place, ConsoleTypes
    <3> QED
      BY <3>1, <3>2, <3>3, <1>2 DEF Before, Place
  <2>3. CASE Head(out) = "lf"
    <3>1. Floor = [x |-> 0, y |-> reg.y + 1]
      BY <1>1, <1>7, <2>3 DEF Floor
    <3>2. Floor' = Here'
      BY <1>1, <2>3, OutTypes DEF Floor
    <3>3. Here'.y >= reg.y + 1 /\ Here' \in Place
      BY <1>1, <1>2, <1>3, <1>4, <1>7, <2>3 DEF Advance, Stores, Place, ConsoleTypes
    <3> QED
      BY <3>1, <3>2, <3>3, <1>2 DEF Before, Place
  <2> QED
    BY <1>2, <2>1, <2>2, <2>3
<1>9. Paid'
  BY <1>1, <1>5, <1>8, NothingDrawn
<1> QED
  BY <1>5, <1>6, <1>9

\* A string begins and ends where the cursor is, or the registers are.
LEMMA StringKeeps ==
  ASSUME ConsoleTypes, Forward, Paid, pc' = pc, pc = "print",
         \/ strings # <<>> /\ Begin(Head(strings)) /\ strings' = Tail(strings)
         \/ EndString /\ strings' = strings
  PROVE  ConsoleTypes' /\ Forward' /\ Paid'
<1>1. CASE strings # <<>> /\ Begin(Head(strings)) /\ strings' = Tail(strings)
  <2>1. /\ step = "idle" /\ step' = "draw" /\ out' = Head(strings) /\ reg' = cursor
        /\ UNCHANGED <<cached, cursor, cells, hidden, raced>>
    BY <1>1 DEF Begin
  <2>2. out' \in Seq({"glyph"}) \cup {CrLf, <<"lf">>}
    BY <1>1, <2>1, StringTypes
  <2>3. strings' \in {<<>>, <<CrLf>>, <<Text, CrLf>>}
    BY <1>1, StringTypes
  <2>4. ConsoleTypes'
    BY <2>1, <2>2, <2>3 DEF ConsoleTypes
  <2>5. Floor = cursor /\ Here' = cursor /\ Floor' \in {cursor, [x |-> 0, y |-> cursor.y + 1]}
    BY <2>1 DEF Floor, Here
  <2>6. ~Before(Floor', Floor)
    BY <2>5 DEF Before, ConsoleTypes, Place
  <2>7. Paid'
    BY <2>1, <2>4, <2>6, NothingDrawn
  <2> QED
    BY <2>1, <2>4, <2>7 DEF Forward
<1>2. CASE EndString /\ strings' = strings
  <2>1. /\ step = "draw" /\ step' = "idle" /\ out = <<>> /\ out' = out /\ reg' = Origin
        /\ cursor' = (IF cached THEN reg ELSE cursor)
        /\ UNCHANGED <<cached, cells, hidden, raced>>
    BY <1>2 DEF EndString
  <2>2. Origin \in Place
    BY DEF Origin, Place
  <2>3. ConsoleTypes'
    BY <2>1, <2>2, <1>2 DEF ConsoleTypes
  <2>4. Floor' = Floor
    BY <2>1 DEF Floor, Here
  <2>5. ~Before(Floor', Floor)
    BY <2>3, <2>4, FloorType DEF Before, Place
  <2>6. Paid'
    BY <2>1, <2>3, <2>5, NothingDrawn
  <2> QED
    BY <2>1, <2>3, <2>6 DEF Forward
<1> QED
  BY <1>1, <1>2

\* The handler moves the cursor on; nothing the main program knows moves back.
LEMMA KeyForward ==
  ASSUME ConsoleTypes, Forward, UNCHANGED <<cached, reg, out, step>>,
         cursor' \in Place, cursor.x <= cursor'.x, cursor.y <= cursor'.y
  PROVE  Forward' /\ ~Before(Floor', Floor)
<1>1. cursor \in Place /\ reg \in Place
  BY DEF ConsoleTypes
<1>2. /\ Here \in Place /\ Here' \in Place
      /\ Here' = Here \/ (Here = cursor /\ Here' = cursor')
  BY <1>1 DEF Here
<1>3. /\ Here.x <= Here'.x /\ Here.y <= Here'.y
      /\ Here.x \in Nat /\ Here.y \in Nat /\ Here'.x \in Nat /\ Here'.y \in Nat
  BY <1>2 DEF Place
<1>4. ~Before(Floor', Floor)
  BY <1>3 DEF Floor, Before
<1>5. Forward'
  BY <1>1 DEF Forward, Place
<1> QED
  BY <1>4, <1>5

\* There are no more letters in a name than that.
LEMMA WordSize ==
  ASSUME cursor \in Place, NEW n \in Nat
  PROVE  Word(n) \in SUBSET Place /\ IsFiniteSet(Word(n)) /\ Cardinality(Word(n)) <= n
<1> DEFINE f == [k \in 0..n - 1 |-> [cursor EXCEPT !.x = @ + k]]
<1>1. f \in Surjection(0..n - 1, Word(n))
  BY DEF Word, Surjection
<1>2. IsFiniteSet(0..n - 1) /\ Cardinality(0..n - 1) = n
  <2>1. 0 \in Int /\ n - 1 \in Int
    OBVIOUS
  <2>2. IsFiniteSet(0..n - 1) /\ Cardinality(0..n - 1) = (IF 0 > n - 1 THEN 0 ELSE (n - 1) - 0 + 1)
    BY <2>1, FS_Interval
  <2> QED
    BY <2>2
<1>3. IsFiniteSet(Word(n)) /\ Cardinality(Word(n)) <= Cardinality(0..n - 1)
  BY <1>1, <1>2, FS_Surjection
<1>4. Word(n) \in SUBSET Place
  BY DEF Word, Place
<1> QED
  BY <1>2, <1>3, <1>4

\* The handler prints letters: between two strings from the floor on, in the
\* middle of one anywhere.
LEMMA PrintWordKeeps ==
  ASSUME ConsoleTypes, Forward, Paid, pc' = pc, strings' = strings,
         NEW n \in 1..Letters, PrintWord(n)
  PROVE  ConsoleTypes' /\ Forward' /\ Paid'
<1>1. /\ Draw(Word(n)) /\ cursor' = [cursor EXCEPT !.x = @ + n]
      /\ raced' = (IF step # "idle" THEN raced + n ELSE raced)
      /\ UNCHANGED <<cached, reg, out, step>>
      /\ cursor \in Place /\ n \in Nat
  BY DEF PrintWord, ConsoleTypes
<1>2. cursor' \in Place /\ cursor'.x = cursor.x + n /\ cursor'.y = cursor.y
  BY <1>1 DEF Place
<1>3. Word(n) \in SUBSET Place /\ IsFiniteSet(Word(n)) /\ Cardinality(Word(n)) <= n
  BY <1>1, WordSize
<1>4. cells' \in SUBSET Place /\ IsFiniteSet(cells') /\ hidden' \in Nat
  BY <1>1, <1>3, DrawTypes
<1>5. ConsoleTypes'
  BY <1>1, <1>2, <1>4 DEF ConsoleTypes
<1>6. Forward' /\ ~Before(Floor', Floor)
  BY <1>1, <1>2, KeyForward DEF Place
<1>7. CASE step = "idle"
  <2>1. Floor = cursor /\ Floor' = cursor' /\ raced' = raced
    BY <1>1, <1>7 DEF Floor, Here
  <2>2. \A h \in Word(n) : ~Before(h, Floor) /\ Before(h, Floor')
    <3> SUFFICES ASSUME NEW k \in 0..n - 1
                 PROVE  LET h == [cursor EXCEPT !.x = @ + k]
                        IN  ~Before(h, Floor) /\ Before(h, Floor')
      BY DEF Word
    <3> QED
      BY <2>1, <1>1, <1>2 DEF Before, Place
  <2>3. Paid'
    BY <2>1, <2>2, <1>1, <1>3, <1>5, <1>6, SomeDrawn
  <2> QED
    BY <2>3, <1>5, <1>6
<1>8. CASE step # "idle"
  <2>1. raced' >= raced + Cardinality(Word(n))
    <3>1. Cardinality(Word(n)) \in Nat /\ raced \in Nat
      BY <1>3, FS_CardinalityType DEF ConsoleTypes
    <3> QED
      BY <3>1, <1>1, <1>3, <1>8
  <2>2. Paid'
    BY <2>1, <1>1, <1>3, <1>5, <1>6, SomeDrawn
  <2> QED
    BY <2>2, <1>5, <1>6
<1> QED
  BY <1>7, <1>8

\* A new line is drawn over nothing.
LEMMA NewLineKeeps ==
  ASSUME ConsoleTypes, Forward, Paid, pc' = pc, strings' = strings, PrintNewLine
  PROVE  ConsoleTypes' /\ Forward' /\ Paid'
<1>1. /\ cursor' = [cursor EXCEPT !.y = @ + 1] /\ cursor \in Place
      /\ UNCHANGED <<cached, reg, out, step, cells, hidden, raced>>
  BY DEF PrintNewLine, Advance, ConsoleTypes
<1>2. cursor' \in Place /\ cursor'.x = cursor.x /\ cursor'.y = cursor.y + 1
  BY <1>1 DEF Place
<1>3. ConsoleTypes'
  BY <1>1, <1>2 DEF ConsoleTypes
<1>4. Forward' /\ ~Before(Floor', Floor)
  BY <1>1, <1>2, KeyForward DEF Place
<1> QED
  BY <1>1, <1>3, <1>4, NothingDrawn

\* An empty screen at the start, and whenever it is filled or cleared.
LEMMA WrittenFirst == ASSUME Init PROVE Written
<1>1. /\ cached \in BOOLEAN /\ cursor = Origin /\ reg = Origin /\ out = <<>> /\ step = "idle"
      /\ cells = {} /\ hidden = 0 /\ raced = 0 /\ strings = <<>>
  BY DEF Init, ConsoleInit
<1>2. Origin \in Place
  BY DEF Origin, Place
<1>3. ConsoleTypes
  BY <1>1, <1>2, FS_EmptySet DEF ConsoleTypes
<1>4. Ahead = {} /\ Cardinality(Ahead) = 0
  BY <1>1, FS_EmptySet DEF Ahead
<1> QED
  BY <1>1, <1>3, <1>4 DEF Written, Forward, Paid

\* Every step of the console keeps Written.
LEMMA WrittenKept ==
  ASSUME Written, ConsoleStep
  PROVE  Written'
<1> USE DEF Written
<1>1. CASE pc' = pc /\ strings' = strings /\ pc = "print" /\ WriteStep
  BY <1>1, PrintByteKeeps, AdvanceByteKeeps, StringKeeps DEF WriteStep
<1>2. CASE /\ pc' = pc /\ strings' = strings
           /\ PrintNewLine \/ \E n \in 1..Letters : PrintWord(n)
  <2>1. CASE PrintNewLine
    BY <1>2, <2>1, NewLineKeeps
  <2>2. CASE \E n \in 1..Letters : PrintWord(n)
    <3>1. PICK n \in 1..Letters : PrintWord(n)
      BY <2>2
    <3> QED
      BY <1>2, <3>1, PrintWordKeeps
  <2> QED
    BY <1>2, <2>1, <2>2
<1>3. CASE /\ pc = "print" /\ pc' = pc
           /\ strings # <<>> /\ Begin(Head(strings)) /\ strings' = Tail(strings)
  BY <1>3, StringKeeps
<1>4. CASE /\ (pc' = pc \/ step = "idle") /\ UNCHANGED consoleVars
           /\ strings' = strings
  BY <1>4 DEF ConsoleTypes, Forward, Paid, Ahead, Before, Floor, Here, consoleVars
<1>5. CASE /\ pc # "print" /\ (strings' = strings \/ strings' = <<Text, CrLf>>)
           /\ FillScreen \/ ClearScreen
  <2>1. /\ cells' = {} /\ hidden' = 0 /\ raced' = 0 /\ step = "idle"
        /\ UNCHANGED <<cached, reg, out, step>> /\ cursor' \in {cursor, Origin}
    BY <1>5 DEF FillScreen, ClearScreen, ConsoleTypes
  <2>2. Origin \in Place
    BY DEF Origin, Place
  <2>3. ConsoleTypes'
    BY <1>5, <2>1, <2>2, FS_EmptySet DEF ConsoleTypes
  <2>4. Ahead' = {} /\ Cardinality(Ahead') = 0
    BY <2>1, FS_EmptySet DEF Ahead
  <2> QED
    BY <2>1, <2>3, <2>4 DEF Forward, Paid
<1>6. CASE /\ pc # "print" /\ (strings' = strings \/ strings' = <<Text, CrLf>>)
           /\ UNCHANGED consoleVars
  BY <1>6 DEF ConsoleTypes, Forward, Paid, Ahead, Before, Floor, Here, consoleVars
<1> QED
  BY <1>1, <1>2, <1>3, <1>4, <1>5, <1>6 DEF ConsoleStep

-----------------------------------------------------------------------------
\* The three together.
IInv == Keys /\ Written /\ Entered

\* Every state the kernel reaches satisfies the invariants of its three parts.
THEOREM Inductive == Spec => []IInv
<1>1. Init => IInv
  BY KeysFirst, WrittenFirst, EnteredFirst DEF IInv
<1>2. IInv /\ [Next]_vars => IInv'
  <2> SUFFICES ASSUME IInv, [Next]_vars PROVE IInv'
    OBVIOUS
  <2>1. Keys'
    <3>1. KeyStep \/ UNCHANGED keyboardVars
      BY KeyboardMoves
    <3>2. ip' # ip => hp = "none"
      BY KeyboardMoves DEF keyboardVars
    <3> QED
      BY <3>1, <3>2, KeysKept DEF IInv
  <2>2. Written'
    BY ConsoleMoves, WrittenKept DEF IInv
  <2>3. Entered'
    BY EntryMoves, EnteredKept DEF IInv
  <2> QED
    BY <2>1, <2>2, <2>3 DEF IInv
<1> QED
  BY <1>1, <1>2, PTL DEF Spec

\* The kernel's variables have the types of TypeOK: the keyboard has sent no
\* more than the keys struck and one answer, the handler runs with interrupts
\* off, and the number found is one of a table.
THEOREM TypesHold == Spec => []TypeOK
<1>1. IInv => TypeOK
  <2> SUFFICES ASSUME IInv PROVE TypeOK
    OBVIOUS
  <2>1. pc \in Phases \cup {"print", "panic", "red"} \cup Ended
    BY DEF IInv, Entered, EntryTypes, Phase
  <2>2. err \in {0, 1, 2, 16, 17} /\ shown \in {-1, 0, 1, 2, 16, 17}
    BY DEF IInv, Entered, Coded, CodeOf
  <2>3. machine \in Machines /\ bootInfo \in BOOLEAN /\ at \in Nat
        /\ rsdp \in 0..Len(machine.area) + Len(machine.config)
    BY DEF IInv, Entered, EntryTypes
  <2>4. cursor.x \in Nat /\ cursor.y \in Nat
    BY DEF IInv, Written, ConsoleTypes, Place
  <2>5. /\ hp \in {"none", "read", "print", "eoi"}
        /\ hp # "none" => isr /\ ~enabled
    BY DEF IInv, Keys, KeyTypes, Served
  <2>6. Len(sent) <= MaxKeys + 1
    BY MaxKeysAssumption DEF IInv, Keys, KeyTypes, Answers, One
  <2> QED
    BY <2>1, <2>2, <2>3, <2>4, <2>5, <2>6 DEF TypeOK
<1> QED
  BY <1>1, Inductive, PTL

\* No byte waits without its interrupt once init has flushed the controller,
\* and the handler reads in vain at most once, whatever the keys, the firmware
\* and the order of the accesses: init's flush and the edge of the IO-APIC.
THEOREM BytesAreSeen == Spec => []InterruptsMatchBytes
<1>1. IInv => InterruptsMatchBytes
  <2> SUFFICES ASSUME IInv PROVE InterruptsMatchBytes
    OBVIOUS
  <2>1. UnderWay \in Nat /\ stale \in Nat /\ UnderWay + stale <= 1 + One(obf)
        /\ (ip \in {"sti", "done"} => One(obf) <= UnderWay)
    BY DEF IInv, Keys, KeyTypes, Matched, UnderWay, One
  <2>2. ip \in {"sti", "done"} /\ obf => irr \/ hp = "read"
    BY <2>1 DEF UnderWay, One
  <2>3. ip # "done" => stale = 0
    BY DEF IInv, Keys, Served
  <2>4. stale <= 1
    BY <2>1, <2>3 DEF UnderWay, One
  <2> QED
    BY <2>2, <2>4 DEF InterruptsMatchBytes
<1> QED
  BY <1>1, Inductive, PTL

\* No more is drawn over than the handler printed in the middle of a string of
\* the main program, for lines of any length and any number of keys, whether
\* the build keeps the console's cursor in registers or not.
THEOREM LossIsBounded == Spec => []LossBounded
<1>1. IInv => LossBounded
  <2> SUFFICES ASSUME IInv PROVE LossBounded
    OBVIOUS
  <2>1. Ahead \in SUBSET cells /\ IsFiniteSet(cells)
    BY DEF Ahead, IInv, Written, ConsoleTypes
  <2>2. Cardinality(Ahead) \in Nat
    BY <2>1, FS_Subset, FS_CardinalityType
  <2> QED
    BY <2>2 DEF IInv, Written, ConsoleTypes, Paid, LossBounded
<1> QED
  BY <1>1, Inductive, PTL

\* On any machine the panic screen shows the code the table at KRNL_ERR gives to
\* the phase that panicked, if that is get_mmap, the search of the configuration
\* tables or the checks of the RSDP; of the search for the RSDP and of the logo
\* it shows 0, "Success"; and a panic of the boot information's check or of the
\* first fill is lost before anything is shown (main.rs:746-952, mod.rs:10-34).
THEOREM CodesAreRight == Spec => []CodeNamesPhase
<1>1. IInv => CodeNamesPhase
  <2> SUFFICES ASSUME IInv PROVE CodeNamesPhase
    OBVIOUS
  <2>1. shown = -1 \/ (where \in Panics \ {"check", "fill"} /\ shown = CodeOf(where))
    BY DEF IInv, Entered, Coded
  <2> QED
    BY <2>1 DEF Panics, CodeOf, CodeNamesPhase
<1> QED
  BY <1>1, Inductive, PTL

\* Of any configuration tables the kernel takes the first RSDP of the version
\* its width prefers, if there is one.
THEOREM TakesPreferred == Spec => []PreferredTaken
<1>1. IInv => PreferredTaken
  <2> SUFFICES ASSUME IInv, pc = "rsdp", machine.uefi, Best # {}
      PROVE  rsdp \in Best /\ \A k \in Best : rsdp <= k
    BY DEF PreferredTaken, Best
  <2>1. Firsts(rsdp)
    BY DEF IInv, Entered, Searched, Phase
  <2> QED
    BY <2>1 DEF Firsts
<1> QED
  BY <1>1, Inductive, PTL
=============================================================================
