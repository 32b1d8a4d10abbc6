------------------------------ MODULE Keyboard ------------------------------
(***************************************************************************)
(* x86_64_stuff.rs: init, which brings the keyboard to life, its interrupt *)
(* handler, and the hardware between them: the keyboard, the i8042         *)
(* controller, the IO-APIC's entry 1 and the processor's local APIC.       *)
(*                                                                         *)
(* The hardware is external: it is modelled by what init and the handler   *)
(* rely on.  The interrupt is an edge: it is requested when a byte arrives *)
(* in the output buffer, and lost if the entry is masked, sent to another  *)
(* processor, or met by a local APIC that is off.                          *)
(***************************************************************************)
EXTENDS Naturals, Sequences

CONSTANT MaxKeys  \* bound of the model: keys struck
ASSUME MaxKeysAssumption == MaxKeys \in Nat

VARIABLES
  ip,        \* init: its next access
  hp,        \* the handler: its next access, or "none"
  code,      \* the byte the handler read
  enabled,   \* interrupts are enabled
  lapic,     \* the local APIC is on
  entry1,    \* IO-APIC entry 1
  irr, isr,  \* keyboard interrupt requested, in service
  port,      \* the controller's keyboard port is enabled
  scanning,  \* the keyboard sends what is struck
  sent,      \* bytes on their way from the keyboard
  obf, data, \* a byte is in the output buffer; the byte
  ibf,       \* the controller has not taken the byte written to it
  taken,     \* command or data in the input buffer
  keys,      \* keys struck so far
  stale      \* reads of the handler that found no byte

hardware == <<lapic, entry1, irr, port, scanning, sent, obf, data, ibf, taken, keys>>
keyboardVars == <<ip, hp, code, stale, enabled, isr, hardware>>

\* The firmware has used the keyboard or left it alone; if it has, a byte may
\* be waiting.  The entry may be in use, its destination any processor.
KeyboardInit ==
  /\ ip = "pics" /\ hp = "none" /\ code = "none" /\ stale = 0 /\ enabled = FALSE
  /\ lapic \in BOOLEAN
  /\ entry1 \in [masked : BOOLEAN, here : BOOLEAN]
  /\ irr = FALSE /\ isr = FALSE
  /\ port \in BOOLEAN /\ scanning = port
  /\ sent = <<>> /\ obf \in {FALSE, port} /\ data = "key"
  /\ ibf = FALSE /\ taken = "none" /\ keys = 0

-----------------------------------------------------------------------------
\* Hardware.
Strike ==
  /\ scanning /\ keys < MaxKeys
  /\ keys' = keys + 1
  /\ sent' = Append(sent, "key")
  /\ UNCHANGED <<ip, hp, code, stale, enabled, isr, lapic, entry1, irr, port, scanning,
                 obf, data, ibf, taken>>
\* A byte arrives once the one before is read: the edge.
Arrive ==
  /\ port /\ sent # <<>> /\ ~obf
  /\ obf' = TRUE /\ data' = Head(sent) /\ sent' = Tail(sent)
  /\ irr' = (irr \/ (lapic /\ ~entry1.masked /\ entry1.here))
  /\ UNCHANGED <<ip, hp, code, stale, enabled, isr, lapic, entry1, port, scanning, ibf, taken, keys>>
\* The controller takes what was written.  0xF4 goes on to the keyboard,
\* which answers.
Take ==
  /\ ibf
  /\ ibf' = FALSE /\ taken' = "none"
  /\ port' = (port \/ taken = "AE" \/ taken = "F4")
  /\ scanning' = (scanning \/ taken = "F4")
  /\ sent' = IF taken = "F4" THEN Append(sent, "ack") ELSE sent
  /\ UNCHANGED <<ip, hp, code, stale, enabled, isr, lapic, entry1, irr, obf, data, keys>>
Hardware == Strike \/ Arrive \/ Take

-----------------------------------------------------------------------------
\* init, one access of a device a step.
At(here, next) == ip = here /\ ip' = next
MaskPics ==
  /\ At("pics", "svr")
  /\ UNCHANGED <<hp, code, stale, enabled, isr, hardware>>
EnableLapic ==
  /\ At("svr", "low")
  /\ lapic' = TRUE
  /\ UNCHANGED <<hp, code, stale, enabled, isr, entry1, irr, port, scanning, sent, obf, data,
                 ibf, taken, keys>>
\* Register 0x12: unmasked.  Register 0x13: the destination.
LowWord == [entry1 EXCEPT !.masked = FALSE]
HighWord == [entry1 EXCEPT !.here = TRUE]
Redirect ==
  /\ \/ At("low", "high") /\ entry1' = LowWord
     \/ At("high", "wait1") /\ entry1' = HighWord
  /\ UNCHANGED <<hp, code, stale, enabled, isr, lapic, irr, port, scanning, sent, obf, data,
                 ibf, taken, keys>>
\* Wait until the input buffer is empty, then write to it.
WaitInput ==
  /\ At("wait1", "ae") \/ At("wait2", "f4")
  /\ ~ibf
  /\ UNCHANGED <<hp, code, stale, enabled, isr, hardware>>
Write ==
  /\ \/ At("ae", "wait2") /\ taken' = "AE"
     \/ At("f4", "flush") /\ taken' = "F4"
  /\ ibf' = TRUE
  /\ UNCHANGED <<hp, code, stale, enabled, isr, lapic, entry1, irr, port, scanning, sent,
                 obf, data, keys>>
\* while status & 1: read.  The status is read before the byte.
FlushedAlways == TRUE  \* mutant: no loop
Flushed == ~obf
Flush ==
  /\ \/ At("flush", "flushRead") /\ ~Flushed /\ UNCHANGED obf
     \/ At("flush", "sti") /\ Flushed /\ UNCHANGED obf
     \/ At("flushRead", "flush") /\ obf' = FALSE
  /\ UNCHANGED <<hp, code, stale, enabled, isr, lapic, entry1, irr, port, scanning, sent,
                 data, ibf, taken, keys>>
Sti ==
  /\ At("sti", "done")
  /\ enabled' = TRUE
  /\ UNCHANGED <<hp, code, stale, isr, hardware>>
InitStep ==
  /\ hp = "none"
  /\ MaskPics \/ EnableLapic \/ Redirect \/ WaitInput \/ Write \/ Flush \/ Sti

-----------------------------------------------------------------------------
\* keyboard_interrupt_handler.  Interrupts are off while it runs.  Reading
\* the port without a byte in it gives the last one again.
TrapGate == TRUE  \* mutant: disable_interrupts(false)
InterruptGate == FALSE
Deliver ==
  /\ enabled /\ irr /\ ~isr /\ hp = "none"
  /\ irr' = FALSE /\ isr' = TRUE /\ enabled' = InterruptGate
  /\ hp' = "read"
  /\ UNCHANGED <<ip, code, stale, lapic, entry1, port, scanning, sent, obf, data, ibf, taken, keys>>
ReadPort ==
  /\ hp = "read" /\ hp' = "print"
  /\ code' = data /\ obf' = FALSE
  /\ stale' = IF obf THEN stale ELSE stale + 1
  /\ UNCHANGED <<ip, enabled, isr, lapic, entry1, irr, port, scanning, sent, data, ibf,
                 taken, keys>>
EndOfInterruptNever == isr  \* mutant
EndOfInterrupt == FALSE
Eoi ==
  /\ hp = "eoi" /\ hp' = "none"
  /\ isr' = EndOfInterrupt
  /\ enabled' = TRUE  \* iretq
  /\ code' = "none"
  /\ UNCHANGED <<ip, stale, hardware>>
=============================================================================
