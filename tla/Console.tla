------------------------------ MODULE Console -------------------------------
(***************************************************************************)
(* The console of kiss/mod.rs, shared by the main program and the keyboard *)
(* handler without a lock.  The main program prints a string byte by byte  *)
(* and the handler may print in between, never the other way round.        *)
(*                                                                         *)
(* Two &mut to one console are undefined behaviour: the build may keep the *)
(* cursor in registers while it prints a string (cached), or read it for   *)
(* each byte and add to what it read or to what is in memory.              *)
(***************************************************************************)
EXTENDS Naturals, Sequences, FiniteSets

VARIABLES
  cached,  \* the build: registers hold the cursor while a string is printed
  cursor,  \* px and py of GBL_CONSOLE
  reg,     \* px and py as the main program knows them
  out,     \* bytes of the string the main program still has to print
  step,    \* "idle", or what the main program does next with out's head
  cells,   \* cells that hold a character
  hidden,  \* characters drawn over others since the screen was cleared
  raced    \* characters the handler printed while a string was being printed

consoleVars == <<cached, cursor, reg, out, step, cells, hidden, raced>>

Origin == [x |-> 0, y |-> 0]
ConsoleInit ==
  /\ cached \in BOOLEAN
  /\ cursor = Origin /\ reg = Origin
  /\ out = <<>> /\ step = "idle"
  /\ cells = {} /\ hidden = 0 /\ raced = 0

\* set_ascii: the pixels of the characters here; no bounds are checked.
Draw(here) ==
  /\ cells' = cells \cup here
  /\ hidden' = hidden + Cardinality(here \cap cells)

\* print_ascii, after the glyph: \n, \r, or one to the right.
AdvanceReturnOnly(at, c) ==  \* mutant: \n leaves the row as it is
  IF c = "glyph" THEN [at EXCEPT !.x = @ + 1] ELSE [at EXCEPT !.x = 0]
Advance(at, c) ==
  CASE c = "glyph" -> [at EXCEPT !.x = @ + 1]
    [] c = "lf" -> [at EXCEPT !.y = @ + 1]
    [] c = "cr" -> [at EXCEPT !.x = 0]
\* What the cursor may be once from, the main program's copy, is advanced.
Stores(from, c) ==
  {Advance(cursor, c),
   IF c = "lf" THEN [cursor EXCEPT !.y = Advance(from, c).y]
   ELSE [cursor EXCEPT !.x = Advance(from, c).x]}

\* write_str of the main program.
Begin(string) ==
  /\ step = "idle"
  /\ out' = string /\ reg' = cursor /\ step' = "draw"
  /\ UNCHANGED <<cached, cursor, cells, hidden, raced>>
PrintByte ==
  /\ step = "draw" /\ out # <<>>
  /\ reg' = IF cached THEN reg ELSE cursor
  /\ IF Head(out) = "glyph" THEN Draw({reg'}) ELSE UNCHANGED <<cells, hidden>>
  /\ step' = "advance"
  /\ UNCHANGED <<cached, cursor, out, raced>>
AdvanceByte ==
  /\ step = "advance"
  /\ reg' = Advance(reg, Head(out))
  /\ IF cached THEN UNCHANGED cursor ELSE cursor' \in Stores(reg, Head(out))
  /\ out' = Tail(out) /\ step' = "draw"
  /\ UNCHANGED <<cached, cells, hidden, raced>>
EndString ==
  /\ step = "draw" /\ out = <<>>
  /\ cursor' = IF cached THEN reg ELSE cursor
  /\ reg' = Origin /\ step' = "idle"
  /\ UNCHANGED <<cached, out, cells, hidden, raced>>
WriteStep == PrintByte \/ AdvanceByte \/ EndString

\* print! of the handler, nothing between its steps: n letters side by side,
\* one or the name of a key, or a new line.
Word(n) == {[cursor EXCEPT !.x = @ + k] : k \in 0..n - 1}
PrintWord(n) ==
  /\ Draw(Word(n))
  /\ cursor' = [cursor EXCEPT !.x = @ + n]
  /\ raced' = IF step # "idle" THEN raced + n ELSE raced
  /\ UNCHANGED <<cached, reg, out, step>>
PrintNewLine ==
  /\ cursor' = Advance(cursor, "lf")
  /\ UNCHANGED <<cached, reg, out, step, cells, hidden, raced>>

\* clear_screen puts the cursor back, fill_screen does not.
FillScreen ==
  /\ cells' = {} /\ hidden' = 0 /\ raced' = 0
  /\ UNCHANGED <<cached, cursor, reg, out, step>>
ClearScreen ==
  /\ cells' = {} /\ hidden' = 0 /\ raced' = 0
  /\ cursor' = Origin
  /\ UNCHANGED <<cached, reg, out, step>>
=============================================================================
