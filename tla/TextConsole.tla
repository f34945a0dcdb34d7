------------------------------ MODULE TextConsole -----------------------------
(***************************************************************************)
(* The text screen and the line editor of the x86 build: kprint_char and   *)
(* its twins in src/kernel.c, vga_putchar in boot/arch_x86/vga_text.asm,   *)
(* sys_read_line in syscalls_x86.asm and the tables of keyboard.asm.       *)
(* Attributes are left out.  con.text is everything shown since the last   *)
(* clear and not rubbed out: it is not part of the program, the screen is  *)
(* held against it.                                                        *)
(***************************************************************************)
EXTENDS Integers, Sequences, SequencesExt

CONSTANTS
  VGA_W, VGA_H,
  LINE_MAX,          \* the size of the caller's buffer
  MaxText            \* bound: characters shown before the screen is cleared

ASSUME ConsoleAssumption ==
  /\ {VGA_W, VGA_H, LINE_MAX, MaxText} \subseteq Nat \ {0}
  /\ VGA_W > 1

VARIABLE con

NL == "nl"
Blank == " "
Glyph == {"a", "D", Blank}
ConCells == (0..VGA_H - 1) \X (0..VGA_W - 1)

clear_screen ==
  [screen |-> [p \in ConCells |-> Blank], row |-> 0, col |-> 0, text |-> <<>>,
   reading |-> FALSE, shift |-> FALSE, buf |-> <<>>, start |-> 0, slipped |-> FALSE]

ConsoleInit == con = clear_screen

BadConScroll(c) ==          \* the lines are not moved up
  IF c.row >= VGA_H THEN [c EXCEPT !.row = VGA_H - 1] ELSE c

ConScroll(c) ==
  IF c.row >= VGA_H
  THEN [c EXCEPT !.screen = [p \in ConCells |-> IF p[1] < VGA_H - 1 THEN @[<<p[1] + 1, p[2]>>]
                                                ELSE Blank],
                 !.row = VGA_H - 1]
  ELSE c

kprint_char(c, g) ==
  LET said == [c EXCEPT !.text = Append(@, g)]
  IN  ConScroll(
        IF g = NL THEN [said EXCEPT !.row = @ + 1, !.col = 0]
        ELSE LET put == [said EXCEPT !.screen[<<c.row, c.col>>] = g, !.col = @ + 1]
             IN  IF put.col >= VGA_W THEN [put EXCEPT !.col = 0, !.row = @ + 1] ELSE put)

kprint_char_color(c, g) == kprint_char(c, g)
putchar(c, g) == kprint_char(c, g)

(* vga_putchar knows the backspace besides: it rubs out the cell before    *)
(* the cursor, and at the left edge it does nothing.                       *)
vga_putchar(c, g) == kprint_char(c, g)
VgaBackspace(c) ==
  IF c.col = 0 THEN c
  ELSE [c EXCEPT !.col = @ - 1, !.screen[<<c.row, c.col - 1>>] = Blank, !.text = Front(@)]

(* Output of the kernel or of a command.                                   *)
ConPrint(g) ==
  /\ ~con.reading /\ Len(con.text) < MaxText
  /\ con' \in {kprint_char(con, g), kprint_char_color(con, g), putchar(con, g)}

ConClear ==
  /\ ~con.reading
  /\ con' = clear_screen

sys_read_line ==
  /\ ~con.reading /\ Len(con.text) < MaxText
  /\ con' = [con EXCEPT !.reading = TRUE, !.buf = <<>>, !.start = Len(con.text),
                        !.slipped = FALSE]

(* The entries of the two tables for the A key and the space bar.  The     *)
(* fourth row of asc_unshift is one longer than the keys it stands for, so *)
(* 0x39 is a 0 there; asc_shift's first row is two shorter.                *)
scancode_to_ascii(sc, shift) ==
  CASE sc = "A"     -> IF shift THEN "D" ELSE "a"
    [] sc = "space" -> IF shift THEN Blank ELSE "none"

ConShift(down) ==
  /\ con.reading
  /\ con' = [con EXCEPT !.shift = down]

BadConType(sc) ==           \* a key the buffer has no room for is echoed too
  LET g == scancode_to_ascii(sc, con.shift)
  IN  /\ con.reading /\ g # "none" /\ Len(con.text) < MaxText
      /\ con' = [vga_putchar(con, g) EXCEPT !.buf = IF Len(@) < LINE_MAX - 1 THEN Append(@, g) ELSE @]

ConType(sc) ==
  LET g == scancode_to_ascii(sc, con.shift)
  IN  /\ con.reading
      /\ g # "none"
      /\ Len(con.buf) < LINE_MAX - 1
      /\ Len(con.text) < MaxText
      /\ con' = [vga_putchar(con, g) EXCEPT !.buf = Append(@, g)]

(* Back, a blank, back.                                                    *)
ConBackspace ==
  /\ con.reading /\ con.buf # <<>>
  /\ con' = [VgaBackspace(vga_putchar(VgaBackspace(con), Blank))
               EXCEPT !.buf = Front(@), !.slipped = @ \/ con.col = 0]

ConEnter ==
  /\ con.reading
  /\ con' = [vga_putchar(con, NL) EXCEPT !.reading = FALSE, !.buf = <<>>, !.start = 0,
                                         !.slipped = FALSE]

ConsoleNext ==
  \/ \E g \in Glyph \cup {NL} : ConPrint(g)
  \/ ConClear \/ sys_read_line
  \/ \E down \in BOOLEAN : ConShift(down)
  \/ \E sc \in {"A", "space"} : ConType(sc)
  \/ ConBackspace \/ ConEnter
-------------------------------------------------------------------------------
(* The rows a text takes when a row ends at its newline or when it is full.*)
TextRows(text) ==
  LET rows[n \in 0..Len(text)] ==
        IF n = 0 THEN << <<>> >>
        ELSE LET before == rows[n - 1]
                 row    == IF text[n] = NL THEN Last(before) ELSE Append(Last(before), text[n])
             IN  IF text[n] = NL \/ Len(row) = VGA_W THEN Append(Front(before), row) \o << <<>> >>
                 ELSE Append(Front(before), row)
  IN  rows[Len(text)]

(* The screen is the last VGA_H rows of what was written, and the cursor   *)
(* is where the next character belongs, whatever mixture of wraps,         *)
(* newlines, scrolls and backspaces led there.                             *)
ScreenIsTail ==
  LET rows  == TextRows(con.text)
      first == IF Len(rows) > VGA_H THEN Len(rows) - VGA_H ELSE 0
      Shown(p) == LET row == first + p[1] + 1
                  IN  IF row <= Len(rows) /\ p[2] < Len(rows[row]) THEN rows[row][p[2] + 1]
                      ELSE Blank
  IN  /\ con.screen = [p \in ConCells |-> Shown(p)]
      /\ con.row = Len(rows) - first - 1
      /\ con.col = Len(Last(rows))

(* What is echoed is what the shell will read, unless a backspace was      *)
(* taken at the left edge of a wrapped line: sys_read_line drops the       *)
(* character while vga_putchar keeps it on the row above.                  *)
EchoInStep ==
  con.reading =>
    LET echo == SubSeq(con.text, con.start + 1, Len(con.text))
    IN  IF con.slipped THEN Len(echo) > Len(con.buf) ELSE echo = con.buf
===============================================================================
