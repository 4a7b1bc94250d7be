-------------------------------- MODULE Vga --------------------------------
(***************************************************************************)
(* The text display of src/pintos/src/devices/vga.c.  A display is a       *)
(* record [fb, cx, cy]: the characters on the screen (the attribute byte   *)
(* is always gray on black) and the cursor, which the hardware cursor      *)
(* follows at the end of every call.  Characters are their ASCII codes.    *)
(***************************************************************************)
EXTENDS Integers, Sequences, SequencesExt

CONSTANTS COL_CNT, ROW_CNT      \* 80 and 25 in the code

ASSUME ScreenAssumption == COL_CNT \in Nat \ {0} /\ ROW_CNT \in Nat \ {0}

Space == 32

\* A row of spaces.
clear_row == [x \in 0..COL_CNT - 1 |-> Space]

\* The display cls() leaves: every row cleared, the cursor in the corner.
cls == [fb |-> [y \in 0..ROW_CNT - 1 |-> clear_row], cx |-> 0, cy |-> 0]

\* The cursor goes to the first column of the next row; on the last row the
\* screen scrolls instead.
newline(v) ==
  IF v.cy + 1 >= ROW_CNT
  THEN [fb |-> [y \in 0..ROW_CNT - 1 |->
                   IF y = ROW_CNT - 1 THEN clear_row ELSE v.fb[y + 1]],
        cx |-> 0, cy |-> ROW_CNT - 1]
  ELSE [v EXCEPT !.cx = 0, !.cy = @ + 1]

\* Moves the cursor to column x of its row, or to the next row past the end.
Advance(v, x) == IF x >= COL_CNT THEN newline(v) ELSE [v EXCEPT !.cx = x]

\* Writes character c: new-line, form feed, backspace, carriage return, tab,
\* bell (which beeps and leaves the display alone) or an ordinary one.
vga_putc(v, c) ==
  CASE c = 10 -> newline(v)
    [] c = 12 -> cls
    [] c = 8  -> [v EXCEPT !.cx = IF @ > 0 THEN @ - 1 ELSE @]
    [] c = 13 -> [v EXCEPT !.cx = 0]
    [] c = 9  -> Advance(v, ((v.cx + 8) \div 8) * 8)
    [] c = 7  -> v
    [] OTHER  -> Advance([v EXCEPT !.fb[v.cy][v.cx] = c], v.cx + 1)

\* The hardware cursor: a position in reading order, as vga_putc leaves it and as
\* init reads it back.
move_cursor(v) == v.cx + COL_CNT * v.cy

find_cursor(cp) == [cx |-> cp % COL_CNT, cy |-> cp \div COL_CNT]

\* The display as init finds it: the framebuffer and the cursor the loader left.
init(fb, cp) == [fb |-> fb, cx |-> find_cursor(cp).cx, cy |-> find_cursor(cp).cy]
=============================================================================
