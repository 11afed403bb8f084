-------------------------------- MODULE Cells -------------------------------
(***************************************************************************)
(* One text screen and what putc (lib.c) does to it: NUM_ROWS rows of      *)
(* NUM_COLS cells in row-major order, and the position of the cursor.      *)
(*                                                                         *)
(* The attribute byte of a cell is always ATTRIB and is left out; the NULs *)
(* that scrolling leaves in the last row show as blanks and are BLANK.     *)
(***************************************************************************)
EXTENDS Integers, Sequences

CONSTANTS NUM_ROWS,      \* rows of a screen (25)
          NUM_COLS,      \* and columns (80)
          Chars,         \* the printable characters
          BLANK,         \* an empty cell
          NEWLINE,       \* '\n' and '\r'
          BACKSPACE      \* 0x08

ASSUME SizeAssumption == NUM_ROWS \in Nat \ {0} /\ NUM_COLS \in Nat \ {0}
ASSUME CharAssumption ==
    /\ NEWLINE \notin Chars /\ BACKSPACE \notin Chars /\ NEWLINE # BACKSPACE
    /\ BLANK \notin Chars

Positions == 0 .. NUM_ROWS * NUM_COLS - 1
Grids == [Positions -> Chars \cup {BLANK}]
ScreenSet == [cells : Grids, x : Int, y : Int]

BlankScreen == [cells |-> [p \in Positions |-> BLANK], x |-> 0, y |-> 0]

(* The cell a screen's cursor is on, row by row; x may be negative. *)
Pos(s) == NUM_COLS * s.y + s.x

(* C's remainder has the sign of the dividend. *)
CRem(a, b) == IF a >= 0 THEN a % b ELSE -((-a) % b)

(* Mutated form: the rows move up but the cursor stays below the screen. *)
ScrolledKeepingRow(s) ==
    IF s.y < NUM_ROWS THEN s
    ELSE [s EXCEPT !.cells = [p \in Positions |->
                                IF p + NUM_COLS \in Positions THEN s.cells[p + NUM_COLS]
                                ELSE BLANK],
                   !.x = 0]

(* Below the last row, everything moves up by one row. *)
Scrolled(s) ==
    IF s.y < NUM_ROWS THEN s
    ELSE [cells |-> [p \in Positions |->
                       IF p + NUM_COLS \in Positions THEN s.cells[p + NUM_COLS]
                       ELSE BLANK],
          x |-> 0, y |-> NUM_ROWS - 1]

NewRow(s) == [cells |-> s.cells, x |-> 0, y |-> s.y + 1]

(* The cursor after a character: the next column, or the next row. *)
Advanced(s) ==
    IF s.x + 1 >= NUM_COLS THEN NewRow(s) ELSE [s EXCEPT !.x = @ + 1]

(* A newline, or a character written where the cursor is. *)
Put(s, c) ==
    Scrolled(IF c = NEWLINE THEN NewRow(s)
             ELSE Advanced([s EXCEPT !.cells[Pos(s)] = c]))

(* Mutated form: the cell is blanked and the cursor left behind it. *)
ErasedInPlace(s, emptied) ==
    IF s.x = 0 /\ s.y = 0 THEN s
    ELSE [s EXCEPT !.cells[Pos(s) - 1] = BLANK]

(* Backspace: the cursor moves back and blanks the cell it comes to.  x    *)
(* goes below 0 on a line that has wrapped; in column 0 of a line that is  *)
(* now empty (buf_idx = 0) the code moves to the row above.                *)
Erased(s, emptied) ==
    IF s.x = 0 /\ s.y = 0 THEN s
    ELSE LET x == CRem(s.x - 1, NUM_COLS)
         IN [cells |-> [s.cells EXCEPT ![Pos(s) - 1] = BLANK],
             x |-> x,
             y |-> IF x = 0 /\ emptied THEN s.y - 1 ELSE CRem(s.y, NUM_ROWS)]

(* What putc does to the screen it writes to. *)
PutC(s, c, emptied) == IF c = BACKSPACE THEN Erased(s, emptied) ELSE Put(s, c)
=============================================================================
