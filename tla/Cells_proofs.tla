----------------------------- MODULE Cells_proofs ----------------------------
(***************************************************************************)
(* Lemmas about putc, for a screen of any size: what it makes of a screen  *)
(* is a screen, its cursor stays where there is memory, a character moves  *)
(* the cursor by one cell and a backspace takes it back over the end of a  *)
(* row, and the text before the cursor stays what the screen shows.        *)
(***************************************************************************)
EXTENDS Cells, SequenceTheorems, TLAPS

(* The cells of a screen, row by row. *)

(* The cells of row y, and no other, are NUM_COLS * y and those after it. *)
LEMMA Rows ==
  ASSUME NEW y \in Int
  PROVE  /\ NUM_COLS * y \in Int
         /\ NUM_COLS * (y + 1) = NUM_COLS * y + NUM_COLS
         /\ NUM_COLS * (y - 1) = NUM_COLS * y - NUM_COLS
         /\ y >= 0 => NUM_COLS * y >= 0
         /\ y < NUM_ROWS => NUM_COLS * y + NUM_COLS =< NUM_ROWS * NUM_COLS
<1>1. NUM_COLS \in Nat /\ NUM_COLS > 0 /\ NUM_ROWS \in Nat /\ NUM_ROWS > 0
  BY SizeAssumption
<1>2. NUM_COLS * (y + 1) = NUM_COLS * y + NUM_COLS
  BY <1>1
<1>3. NUM_COLS * (y - 1) = NUM_COLS * y - NUM_COLS
  BY <1>1
<1>4. y >= 0 => NUM_COLS * y >= 0
  BY <1>1
<1>5. ASSUME y < NUM_ROWS
      PROVE  NUM_COLS * y + NUM_COLS =< NUM_ROWS * NUM_COLS
  <2>1. PICK d \in Nat : NUM_ROWS = y + 1 + d
    <3>1. NUM_ROWS - y - 1 \in Nat /\ NUM_ROWS = y + 1 + (NUM_ROWS - y - 1)
      BY <1>1, <1>5
    <3> QED
      BY <3>1
  <2>2. NUM_ROWS * NUM_COLS = NUM_COLS * y + NUM_COLS + NUM_COLS * d
    BY <1>1, <2>1
  <2>3. NUM_COLS * d >= 0
    BY <1>1
  <2> QED
    BY <1>1, <2>2, <2>3
<1> QED
  BY <1>1, <1>2, <1>3, <1>4, <1>5

(* Where the cursor may be: x goes below 0 when a line that has wrapped is *)
(* erased, and then there is a row above.                                  *)
CursorOK(x, y) ==
    /\ x \in -(NUM_COLS - 1) .. NUM_COLS - 1
    /\ y \in 0 .. NUM_ROWS - 1
    /\ x < 0 => y > 0

(* Then it is on the screen. *)
LEMMA CursorHasCell ==
  ASSUME NEW x, NEW y, CursorOK(x, y)
  PROVE  NUM_COLS * y + x \in Positions
<1>1. /\ NUM_COLS \in Nat /\ NUM_COLS > 0 /\ NUM_ROWS \in Nat /\ NUM_ROWS > 0
      /\ x \in Int /\ y \in Int /\ y >= 0 /\ y < NUM_ROWS
      /\ x >= -(NUM_COLS - 1) /\ x =< NUM_COLS - 1
  BY SizeAssumption DEF CursorOK
<1>2. NUM_COLS * y + NUM_COLS =< NUM_ROWS * NUM_COLS /\ NUM_COLS * y >= 0
  BY <1>1, Rows
<1>3. y > 0 => NUM_COLS * y >= NUM_COLS
  <2>1. y > 0 => NUM_COLS * (y - 1) >= 0
    BY <1>1, Rows
  <2> QED
    BY <1>1, <2>1, Rows
<1>4. NUM_COLS * y + x >= 0
  BY <1>1, <1>2, <1>3 DEF CursorOK
<1>5. NUM_COLS * y \in Int /\ NUM_ROWS * NUM_COLS \in Int
  BY <1>1, Rows
<1> QED
  BY <1>1, <1>2, <1>4, <1>5 DEF Positions

LEMMA BlankIsScreen ==
  /\ BlankScreen \in ScreenSet
  /\ CursorOK(BlankScreen.x, BlankScreen.y)
  BY SizeAssumption DEF BlankScreen, ScreenSet, Grids, CursorOK

(* C's remainder by NUM_COLS of a column that x - 1 can be. *)
LEMMA RemainderOfColumn ==
  ASSUME NEW a \in Int, NUM_COLS * (-1) =< a, a < NUM_COLS
  PROVE  CRem(a, NUM_COLS) = IF a = -NUM_COLS THEN 0 ELSE a
<1>1. NUM_COLS \in Nat /\ NUM_COLS > 0 /\ NUM_COLS * (-1) = -NUM_COLS
  BY SizeAssumption
<1>2. CASE a >= 0
  <2>1. a % NUM_COLS = a
    BY <1>1, <1>2
  <2> QED
    BY <1>1, <1>2, <2>1 DEF CRem
<1>3. CASE a < 0 /\ a # -NUM_COLS
  <2>1. -a \in 0 .. NUM_COLS - 1
    BY <1>1, <1>3
  <2>2. (-a) % NUM_COLS = -a
    BY <1>1, <2>1
  <2> QED
    BY <1>1, <1>3, <2>2 DEF CRem
<1>4. CASE a = -NUM_COLS
  <2>1. NUM_COLS % NUM_COLS = 0
    BY <1>1
  <2>2. -a = NUM_COLS
    BY <1>1, <1>4
  <2> QED
    BY <1>1, <1>4, <2>1, <2>2 DEF CRem
<1> QED
  BY <1>1, <1>2, <1>3, <1>4

-----------------------------------------------------------------------------
(* What a character makes of a screen. *)

(* The cells of the rows that stay move up by one row. *)
Lifted(cells) ==
    [p \in Positions |->
       IF p + NUM_COLS \in Positions THEN cells[p + NUM_COLS] ELSE BLANK]

LEMMA LiftedIsGrid ==
  ASSUME NEW cells \in Grids
  PROVE  Lifted(cells) \in Grids
  BY DEF Lifted, Grids

(* A printed character fills the cell the cursor is on, the newline none;  *)
(* the cursor goes to column x and row y, and the screen scrolls when that *)
(* is below its last row.                                                  *)
LEMMA PutEffect ==
  ASSUME NEW s \in ScreenSet, NEW c
  PROVE  LET cells == IF c = NEWLINE THEN s.cells ELSE [s.cells EXCEPT ![Pos(s)] = c]
             wraps == c = NEWLINE \/ s.x + 1 >= NUM_COLS
             x == IF wraps THEN 0 ELSE s.x + 1
             y == IF wraps THEN s.y + 1 ELSE s.y
         IN Put(s, c) = IF y < NUM_ROWS
                        THEN [cells |-> cells, x |-> x, y |-> y]
                        ELSE [cells |-> Lifted(cells), x |-> 0, y |-> NUM_ROWS - 1]
<1> DEFINE cells == IF c = NEWLINE THEN s.cells ELSE [s.cells EXCEPT ![Pos(s)] = c]
           wraps == c = NEWLINE \/ s.x + 1 >= NUM_COLS
           x == IF wraps THEN 0 ELSE s.x + 1
           y == IF wraps THEN s.y + 1 ELSE s.y
           drawn == [s EXCEPT !.cells[Pos(s)] = c]
           moved == IF c = NEWLINE THEN NewRow(s) ELSE Advanced(drawn)
<1>1. Put(s, c) = Scrolled(moved)
  BY DEF Put
<1>2. moved = [cells |-> cells, x |-> x, y |-> y]
  <2>1. CASE c = NEWLINE
    BY <2>1 DEF NewRow
  <2>2. CASE c # NEWLINE
    <3>1. drawn = [cells |-> cells, x |-> s.x, y |-> s.y]
      BY <2>2 DEF ScreenSet
    <3> HIDE DEF drawn, cells
    <3>2. Advanced(drawn) = [cells |-> cells, x |-> x, y |-> y]
      BY <2>2, <3>1 DEF Advanced, NewRow
    <3> QED
      BY <2>2, <3>2
  <2> QED
    BY <2>1, <2>2
<1> HIDE DEF moved, cells, x, y
<1>3. Scrolled(moved) = IF y < NUM_ROWS
                        THEN [cells |-> cells, x |-> x, y |-> y]
                        ELSE [cells |-> Lifted(cells), x |-> 0, y |-> NUM_ROWS - 1]
  BY <1>2 DEF Scrolled, Lifted
<1> QED
  BY <1>1, <1>3 DEF x, y, cells

(* The three ways a printed character moves the cursor. *)
LEMMA PutCharEffect ==
  ASSUME NEW s \in ScreenSet, NEW c, c # NEWLINE, s.y < NUM_ROWS
  PROVE  LET cells == [s.cells EXCEPT ![Pos(s)] = c]
         IN /\ s.x + 1 < NUM_COLS
                 => Put(s, c) = [cells |-> cells, x |-> s.x + 1, y |-> s.y]
            /\ s.x + 1 >= NUM_COLS /\ s.y + 1 < NUM_ROWS
                 => Put(s, c) = [cells |-> cells, x |-> 0, y |-> s.y + 1]
            /\ s.x + 1 >= NUM_COLS /\ s.y + 1 >= NUM_ROWS
                 => Put(s, c) = [cells |-> Lifted(cells), x |-> 0, y |-> NUM_ROWS - 1]
<1>1. s.x \in Int /\ s.y \in Int /\ NUM_COLS \in Nat /\ NUM_ROWS \in Nat
  BY SizeAssumption DEF ScreenSet
<1> QED
  BY <1>1, PutEffect

(* putc makes a screen of a screen, wherever its cursor is. *)
LEMMA PutType ==
  ASSUME NEW s \in ScreenSet, NEW c \in Chars \cup {NEWLINE}
  PROVE  Put(s, c) \in ScreenSet
<1> DEFINE cells == IF c = NEWLINE THEN s.cells ELSE [s.cells EXCEPT ![Pos(s)] = c]
<1>1. s.x \in Int /\ s.y \in Int /\ s.cells \in Grids /\ NUM_ROWS - 1 \in Int
  BY SizeAssumption DEF ScreenSet
<1>2. cells \in Grids
  BY <1>1 DEF Grids
<1>3. Lifted(cells) \in Grids
  BY <1>2, LiftedIsGrid
<1> HIDE DEF cells
<1>4. \/ \E x \in Int, y \in Int : Put(s, c) = [cells |-> cells, x |-> x, y |-> y]
      \/ Put(s, c) = [cells |-> Lifted(cells), x |-> 0, y |-> NUM_ROWS - 1]
  BY <1>1, PutEffect DEF cells
<1> QED
  BY <1>1, <1>2, <1>3, <1>4 DEF ScreenSet

LEMMA ErasedType ==
  ASSUME NEW s \in ScreenSet, NEW emptied
  PROVE  Erased(s, emptied) \in ScreenSet
<1>1. s.x \in Int /\ s.y \in Int /\ s.cells \in Grids
  BY DEF ScreenSet
<1>2. ASSUME NEW a \in Int, NEW b \in Nat \ {0} PROVE CRem(a, b) \in Int
  BY DEF CRem
<1>3. /\ CRem(s.x - 1, NUM_COLS) \in Int /\ CRem(s.y, NUM_ROWS) \in Int
      /\ s.y - 1 \in Int
  <2>1. s.x - 1 \in Int /\ s.y - 1 \in Int
    BY <1>1
  <2> QED
    BY <1>1, <1>2, <2>1, SizeAssumption, Zenon
<1>4. [s.cells EXCEPT ![Pos(s) - 1] = BLANK] \in Grids
  BY <1>1 DEF Grids
<1> QED
  BY <1>3, <1>4 DEF Erased, ScreenSet

LEMMA PutCType ==
  ASSUME NEW s \in ScreenSet, NEW c \in Chars \cup {NEWLINE, BACKSPACE}, NEW emptied
  PROVE  PutC(s, c, emptied) \in ScreenSet
  BY PutType, ErasedType DEF PutC

(* A character leaves the cursor where there is memory. *)
LEMMA PutKeepsCursor ==
  ASSUME NEW s \in ScreenSet, NEW c, CursorOK(s.x, s.y)
  PROVE  CursorOK(Put(s, c).x, Put(s, c).y)
<1>1. /\ NUM_COLS \in Nat /\ NUM_COLS > 0 /\ NUM_ROWS \in Nat /\ NUM_ROWS > 0
      /\ s.x \in Int /\ s.y \in Int
  BY SizeAssumption DEF ScreenSet
<1> DEFINE x == Put(s, c).x
           y == Put(s, c).y
<1>2. \/ x = 0 /\ y = NUM_ROWS - 1
      \/ x = 0 /\ y = s.y + 1 /\ y < NUM_ROWS
      \/ x = s.x + 1 /\ y = s.y /\ x < NUM_COLS
  <2> DEFINE cells == IF c = NEWLINE THEN s.cells ELSE [s.cells EXCEPT ![Pos(s)] = c]
             wraps == c = NEWLINE \/ s.x + 1 >= NUM_COLS
             col == IF wraps THEN 0 ELSE s.x + 1
             row == IF wraps THEN s.y + 1 ELSE s.y
  <2>1. s.y < NUM_ROWS
    BY <1>1 DEF CursorOK
  <2>2. Put(s, c) = IF row < NUM_ROWS
                    THEN [cells |-> cells, x |-> col, y |-> row]
                    ELSE [cells |-> Lifted(cells), x |-> 0, y |-> NUM_ROWS - 1]
    BY PutEffect
  <2> HIDE DEF cells, col, row
  <2>3. /\ x = IF row < NUM_ROWS THEN col ELSE 0
        /\ y = IF row < NUM_ROWS THEN row ELSE NUM_ROWS - 1
    BY <2>2
  <2> USE DEF col, row
  <2> QED
    BY <1>1, <2>1, <2>3
<1> HIDE DEF x, y
<1>3. CursorOK(x, y)
  BY <1>1, <1>2 DEF CursorOK
<1> QED
  BY <1>3 DEF x, y

(* Where a backspace takes the cursor. *)
LEMMA ErasedEffect ==
  ASSUME NEW s \in ScreenSet, NEW emptied \in BOOLEAN, CursorOK(s.x, s.y),
         ~(s.x = 0 /\ s.y = 0)
  PROVE  LET x == IF s.x - 1 = -NUM_COLS THEN 0 ELSE s.x - 1
         IN Erased(s, emptied)
              = [cells |-> [s.cells EXCEPT ![Pos(s) - 1] = BLANK],
                 x |-> x, y |-> IF x = 0 /\ emptied THEN s.y - 1 ELSE s.y]
<1>1. /\ NUM_COLS \in Nat /\ NUM_COLS > 0 /\ NUM_ROWS \in Nat /\ NUM_ROWS > 0
      /\ s.x \in Int /\ s.y \in Int /\ s.y >= 0 /\ s.y < NUM_ROWS
      /\ s.x - 1 >= -NUM_COLS /\ s.x - 1 < NUM_COLS
  BY SizeAssumption DEF ScreenSet, CursorOK
<1>2. CRem(s.x - 1, NUM_COLS) = IF s.x - 1 = -NUM_COLS THEN 0 ELSE s.x - 1
  BY <1>1, RemainderOfColumn
<1>3. CRem(s.y, NUM_ROWS) = s.y
  BY <1>1 DEF CRem
<1> QED
  BY <1>2, <1>3 DEF Erased

(* So does a backspace, unless it empties a line at column 1 of the first  *)
(* row: the code then goes to the row above, which that row has not.       *)
LEMMA ErasedKeepsCursor ==
  ASSUME NEW s \in ScreenSet, NEW emptied \in BOOLEAN, CursorOK(s.x, s.y),
         ~(emptied /\ s.x = 1 /\ s.y = 0)
  PROVE  CursorOK(Erased(s, emptied).x, Erased(s, emptied).y)
<1>1. /\ NUM_COLS \in Nat /\ NUM_COLS > 0 /\ NUM_ROWS \in Nat /\ NUM_ROWS > 0
      /\ s.x \in Int /\ s.y \in Int
  BY SizeAssumption DEF ScreenSet
<1>2. CASE s.x = 0 /\ s.y = 0
  BY <1>2 DEF Erased
<1>3. CASE ~(s.x = 0 /\ s.y = 0)
  <2> DEFINE x == Erased(s, emptied).x
             y == Erased(s, emptied).y
  <2>1. /\ x = IF s.x - 1 = -NUM_COLS THEN 0 ELSE s.x - 1
        /\ y = IF x = 0 /\ emptied THEN s.y - 1 ELSE s.y
    <3> DEFINE col == IF s.x - 1 = -NUM_COLS THEN 0 ELSE s.x - 1
               row == IF col = 0 /\ emptied THEN s.y - 1 ELSE s.y
               cells == [s.cells EXCEPT ![Pos(s) - 1] = BLANK]
    <3>1. Erased(s, emptied) = [cells |-> cells, x |-> col, y |-> row]
      BY <1>3, ErasedEffect
    <3> HIDE DEF cells, col, row
    <3>2. x = col /\ y = row
      BY <3>1
    <3> QED
      BY <3>2 DEF col, row
  <2> HIDE DEF x, y
  <2>2. CursorOK(x, y)
    BY <1>1, <1>3, <2>1 DEF CursorOK
  <2> QED
    BY <2>2 DEF x, y
<1> QED
  BY <1>2, <1>3

(* clear_help may leave the cursor of a long line beyond the last column   *)
(* of row 0; the next character or backspace takes it to a column.         *)
LEMMA LongColumn ==
  ASSUME NEW s \in ScreenSet, s.x >= NUM_COLS, s.y = 0, NEW c, NEW emptied \in BOOLEAN,
         ~(emptied /\ CRem(s.x - 1, NUM_COLS) = 0)
  PROVE  /\ CursorOK(Put(s, c).x, Put(s, c).y)
         /\ CursorOK(Erased(s, emptied).x, Erased(s, emptied).y)
<1>1. /\ NUM_COLS \in Nat /\ NUM_COLS > 0 /\ NUM_ROWS \in Nat /\ NUM_ROWS > 0
      /\ s.x \in Int
  BY SizeAssumption DEF ScreenSet
<1>2. CursorOK(Put(s, c).x, Put(s, c).y)
  <2> DEFINE cells == IF c = NEWLINE THEN s.cells ELSE [s.cells EXCEPT ![Pos(s)] = c]
             wraps == c = NEWLINE \/ s.x + 1 >= NUM_COLS
             x == IF wraps THEN 0 ELSE s.x + 1
             y == IF wraps THEN s.y + 1 ELSE s.y
  <2>1. Put(s, c) = IF y < NUM_ROWS THEN [cells |-> cells, x |-> x, y |-> y]
                    ELSE [cells |-> Lifted(cells), x |-> 0, y |-> NUM_ROWS - 1]
    BY PutEffect
  <2>2. x = 0 /\ y = 1
    BY <1>1
  <2> HIDE DEF cells, x, y
  <2>3. Put(s, c).x = 0 /\ Put(s, c).y = IF 1 < NUM_ROWS THEN 1 ELSE NUM_ROWS - 1
    BY <2>1, <2>2
  <2>4. CursorOK(0, IF 1 < NUM_ROWS THEN 1 ELSE NUM_ROWS - 1)
    BY <1>1 DEF CursorOK
  <2> QED
    BY <2>3, <2>4
<1>3. CursorOK(Erased(s, emptied).x, Erased(s, emptied).y)
  <2>1. PICK x \in Int : x = CRem(s.x - 1, NUM_COLS) /\ x \in 0 .. NUM_COLS - 1
    <3>1. s.x - 1 >= 0 /\ s.x - 1 \in Int
      BY <1>1
    <3>2. (s.x - 1) % NUM_COLS \in 0 .. NUM_COLS - 1
      BY <1>1, <3>1
    <3> QED
      BY <3>1, <3>2 DEF CRem
  <2>2. CRem(s.y, NUM_ROWS) = 0
    BY <1>1 DEF CRem
  <2>3. s.x # 0 /\ ~(x = 0 /\ emptied)
    BY <1>1, <2>1
  <2>4. Erased(s, emptied).x = x /\ Erased(s, emptied).y = 0
    BY <2>1, <2>2, <2>3 DEF Erased
  <2>5. CursorOK(x, 0)
    BY <1>1, <2>1 DEF CursorOK
  <2> QED
    BY <2>4, <2>5
<1> QED
  BY <1>2, <1>3

-----------------------------------------------------------------------------
(* A line that is typed. *)

(* The line that a backspace shortens is emptied if it is one character.   *)
LEMMA ShorterFacts ==
  ASSUME NEW S, NEW s \in Seq(S), s # << >>
  PROVE  LET short == SubSeq(s, 1, Len(s) - 1)
         IN /\ short \in Seq(S) /\ Len(short) = Len(s) - 1
            /\ \A i \in 1 .. Len(s) - 1 : short[i] = s[i]
            /\ short = << >> <=> Len(s) = 1
<1> DEFINE n == Len(s) - 1
           short == SubSeq(s, 1, n)
<1>1. n \in Nat /\ \A i \in 1 .. n : s[i] \in S
  OBVIOUS
<1> HIDE DEF n
<1>2. /\ short \in Seq(S)
      /\ Len(short) = IF 1 <= n THEN n - 1 + 1 ELSE 0
      /\ \A i \in 1 .. n - 1 + 1 : short[i] = s[1 + i - 1]
  BY <1>1, SubSeqProperties
<1> HIDE DEF short
<1>3. Len(short) = n
  BY <1>1, <1>2
<1>4. \A i \in 1 .. n : short[i] = s[i]
  BY <1>1, <1>2
<1>5. short = << >> <=> n = 0
  BY <1>2, <1>3, EmptySeq
<1>6. n = 0 <=> Len(s) = 1
  BY <1>1 DEF n
<1> QED
  BY <1>2, <1>3, <1>4, <1>5, <1>6 DEF n, short

(* The text ends at the cursor, and starts at most m columns into row r;   *)
(* it takes the rest of that row and some of the next.  When it is erased  *)
(* over the end of row r the cursor counts back from the row below.        *)
ShowsLine(s, text, r, m) ==
    LET start == Pos(s) - Len(text) IN
    /\ s.y \in {r, r + 1}
    /\ start \in NUM_COLS * r .. NUM_COLS * r + m
    /\ \A i \in 1 .. Len(text) : s.cells[start + i - 1] = text[i]

(* A newline, and an empty line below it. *)
LEMMA NewlineShows ==
  ASSUME NEW s \in ScreenSet, s.y \in 0 .. NUM_ROWS - 1, NEW m \in Nat
  PROVE  \E r \in 0 .. NUM_ROWS - 1 : ShowsLine(Put(s, NEWLINE), << >>, r, m)
<1>1. /\ NUM_COLS \in Nat /\ NUM_COLS > 0 /\ NUM_ROWS \in Nat /\ NUM_ROWS > 0
      /\ s.y \in 0 .. NUM_ROWS - 1
  BY SizeAssumption DEF CursorOK
<1>2. PICK y \in 0 .. NUM_ROWS - 1 :
        \E cells : Put(s, NEWLINE) = [cells |-> cells, x |-> 0, y |-> y]
  <2>1. CASE s.y + 1 < NUM_ROWS
    <3>1. Put(s, NEWLINE) = [cells |-> s.cells, x |-> 0, y |-> s.y + 1]
      BY <1>1, <2>1, PutEffect
    <3>2. s.y + 1 \in 0 .. NUM_ROWS - 1
      BY <1>1, <2>1
    <3> QED
      BY <3>1, <3>2
  <2>2. CASE ~(s.y + 1 < NUM_ROWS)
    <3>1. Put(s, NEWLINE) = [cells |-> Lifted(s.cells), x |-> 0, y |-> NUM_ROWS - 1]
      BY <1>1, <2>2, PutEffect
    <3>2. NUM_ROWS - 1 \in 0 .. NUM_ROWS - 1
      BY <1>1
    <3> QED
      BY <3>1, <3>2
  <2> QED
    BY <2>1, <2>2
<1>3. NUM_COLS * y \in Int /\ y \in Int
  BY <1>1, Rows
<1>4. Pos(Put(s, NEWLINE)) - Len(<< >>) = NUM_COLS * y
  <2>1. Pos(Put(s, NEWLINE)) = NUM_COLS * y + 0
    BY <1>2 DEF Pos
  <2> QED
    BY <1>3, <2>1
<1>5. ShowsLine(Put(s, NEWLINE), << >>, y, m)
  BY <1>2, <1>3, <1>4 DEF ShowsLine
<1> QED
  BY <1>5

(* A character is added to the text where the cursor is.  At the end of    *)
(* the last row the screen scrolls, and the text stays on it: it starts no *)
(* more than a row above the cursor.                                       *)
LEMMA PutShows ==
  ASSUME NEW s \in ScreenSet, CursorOK(s.x, s.y), NEW text \in Seq(Chars),
         NEW c \in Chars, NEW m \in Nat, NEW r \in 0 .. NUM_ROWS - 1,
         ShowsLine(s, text, r, m),
         NUM_ROWS > 1, m + Len(text) + 1 < 2 * NUM_COLS
  PROVE  \E q \in 0 .. NUM_ROWS - 1 : ShowsLine(Put(s, c), Append(text, c), q, m)
<1>1. /\ NUM_COLS \in Nat /\ NUM_COLS > 0 /\ NUM_ROWS \in Nat /\ NUM_ROWS > 1
      /\ s.x \in Int /\ s.y \in Int /\ s.cells \in Grids /\ c # NEWLINE
  BY SizeAssumption, CharAssumption DEF ScreenSet
<1>2. PICK x \in Int, y \in Int, p \in Int, n \in Nat, row \in Int, start \in Int :
        /\ x = s.x /\ y = s.y /\ p = Pos(s) /\ n = Len(text) /\ row = NUM_COLS * r
        /\ start = Pos(s) - Len(text)
  <2>1. Pos(s) \in Int /\ NUM_COLS * r \in Int /\ Len(text) \in Nat
    BY <1>1, Rows DEF Pos
  <2>2. Pos(s) - Len(text) \in Int
    BY <2>1
  <2> QED
    BY <1>1, <2>1, <2>2, Zenon
<1>3. /\ r >= 0 /\ r < NUM_ROWS /\ r \in Int
      /\ row >= 0 /\ NUM_COLS * (r + 1) = row + NUM_COLS
      /\ NUM_COLS * (r - 1) = row - NUM_COLS
  BY <1>1, <1>2, Rows
<1>4. p \in Positions /\ x =< NUM_COLS - 1
  <2>1. NUM_COLS * s.y + s.x \in Positions
    BY CursorHasCell
  <2> QED
    BY <1>1, <1>2, <2>1 DEF Pos, CursorOK
<1>5. /\ y = r \/ y = r + 1
      /\ start >= row /\ start =< row + m /\ start + n = p
  <2>1. s.y \in {r, r + 1} /\ start \in row .. row + m
    BY <1>2 DEF ShowsLine
  <2>2. start = p - n
    BY <1>2
  <2> QED
    BY <1>2, <2>1, <2>2
<1>6. p = NUM_COLS * y + x
  BY <1>2 DEF Pos
<1>7. /\ y = r => p = row + x
      /\ y = r + 1 => p = row + NUM_COLS + x
  BY <1>2, <1>3, <1>6
<1>8. /\ Append(text, c) \in Seq(Chars) /\ Len(Append(text, c)) = n + 1
      /\ \A i \in 1 .. n : Append(text, c)[i] = text[i]
      /\ Append(text, c)[n + 1] = c
  BY <1>2, AppendProperties
<1>9. \A i \in 1 .. n : s.cells[start + i - 1] = text[i]
  BY <1>2 DEF ShowsLine
<1>10. s.y < NUM_ROWS
  BY <1>1 DEF CursorOK
<1>11. PICK grid : grid = [s.cells EXCEPT ![p] = c]
  OBVIOUS
<1>12. ASSUME NEW i \in 1 .. n + 1
       PROVE  /\ start + i - 1 \in Positions
              /\ grid[start + i - 1] = Append(text, c)[i]
  <2>1. start + i - 1 \in Int /\ start + i - 1 >= 0 /\ start + i - 1 =< p
    BY <1>3, <1>5
  <2>2. NUM_ROWS * NUM_COLS \in Int /\ p \in 0 .. NUM_ROWS * NUM_COLS - 1
    BY <1>1, <1>4 DEF Positions
  <2>3. start + i - 1 \in Positions
    BY <2>1, <2>2 DEF Positions
  <2>4. CASE i = n + 1
    <3>1. start + i - 1 = p
      BY <1>5, <2>4
    <3> QED
      BY <1>1, <1>8, <1>11, <2>3, <2>4, <3>1 DEF Grids
  <2>5. CASE i # n + 1
    <3>1. i \in 1 .. n /\ start + i - 1 # p
      BY <1>5, <2>5
    <3>2. grid[start + i - 1] = s.cells[start + i - 1]
      BY <1>1, <1>11, <2>3, <3>1 DEF Grids
    <3> QED
      BY <1>9, <1>8, <2>3, <3>1, <3>2
  <2> QED
    BY <2>4, <2>5
<1>13. ASSUME NEW q \in 0 .. NUM_ROWS - 1, NEW top \in Int,
              NEW cells, NEW u \in Int, NEW v \in {q, q + 1},
              Put(s, c) = [cells |-> cells, x |-> u, y |-> v],
              NUM_COLS * v + u = top + n + 1,
              top >= NUM_COLS * q, top =< NUM_COLS * q + m,
              \A i \in 1 .. n + 1 : cells[top + i - 1] = Append(text, c)[i]
       PROVE  ShowsLine(Put(s, c), Append(text, c), q, m)
  <2>1. Pos(Put(s, c)) = top + n + 1
    BY <1>13 DEF Pos
  <2>2. Pos(Put(s, c)) - Len(Append(text, c)) = top
    BY <1>8, <2>1
  <2>3. NUM_COLS * q \in Int
    BY <1>1, Rows
  <2>4. top \in NUM_COLS * q .. NUM_COLS * q + m
    BY <1>13, <2>3
  <2>5. Put(s, c).y = v /\ Put(s, c).cells = cells
    BY <1>13
  <2> QED
    BY <1>8, <1>13, <2>2, <2>4, <2>5 DEF ShowsLine
<1>14. CASE x + 1 < NUM_COLS
  <2>1. Put(s, c) = [cells |-> grid, x |-> x + 1, y |-> y]
    <3>1. s.x + 1 < NUM_COLS
      BY <1>2, <1>14
    <3> QED
      BY <1>1, <1>2, <1>11, <1>10, <3>1, PutCharEffect
  <2>2. NUM_COLS * y + (x + 1) = start + n + 1
    <3>1. NUM_COLS * y \in Int
      BY <1>1, Rows
    <3> QED
      BY <1>5, <1>6, <3>1
  <2>3. ShowsLine(Put(s, c), Append(text, c), r, m)
    <3>1. y \in {r, r + 1} /\ x + 1 \in Int
      BY <1>5
    <3>2. start >= NUM_COLS * r /\ start =< NUM_COLS * r + m
      BY <1>2, <1>5
    <3> QED
      BY <1>12, <1>13, <2>1, <2>2, <3>1, <3>2
  <2> QED
    BY <2>3
<1>15. CASE ~(x + 1 < NUM_COLS)
  <2>1. x = NUM_COLS - 1 /\ y = r
    <3>1. x = NUM_COLS - 1
      BY <1>1, <1>4, <1>15
    <3>2. m + n + 1 < NUM_COLS + NUM_COLS
      BY <1>1, <1>2
    <3> QED
      BY <1>1, <1>3, <1>5, <1>7, <3>1, <3>2
  <2>2. p + 1 = row + NUM_COLS
    BY <1>1, <1>7, <2>1
  <2>3. CASE r + 1 < NUM_ROWS
    <3>1. Put(s, c) = [cells |-> grid, x |-> 0, y |-> r + 1]
      <4>1. s.x + 1 >= NUM_COLS /\ s.y + 1 < NUM_ROWS /\ s.y + 1 = r + 1
        BY <1>1, <1>2, <2>1, <2>3
      <4> QED
        BY <1>1, <1>2, <1>11, <1>10, <4>1, PutCharEffect
    <3>2. NUM_COLS * (r + 1) + 0 = start + n + 1
      BY <1>1, <1>3, <1>5, <2>2
    <3>3. ShowsLine(Put(s, c), Append(text, c), r, m)
      <4>1. start >= NUM_COLS * r /\ start =< NUM_COLS * r + m
        BY <1>2, <1>5
      <4>2. r + 1 \in {r, r + 1} /\ 0 \in Int
        OBVIOUS
      <4> QED
        BY <1>12, <1>13, <3>1, <3>2, <4>1, <4>2, Zenon
    <3> QED
      BY <3>3
  <2>4. CASE ~(r + 1 < NUM_ROWS)
    <3>1. /\ r = NUM_ROWS - 1 /\ r - 1 \in 0 .. NUM_ROWS - 1
          /\ row - NUM_COLS >= 0
      <4>1. r = NUM_ROWS - 1 /\ r - 1 \in 0 .. NUM_ROWS - 1 /\ r - 1 \in Int
        BY <1>1, <1>3, <2>4
      <4>2. NUM_COLS * (r - 1) >= 0
        BY <1>1, <4>1, Rows
      <4> QED
        BY <1>3, <4>1, <4>2
    <3>2. Put(s, c) = [cells |-> Lifted(grid), x |-> 0, y |-> r]
      <4>1. s.x + 1 >= NUM_COLS /\ s.y + 1 >= NUM_ROWS
        BY <1>1, <1>2, <2>1, <3>1
      <4> QED
        BY <1>1, <1>2, <1>11, <1>10, <3>1, <4>1, PutCharEffect
    <3>3. PICK top \in Int : top = start - NUM_COLS
      BY <1>1
    <3>4. NUM_COLS * r + 0 = top + n + 1
      <4>1. row + 0 = top + n + 1
        BY <1>1, <1>5, <2>2, <3>3
      <4> QED
        BY <1>2, <4>1
    <3>5. top >= NUM_COLS * (r - 1) /\ top =< NUM_COLS * (r - 1) + m
      BY <1>1, <1>3, <1>5, <3>3
    <3>6. ASSUME NEW i \in 1 .. n + 1
          PROVE  Lifted(grid)[top + i - 1] = Append(text, c)[i]
      <4>1. PICK j \in Int : j = top + i - 1
        OBVIOUS
      <4>2. j + NUM_COLS = start + i - 1
        BY <1>1, <3>3, <4>1
      <4>3. j + NUM_COLS \in Positions
        BY <1>12, <4>2
      <4>4. j >= 0
        BY <1>1, <1>3, <1>5, <3>1, <3>3, <4>1
      <4>5. j \in Positions
        <5>1. NUM_ROWS * NUM_COLS \in Int
          BY <1>1
        <5> QED
          BY <1>1, <4>3, <4>4, <5>1 DEF Positions
      <4>6. Lifted(grid)[j] = grid[j + NUM_COLS]
        BY <4>3, <4>5 DEF Lifted
      <4> QED
        BY <1>12, <4>1, <4>2, <4>6
    <3>7. r \in {r - 1, r - 1 + 1} /\ 0 \in Int
      BY <1>3
    <3>8. ShowsLine(Put(s, c), Append(text, c), r - 1, m)
      BY <1>13, <3>1, <3>2, <3>4, <3>5, <3>6, <3>7, Zenon
    <3> QED
      BY <3>1, <3>8
  <2> QED
    BY <2>3, <2>4
<1> QED
  BY <1>14, <1>15

(* The last character of the text is erased, over the end of row r when    *)
(* the cursor is at column 0 or below; if it was the first of that row,    *)
(* the text is empty and the cursor moves up to its row.                   *)
LEMMA ErasedShowsSameRow ==
  ASSUME NEW s \in ScreenSet, CursorOK(s.x, s.y), NEW text \in Seq(Chars),
         NEW m \in Nat, NEW r \in 0 .. NUM_ROWS - 1, ShowsLine(s, text, r, m),
         text # << >>, NEW emptied \in BOOLEAN, emptied <=> Len(text) = 1,
         ~(emptied /\ s.x = 1)
  PROVE  \E q \in 0 .. NUM_ROWS - 1 :
            ShowsLine(Erased(s, emptied), SubSeq(text, 1, Len(text) - 1), q, m)
<1> DEFINE short == SubSeq(text, 1, Len(text) - 1)
<1>1. /\ NUM_COLS \in Nat /\ NUM_COLS > 0 /\ NUM_ROWS \in Nat
      /\ s.x \in Int /\ s.y \in Int /\ s.cells \in Grids
  BY SizeAssumption DEF ScreenSet
<1>2. PICK x \in Int, y \in Int, p \in Int, n \in Nat, row \in Int, start \in Int :
        /\ x = s.x /\ y = s.y /\ p = Pos(s) /\ n = Len(text) /\ row = NUM_COLS * r
        /\ start = Pos(s) - Len(text)
  <2>1. Pos(s) \in Int /\ NUM_COLS * r \in Int /\ Len(text) \in Nat
    BY <1>1, Rows DEF Pos
  <2>2. Pos(s) - Len(text) \in Int
    BY <2>1
  <2> QED
    BY <1>1, <2>1, <2>2, Zenon
<1>3. /\ r >= 0 /\ r < NUM_ROWS /\ r \in Int
      /\ row >= 0 /\ NUM_COLS * (r + 1) = row + NUM_COLS
  BY <1>1, <1>2, Rows
<1>4. x >= -(NUM_COLS - 1)
  BY <1>1, <1>2 DEF CursorOK
<1>5. /\ y = r \/ y = r + 1
      /\ start >= row /\ start =< row + m /\ start + n = p
  <2>1. s.y \in {r, r + 1} /\ start \in row .. row + m
    BY <1>2 DEF ShowsLine
  <2>2. start = p - n
    BY <1>2
  <2> QED
    BY <1>2, <2>1, <2>2
<1>6. \A i \in 1 .. n : s.cells[start + i - 1] = text[i]
  BY <1>2 DEF ShowsLine
<1>7. p = NUM_COLS * y + x
  BY <1>2 DEF Pos
<1>8. /\ y = r => p = row + x
      /\ y = r + 1 => p = row + NUM_COLS + x
  BY <1>2, <1>3, <1>7
<1>9. /\ n >= 1 /\ short \in Seq(Chars) /\ Len(short) = n - 1
      /\ \A i \in 1 .. n - 1 : short[i] = text[i]
  <2>1. n # 0
    BY <1>2, EmptySeq
  <2>2. /\ short \in Seq(Chars) /\ Len(short) = Len(text) - 1
        /\ \A i \in 1 .. Len(text) - 1 : short[i] = text[i]
    BY ShorterFacts
  <2> QED
    BY <1>2, <2>1, <2>2
<1> HIDE DEF short
<1>10. PICK grid : grid = [s.cells EXCEPT ![p - 1] = BLANK]
  OBVIOUS
<1>11. ASSUME NEW i \in 1 .. n - 1
       PROVE  grid[start + i - 1] = short[i]
  <2>1. i \in 1 .. n /\ start + i - 1 # p - 1
    BY <1>5
  <2>2. grid[start + i - 1] = s.cells[start + i - 1]
    BY <1>1, <1>10, <2>1 DEF Grids
  <2> QED
    BY <1>6, <1>9, <2>1, <2>2
<1>12. PICK col \in Int, below \in Int :
         /\ Erased(s, emptied) = [cells |-> grid, x |-> col, y |-> below]
         /\ col = IF x - 1 = -NUM_COLS THEN 0 ELSE x - 1
         /\ below = IF col = 0 /\ emptied THEN y - 1 ELSE y
  <2>1. ~(s.x = 0 /\ s.y = 0)
    <3>1. ~(x = 0 /\ y = 0)
      BY <1>3, <1>5, <1>8, <1>9
    <3> QED
      BY <1>2, <3>1
  <2> DEFINE col == IF x - 1 = -NUM_COLS THEN 0 ELSE x - 1
             below == IF col = 0 /\ emptied THEN y - 1 ELSE y
  <2>2. Erased(s, emptied) = [cells |-> grid, x |-> col, y |-> below]
    BY <1>2, <1>10, <2>1, ErasedEffect
  <2>3. col \in Int /\ below \in Int
    BY <1>1
  <2> QED
    BY <2>2, <2>3
<1>13. below \in {r, r + 1} /\ NUM_COLS * below + col = start + (n - 1)
  <2>1. CASE x - 1 = -NUM_COLS
    <3>1. y = r + 1 /\ start = row /\ n = 1
      BY <1>1, <1>5, <1>8, <1>9, <2>1
    <3>2. col = 0 /\ below = r
      BY <1>2, <1>3, <1>12, <2>1, <3>1
    <3> QED
      BY <1>2, <3>1, <3>2
  <2>2. CASE x - 1 # -NUM_COLS
    <3>1. col = x - 1 /\ below = y
      BY <1>2, <1>12, <2>2
    <3>2. NUM_COLS * y + (x - 1) = p - 1
      <4>1. NUM_COLS * y \in Int
        BY <1>1, Rows
      <4> QED
        BY <1>7, <4>1
    <3> QED
      BY <1>5, <3>1, <3>2
  <2> QED
    BY <2>1, <2>2
<1>14. ShowsLine(Erased(s, emptied), short, r, m)
  <2>1. Pos(Erased(s, emptied)) = start + (n - 1)
    BY <1>12, <1>13 DEF Pos
  <2>2. Pos(Erased(s, emptied)) - Len(short) = start
    BY <1>9, <2>1
  <2>3. start \in NUM_COLS * r .. NUM_COLS * r + m
    <3>1. start \in row .. row + m
      BY <1>5
    <3> QED
      BY <1>2, <3>1
  <2>4. Erased(s, emptied).y = below /\ Erased(s, emptied).cells = grid
    BY <1>12
  <2> QED
    BY <1>9, <1>11, <1>13, <2>2, <2>3, <2>4 DEF ShowsLine
<1> QED
  BY <1>14 DEF short

(* And if it was in column 0, the cursor goes to the row above it.         *)
LEMMA ErasedShows ==
  ASSUME NEW s \in ScreenSet, CursorOK(s.x, s.y), NEW text \in Seq(Chars),
         NEW m \in Nat, NEW r \in 0 .. NUM_ROWS - 1, ShowsLine(s, text, r, m),
         text # << >>, NEW emptied \in BOOLEAN, emptied <=> Len(text) = 1,
         ~(emptied /\ s.x = 1 /\ s.y = 0)
  PROVE  \E q \in 0 .. NUM_ROWS - 1 :
            ShowsLine(Erased(s, emptied), SubSeq(text, 1, Len(text) - 1), q, m)
<1>1. CASE ~(emptied /\ s.x = 1)
  BY <1>1, ErasedShowsSameRow
<1>2. CASE emptied /\ s.x = 1
  <2> DEFINE short == SubSeq(text, 1, Len(text) - 1)
  <2>1. short = << >> /\ Len(short) = 0
    BY <1>2, ShorterFacts, EmptySeq
  <2> HIDE DEF short
  <2>2. /\ NUM_COLS \in Nat /\ NUM_COLS > 0 /\ NUM_ROWS \in Nat
        /\ s.y \in Int /\ s.y - 1 \in 0 .. NUM_ROWS - 1
    BY <1>2, SizeAssumption DEF CursorOK
  <2>3. PICK above \in Int : above = s.y - 1 /\ above \in 0 .. NUM_ROWS - 1
    BY <2>2
  <2>4. \E cells : Erased(s, emptied) = [cells |-> cells, x |-> 0, y |-> above]
    <3>1. ~(s.x = 0 /\ s.y = 0) /\ s.x - 1 = 0 /\ 0 # -NUM_COLS
      BY <1>2, <2>2
    <3>2. Erased(s, emptied)
            = [cells |-> [s.cells EXCEPT ![Pos(s) - 1] = BLANK], x |-> 0, y |-> s.y - 1]
      BY <1>2, <3>1, ErasedEffect
    <3> QED
      BY <2>3, <3>2
  <2>5. NUM_COLS * above \in Int
    BY <2>2, Rows
  <2>6. Pos(Erased(s, emptied)) - Len(short) = NUM_COLS * above
    <3>1. Pos(Erased(s, emptied)) = NUM_COLS * above + 0
      BY <2>4 DEF Pos
    <3> QED
      BY <2>1, <2>5, <3>1
  <2>7. ShowsLine(Erased(s, emptied), short, above, m)
    BY <2>1, <2>3, <2>4, <2>5, <2>6 DEF ShowsLine
  <2> QED
    BY <2>3, <2>7 DEF short
<1> QED
  BY <1>1, <1>2

(* A text that ends at the cursor is on the screen. *)
LEMMA ShownOnScreen ==
  ASSUME NEW s \in ScreenSet, CursorOK(s.x, s.y), NEW text \in Seq(Chars),
         NEW m \in Nat, NEW r \in 0 .. NUM_ROWS - 1, ShowsLine(s, text, r, m)
  PROVE  \A i \in 1 .. Len(text) :
            /\ Pos(s) - Len(text) + i - 1 \in Positions
            /\ s.cells[Pos(s) - Len(text) + i - 1] = text[i]
<1>1. NUM_COLS \in Nat /\ NUM_ROWS \in Nat /\ s.x \in Int /\ s.y \in Int
  BY SizeAssumption DEF ScreenSet
<1>2. PICK p \in Int, n \in Nat, row \in Int, start \in Int :
        /\ p = Pos(s) /\ n = Len(text) /\ row = NUM_COLS * r /\ row >= 0
        /\ start = Pos(s) - Len(text)
  <2>1. Pos(s) \in Int /\ NUM_COLS * r \in Int /\ Len(text) \in Nat
    BY <1>1, Rows DEF Pos
  <2>2. Pos(s) - Len(text) \in Int /\ NUM_COLS * r >= 0
    BY <2>1, Rows
  <2> QED
    BY <1>1, <2>1, <2>2, Zenon
<1>3. start >= row /\ start + n = p
  <2>1. start \in row .. row + m
    BY <1>2 DEF ShowsLine
  <2>2. start = p - n
    BY <1>2
  <2> QED
    BY <1>2, <2>1, <2>2
<1>4. \A i \in 1 .. n : s.cells[start + i - 1] = text[i]
  BY <1>2 DEF ShowsLine
<1>5. p \in Positions
  <2>1. NUM_COLS * s.y + s.x \in Positions
    BY CursorHasCell
  <2> QED
    BY <1>2, <2>1 DEF Pos
<1>6. ASSUME NEW i \in 1 .. n PROVE start + i - 1 \in Positions
  <2>1. start + i - 1 \in Int /\ start + i - 1 >= 0 /\ start + i - 1 =< p
    <3>1. row >= 0
      BY <1>2
    <3> QED
      BY <1>3, <3>1
  <2>2. NUM_ROWS * NUM_COLS \in Int
    BY <1>1
  <2> QED
    BY <1>5, <2>1, <2>2 DEF Positions
<1> QED
  BY <1>2, <1>4, <1>6
=============================================================================
