---------------------------- MODULE Console_proofs --------------------------
(***************************************************************************)
(* Proofs about Console, for any number of terminals, any size of the      *)
(* screen and any lines: page VIDEO and the programs' video page are       *)
(* mapped to the screen of the scheduled terminal, and the console gives   *)
(* every terminal a screen of its own (Screens), whose cursor stays on it  *)
(* and on which the line that is typed is read.                            *)
(*                                                                         *)
(* Type correctness assumes nothing.  The mappings and the refinement      *)
(* assume that nobody types into the few time slices in which the shells   *)
(* start (SettledDown); the cursor, that no line of one character is       *)
(* erased in the top left corner (Careful); the line typed, both, and that *)
(* a prompt and a line fit in two rows (Fits).  The timer may tick between *)
(* any two steps at which interrupts are enabled.                          *)
(***************************************************************************)
EXTENDS Console, Cells_proofs

SettledDown == "TypesAtBoot" \notin Habits

(* The two mappings follow from the scheduled and the visible terminal,    *)
(* except in the handler of a key that is echoed; and what keyboardputc    *)
(* restores is the mapping of the terminal it interrupted.                 *)
MapsOwnScreen ==
    /\ userPage = PageOf(scheduled_term, currentTerminal)
    /\ echo.term # scheduled_term => kernelPage = PageOf(scheduled_term, currentTerminal)
    /\ echo = NoEcho => keyboardPutCFlag = 0
    /\ echo # NoEcho => /\ keyboardPutCFlag = 1 /\ echo.term \in Terms
                        /\ echo.oldAddr = PageOf(echo.term, currentTerminal)

(* The terminals start in turn, and a key is echoed when all have.         *)
BootOrder ==
    /\ IF doneInstantiating THEN started = Terms ELSE started = 1 .. scheduled_term
    /\ echo # NoEcho => doneInstantiating
    /\ redraw # NoRedraw /\ ~doneInstantiating =>
          redraw.term = scheduled_term /\ ~redraw.sti /\ ~termReadFlag[currentTerminal]

(* The inductive invariant, with the types. *)
CInv == MapsOwnScreen /\ BootOrder

-----------------------------------------------------------------------------
(* Terminals and their pages. *)

LEMMA FirstTerm == 1 \in Terms
  BY ConsoleAssumption DEF Terms

LEMMA NextTermInTerms ==
  ASSUME scheduled_term \in Terms
  PROVE  NextTerm \in Terms
<1>1. scheduled_term \in Nat /\ NUM_TERMS \in Nat \ {0} /\ scheduled_term =< NUM_TERMS
  BY ConsoleAssumption DEF Terms
<1>2. CASE scheduled_term = NUM_TERMS
  BY <1>1, <1>2 DEF NextTerm, Terms
<1>3. CASE scheduled_term < NUM_TERMS
  BY <1>1, <1>3 DEF NextTerm, Terms
<1> QED
  BY <1>1, <1>2, <1>3

(* The next terminal has started when all have. *)
LEMMA NextTermStarted ==
  ASSUME scheduled_term \in Terms, started = 1 .. scheduled_term
  PROVE  IF NextTerm \in started THEN started = Terms
         ELSE started \cup {NextTerm} = 1 .. NextTerm
<1>1. scheduled_term \in Nat \ {0} /\ NUM_TERMS \in Nat \ {0} /\ scheduled_term =< NUM_TERMS
  BY ConsoleAssumption DEF Terms
<1>2. CASE scheduled_term = NUM_TERMS
  <2>1. NextTerm = 1
    BY <1>1, <1>2 DEF NextTerm
  <2> QED
    BY <1>1, <1>2, <2>1 DEF Terms
<1>3. CASE scheduled_term < NUM_TERMS
  <2>1. NextTerm = scheduled_term + 1
    BY <1>1, <1>3 DEF NextTerm
  <2> QED
    BY <1>1, <1>3, <2>1
<1> QED
  BY <1>1, <1>2, <1>3

(* Two terminals never share a page. *)
LEMMA PagesDiffer ==
  ASSUME NEW v \in Terms, NEW t \in Terms, NEW u \in Terms
  PROVE  /\ PageOf(t, v) \in Pages
         /\ PageOf(t, v) = PageOf(u, v) => t = u
         /\ PageOf(v, v) = VIDEO
  BY ConsoleAssumption DEF PageOf, Pages, VIDEO, Terms

(* The lines are the sequences of keys that are no longer than LineMax. *)
LEMMA LinesAreSequences ==
  /\ \A text \in Lines : text \in Seq(Keys) /\ Len(text) =< LineMax
  /\ \A text \in Seq(Keys) : Len(text) =< LineMax => text \in Lines
<1>1. ASSUME NEW text \in Lines PROVE text \in Seq(Keys) /\ Len(text) =< LineMax
  <2>1. PICK n \in 0 .. LineMax : text \in [1 .. n -> Keys]
    BY <1>1 DEF Lines
  <2>2. n \in Nat /\ n =< LineMax
    BY ConsoleAssumption
  <2>3. text \in Seq(Keys)
    BY <2>1, <2>2, SeqDef
  <2>4. DOMAIN text = 1 .. n
    BY <2>1
  <2> QED
    BY <2>2, <2>3, <2>4, LenProperties
<1>2. ASSUME NEW text \in Seq(Keys), Len(text) =< LineMax PROVE text \in Lines
  <2>1. Len(text) \in 0 .. LineMax /\ text \in [1 .. Len(text) -> Keys]
    BY <1>2, LenProperties, ConsoleAssumption
  <2> QED
    BY <2>1 DEF Lines
<1> QED
  BY <1>1, <1>2

(* What a key makes of a line is a line. *)
LEMMA LineTypes ==
  ASSUME NEW old \in Lines
  PROVE  /\ << >> \in Lines
         /\ Len(old) \in 0 .. LineMax
         /\ \A c \in Keys : Len(old) < LineMax => Append(old, c) \in Lines
         /\ old # << >> => SubSeq(old, 1, Len(old) - 1) \in Lines
<1>1. /\ old \in Seq(Keys) /\ Len(old) =< LineMax /\ Len(old) \in Nat
      /\ LineMax \in Nat /\ DOMAIN old = 1 .. Len(old)
  BY LinesAreSequences, LenProperties, ConsoleAssumption
<1>2. << >> \in Lines
  <2>1. << >> \in Seq(Keys) /\ Len(<< >>) =< LineMax
    BY <1>1, EmptySeq
  <2> QED
    BY <2>1, LinesAreSequences, Zenon
<1>3. ASSUME NEW c \in Keys, Len(old) < LineMax
      PROVE  Append(old, c) \in Lines
  <2>1. Append(old, c) \in Seq(Keys) /\ Len(Append(old, c)) =< LineMax
    BY <1>1, <1>3, AppendProperties
  <2> QED
    BY <2>1, LinesAreSequences, Zenon
<1>4. ASSUME old # << >>
      PROVE  SubSeq(old, 1, Len(old) - 1) \in Lines
  <2>1. Len(old) - 1 \in Int /\ \A i \in 1 .. Len(old) - 1 : old[i] \in Keys
    BY <1>1, ElementOfSeq
  <2>2. /\ SubSeq(old, 1, Len(old) - 1) \in Seq(Keys)
        /\ Len(SubSeq(old, 1, Len(old) - 1)) =< LineMax
    BY <1>1, <2>1, SubSeqProperties
  <2> QED
    BY <2>2, LinesAreSequences, Zenon
<1> QED
  BY <1>1, <1>2, <1>3, <1>4

-----------------------------------------------------------------------------
(* Types. *)

(* putc, on any page and for any terminal. *)
LEMMA PutcType ==
  ASSUME TypeOK, NEW page \in Pages, NEW u \in Terms,
         NEW c \in Chars \cup {NEWLINE, BACKSPACE}, NEW emptied,
         Putc(page, u, c, emptied)
  PROVE  /\ video' \in [Pages -> Grids]
         /\ termScreenx' \in [Terms -> Int] /\ termScreeny' \in [Terms -> Int]
<1> DEFINE t == IF c = BACKSPACE THEN currentTerminal ELSE u
           s == PutC(Screen(page, t), c, emptied)
<1>1. t \in Terms /\ Screen(page, t) \in ScreenSet
  BY DEF TypeOK, Screen, ScreenSet
<1>2. s \in ScreenSet
  BY <1>1, PutCType
<1>3. /\ video' = [video EXCEPT ![page] = s.cells]
      /\ termScreenx' = [termScreenx EXCEPT ![t] = s.x]
      /\ termScreeny' = [termScreeny EXCEPT ![t] = s.y]
  BY DEF Putc
<1> HIDE DEF s, t
<1> QED
  BY <1>1, <1>2, <1>3 DEF TypeOK, ScreenSet

(* A key or a character of a redrawn line, echoed or not. *)
LEMMA EchoType ==
  ASSUME TypeOK, NEW c \in Chars \cup {NEWLINE, BACKSPACE}, NEW emptied \in BOOLEAN,
         EchoBegins(c, emptied)
  PROVE  /\ video' \in [Pages -> Grids] /\ kernelPage' \in Pages
         /\ termScreenx' \in [Terms -> Int] /\ termScreeny' \in [Terms -> Int]
         /\ keyboardPutCFlag' \in {0, 1}
         /\ echo' \in [term : Terms, oldAddr : Pages, emptied : BOOLEAN] \cup {NoEcho}
<1>1. CASE termReadFlag[currentTerminal]
  <2>1. /\ Putc(VIDEO, currentTerminal, c, emptied)
        /\ kernelPage' = VIDEO /\ keyboardPutCFlag' = 1
        /\ echo' = [term |-> scheduled_term, oldAddr |-> kernelPage, emptied |-> emptied]
    BY <1>1 DEF EchoBegins
  <2>2. VIDEO \in Pages /\ currentTerminal \in Terms
    BY PagesDiffer DEF TypeOK
  <2>3. /\ video' \in [Pages -> Grids]
        /\ termScreenx' \in [Terms -> Int] /\ termScreeny' \in [Terms -> Int]
    BY <2>1, <2>2, PutcType
  <2> QED
    BY <2>1, <2>2, <2>3 DEF TypeOK
<1>2. CASE ~termReadFlag[currentTerminal]
  BY <1>2 DEF EchoBegins, TypeOK, cursors
<1> QED
  BY <1>1, <1>2

LEMMA TypedType ==
  ASSUME TypeOK, NEW c \in Chars \cup {NEWLINE, BACKSPACE}, NEW text \in Lines,
         NEW emptied \in BOOLEAN, Typed(c, text, emptied),
         enter_flag' \in [Terms -> BOOLEAN], unseen' \in [Terms -> SUBSET Causes],
         output' \in Nat
  PROVE  TypeOK'
<1>1. line' \in [Terms -> Lines]
  BY DEF Typed, TypeOK
<1>2. /\ video' \in [Pages -> Grids] /\ kernelPage' \in Pages
      /\ termScreenx' \in [Terms -> Int] /\ termScreeny' \in [Terms -> Int]
      /\ keyboardPutCFlag' \in {0, 1}
      /\ echo' \in [term : Terms, oldAddr : Pages, emptied : BOOLEAN] \cup {NoEcho}
  BY EchoType DEF Typed
<1> QED
  BY <1>1, <1>2 DEF Typed, TypeOK, boot

LEMMA TypeInit ==
  Init => TypeOK
<1>1. << >> \in Lines
  <2>1. << >> \in Seq(Keys) /\ Len(<< >>) =< LineMax
    BY EmptySeq, ConsoleAssumption
  <2> QED
    BY <2>1, LinesAreSequences, Zenon
<1>2. BlankScreen.cells \in Grids /\ VIDEO \in Pages
  BY BlankIsScreen, FirstTerm, PagesDiffer DEF ScreenSet
<1> QED
  BY <1>1, <1>2, FirstTerm DEF Init, TypeOK

LEMMA TypeNext ==
  ASSUME TypeOK, [Next]_vars
  PROVE  TypeOK'
<1>1. ASSUME NEW c \in Chars \cup {NEWLINE, BACKSPACE}, Write(c) PROVE TypeOK'
  <2>1. PICK emptied : Putc(kernelPage, PutTerminal, c, emptied)
    BY <1>1 DEF Write
  <2>2. PutTerminal \in Terms /\ kernelPage \in Pages
    BY DEF TypeOK, PutTerminal
  <2>3. /\ video' \in [Pages -> Grids]
        /\ termScreenx' \in [Terms -> Int] /\ termScreeny' \in [Terms -> Int]
    BY <2>1, <2>2, PutcType
  <2>4. Hidden(scheduled_term) \in [Terms -> SUBSET Causes]
    BY DEF TypeOK, Hidden, Causes
  <2>5. "misplaced" \in Causes /\ output' \in Nat
    BY <1>1 DEF Write, TypeOK, Causes
  <2>6. PICK cursor \in Terms :
           unseen' = IF cursor = scheduled_term THEN Hidden(scheduled_term)
                     ELSE [Hidden(scheduled_term) EXCEPT ![cursor] = @ \cup {"misplaced"}]
    BY <1>1, <2>2 DEF Write, TypeOK
  <2>7. unseen' \in [Terms -> SUBSET Causes]
    BY <2>4, <2>5, <2>6
  <2> QED
    BY <1>1, <2>3, <2>5, <2>7 DEF Write, TypeOK, mapping, boot, reading
<1>2. ASSUME NEW p \in DrawCells, NEW c \in Chars, Draw(p, c) PROVE TypeOK'
  <2>1. [video EXCEPT ![userPage][p] = c] \in [Pages -> Grids]
    BY DEF TypeOK, Grids
  <2>2. output' \in Nat /\ unseen' \in [Terms -> SUBSET Causes]
    BY <1>2 DEF Draw, TypeOK, Hidden, Causes
  <2> QED
    BY <1>2, <2>1, <2>2 DEF Draw, TypeOK, mapping, cursors, boot, reading
<1>3. CASE Vidmap
  <2>1. userPage' \in Pages
    BY <1>3, PagesDiffer DEF Vidmap, TypeOK
  <2> QED
    BY <1>3, <2>1 DEF Vidmap, TypeOK, cursors, boot, reading, typing
<1>4. CASE ReadStarts
  BY <1>4 DEF ReadStarts, TypeOK, Hidden, Causes, mapping, cursors, boot
<1>5. CASE ReadEnds
  BY <1>5 DEF ReadEnds, TypeOK, mapping, cursors, boot, typing
<1>6. ASSUME NEW c \in Keys, KeyChar(c) PROVE TypeOK'
  <2>1. Append(line[currentTerminal], c) \in Lines
    BY <1>6, LineTypes DEF KeyChar, TypeOK
  <2>2. /\ enter_flag' \in [Terms -> BOOLEAN] /\ unseen' \in [Terms -> SUBSET Causes]
        /\ output' \in Nat /\ c \in Chars
    BY <1>6, ConsoleAssumption DEF KeyChar, TypeOK, Causes
  <2>3. (line[currentTerminal] = << >>) \in BOOLEAN
    OBVIOUS
  <2> QED
    BY <1>6, <2>1, <2>2, <2>3, TypedType DEF KeyChar
<1>7. CASE KeyBackspace
  <2>1. SubSeq(line[currentTerminal], 1, Len(line[currentTerminal]) - 1) \in Lines
    BY <1>7, LineTypes DEF KeyBackspace, TypeOK
  <2>2. /\ enter_flag' \in [Terms -> BOOLEAN] /\ unseen' \in [Terms -> SUBSET Causes]
        /\ output' \in Nat
    BY <1>7 DEF KeyBackspace, TypeOK
  <2>3. (Len(line[currentTerminal]) = 1) \in BOOLEAN
    OBVIOUS
  <2> QED
    BY <1>7, <2>1, <2>2, <2>3, TypedType DEF KeyBackspace
<1>8. CASE KeyEnter
  <2>1. << >> \in Lines
    BY LineTypes DEF TypeOK
  <2>2. /\ enter_flag' \in [Terms -> BOOLEAN] /\ unseen' \in [Terms -> SUBSET Causes]
        /\ output' \in Nat
    BY <1>8 DEF KeyEnter, TypeOK
  <2> QED
    BY <1>8, <2>1, <2>2, TypedType DEF KeyEnter
<1>9. CASE ClearScreen
  <2>1. BlankScreen.cells \in Grids /\ VIDEO \in Pages /\ currentTerminal \in Terms
    BY BlankIsScreen, PagesDiffer DEF ScreenSet, TypeOK
  <2>2. video' \in [Pages -> Grids]
    BY <1>9, <2>1 DEF ClearScreen, TypeOK
  <2>3. /\ termScreenx' \in [Terms -> Int] /\ termScreeny' \in [Terms -> Int]
        /\ unseen' \in [Terms -> SUBSET Causes]
    BY <1>9, <2>1 DEF ClearScreen, TypeOK, Causes
  <2>4. redraw' \in [term : Terms, next : 1 .. LineMax + 1, sti : BOOLEAN]
    BY <1>9, ConsoleAssumption DEF ClearScreen, TypeOK
  <2> QED
    BY <1>9, <2>2, <2>3, <2>4 DEF ClearScreen, TypeOK, mapping, boot, reading
<1>19. CASE RedrawNext
  <2> DEFINE text == line[currentTerminal]
             n == redraw.next
  <2>1. /\ redraw \in [term : Terms, next : 1 .. LineMax + 1, sti : BOOLEAN]
        /\ text \in Seq(Keys) /\ Len(text) \in 0 .. LineMax /\ n =< Len(text)
        /\ EchoBegins(text[n], FALSE)
        /\ redraw' = [redraw EXCEPT !.next = @ + 1,
                                   !.sti = @ \/ termReadFlag[currentTerminal]]
    BY <1>19, LinesAreSequences, LineTypes DEF RedrawNext, TypeOK
  <2> HIDE DEF text
  <2>2. n \in 1 .. Len(text) /\ n + 1 \in 1 .. LineMax + 1
    BY <2>1, ConsoleAssumption
  <2>3. text[n] \in Chars
    BY <2>1, <2>2, ElementOfSeq, ConsoleAssumption
  <2>4. /\ video' \in [Pages -> Grids] /\ kernelPage' \in Pages
        /\ termScreenx' \in [Terms -> Int] /\ termScreeny' \in [Terms -> Int]
        /\ keyboardPutCFlag' \in {0, 1}
        /\ echo' \in [term : Terms, oldAddr : Pages, emptied : BOOLEAN] \cup {NoEcho}
    BY <2>1, <2>3, EchoType
  <2>5. redraw' \in [term : Terms, next : 1 .. LineMax + 1, sti : BOOLEAN]
    <3>1. PICK k \in 1 .. LineMax + 1 : k = n + 1
      BY <2>2
    <3>2. PICK b \in BOOLEAN : b = (redraw.sti \/ termReadFlag[currentTerminal])
      OBVIOUS
    <3>3. redraw' = [redraw EXCEPT !.next = k, !.sti = b]
      BY <2>1, <3>1, <3>2
    <3> HIDE DEF n
    <3> QED
      BY <2>1, <3>3
  <2>6. unseen' \in [Terms -> SUBSET Causes]
    BY <1>19 DEF RedrawNext, TypeOK, Causes
  <2> QED
    BY <1>19, <2>4, <2>5, <2>6 DEF RedrawNext, TypeOK, boot, reading
<1>20. CASE RedrawEnds
  <2>1. Len(line[currentTerminal]) \in Int
    BY LineTypes, ConsoleAssumption DEF TypeOK
  <2>2. termScreenx' \in [Terms -> Int] /\ termScreeny' \in [Terms -> Int]
    BY <1>20, <2>1 DEF RedrawEnds, TypeOK
  <2> QED
    BY <1>20, <2>2 DEF RedrawEnds, TypeOK, mapping, boot, reading, typing
<1>10. CASE EchoEnds
  BY <1>10 DEF EchoEnds, TypeOK, cursors, boot, reading, typing
<1>11. ASSUME NEW next \in Terms PROVE Swapped(next) \in [Pages -> Grids]
  <2>1. VIDEO \in Pages /\ next \in Pages /\ currentTerminal \in Pages
    BY <1>11, PagesDiffer DEF TypeOK, Pages, Terms
  <2> QED
    BY <2>1 DEF Swapped, TypeOK
<1>12. \A t \in Terms, v \in Terms : PageOf(t, v) \in Pages
  BY PagesDiffer
<1>13. ASSUME NEW next \in Terms, SwitchTo(next) PROVE TypeOK'
  <2>1. video' \in [Pages -> Grids]
    BY <1>11, <1>13 DEF SwitchTo
  <2> QED
    BY <1>12, <1>13, <2>1
    DEF SwitchTo, set_paging_scheduling, TypeOK, cursors, boot, reading, typing
<1>14. NextTerm \in Terms
  BY NextTermInTerms DEF TypeOK
<1>15. CASE TickStarts
  <2>1. video' \in [Pages -> Grids]
    <3>1. Swapped(NextTerm) \in [Pages -> Grids]
      BY <1>11, <1>14
    <3>2. BlankScreen.cells \in Grids
      BY BlankIsScreen DEF ScreenSet
    <3>3. video' = [Swapped(NextTerm) EXCEPT ![VIDEO] = BlankScreen.cells]
      BY <1>15 DEF TickStarts
    <3> QED
      BY <3>1, <3>2, <3>3
  <2> HIDE DEF NextTerm
  <2>2. /\ termScreenx' \in [Terms -> Int] /\ termScreeny' \in [Terms -> Int]
        /\ started' \subseteq Terms /\ kernelPage' \in Pages /\ userPage' \in Pages
    BY <1>12, <1>14, <1>15 DEF TickStarts, set_paging_scheduling, TypeOK
  <2> QED
    BY <1>14, <1>15, <2>1, <2>2 DEF TickStarts, Preempts, TypeOK, reading, typing
<1>16. CASE TickShowsFirst
  <2>1. video' \in [Pages -> Grids]
    BY <1>11, <1>16, FirstTerm DEF TickShowsFirst
  <2> HIDE DEF NextTerm
  <2> QED
    BY <1>12, <1>14, <1>16, <2>1, FirstTerm
    DEF TickShowsFirst, Preempts, set_paging_scheduling, TypeOK, cursors, reading, typing
<1>17. CASE TickSwitches
  BY <1>12, <1>14, <1>17
  DEF TickSwitches, Preempts, set_paging_scheduling, TypeOK, cursors, boot, reading,
      typing
<1>18. CASE UNCHANGED vars
  BY <1>18 DEF vars, TypeOK, mapping, cursors, boot, reading, typing
<1> QED
  BY <1>1, <1>2, <1>3, <1>4, <1>5, <1>6, <1>7, <1>8, <1>9, <1>10, <1>13, <1>15,
     <1>16, <1>17, <1>18, <1>19, <1>20 DEF Next

(* Whatever users and programs do, the variables have their types: every   *)
(* page of video memory holds NUM_ROWS * NUM_COLS cells of a character or  *)
(* a blank after putc, clear and the copies of terminal_changing.          *)
THEOREM TypeCorrect ==
  Spec => []TypeOK
  BY TypeInit, TypeNext, PTL DEF Spec

-----------------------------------------------------------------------------
(* The cursors. *)

(* What takes a cursor off its screen is a backspace that empties the line *)
(* in the first column of the first row.                                   *)
Careful == "ErasesBareTop" \notin Habits /\ LineMax < NUM_ROWS * NUM_COLS

(* A cursor is on a cell of its row, or where clear_help put it after a    *)
(* line longer than that.                                                  *)
OnScreen(x, y) == CursorOK(x, y) \/ (x \in NUM_COLS .. LineMax /\ y = 0)

CursorsOK == \A t \in Terms : OnScreen(termScreenx[t], termScreeny[t])

LEMMA PutCKeepsOnScreen ==
  ASSUME NEW s \in ScreenSet, OnScreen(s.x, s.y), NEW c, NEW emptied \in BOOLEAN,
         c = BACKSPACE => ~(emptied /\ s.y = 0 /\ CRem(s.x - 1, NUM_COLS) = 0)
  PROVE  CursorOK(PutC(s, c, emptied).x, PutC(s, c, emptied).y)
<1>1. CASE CursorOK(s.x, s.y)
  <2>1. CRem(0, NUM_COLS) = 0
    BY SizeAssumption DEF CRem
  <2>2. c = BACKSPACE => ~(emptied /\ s.x = 1 /\ s.y = 0)
    BY <2>1
  <2> QED
    BY <1>1, <2>2, PutKeepsCursor, ErasedKeepsCursor DEF PutC
<1>2. CASE ~CursorOK(s.x, s.y)
  <2>1. s.x >= NUM_COLS /\ s.y = 0
    BY <1>2, ConsoleAssumption, SizeAssumption DEF OnScreen
  <2>2. CASE c = BACKSPACE
    BY <2>1, <2>2, LongColumn DEF PutC
  <2>3. CASE c # BACKSPACE
    <3>1. ~(FALSE /\ CRem(s.x - 1, NUM_COLS) = 0)
      OBVIOUS
    <3> QED
      BY <2>1, <2>3, <3>1, LongColumn DEF PutC
  <2> QED
    BY <2>2, <2>3
<1> QED
  BY <1>1, <1>2

(* putc, on any page and for any terminal. *)
LEMMA PutcKeepsCursors ==
  ASSUME TypeOK, CursorsOK, NEW page \in Pages, NEW u \in Terms,
         NEW c \in Chars \cup {NEWLINE, BACKSPACE}, NEW emptied \in BOOLEAN,
         Putc(page, u, c, emptied),
         c = BACKSPACE => ~LeavesTop(emptied)
  PROVE  CursorsOK'
<1> DEFINE t == IF c = BACKSPACE THEN currentTerminal ELSE u
           r == Screen(page, t)
           s == PutC(r, c, emptied)
<1>1. /\ t \in Terms /\ r \in ScreenSet /\ OnScreen(r.x, r.y)
      /\ r.x = termScreenx[t] /\ r.y = termScreeny[t]
  BY DEF TypeOK, CursorsOK, Screen, ScreenSet
<1>2. /\ termScreenx' = [termScreenx EXCEPT ![t] = s.x]
      /\ termScreeny' = [termScreeny EXCEPT ![t] = s.y]
  BY DEF Putc
<1>3. c = BACKSPACE => ~(emptied /\ r.y = 0 /\ CRem(r.x - 1, NUM_COLS) = 0)
  BY <1>1 DEF LeavesTop
<1> HIDE DEF t, r
<1>4. CursorOK(s.x, s.y)
  BY <1>1, <1>3, PutCKeepsOnScreen
<1> HIDE DEF s
<1>5. ASSUME NEW v \in Terms PROVE OnScreen(termScreenx'[v], termScreeny'[v])
  BY <1>1, <1>2, <1>4 DEF TypeOK, CursorsOK, OnScreen
<1> QED
  BY <1>5 DEF CursorsOK

(* A key or a character of a redrawn line, echoed or not. *)
LEMMA EchoKeepsCursors ==
  ASSUME TypeOK, CursorsOK, NEW c \in Chars \cup {NEWLINE, BACKSPACE},
         NEW emptied \in BOOLEAN, EchoBegins(c, emptied),
         c = BACKSPACE => ~LeavesTop(emptied)
  PROVE  CursorsOK'
<1>1. CASE termReadFlag[currentTerminal]
  <2>1. Putc(VIDEO, currentTerminal, c, emptied)
    BY <1>1 DEF EchoBegins
  <2>2. VIDEO \in Pages /\ currentTerminal \in Terms
    BY PagesDiffer DEF TypeOK
  <2> QED
    BY <2>1, <2>2, PutcKeepsCursors
<1>2. CASE ~termReadFlag[currentTerminal]
  BY <1>2 DEF EchoBegins, CursorsOK, cursors
<1> QED
  BY <1>1, <1>2

LEMMA CursorsNext ==
  ASSUME Careful, TypeOK, CursorsOK, [Next]_vars
  PROVE  CursorsOK'
<1> USE DEF Careful
<1>1. ASSUME NEW c \in Chars \cup {NEWLINE, BACKSPACE}, Write(c) PROVE CursorsOK'
  <2>1. PICK emptied \in BOOLEAN :
           /\ Putc(kernelPage, PutTerminal, c, emptied)
           /\ c = BACKSPACE => ~LeavesTop(emptied)
    <3> DEFINE b == IF echo = NoEcho THEN line[currentTerminal] = << >> ELSE echo.emptied
    <3>1. b \in BOOLEAN
      BY DEF TypeOK
    <3>2. Putc(kernelPage, PutTerminal, c, b) /\ (c = BACKSPACE => ~LeavesTop(b))
      BY <1>1 DEF Write, MayErase
    <3> HIDE DEF b
    <3> QED
      BY <3>1, <3>2
  <2>2. PutTerminal \in Terms /\ kernelPage \in Pages
    BY DEF TypeOK, PutTerminal
  <2> QED
    BY <2>1, <2>2, PutcKeepsCursors
<1>2. ASSUME NEW p \in DrawCells, NEW c \in Chars, Draw(p, c) PROVE CursorsOK'
  BY <1>2 DEF Draw, CursorsOK, cursors
<1>3. CASE Vidmap \/ ReadStarts \/ ReadEnds \/ EchoEnds
  BY <1>3 DEF Vidmap, ReadStarts, ReadEnds, EchoEnds, CursorsOK, cursors
<1>4. ASSUME NEW c \in Keys, KeyChar(c) PROVE CursorsOK'
  <2>1. c \in Chars /\ c # BACKSPACE
    BY ConsoleAssumption, CharAssumption
  <2>2. (line[currentTerminal] = << >>) \in BOOLEAN
    OBVIOUS
  <2> QED
    BY <1>4, <2>1, <2>2, EchoKeepsCursors DEF KeyChar, Typed
<1>5. CASE KeyBackspace
  <2>1. PICK emptied \in BOOLEAN : emptied = (Len(line[currentTerminal]) = 1)
    OBVIOUS
  <2>2. EchoBegins(BACKSPACE, emptied) /\ ~LeavesTop(emptied)
    BY <1>5, <2>1 DEF KeyBackspace, MayErase, Typed
  <2> QED
    BY <2>2, EchoKeepsCursors
<1>6. CASE KeyEnter
  BY <1>6, CharAssumption, EchoKeepsCursors DEF KeyEnter, Typed
<1>7. CASE ClearScreen
  <2>1. /\ termScreenx' = [termScreenx EXCEPT ![currentTerminal] = 0]
        /\ termScreeny' = [termScreeny EXCEPT ![currentTerminal] = 0]
    BY <1>7 DEF ClearScreen
  <2>2. OnScreen(0, 0)
    BY SizeAssumption DEF CursorOK, OnScreen
  <2>3. ASSUME NEW t \in Terms PROVE OnScreen(termScreenx'[t], termScreeny'[t])
    BY <2>1, <2>2 DEF TypeOK, CursorsOK
  <2> QED
    BY <2>3 DEF CursorsOK
<1>12. CASE RedrawNext
  <2> DEFINE text == line[currentTerminal]
             n == redraw.next
  <2>1. /\ redraw \in [term : Terms, next : 1 .. LineMax + 1, sti : BOOLEAN]
        /\ text \in Seq(Keys) /\ n =< Len(text) /\ EchoBegins(text[n], FALSE)
    BY <1>12, LinesAreSequences DEF RedrawNext, TypeOK
  <2> HIDE DEF text
  <2>2. n \in 1 .. Len(text)
    BY <2>1, ConsoleAssumption
  <2>3. text[n] \in Chars /\ text[n] # BACKSPACE
    BY <2>1, <2>2, ElementOfSeq, ConsoleAssumption, CharAssumption
  <2> QED
    BY <2>1, <2>3, EchoKeepsCursors
<1>13. CASE RedrawEnds
  <2>1. PICK n \in 0 .. LineMax : n = Len(line[currentTerminal])
    BY LineTypes DEF TypeOK
  <2>2. /\ termScreenx' = [termScreenx EXCEPT ![currentTerminal] = n]
        /\ termScreeny' = [termScreeny EXCEPT ![currentTerminal] = 0]
    BY <1>13, <2>1 DEF RedrawEnds
  <2>3. OnScreen(n, 0)
    BY <2>1, ConsoleAssumption, SizeAssumption DEF CursorOK, OnScreen
  <2>4. ASSUME NEW t \in Terms PROVE OnScreen(termScreenx'[t], termScreeny'[t])
    BY <2>2, <2>3 DEF TypeOK, CursorsOK
  <2> QED
    BY <2>4 DEF CursorsOK
<1>8. ASSUME NEW next \in Terms, SwitchTo(next) PROVE CursorsOK'
  BY <1>8 DEF SwitchTo, CursorsOK, cursors
<1>9. CASE TickStarts
  <2>1. /\ termScreenx' = [termScreenx EXCEPT ![NextTerm] = 0]
        /\ termScreeny' = [termScreeny EXCEPT ![NextTerm] = 0]
    BY <1>9 DEF TickStarts
  <2>2. OnScreen(0, 0)
    BY SizeAssumption DEF CursorOK, OnScreen
  <2> HIDE DEF NextTerm
  <2>3. ASSUME NEW t \in Terms PROVE OnScreen(termScreenx'[t], termScreeny'[t])
    BY <2>1, <2>2 DEF TypeOK, CursorsOK
  <2> QED
    BY <2>3 DEF CursorsOK
<1>10. CASE TickShowsFirst \/ TickSwitches
  BY <1>10 DEF TickShowsFirst, TickSwitches, CursorsOK, cursors
<1>11. CASE UNCHANGED vars
  BY <1>11 DEF vars, CursorsOK, cursors
<1> QED
  BY <1>1, <1>2, <1>3, <1>4, <1>5, <1>6, <1>7, <1>8, <1>9, <1>10, <1>11, <1>12,
     <1>13 DEF Next

LEMMA CursorsInit ==
  Init => CursorsOK
<1>1. OnScreen(0, 0)
  BY SizeAssumption DEF CursorOK, OnScreen
<1> QED
  BY <1>1 DEF Init, CursorsOK

(* putc writes no memory but the cells of a screen: whatever is printed,   *)
(* typed, cleared, drawn again or shown, whatever backspaces are typed or  *)
(* printed but the one that empties a line in the top left corner, and     *)
(* wherever the timer ticks, every cursor is on its screen.                *)
THEOREM CursorsStayOnScreen ==
  ASSUME Careful
  PROVE  Spec => []CursorOnScreen
<1>1. TypeOK /\ CursorsOK /\ [Next]_vars => CursorsOK'
  BY CursorsNext
<1>2. CursorsOK => CursorOnScreen
  <2> SUFFICES ASSUME CursorsOK, NEW t \in Terms
               PROVE  Pos(Screen(VIDEO, t)) \in Positions
    BY DEF CursorOnScreen
  <2>1. OnScreen(termScreenx[t], termScreeny[t])
    BY DEF CursorsOK
  <2>2. CASE CursorOK(termScreenx[t], termScreeny[t])
    BY <2>2, CursorHasCell DEF Pos, Screen
  <2>3. CASE ~CursorOK(termScreenx[t], termScreeny[t])
    <3>1. termScreenx[t] \in NUM_COLS .. LineMax /\ termScreeny[t] = 0
      BY <2>1, <2>3 DEF OnScreen
    <3>2. Pos(Screen(VIDEO, t)) = NUM_COLS * 0 + termScreenx[t]
      BY <3>1 DEF Pos, Screen
    <3>3. PICK x \in Int, cells \in Int :
            /\ x = termScreenx[t] /\ cells = NUM_ROWS * NUM_COLS
            /\ x >= 0 /\ x < cells
      BY <3>1, ConsoleAssumption, SizeAssumption DEF Careful
    <3>4. NUM_COLS * 0 + x = x
      BY <3>3, SizeAssumption
    <3> QED
      BY <3>2, <3>3, <3>4 DEF Positions
  <2> QED
    BY <2>2, <2>3
<1> QED
  BY <1>1, <1>2, CursorsInit, TypeCorrect, PTL DEF Spec

-----------------------------------------------------------------------------
(* The effect of putc. *)

(* putc gives a screen: cells and a cursor, and nothing else. *)
LEMMA PutCShape ==
  ASSUME NEW cells, NEW x, NEW y, NEW c, NEW emptied
  PROVE  LET s == PutC([cells |-> cells, x |-> x, y |-> y], c, emptied)
         IN s = [cells |-> s.cells, x |-> s.x, y |-> s.y]
<1> DEFINE s == [cells |-> cells, x |-> x, y |-> y]
           Shaped(r) == r = [cells |-> r.cells, x |-> r.x, y |-> r.y]
<1>1. Shaped(Erased(s, emptied))
  BY DEF Erased
<1>2. ASSUME NEW r PROVE Shaped(NewRow(r))
  BY DEF NewRow
<1>3. Shaped(Advanced([s EXCEPT !.cells[Pos(s)] = c]))
  <2>1. [s EXCEPT !.cells[Pos(s)] = c]
          = [cells |-> [cells EXCEPT ![Pos(s)] = c], x |-> x, y |-> y]
    OBVIOUS
  <2>2. ASSUME NEW grid
        PROVE  LET r == [cells |-> grid, x |-> x, y |-> y]
               IN [r EXCEPT !.x = @ + 1] = [cells |-> grid, x |-> x + 1, y |-> y]
    OBVIOUS
  <2> QED
    BY <1>2, <2>1, <2>2 DEF Advanced
<1>4. ASSUME NEW r, Shaped(r) PROVE Shaped(Scrolled(r))
  BY <1>4 DEF Scrolled
<1>5. Shaped(Put(s, c))
  BY <1>2, <1>3, <1>4 DEF Put
<1> QED
  BY <1>1, <1>5 DEF PutC

(* The screen of each terminal, wherever it is kept. *)
Scr == [t \in Terms |-> Screen(PageOf(t, currentTerminal), t)]

(* putc on a terminal's own page changes the cells of that terminal and    *)
(* the cursor of the one it goes by, which may be another.                 *)
LEMMA PutcEffect ==
  ASSUME TypeOK, NEW t \in Terms, NEW u \in Terms, NEW c, NEW emptied, NEW v \in Terms,
         v = IF c = BACKSPACE THEN currentTerminal ELSE u,
         Putc(PageOf(t, currentTerminal), u, c, emptied),
         UNCHANGED currentTerminal
  PROVE  emptied \in BOOLEAN => S!PutAt(t, v, c)
<1> DEFINE page == PageOf(t, currentTerminal)
           s == PutC(Screen(page, v), c, emptied)
<1>1. /\ video' = [video EXCEPT ![page] = s.cells]
      /\ termScreenx' = [termScreenx EXCEPT ![v] = s.x]
      /\ termScreeny' = [termScreeny EXCEPT ![v] = s.y]
  BY DEF Putc
<1>2. s = PutC([cells |-> Scr[t].cells, x |-> Scr[v].x, y |-> Scr[v].y], c, emptied)
  BY DEF Scr, Screen
<1> HIDE DEF s
<1>3. \A w \in Terms : /\ PageOf(w, currentTerminal) \in Pages
                       /\ PageOf(w, currentTerminal) = page => w = t
  BY PagesDiffer DEF TypeOK
<1>4. \A w \in Terms : Scr'[w] = [cells |-> IF w = t THEN s.cells ELSE Scr[w].cells,
                                 x |-> IF w = v THEN s.x ELSE Scr[w].x,
                                 y |-> IF w = v THEN s.y ELSE Scr[w].y]
  BY <1>1, <1>3 DEF Scr, Screen, TypeOK
<1>5. Scr' = [w \in Terms |-> Scr'[w]]
  BY DEF Scr
<1>6. Scr' = [w \in Terms |-> [cells |-> IF w = t THEN s.cells ELSE Scr[w].cells,
                               x |-> IF w = v THEN s.x ELSE Scr[w].x,
                               y |-> IF w = v THEN s.y ELSE Scr[w].y]]
  BY <1>4, <1>5
<1> QED
  BY <1>2, <1>6 DEF S!PutAt, Scr

(* At the terminal's own cursor, that screen alone. *)
LEMMA PutcOwnEffect ==
  ASSUME TypeOK, NEW t \in Terms, NEW u \in Terms, NEW c, NEW emptied,
         t = IF c = BACKSPACE THEN currentTerminal ELSE u,
         Putc(PageOf(t, currentTerminal), u, c, emptied),
         UNCHANGED currentTerminal
  PROVE  Scr' = [Scr EXCEPT ![t] = PutC(@, c, emptied)]
<1> DEFINE page == PageOf(t, currentTerminal)
           s == PutC(Screen(page, t), c, emptied)
<1>1. /\ video' = [video EXCEPT ![page] = s.cells]
      /\ termScreenx' = [termScreenx EXCEPT ![t] = s.x]
      /\ termScreeny' = [termScreeny EXCEPT ![t] = s.y]
  BY DEF Putc
<1>2. s = [cells |-> s.cells, x |-> s.x, y |-> s.y]
  BY PutCShape DEF Screen
<1>3. s = PutC(Scr[t], c, emptied)
  BY DEF Scr
<1> HIDE DEF s
<1>4. \A w \in Terms : /\ PageOf(w, currentTerminal) \in Pages
                       /\ PageOf(w, currentTerminal) = page => w = t
  BY PagesDiffer DEF TypeOK
<1>5. \A w \in Terms : Scr'[w] = IF w = t THEN s ELSE Scr[w]
  BY <1>1, <1>2, <1>4 DEF Scr, Screen, TypeOK
<1>6. Scr' = [Scr EXCEPT ![t] = s]
  BY <1>5 DEF Scr
<1> QED
  BY <1>3, <1>6

(* A key that is echoed, or a character of a line drawn again. *)
LEMMA EchoEffect ==
  ASSUME TypeOK, NEW c, NEW emptied, EchoBegins(c, emptied), UNCHANGED currentTerminal
  PROVE  IF termReadFlag[currentTerminal]
         THEN /\ Scr' = [Scr EXCEPT ![currentTerminal] = PutC(@, c, emptied)]
              /\ echo' = [term |-> scheduled_term, oldAddr |-> kernelPage,
                          emptied |-> emptied]
              /\ echo' # NoEcho
         ELSE UNCHANGED <<Scr, echo>>
<1>1. PageOf(currentTerminal, currentTerminal) = VIDEO /\ currentTerminal \in Terms
  BY PagesDiffer DEF TypeOK
<1>2. CASE termReadFlag[currentTerminal]
  <2>1. /\ Putc(VIDEO, currentTerminal, c, emptied)
        /\ echo' = [term |-> scheduled_term, oldAddr |-> kernelPage, emptied |-> emptied]
    BY <1>2 DEF EchoBegins
  <2>2. echo' # NoEcho
    BY <2>1 DEF NoEcho, TypeOK, Terms
  <2> QED
    BY <1>1, <1>2, <2>1, <2>2, PutcOwnEffect
<1>3. CASE ~termReadFlag[currentTerminal]
  BY <1>3 DEF EchoBegins, Scr, Screen, PageOf, cursors
<1> QED
  BY <1>2, <1>3

-----------------------------------------------------------------------------
(* The mappings. *)

(* A program that runs is not what a keystroke interrupted; its page is    *)
(* mapped, and its characters go to its own cursor but in an echo.         *)
LEMMA RunningIsNotEchoing ==
  ASSUME TypeOK, CInv, Running
  PROVE  /\ echo.term # scheduled_term /\ redraw.term # scheduled_term
         /\ kernelPage = PageOf(scheduled_term, currentTerminal)
         /\ PutTerminal = IF echo # NoEcho THEN currentTerminal ELSE scheduled_term
  BY DEF CInv, MapsOwnScreen, Running, Interrupted, PutTerminal

(* An echo leaves the mapping of programs alone. *)
LEMMA EchoKeepsMapping ==
  ASSUME TypeOK, CInv, NEW c, NEW emptied, EchoBegins(c, emptied), echo = NoEcho,
         doneInstantiating \/ ~termReadFlag[currentTerminal],
         UNCHANGED <<userPage, currentTerminal, scheduled_term, boot>>
  PROVE  MapsOwnScreen' /\ (echo' # NoEcho => doneInstantiating)
<1>1. CASE termReadFlag[currentTerminal]
  <2>1. /\ kernelPage' = VIDEO /\ keyboardPutCFlag' = 1 /\ doneInstantiating
        /\ echo' = [term |-> scheduled_term, oldAddr |-> kernelPage, emptied |-> emptied]
    BY <1>1 DEF EchoBegins
  <2>2. echo' # NoEcho /\ echo'.term = scheduled_term /\ echo'.oldAddr = kernelPage
    BY <2>1 DEF NoEcho, TypeOK, Terms
  <2>3. kernelPage = PageOf(scheduled_term, currentTerminal)
    BY DEF CInv, MapsOwnScreen, NoEcho, TypeOK, Terms
  <2> QED
    BY <2>1, <2>2, <2>3 DEF CInv, MapsOwnScreen, PageOf, VIDEO, TypeOK
<1>2. CASE ~termReadFlag[currentTerminal]
  BY <1>2 DEF EchoBegins, CInv, MapsOwnScreen, PageOf
<1> QED
  BY <1>1, <1>2

(* A key finds the processor in a state in which it may be echoed. *)
LEMMA TypedKeepsCInv ==
  ASSUME SettledDown, TypeOK, CInv, NEW c, NEW text, NEW emptied, Typed(c, text, emptied)
  PROVE  CInv'
<1>1. /\ EchoBegins(c, emptied) /\ echo = NoEcho /\ redraw = NoRedraw
      /\ doneInstantiating \/ ~termReadFlag[currentTerminal]
      /\ UNCHANGED <<userPage, currentTerminal, scheduled_term, boot, redraw, termReadFlag>>
  BY DEF Typed, UserTypes, KeyboardIdle, SettledDown
<1>2. MapsOwnScreen' /\ (echo' # NoEcho => doneInstantiating)
  BY <1>1, EchoKeepsMapping
<1> QED
  BY <1>1, <1>2 DEF CInv, BootOrder, boot

(* Until all shells have started, the timer finds no key half done. *)
LEMMA BootTicks ==
  ASSUME TypeOK, CInv, Preempts, ~doneInstantiating
  PROVE  /\ echo = NoEcho /\ redraw = NoRedraw /\ keyboardPutCFlag = 0
         /\ IF NextTerm \in started THEN started = Terms
            ELSE started \cup {NextTerm} = 1 .. NextTerm
<1>1. started = 1 .. scheduled_term /\ scheduled_term \in Terms
  BY DEF CInv, BootOrder, TypeOK
<1>2. echo = NoEcho /\ redraw = NoRedraw
  BY DEF CInv, BootOrder, Preempts
<1>3. keyboardPutCFlag = 0
  BY <1>2 DEF CInv, MapsOwnScreen
<1> QED
  BY <1>1, <1>2, <1>3, NextTermStarted

LEMMA CInvInit ==
  Init => CInv
<1> SUFFICES ASSUME Init PROVE CInv
  OBVIOUS
<1>1. MapsOwnScreen
  BY DEF Init, MapsOwnScreen, PageOf, VIDEO
<1>2. started = 1 .. scheduled_term /\ (NUM_TERMS = 1 => started = Terms)
  BY ConsoleAssumption DEF Init, Terms
<1> QED
  BY <1>1, <1>2 DEF Init, CInv, BootOrder

(* One step per action; only the keyboard, the timer and a switch of       *)
(* terminals touch the mappings.                                           *)
LEMMA CInvNext ==
  ASSUME SettledDown, TypeOK, CInv, [Next]_vars
  PROVE  CInv'
<1>1. ASSUME NEW c \in Chars \cup {NEWLINE, BACKSPACE}, Write(c) PROVE CInv'
  BY <1>1 DEF Write, CInv, MapsOwnScreen, BootOrder, mapping, boot, reading, PageOf
<1>2. ASSUME NEW p \in DrawCells, NEW c \in Chars, Draw(p, c) PROVE CInv'
  BY <1>2 DEF Draw, CInv, MapsOwnScreen, BootOrder, mapping, boot, reading, PageOf
<1>3. CASE Vidmap
  BY <1>3 DEF Vidmap, CInv, MapsOwnScreen, BootOrder, boot, reading, PageOf
<1>4. CASE ReadStarts
  BY <1>4, RunningIsNotEchoing
  DEF ReadStarts, CInv, MapsOwnScreen, BootOrder, mapping, boot, PageOf
<1>5. CASE ReadEnds
  BY <1>5 DEF ReadEnds, CInv, MapsOwnScreen, BootOrder, mapping, boot, PageOf, TypeOK
<1>6. ASSUME NEW c \in Keys, KeyChar(c) PROVE CInv'
  BY <1>6, TypedKeepsCInv DEF KeyChar
<1>7. CASE KeyBackspace
  BY <1>7, TypedKeepsCInv DEF KeyBackspace
<1>8. CASE KeyEnter
  BY <1>8, TypedKeepsCInv DEF KeyEnter
<1>9. CASE ClearScreen
  <2>1. /\ redraw' = [term |-> scheduled_term, next |-> 1, sti |-> FALSE]
        /\ doneInstantiating \/ ~termReadFlag[currentTerminal]
        /\ UNCHANGED <<mapping, currentTerminal, scheduled_term, boot, keyboardPutCFlag,
                       echo, reading>>
    BY <1>9 DEF ClearScreen, UserTypes, SettledDown
  <2> QED
    BY <2>1 DEF CInv, MapsOwnScreen, BootOrder, mapping, boot, reading, PageOf
<1>10. CASE RedrawNext
  <2>1. PICK c : EchoBegins(c, FALSE)
    BY <1>10 DEF RedrawNext
  <2>2. /\ echo = NoEcho /\ redraw # NoRedraw
        /\ redraw' = [redraw EXCEPT !.next = @ + 1,
                                   !.sti = @ \/ termReadFlag[currentTerminal]]
        /\ UNCHANGED <<userPage, currentTerminal, scheduled_term, boot, termReadFlag>>
    BY <1>10 DEF RedrawNext, reading
  <2>3. doneInstantiating \/ ~termReadFlag[currentTerminal]
    BY <2>2 DEF CInv, BootOrder
  <2>4. MapsOwnScreen' /\ (echo' # NoEcho => doneInstantiating)
    BY <2>1, <2>2, <2>3, EchoKeepsMapping
  <2>5. ASSUME ~doneInstantiating
        PROVE  redraw'.term = scheduled_term /\ ~redraw'.sti
    <3>1. redraw \in [term : Terms, next : 1 .. LineMax + 1, sti : BOOLEAN]
      BY <2>2 DEF TypeOK
    <3>2. ~termReadFlag[currentTerminal] /\ redraw.term = scheduled_term /\ ~redraw.sti
      BY <2>2, <2>5 DEF CInv, BootOrder
    <3> QED
      BY <2>2, <3>1, <3>2
  <2> QED
    BY <2>2, <2>3, <2>4, <2>5 DEF CInv, BootOrder, boot
<1>11. CASE RedrawEnds
  BY <1>11 DEF RedrawEnds, CInv, MapsOwnScreen, BootOrder, mapping, boot, reading, PageOf
<1>12. CASE EchoEnds
  <2>1. NoEcho.term # scheduled_term
    BY DEF NoEcho, TypeOK, Terms
  <2>2. /\ kernelPage' = PageOf(scheduled_term, currentTerminal)
        /\ echo' = NoEcho /\ keyboardPutCFlag' = 0
    BY <1>12 DEF EchoEnds, CInv, MapsOwnScreen
  <2> QED
    BY <1>12, <2>1, <2>2
    DEF EchoEnds, CInv, MapsOwnScreen, BootOrder, boot, reading, PageOf
<1>13. ASSUME NEW next \in Terms, SwitchTo(next) PROVE CInv'
  BY <1>13 DEF SwitchTo, KeyboardIdle, set_paging_scheduling, CInv, MapsOwnScreen,
               BootOrder, boot, PageOf
<1>14. CASE TickStarts
  <2>1. ~doneInstantiating /\ NextTerm \notin started
    BY <1>14, NextTermInTerms DEF TickStarts, CInv, BootOrder, TypeOK
  <2>2. /\ echo = NoEcho /\ redraw = NoRedraw /\ keyboardPutCFlag = 0
        /\ started \cup {NextTerm} = 1 .. NextTerm
    BY <1>14, <2>1, BootTicks DEF TickStarts
  <2> HIDE DEF NextTerm
  <2> QED
    BY <1>14, <2>1, <2>2
    DEF TickStarts, Preempts, set_paging_scheduling, CInv, MapsOwnScreen, BootOrder, PageOf
<1>15. CASE TickShowsFirst
  <2>1. /\ echo = NoEcho /\ redraw = NoRedraw /\ keyboardPutCFlag = 0
        /\ started = Terms
    BY <1>15, BootTicks DEF TickShowsFirst
  <2> HIDE DEF NextTerm
  <2> QED
    BY <1>15, <2>1
    DEF TickShowsFirst, Preempts, set_paging_scheduling, CInv, MapsOwnScreen, BootOrder,
        PageOf
<1>16. CASE TickSwitches
  BY <1>16
  DEF TickSwitches, Preempts, set_paging_scheduling, CInv, MapsOwnScreen, BootOrder, boot,
      PageOf
<1>17. CASE UNCHANGED vars
  BY <1>17 DEF vars, CInv, MapsOwnScreen, BootOrder, mapping, boot, reading, PageOf
<1> QED
  BY <1>1, <1>2, <1>3, <1>4, <1>5, <1>6, <1>7, <1>8, <1>9, <1>10, <1>11, <1>12,
     <1>13, <1>14, <1>15, <1>16, <1>17 DEF Next

THEOREM MappingInvariant ==
  ASSUME SettledDown
  PROVE  Spec => []CInv
<1>1. TypeOK /\ CInv /\ [Next]_vars => CInv'
  BY CInvNext
<1> QED
  BY <1>1, CInvInit, TypeCorrect, PTL DEF Spec

(* Wherever the timer ticks, in an echo too: the kernel prints to, and the *)
(* program draws on, the screen of the scheduled terminal                  *)
(* (set_paging_scheduling, vidmap, keyboardputc), and user mode reaches no *)
(* frame but that and the program's own memory.                            *)
THEOREM OwnScreen ==
  ASSUME SettledDown
  PROVE  Spec => []OwnScreenMapped
<1>1. CInv => OwnScreenMapped
  <2> SUFFICES ASSUME CInv PROVE OwnScreenMapped
    OBVIOUS
  <2>1. UserFrames = DirectoryEntry(32).frames \cup DirectoryEntry(33).frames
    BY DEF UserFrames, DirectoryEntry
  <2> QED
    BY <2>1 DEF OwnScreenMapped, CInv, MapsOwnScreen, DirectoryEntry
<1> QED
  BY <1>1, MappingInvariant, PTL

-----------------------------------------------------------------------------
(* Console implements Screens. *)

(* The three ways to show a terminal: its screen comes to page VIDEO, that *)
(* of the one that was shown goes to its own page, and none is changed.    *)
LEMMA SwappedScreens ==
  ASSUME TypeOK, NEW next \in Terms, video' = Swapped(next), currentTerminal' = next,
         UNCHANGED cursors
  PROVE  UNCHANGED Scr
<1>1. ASSUME NEW t \in Terms
      PROVE  Swapped(next)[PageOf(t, next)] = video[PageOf(t, currentTerminal)]
  BY ConsoleAssumption DEF Swapped, PageOf, Pages, VIDEO, Terms, TypeOK
<1>2. \A t \in Terms : Screen(PageOf(t, currentTerminal), t)'
                         = Screen(PageOf(t, currentTerminal), t)
  BY <1>1 DEF Screen, cursors, PageOf
<1> QED
  BY <1>2 DEF Scr

(* The same when the terminal that comes up is cleared. *)
LEMMA ClearedScreen ==
  ASSUME TypeOK, TickStarts
  PROVE  Scr' = [Scr EXCEPT ![NextTerm] = BlankScreen]
<1> DEFINE next == NextTerm
<1>1. next \in Terms /\ currentTerminal' = next
  BY NextTermInTerms DEF TickStarts, TypeOK
<1>2. /\ video' = [Swapped(next) EXCEPT ![VIDEO] = BlankScreen.cells]
      /\ termScreenx' = [termScreenx EXCEPT ![next] = 0]
      /\ termScreeny' = [termScreeny EXCEPT ![next] = 0]
  BY DEF TickStarts
<1> HIDE DEF next
<1>3. ASSUME NEW t \in Terms, t # next
      PROVE  video'[PageOf(t, next)] = video[PageOf(t, currentTerminal)]
  BY <1>1, <1>2, <1>3, ConsoleAssumption DEF Swapped, PageOf, Pages, VIDEO, Terms, TypeOK
<1>4. video'[PageOf(next, next)] = BlankScreen.cells
  BY <1>1, <1>2, ConsoleAssumption DEF Swapped, PageOf, Pages, VIDEO, TypeOK
<1>5. \A t \in Terms : Scr'[t] = IF t = next THEN BlankScreen ELSE Scr[t]
  BY <1>1, <1>2, <1>3, <1>4 DEF Scr, Screen, PageOf, BlankScreen, TypeOK
<1> QED
  BY <1>1, <1>5 DEF Scr, next

(* A program draws on its own terminal's screen. *)
LEMMA DrawEffect ==
  ASSUME TypeOK, CInv, NEW p \in DrawCells, NEW c \in Chars, Draw(p, c)
  PROVE  Scr' = [Scr EXCEPT ![scheduled_term].cells[p] = c]
<1> DEFINE t == scheduled_term
           page == PageOf(t, currentTerminal)
<1>1. /\ t \in Terms /\ userPage = page
      /\ video' = [video EXCEPT ![page][p] = c]
      /\ UNCHANGED <<cursors, currentTerminal>>
  BY DEF Draw, CInv, MapsOwnScreen, TypeOK
<1>2. \A u \in Terms : /\ PageOf(u, currentTerminal) \in Pages
                       /\ PageOf(u, currentTerminal) = page => u = t
  BY <1>1, PagesDiffer DEF TypeOK
<1>3. \A u \in Terms :
        video'[PageOf(u, currentTerminal)]
          = IF u = t THEN [video[page] EXCEPT ![p] = c]
            ELSE video[PageOf(u, currentTerminal)]
  BY <1>1, <1>2 DEF TypeOK
<1>4. \A u \in Terms :
        Scr'[u] = IF u = t THEN [Scr[u] EXCEPT !.cells[p] = c] ELSE Scr[u]
  BY <1>1, <1>3 DEF Scr, Screen, cursors, PageOf
<1> QED
  BY <1>1, <1>4 DEF Scr

(* clear blanks the screen that is shown. *)
LEMMA ClearEffect ==
  ASSUME TypeOK, ClearScreen
  PROVE  Scr' = [Scr EXCEPT ![currentTerminal] = BlankScreen]
<1>1. /\ video' = [video EXCEPT ![VIDEO] = BlankScreen.cells]
      /\ termScreenx' = [termScreenx EXCEPT ![currentTerminal] = 0]
      /\ termScreeny' = [termScreeny EXCEPT ![currentTerminal] = 0]
      /\ UNCHANGED currentTerminal
  BY DEF ClearScreen
<1>2. \A t \in Terms : Scr'[t] = IF t = currentTerminal THEN BlankScreen ELSE Scr[t]
  BY <1>1, PagesDiffer, ConsoleAssumption
  DEF Scr, Screen, PageOf, BlankScreen, TypeOK, VIDEO, Pages, Terms
<1> QED
  BY <1>2 DEF Scr

(* clear_help moves its cursor. *)
LEMMA RedrawEndsEffect ==
  ASSUME TypeOK, RedrawEnds
  PROVE  Scr' = [Scr EXCEPT ![currentTerminal].x = Len(line[currentTerminal]),
                            ![currentTerminal].y = 0]
<1>1. /\ termScreenx' = [termScreenx EXCEPT ![currentTerminal] = Len(line[currentTerminal])]
      /\ termScreeny' = [termScreeny EXCEPT ![currentTerminal] = 0]
      /\ UNCHANGED <<video, currentTerminal>>
  BY DEF RedrawEnds
<1>2. \A t \in Terms :
        Scr'[t] = IF t = currentTerminal
                  THEN [Scr[t] EXCEPT !.x = Len(line[currentTerminal]), !.y = 0]
                  ELSE Scr[t]
  BY <1>1 DEF Scr, Screen, PageOf, TypeOK
<1> QED
  BY <1>2 DEF Scr, TypeOK

(* One step per action. *)
LEMMA ScreensNext ==
  ASSUME SettledDown, TypeOK, CInv, [Next]_vars
  PROVE  S!Next \/ UNCHANGED <<Scr, currentTerminal, (echo # NoEcho)>>
<1> DEFINE Stutter == UNCHANGED <<Scr, currentTerminal, (echo # NoEcho)>>
<1>1. ASSUME NEW c \in Chars \cup {NEWLINE, BACKSPACE}, Write(c) PROVE S!Next
  <2> DEFINE t == scheduled_term
  <2>1. PICK emptied : /\ Putc(PageOf(t, currentTerminal), PutTerminal, c, emptied)
                      /\ emptied \in BOOLEAN
    <3> DEFINE b == IF echo = NoEcho THEN line[currentTerminal] = << >> ELSE echo.emptied
    <3>1. b \in BOOLEAN
      BY DEF TypeOK
    <3>2. Putc(kernelPage, PutTerminal, c, b) /\ Running
      BY <1>1 DEF Write
    <3> HIDE DEF b
    <3> QED
      BY <3>1, <3>2, RunningIsNotEchoing
  <2>2. PICK u \in Terms, v \in Terms :
           /\ u = PutTerminal
           /\ v = IF echo # NoEcho \/ c = BACKSPACE THEN currentTerminal ELSE t
           /\ v = IF c = BACKSPACE THEN currentTerminal ELSE u
    BY <1>1, RunningIsNotEchoing DEF Write, TypeOK
  <2>3. t \in Terms /\ UNCHANGED <<currentTerminal, echo>>
    BY <1>1 DEF Write, TypeOK
  <2> HIDE DEF t
  <2>4. S!PutAt(t, v, c)
    <3>1. Putc(PageOf(t, currentTerminal), u, c, emptied)
      BY <2>1, <2>2
    <3> QED
      BY <2>1, <2>2, <2>3, <3>1, PutcEffect
  <2>6. S!Prints(t, c)
    BY <2>2, <2>3, <2>4 DEF S!Prints
  <2>5. \E w \in Terms : \E d \in Chars \cup {NEWLINE, BACKSPACE} : S!Prints(w, d)
    BY <2>3, <2>6
  <2> QED
    BY <2>5 DEF S!Next
<1>2. ASSUME NEW p \in DrawCells, NEW c \in Chars, Draw(p, c) PROVE S!Next
  <2>1. /\ scheduled_term \in Terms /\ p \in Positions
        /\ UNCHANGED <<currentTerminal, echo>>
        /\ Scr' = [Scr EXCEPT ![scheduled_term].cells[p] = c]
    BY <1>2, DrawEffect, ConsoleAssumption DEF Draw, TypeOK
  <2>2. S!Draw(scheduled_term, p, c)
    BY <2>1 DEF S!Draw, Scr
  <2>3. \E u \in Terms : \E q \in Positions, d \in Chars : S!Draw(u, q, d)
    BY <2>1, <2>2
  <2> QED
    BY <2>3 DEF S!Next
<1>3. CASE Vidmap \/ ReadStarts \/ ReadEnds
  BY <1>3 DEF Vidmap, ReadStarts, ReadEnds, Scr, Screen, PageOf, cursors
<1>4. ASSUME NEW c \in Chars \cup {NEWLINE, BACKSPACE}, NEW emptied \in BOOLEAN,
             EchoBegins(c, emptied), echo = NoEcho, UNCHANGED currentTerminal
      PROVE  S!Next \/ Stutter
  <2>1. CASE termReadFlag[currentTerminal]
    <3>1. /\ Scr' = [Scr EXCEPT ![currentTerminal] = PutC(@, c, emptied)]
          /\ echo' # NoEcho /\ currentTerminal \in Terms
      BY <1>4, <2>1, EchoEffect DEF TypeOK
    <3>7. S!PutAt(currentTerminal, currentTerminal, c)
      <4>1. PageOf(currentTerminal, currentTerminal) = VIDEO
        BY <3>1, PagesDiffer
      <4>2. Putc(PageOf(currentTerminal, currentTerminal), currentTerminal, c, emptied)
        BY <1>4, <2>1, <4>1 DEF EchoBegins
      <4> QED
        BY <1>4, <3>1, <4>2, PutcEffect
    <3>8. S!EchoBegins(c)
      BY <1>4, <3>1, <3>7 DEF S!EchoBegins
    <3> QED
      BY <3>8 DEF S!Next
  <2>2. CASE ~termReadFlag[currentTerminal]
    BY <1>4, <2>2, EchoEffect
  <2> QED
    BY <2>1, <2>2
<1>5. ASSUME NEW c \in Keys, KeyChar(c) PROVE S!Next \/ Stutter
  <2>1. (line[currentTerminal] = << >>) \in BOOLEAN /\ c \in Chars
    BY ConsoleAssumption
  <2> QED
    BY <1>4, <1>5, <2>1 DEF KeyChar, Typed, UserTypes, KeyboardIdle
<1>6. CASE KeyBackspace
  <2>1. PICK emptied \in BOOLEAN : emptied = (Len(line[currentTerminal]) = 1)
    OBVIOUS
  <2>2. EchoBegins(BACKSPACE, emptied) /\ echo = NoEcho /\ UNCHANGED currentTerminal
    BY <1>6, <2>1 DEF KeyBackspace, Typed, UserTypes, KeyboardIdle
  <2> QED
    BY <1>4, <2>2
<1>7. CASE KeyEnter
  BY <1>4, <1>7 DEF KeyEnter, Typed, UserTypes, KeyboardIdle
<1>8. CASE ClearScreen
  <2>1. S!Clear
    BY <1>8, ClearEffect DEF S!Clear, ClearScreen, Scr
  <2> QED
    BY <2>1 DEF S!Next
<1>9. CASE RedrawNext
  <2> DEFINE text == line[currentTerminal]
             n == redraw.next
  <2>1. /\ redraw \in [term : Terms, next : 1 .. LineMax + 1, sti : BOOLEAN]
        /\ text \in Seq(Keys) /\ n =< Len(text) /\ EchoBegins(text[n], FALSE)
        /\ echo = NoEcho /\ UNCHANGED currentTerminal
    BY <1>9, LinesAreSequences DEF RedrawNext, TypeOK
  <2> HIDE DEF text
  <2>2. n \in 1 .. Len(text)
    BY <2>1, ConsoleAssumption
  <2>3. text[n] \in Chars
    BY <2>1, <2>2, ElementOfSeq, ConsoleAssumption
  <2> QED
    BY <1>4, <2>1, <2>3
<1>10. CASE RedrawEnds
  <2>1. Len(line[currentTerminal]) \in 0 .. LineMax
    BY LineTypes DEF TypeOK
  <2>2. S!SetCursor(Len(line[currentTerminal]))
    BY <1>10, RedrawEndsEffect DEF S!SetCursor, RedrawEnds, Scr
  <2> QED
    BY <2>1, <2>2 DEF S!Next
<1>11. CASE EchoEnds
  <2>1. S!EchoEnds
    BY <1>11 DEF EchoEnds, S!EchoEnds, Screen, PageOf, cursors
  <2> QED
    BY <2>1 DEF S!Next
<1>12. ASSUME NEW next \in Terms, video' = Swapped(next), currentTerminal' = next,
              UNCHANGED <<cursors, echo>>, echo = NoEcho
       PROVE  S!Next
  <2>1. S!Show(next)
    BY <1>12, SwappedScreens DEF S!Show, Scr
  <2> QED
    BY <2>1 DEF S!Next
<1>13. ASSUME NEW next \in Terms, SwitchTo(next) PROVE S!Next
  BY <1>12, <1>13 DEF SwitchTo, KeyboardIdle
<1>14. CASE TickStarts
  <2>1. NextTerm \in Terms
    BY NextTermInTerms DEF TypeOK
  <2>2. echo = NoEcho /\ UNCHANGED echo /\ currentTerminal' = NextTerm
    BY <1>14, <2>1, BootTicks DEF TickStarts, Preempts, CInv, BootOrder
  <2>3. S!Start(NextTerm)
    BY <1>14, <2>1, <2>2, ClearedScreen DEF S!Start, Scr
  <2> QED
    BY <2>1, <2>3 DEF S!Next
<1>15. CASE TickShowsFirst
  <2>1. echo = NoEcho /\ UNCHANGED <<cursors, echo>>
    BY <1>15, BootTicks DEF TickShowsFirst, Preempts
  <2> QED
    BY <1>12, <1>15, <2>1, FirstTerm DEF TickShowsFirst
<1>16. CASE TickSwitches
  BY <1>16 DEF TickSwitches, Preempts, Scr, Screen, PageOf, cursors
<1>17. CASE UNCHANGED vars
  BY <1>17 DEF vars, Scr, Screen, PageOf, cursors
<1> QED
  BY <1>1, <1>2, <1>3, <1>5, <1>6, <1>7, <1>8, <1>9, <1>10, <1>11, <1>13, <1>14,
     <1>15, <1>16, <1>17 DEF Next

(* Programs, the keyboard, switches of terminal and the timer, wherever it *)
(* ticks, give every terminal a screen of its own.                         *)
THEOREM GivesEveryTerminalAScreen ==
  ASSUME SettledDown
  PROVE  Spec => ImplementsScreens
<1>1. Init => S!Init
  <2> SUFFICES ASSUME Init PROVE S!Init
    OBVIOUS
  <2>1. \A t \in Terms : PageOf(t, currentTerminal) \in Pages
    BY PagesDiffer, FirstTerm DEF Init
  <2>2. \A t \in Terms : Screen(PageOf(t, currentTerminal), t) = BlankScreen
    BY <2>1 DEF Init, Screen, BlankScreen
  <2> QED
    BY <2>2, FirstTerm DEF Init, S!Init
<1>2. TypeOK /\ CInv /\ [Next]_vars => [S!Next]_(S!screenVars)
  BY ScreensNext DEF S!screenVars, Scr
<1> QED
  BY <1>1, <1>2, TypeCorrect, MappingInvariant, PTL DEF Spec, ImplementsScreens, S!Spec

-----------------------------------------------------------------------------
(* The line on the screen. *)

(* 25 rows of 80 columns hold a prompt and a line of 127 characters in two *)
(* rows, with room for a prompt of 32 columns.                             *)
Fits == /\ NUM_ROWS > 1
        /\ MaxPrompt < NUM_COLS /\ MaxPrompt + LineMax < 2 * NUM_COLS

(* The terminals that read have started, so none of them is cleared when   *)
(* another starts.                                                         *)
ReadersStarted ==
    /\ scheduled_term \in started
    /\ \A t \in Terms : termReadFlag[t] => t \in started

(* Ctrl+L draws the line from the top left corner; no tick has come if it  *)
(* has not echoed, and the line is not empty if it has.                    *)
Redrawing ==
    redraw # NoRedraw =>
      /\ redraw.term = scheduled_term \/ redraw.sti
      /\ redraw.sti => redraw.next > 1
      /\ redraw.next =< Len(line[currentTerminal]) + 1
      /\ unseen[currentTerminal] = {} =>
           /\ Len(line[currentTerminal]) < NUM_COLS
           /\ Scr[currentTerminal].x = redraw.next - 1 /\ Scr[currentTerminal].y = 0

(* The line, echoed so far, is on the screen s and before its cursor. *)
LineAt(s, text) ==
    CursorOK(s.x, s.y) /\ \E r \in 0 .. NUM_ROWS - 1 : ShowsLine(s, text, r, MaxPrompt)

Shown(t) == termReadFlag[t] /\ unseen[t] = {} => LineAt(Scr[t], Echoed(t))

(* The inductive invariant, with the types, the cursors and the mappings:  *)
(* LineShown says that the line is before the cursor, and what keeps it    *)
(* there is in which rows it is.                                           *)
ShownInv == ReadersStarted /\ Redrawing /\ \A t \in Terms : Shown(t)

(* The screens are screens, and their cursors are on them. *)
LEMMA ScrFacts ==
  ASSUME TypeOK, CursorsOK, NEW t \in Terms
  PROVE  /\ Scr[t] \in ScreenSet /\ OnScreen(Scr[t].x, Scr[t].y)
         /\ Scr[t].x = termScreenx[t] /\ Scr[t].y = termScreeny[t]
         /\ Scr[t].y \in 0 .. NUM_ROWS - 1
<1>1. PageOf(t, currentTerminal) \in Pages
  BY PagesDiffer DEF TypeOK
<1>2. /\ Scr[t] \in ScreenSet /\ OnScreen(Scr[t].x, Scr[t].y)
      /\ Scr[t].x = termScreenx[t] /\ Scr[t].y = termScreeny[t]
  BY <1>1 DEF Scr, Screen, ScreenSet, TypeOK, CursorsOK
<1>3. Scr[t].y \in 0 .. NUM_ROWS - 1
  BY <1>2, SizeAssumption DEF OnScreen, CursorOK
<1> QED
  BY <1>2, <1>3

LEMMA LineFacts ==
  ASSUME TypeOK
  PROVE  /\ currentTerminal \in Terms /\ scheduled_term \in Terms
         /\ \A t \in Terms : /\ line[t] \in Seq(Chars) /\ Len(line[t]) \in 0 .. LineMax
                             /\ Len(line[t]) \in Nat
<1>1. ASSUME NEW t \in Terms
      PROVE  /\ line[t] \in Seq(Chars) /\ Len(line[t]) \in 0 .. LineMax
             /\ Len(line[t]) \in Nat
  <2>1. line[t] \in Seq(Keys) /\ Len(line[t]) \in 0 .. LineMax
    BY LinesAreSequences, LineTypes DEF TypeOK
  <2> QED
    BY <2>1, ConsoleAssumption
<1> QED
  BY <1>1 DEF TypeOK

(* putc changes the screen it puts the character on and the one whose      *)
(* cursor it moves.                                                        *)
LEMMA PutcMoves ==
  ASSUME TypeOK, NEW t \in Terms, NEW u \in Terms, NEW c, NEW emptied, NEW v \in Terms,
         v = IF c = BACKSPACE THEN currentTerminal ELSE u,
         Putc(PageOf(t, currentTerminal), u, c, emptied),
         UNCHANGED currentTerminal
  PROVE  \A w \in Terms : w = t \/ w = v \/ Scr'[w] = Scr[w]
<1> DEFINE page == PageOf(t, currentTerminal)
           s == PutC(Screen(page, v), c, emptied)
<1>1. /\ video' = [video EXCEPT ![page] = s.cells]
      /\ termScreenx' = [termScreenx EXCEPT ![v] = s.x]
      /\ termScreeny' = [termScreeny EXCEPT ![v] = s.y]
  BY DEF Putc
<1> HIDE DEF s
<1>2. \A w \in Terms : /\ PageOf(w, currentTerminal) \in Pages
                       /\ PageOf(w, currentTerminal) = page => w = t
  BY PagesDiffer DEF TypeOK
<1> QED
  BY <1>1, <1>2 DEF Scr, Screen, TypeOK

(* A line that is not being drawn again is echoed whole. *)
LEMMA WholeLineEchoed ==
  ASSUME redraw = NoRedraw, NEW t
  PROVE  Echoed(t) = line[t]
  BY DEF Echoed

(* Nothing of a line moves: its terminal's screen, the lines and Ctrl+L. *)
LEMMA ShownKept ==
  ASSUME NEW t \in Terms, Shown(t),
         UNCHANGED <<line, redraw>>,
         redraw # NoRedraw => UNCHANGED currentTerminal,
         \/ ~termReadFlag'[t]
         \/ unseen'[t] # {}
         \/ termReadFlag[t] /\ unseen[t] = {} /\ Scr'[t] = Scr[t]
  PROVE  Shown(t)'
<1>1. Echoed(t)' = Echoed(t)
  BY DEF Echoed
<1> QED
  BY <1>1 DEF Shown

(* Nothing at all moves. *)
LEMMA AllShownKept ==
  ASSUME ShownInv, UNCHANGED <<Scr, line, unseen, redraw>>,
         redraw # NoRedraw => UNCHANGED currentTerminal,
         \A t \in Terms : termReadFlag'[t] => termReadFlag[t],
         \A t \in Terms : termReadFlag[t] \in BOOLEAN
  PROVE  \A t \in Terms : Shown(t)'
<1> SUFFICES ASSUME NEW t \in Terms PROVE Shown(t)'
  OBVIOUS
<1>1. Echoed(t)' = Echoed(t)
  BY DEF Echoed
<1> QED
  BY <1>1 DEF Shown, ShownInv

(* A program runs beside a Ctrl+L only after an echo: its line is not      *)
(* empty, and what the program does hides it.                              *)
LEMMA RunningHides ==
  ASSUME TypeOK, CInv, ShownInv, Running, redraw # NoRedraw,
         currentTerminal = scheduled_term
  PROVE  Hidden(scheduled_term)[currentTerminal] # {}
<1>1. redraw.term # scheduled_term
  BY RunningIsNotEchoing
<1>2. redraw.next > 1 /\ redraw.next =< Len(line[currentTerminal]) + 1
  BY <1>1 DEF ShownInv, Redrawing
<1>3. line[currentTerminal] # << >>
  <2>1. redraw.next \in Int /\ Len(line[currentTerminal]) \in Nat
    BY LineFacts, ConsoleAssumption DEF TypeOK
  <2>2. Len(<< >>) = 0
    BY EmptySeq
  <2> QED
    BY <1>2, <2>1, <2>2
<1> QED
  BY <1>3 DEF Hidden, TypeOK

(* What a program does on its own terminal's screen, or at a cursor whose  *)
(* line is then misplaced.                                                 *)
LEMMA ProgramShows ==
  ASSUME TypeOK, CInv, ShownInv, Running,
         UNCHANGED <<line, redraw, termReadFlag, currentTerminal, scheduled_term, started>>,
         \A t \in Terms : \/ t = scheduled_term
                          \/ Scr'[t] = Scr[t] /\ unseen'[t] = unseen[t]
                          \/ unseen'[t] # {},
         currentTerminal = scheduled_term =>
           \/ unseen'[currentTerminal] # {}
           \/ Hidden(scheduled_term)[currentTerminal] = {}
  PROVE  ShownInv'
<1>1. ASSUME NEW t \in Terms PROVE Shown(t)'
  <2>1. CASE t = scheduled_term
    BY <2>1 DEF Running, Shown
  <2>2. CASE t # scheduled_term
    <3>1. Shown(t)
      BY DEF ShownInv
    <3>2. Echoed(t)' = Echoed(t)
      BY DEF Echoed
    <3> QED
      BY <2>2, <3>1, <3>2 DEF Shown
  <2> QED
    BY <2>1, <2>2
<1>2. Redrawing'
  <2> SUFFICES ASSUME redraw # NoRedraw PROVE Redrawing'
    BY DEF Redrawing
  <2>1. currentTerminal = scheduled_term => unseen'[currentTerminal] # {}
    BY RunningHides
  <2>2. \/ unseen'[currentTerminal] # {}
        \/ /\ Scr'[currentTerminal] = Scr[currentTerminal]
           /\ unseen'[currentTerminal] = unseen[currentTerminal]
    BY <2>1 DEF TypeOK
  <2> QED
    BY <2>2 DEF ShownInv, Redrawing
<1> QED
  BY <1>1, <1>2 DEF ShownInv, ReadersStarted

(* A key for the line of the visible terminal. *)
LEMMA TypedShows ==
  ASSUME SettledDown, TypeOK, CursorsOK, CInv, ShownInv,
         NEW c, NEW text \in Lines, NEW emptied, Typed(c, text, emptied),
         \A t \in Terms : t # currentTerminal => unseen'[t] = unseen[t],
         termReadFlag[currentTerminal] /\ unseen'[currentTerminal] = {} =>
           LineAt(PutC(Scr[currentTerminal], c, emptied), text)
  PROVE  ShownInv'
<1>1. /\ UNCHANGED <<currentTerminal, scheduled_term, started, termReadFlag, redraw>>
      /\ line' = [line EXCEPT ![currentTerminal] = text]
      /\ currentTerminal \in Terms /\ redraw = NoRedraw
      /\ EchoBegins(c, emptied)
  BY DEF Typed, UserTypes, KeyboardIdle, boot, TypeOK
<1>2. IF termReadFlag[currentTerminal]
      THEN Scr' = [Scr EXCEPT ![currentTerminal] = PutC(@, c, emptied)]
      ELSE UNCHANGED Scr
  BY <1>1, EchoEffect
<1>3. ASSUME NEW t \in Terms PROVE Shown(t)'
  <2>1. Echoed(t) = line[t] /\ Echoed(t)' = line'[t]
    BY <1>1 DEF Echoed
  <2>2. CASE t # currentTerminal
    <3>1. Scr'[t] = Scr[t] /\ line'[t] = line[t]
      BY <1>1, <1>2, <2>2 DEF Scr, TypeOK
    <3>2. Shown(t)
      BY DEF ShownInv
    <3> QED
      BY <1>1, <2>1, <2>2, <3>1, <3>2 DEF Shown
  <2>3. CASE t = currentTerminal /\ ~termReadFlag[t]
    BY <1>1, <2>3 DEF Shown
  <2>4. CASE t = currentTerminal /\ termReadFlag[t]
    <3>1. /\ Scr'[t] = PutC(Scr[t], c, emptied) /\ line'[t] = text
          /\ termReadFlag'[t] = termReadFlag[t]
      BY <1>1, <1>2, <2>4 DEF Scr, TypeOK
    <3> QED
      BY <2>1, <2>4, <3>1 DEF Shown
  <2> QED
    BY <2>2, <2>3, <2>4
<1> QED
  BY <1>1, <1>3 DEF ShownInv, ReadersStarted, Redrawing

(* Ctrl+L, first: an empty screen, on which nothing is echoed yet. *)
LEMMA ClearShows ==
  ASSUME Fits, SettledDown, TypeOK, CInv, ShownInv, ClearScreen
  PROVE  ShownInv'
<1> DEFINE cur == currentTerminal
<1>1. /\ cur \in Terms /\ Len(line[cur]) \in Nat /\ redraw = NoRedraw
      /\ Scr' = [Scr EXCEPT ![cur] = BlankScreen]
      /\ UNCHANGED <<currentTerminal, scheduled_term, started, termReadFlag, line>>
      /\ redraw' = [term |-> scheduled_term, next |-> 1, sti |-> FALSE]
      /\ unseen' = [unseen EXCEPT ![cur] = IF Len(line[cur]) < NUM_COLS THEN {} ELSE {"long"}]
  BY LineFacts, ClearEffect DEF ClearScreen, UserTypes, KeyboardIdle, boot, reading
<1>2. redraw' # NoRedraw
  BY <1>1 DEF NoRedraw
<1>3. Scr'[cur] = BlankScreen /\ \A t \in Terms : t # cur => Scr'[t] = Scr[t]
  BY <1>1 DEF Scr
<1>4. LineAt(BlankScreen, << >>)
  <2>1. NUM_COLS \in Nat \ {0} /\ NUM_ROWS \in Nat \ {0} /\ MaxPrompt \in Nat
    BY SizeAssumption, ConsoleAssumption
  <2>2. CursorOK(0, 0) /\ 0 \in 0 .. NUM_ROWS - 1
    BY <2>1 DEF CursorOK
  <2>3. Pos(BlankScreen) = 0 /\ Len(<< >>) = 0 /\ NUM_COLS * 0 = 0
    BY <2>1, EmptySeq DEF Pos, BlankScreen
  <2>4. ShowsLine(BlankScreen, << >>, 0, MaxPrompt)
    BY <2>1, <2>3 DEF ShowsLine, BlankScreen
  <2> QED
    BY <2>2, <2>4 DEF LineAt, BlankScreen
<1>5. ASSUME NEW t \in Terms PROVE Shown(t)'
  <2>1. CASE t # cur
    <3>1. Echoed(t) = line[t] /\ Echoed(t)' = line[t]
      BY <1>1, <2>1 DEF Echoed
    <3> QED
      BY <1>1, <1>3, <2>1, <3>1 DEF Shown, ShownInv, TypeOK
  <2>2. CASE t = cur
    <3>1. Echoed(t)' = SubSeq(line[t], 1, 1 - 1)
      BY <1>1, <1>2, <2>2 DEF Echoed
    <3>2. SubSeq(line[t], 1, 1 - 1) = << >>
      BY SubSeqEmpty
    <3> QED
      BY <1>3, <1>4, <2>2, <3>1, <3>2 DEF Shown
  <2> QED
    BY <2>1, <2>2
<1>6. Redrawing'
  <2>1. unseen'[cur] = {} => Len(line[cur]) < NUM_COLS
    BY <1>1 DEF TypeOK
  <2>2. 1 =< Len(line[cur]) + 1 /\ BlankScreen.x = 1 - 1 /\ BlankScreen.y = 0
    BY <1>1 DEF BlankScreen
  <2> QED
    BY <1>1, <1>3, <2>1, <2>2 DEF Redrawing
<1> QED
  BY <1>1, <1>5, <1>6 DEF ShownInv, ReadersStarted

(* The part of a line that is drawn, and one character more. *)
LEMMA OneMore ==
  ASSUME NEW text \in Seq(Chars), NEW n \in 1 .. Len(text)
  PROVE  /\ text[n] \in Chars
         /\ SubSeq(text, 1, n - 1) \in Seq(Chars) /\ Len(SubSeq(text, 1, n - 1)) = n - 1
         /\ Append(SubSeq(text, 1, n - 1), text[n]) = SubSeq(text, 1, n)
<1>1. text[n] \in Chars /\ \A i \in 1 .. n : text[i] \in Chars
  OBVIOUS
<1>2. PICK m \in Nat : m = n - 1
  OBVIOUS
<1>3. /\ SubSeq(text, 1, m) \in Seq(Chars) /\ Len(SubSeq(text, 1, m)) = m
      /\ \A i \in 1 .. m : SubSeq(text, 1, m)[i] = text[i]
  BY <1>1, <1>2
<1>4. Append(SubSeq(text, 1, m), text[n]) = SubSeq(text, 1, n)
  BY <1>1, <1>2, <1>3
<1> QED
  BY <1>1, <1>2, <1>3, <1>4

(* Ctrl+L, a character of the line. *)
LEMMA RedrawShows ==
  ASSUME Fits, SettledDown, TypeOK, CursorsOK, CInv, ShownInv, RedrawNext
  PROVE  ShownInv'
<1> DEFINE cur == currentTerminal
<1>1. PICK text \in Seq(Chars), n \in Nat, m \in Nat, sti \in BOOLEAN :
        /\ text = line[cur] /\ n = redraw.next /\ m = Len(text) /\ m =< LineMax
        /\ sti = (redraw.sti \/ termReadFlag[cur])
  <2>1. redraw.next \in 1 .. LineMax + 1
    BY DEF RedrawNext, TypeOK
  <2>2. redraw.next \in Nat
    BY <2>1, ConsoleAssumption
  <2>3. line[cur] \in Seq(Chars) /\ Len(line[cur]) \in Nat /\ Len(line[cur]) =< LineMax
    BY LineFacts, ConsoleAssumption
  <2>4. (redraw.sti \/ termReadFlag[cur]) \in BOOLEAN
    OBVIOUS
  <2> QED
    BY <2>2, <2>3, <2>4
<1>2. /\ n >= 1 /\ n =< m /\ cur \in Terms /\ redraw # NoRedraw
      /\ EchoBegins(text[n], FALSE)
      /\ UNCHANGED <<currentTerminal, scheduled_term, started, termReadFlag, line>>
      /\ redraw \in [term : Terms, next : 1 .. LineMax + 1, sti : BOOLEAN]
  <2>1. /\ redraw # NoRedraw /\ redraw.next =< Len(line[cur])
        /\ EchoBegins(line[cur][redraw.next], FALSE)
        /\ UNCHANGED <<currentTerminal, scheduled_term, started, termReadFlag, line>>
    BY DEF RedrawNext, boot, reading
  <2>2. redraw \in [term : Terms, next : 1 .. LineMax + 1, sti : BOOLEAN]
    BY <2>1 DEF TypeOK
  <2>3. redraw.next >= 1
    BY <2>2, ConsoleAssumption
  <2>4. cur \in Terms
    BY LineFacts
  <2> HIDE DEF cur
  <2> QED
    BY <1>1, <2>1, <2>2, <2>3, <2>4
<1>3. redraw' = [redraw EXCEPT !.next = n + 1, !.sti = sti]
  BY <1>1 DEF RedrawNext
<1>4. /\ redraw'.next = n + 1 /\ redraw'.sti = sti /\ redraw'.term = redraw.term
      /\ redraw'.term \in Terms
  BY <1>2, <1>3
<1>5. redraw' # NoRedraw
  BY <1>4 DEF NoRedraw, Terms
<1>6. IF termReadFlag[cur]
      THEN Scr' = [Scr EXCEPT ![cur] = PutC(@, text[n], FALSE)] /\ unseen' = unseen
      ELSE Scr' = Scr /\ unseen' = [unseen EXCEPT ![cur] = @ \cup {"ahead"}]
  BY <1>2, EchoEffect DEF RedrawNext
<1>7. \A t \in Terms : t # cur => Scr'[t] = Scr[t] /\ unseen'[t] = unseen[t]
  BY <1>2, <1>6 DEF Scr, TypeOK
<1>8. unseen'[cur] = {} => termReadFlag[cur] /\ unseen[cur] = {}
  BY <1>2, <1>6 DEF TypeOK
<1>9. /\ text[n] \in Chars
      /\ SubSeq(text, 1, n - 1) \in Seq(Chars) /\ Len(SubSeq(text, 1, n - 1)) = n - 1
      /\ Append(SubSeq(text, 1, n - 1), text[n]) = SubSeq(text, 1, n)
  BY <1>1, <1>2, OneMore
<1>10. ASSUME unseen'[cur] = {}
       PROVE  /\ m < NUM_COLS /\ Scr'[cur].x = n /\ Scr'[cur].y = 0
              /\ LineAt(Scr'[cur], SubSeq(text, 1, n))
  <2>1. /\ m < NUM_COLS /\ Scr[cur].x = n - 1 /\ Scr[cur].y = 0
        /\ LineAt(Scr[cur], SubSeq(text, 1, n - 1))
    <3>1. Echoed(cur) = SubSeq(text, 1, n - 1)
      BY <1>1, <1>2 DEF Echoed
    <3> QED
      BY <1>1, <1>2, <1>8, <1>10, <3>1 DEF ShownInv, Redrawing, Shown
  <2>2. Scr'[cur] = Put(Scr[cur], text[n])
    <3>1. text[n] # BACKSPACE
      BY <1>9, CharAssumption
    <3> QED
      BY <1>2, <1>6, <1>8, <1>10, <3>1 DEF Scr, PutC
  <2>3. Scr[cur] \in ScreenSet /\ CursorOK(Scr[cur].x, Scr[cur].y)
    BY <1>2, <2>1, ScrFacts DEF LineAt
  <2>4. /\ NUM_COLS \in Nat /\ NUM_ROWS \in Nat /\ NUM_ROWS > 1 /\ LineMax \in Nat
        /\ MaxPrompt \in Nat /\ MaxPrompt + LineMax < 2 * NUM_COLS
    BY SizeAssumption, ConsoleAssumption DEF Fits
  <2>5. Scr'[cur].x = n /\ Scr'[cur].y = 0
    <3>1. Scr[cur].x + 1 < NUM_COLS /\ Scr[cur].x + 1 = n /\ Scr[cur].y < NUM_ROWS
      BY <1>1, <1>2, <2>1, <2>4
    <3>2. text[n] # NEWLINE
      BY <1>9, CharAssumption
    <3>3. Put(Scr[cur], text[n])
            = [cells |-> [Scr[cur].cells EXCEPT ![Pos(Scr[cur])] = text[n]],
               x |-> Scr[cur].x + 1, y |-> Scr[cur].y]
      BY <2>3, <3>1, <3>2, PutCharEffect
    <3> QED
      BY <2>1, <2>2, <3>1, <3>3
  <2>6. \E r \in 0 .. NUM_ROWS - 1 :
           ShowsLine(Put(Scr[cur], text[n]), SubSeq(text, 1, n), r, MaxPrompt)
    <3>1. PICK r \in 0 .. NUM_ROWS - 1 :
             ShowsLine(Scr[cur], SubSeq(text, 1, n - 1), r, MaxPrompt)
      BY <2>1 DEF LineAt
    <3>2. MaxPrompt + Len(SubSeq(text, 1, n - 1)) + 1 < 2 * NUM_COLS
      BY <1>1, <1>2, <1>9, <2>4
    <3> QED
      BY <1>9, <2>3, <2>4, <3>1, <3>2, PutShows
  <2>7. CursorOK(Scr'[cur].x, Scr'[cur].y)
    BY <2>2, <2>3, PutKeepsCursor
  <2> QED
    BY <2>1, <2>2, <2>5, <2>6, <2>7 DEF LineAt
<1>11. ASSUME NEW t \in Terms PROVE Shown(t)'
  <2>1. CASE t # cur
    <3>1. Echoed(t)' = Echoed(t)
      BY <1>2, <2>1 DEF Echoed
    <3> QED
      BY <1>2, <1>7, <2>1, <3>1 DEF Shown, ShownInv
  <2>2. CASE t = cur
    <3>1. Echoed(t)' = SubSeq(text, 1, n + 1 - 1) /\ n + 1 - 1 = n
      BY <1>1, <1>2, <1>4, <1>5, <2>2 DEF Echoed
    <3> QED
      BY <1>2, <1>10, <2>2, <3>1 DEF Shown
  <2> QED
    BY <2>1, <2>2
<1>12. Redrawing'
  <2>1. redraw.term = scheduled_term
    BY DEF RedrawNext
  <2>2. n + 1 > 1 /\ n + 1 =< m + 1 /\ n = n + 1 - 1
    BY <1>1, <1>2
  <2> QED
    BY <1>1, <1>2, <1>4, <1>10, <2>1, <2>2 DEF Redrawing
<1> QED
  BY <1>2, <1>11, <1>12 DEF ShownInv, ReadersStarted

(* Ctrl+L, at its end: a line that fits a row is where it should be. *)
LEMMA RedrawEndsShows ==
  ASSUME TypeOK, CursorsOK, ShownInv, RedrawEnds
  PROVE  ShownInv'
<1> DEFINE cur == currentTerminal
<1>1. /\ cur \in Terms /\ line[cur] \in Seq(Chars) /\ Len(line[cur]) \in Nat
      /\ redraw # NoRedraw /\ redraw' = NoRedraw
      /\ redraw.next > Len(line[cur]) /\ redraw.next \in Int
      /\ UNCHANGED <<currentTerminal, scheduled_term, started, termReadFlag, line, unseen>>
      /\ Scr' = [Scr EXCEPT ![cur].x = Len(line[cur]), ![cur].y = 0]
  <2>1. /\ redraw # NoRedraw /\ redraw' = NoRedraw /\ redraw.next > Len(line[cur])
        /\ UNCHANGED <<currentTerminal, scheduled_term, started, termReadFlag, line, unseen>>
    BY DEF RedrawEnds, boot, reading, typing
  <2>2. redraw.next \in 1 .. LineMax + 1
    BY <2>1 DEF TypeOK
  <2>3. redraw.next \in Int
    BY <2>2, ConsoleAssumption
  <2> QED
    BY <2>1, <2>3, LineFacts, RedrawEndsEffect
<1>2. redraw.next - 1 = Len(line[cur])
  BY <1>1 DEF ShownInv, Redrawing
<1>3. \A t \in Terms : Echoed(t)' = line[t]
  BY <1>1 DEF Echoed
<1>4. Echoed(cur) = line[cur]
  <2>1. Echoed(cur) = SubSeq(line[cur], 1, Len(line[cur]))
    BY <1>1, <1>2 DEF Echoed
  <2> QED
    BY <1>1, <2>1, SubSeqFull
<1>5. ASSUME NEW t \in Terms PROVE Shown(t)'
  <2>1. CASE t # cur
    <3>1. Echoed(t) = line[t] /\ Scr'[t] = Scr[t]
      BY <1>1, <2>1 DEF Echoed, Scr
    <3> QED
      BY <1>1, <1>3, <2>1, <3>1 DEF Shown, ShownInv
  <2>2. CASE t = cur
    <3>1. ASSUME unseen[cur] = {}
          PROVE  Scr'[cur] = Scr[cur]
      <4>1. Scr[cur].x = Len(line[cur]) /\ Scr[cur].y = 0
        BY <1>1, <1>2, <3>1 DEF ShownInv, Redrawing
      <4> QED
        BY <1>1, <4>1 DEF Scr, Screen
    <3> QED
      BY <1>1, <1>3, <1>4, <2>2, <3>1 DEF Shown, ShownInv
  <2> QED
    BY <2>1, <2>2
<1> QED
  BY <1>1, <1>5 DEF ShownInv, ReadersStarted, Redrawing

(* A program starts to read after a prompt, with nothing typed. *)
LEMMA ReadStartsShows ==
  ASSUME Fits, TypeOK, CursorsOK, CInv, ShownInv, ReadStarts
  PROVE  ShownInv'
<1>1. PICK t \in Terms : t = scheduled_term
  BY DEF TypeOK
<1>2. /\ UNCHANGED <<Scr, line, scheduled_term, started, redraw, currentTerminal>>
      /\ termReadFlag' = [termReadFlag EXCEPT ![t] = TRUE]
      /\ Scr[t].x \in 0 .. MaxPrompt /\ unseen' = Hidden(t) /\ Running
  BY <1>1, ScrFacts DEF ReadStarts, Scr, Screen, PageOf, cursors, boot
<1>3. ASSUME NEW u \in Terms, u # t PROVE Shown(u)' /\ unseen'[u] = unseen[u]
  <2>1. Echoed(u)' = Echoed(u)
    BY <1>2 DEF Echoed
  <2>2. unseen'[u] = unseen[u] /\ termReadFlag'[u] = termReadFlag[u]
    BY <1>2, <1>3 DEF Hidden, TypeOK
  <2> QED
    BY <1>2, <2>1, <2>2 DEF Shown, ShownInv
<1>4. LineAt(Scr[t], << >>)
  <2>1. /\ NUM_COLS \in Nat /\ NUM_ROWS \in Nat /\ NUM_COLS > 0 /\ NUM_ROWS > 0
        /\ MaxPrompt \in Nat /\ MaxPrompt < NUM_COLS
    BY SizeAssumption, ConsoleAssumption DEF Fits
  <2>2. PICK x \in Int, y \in Int, row \in Int :
          /\ x = Scr[t].x /\ y = Scr[t].y /\ row = NUM_COLS * y
          /\ x \in 0 .. MaxPrompt /\ y \in 0 .. NUM_ROWS - 1
    <3>1. Scr[t].x \in Int /\ Scr[t].y \in 0 .. NUM_ROWS - 1
      BY ScrFacts DEF ScreenSet
    <3>2. NUM_COLS * Scr[t].y \in Int
      BY <2>1, <3>1, Rows
    <3> QED
      BY <1>2, <2>1, <3>1, <3>2
  <2>3. CursorOK(x, y)
    BY <2>1, <2>2 DEF CursorOK
  <2>4. Pos(Scr[t]) = row + x
    BY <2>2 DEF Pos
  <2>5. Pos(Scr[t]) - Len(<< >>) \in row .. row + MaxPrompt
    <3>1. Len(<< >>) = 0
      BY EmptySeq
    <3>2. row + x - 0 \in row .. row + MaxPrompt
      BY <2>1, <2>2
    <3> QED
      BY <2>4, <3>1, <3>2
  <2>6. ShowsLine(Scr[t], << >>, y, MaxPrompt)
    BY <2>2, <2>5, EmptySeq DEF ShowsLine
  <2> QED
    BY <2>2, <2>3, <2>6 DEF LineAt
<1>5. redraw # NoRedraw /\ t = currentTerminal => unseen'[t] # {}
  BY <1>1, <1>2, RunningHides
<1>6. Shown(t)'
  <2>1. unseen'[t] = {} => line[t] = << >>
    BY <1>2 DEF Hidden, TypeOK
  <2>2. unseen'[t] = {} => Echoed(t)' = << >>
    BY <1>2, <1>5, <2>1 DEF Echoed
  <2> QED
    BY <1>2, <1>4, <2>2 DEF Shown
<1>7. Redrawing'
  <2>1. redraw # NoRedraw =>
           \/ unseen'[currentTerminal] # {}
           \/ unseen'[currentTerminal] = unseen[currentTerminal]
    BY <1>3, <1>5, LineFacts
  <2> QED
    BY <1>2, <2>1 DEF ShownInv, Redrawing
<1>8. ReadersStarted'
  BY <1>1, <1>2 DEF ShownInv, ReadersStarted, TypeOK
<1> QED
  BY <1>3, <1>6, <1>7, <1>8 DEF ShownInv

(* One step per action. *)
LEMMA ShownNext ==
  ASSUME SettledDown, Careful, Fits, TypeOK, CursorsOK, CInv, ShownInv, [Next]_vars
  PROVE  ShownInv'
<1> DEFINE cur == currentTerminal
<1>1. /\ cur \in Terms /\ scheduled_term \in Terms /\ line[cur] \in Lines
      /\ line[cur] \in Seq(Chars) /\ Len(line[cur]) \in 0 .. LineMax
      /\ Len(line[cur]) \in Nat
  BY LineFacts DEF TypeOK
<1>2. /\ Scr[cur] \in ScreenSet /\ OnScreen(Scr[cur].x, Scr[cur].y)
      /\ Scr[cur].x = termScreenx[cur] /\ Scr[cur].y = termScreeny[cur]
      /\ Scr[cur].y \in 0 .. NUM_ROWS - 1
  BY <1>1, ScrFacts
<1>3. MaxPrompt \in Nat /\ LineMax \in Nat /\ NUM_COLS \in Nat /\ NUM_ROWS \in Nat
  BY ConsoleAssumption, SizeAssumption
<1>4. \A t \in Terms : Shown(t)
  BY DEF ShownInv
<1>5. \A t \in Terms : termReadFlag[t] \in BOOLEAN
  BY DEF TypeOK
<1>6. ASSUME termReadFlag[cur], unseen[cur] = {}, redraw = NoRedraw
      PROVE  LineAt(Scr[cur], line[cur])
  BY <1>1, <1>4, <1>6, WholeLineEchoed DEF Shown
<1>7. ASSUME NEW c \in Chars \cup {NEWLINE, BACKSPACE}, Write(c) PROVE ShownInv'
  <2> DEFINE s == scheduled_term
  <2>1. PICK emptied : Putc(PageOf(s, currentTerminal), PutTerminal, c, emptied)
    BY <1>7, RunningIsNotEchoing DEF Write
  <2>2. PICK u \in Terms, v \in Terms :
           /\ u = PutTerminal /\ v = IF c = BACKSPACE THEN currentTerminal ELSE u
    BY DEF PutTerminal, TypeOK
  <2>3. /\ UNCHANGED <<line, redraw, termReadFlag, currentTerminal, scheduled_term,
                       started>>
        /\ Running
        /\ unseen' = IF v = s THEN Hidden(s) ELSE [Hidden(s) EXCEPT ![v] = @ \cup {"misplaced"}]
    BY <1>7, <2>2 DEF Write, boot, reading
  <2>4. \A t \in Terms : t = s \/ t = v \/ Scr'[t] = Scr[t]
    BY <1>1, <2>1, <2>2, <2>3, PutcMoves
  <2>5. Hidden(s) \in [Terms -> SUBSET Causes]
    BY DEF Hidden, TypeOK, Causes
  <2>6. \A t \in Terms : t # s => Hidden(s)[t] = unseen[t]
    BY DEF Hidden, TypeOK
  <2>7. \A t \in Terms : \/ t = s
                         \/ Scr'[t] = Scr[t] /\ unseen'[t] = unseen[t]
                         \/ unseen'[t] # {}
    BY <2>3, <2>4, <2>5, <2>6
  <2>8. unseen'[s] = Hidden(s)[s]
    BY <1>1, <2>3, <2>5
  <2> QED
    BY <2>3, <2>7, <2>8, ProgramShows
<1>8. ASSUME NEW p \in DrawCells, NEW c \in Chars, Draw(p, c) PROVE ShownInv'
  <2>1. /\ Scr' = [Scr EXCEPT ![scheduled_term].cells[p] = c]
        /\ UNCHANGED <<line, redraw, termReadFlag, currentTerminal, scheduled_term,
                       started>>
        /\ Running /\ unseen' = Hidden(scheduled_term)
    BY <1>8, DrawEffect DEF Draw, boot, reading
  <2>2. \A t \in Terms : t # scheduled_term => Scr'[t] = Scr[t] /\ unseen'[t] = unseen[t]
    BY <2>1 DEF Scr, Hidden, TypeOK
  <2> QED
    BY <2>1, <2>2, ProgramShows
<1>9. CASE Vidmap
  <2>1. UNCHANGED <<Scr, line, unseen, redraw, termReadFlag, currentTerminal,
                    scheduled_term, started>>
    BY <1>9 DEF Vidmap, Scr, Screen, PageOf, cursors, boot, reading, typing
  <2> QED
    BY <1>5, <2>1, AllShownKept DEF ShownInv, ReadersStarted, Redrawing
<1>10. CASE ReadStarts
  BY <1>10, ReadStartsShows
<1>11. CASE ReadEnds
  <2>1. /\ UNCHANGED <<Scr, line, unseen, redraw, currentTerminal, scheduled_term,
                       started>>
        /\ termReadFlag' = [termReadFlag EXCEPT ![scheduled_term] = FALSE]
    BY <1>11 DEF ReadEnds, Scr, Screen, PageOf, cursors, boot, typing
  <2>2. \A t \in Terms : termReadFlag'[t] => termReadFlag[t]
    BY <2>1 DEF TypeOK
  <2> QED
    BY <1>5, <2>1, <2>2, AllShownKept DEF ShownInv, ReadersStarted, Redrawing
<1>12. ASSUME NEW c \in Keys, KeyChar(c) PROVE ShownInv'
  <2> DEFINE text == Append(line[cur], c)
  <2>1. PICK emptied : Typed(c, text, emptied)
    BY <1>12 DEF KeyChar
  <2>2. /\ text \in Lines /\ Len(line[cur]) < LineMax /\ redraw = NoRedraw
        /\ c \in Chars /\ c # BACKSPACE
    BY <1>1, <1>12, LineTypes, ConsoleAssumption, CharAssumption
    DEF KeyChar, Typed, UserTypes, KeyboardIdle
  <2>3. /\ \A t \in Terms : t # cur => unseen'[t] = unseen[t]
        /\ termReadFlag[cur] => unseen' = unseen
    BY <1>12 DEF KeyChar, TypeOK
  <2>4. ASSUME termReadFlag[cur], unseen'[cur] = {}
        PROVE  LineAt(PutC(Scr[cur], c, emptied), text)
    <3>1. LineAt(Scr[cur], line[cur])
      BY <1>6, <2>2, <2>3, <2>4
    <3>2. PICK r \in 0 .. NUM_ROWS - 1 : ShowsLine(Scr[cur], line[cur], r, MaxPrompt)
      BY <3>1 DEF LineAt
    <3>3. NUM_ROWS > 1 /\ MaxPrompt + Len(line[cur]) + 1 < 2 * NUM_COLS
      BY <1>1, <1>3, <2>2 DEF Fits
    <3>4. PutC(Scr[cur], c, emptied) = Put(Scr[cur], c)
      BY <2>2 DEF PutC
    <3>5. CursorOK(Scr[cur].x, Scr[cur].y)
      BY <3>1 DEF LineAt
    <3>6. \E q \in 0 .. NUM_ROWS - 1 : ShowsLine(Put(Scr[cur], c), text, q, MaxPrompt)
      BY <1>1, <1>2, <1>3, <2>2, <3>2, <3>3, <3>5, PutShows
    <3> QED
      BY <1>2, <3>4, <3>5, <3>6, PutKeepsCursor DEF LineAt
  <2> HIDE DEF text
  <2> QED
    BY <2>1, <2>2, <2>3, <2>4, TypedShows
<1>13. CASE KeyBackspace
  <2> DEFINE old == line[cur]
             short == SubSeq(old, 1, Len(old) - 1)
  <2>1. PICK emptied \in BOOLEAN : emptied = (Len(old) = 1)
    OBVIOUS
  <2>2. /\ old # << >> /\ Typed(BACKSPACE, short, emptied) /\ unseen' = unseen
        /\ ~LeavesTop(emptied) /\ redraw = NoRedraw
    BY <1>13, <2>1 DEF KeyBackspace, MayErase, Careful, Typed, UserTypes, KeyboardIdle
  <2>3. short \in Lines
    BY <1>1, <2>2, LineTypes
  <2>4. ASSUME termReadFlag[cur], unseen'[cur] = {}
        PROVE  LineAt(PutC(Scr[cur], BACKSPACE, emptied), short)
    <3>1. LineAt(Scr[cur], old)
      BY <1>6, <2>2, <2>4
    <3>2. PICK r \in 0 .. NUM_ROWS - 1 : ShowsLine(Scr[cur], old, r, MaxPrompt)
      BY <3>1 DEF LineAt
    <3>3. ~(emptied /\ Scr[cur].x = 1 /\ Scr[cur].y = 0)
      <4>1. CRem(0, NUM_COLS) = 0
        BY SizeAssumption DEF CRem
      <4>2. CRem(1 - 1, NUM_COLS) = 0
        BY <4>1
      <4> QED
        BY <1>2, <2>2, <4>2 DEF LeavesTop
    <3>4. PutC(Scr[cur], BACKSPACE, emptied) = Erased(Scr[cur], emptied)
      BY DEF PutC
    <3>5. CursorOK(Scr[cur].x, Scr[cur].y)
      BY <3>1 DEF LineAt
    <3>6. \E q \in 0 .. NUM_ROWS - 1 : ShowsLine(Erased(Scr[cur], emptied), short, q, MaxPrompt)
      BY <1>1, <1>2, <1>3, <2>1, <2>2, <3>2, <3>3, <3>5, ErasedShows
    <3> QED
      BY <1>2, <3>3, <3>4, <3>5, <3>6, ErasedKeepsCursor DEF LineAt
  <2> HIDE DEF short
  <2>5. ASSUME NEW e, e = emptied PROVE ShownInv'
    BY <2>2, <2>3, <2>4, <2>5, TypedShows
  <2> QED
    BY <2>5
<1>14. CASE KeyEnter
  <2>1. /\ << >> \in Lines /\ Typed(NEWLINE, << >>, FALSE)
        /\ \A t \in Terms : t # cur => unseen'[t] = unseen[t]
    BY <1>1, <1>14, LineTypes DEF KeyEnter, TypeOK
  <2>2. LineAt(PutC(Scr[cur], NEWLINE, FALSE), << >>)
    <3>1. PutC(Scr[cur], NEWLINE, FALSE) = Put(Scr[cur], NEWLINE)
      BY CharAssumption DEF PutC
    <3>2. CursorOK(PutC(Scr[cur], NEWLINE, FALSE).x, PutC(Scr[cur], NEWLINE, FALSE).y)
      BY <1>2, CharAssumption, PutCKeepsOnScreen
    <3>3. \E r \in 0 .. NUM_ROWS - 1 : ShowsLine(Put(Scr[cur], NEWLINE), << >>, r, MaxPrompt)
      BY <1>2, <1>3, NewlineShows
    <3> QED
      BY <3>1, <3>2, <3>3 DEF LineAt
  <2> QED
    BY <2>1, <2>2, TypedShows
<1>15. CASE ClearScreen
  BY <1>15, ClearShows
<1>16. CASE RedrawNext
  BY <1>16, RedrawShows
<1>17. CASE RedrawEnds
  BY <1>17, RedrawEndsShows
<1>18. CASE EchoEnds
  <2>1. UNCHANGED <<Scr, line, unseen, redraw, termReadFlag, currentTerminal,
                    scheduled_term, started>>
    BY <1>18 DEF EchoEnds, Scr, Screen, PageOf, cursors, boot, reading, typing
  <2> QED
    BY <1>5, <2>1, AllShownKept DEF ShownInv, ReadersStarted, Redrawing
<1>19. ASSUME NEW next \in Terms, SwitchTo(next) PROVE ShownInv'
  <2>1. /\ UNCHANGED Scr /\ redraw = NoRedraw
        /\ UNCHANGED <<line, unseen, redraw, termReadFlag, scheduled_term, started>>
    BY <1>19, SwappedScreens DEF SwitchTo, KeyboardIdle, boot, reading, typing
  <2> QED
    BY <1>5, <2>1, AllShownKept DEF ShownInv, ReadersStarted, Redrawing
<1>20. CASE TickStarts
  <2>1. NextTerm \notin started /\ ~doneInstantiating
    BY <1>20, NextTermInTerms, <1>1 DEF TickStarts, CInv, BootOrder
  <2>2. /\ Scr' = [Scr EXCEPT ![NextTerm] = BlankScreen] /\ redraw = NoRedraw
        /\ UNCHANGED <<line, unseen, termReadFlag, redraw>>
        /\ started' = started \cup {NextTerm} /\ scheduled_term' = NextTerm
    BY <1>20, <2>1, ClearedScreen, BootTicks DEF TickStarts, Preempts, reading, typing
  <2>3. \A t \in Terms : termReadFlag[t] => t \in started /\ Scr'[t] = Scr[t]
    BY <2>1, <2>2 DEF ShownInv, ReadersStarted, Scr
  <2>4. \A t \in Terms : Shown(t)'
    BY <1>4, <1>5, <2>2, <2>3, ShownKept DEF Shown
  <2> QED
    BY <2>2, <2>3, <2>4 DEF ShownInv, ReadersStarted, Redrawing
<1>21. CASE TickShowsFirst
  <2>1. /\ UNCHANGED Scr /\ redraw = NoRedraw
        /\ UNCHANGED <<line, unseen, redraw, termReadFlag, started>>
        /\ scheduled_term' = NextTerm /\ NextTerm \in started
    BY <1>21, FirstTerm, SwappedScreens, BootTicks
    DEF TickShowsFirst, Preempts, reading, typing
  <2> QED
    BY <1>5, <2>1, AllShownKept DEF ShownInv, ReadersStarted, Redrawing
<1>22. CASE TickSwitches
  <2>1. /\ UNCHANGED <<Scr, line, unseen, redraw, termReadFlag, started, currentTerminal>>
        /\ scheduled_term' = NextTerm /\ NextTerm \in started
        /\ redraw.term = scheduled_term => redraw.sti
    BY <1>22
    DEF TickSwitches, Preempts, Scr, Screen, PageOf, cursors, boot, reading, typing
  <2> QED
    BY <1>5, <2>1, AllShownKept DEF ShownInv, ReadersStarted, Redrawing
<1>23. CASE UNCHANGED vars
  <2>1. UNCHANGED <<Scr, line, unseen, redraw, termReadFlag, currentTerminal,
                    scheduled_term, started>>
    BY <1>23 DEF vars, Scr, Screen, PageOf, cursors, boot, reading, typing
  <2> QED
    BY <1>5, <2>1, AllShownKept DEF ShownInv, ReadersStarted, Redrawing
<1> QED
  BY <1>7, <1>8, <1>9, <1>10, <1>11, <1>12, <1>13, <1>14, <1>15, <1>16, <1>17, <1>18,
     <1>19, <1>20, <1>21, <1>22, <1>23 DEF Next

(* The line that terminal_read will give a program is what the user sees   *)
(* before the cursor: keyboardputc, putc and its scrolling, the backspace  *)
(* over the end of a row, Ctrl+L and terminal_changing keep it there,      *)
(* wherever the timer ticks, unless it was typed ahead, a program printed  *)
(* at its cursor, or Ctrl+L found it too long for a row.                   *)
THEOREM LineIsShown ==
  ASSUME SettledDown, Careful, Fits
  PROVE  Spec => []LineShown
<1>1. Init => ShownInv
  <2> SUFFICES ASSUME Init PROVE ShownInv
    OBVIOUS
  <2>1. \A t \in Terms : ~termReadFlag[t]
    BY DEF Init
  <2> QED
    BY <2>1 DEF Init, ShownInv, ReadersStarted, Shown, Redrawing
<1>2. TypeOK /\ CursorsOK /\ [Next]_vars => CursorsOK'
  BY CursorsNext
<1>3. TypeOK /\ CursorsOK /\ CInv /\ ShownInv /\ [Next]_vars => ShownInv'
  BY ShownNext
<1>4. TypeOK /\ CursorsOK /\ ShownInv => LineShown
  <2> SUFFICES ASSUME TypeOK, CursorsOK, ShownInv, NEW t \in Terms,
                      termReadFlag[t], unseen[t] = {}
               PROVE  ShowsEchoed(t)
    BY DEF LineShown
  <2>1. LineAt(Scr[t], Echoed(t))
    BY DEF ShownInv, Shown
  <2>2. PICK r \in 0 .. NUM_ROWS - 1 : ShowsLine(Scr[t], Echoed(t), r, MaxPrompt)
    BY <2>1 DEF LineAt
  <2>3. Echoed(t) \in Seq(Chars)
    <3>1. line[t] \in Seq(Chars) /\ Len(line[t]) \in Nat
      BY LineFacts
    <3>2. ASSUME redraw # NoRedraw, t = currentTerminal
          PROVE  SubSeq(line[t], 1, redraw.next - 1) \in Seq(Chars)
      <4>1. PICK n \in Int : n = redraw.next - 1 /\ n =< Len(line[t])
        BY <3>1, <3>2, ConsoleAssumption DEF TypeOK, ShownInv, Redrawing
      <4>2. \A i \in 1 .. n : line[t][i] \in Chars
        BY <3>1, <4>1
      <4> QED
        BY <4>1, <4>2, SubSeqProperties
    <3> QED
      BY <3>1, <3>2 DEF Echoed
  <2>4. Scr[t] \in ScreenSet /\ CursorOK(Scr[t].x, Scr[t].y)
    BY <2>1, ScrFacts DEF LineAt
  <2>5. \A i \in 1 .. Len(Echoed(t)) :
           /\ Pos(Scr[t]) - Len(Echoed(t)) + i - 1 \in Positions
           /\ Scr[t].cells[Pos(Scr[t]) - Len(Echoed(t)) + i - 1] = Echoed(t)[i]
    BY <2>2, <2>3, <2>4, ConsoleAssumption, ShownOnScreen
  <2> QED
    BY <2>5 DEF ShowsEchoed, Scr
<1> QED
  BY <1>1, <1>2, <1>3, <1>4, CursorsInit, TypeCorrect, MappingInvariant, PTL DEF Spec
=============================================================================
