------------------------------- MODULE Console ------------------------------
(***************************************************************************)
(* Video memory: putc, keyboardputc and clear (lib.c), the page tables     *)
(* through which the kernel and the programs reach it (paging.c, vidmap in *)
(* systemCall.c, set_paging_scheduling in scheduling.c), and the switch of *)
(* the visible terminal.                                                   *)
(*                                                                         *)
(* There is one physical screen, the page VIDEO, and a page per terminal   *)
(* for its screen while it is not shown.  The kernel always prints to the  *)
(* virtual page VIDEO, and a program draws on its vidmap page; which       *)
(* physical pages these are is changed by the timer, by a switch and,      *)
(* while a key is echoed, by keyboardputc.                                 *)
(*                                                                         *)
(* The keyboard buffer is kept here as the line typed in each terminal:    *)
(* that keyboard_buf and buf_idx, saved and loaded at a switch, are that   *)
(* is the subject of module Terminals.                                     *)
(***************************************************************************)
EXTENDS Cells

CONSTANTS NUM_TERMS,   \* terminals (3)
          Keys,        \* the characters the user types
          LineMax,     \* the longest line: BUFSIZE - 1 (127)
          MaxPrompt,   \* the column by which programs start to read
          DrawCells,   \* the cells that programs draw through vidmap
          MaxOutput,   \* bound: characters written by programs and keys
          Habits       \* what users and programs do beyond the ordinary

ASSUME ConsoleAssumption ==
    /\ NUM_TERMS \in Nat \ {0} /\ LineMax \in Nat /\ MaxPrompt \in Nat
    /\ Keys \subseteq Chars /\ DrawCells \subseteq Positions
    /\ Habits \subseteq {"TypesAtBoot", "ErasesBareTop", "PrintsBackspace"}

Terms == 1 .. NUM_TERMS      \* 1-indexed, as currentTerminal is
VIDEO == 0                   \* the physical page that the screen shows
Pages == 0 .. NUM_TERMS      \* and page t: VIDEO + t * 4 kB
Lines == UNION {[1 .. n -> Keys] : n \in 0 .. LineMax}
NoEcho == [term |-> 0, oldAddr |-> 0, emptied |-> FALSE]
NoRedraw == [term |-> 0, next |-> 0, sti |-> FALSE]

(* Why a line may not be on the screen: it was typed ahead of the read, or *)
(* something else was printed at the cursor, or it was too long to redraw. *)
Causes == {"ahead", "misplaced", "long"}

VARIABLES
    video,              \* the cells of each physical page
    kernelPage,         \* page_table[VIDEO/FourKB].p_address
    userPage,           \* video_page_table[0].p_address
    termScreenx, termScreeny,     \* the cursor of each terminal
    currentTerminal,    \* the visible terminal
    scheduled_term,     \* the terminal whose program has the processor
    started,            \* terminalInstantiated
    doneInstantiating,
    keyboardPutCFlag,
    echo,               \* a keyboardputc between putc's sti and its end: the
                        \* terminal it interrupted, its oldAddr, and
                        \* whether buf_idx is 0 until then
    redraw,             \* a Ctrl+L that draws the line: the terminal it
                        \* interrupted, the next character, and whether an
                        \* echo has enabled interrupts
    termReadFlag,       \* is the terminal's program in terminal_read?
    enter_flag,         \* was a line entered in the terminal?
    line,               \* the line typed in each terminal
    unseen,             \* history: why a terminal's line may not be shown
    output              \* history: characters written so far

mapping == <<kernelPage, userPage>>
cursors == <<termScreenx, termScreeny>>
boot == <<started, doneInstantiating>>
reading == <<termReadFlag, enter_flag>>
typing == <<line, unseen>>
vars == <<video, mapping, cursors, currentTerminal, scheduled_term, boot,
          keyboardPutCFlag, echo, redraw, reading, typing, output>>

TypeOK ==
    /\ video \in [Pages -> Grids]
    /\ kernelPage \in Pages /\ userPage \in Pages
    /\ termScreenx \in [Terms -> Int] /\ termScreeny \in [Terms -> Int]
    /\ currentTerminal \in Terms /\ scheduled_term \in Terms
    /\ started \subseteq Terms /\ doneInstantiating \in BOOLEAN
    /\ keyboardPutCFlag \in {0, 1}
    /\ echo \in [term : Terms, oldAddr : Pages, emptied : BOOLEAN] \cup {NoEcho}
    /\ redraw \in [term : Terms, next : 1 .. LineMax + 1, sti : BOOLEAN] \cup {NoRedraw}
    /\ termReadFlag \in [Terms -> BOOLEAN] /\ enter_flag \in [Terms -> BOOLEAN]
    /\ line \in [Terms -> Lines]
    /\ unseen \in [Terms -> SUBSET Causes]
    /\ output \in Nat

-----------------------------------------------------------------------------
(* Where things are. *)

(* Mutated form: the terminal is counted from 0 here too. *)
PageOfNext(t, v) == IF t = v THEN VIDEO ELSE t + 1

(* The page that holds terminal t's screen while terminal v is visible. *)
PageOf(t, v) == IF t = v THEN VIDEO ELSE t

(* Terminal t's screen as seen through physical page p. *)
Screen(p, t) == [cells |-> video[p], x |-> termScreenx[t], y |-> termScreeny[t]]

(* The terminal whose cursor putc moves. *)
PutTerminal == IF keyboardPutCFlag = 1 THEN currentTerminal ELSE scheduled_term

(* paging_init: the entries of the page directory.  Whether user mode may  *)
(* use one, and the frames it leads to.                                    *)
Frame(kind, n) == [kind |-> kind, n |-> n]
DirectoryEntry(i) ==
    CASE i = 0  -> [user |-> FALSE, frames |-> {Frame("screen", kernelPage)} \cup
                                               {Frame("screen", t) : t \in Terms}]
      [] i = 1  -> [user |-> FALSE, frames |-> {Frame("kernel", 0)}]
      [] i = 32 -> [user |-> TRUE, frames |-> {Frame("program", scheduled_term)}]
      [] i = 33 -> [user |-> TRUE, frames |-> {Frame("screen", userPage)}]
UserFrames == UNION {DirectoryEntry(i).frames : i \in {j \in {0, 1, 32, 33} :
                                                         DirectoryEntry(j).user}}

Init ==
    /\ video = [p \in Pages |-> BlankScreen.cells]
    /\ kernelPage = VIDEO /\ userPage = VIDEO
    /\ termScreenx = [t \in Terms |-> 0] /\ termScreeny = [t \in Terms |-> 0]
    /\ currentTerminal = 1 /\ scheduled_term = 1
    /\ started = {1} /\ doneInstantiating = (NUM_TERMS = 1)
    /\ keyboardPutCFlag = 0 /\ echo = NoEcho /\ redraw = NoRedraw
    /\ termReadFlag = [t \in Terms |-> FALSE]
    /\ enter_flag = [t \in Terms |-> FALSE]
    /\ line = [t \in Terms |-> << >>]
    /\ unseen = [t \in Terms |-> {}]
    /\ output = 0

-----------------------------------------------------------------------------
(* Writing. *)

(* putc on the given page: a backspace moves the cursor of the visible     *)
(* terminal, anything else that of putTerminal.                            *)
Putc(page, putTerminal, c, emptied) ==
    LET t == IF c = BACKSPACE THEN currentTerminal ELSE putTerminal
        s == PutC(Screen(page, t), c, emptied)
    IN
    /\ video' = [video EXCEPT ![page] = s.cells]
    /\ termScreenx' = [termScreenx EXCEPT ![t] = s.x]
    /\ termScreeny' = [termScreeny EXCEPT ![t] = s.y]

(* The keyboard's handler is on the kernel stack of terminal t. *)
Interrupted(t) == t \in {echo.term, redraw.term}

(* The program of the scheduled terminal runs, and is not in a read. *)
Running == ~termReadFlag[scheduled_term] /\ ~Interrupted(scheduled_term)

(* The line of terminal t, if there is one, is from now on hard to find. *)
Hidden(t) ==
    IF line[t] = << >> THEN unseen ELSE [unseen EXCEPT ![t] = @ \cup {"ahead"}]

(* The backspace of a line that is now empty would go to row -1. *)
LeavesTop(emptied) ==
    /\ emptied /\ termScreeny[currentTerminal] = 0
    /\ CRem(termScreenx[currentTerminal] - 1, NUM_COLS) = 0

MayErase(emptied) == LeavesTop(emptied) => "ErasesBareTop" \in Habits

(* One character of a write or printf: putc disables interrupts.  While a  *)
(* preempted echo has the flag up, and for a backspace, it is put at the   *)
(* cursor of the visible terminal.                                         *)
Write(c) ==
    LET emptied == IF echo = NoEcho THEN line[currentTerminal] = << >> ELSE echo.emptied
        cursor == IF c = BACKSPACE THEN currentTerminal ELSE PutTerminal
    IN
    /\ Running /\ output < MaxOutput
    /\ c = BACKSPACE => "PrintsBackspace" \in Habits /\ MayErase(emptied)
    /\ Putc(kernelPage, PutTerminal, c, emptied)
    /\ output' = output + 1
    /\ unseen' = IF cursor = scheduled_term THEN Hidden(scheduled_term)
                 ELSE [Hidden(scheduled_term) EXCEPT ![cursor] = @ \cup {"misplaced"}]
    /\ UNCHANGED <<mapping, currentTerminal, scheduled_term, boot, keyboardPutCFlag,
                   echo, redraw, reading, line>>

(* vidmap, with a pointer it accepts. *)
Vidmap ==
    /\ Running
    /\ userPage' = PageOf(scheduled_term, currentTerminal)
    /\ UNCHANGED <<video, kernelPage, cursors, currentTerminal, scheduled_term, boot,
                   keyboardPutCFlag, echo, redraw, reading, typing, output>>

(* A program draws a cell through the page that vidmap returned. *)
Draw(p, c) ==
    /\ Running /\ output < MaxOutput
    /\ video' = [video EXCEPT ![userPage][p] = c]
    /\ output' = output + 1
    /\ unseen' = Hidden(scheduled_term)
    /\ UNCHANGED <<mapping, cursors, currentTerminal, scheduled_term, boot,
                   keyboardPutCFlag, echo, redraw, reading, line>>

(* terminal_read, up to the wait; programs read at the start of a row or   *)
(* after a short prompt.                                                   *)
ReadStarts ==
    /\ Running
    /\ termScreenx[scheduled_term] \in 0 .. MaxPrompt
    /\ termReadFlag' = [termReadFlag EXCEPT ![scheduled_term] = TRUE]
    /\ unseen' = Hidden(scheduled_term)
    /\ UNCHANGED <<video, mapping, cursors, currentTerminal, scheduled_term, boot,
                   keyboardPutCFlag, echo, redraw, enter_flag, line, output>>

ReadEnds ==
    /\ termReadFlag[scheduled_term] /\ enter_flag[scheduled_term]
    /\ ~Interrupted(scheduled_term)
    /\ termReadFlag' = [termReadFlag EXCEPT ![scheduled_term] = FALSE]
    /\ enter_flag' = [enter_flag EXCEPT ![scheduled_term] = FALSE]
    /\ UNCHANGED <<video, mapping, cursors, currentTerminal, scheduled_term, boot,
                   keyboardPutCFlag, echo, redraw, typing, output>>

-----------------------------------------------------------------------------
(* The keyboard.  Its interrupt is in service until the handler has ended, *)
(* so no other key is handled before; the timer's is not kept out by that. *)
KeyboardIdle == echo = NoEcho /\ redraw = NoRedraw

(* keyboardputc up to the end of putc, which enables interrupts; it does   *)
(* nothing unless the visible terminal's program is in terminal_read.      *)
EchoBegins(c, emptied) ==
    IF termReadFlag[currentTerminal]
    THEN /\ Putc(VIDEO, currentTerminal, c, emptied)
         /\ kernelPage' = VIDEO
         /\ keyboardPutCFlag' = 1
         /\ echo' = [term |-> scheduled_term, oldAddr |-> kernelPage, emptied |-> emptied]
    ELSE UNCHANGED <<video, cursors, kernelPage, keyboardPutCFlag, echo>>

(* The rest of keyboardputc, when the process it interrupted runs again. *)
EchoEnds ==
    /\ echo # NoEcho /\ echo.term = scheduled_term
    /\ keyboardPutCFlag' = 0
    /\ kernelPage' = echo.oldAddr
    /\ echo' = NoEcho
    /\ UNCHANGED <<video, userPage, cursors, currentTerminal, scheduled_term, boot,
                   redraw, reading, typing, output>>

(* The user types where a program waits for it, and not in the few time    *)
(* slices in which the three shells start.                                 *)
UserTypes ==
    /\ KeyboardIdle
    /\ doneInstantiating \/ ~termReadFlag[currentTerminal] \/ "TypesAtBoot" \in Habits

(* The line becomes text; buf_idx, which a backspace changes before the    *)
(* echo and the other keys after it, is 0 in the echo if emptied.          *)
Typed(c, text, emptied) ==
    /\ UserTypes
    /\ line' = [line EXCEPT ![currentTerminal] = text]
    /\ EchoBegins(c, emptied)
    /\ UNCHANGED <<userPage, currentTerminal, scheduled_term, boot, redraw, termReadFlag>>

KeyChar(c) ==
    /\ Len(line[currentTerminal]) < LineMax /\ output < MaxOutput
    /\ output' = output + 1
    /\ Typed(c, Append(line[currentTerminal], c), line[currentTerminal] = << >>)
    /\ unseen' = IF termReadFlag[currentTerminal] THEN unseen
                 ELSE [unseen EXCEPT ![currentTerminal] = @ \cup {"ahead"}]
    /\ UNCHANGED enter_flag

KeyBackspace ==
    LET old == line[currentTerminal] IN
    /\ old # << >> /\ MayErase(Len(old) = 1)
    /\ Typed(BACKSPACE, SubSeq(old, 1, Len(old) - 1), Len(old) = 1)
    /\ UNCHANGED <<unseen, enter_flag, output>>

KeyEnter ==
    /\ output < MaxOutput
    /\ output' = output + 1
    /\ Typed(NEWLINE, << >>, FALSE)
    /\ enter_flag' = [enter_flag EXCEPT ![currentTerminal] = TRUE]
    /\ unseen' = [unseen EXCEPT ![currentTerminal] = {}]

(* Ctrl+L: clear, which restores the mapping before anything else runs. *)
ClearScreen ==
    /\ UserTypes
    /\ video' = [video EXCEPT ![VIDEO] = BlankScreen.cells]
    /\ termScreenx' = [termScreenx EXCEPT ![currentTerminal] = 0]
    /\ termScreeny' = [termScreeny EXCEPT ![currentTerminal] = 0]
    /\ redraw' = [term |-> scheduled_term, next |-> 1, sti |-> FALSE]
    /\ unseen' = [unseen EXCEPT ![currentTerminal] =
                     IF Len(line[currentTerminal]) < NUM_COLS THEN {} ELSE {"long"}]
    /\ UNCHANGED <<mapping, currentTerminal, scheduled_term, boot, keyboardPutCFlag,
                   echo, reading, line, output>>

(* Then the line, one keyboardputc for each character. *)
RedrawNext ==
    LET shows == termReadFlag[currentTerminal] IN
    /\ redraw # NoRedraw /\ redraw.term = scheduled_term /\ echo = NoEcho
    /\ redraw.next =< Len(line[currentTerminal])
    /\ EchoBegins(line[currentTerminal][redraw.next], FALSE)
    /\ redraw' = [redraw EXCEPT !.next = @ + 1, !.sti = @ \/ shows]
    /\ unseen' = IF shows THEN unseen
                 ELSE [unseen EXCEPT ![currentTerminal] = @ \cup {"ahead"}]
    /\ UNCHANGED <<userPage, currentTerminal, scheduled_term, boot, reading, line, output>>

(* And clear_help. *)
RedrawEnds ==
    /\ redraw # NoRedraw /\ redraw.term = scheduled_term /\ echo = NoEcho
    /\ redraw.next > Len(line[currentTerminal])
    /\ termScreenx' = [termScreenx EXCEPT ![currentTerminal] = Len(line[currentTerminal])]
    /\ termScreeny' = [termScreeny EXCEPT ![currentTerminal] = 0]
    /\ redraw' = NoRedraw
    /\ UNCHANGED <<video, mapping, currentTerminal, scheduled_term, boot,
                   keyboardPutCFlag, echo, reading, typing, output>>

-----------------------------------------------------------------------------
(* The switch of terminals, and the timer. *)

(* Mutated form: the video page of programs is left as it was. *)
SetKernelPageOnly(t, v) == kernelPage' = PageOf(t, v) /\ UNCHANGED userPage

set_paging_scheduling(t, v) ==
    /\ kernelPage' = PageOf(t, v)
    /\ userPage' = PageOf(t, v)

(* Mutated form: the screen that was visible is not saved. *)
LoadedOnly(next) == [video EXCEPT ![VIDEO] = video[next]]

(* terminal_changing: save the visible screen, show that of next. *)
Swapped(next) ==
    IF next = currentTerminal THEN video
    ELSE [video EXCEPT ![currentTerminal] = video[VIDEO], ![VIDEO] = video[next]]

(* Alt+Fn: terminal_changing_handler. *)
SwitchTo(next) ==
    /\ KeyboardIdle
    /\ set_paging_scheduling(scheduled_term, next)
    /\ video' = Swapped(next)
    /\ currentTerminal' = next
    /\ UNCHANGED <<cursors, scheduled_term, boot, keyboardPutCFlag, echo, redraw,
                   reading, typing, output>>

NextTerm == (scheduled_term % NUM_TERMS) + 1

(* The tick comes wherever interrupts are enabled: in programs, in reads,  *)
(* in the rest of an echo, and between the echoes of a Ctrl+L.             *)
Preempts ==
    /\ redraw.term = scheduled_term => redraw.sti
    /\ scheduled_term' = NextTerm
    /\ UNCHANGED <<keyboardPutCFlag, echo, redraw, reading, typing, output>>

(* The first turn of a terminal: it is shown, cleared and gets its shell. *)
TickStarts ==
    /\ NextTerm \notin started
    /\ Preempts
    /\ set_paging_scheduling(NextTerm, NextTerm)
    /\ video' = [Swapped(NextTerm) EXCEPT ![VIDEO] = BlankScreen.cells]
    /\ currentTerminal' = NextTerm
    /\ termScreenx' = [termScreenx EXCEPT ![NextTerm] = 0]
    /\ termScreeny' = [termScreeny EXCEPT ![NextTerm] = 0]
    /\ started' = started \cup {NextTerm}
    /\ UNCHANGED doneInstantiating

(* When all have started, the first terminal is shown. *)
TickShowsFirst ==
    /\ NextTerm \in started /\ ~doneInstantiating
    /\ Preempts
    /\ set_paging_scheduling(NextTerm, 1)
    /\ video' = Swapped(1)
    /\ currentTerminal' = 1
    /\ doneInstantiating' = TRUE
    /\ UNCHANGED <<cursors, started>>

TickSwitches ==
    /\ NextTerm \in started /\ doneInstantiating
    /\ Preempts
    /\ set_paging_scheduling(NextTerm, currentTerminal)
    /\ UNCHANGED <<video, cursors, currentTerminal, boot>>

Next ==
    \/ \E c \in Chars \cup {NEWLINE, BACKSPACE} : Write(c)
    \/ \E p \in DrawCells, c \in Chars : Draw(p, c)
    \/ Vidmap \/ ReadStarts \/ ReadEnds
    \/ \E c \in Keys : KeyChar(c)
    \/ KeyBackspace \/ KeyEnter \/ ClearScreen \/ RedrawNext \/ RedrawEnds
    \/ EchoEnds
    \/ \E next \in Terms : SwitchTo(next)
    \/ TickStarts \/ TickShowsFirst \/ TickSwitches

Spec == Init /\ [][Next]_vars

-----------------------------------------------------------------------------
(* Properties. *)

(* Whatever was switched, shown or echoed, and wherever a tick came in an  *)
(* echo: the kernel prints to and the program draws on the screen of the   *)
(* program's own terminal (keyboardputc, in whose handler no program runs, *)
(* excepted), and user mode reaches no other frame than that and the       *)
(* program's memory.                                                       *)
OwnScreenMapped ==
    /\ UserFrames = {Frame("program", scheduled_term),
                     Frame("screen", PageOf(scheduled_term, currentTerminal))}
    /\ echo.term # scheduled_term => kernelPage = PageOf(scheduled_term, currentTerminal)

(* Every cursor is on its screen: putc writes no other memory. *)
CursorOnScreen == \A t \in Terms : Pos(Screen(VIDEO, t)) \in Positions

(* What of terminal t's line is echoed: all of it, or what Ctrl+L has      *)
(* drawn again so far.                                                     *)
Echoed(t) ==
    IF redraw # NoRedraw /\ t = currentTerminal THEN SubSeq(line[t], 1, redraw.next - 1)
    ELSE line[t]

(* It is on terminal t's screen, before the cursor. *)
ShowsEchoed(t) ==
    LET s == Screen(PageOf(t, currentTerminal), t)
        start == Pos(s) - Len(Echoed(t))
    IN \A i \in 1 .. Len(Echoed(t)) : /\ start + i - 1 \in Positions
                                     /\ s.cells[start + i - 1] = Echoed(t)[i]

(* While a program reads, the line that it will be given is what the user  *)
(* sees before the cursor, over wrapped rows, scrolling, erasing, Ctrl+L   *)
(* and switches of terminal, ticks within all of these and the output of   *)
(* the other programs; unless it was typed before the program read, or     *)
(* that output came to its cursor, or it was too long for Ctrl+L.          *)
LineShown == \A t \in Terms : termReadFlag[t] /\ unseen[t] = {} => ShowsEchoed(t)

(* putc's comment (lib.c:228): only "if this function was called from      *)
(* keyboardputc" does it use the cursor of the visible terminal, so that a *)
(* program's output moves no cursor but its own.  It goes by a flag that   *)
(* is also up while a tick has left keyboardputc.                          *)
PrintsAtOwnCursor ==
    [][UNCHANGED <<echo, redraw, line, scheduled_term>> =>
          \A t \in Terms \ {scheduled_term} :
             termScreenx'[t] = termScreenx[t] /\ termScreeny'[t] = termScreeny[t]]_vars

(* Ctrl+L shows the line however long it is: what clear_help leaves is     *)
(* where the next character should be.                                     *)
LongLineShown == \A t \in Terms : termReadFlag[t] /\ unseen[t] \subseteq {"long"}
                                    => ShowsEchoed(t)

S == INSTANCE Screens WITH
        Terminals <- Terms,
        screens <- [t \in Terms |-> Screen(PageOf(t, currentTerminal), t)],
        visible <- currentTerminal,
        echoing <- (echo # NoEcho)

(* Every terminal has a screen of its own, but programs that print while a *)
(* key is echoed do so at the visible terminal's cursor.                   *)
ImplementsScreens == S!Spec
=============================================================================
