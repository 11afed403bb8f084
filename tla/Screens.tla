------------------------------- MODULE Screens ------------------------------
(***************************************************************************)
(* What the console promises: a screen of its own for every terminal.      *)
(*                                                                         *)
(* A program prints and draws on the screen of its terminal, whether that  *)
(* is shown or not; the keyboard writes on the screen that is shown; and a *)
(* switch of terminals shows another screen and changes none.  What a      *)
(* character does to a screen is a parameter (module Cells).               *)
(*                                                                         *)
(* One promise is weaker than that: while a key is echoed, and when it is  *)
(* a backspace, a program's character is put on the right screen but at    *)
(* the cursor of the screen that is shown, and moves that.                 *)
(***************************************************************************)
EXTENDS Naturals

CONSTANTS Terminals,
          Positions,         \* the cells of a screen
          Chars,             \* the characters a cell can show
          NEWLINE, BACKSPACE,
          LineMax,           \* the longest line a user can type
          BlankScreen,       \* a screen: its cells, and x and y of the cursor
          PutC(_, _, _)      \* a screen after a character

VARIABLES screens,    \* the screen of each terminal, its cursor included
          visible,    \* the terminal that is shown
          echoing     \* is a key being echoed?

screenVars == <<screens, visible, echoing>>

Init ==
    /\ screens = [t \in Terminals |-> BlankScreen]
    /\ visible \in Terminals
    /\ echoing = FALSE

(* Character c goes to terminal t's screen at the cursor of terminal u. *)
PutAt(t, u, c) ==
    \E emptied \in BOOLEAN :
       LET s == PutC([cells |-> screens[t].cells, x |-> screens[u].x, y |-> screens[u].y],
                     c, emptied)
       IN screens' = [v \in Terminals |->
                        [cells |-> IF v = t THEN s.cells ELSE screens[v].cells,
                         x |-> IF v = u THEN s.x ELSE screens[v].x,
                         y |-> IF v = u THEN s.y ELSE screens[v].y]]

(* The program of terminal t prints a character. *)
Prints(t, c) ==
    /\ PutAt(t, IF echoing \/ c = BACKSPACE THEN visible ELSE t, c)
    /\ UNCHANGED <<visible, echoing>>

(* A program writes a cell through the page vidmap gave it. *)
Draw(t, p, c) ==
    /\ screens' = [screens EXCEPT ![t].cells[p] = c]
    /\ UNCHANGED <<visible, echoing>>

(* A key is echoed; the next one is when that is over. *)
EchoBegins(c) ==
    /\ ~echoing
    /\ PutAt(visible, visible, c)
    /\ echoing' = TRUE
    /\ UNCHANGED visible

EchoEnds ==
    /\ echoing' = FALSE
    /\ UNCHANGED <<screens, visible>>

(* Ctrl+L: the shown screen is cleared, the line is echoed, and the cursor *)
(* is set after it.                                                        *)
Clear ==
    /\ screens' = [screens EXCEPT ![visible] = BlankScreen]
    /\ UNCHANGED <<visible, echoing>>

SetCursor(column) ==
    /\ screens' = [screens EXCEPT ![visible].x = column, ![visible].y = 0]
    /\ UNCHANGED <<visible, echoing>>

(* Another terminal is shown; no key is handled meanwhile. *)
Show(t) ==
    /\ ~echoing
    /\ visible' = t
    /\ UNCHANGED <<screens, echoing>>

(* A terminal's first program starts on a blank screen, and is shown. *)
Start(t) ==
    /\ ~echoing
    /\ visible' = t
    /\ screens' = [screens EXCEPT ![t] = BlankScreen]
    /\ UNCHANGED echoing

Next ==
    \/ \E t \in Terminals :
          \/ \E c \in Chars \cup {NEWLINE, BACKSPACE} : Prints(t, c)
          \/ \E p \in Positions, c \in Chars : Draw(t, p, c)
          \/ Show(t)
          \/ Start(t)
    \/ \E c \in Chars \cup {NEWLINE, BACKSPACE} : EchoBegins(c)
    \/ EchoEnds
    \/ Clear
    \/ \E column \in 0 .. LineMax : SetCursor(column)

Spec == Init /\ [][Next]_screenVars
=============================================================================
