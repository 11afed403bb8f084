-------------------------------- MODULE Lines -------------------------------
(***************************************************************************)
(* What the terminals promise to a user and to the programs that read from *)
(* them, with one keyboard buffer and one terminal buffer per terminal and *)
(* nothing shared.                                                         *)
(*                                                                         *)
(* Each terminal has a line being edited and at most one entered line.     *)
(* Keys edit the line of one terminal, Enter makes it the entered line,    *)
(* newline included, and a read by a program of that terminal takes it, or *)
(* its beginning when it is longer than what was asked for.  A program     *)
(* that ends discards the entered line nobody read.                        *)
(***************************************************************************)
EXTENDS Integers, Sequences

CONSTANTS Terminals, Chars, Space, Newline,
          Sizes,      \* the numbers of bytes that a read may ask for
          Limit,      \* the longest line, its newline not counted
          NoLine, NoRead

VARIABLES edit,       \* the line being edited in each terminal
          entered,    \* the entered line of each terminal, or NoLine
          returned    \* what a read has just returned, or NoRead

lineVars == <<edit, entered, returned>>

Init ==
    /\ edit = [t \in Terminals |-> << >>]
    /\ entered = [t \in Terminals |-> NoLine]
    /\ returned = NoRead

(* Text typed at the end of the line, if there is room for it. *)
Type(t, text) ==
    /\ Len(edit[t] \o text) <= Limit
    /\ edit' = [edit EXCEPT ![t] = @ \o text]
    /\ returned' = NoRead
    /\ UNCHANGED entered

Erase(t) ==
    /\ edit[t] # << >>
    /\ edit' = [edit EXCEPT ![t] = SubSeq(@, 1, Len(@) - 1)]
    /\ returned' = NoRead
    /\ UNCHANGED entered

Enter(t) ==
    /\ entered[t] = NoLine
    /\ entered' = [entered EXCEPT ![t] = Append(edit[t], Newline)]
    /\ edit' = [edit EXCEPT ![t] = << >>]
    /\ returned' = NoRead

(* A read gets the whole line if that is no longer than what it asked for, *)
(* and otherwise one byte more than it asked for.                          *)
Read(t, asked) ==
    LET n == IF Len(entered[t]) <= asked THEN Len(entered[t]) ELSE asked + 1 IN
    /\ entered[t] # NoLine
    /\ returned' = [term |-> t, asked |-> asked, text |-> SubSeq(entered[t], 1, n)]
    /\ entered' = [entered EXCEPT ![t] = NoLine]
    /\ UNCHANGED edit

Discard(t) ==
    /\ entered' = [entered EXCEPT ![t] = NoLine]
    /\ returned' = NoRead
    /\ UNCHANGED edit

(* Another terminal is shown, another process runs, a key had no effect. *)
Elsewhere == returned' = NoRead /\ UNCHANGED <<edit, entered>>

Next ==
    \/ \E t \in Terminals :
         \/ \E c \in Chars : Type(t, <<c>>)
         \/ \E n \in 1 .. Limit : Type(t, [i \in 1 .. n |-> Space])
         \/ Erase(t)
         \/ Enter(t)
         \/ \E asked \in Sizes : Read(t, asked)
         \/ Discard(t)
    \/ Elsewhere

Spec == Init /\ [][Next]_lineVars
=============================================================================
