-------------------------- MODULE Terminals_proofs --------------------------
(***************************************************************************)
(* Proofs about Terminals, for any number of terminals, any size of the    *)
(* buffers and any keys: a line and its index stay together, nothing is    *)
(* written past the end of keyboard_buf, a read ends where a line does,    *)
(* and the shared buffers implement a line per terminal (Lines).           *)
(*                                                                         *)
(* The results assume the user and the programs that the runs assume: one  *)
(* who waits for a line to be read before the next Enter or Alt+Fn, does   *)
(* not press F1 to F3 without Alt and types no Space or Enter on a full    *)
(* line; and no hidden program that ends before an entered line was read.  *)
(***************************************************************************)
EXTENDS Terminals, SequenceTheorems, TLAPS

Patient == ~PlainFKeys /\ ~Hurry /\ ~BackgroundHalts /\ ~FullLines

Typeable == Keys \cup {SPACE}

(* A buffer in which idx characters were typed, with room for the newline. *)
LineOK(buf, idx) ==
    /\ buf \in Buffers /\ idx \in Idx
    /\ \A i \in Idx : IF i < idx THEN buf[i] \in Typeable ELSE buf[i] = NUL

(* The first newline of a buffer is at i, and nothing before it is empty. *)
Ends(buf, i) ==
    /\ buf \in Buffers /\ i \in Idx /\ buf[i] = NL
    /\ \A j \in Idx : j < i => buf[j] \in Typeable

(* What the user's patience gives: the only line that was entered and not  *)
(* read is the visible terminal's, which is the one term_buf holds.        *)
OneUnread ==
    /\ unread \subseteq {currentTerminal}
    /\ unread # {} => \E i \in Idx : Ends(term_buf, i)

(* Who was told of an entered line, and has not returned it yet. *)
FlagsFollow ==
    \A t \in Terms :
        /\ enter_flag[t] = 1 \/ reader[t] = "copying" => t \in unread
        /\ reader[t] = "copying" => enter_flag[t] = 0
        /\ reader[t] # "away" => nbytes[t] \in ReadSizes

(* The inductive invariant. *)
TInv ==
    /\ TypeOK
    /\ recentTermChoice = currentTerminal
    /\ \A t \in Terms : LineOK(EditBuf(t), EditIdx(t))
    /\ OneUnread
    /\ FlagsFollow
    /\ NoOverrun
    /\ ReadEndsLine

-----------------------------------------------------------------------------
(* What keys do to a line. *)

LEMMA Sizes ==
  /\ BUFSIZE \in Nat /\ BUFSIZE > 1 /\ TAB_LENGTH \in Nat
  /\ Idx \subseteq Nat /\ 0 \in Idx /\ BUFSIZE - 1 \in Idx
  /\ 1 \in Terms
  BY SizesAssumption DEF Idx, Terms

LEMMA EmptyLine == LineOK(Empty, 0)
  BY Sizes DEF LineOK, Empty, Buffers, Idx

LEMMA TypedLine ==
  ASSUME NEW buf, NEW idx, LineOK(buf, idx), idx < BUFSIZE - 1, NEW c \in Typeable
  PROVE  LineOK(Put(buf, idx, c), idx + 1)
  BY Sizes DEF LineOK, Put, Buffers, Idx, Typeable

LEMMA ErasedLine ==
  ASSUME NEW buf, NEW idx, LineOK(buf, idx), idx > 0
  PROVE  idx - 1 \in Idx /\ LineOK(Put(buf, idx - 1, NUL), idx - 1)
  BY Sizes DEF LineOK, Put, Buffers, Idx

LEMMA EnteredEnds ==
  ASSUME NEW buf, NEW idx, LineOK(buf, idx)
  PROVE  Ends(EnteredLine(buf, idx), idx)
  BY Sizes DEF LineOK, Ends, EnteredLine, Put, Buffers, Idx

(* What terminal_read returns of a buffer whose line ends at i. *)
LEMMA TextOfLine ==
  ASSUME NEW buf, NEW i, Ends(buf, i), NEW n \in Nat
  PROVE  LET k == IF i =< n THEN i ELSE n
         IN /\ k \in Nat /\ k =< i
            /\ TextRead(buf, n) = [j \in 1 .. k + 1 |-> buf[j - 1]]
<1> DEFINE last == IF n >= BUFSIZE THEN BUFSIZE - 1 ELSE n
           ends == {j \in 0 .. last : buf[j] = NL}
           stop == IF ends = {} THEN last
                   ELSE CHOOSE j \in ends : \A h \in ends : j =< h
           k == IF i =< n THEN i ELSE n
<1>1. i \in Nat /\ i =< BUFSIZE - 1 /\ i \in Idx /\ buf[i] = NL
  BY Sizes DEF Ends, Idx
<1>2. \A j \in Nat : j < i => buf[j] # NL
  BY <1>1, KeysAssumption, Sizes DEF Ends, Typeable, Idx
<1>3. last \in Nat /\ \A j \in ends : j \in Nat /\ j >= i
  <2>1. last \in Nat
    BY Sizes
  <2>2. ASSUME NEW j \in 0 .. last, buf[j] = NL PROVE j \in Nat /\ j >= i
    BY <1>1, <1>2, <2>1, <2>2
  <2> QED
    BY <2>1, <2>2
<1>4. stop = k
  <2>1. CASE i =< n
    <3>1. i \in ends
      BY <1>1, <2>1, Sizes
    <3> HIDE DEF ends
    <3>2. \A j \in ends : (\A h \in ends : j =< h) <=> j = i
      BY <1>1, <1>3, <3>1
    <3> QED
      BY <2>1, <3>1, <3>2
  <2>2. CASE ~(i =< n)
    <3>1. ends = {} /\ last = n
      BY <1>1, <1>3, <2>2, Sizes
    <3> QED
      BY <2>2, <3>1
  <2> QED
    BY <2>1, <2>2
<1> HIDE DEF stop, k
<1>5. TextRead(buf, n) = [j \in 1 .. stop + 1 |-> buf[j - 1]]
  BY DEF TextRead, stop
<1> QED
  BY <1>1, <1>4, <1>5 DEF k

-----------------------------------------------------------------------------
(* The invariant is kept. *)

LEMMA TInvInit ==
  Init => TInv
<1> SUFFICES ASSUME Init PROVE TInv
  OBVIOUS
<1>1. \A t \in Terms : EditBuf(t) = Empty /\ EditIdx(t) = 0
  BY DEF Init, EditBuf, EditIdx
<1>2. Empty \in Buffers
  BY EmptyLine DEF LineOK
<1>3. TypeOK
  BY <1>2, Sizes DEF Init, TypeOK, NoRead
<1> QED
  BY <1>1, <1>3, EmptyLine
  DEF Init, TInv, OneUnread, FlagsFollow, NoOverrun, ReadEndsLine

(* A key that changes the visible terminal's line, and nothing else but    *)
(* what Enter does.                                                        *)
LEMMA KeyedLine ==
  ASSUME TInv, LineOK(keyboard_buf', buf_idx'), UNCHANGED <<currentTerminal, saved_idx>>,
         \A t \in Terms : t # currentTerminal => keyboard_bufs'[t] = keyboard_bufs[t]
  PROVE  /\ \A t \in Terms : LineOK(EditBuf(t), EditIdx(t))'
         /\ keyboard_buf' \in Buffers /\ buf_idx' \in Nat
         /\ \A t \in Terms : t # currentTerminal =>
              EditBuf(t)' = EditBuf(t) /\ EditIdx(t)' = EditIdx(t)
         /\ EditBuf(currentTerminal)' = keyboard_buf'
         /\ EditIdx(currentTerminal)' = buf_idx'
<1>1. \A t \in Terms : t # currentTerminal =>
        EditBuf(t)' = EditBuf(t) /\ EditIdx(t)' = EditIdx(t)
  BY DEF EditBuf, EditIdx
<1>2. EditBuf(currentTerminal)' = keyboard_buf' /\ EditIdx(currentTerminal)' = buf_idx'
  BY DEF EditBuf, EditIdx
<1>3. keyboard_buf' \in Buffers /\ buf_idx' \in Nat
  BY Sizes DEF LineOK
<1>4. ASSUME NEW t \in Terms PROVE LineOK(EditBuf(t)', EditIdx(t)')
  BY <1>1, <1>2 DEF TInv
<1> QED
  BY <1>1, <1>2, <1>3, <1>4 DEF LineOK

(* The line being edited in the visible terminal. *)
LEMMA VisibleLine ==
  ASSUME TInv
  PROVE  /\ currentTerminal \in Terms
         /\ LineOK(keyboard_buf, buf_idx)
         /\ buf_idx \in Nat /\ buf_idx =< BUFSIZE - 1 /\ buf_idx \in Idx
         /\ LineFull <=> buf_idx = BUFSIZE - 1
<1>1. LineOK(keyboard_buf, buf_idx) /\ currentTerminal \in Terms
  BY DEF TInv, TypeOK, EditBuf, EditIdx
<1>2. buf_idx \in Nat /\ buf_idx =< BUFSIZE - 1
  BY <1>1, Sizes DEF LineOK, Idx
<1> QED
  BY <1>1, <1>2, Sizes DEF LineFull, LineOK

(* The whole of Tab's line. *)
LEMMA TabbedLine ==
  ASSUME TInv, KeyTab
  PROVE  /\ LineOK(keyboard_buf', buf_idx')
         /\ buf_idx' >= buf_idx
         /\ \A i \in Idx : keyboard_buf'[i] = IF buf_idx <= i /\ i < buf_idx' THEN SPACE
                                              ELSE keyboard_buf[i]
<1>1. buf_idx' \in Nat /\ buf_idx' >= buf_idx /\ buf_idx' =< BUFSIZE - 1
  BY VisibleLine, Sizes DEF KeyTab
<1>2. keyboard_buf' = [i \in Idx |-> IF buf_idx <= i /\ i < buf_idx' THEN SPACE
                                     ELSE keyboard_buf[i]]
  BY DEF KeyTab
<1> QED
  BY <1>1, <1>2, VisibleLine, Sizes DEF LineOK, Buffers, Idx, Typeable

(* A read returns a line, or as much of its beginning as it asked for. *)
LEMMA ReadReturnsLine ==
  ASSUME TInv, NEW t \in Terms, ReadCopies(t)
  PROVE  /\ t = currentTerminal /\ t \in unread /\ nbytes[t] \in ReadSizes
         /\ ReadEndsLine'
         /\ \E i \in Idx : Ends(term_buf, i)
<1>1. t = currentTerminal /\ t \in unread /\ nbytes[t] \in ReadSizes
  BY DEF TInv, FlagsFollow, OneUnread, ReadCopies
<1>2. PICK i \in Idx : Ends(term_buf, i)
  BY <1>1 DEF TInv, OneUnread
<1> DEFINE n == nbytes[t]
           k == IF i =< n THEN i ELSE n
<1>3. n \in Nat /\ i \in Nat /\ i =< BUFSIZE - 1
  <2>1. nbytes[t] \in Nat
    BY <1>1, SizesAssumption
  <2> QED
    BY <2>1, Sizes DEF Idx
<1>4. k \in Nat /\ k =< i /\ TextRead(term_buf, n) = [j \in 1 .. k + 1 |-> term_buf[j - 1]]
  BY <1>2, <1>3, TextOfLine
<1>5. returned'.text = [j \in 1 .. k + 1 |-> term_buf[j - 1]] /\ returned'.asked = n
  BY <1>4 DEF ReadCopies
<1>6. Len(returned'.text) = k + 1
  BY <1>4, <1>5
<1>7. \A j \in 1 .. k + 1 : returned'.text[j] = term_buf[j - 1] /\ j - 1 \in Idx /\ j - 1 =< i
  BY <1>3, <1>4, <1>5, Sizes DEF Idx
<1>8. \A j \in Idx : j =< i => term_buf[j] # NUL
  BY <1>2, KeysAssumption, Sizes DEF Ends, Typeable, NUL, NL
<1>9. k + 1 =< n => returned'.text[k + 1] = NL
  BY <1>2, <1>3, <1>4, <1>5 DEF Ends
<1> HIDE DEF k, n
<1>10. ReadEndsLine'
  BY <1>4, <1>5, <1>6, <1>7, <1>8, <1>9 DEF ReadEndsLine
<1> QED
  BY <1>1, <1>2, <1>10

(* A switch saves and loads: no terminal's line changes. *)
SwitchedLines ==
    /\ \A t \in Terms : EditBuf(t)' = EditBuf(t) /\ EditIdx(t)' = EditIdx(t)
    /\ keyboard_buf' \in Buffers /\ buf_idx' \in Nat
    /\ keyboard_bufs' \in [Terms -> Buffers] /\ saved_idx' \in [Terms -> Nat]
    /\ term_buf' \in Buffers /\ saved_term_buf' \in [Terms -> Buffers]

LEMMA SwitchKeepsLines ==
  ASSUME Patient, TInv, NEW n \in Terms, KeyF(n)
  PROVE  SwitchedLines
<1>1. /\ currentTerminal \in Terms /\ currentTerminal' = n
      /\ keyboard_bufs' = [keyboard_bufs EXCEPT ![currentTerminal] = keyboard_buf]
      /\ keyboard_buf' = keyboard_bufs'[n]
      /\ saved_idx' = [saved_idx EXCEPT ![currentTerminal] = buf_idx]
      /\ buf_idx' = saved_idx'[n]
      /\ saved_term_buf' = [saved_term_buf EXCEPT ![currentTerminal] = term_buf]
      /\ term_buf' = saved_term_buf'[n]
  BY DEF KeyF, ChangeTerminal, Saved, Patient, TInv, TypeOK
<1>2. /\ keyboard_bufs' \in [Terms -> Buffers] /\ saved_idx' \in [Terms -> Nat]
      /\ saved_term_buf' \in [Terms -> Buffers]
  BY <1>1 DEF TInv, TypeOK
<1>3. \A t \in Terms : EditBuf(t)' = EditBuf(t) /\ EditIdx(t)' = EditIdx(t)
  BY <1>1 DEF EditBuf, EditIdx, TInv, TypeOK
<1> QED
  BY <1>1, <1>2, <1>3 DEF SwitchedLines

LEMMA TInvNext ==
  ASSUME Patient, TInv, [Next]_vars
  PROVE  TInv'
<1> USE DEF NoOverrun, Patient
<1>1. returned' = NoRead => ReadEndsLine' /\ returned'.term \in Terms \cup {0}
  BY DEF ReadEndsLine, NoRead
(* A key that changes the line of the visible terminal alone. *)
<1>2. ASSUME LineOK(keyboard_buf', buf_idx'), overrun' = FALSE, returned' = NoRead,
             UNCHANGED <<keyboard_bufs, saved_idx, entering, switching,
                         scheduled_term, reading, unread>>
      PROVE  TInv'
  <2>1. /\ \A t \in Terms : LineOK(EditBuf(t), EditIdx(t))'
        /\ keyboard_buf' \in Buffers /\ buf_idx' \in Nat
    BY <1>2, KeyedLine DEF switching
  <2>2. OneUnread' /\ FlagsFollow'
    BY <1>2 DEF TInv, OneUnread, FlagsFollow, Ends, entering, switching, reading
  <2>3. TypeOK'
    BY <1>2, <1>1, <2>1 DEF TInv, TypeOK, entering, switching, reading
  <2> QED
    BY <1>2, <1>1, <2>1, <2>2, <2>3 DEF TInv, switching
(* A step of a program or of the timer: no line is edited. *)
<1>3. ASSUME UNCHANGED <<editing, switching, overrun>>
      PROVE  /\ \A t \in Terms : LineOK(EditBuf(t), EditIdx(t))'
             /\ NoOverrun' /\ recentTermChoice' = currentTerminal'
             /\ keyboard_buf' \in Buffers /\ buf_idx' \in Nat
             /\ keyboard_bufs' \in [Terms -> Buffers] /\ saved_idx' \in [Terms -> Nat]
             /\ recentTermChoice' \in Terms /\ currentTerminal' \in Terms
             /\ alt_info' \in {0, 1} /\ overrun' \in BOOLEAN
  BY <1>3 DEF TInv, TypeOK, EditBuf, EditIdx, LineOK, editing, switching
<1>4. ASSUME NEW c \in Typeable, ~LineFull, PutKey(c)
      PROVE  LineOK(keyboard_buf', buf_idx') /\ overrun' = FALSE
  <2>1. LineOK(keyboard_buf, buf_idx) /\ buf_idx \in Idx /\ buf_idx < BUFSIZE - 1
    BY <1>4, VisibleLine, Sizes DEF LineFull
  <2>2. LineOK(Put(keyboard_buf, buf_idx, c), buf_idx + 1)
    BY <2>1, TypedLine
  <2> QED
    BY <1>4, <2>1, <2>2 DEF PutKey, TInv
<1>5. ASSUME NEW c \in Keys, KeyChar(c) PROVE TInv'
  <2>1. LineOK(keyboard_buf', buf_idx') /\ overrun' = FALSE
    <3>1. CASE LineFull
      <4>1. UNCHANGED <<keyboard_buf, buf_idx, overrun>>
        BY <1>5, <3>1 DEF KeyChar
      <4> QED
        BY <4>1, VisibleLine DEF TInv, TypeOK, LineOK
    <3>2. CASE ~LineFull
      BY <1>5, <1>4, <3>2 DEF KeyChar, Typeable
    <3> QED
      BY <3>1, <3>2
  <2> QED
    BY <1>5, <1>2, <2>1 DEF KeyChar
<1>6. CASE KeySpace
  BY <1>6, <1>2, <1>4 DEF KeySpace, Typeable
<1>7. CASE KeyTab
  <2>1. LineOK(keyboard_buf', buf_idx')
    BY <1>7, TabbedLine
  <2> QED
    BY <1>7, <1>2, <2>1 DEF KeyTab, TInv, TypeOK
<1>8. CASE KeyBackspace
  <2>1. /\ buf_idx > 0 /\ buf_idx' = buf_idx - 1
        /\ keyboard_buf' = Put(keyboard_buf, buf_idx - 1, NUL)
        /\ overrun' = (overrun \/ buf_idx - 1 \notin Idx)
    BY <1>8 DEF KeyBackspace, CanErase
  <2>2. LineOK(keyboard_buf, buf_idx)
    BY VisibleLine
  <2>3. buf_idx - 1 \in Idx /\ LineOK(Put(keyboard_buf, buf_idx - 1, NUL), buf_idx - 1)
    BY <2>1, <2>2, ErasedLine
  <2>4. LineOK(keyboard_buf', buf_idx') /\ overrun' = FALSE
    BY <2>1, <2>3 DEF TInv
  <2> QED
    BY <1>8, <1>2, <2>4 DEF KeyBackspace
<1>9. CASE KeyEnter
  <2>1. /\ currentTerminal \in Terms /\ currentTerminal \notin unread
        /\ buf_idx \in Idx /\ buf_idx + 1 \in Idx
    BY <1>9, VisibleLine, Sizes DEF KeyEnter, Idx
  <2>2. Ends(term_buf', buf_idx) /\ term_buf' \in Buffers
    BY <1>9, VisibleLine, EnteredEnds DEF KeyEnter, Ends
  <2>3. /\ keyboard_buf' = Empty /\ buf_idx' = 0 /\ ~overrun'
        /\ UNCHANGED <<saved_idx, saved_term_buf, switching, scheduled_term, reading>>
        /\ keyboard_bufs' = [keyboard_bufs EXCEPT ![currentTerminal] = Empty]
        /\ enter_flag' = [enter_flag EXCEPT ![currentTerminal] = 1]
        /\ unread' = unread \cup {currentTerminal} /\ returned' = NoRead
    BY <1>9, <2>1 DEF KeyEnter, ClearedIndex, EnterTerm, TInv
  <2>4. /\ \A t \in Terms : LineOK(EditBuf(t), EditIdx(t))'
        /\ keyboard_bufs' \in [Terms -> Buffers]
        /\ keyboard_buf' \in Buffers /\ buf_idx' \in Nat
    BY <2>1, <2>3, KeyedLine, EmptyLine DEF TInv, TypeOK, switching, LineOK
  <2>5. OneUnread'
    BY <2>1, <2>2, <2>3 DEF TInv, OneUnread, Ends, switching
  <2>6. FlagsFollow'
    BY <2>1, <2>3 DEF TInv, TypeOK, OneUnread, FlagsFollow, reading
  <2>7. TypeOK'
    <3>1. enter_flag' \in [Terms -> {0, 1}] /\ unread' \subseteq Terms
      BY <2>1, <2>3 DEF TInv, TypeOK
    <3>2. overrun' \in BOOLEAN
      BY <1>9 DEF KeyEnter
    <3> QED
      BY <1>1, <2>2, <2>3, <2>4, <3>1, <3>2 DEF TInv, TypeOK, switching, reading
  <2> QED
    BY <1>1, <2>3, <2>4, <2>5, <2>6, <2>7 DEF TInv, switching
<1>10. CASE KeyAlt
  <2>1. alt_info' \in {0, 1}
    BY <1>10 DEF KeyAlt, TInv, TypeOK
  <2> QED
    BY <1>10, <1>1, <2>1
    DEF KeyAlt, TInv, TypeOK, EditBuf, EditIdx, LineOK, OneUnread, Ends, FlagsFollow,
        editing, entering, reading
<1>11. ASSUME NEW n \in Terms, KeyF(n) PROVE TInv'
  <2>1. /\ currentTerminal' = n /\ recentTermChoice' = n /\ currentTerminal \in Terms
        /\ unread = {} /\ returned' = NoRead
        /\ UNCHANGED <<enter_flag, alt_info, scheduled_term, reading, unread, overrun>>
    BY <1>11 DEF KeyF, ChangeTerminal, TInv, OneUnread, TypeOK
  <2>2. SwitchedLines
    BY <1>11, SwitchKeepsLines
  <2> QED
    BY <1>1, <2>1, <2>2
    DEF TInv, TypeOK, OneUnread, FlagsFollow, SwitchedLines, LineOK, reading
<1>12. ASSUME NEW t \in Terms, NEW n \in ReadSizes, ReadStarts(t, n) PROVE TInv'
  BY <1>12, <1>1, <1>3
  DEF ReadStarts, TInv, TypeOK, OneUnread, Ends, FlagsFollow, entering, switching
<1>13. ASSUME NEW t \in Terms, ReadWakes(t) PROVE TInv'
  BY <1>13, <1>1, <1>3
  DEF ReadWakes, TInv, TypeOK, OneUnread, Ends, FlagsFollow, switching
<1>14. ASSUME NEW t \in Terms, ReadCopies(t) PROVE TInv'
  <2>1. /\ ReadEndsLine' /\ returned'.term = t
        /\ UNCHANGED <<editing, entering, switching, scheduled_term, overrun>>
        /\ reader' = [reader EXCEPT ![t] = "away"]
        /\ nbytes' = [nbytes EXCEPT ![t] = 0]
        /\ unread' = unread \ {t}
    BY <1>14, ReadReturnsLine DEF ReadCopies
  <2>2. enter_flag[t] = 0
    BY <1>14 DEF ReadCopies, TInv, FlagsFollow
  <2> QED
    BY <1>3, <2>1, <2>2
    DEF TInv, TypeOK, OneUnread, Ends, FlagsFollow, entering, switching
<1>15. ASSUME NEW isBase \in BOOLEAN, Halt(isBase) PROVE TInv'
  <2>1. unread' = {} /\ term_buf' \in Buffers
    BY <1>15, EmptyLine DEF Halt, TInv, TypeOK, OneUnread, LineOK
  <2>2. scheduled_term \in Terms /\ reader[scheduled_term] = "away"
    BY <1>15 DEF Halt, TInv, TypeOK
  <2>3. FlagsFollow'
    BY <1>15, <2>1, <2>2 DEF Halt, TInv, TypeOK, OneUnread, FlagsFollow, reading
  <2> QED
    BY <1>15, <1>1, <1>3, <2>1, <2>3
    DEF Halt, TInv, TypeOK, OneUnread, switching, reading
<1>16. CASE Tick
  <2>1. scheduled_term' \in Terms
    BY <1>16, SizesAssumption DEF Tick, TInv, TypeOK, Terms
  <2> QED
    BY <1>16, <1>1, <1>3, <2>1
    DEF Tick, TInv, TypeOK, OneUnread, Ends, FlagsFollow, entering, switching, reading
<1>17. CASE UNCHANGED vars
  BY <1>17, <1>3
  DEF vars, TInv, TypeOK, OneUnread, Ends, FlagsFollow, ReadEndsLine, entering,
      switching, reading
<1> QED
  BY <1>5, <1>6, <1>7, <1>8, <1>9, <1>10, <1>11, <1>12, <1>13, <1>14, <1>15, <1>16, <1>17
  DEF Next

(* buf_idx and keyboard_buf stay together through every key and switch,    *)
(* and what terminal_read returns is a line or its beginning.              *)
THEOREM LinesAreIntact ==
  ASSUME Patient
  PROVE  Spec => [](TypeOK /\ EditConsistent /\ ReadEndsLine)
<1>1. TInv => EditConsistent
  <2> SUFFICES ASSUME TInv, NEW t \in Terms, NEW i \in Idx
               PROVE  EditBuf(t)[i] = NUL <=> i >= EditIdx(t)
    BY DEF EditConsistent
  <2>1. LineOK(EditBuf(t), EditIdx(t)) /\ i \in Nat /\ EditIdx(t) \in Nat
    BY Sizes DEF TInv, LineOK
  <2>2. i < EditIdx(t) \/ i >= EditIdx(t)
    BY <2>1
  <2> QED
    BY <2>1, <2>2, KeysAssumption DEF LineOK, Typeable
<1>2. Spec => []TInv
  BY TInvInit, TInvNext, PTL DEF Spec
<1> QED
  BY <1>1, <1>2, PTL DEF TInv

-----------------------------------------------------------------------------
(* Lines as sequences. *)

LineOf(buf, idx) == [i \in 1 .. idx |-> buf[i - 1]]

LEMMA LineOfFacts ==
  ASSUME NEW buf, NEW idx, LineOK(buf, idx)
  PROVE  /\ idx \in Nat /\ idx =< BUFSIZE - 1
         /\ LineOf(buf, idx) \in Seq(Typeable)
         /\ Len(LineOf(buf, idx)) = idx
         /\ \A i \in 1 .. idx : LineOf(buf, idx)[i] = buf[i - 1]
<1>1. idx \in Nat /\ idx =< BUFSIZE - 1
  BY Sizes DEF LineOK, Idx
<1>2. \A i \in 1 .. idx : buf[i - 1] \in Typeable
  BY <1>1, Sizes DEF LineOK, Idx
<1>3. LineOf(buf, idx) \in [1 .. idx -> Typeable]
  BY <1>2 DEF LineOf
<1>4. LineOf(buf, idx) \in Seq(Typeable)
  BY <1>1, <1>3, SeqDef
<1>5. Len(LineOf(buf, idx)) = idx
  BY <1>1 DEF LineOf
<1> QED
  BY <1>1, <1>4, <1>5 DEF LineOf

(* Characters put after a line. *)
LEMMA LineExtended ==
  ASSUME NEW buf, NEW idx, LineOK(buf, idx),
         NEW buf2, NEW idx2, LineOK(buf2, idx2), idx =< idx2,
         \A i \in Idx : i < idx => buf2[i] = buf[i],
         NEW text \in Seq(Typeable), Len(text) = idx2 - idx,
         \A i \in 1 .. idx2 - idx : text[i] = buf2[idx + i - 1]
  PROVE  /\ LineOf(buf2, idx2) = LineOf(buf, idx) \o text
         /\ Len(LineOf(buf, idx) \o text) =< BUFSIZE - 1
<1> DEFINE old == LineOf(buf, idx)
           new == LineOf(buf2, idx2)
<1>1. /\ idx \in Nat /\ idx2 \in Nat /\ idx2 =< BUFSIZE - 1 /\ idx2 - idx \in Nat
      /\ old \in Seq(Typeable) /\ Len(old) = idx
      /\ new \in Seq(Typeable) /\ Len(new) = idx2
      /\ \A i \in 1 .. idx : old[i] = buf[i - 1]
      /\ \A i \in 1 .. idx2 : new[i] = buf2[i - 1]
  <2>1. /\ idx \in Nat /\ old \in Seq(Typeable) /\ Len(old) = idx
        /\ \A i \in 1 .. idx : old[i] = buf[i - 1]
    BY LineOfFacts
  <2>2. /\ idx2 \in Nat /\ idx2 =< BUFSIZE - 1
        /\ new \in Seq(Typeable) /\ Len(new) = idx2
        /\ \A i \in 1 .. idx2 : new[i] = buf2[i - 1]
    BY LineOfFacts
  <2>3. idx2 - idx \in Nat
    BY <2>1, <2>2
  <2> QED
    BY <2>1, <2>2, <2>3
<1> HIDE DEF old, new
<1>2. /\ old \o text \in Seq(Typeable) /\ Len(old \o text) = idx2
      /\ \A i \in 1 .. idx2 : (old \o text)[i] = IF i =< idx THEN old[i]
                                                 ELSE text[i - idx]
  <2>1. /\ old \o text \in Seq(Typeable) /\ Len(old \o text) = Len(old) + Len(text)
        /\ \A i \in 1 .. Len(old) + Len(text) :
             (old \o text)[i] = IF i <= Len(old) THEN old[i] ELSE text[i - Len(old)]
    BY <1>1, ConcatProperties
  <2>2. Len(old) + Len(text) = idx2
    BY <1>1
  <2> QED
    BY <1>1, <2>1, <2>2
<1>3. ASSUME NEW i \in 1 .. idx2 PROVE new[i] = (old \o text)[i]
  <2>1. CASE i =< idx
    <3>1. i \in 1 .. idx /\ i - 1 \in Idx /\ i - 1 < idx
      BY <1>1, <2>1, Sizes DEF Idx
    <3> QED
      BY <1>1, <1>2, <2>1, <3>1
  <2>2. CASE ~(i =< idx)
    <3>1. i - idx \in 1 .. idx2 - idx /\ idx + (i - idx) - 1 = i - 1
      BY <1>1, <2>2
    <3> QED
      BY <1>1, <1>2, <2>2, <3>1
  <2> QED
    BY <2>1, <2>2
<1>4. new = old \o text
  BY <1>1, <1>2, <1>3, SeqEqual
<1> QED
  BY <1>1, <1>2, <1>4 DEF old, new

(* The last character taken away. *)
LEMMA LineShortened ==
  ASSUME NEW buf, NEW idx, LineOK(buf, idx), idx > 0
  PROVE  LET old == LineOf(buf, idx)
         IN /\ old # << >>
            /\ LineOf(Put(buf, idx - 1, NUL), idx - 1) = SubSeq(old, 1, Len(old) - 1)
<1> DEFINE buf2 == Put(buf, idx - 1, NUL)
           old == LineOf(buf, idx)
           new == LineOf(buf2, idx - 1)
           part == SubSeq(old, 1, idx - 1)
<1>1. /\ idx \in Nat /\ idx - 1 \in Nat
      /\ old \in Seq(Typeable) /\ Len(old) = idx
      /\ \A i \in 1 .. idx : old[i] = buf[i - 1] /\ old[i] \in Typeable
      /\ LineOK(buf2, idx - 1)
  BY LineOfFacts, ErasedLine, ElementOfSeq
<1>2. /\ new \in Seq(Typeable) /\ Len(new) = idx - 1
      /\ \A i \in 1 .. idx - 1 : new[i] = buf2[i - 1]
  BY <1>1, LineOfFacts
<1>3. \A i \in 1 .. idx - 1 : buf2[i - 1] = buf[i - 1]
  BY <1>1, Sizes DEF Put, LineOK, Buffers, Idx
<1> HIDE DEF buf2, old, new
<1>4. /\ part \in Seq(Typeable) /\ Len(part) = idx - 1
      /\ \A i \in 1 .. idx - 1 : part[i] = old[i]
  <2>1. 1 \in Int /\ idx - 1 \in Int /\ \A i \in 1 .. idx - 1 : old[i] \in Typeable
    BY <1>1
  <2>2. /\ part \in Seq(Typeable)
        /\ Len(part) = IF 1 <= idx - 1 THEN idx - 1 - 1 + 1 ELSE 0
        /\ \A i \in 1 .. idx - 1 - 1 + 1 : part[i] = old[1 + i - 1]
    BY <2>1, SubSeqProperties
  <2> HIDE DEF part
  <2> QED
    BY <1>1, <2>2
<1> HIDE DEF part
<1>5. new = part
  <2>1. ASSUME NEW i \in 1 .. idx - 1 PROVE new[i] = part[i]
    <3>1. i \in 1 .. idx
      BY <1>1
    <3> QED
      BY <1>1, <1>2, <1>3, <1>4, <3>1
  <2> QED
    BY <1>2, <1>4, <2>1, SeqEqual
<1>6. old # << >>
  BY <1>1, EmptySeq
<1> QED
  BY <1>1, <1>5, <1>6 DEF new, old, part, buf2

(* The line that Enter passes on is the line that was edited. *)
LEMMA LineEntered ==
  ASSUME NEW buf, NEW idx, LineOK(buf, idx)
  PROVE  TextRead(EnteredLine(buf, idx), BUFSIZE) = Append(LineOf(buf, idx), NL)
<1> DEFINE old == LineOf(buf, idx)
           entered == EnteredLine(buf, idx)
           text == [i \in 1 .. idx + 1 |-> entered[i - 1]]
           All == Typeable \cup {NL}
<1>1. /\ idx \in Nat /\ idx =< BUFSIZE - 1 /\ Len(old) = idx
      /\ old \in Seq(Typeable) /\ \A i \in 1 .. idx : old[i] = buf[i - 1]
  BY LineOfFacts
<1>2. TextRead(entered, BUFSIZE) = text
  BY <1>1, EnteredEnds, TextOfLine, Sizes
<1>3. /\ \A i \in 1 .. idx : text[i] = old[i]
      /\ text[idx + 1] = NL
  BY <1>1, Sizes DEF EnteredLine, Put, LineOK, Buffers, Idx
<1>4. Len(text) = idx + 1
  BY <1>1
<1>5. old \in Seq(All)
  BY <1>1, SeqMonotonic
<1>6. \A i \in 1 .. idx : old[i] \in All
  BY <1>1, <1>5, ElementOfSeq
<1>7. text \in Seq(All)
  <2>1. ASSUME NEW i \in 1 .. idx + 1 PROVE text[i] \in All
    <3>1. i \in 1 .. idx \/ i = idx + 1
      BY <1>1
    <3> HIDE DEF text, old
    <3> QED
      BY <1>3, <1>6, <3>1
  <2>2. text \in [1 .. idx + 1 -> All]
    BY <2>1
  <2> QED
    BY <1>1, <2>2, SeqDef
<1> HIDE DEF old, text
<1>8. /\ Append(old, NL) \in Seq(All) /\ Len(Append(old, NL)) = idx + 1
      /\ \A i \in 1 .. idx : Append(old, NL)[i] = old[i]
      /\ Append(old, NL)[idx + 1] = NL
  BY <1>1, <1>5, AppendProperties
<1>9. text = Append(old, NL)
  <2>1. \A i \in 1 .. Len(text) : text[i] = Append(old, NL)[i]
    BY <1>1, <1>3, <1>4, <1>8
  <2> QED
    BY <1>4, <1>7, <1>8, <2>1, SeqEqual
<1> QED
  BY <1>2, <1>9 DEF old

-----------------------------------------------------------------------------
(* Terminals implements Lines. *)

(* The line being edited, and the line entered and not read, of each       *)
(* terminal.                                                               *)
Edited == [t \in Terms |-> LineOf(EditBuf(t), EditIdx(t))]
Entered == [t \in Terms |-> IF t \in unread THEN TextRead(LineBuf(t), BUFSIZE)
                            ELSE NoLine]

LEMMA EditedIs ==
  /\ Edited = [t \in Terms |-> [i \in 1 .. EditIdx(t) |-> EditBuf(t)[i - 1]]]
  /\ \A t \in Terms : Edited[t] = LineOf(EditBuf(t), EditIdx(t))
  /\ currentTerminal \in Terms => Edited[currentTerminal] = LineOf(keyboard_buf, buf_idx)
  BY DEF Edited, LineOf, EditBuf, EditIdx

(* A key changes the visible terminal's line only. *)
LEMMA KeyedEdit ==
  ASSUME TInv, LineOK(keyboard_buf', buf_idx'), UNCHANGED <<currentTerminal, saved_idx>>,
         \A t \in Terms : t # currentTerminal => keyboard_bufs'[t] = keyboard_bufs[t]
  PROVE  Edited' = [Edited EXCEPT ![currentTerminal] = LineOf(keyboard_buf', buf_idx')]
<1>1. \A t \in Terms : Edited'[t] = IF t = currentTerminal THEN LineOf(keyboard_buf', buf_idx')
                                    ELSE Edited[t]
  BY KeyedLine DEF Edited, LineOf
<1> QED
  BY <1>1 DEF Edited

(* Without Enter, a read's end, a program's end or a switch, the entered   *)
(* lines stay.                                                             *)
LEMMA EnteredStays ==
  ASSUME UNCHANGED <<term_buf, saved_term_buf, currentTerminal, unread>>
  PROVE  UNCHANGED Entered
  BY DEF Entered, LineBuf, TextRead

(* A key that extends the line of the visible terminal. *)
LEMMA KeyTypes ==
  ASSUME TInv, LineOK(keyboard_buf', buf_idx'), buf_idx' >= buf_idx,
         \A i \in Idx : i < buf_idx => keyboard_buf'[i] = keyboard_buf[i],
         returned' = NoRead,
         UNCHANGED <<keyboard_bufs, saved_idx, entering, switching, unread>>,
         NEW text \in Seq(Typeable), Len(text) = buf_idx' - buf_idx,
         \A i \in 1 .. buf_idx' - buf_idx : text[i] = keyboard_buf'[buf_idx + i - 1]
  PROVE  L!Type(currentTerminal, text)
<1>1. /\ LineOf(keyboard_buf', buf_idx') = LineOf(keyboard_buf, buf_idx) \o text
      /\ Len(LineOf(keyboard_buf, buf_idx) \o text) =< BUFSIZE - 1
  <2>1. LineOK(keyboard_buf, buf_idx) /\ buf_idx =< buf_idx'
    BY VisibleLine, Sizes DEF LineOK
  <2> QED
    BY <2>1, LineExtended
<1>2. Edited' = [Edited EXCEPT ![currentTerminal] = LineOf(keyboard_buf', buf_idx')]
  BY KeyedEdit DEF switching
<1>3. Edited[currentTerminal] = LineOf(keyboard_buf, buf_idx)
  BY EditedIs, VisibleLine
<1>4. Edited' = [Edited EXCEPT ![currentTerminal] = @ \o text]
  BY <1>1, <1>2, <1>3
<1>5. UNCHANGED Entered
  BY EnteredStays DEF entering, switching
<1> QED
  BY <1>1, <1>3, <1>4, <1>5, EditedIs DEF L!Type, Edited, Entered, LineOf

(* One character. *)
LEMMA KeyTypesOne ==
  ASSUME TInv, NEW c \in Typeable, ~LineFull, PutKey(c), returned' = NoRead,
         UNCHANGED <<keyboard_bufs, saved_idx, entering, switching, unread>>
  PROVE  L!Type(currentTerminal, <<c>>)
<1>1. LineOK(keyboard_buf, buf_idx) /\ buf_idx \in Idx /\ buf_idx < BUFSIZE - 1
      /\ buf_idx \in Nat
  BY VisibleLine, Sizes DEF LineFull
<1>2. /\ buf_idx' = buf_idx + 1 /\ keyboard_buf' = Put(keyboard_buf, buf_idx, c)
      /\ LineOK(keyboard_buf', buf_idx')
  BY <1>1, TypedLine DEF PutKey
<1>3. /\ \A i \in Idx : i < buf_idx => keyboard_buf'[i] = keyboard_buf[i]
      /\ keyboard_buf'[buf_idx] = c
  BY <1>1, <1>2, Sizes DEF Put, LineOK, Buffers
<1>4. <<c>> \in Seq(Typeable) /\ Len(<<c>>) = 1 /\ <<c>>[1] = c
  OBVIOUS
<1>5. buf_idx' - buf_idx = 1 /\ \A i \in 1 .. 1 : i = 1 /\ buf_idx + i - 1 = buf_idx
  BY <1>1, <1>2
<1>6. /\ Len(<<c>>) = buf_idx' - buf_idx /\ buf_idx' >= buf_idx
      /\ \A i \in 1 .. buf_idx' - buf_idx : <<c>>[i] = keyboard_buf'[buf_idx + i - 1]
  BY <1>1, <1>2, <1>3, <1>4, <1>5
<1> QED
  BY <1>2, <1>3, <1>4, <1>6, KeyTypes

LEMMA Difference ==
  ASSUME NEW a \in Nat, NEW b \in Nat, NEW m \in Nat, b >= a, b =< m - 1
  PROVE  b - a \in Nat /\ b = a + (b - a) /\ b - a =< m - 1
  OBVIOUS

(* Tab: nothing, or spaces. *)
LEMMA TabTypes ==
  ASSUME TInv, KeyTab
  PROVE  L!Next
<1>1. /\ LineOK(keyboard_buf', buf_idx') /\ buf_idx' >= buf_idx
      /\ \A i \in Idx : keyboard_buf'[i] = IF buf_idx <= i /\ i < buf_idx' THEN SPACE
                                           ELSE keyboard_buf[i]
  BY TabbedLine
<1>2. /\ returned' = NoRead
      /\ UNCHANGED <<keyboard_bufs, saved_idx, entering, switching, unread>>
  BY DEF KeyTab
<1>3. PICK n \in Nat : /\ buf_idx' = buf_idx + n /\ buf_idx' - buf_idx = n
                       /\ n =< BUFSIZE - 1 /\ buf_idx + n =< BUFSIZE - 1
                       /\ buf_idx \in Nat /\ currentTerminal \in Terms
  <2>1. /\ buf_idx \in Nat /\ buf_idx' \in Nat /\ buf_idx' =< BUFSIZE - 1
        /\ buf_idx' >= buf_idx /\ currentTerminal \in Terms
    BY <1>1, VisibleLine, LineOfFacts
  <2>2. /\ buf_idx' - buf_idx \in Nat /\ buf_idx' = buf_idx + (buf_idx' - buf_idx)
        /\ buf_idx' - buf_idx =< BUFSIZE - 1
    BY <2>1, Sizes, Difference
  <2> QED
    BY <2>1, <2>2
<1> DEFINE text == [i \in 1 .. n |-> SPACE]
<1>4. text \in Seq(Typeable) /\ Len(text) = n
  <2>1. text \in [1 .. n -> Typeable]
    BY DEF Typeable
  <2> QED
    BY <1>3, <2>1, SeqDef
<1>5. ASSUME NEW i \in 1 .. n PROVE text[i] = keyboard_buf'[buf_idx + i - 1]
  <2>1. /\ buf_idx + i - 1 \in Idx
        /\ buf_idx <= buf_idx + i - 1 /\ buf_idx + i - 1 < buf_idx'
    BY <1>3, Sizes DEF Idx
  <2> QED
    BY <1>1, <2>1
<1>6. ASSUME NEW i \in Idx, i < buf_idx PROVE keyboard_buf'[i] = keyboard_buf[i]
  <2>1. ~(buf_idx <= i)
    BY <1>3, <1>6, Sizes DEF Idx
  <2> QED
    BY <1>1, <2>1
<1>7. L!Type(currentTerminal, text)
  <2>1. /\ LineOK(keyboard_buf', buf_idx') /\ buf_idx' >= buf_idx
        /\ Len(text) = buf_idx' - buf_idx
        /\ \A i \in 1 .. buf_idx' - buf_idx : text[i] = keyboard_buf'[buf_idx + i - 1]
    BY <1>1, <1>3, <1>4, <1>5
  <2> HIDE DEF text
  <2> QED
    BY <1>2, <1>4, <1>6, <2>1, KeyTypes
<1>8. CASE n = 0
  <2>1. buf_idx' = buf_idx
    BY <1>3, <1>8
  <2>2. \A i \in Idx : keyboard_buf'[i] = keyboard_buf[i]
    BY <1>1, <1>3, <2>1, Sizes DEF Idx
  <2>3. keyboard_buf' = keyboard_buf
    BY <1>1, <2>2, VisibleLine DEF LineOK, Buffers
  <2>4. UNCHANGED Edited
    BY <1>2, <2>1, <2>3 DEF Edited, EditBuf, EditIdx, LineOf, switching
  <2>5. UNCHANGED Entered
    BY <1>2, EnteredStays DEF entering, switching
  <2>6. L!Elsewhere
    BY <1>2, <2>4, <2>5, EditedIs DEF L!Elsewhere, Edited, Entered, LineOf
  <2> QED
    BY <2>6 DEF L!Next
<1>9. CASE n # 0
  <2>1. n \in 1 .. BUFSIZE - 1
    BY <1>3, <1>9, Sizes
  <2> QED
    BY <1>3, <1>7, <2>1 DEF L!Next
<1> QED
  BY <1>8, <1>9

LEMMA BackspaceErases ==
  ASSUME TInv, KeyBackspace
  PROVE  L!Erase(currentTerminal)
<1>1. /\ buf_idx > 0 /\ buf_idx' = buf_idx - 1
      /\ keyboard_buf' = Put(keyboard_buf, buf_idx - 1, NUL)
      /\ LineOK(keyboard_buf, buf_idx) /\ returned' = NoRead
      /\ UNCHANGED <<keyboard_bufs, saved_idx, entering, switching, unread>>
  BY VisibleLine DEF KeyBackspace, CanErase
<1>2. LineOK(keyboard_buf', buf_idx')
  BY <1>1, ErasedLine
<1> DEFINE old == LineOf(keyboard_buf, buf_idx)
<1>3. old # << >> /\ LineOf(keyboard_buf', buf_idx') = SubSeq(old, 1, Len(old) - 1)
  BY <1>1, LineShortened
<1>4. Edited' = [Edited EXCEPT ![currentTerminal] = LineOf(keyboard_buf', buf_idx')]
  BY <1>1, <1>2, KeyedEdit DEF switching
<1>5. Edited[currentTerminal] = old
  BY EditedIs, VisibleLine
<1> HIDE DEF old
<1>6. Edited' = [Edited EXCEPT ![currentTerminal] = SubSeq(@, 1, Len(@) - 1)]
  BY <1>3, <1>4, <1>5
<1>7. UNCHANGED Entered
  BY <1>1, EnteredStays DEF entering, switching
<1> QED
  BY <1>1, <1>3, <1>5, <1>6, <1>7, EditedIs DEF L!Erase, Edited, Entered, LineOf

LEMMA EnterEnters ==
  ASSUME Patient, TInv, KeyEnter
  PROVE  L!Enter(currentTerminal)
<1>1. /\ currentTerminal \in Terms /\ unread = {} /\ unread' = {currentTerminal}
      /\ LineOK(keyboard_buf, buf_idx)
      /\ keyboard_buf' = Empty /\ buf_idx' = 0
      /\ keyboard_bufs' = [keyboard_bufs EXCEPT ![currentTerminal] = Empty]
      /\ term_buf' = EnteredLine(keyboard_buf, buf_idx) /\ returned' = NoRead
      /\ UNCHANGED <<saved_idx, currentTerminal>>
  BY VisibleLine
  DEF KeyEnter, ClearedIndex, Patient, TInv, OneUnread, switching
<1>2. Edited' = [Edited EXCEPT ![currentTerminal] = LineOf(keyboard_buf', buf_idx')]
  BY <1>1, EmptyLine, KeyedEdit DEF TInv, TypeOK
<1>3. LineOf(keyboard_buf', buf_idx') = << >>
  <2>1. LineOf(keyboard_buf', buf_idx') \in Seq(Typeable)
        /\ Len(LineOf(keyboard_buf', buf_idx')) = 0
    BY <1>1, EmptyLine, LineOfFacts
  <2> QED
    BY <2>1, EmptySeq
<1>4. LineBuf(currentTerminal)' = term_buf'
  BY <1>1 DEF LineBuf
<1>5. \A t \in Terms :
        Entered'[t] = IF t = currentTerminal
                      THEN Append(LineOf(keyboard_buf, buf_idx), NL) ELSE NoLine
  <2>1. \A t \in Terms : Entered'[t] = IF t = currentTerminal
                                      THEN TextRead(term_buf', BUFSIZE) ELSE NoLine
    BY <1>1, <1>4 DEF Entered
  <2>2. TextRead(term_buf', BUFSIZE) = Append(LineOf(keyboard_buf, buf_idx), NL)
    BY <1>1, LineEntered
  <2> QED
    BY <2>1, <2>2
<1>6. \A t \in Terms : Entered[t] = NoLine
  BY <1>1 DEF Entered
<1>7. Edited[currentTerminal] = LineOf(keyboard_buf, buf_idx)
  BY <1>1, EditedIs
<1>8. Entered' = [Entered EXCEPT ![currentTerminal] = Append(Edited[currentTerminal], NL)]
  BY <1>1, <1>5, <1>6, <1>7 DEF Entered
<1> QED
  BY <1>1, <1>2, <1>3, <1>6, <1>8, EditedIs DEF L!Enter, Edited, Entered, LineOf

LEMMA CopyReads ==
  ASSUME TInv, NEW t \in Terms, ReadCopies(t)
  PROVE  L!Read(t, nbytes[t])
<1>1. /\ t = currentTerminal /\ t \in unread /\ unread \subseteq {t}
      /\ nbytes[t] \in ReadSizes
  BY ReadReturnsLine DEF TInv, OneUnread
<1>2. PICK i \in Idx : Ends(term_buf, i)
  BY ReadReturnsLine
<1> DEFINE asked == nbytes[t]
           n == IF i =< asked THEN i + 1 ELSE asked + 1
           whole == TextRead(term_buf, BUFSIZE)
           text == TextRead(term_buf, asked)
<1>3. /\ asked \in Nat /\ i \in Nat /\ i =< BUFSIZE - 1
      /\ n \in 1 .. BUFSIZE /\ n =< i + 1
  <2>1. nbytes[t] \in Nat
    BY <1>1, SizesAssumption
  <2> QED
    BY <2>1, Sizes DEF Idx
<1>3a. n = IF i + 1 <= asked THEN i + 1 ELSE asked + 1
  BY <1>3
<1>4. /\ whole = [j \in 1 .. i + 1 |-> term_buf[j - 1]]
      /\ text = [j \in 1 .. n |-> term_buf[j - 1]]
  <2>1. i =< BUFSIZE
    BY <1>3, Sizes
  <2>2. whole = [j \in 1 .. i + 1 |-> term_buf[j - 1]]
    BY <1>2, <2>1, TextOfLine, Sizes
  <2>3. text = [j \in 1 .. n |-> term_buf[j - 1]]
    BY <1>2, <1>3, TextOfLine
  <2> QED
    BY <2>2, <2>3
<1> DEFINE All == Typeable \cup {NL}
<1>5. \A j \in 1 .. i + 1 : term_buf[j - 1] \in All
  BY <1>2, <1>3, Sizes DEF Ends, Idx
<1>6. /\ whole \in Seq(All) /\ Len(whole) = i + 1
      /\ text \in Seq(All) /\ Len(text) = n
      /\ \A j \in 1 .. i + 1 : whole[j] = term_buf[j - 1]
      /\ \A j \in 1 .. n : text[j] = term_buf[j - 1]
  <2> HIDE DEF n
  <2>1. whole \in [1 .. i + 1 -> All] /\ i + 1 \in Nat
    BY <1>3, <1>4, <1>5
  <2>2. text \in [1 .. n -> All] /\ n \in Nat
    BY <1>3, <1>4, <1>5
  <2>3. whole \in Seq(All) /\ text \in Seq(All)
    BY <2>1, <2>2, SeqDef
  <2>4. Len(whole) = i + 1 /\ Len(text) = n
    BY <1>4, <2>1, <2>2
  <2> QED
    BY <1>4, <2>3, <2>4
<1> HIDE DEF whole, text, n
<1>7. text = SubSeq(whole, 1, n)
  <2>1. 1 \in Int /\ n \in Int /\ \A j \in 1 .. n : whole[j] \in All
    BY <1>3, <1>5, <1>6
  <2>2. /\ SubSeq(whole, 1, n) \in Seq(All)
        /\ Len(SubSeq(whole, 1, n)) = n
        /\ \A j \in 1 .. n : SubSeq(whole, 1, n)[j] = whole[j]
    <3>1. /\ SubSeq(whole, 1, n) \in Seq(All)
          /\ Len(SubSeq(whole, 1, n)) = IF 1 <= n THEN n - 1 + 1 ELSE 0
          /\ \A j \in 1 .. n - 1 + 1 : SubSeq(whole, 1, n)[j] = whole[1 + j - 1]
      BY <2>1, SubSeqProperties
    <3> QED
      BY <1>3, <3>1
  <2>3. \A j \in 1 .. Len(text) : text[j] = SubSeq(whole, 1, n)[j]
    BY <1>3, <1>6, <2>2
  <2> QED
    BY <1>6, <2>2, <2>3, SeqEqual
<1>8. Entered[t] = whole /\ whole # NoLine
  <2>1. LineBuf(t) = term_buf
    BY <1>1 DEF LineBuf
  <2>2. Entered[t] = whole
    BY <1>1, <2>1 DEF Entered, whole
  <2>3. whole # << >>
    BY <1>3, <1>6, EmptySeq
  <2> QED
    BY <2>2, <2>3 DEF NoLine
<1>9. /\ unread' = unread \ {t} /\ UNCHANGED <<editing, entering, switching>>
      /\ returned' = [term |-> t, asked |-> asked, text |-> text]
  BY DEF ReadCopies, text
<1>10. Entered' = [Entered EXCEPT ![t] = NoLine]
  <2>1. \A u \in Terms : Entered'[u] = NoLine /\ (u # t => Entered[u] = NoLine)
    BY <1>1, <1>9 DEF Entered
  <2> QED
    BY <2>1 DEF Entered
<1>11. UNCHANGED Edited
  BY <1>9 DEF Edited, EditBuf, EditIdx, LineOf, editing, switching
<1>12. n = IF Len(Entered[t]) <= asked THEN Len(Entered[t]) ELSE asked + 1
  BY <1>6, <1>8, <1>3a
<1> QED
  BY <1>7, <1>8, <1>9, <1>10, <1>11, <1>12, EditedIs
  DEF L!Read, Edited, Entered, LineOf

(* A program's end discards what was entered for it; there is nothing else *)
(* in term_buf.                                                            *)
LEMMA HaltDiscards ==
  ASSUME Patient, TInv, NEW isBase \in BOOLEAN, Halt(isBase)
  PROVE  L!Discard(scheduled_term)
<1>1. /\ unread' = {} /\ unread \subseteq {scheduled_term} /\ returned' = NoRead
      /\ UNCHANGED <<editing, switching>>
  BY DEF Halt, Patient, TInv, OneUnread
<1>2. \A u \in Terms : Entered'[u] = NoLine /\ (u # scheduled_term => Entered[u] = NoLine)
  BY <1>1 DEF Entered
<1>3. Entered' = [Entered EXCEPT ![scheduled_term] = NoLine]
  BY <1>2 DEF Entered
<1>4. UNCHANGED Edited
  BY <1>1 DEF Edited, EditBuf, EditIdx, LineOf, editing, switching
<1> QED
  BY <1>1, <1>3, <1>4, EditedIs DEF L!Discard, Edited, Entered, LineOf

LEMMA LinesNext ==
  ASSUME Patient, TInv, [Next]_vars
  PROVE  L!Next \/ UNCHANGED <<Edited, Entered, returned>>
<1>1. ASSUME UNCHANGED <<Edited, Entered>>, returned' = NoRead PROVE L!Next
  <2>1. L!Elsewhere
    BY <1>1, EditedIs DEF L!Elsewhere, Edited, Entered, LineOf
  <2> QED
    BY <2>1 DEF L!Next
<1>2. ASSUME UNCHANGED <<editing, switching>> PROVE UNCHANGED Edited
  BY <1>2 DEF Edited, EditBuf, EditIdx, LineOf, editing, switching
<1>3. ASSUME NEW c \in Typeable, ~LineFull, PutKey(c), returned' = NoRead,
             UNCHANGED <<keyboard_bufs, saved_idx, entering, switching, unread>>
      PROVE  L!Type(currentTerminal, <<c>>) /\ currentTerminal \in Terms
  BY <1>3, KeyTypesOne, VisibleLine
<1>4. ASSUME NEW c \in Keys, KeyChar(c) PROVE L!Next
  <2>1. CASE LineFull
    <3>1. UNCHANGED <<editing, entering, switching, unread>> /\ returned' = NoRead
      BY <1>4, <2>1 DEF KeyChar, editing
    <3> QED
      BY <1>1, <1>2, <3>1, EnteredStays DEF entering, switching
  <2>2. CASE ~LineFull
    <3>1. L!Type(currentTerminal, <<c>>) /\ currentTerminal \in Terms
      BY <1>4, <1>3, <2>2 DEF KeyChar, Typeable
    <3> QED
      BY <3>1 DEF L!Next
  <2> QED
    BY <2>1, <2>2
<1>5. CASE KeySpace
  <2>1. L!Type(currentTerminal, <<SPACE>>) /\ currentTerminal \in Terms
    BY <1>5, <1>3 DEF KeySpace, Typeable, Patient
  <2>2. <<SPACE>> = [i \in 1 .. 1 |-> SPACE] /\ 1 \in 1 .. BUFSIZE - 1
    BY Sizes
  <2> QED
    BY <2>1, <2>2 DEF L!Next
<1>6. CASE KeyTab
  BY <1>6, TabTypes
<1>7. CASE KeyBackspace
  <2>1. PICK v \in Terms : v = currentTerminal
    BY VisibleLine
  <2>2. L!Erase(v)
    BY <1>7, <2>1, BackspaceErases DEF L!Erase
  <2> QED
    BY <2>2 DEF L!Next
<1>8. CASE KeyEnter
  <2>1. PICK v \in Terms : v = currentTerminal
    BY VisibleLine
  <2>2. L!Enter(v)
    BY <1>8, <2>1, EnterEnters DEF L!Enter
  <2> QED
    BY <2>2 DEF L!Next
<1>9. CASE KeyAlt
  BY <1>9, <1>1, EnteredStays
  DEF KeyAlt, Edited, EditBuf, EditIdx, LineOf, editing, entering
<1>10. ASSUME NEW n \in Terms, KeyF(n) PROVE L!Next
  <2>1. SwitchedLines
    BY <1>10, SwitchKeepsLines
  <2>2. unread = {} /\ UNCHANGED unread /\ returned' = NoRead
    BY <1>10 DEF KeyF, Patient, TInv, OneUnread
  <2>3. UNCHANGED Edited
    BY <2>1 DEF SwitchedLines, Edited, LineOf
  <2>4. UNCHANGED Entered
    BY <2>2 DEF Entered
  <2> QED
    BY <1>1, <2>2, <2>3, <2>4
<1>11. ASSUME NEW t \in Terms, NEW n \in ReadSizes, ReadStarts(t, n) PROVE L!Next
  BY <1>11, <1>1, <1>2, EnteredStays DEF ReadStarts, entering, switching
<1>12. ASSUME NEW t \in Terms, ReadWakes(t) PROVE L!Next
  BY <1>12, <1>1, <1>2, EnteredStays DEF ReadWakes, switching
<1>13. ASSUME NEW t \in Terms, ReadCopies(t) PROVE L!Next
  <2>1. nbytes[t] \in ReadSizes
    BY <1>13, ReadReturnsLine
  <2>2. L!Read(t, nbytes[t])
    BY <1>13, CopyReads
  <2>3. PICK asked \in ReadSizes : asked = nbytes[t]
    BY <2>1
  <2>4. L!Read(t, asked)
    BY <2>2, <2>3 DEF L!Read
  <2> QED
    BY <2>4 DEF L!Next
<1>14. ASSUME NEW isBase \in BOOLEAN, Halt(isBase) PROVE L!Next
  <2>1. PICK v \in Terms : v = scheduled_term
    BY DEF TInv, TypeOK
  <2>2. L!Discard(v)
    BY <1>14, <2>1, HaltDiscards DEF L!Discard
  <2> QED
    BY <2>2 DEF L!Next
<1>15. CASE Tick
  BY <1>15, <1>1, <1>2, EnteredStays DEF Tick, entering, switching
<1>16. CASE UNCHANGED vars
  BY <1>16, <1>2, EnteredStays DEF vars, entering, switching
<1> QED
  BY <1>4, <1>5, <1>6, <1>7, <1>8, <1>9, <1>10, <1>11, <1>12, <1>13, <1>14, <1>15, <1>16
  DEF Next

(* Every terminal has a line of its own: keys edit the visible terminal's, *)
(* and a read gets the line entered in its own terminal.                   *)
THEOREM GivesEveryTerminalALine ==
  ASSUME Patient
  PROVE  Spec => ImplementsLines
<1>1. Init => L!Init
  <2> SUFFICES ASSUME Init PROVE L!Init
    OBVIOUS
  <2>1. \A t \in Terms : EditIdx(t) = 0
    BY DEF Init, EditIdx
  <2>2. \A t \in Terms : [i \in 1 .. EditIdx(t) |-> EditBuf(t)[i - 1]] = << >>
    BY <2>1
  <2> QED
    BY <2>2 DEF Init, L!Init
<1>2. TInv /\ [Next]_vars => [L!Next]_(L!lineVars)
  BY LinesNext, EditedIs DEF L!lineVars, Edited, Entered, LineOf
<1>3. Spec => []TInv
  BY TInvInit, TInvNext, PTL DEF Spec
<1> QED
  BY <1>1, <1>2, <1>3, PTL DEF Spec, ImplementsLines, L!Spec
=============================================================================
