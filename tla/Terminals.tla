----------------------------- MODULE Terminals ------------------------------
(***************************************************************************)
(* The line discipline: keyboard_handler and its helpers (keyboard.c), the *)
(* switch of the visible terminal, and terminal_read and terminal_close    *)
(* (terminal.c), which the programs of all terminals share.                *)
(*                                                                         *)
(* There is one keyboard_buf and one term_buf, those of the visible        *)
(* terminal; terminal_changing_handler saves and loads them.  A key is     *)
(* handled at any time, between any two steps of a read: read() enables    *)
(* interrupts and terminal_read spins on its terminal's enter flag.  The   *)
(* model starts where pit_handler has shown terminal 1 after boot.         *)
(***************************************************************************)
EXTENDS Integers, Sequences, FiniteSets

CONSTANTS NUM_TERMS,       \* terminals (3)
          BUFSIZE,         \* bytes of a buffer (128)
          TAB_LENGTH,      \* spaces a tab stands for (4)
          Keys,            \* the characters the user types
          SPACE,           \* and the one that Space and Tab insert
          ReadSizes,       \* the sizes programs pass to read
          PlainFKeys,      \* does the user press F1 to F3 without Alt?
          Hurry,           \* Enter or Alt+Fn before the entered line was read?
          BackgroundHalts, \* does a hidden program end before it was read?
          FullLines        \* Space or Enter on a line that is full?

ASSUME SizesAssumption ==
    /\ NUM_TERMS \in Nat \ {0} /\ BUFSIZE \in Nat \ {0, 1} /\ TAB_LENGTH \in Nat
    /\ ReadSizes \subseteq Nat \ {0}
ASSUME HabitsAssumption ==
    {PlainFKeys, Hurry, BackgroundHalts, FullLines} \subseteq BOOLEAN

NUL == "nul"
NL == "newline"
ASSUME KeysAssumption == NUL \notin Keys \cup {SPACE} /\ NL \notin Keys \cup {SPACE}

Terms == 1 .. NUM_TERMS            \* 1-indexed here, as currentTerminal is
Idx == 0 .. BUFSIZE - 1
Buffers == [Idx -> Keys \cup {NUL, NL, SPACE}]
Empty == [i \in Idx |-> NUL]
NoRead == [term |-> 0, asked |-> 0, text |-> << >>]
NoLine == << >>

VARIABLES
    keyboard_buf,      \* the line being edited in the visible terminal
    buf_idx,           \* and where its next character goes
    keyboard_bufs,     \* keyboard_buf1, keyboard_buf2, keyboard_buf3
    saved_idx,         \* terminal_switch_array[]._buf_idx
    term_buf,          \* the line last entered in the visible terminal
    saved_term_buf,    \* terminal_switch_array[]._term_buf
    enter_flag,        \* _enter_flag: a line was entered in the terminal
    recentTermChoice,  \* its CURR_TERM: the function key pressed last
    currentTerminal,   \* the visible terminal
    alt_info,          \* 1 while Alt is held
    scheduled_term,    \* the terminal whose program has the processor
    reader,            \* where its program is in terminal_read
    nbytes,            \* and how many bytes that wants
    returned,          \* what terminal_read has just returned, and to whom
    unread,            \* history: terminals with an entered line not yet read
    overrun            \* history: a byte past the end of keyboard_buf was written

editing == <<keyboard_buf, buf_idx, keyboard_bufs, saved_idx>>
entering == <<term_buf, saved_term_buf, enter_flag>>
switching == <<recentTermChoice, currentTerminal, alt_info>>
reading == <<reader, nbytes>>
vars == <<editing, entering, switching, scheduled_term, reading, returned, unread,
          overrun>>

TypeOK ==
    /\ keyboard_buf \in Buffers
    /\ buf_idx \in Nat
    /\ keyboard_bufs \in [Terms -> Buffers]
    /\ saved_idx \in [Terms -> Nat]
    /\ term_buf \in Buffers
    /\ saved_term_buf \in [Terms -> Buffers]
    /\ enter_flag \in [Terms -> {0, 1}]
    /\ recentTermChoice \in Terms
    /\ currentTerminal \in Terms
    /\ alt_info \in {0, 1}
    /\ scheduled_term \in Terms
    /\ reader \in [Terms -> {"away", "waiting", "copying"}]
    /\ nbytes \in [Terms -> ReadSizes \cup {0}]
    /\ returned.term \in Terms \cup {0}
    /\ unread \subseteq Terms
    /\ overrun \in BOOLEAN

Init ==
    /\ keyboard_buf = Empty
    /\ buf_idx = 0
    /\ keyboard_bufs = [t \in Terms |-> Empty]
    /\ saved_idx = [t \in Terms |-> 0]
    /\ term_buf = Empty
    /\ saved_term_buf = [t \in Terms |-> Empty]
    /\ enter_flag = [t \in Terms |-> 0]
    /\ recentTermChoice = 1
    /\ currentTerminal = 1
    /\ alt_info = 0
    /\ scheduled_term = 1
    /\ reader = [t \in Terms |-> "away"]
    /\ nbytes = [t \in Terms |-> 0]
    /\ returned = NoRead
    /\ unread = {}
    /\ overrun = FALSE

-----------------------------------------------------------------------------
(* The keyboard interrupt. *)

Put(buf, i, c) == IF i \in Idx THEN [buf EXCEPT ![i] = c] ELSE buf

LineFull == buf_idx >= BUFSIZE - 1

(* One character at the end of the line. *)
PutKey(c) ==
    /\ keyboard_buf' = Put(keyboard_buf, buf_idx, c)
    /\ buf_idx' = buf_idx + 1
    /\ overrun' = (overrun \/ buf_idx \notin Idx)

(* A letter, digit or sign: ignored on a full line. *)
KeyChar(c) ==
    /\ IF LineFull THEN UNCHANGED <<keyboard_buf, buf_idx, overrun>> ELSE PutKey(c)
    /\ returned' = NoRead
    /\ UNCHANGED <<keyboard_bufs, saved_idx, entering, switching, scheduled_term,
                   reading, unread>>

(* The space bar: space_helper does not look at the length of the line. *)
KeySpace ==
    /\ FullLines \/ ~LineFull
    /\ PutKey(SPACE)
    /\ returned' = NoRead
    /\ UNCHANGED <<keyboard_bufs, saved_idx, entering, switching, scheduled_term,
                   reading, unread>>

(* Tab: as many spaces of TAB_LENGTH as the line has room for. *)
KeyTab ==
    LET last == IF LineFull THEN buf_idx
                ELSE IF buf_idx + TAB_LENGTH < BUFSIZE THEN buf_idx + TAB_LENGTH
                     ELSE BUFSIZE - 1
    IN
    /\ keyboard_buf' =
         [i \in Idx |-> IF buf_idx <= i /\ i < last THEN SPACE ELSE keyboard_buf[i]]
    /\ buf_idx' = last
    /\ returned' = NoRead
    /\ UNCHANGED <<keyboard_bufs, saved_idx, entering, switching, scheduled_term,
                   reading, unread, overrun>>

(* Mutated form: Backspace on an empty line. *)
EraseAlways(i) == TRUE

CanErase(i) == i > 0

KeyBackspace ==
    /\ CanErase(buf_idx)
    /\ buf_idx' = buf_idx - 1
    /\ keyboard_buf' = Put(keyboard_buf, buf_idx - 1, NUL)
    /\ overrun' = (overrun \/ buf_idx - 1 \notin Idx)
    /\ returned' = NoRead
    /\ UNCHANGED <<keyboard_bufs, saved_idx, entering, switching, scheduled_term,
                   reading, unread>>

(* Mutated form: the index of the line is not reset. *)
KeepIndex(i) == i

(* buf_idx after buffer_clear, which also puts a newline at its old value. *)
ClearedIndex(i) == 0

(* Mutated form: the buffer is copied before the newline is added. *)
LineWithoutNewline(buf, i) == buf

(* What enter_helper copies to term_buf. *)
EnteredLine(buf, i) == Put(buf, i, NL)

(* Mutated form: the flag of the terminal that happens to be scheduled. *)
ScheduledTerm == scheduled_term

(* The terminal whose _enter_flag enter_helper sets. *)
EnterTerm == currentTerminal

(* enter_helper and buffer_clear. *)
KeyEnter ==
    /\ Hurry \/ currentTerminal \notin unread
    /\ FullLines \/ ~LineFull
    /\ enter_flag' = [enter_flag EXCEPT ![EnterTerm] = 1]
    /\ unread' = unread \cup {currentTerminal}
    /\ term_buf' = EnteredLine(keyboard_buf, buf_idx)
    /\ overrun' = (overrun \/ buf_idx \notin Idx \/ buf_idx + 1 \notin Idx)
    /\ buf_idx' = ClearedIndex(buf_idx + 1)
    /\ keyboard_buf' = Empty
    /\ keyboard_bufs' = [keyboard_bufs EXCEPT ![recentTermChoice] = Empty]
    /\ returned' = NoRead
    /\ UNCHANGED <<saved_idx, saved_term_buf, switching, scheduled_term, reading>>

KeyAlt ==
    /\ alt_info' = 1 - alt_info
    /\ returned' = NoRead
    /\ UNCHANGED <<editing, entering, recentTermChoice, currentTerminal,
                   scheduled_term, reading, unread, overrun>>

(* Mutated form: the buffer is saved for the terminal that is shown next. *)
SavedForNext(saved, active, prev, curr) == [saved EXCEPT ![curr] = active]

(* What terminal_changing_handler saves for the terminal it leaves. *)
Saved(saved, active, prev, curr) == [saved EXCEPT ![prev] = active]

(* terminal_changing_handler: save for prev, show curr, load what was      *)
(* saved for it.                                                           *)
ChangeTerminal(prev, curr) ==
    LET bufs == Saved(keyboard_bufs, keyboard_buf, prev, curr)
        idxs == Saved(saved_idx, buf_idx, prev, curr)
        lines == Saved(saved_term_buf, term_buf, prev, curr)
    IN
    /\ currentTerminal' = curr
    /\ keyboard_bufs' = bufs /\ keyboard_buf' = bufs[curr]
    /\ saved_idx' = idxs /\ buf_idx' = idxs[curr]
    /\ saved_term_buf' = lines /\ term_buf' = lines[curr]

(* f_helper: the choice is recorded with or without Alt.  The previous one *)
(* (PREV_TERM) is only ever read where it has just been set, here.         *)
KeyF(n) ==
    /\ PlainFKeys \/ alt_info = 1
    /\ Hurry \/ currentTerminal \notin unread
    /\ recentTermChoice' = n
    /\ IF alt_info = 1
       THEN ChangeTerminal(recentTermChoice, n)
       ELSE UNCHANGED <<editing, term_buf, saved_term_buf, currentTerminal>>
    /\ returned' = NoRead
    /\ UNCHANGED <<enter_flag, alt_info, scheduled_term, reading, unread, overrun>>

-----------------------------------------------------------------------------
(* The program of the scheduled terminal. *)

(* read(0): the call, up to the loop that waits for Enter. *)
ReadStarts(t, n) ==
    /\ scheduled_term = t /\ reader[t] = "away"
    /\ reader' = [reader EXCEPT ![t] = "waiting"]
    /\ nbytes' = [nbytes EXCEPT ![t] = n]
    /\ returned' = NoRead
    /\ UNCHANGED <<editing, entering, switching, scheduled_term, unread, overrun>>

(* The loop ends and the flags are reset. *)
ReadWakes(t) ==
    /\ scheduled_term = t /\ reader[t] = "waiting" /\ enter_flag[t] = 1
    /\ reader' = [reader EXCEPT ![t] = "copying"]
    /\ enter_flag' = [enter_flag EXCEPT ![t] = 0]
    /\ returned' = NoRead
    /\ UNCHANGED <<editing, term_buf, saved_term_buf, switching, scheduled_term,
                   nbytes, unread, overrun>>

(* The bytes terminal_read counts: up to nbytes + 1, or the first newline. *)
TextRead(buf, n) ==
    LET last == IF n >= BUFSIZE THEN BUFSIZE - 1 ELSE n
        ends == {i \in 0 .. last : buf[i] = NL}
        stop == IF ends = {} THEN last ELSE CHOOSE i \in ends : \A j \in ends : i <= j
    IN [i \in 1 .. stop + 1 |-> buf[i - 1]]

(* The copy out of term_buf, whichever terminal's line that holds now. *)
ReadCopies(t) ==
    /\ scheduled_term = t /\ reader[t] = "copying"
    /\ returned' = [term |-> t, asked |-> nbytes[t],
                     text |-> TextRead(term_buf, nbytes[t])]
    /\ reader' = [reader EXCEPT ![t] = "away"]
    /\ nbytes' = [nbytes EXCEPT ![t] = 0]
    /\ unread' = unread \ {t}
    /\ UNCHANGED <<editing, entering, switching, scheduled_term, overrun>>

(* halt: the enter flag is reset; unless a base shell ends, terminal_close *)
(* empties term_buf (twice: for stdin and for stdout).                     *)
Halt(isBase) ==
    /\ reader[scheduled_term] = "away"
    /\ BackgroundHalts \/ scheduled_term = currentTerminal \/ currentTerminal \notin unread
    /\ enter_flag' = [enter_flag EXCEPT ![scheduled_term] = 0]
    /\ term_buf' = IF isBase THEN term_buf ELSE Empty
    /\ unread' = unread \ {scheduled_term}
    /\ returned' = NoRead
    /\ UNCHANGED <<editing, saved_term_buf, switching, scheduled_term, reading, overrun>>

(* The timer interrupt. *)
Tick ==
    /\ scheduled_term' = (scheduled_term % NUM_TERMS) + 1
    /\ returned' = NoRead
    /\ UNCHANGED <<editing, entering, switching, reading, unread, overrun>>

Next ==
    \/ \E c \in Keys : KeyChar(c)
    \/ KeySpace \/ KeyTab \/ KeyBackspace \/ KeyEnter \/ KeyAlt
    \/ \E n \in Terms : KeyF(n)
    \/ \E t \in Terms : \/ \E n \in ReadSizes : ReadStarts(t, n)
                        \/ ReadWakes(t)
                        \/ ReadCopies(t)
    \/ \E isBase \in BOOLEAN : Halt(isBase)
    \/ Tick

Spec == Init /\ [][Next]_vars

(* The timer keeps ticking, and a time slice of 20 ms is long enough for a *)
(* reader that is scheduled again and again to get on.                     *)
FairSpec ==
    /\ Spec
    /\ WF_vars(Tick)
    /\ \A t \in Terms : SF_vars(ReadWakes(t)) /\ SF_vars(ReadCopies(t))

-----------------------------------------------------------------------------
(* Properties. *)

EditBuf(t) == IF t = currentTerminal THEN keyboard_buf ELSE keyboard_bufs[t]
EditIdx(t) == IF t = currentTerminal THEN buf_idx ELSE saved_idx[t]
LineBuf(t) == IF t = currentTerminal THEN term_buf ELSE saved_term_buf[t]

(* buf_idx goes with keyboard_buf through every key and every switch of    *)
(* terminal: the characters of a line are below the index, and nothing is  *)
(* at or above it, where the next key or the newline will be put.          *)
EditConsistent ==
    \A t \in Terms : \A i \in Idx : EditBuf(t)[i] = NUL <=> i >= EditIdx(t)

(* "The -1 is to accomadate for the newline ascii added at the end"        *)
(* (keyboard.c:307): with the check of keyboard_handler for a full line, no *)
(* key writes past the end of keyboard_buf.                                *)
NoOverrun == ~overrun

(* "save data of prev terminal and load data for curr terminal"            *)
(* (keyboard.c:551): a function key, with or without Alt, leaves the line  *)
(* being edited in every terminal as it is.                                *)
FKeysKeepLines ==
    [][(\E n \in Terms : KeyF(n))
         => \A t \in Terms : (EditBuf(t) = EditBuf(t)') /\ (EditIdx(t) = EditIdx(t)')]_vars

(* terminal_read returns a line as it was entered, up to its newline when  *)
(* the caller asked for that much: never the NULs of a buffer emptied by   *)
(* terminal_close, a switch or another line since Enter.                   *)
ReadEndsLine ==
    returned # NoRead =>
        /\ \A i \in 1 .. Len(returned.text) : returned.text[i] # NUL
        /\ Len(returned.text) <= returned.asked =>
              returned.text[Len(returned.text)] = NL

(* "nbytes to tell the total number of bytes we want read"                 *)
(* (systemCall.c:335): terminal_read gives a caller no more than it wants. *)
NoMoreThanAsked == Len(returned.text) <= returned.asked

L == INSTANCE Lines WITH
        Terminals <- Terms, Chars <- Keys, Space <- SPACE, Newline <- NL,
        Limit <- BUFSIZE - 1, Sizes <- ReadSizes,
        edit <- [t \in Terms |-> [i \in 1 .. EditIdx(t) |-> EditBuf(t)[i - 1]]],
        entered <- [t \in Terms |->
                      IF t \in unread THEN TextRead(LineBuf(t), BUFSIZE) ELSE NoLine]

(* The shared buffers implement a line per terminal: a read gets the line  *)
(* entered in its own terminal, and keys edit the visible terminal's line  *)
(* only, whatever was switched, read or ended in between.                  *)
ImplementsLines == L!Spec

(* A program that waits when Enter is pressed in its terminal gets to     *)
(* return from terminal_read, whichever program is scheduled and whatever  *)
(* the user does meanwhile: the flag of the right terminal was set.        *)
EnteredLineIsRead ==
    \A t \in Terms : (reader[t] # "away" /\ t \in unread) ~> (t \notin unread)
=============================================================================
