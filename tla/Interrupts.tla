---------------------------- MODULE Interrupts ------------------------------
(***************************************************************************)
(* Interrupts: the two controllers (i8259.c), the gates of the IDT         *)
(* (initialize_idt in exception_handlers.c), the assembly linkage of       *)
(* handlers and system calls, and the order in which entry() in kernel.c   *)
(* brings them up.                                                         *)
(*                                                                         *)
(* Each terminal has a kernel stack, here the stack of what runs on it:    *)
(* the program, a system call or exception, and keyboard handlers.  The    *)
(* timer's handler leaves one stack for another.  A handler is interrupted *)
(* wherever it has interrupts enabled: putc ends with sti, so whatever is  *)
(* shown while a program reads, a newline and a redrawn line too, opens    *)
(* its handler; and tab_helper sends the end of interrupt and enables      *)
(* interrupts after every space.                                           *)
(* How a key changes the line is the subject of module Terminals; here its *)
(* handler has steps, and one keyboard_buf is enough.                      *)
(***************************************************************************)
EXTENDS Integers, Sequences, FiniteSets

CONSTANTS NUM_TERMS,    \* terminals (3)
          BUFSIZE,      \* bytes of keyboard_buf (128)
          TAB_LENGTH,   \* spaces a tab stands for (4)
          Chars,        \* the characters the user types
          SPACE,        \* and the one that Tab inserts
          MaxKeys,      \* bound: keys pressed
          MaxWaiting,   \* bound: scan codes waiting in the keyboard controller
          Habits        \* what the user does beyond the ordinary

ASSUME InterruptsAssumption ==
    /\ NUM_TERMS \in Nat \ {0} /\ BUFSIZE \in Nat \ {0} /\ TAB_LENGTH \in Nat \ {0}
    /\ MaxKeys \in Nat /\ MaxWaiting \in Nat
    /\ Habits \subseteq {"HurriesAfterTab", "TypesAtBoot"}

Terms == 0 .. NUM_TERMS - 1
PIT == 0
KEYBOARD == 1
SLAVE == 2             \* the line of the master to which the slave is wired
RTC == 8
Lines == {PIT, KEYBOARD, SLAVE, RTC}
TAB == "tab"
ENTER == "enter"
BACKSPACE == "backspace"
CTRL_L == "ctrl-l"
SILENT == "silent"     \* shift, releases, unknown codes: nothing shows
NUL == "nul"
NEWLINE == "newline"
Keys == Chars \cup {TAB, ENTER, BACKSPACE, CTRL_L, SILENT}
Bytes == Chars \cup {SPACE, NEWLINE, NUL}

ASSUME KeyAssumption ==
    /\ Chars \cap {TAB, ENTER, BACKSPACE, CTRL_L, SILENT} = {}
    /\ NUL \notin Chars \cup {SPACE}

Frame(at, key, done) == [at |-> at, key |-> key, done |-> done]
Boot == Frame("boot", SILENT, 0)
User == Frame("user", SILENT, 0)
Call == Frame("call", SILENT, 0)       \* a system call or exception handler
End == Frame("end", SILENT, 0)         \* a keyboard handler about to return

VARIABLES
    steps,          \* what entry() has left to do
    gates,          \* the vectors with a present gate in the loaded IDT
    enabled,        \* the lines that are not masked
    irr, isr,       \* the controllers' requested and in-service lines
    IFlag,          \* the processor's interrupt flag
    scheduled_term,
    stack,          \* what runs on each terminal's kernel stack, last first
    port,           \* scan codes in the keyboard controller
    keyboard_buf, buf_idx,
    typed,          \* history: the line that the keys read so far make
    pressed         \* history: keys pressed

Blank == [i \in 0 .. BUFSIZE - 1 |-> NUL]

pic == <<enabled, irr, isr>>
cpu == <<IFlag, scheduled_term, stack>>
typing == <<keyboard_buf, buf_idx, typed>>
vars == <<steps, gates, pic, cpu, port, typing, pressed>>

TypeOK ==
    /\ gates \subseteq 0 .. 255
    /\ enabled \subseteq Lines /\ irr \subseteq Lines /\ isr \subseteq Lines
    /\ IFlag \in BOOLEAN
    /\ scheduled_term \in Terms
    /\ \A t \in Terms : \A i \in 1 .. Len(stack[t]) :
           stack[t][i] \in {Boot, User, Call, End} \cup
                [at : {"stored", "tab"}, key : Keys, done : 0 .. TAB_LENGTH]
    /\ Len(port) =< MaxWaiting /\ pressed \in 0 .. MaxKeys
    /\ keyboard_buf \in [0 .. BUFSIZE - 1 -> Bytes]
    /\ buf_idx \in 0 .. BUFSIZE

-----------------------------------------------------------------------------
(* The controllers. *)

(* Where a line enters the master, which serves the lower number first. *)
MasterLine(l) == IF l = RTC THEN SLAVE ELSE l

(* i8259_init: the vectors of the master start at ICW2_MASTER, those of    *)
(* the slave at ICW2_SLAVE.                                                *)
Vector(l) == IF l < 8 THEN 32 + l ELSE 40 + (l - 8)

(* The lines in service for a request that the processor accepted. *)
Serviced(l) == {l, MasterLine(l)}

(* Mutated form: only the controller that raised the interrupt is told. *)
EoiToOneOnly(l) == {l}

(* send_eoi: the slave and then the master. *)
EndOfInterrupt(l) == {l, MasterLine(l)}

(* The processor accepts a request that is not masked, when interrupts are *)
(* enabled and nothing as urgent is in service.                            *)
Accepts(l) ==
    /\ IFlag /\ l \in irr /\ l \in enabled
    /\ \A s \in isr : MasterLine(l) < s

-----------------------------------------------------------------------------
(* The processor. *)

Top == Head(stack[scheduled_term])
Push(frame) == stack' = [stack EXCEPT ![scheduled_term] = <<frame>> \o @]
Replace(frame) == stack' = [stack EXCEPT ![scheduled_term] = <<frame>> \o Tail(@)]
Pop == stack' = [stack EXCEPT ![scheduled_term] = Tail(@)]

(* initialize_idt: trap gates for the exceptions, 15 left out, interrupt   *)
(* gates for the system call and the three devices.                        *)
Exceptions == (0 .. 19) \ {15}
SystemCall == 128
InterruptGates == {SystemCall, 32, 33, 40}

(* An interrupt gate disables interrupts, a trap gate leaves them alone. *)
FlagAfterGate(v) == IF v \in InterruptGates THEN FALSE ELSE IFlag

(* Mutated form: the controllers are set up before the IDT. *)
PicFirst == <<"printf", "pic", "keyboard", "idt", "rtc", "cli", "pit", "execute">>

(* What entry() does with interrupts, in its order. *)
BootSteps == <<"printf", "idt", "pic", "keyboard", "rtc", "cli", "pit", "execute">>

Init ==
    /\ steps = BootSteps
    /\ gates = {} /\ enabled = {} /\ irr = {} /\ isr = {}
    /\ IFlag = FALSE
    /\ scheduled_term = 0
    /\ stack = [t \in Terms |-> IF t = 0 THEN <<Boot>> ELSE << >>]
    /\ port = << >>
    /\ keyboard_buf = Blank
    /\ buf_idx = 0 /\ typed = << >> /\ pressed = 0

(* A step of entry().  putc, which printf calls, enables interrupts; the   *)
(* controllers forget what was requested when they are initialised; and    *)
(* execute enters the first shell with interrupts enabled.                 *)
BootStep(step) ==
    /\ Top = Boot /\ steps # << >> /\ Head(steps) = step
    /\ steps' = Tail(steps)
    /\ IFlag' = CASE step \in {"printf", "execute"} -> TRUE
               [] step = "cli" -> FALSE
               [] OTHER -> IFlag
    /\ gates' = IF step = "idt" THEN Exceptions \cup InterruptGates ELSE gates
    /\ enabled' = CASE step = "pic" -> {SLAVE}
                    [] step = "keyboard" -> enabled \cup {KEYBOARD}
                    [] step = "rtc" -> enabled \cup {RTC}
                    [] step = "pit" -> enabled \cup {PIT}
                    [] OTHER -> enabled
    /\ irr' = IF step = "pic" THEN {} ELSE irr
    /\ isr' = IF step = "pic" THEN {} ELSE isr
    /\ IF step = "execute" THEN Replace(User) ELSE UNCHANGED stack
    /\ UNCHANGED <<scheduled_term, port, typing, pressed>>

(* int 0x80 through its interrupt gate, or an exception through a trap     *)
(* gate.                                                                   *)
Enter(v) ==
    /\ Top = User /\ v \in gates
    /\ Push(Call)
    /\ IFlag' = FlagAfterGate(v)
    /\ UNCHANGED <<steps, gates, pic, scheduled_term, port, typing, pressed>>

(* read, write and putc enable interrupts, putc, execute and halt disable  *)
(* them.                                                                   *)
CallSets(flag) ==
    /\ Top = Call /\ IFlag # flag
    /\ IFlag' = flag
    /\ UNCHANGED <<steps, gates, pic, scheduled_term, stack, port, typing, pressed>>

(* iret, or the switch to a program that execute or halt ends with.  A     *)
(* keyboard handler returns to code that had interrupts enabled.           *)
Return ==
    /\ Top \in {Call, End}
    /\ Pop
    /\ IFlag' = TRUE
    /\ UNCHANGED <<steps, gates, pic, scheduled_term, port, typing, pressed>>

-----------------------------------------------------------------------------
(* The timer and the rtc. *)

(* Mutated form: the end of interrupt comes after the switch of stacks, so *)
(* a shell that the handler starts never sends it.                         *)
EoiAfterStart(started) == IF started THEN {} ELSE EndOfInterrupt(PIT)

(* The lines ended by a tick: pit_handler sends the end of interrupt first. *)
TickEnds(started) == EndOfInterrupt(PIT)

(* A device requests an interrupt.  The rtc does so once it was set up. *)
Requests(l) ==
    /\ l \notin irr
    /\ l = RTC => RTC \in enabled
    /\ irr' = irr \cup {l}
    /\ UNCHANGED <<steps, gates, enabled, isr, cpu, port, typing, pressed>>

(* pit_handler: on to the next terminal, where it starts the shell if      *)
(* there is none.  It has interrupts disabled until it is left.            *)
Tick ==
    /\ Accepts(PIT)
    /\ irr' = irr \ {PIT}
    /\ LET next == (scheduled_term + 1) % NUM_TERMS
           starts == stack[next] = << >>
       IN  /\ isr' = (isr \cup Serviced(PIT)) \ TickEnds(starts)
           /\ scheduled_term' = next
           /\ stack' = IF starts THEN [stack EXCEPT ![next] = <<User>>] ELSE stack
    /\ IFlag' = TRUE
    /\ UNCHANGED <<steps, gates, enabled, port, typing, pressed>>

(* rtc_handler: it never enables interrupts, so nothing shows between its  *)
(* start and its end.                                                      *)
RtcInterrupt ==
    /\ Accepts(RTC)
    /\ irr' = irr \ {RTC}
    /\ isr' = (isr \cup Serviced(RTC)) \ EndOfInterrupt(RTC)
    /\ UNCHANGED <<steps, gates, enabled, cpu, port, typing, pressed>>

-----------------------------------------------------------------------------
(* The keyboard. *)

(* Mutated form: the last byte, kept for the newline, is used too. *)
LineFullLate == buf_idx > BUFSIZE - 1
(* Is the line full, but for its newline? *)
LineFull == buf_idx >= BUFSIZE - 1

(* The line that a key makes of a line. *)
LineAfter(line, key) ==
    LET room == BUFSIZE - 1 - Len(line)
        spaces == IF TAB_LENGTH < room THEN TAB_LENGTH ELSE room
    IN
    CASE key = ENTER -> << >>
      [] key = TAB -> line \o [i \in 1 .. spaces |-> SPACE]
      [] key = BACKSPACE -> IF line = << >> THEN line ELSE SubSeq(line, 1, Len(line) - 1)
      [] key \in Chars -> IF room > 0 THEN Append(line, key) ELSE line
      [] key \in {CTRL_L, SILENT} -> line

(* All that is on a stack. *)
Frames == UNION {{stack[t][i] : i \in 1 .. Len(stack[t])} : t \in Terms}

(* The user presses or releases a key.  The controller requests an         *)
(* interrupt for a scan code when none is waiting.                         *)
Press(key) ==
    /\ pressed < MaxKeys /\ Len(port) < MaxWaiting
    /\ "TypesAtBoot" \in Habits \/ SLAVE \in enabled
    /\ key # SILENT /\ "HurriesAfterTab" \notin Habits =>
           /\ \A f \in Frames : f.key # TAB
           /\ \A i \in 1 .. Len(port) : port[i] # TAB
    /\ pressed' = pressed + 1
    /\ port' = Append(port, key)
    /\ irr' = IF port = << >> THEN irr \cup {KEYBOARD} ELSE irr
    /\ UNCHANGED <<steps, gates, enabled, isr, cpu, typing>>

(* keyboard_handler reads a scan code; if another waits, it is requested. *)
ReadsPort(key) ==
    /\ Accepts(KEYBOARD) /\ key = Head(port)
    /\ port' = Tail(port)
    /\ irr' = (irr \ {KEYBOARD}) \cup (IF Tail(port) = << >> THEN {} ELSE {KEYBOARD})
    /\ typed' = LineAfter(typed, key)
    /\ UNCHANGED <<steps, gates, enabled, scheduled_term, pressed>>

(* A key that neither changes the line nor shows anything. *)
KeyAtOnce(key) ==
    /\ ReadsPort(key)
    /\ \/ key = SILENT
       \/ key \in Chars \cup {TAB} /\ LineFull
       \/ key = BACKSPACE /\ buf_idx = 0
       \/ key = CTRL_L /\ keyboard_buf = Blank
    /\ isr' = (isr \cup Serviced(KEYBOARD)) \ EndOfInterrupt(KEYBOARD)
    /\ Push(End)
    /\ IFlag' = TRUE
    /\ UNCHANGED <<keyboard_buf, buf_idx>>

(* Mutated form: the end of interrupt is sent at the start, as in          *)
(* pit_handler.                                                            *)
ServicedBriefly == isr

(* The lines in service while keyboard_handler puts a key on the screen. *)
ServicedWhileShown == isr \cup Serviced(KEYBOARD)

(* A key that shows something: keyboard_handler stores it, and keyboardputc *)
(* enables interrupts if a program reads (putc's sti).  Enter stores its   *)
(* newline, and buffer_clear another (on a full line beyond the buffer,    *)
(* which is the subject of Terminals); Ctrl+L puts the whole line out      *)
(* again, each character with the same sti.                                *)
KeyStored(key, reads) ==
    /\ ReadsPort(key)
    /\ \/ /\ key \in Chars \cup {TAB} /\ ~LineFull
          /\ keyboard_buf' = [keyboard_buf EXCEPT ![buf_idx] = IF key = TAB THEN SPACE ELSE key]
          /\ UNCHANGED buf_idx
       \/ /\ key = ENTER
          /\ keyboard_buf' = [i \in 0 .. BUFSIZE - 1 |->
                 IF i \in {buf_idx, buf_idx + 1} THEN NEWLINE ELSE keyboard_buf[i]]
          /\ buf_idx' = buf_idx + 1
       \/ /\ key = BACKSPACE /\ buf_idx > 0
          /\ buf_idx' = buf_idx - 1
          /\ UNCHANGED keyboard_buf
       \/ /\ key = CTRL_L /\ keyboard_buf # Blank
          /\ UNCHANGED <<keyboard_buf, buf_idx>>
    /\ reads => steps = << >>
    /\ isr' = ServicedWhileShown
    /\ Push(Frame("stored", key, 0))
    /\ IFlag' = reads

(* The rest: count the character, remove it, or clear the whole line, and  *)
(* end the interrupt.  tab_helper goes on.                                 *)
KeyKept ==
    /\ Top.at = "stored"
    /\ \/ Top.key \in Chars \cup {TAB} /\ buf_idx' = buf_idx + 1 /\ UNCHANGED keyboard_buf
       \/ Top.key = ENTER /\ keyboard_buf' = Blank /\ buf_idx' = 0
       \/ /\ Top.key = BACKSPACE
          /\ keyboard_buf' = [keyboard_buf EXCEPT ![buf_idx] = NUL]
          /\ UNCHANGED buf_idx
       \/ Top.key = CTRL_L /\ UNCHANGED <<keyboard_buf, buf_idx>>
    /\ isr' = isr \ EndOfInterrupt(KEYBOARD)
    /\ Replace(IF Top.key = TAB THEN Frame("tab", TAB, Top.done + 1) ELSE End)
    /\ IFlag' = TRUE
    /\ UNCHANGED <<steps, gates, enabled, irr, scheduled_term, port, typed, pressed>>

(* The loop of tab_helper, which now runs with interrupts enabled. *)
TabGoesOn ==
    /\ Top.at = "tab"
    /\ IF Top.done = TAB_LENGTH \/ LineFull
       THEN /\ isr' = isr \ EndOfInterrupt(KEYBOARD)
            /\ Replace(End)
            /\ UNCHANGED keyboard_buf
       ELSE /\ keyboard_buf' = [keyboard_buf EXCEPT ![buf_idx] = SPACE]
            /\ Replace(Frame("stored", TAB, Top.done))
            /\ UNCHANGED isr
    /\ UNCHANGED <<steps, gates, enabled, irr, IFlag, scheduled_term, port, buf_idx,
                   typed, pressed>>

-----------------------------------------------------------------------------
Runs ==
    \/ \E step \in {BootSteps[i] : i \in 1 .. Len(BootSteps)} : BootStep(step)
    \/ Return
    \/ KeyKept
    \/ TabGoesOn

KeyInterrupt == \E key \in Keys :
    KeyAtOnce(key) \/ \E reads \in BOOLEAN : KeyStored(key, reads)

Next ==
    \/ Runs
    \/ \E v \in {SystemCall} \cup Exceptions : Enter(v)
    \/ \E flag \in BOOLEAN : CallSets(flag)
    \/ Requests(PIT) \/ Requests(RTC)
    \/ Tick \/ RtcInterrupt \/ KeyInterrupt
    \/ \E key \in Keys : Press(key)

(* What runs on a stack goes on in one of its slices of 20 ms, the timer   *)
(* ticks, and the processor takes a request in the end: all handlers       *)
(* together need far less than a slice.                                    *)
Fairness ==
    /\ \A t \in Terms : SF_vars(scheduled_term = t /\ Runs)
    /\ WF_vars(CallSets(TRUE)) /\ WF_vars(Requests(PIT))
    /\ SF_vars(Tick) /\ SF_vars(RtcInterrupt) /\ SF_vars(KeyInterrupt)

Spec == Init /\ [][Next]_vars
FairSpec == Spec /\ Fairness

-----------------------------------------------------------------------------
(* Correctness. *)

(* The keyboard handlers that have not sent their first end of interrupt. *)
Unended == UNION {{<<t, i>> : i \in {j \in 1 .. Len(stack[t]) :
                        stack[t][j].at = "stored" /\ stack[t][j].done = 0}} : t \in Terms}

(* A line is in service exactly while a handler of it has not sent its end *)
(* of interrupt, across switches of stacks, and there is one such handler: *)
(* otherwise a line is blocked for ever or handlers overtake each other    *)
(* (send_eoi and its callers).                                             *)
InServiceIsHandled ==
    /\ isr \subseteq {KEYBOARD}
    /\ KEYBOARD \in isr <=> Unended # {}
    /\ Cardinality(Unended) =< 1

(* When no handler is halfway, keyboard_buf holds the line that the keys   *)
(* make, handled one after the other in the order in which they were read  *)
(* (keyboard_handler and its helpers).                                     *)
LineAsTyped ==
    (\A f \in Frames : f.at \notin {"stored", "tab"}) =>
        typed = [i \in 1 .. buf_idx |-> keyboard_buf[i - 1]]

(* A line is unmasked only once the IDT has an interrupt gate at the       *)
(* vector that the controllers give it (i8259_init, the init functions of  *)
(* the devices and initialize_idt).                                        *)
Vectored == \A l \in enabled \ {SLAVE} : Vector(l) \in gates \cap InterruptGates

(* kernel.c: interrupts are not enabled before the IDT was set up. *)
InterruptsAfterIdt == IFlag => gates # {}

(* Whatever is preempted, every scan code is read in the end. *)
KeysAreHandled == []<>(port = << >>)

=============================================================================
