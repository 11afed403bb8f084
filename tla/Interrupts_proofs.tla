------------------------- MODULE Interrupts_proofs --------------------------
(***************************************************************************)
(* Theorems about module Interrupts, for any number of terminals and keys, *)
(* any length of a line and any width of a tab.                            *)
(*                                                                         *)
(* The order in which entry() sets up the IDT, the controllers and the     *)
(* devices never leaves a line unmasked without a gate, whatever the user  *)
(* types and whatever is preempted.  For a user who presses nothing that   *)
(* shows until a tab's spaces are in (Orderly), at most one keyboard       *)
(* handler is halfway, be it Enter's or that of Ctrl+L, on whatever stack  *)
(* the timer left it, and a line is in service exactly until it has sent   *)
(* its end of interrupt.                                                   *)
(*                                                                         *)
(* The proofs number the frames of a stack from its bottom (Bottom), where *)
(* a handler keeps its place while others come and go above it.            *)
(***************************************************************************)
EXTENDS Interrupts, FiniteSetTheorems, SequenceTheorems, TLAPS

-----------------------------------------------------------------------------
(* What entry() has left after 0, 1, ... steps. *)
Left0 == BootSteps
Left1 == <<"idt", "pic", "keyboard", "rtc", "cli", "pit", "execute">>
Left2 == <<"pic", "keyboard", "rtc", "cli", "pit", "execute">>
Left3 == <<"keyboard", "rtc", "cli", "pit", "execute">>
Left4 == <<"rtc", "cli", "pit", "execute">>
Left5 == <<"cli", "pit", "execute">>
Left6 == <<"pit", "execute">>
Left7 == <<"execute">>
Left8 == << >>

(* The gates that initialize_idt sets, and the lines that are unmasked     *)
(* once a device was initialised.                                          *)
AllGates == Exceptions \cup InterruptGates

(* The inductive invariant.  Vectored alone is not inductive: that a       *)
(* device's initialisation finds its gate in place depends on where        *)
(* entry() has got to.                                                     *)
BootInv ==
    \/ steps = Left0 /\ enabled = {} /\ gates = {}
    \/ steps = Left1 /\ enabled = {} /\ gates = {}
    \/ steps = Left2 /\ enabled = {} /\ gates = AllGates
    \/ steps = Left3 /\ enabled = {SLAVE} /\ gates = AllGates
    \/ steps = Left4 /\ enabled = {SLAVE, KEYBOARD} /\ gates = AllGates
    \/ steps \in {Left5, Left6} /\ enabled = {SLAVE, KEYBOARD, RTC} /\ gates = AllGates
    \/ steps \in {Left7, Left8} /\ enabled = Lines /\ gates = AllGates

(* The first step left, and what is left after it. *)
LEMMA BootSequence ==
    /\ Head(Left0) = "printf" /\ Tail(Left0) = Left1
    /\ Head(Left1) = "idt" /\ Tail(Left1) = Left2
    /\ Head(Left2) = "pic" /\ Tail(Left2) = Left3
    /\ Head(Left3) = "keyboard" /\ Tail(Left3) = Left4
    /\ Head(Left4) = "rtc" /\ Tail(Left4) = Left5
    /\ Head(Left5) = "cli" /\ Tail(Left5) = Left6
    /\ Head(Left6) = "pit" /\ Tail(Left6) = Left7
    /\ Head(Left7) = "execute" /\ Tail(Left7) = Left8
BY DEF BootSteps, Left0, Left1, Left2, Left3, Left4, Left5, Left6, Left7, Left8

(* Only entry() sets gates and masks: every other step leaves both alone   *)
(* (no handler masks a line).                                              *)
LEMMA OthersLeaveMasks ==
    ASSUME Next, ~(\E step \in {BootSteps[i] : i \in 1 .. Len(BootSteps)} : BootStep(step))
    PROVE  UNCHANGED <<steps, gates, enabled>>
BY DEF Next, Runs, Return, KeyKept, TabGoesOn, Enter, CallSets, Requests, Tick,
       RtcInterrupt, KeyInterrupt, KeyAtOnce, KeyStored, ReadsPort, Press, pic

(* A step of entry() moves to the next line of the invariant. *)
LEMMA BootStepMoves ==
    ASSUME NEW step, BootStep(step), BootInv
    PROVE  BootInv'
<1>1. /\ steps # << >> /\ step = Head(steps) /\ steps' = Tail(steps)
      /\ gates' = IF step = "idt" THEN AllGates ELSE gates
      /\ enabled' = CASE step = "pic" -> {SLAVE}
                      [] step = "keyboard" -> enabled \cup {KEYBOARD}
                      [] step = "rtc" -> enabled \cup {RTC}
                      [] step = "pit" -> enabled \cup {PIT}
                      [] OTHER -> enabled
  BY DEF BootStep, AllGates
<1>2. CASE steps = Left0 /\ enabled = {} /\ gates = {}
  BY <1>1, <1>2, BootSequence DEF BootInv
<1>3. CASE steps = Left1 /\ enabled = {} /\ gates = {}
  BY <1>1, <1>3, BootSequence DEF BootInv
<1>4. CASE steps = Left2 /\ enabled = {} /\ gates = AllGates
  BY <1>1, <1>4, BootSequence DEF BootInv
<1>5. CASE steps = Left3 /\ enabled = {SLAVE} /\ gates = AllGates
  BY <1>1, <1>5, BootSequence DEF BootInv
<1>6. CASE steps = Left4 /\ enabled = {SLAVE, KEYBOARD} /\ gates = AllGates
  BY <1>1, <1>6, BootSequence DEF BootInv
<1>7. CASE steps = Left5 /\ enabled = {SLAVE, KEYBOARD, RTC} /\ gates = AllGates
  BY <1>1, <1>7, BootSequence DEF BootInv
<1>8. CASE steps = Left6 /\ enabled = {SLAVE, KEYBOARD, RTC} /\ gates = AllGates
  BY <1>1, <1>8, BootSequence DEF BootInv, Lines
<1>9. CASE steps = Left7 /\ enabled = Lines /\ gates = AllGates
  BY <1>1, <1>9, BootSequence DEF BootInv
<1>10. steps # Left8
  BY <1>1 DEF Left8
<1> QED
  BY <1>2, <1>3, <1>4, <1>5, <1>6, <1>7, <1>8, <1>9, <1>10 DEF BootInv

(* entry() is at one of its steps, with the gates and masks of that step   *)
(* (kernel.c, entry()).                                                    *)
THEOREM BootInvariance == Spec => []BootInv
<1>1. Init => BootInv
  BY DEF Init, BootInv, Left0
<1>2. BootInv /\ [Next]_vars => BootInv'
  <2> SUFFICES ASSUME BootInv, [Next]_vars PROVE BootInv'
    OBVIOUS
  <2>1. CASE \E step \in {BootSteps[i] : i \in 1 .. Len(BootSteps)} : BootStep(step)
    BY <2>1, BootStepMoves
  <2>2. CASE UNCHANGED <<steps, gates, enabled>>
    BY <2>2 DEF BootInv
  <2>3. UNCHANGED vars => UNCHANGED <<steps, gates, enabled>>
    BY DEF vars, pic
  <2> QED
    BY <2>1, <2>2, <2>3, OthersLeaveMasks
<1> QED
  BY <1>1, <1>2, PTL DEF Spec

(* Whatever interrupts what, and whenever the user types: a line is        *)
(* unmasked only once the IDT has an interrupt gate at its vector          *)
(* (i8259_init, initialize_idt, and the order of entry()).                 *)
THEOREM UnmaskedLinesHaveGates == Spec => []Vectored
<1>1. BootInv => Vectored
  <2> SUFFICES ASSUME BootInv, NEW l \in enabled \ {SLAVE}
               PROVE  Vector(l) \in gates \cap InterruptGates
    BY DEF Vectored
  <2>1. l \in {PIT, KEYBOARD, RTC} /\ gates = AllGates
    BY DEF BootInv, Lines
  <2>2. Vector(l) \in InterruptGates
    BY <2>1 DEF Vector, InterruptGates, SystemCall, PIT, KEYBOARD, RTC
  <2> QED
    BY <2>1, <2>2 DEF AllGates
<1> QED
  BY <1>1, BootInvariance, PTL

-----------------------------------------------------------------------------
(* What is on the stacks.  Frames are counted from the bottom of a stack,  *)
(* so that pushing and popping does not move those below.                  *)

Bottom(s, j) == s[Len(s) + 1 - j]
Place(t, j) == Bottom(stack[t], j)
FrameTypes == {Boot, User, Call, End} \cup
                 [at : {"stored", "tab"}, key : Keys, done : 0 .. TAB_LENGTH]

StacksOK ==
    /\ stack \in [Terms -> Seq(FrameTypes)] /\ scheduled_term \in Terms
    /\ stack[scheduled_term] # << >>
    /\ \A t \in Terms : stack[t] # << >> => Place(t, 1) \in {Boot, User}

(* The keyboard handlers that have not handled their key to the end, and   *)
(* those among them that have not sent an end of interrupt.                *)
Halfway(f) == f.at \in {"stored", "tab"}
Fresh(f) == f.at = "stored" /\ f.done = 0
At(s, t, j) == [term |-> t, place |-> j, frame |-> Bottom(s[t], j)]
HandlersOn(s) ==
    UNION {{At(s, t, j) : j \in {k \in 1 .. Len(s[t]) : Halfway(Bottom(s[t], k))}} :
             t \in Terms}
Handlers == HandlersOn(stack)

(* What waits in the keyboard controller: behind a tab only releases and   *)
(* the like.                                                               *)
SilentFrom(n) == \A i \in n .. Len(port) : port[i] = SILENT
WaitingOK ==
    /\ port \in Seq(Keys) /\ Len(port) =< MaxWaiting
    /\ \A i \in 1 .. Len(port) : port[i] = TAB => SilentFrom(i + 1)
    /\ irr \subseteq Lines
    /\ KEYBOARD \in irr => port # << >>
    /\ pressed \in 0 .. MaxKeys /\ IFlag \in BOOLEAN

BufferOK ==
    /\ keyboard_buf \in [0 .. BUFSIZE - 1 -> Bytes]
    /\ buf_idx \in 0 .. BUFSIZE
    /\ typed \in Seq(Chars \cup {SPACE})

(* The first n bytes of keyboard_buf are the first characters typed.       *)
Holds(n) == \A i \in 1 .. n : typed[i] = keyboard_buf[i - 1]

(* The line, all but its last n characters, is in keyboard_buf.            *)
InStep(n) == buf_idx =< BUFSIZE - 1 /\ Len(typed) = buf_idx + n /\ Holds(buf_idx)

(* The characters of the line that a handler has yet to count.             *)
Owed(f) ==
    IF f.key = TAB
    THEN IF TAB_LENGTH - f.done < BUFSIZE - 1 - buf_idx THEN TAB_LENGTH - f.done
         ELSE BUFSIZE - 1 - buf_idx
    ELSE IF f.key \in {BACKSPACE, CTRL_L} THEN 0 ELSE 1

(* The one handler that is halfway: whether its interrupt is in service,   *)
(* and how far keyboard_buf is behind the line.  Only tab_helper comes     *)
(* back after its end of interrupt, and nothing that shows waits behind a  *)
(* tab.  While Enter's newline is shown, its line is still in keyboard_buf *)
(* and buf_idx beyond it.                                                  *)
HandlerOf(f) ==
    /\ isr = IF Fresh(f) THEN {KEYBOARD} ELSE {}
    /\ f.key \in Chars \cup {TAB, ENTER, BACKSPACE, CTRL_L}
    /\ f.key = TAB => /\ SilentFrom(1)
                      /\ f.at = "tab" => f.done # 0
                      /\ f.at = "stored" => f.done < TAB_LENGTH
                      /\ \A i \in buf_idx + 1 .. Len(typed) : typed[i] = SPACE
    /\ f.key # TAB => f.at = "stored" /\ f.done = 0
    /\ f.key = ENTER => typed = << >>
    /\ f.key # ENTER => InStep(Owed(f))
    /\ f.at = "stored" /\ f.key \in Chars \cup {TAB} =>
           buf_idx < BUFSIZE - 1 /\ typed[buf_idx + 1] = keyboard_buf[buf_idx]

OneHandler ==
    \/ Handlers = {} /\ isr = {} /\ InStep(0)
    \/ \E h \in Handlers : Handlers = {h} /\ HandlerOf(h.frame)

(* The inductive invariant. *)
HandlerInv ==
    /\ StacksOK /\ WaitingOK /\ BufferOK /\ OneHandler
    /\ enabled = {} => isr = {}

LEMMA PushFacts ==
    ASSUME NEW S, NEW s \in Seq(S), NEW f \in S
    PROVE  /\ <<f>> \o s \in Seq(S) /\ Len(<<f>> \o s) = Len(s) + 1
           /\ Bottom(<<f>> \o s, Len(s) + 1) = f
           /\ \A j \in 1 .. Len(s) : Bottom(<<f>> \o s, j) = Bottom(s, j)
BY DEF Bottom

LEMMA PopFacts ==
    ASSUME NEW S, NEW s \in Seq(S), s # << >>
    PROVE  /\ Len(s) \in Nat \ {0}
           /\ Tail(s) \in Seq(S) /\ Len(Tail(s)) = Len(s) - 1
           /\ Head(s) = Bottom(s, Len(s)) /\ Head(s) \in S
           /\ \A j \in 1 .. Len(s) - 1 : Bottom(Tail(s), j) = Bottom(s, j)
BY DEF Bottom

LEMMA ReplaceFacts ==
    ASSUME NEW S, NEW s \in Seq(S), s # << >>, NEW f \in S
    PROVE  /\ <<f>> \o Tail(s) \in Seq(S) /\ Len(<<f>> \o Tail(s)) = Len(s)
           /\ Bottom(<<f>> \o Tail(s), Len(s)) = f
           /\ \A j \in 1 .. Len(s) - 1 : Bottom(<<f>> \o Tail(s), j) = Bottom(s, j)
<1> DEFINE r == Tail(s)
           q == <<f>> \o r
<1>1. /\ Len(s) \in Nat \ {0} /\ r \in Seq(S) /\ Len(r) = Len(s) - 1
      /\ \A j \in 1 .. Len(s) - 1 : Bottom(r, j) = Bottom(s, j)
  BY PopFacts
<1> HIDE DEF r
<1>2. /\ q \in Seq(S) /\ Len(q) = Len(r) + 1
      /\ Bottom(q, Len(r) + 1) = f
      /\ \A j \in 1 .. Len(r) : Bottom(q, j) = Bottom(r, j)
  BY <1>1, PushFacts
<1> HIDE DEF q
<1>3. Len(q) = Len(s) /\ Bottom(q, Len(s)) = f
  BY <1>1, <1>2
<1>4. \A j \in 1 .. Len(s) - 1 : Bottom(q, j) = Bottom(s, j)
  BY <1>1, <1>2
<1> QED
  BY <1>2, <1>3, <1>4 DEF q, r

(* The top of the running stack changes above place n, and nothing else.   *)
TopChanges(n) ==
    /\ stack' \in [Terms -> Seq(FrameTypes)]
    /\ \A t \in Terms : \A j \in 1 .. Len(stack'[t]) :
           \/ t = scheduled_term /\ j = n + 1
           \/ j \in 1 .. Len(stack[t]) /\ Bottom(stack'[t], j) = Place(t, j)
    /\ \A t \in Terms : \A j \in 1 .. Len(stack[t]) :
           \/ t = scheduled_term /\ j = n + 1
           \/ j \in 1 .. Len(stack'[t]) /\ Bottom(stack'[t], j) = Place(t, j)

LEMMA TopChanged ==
    ASSUME StacksOK, NEW n \in Nat, stack' \in [Terms -> Seq(FrameTypes)],
           \A t \in Terms \ {scheduled_term} : stack'[t] = stack[t],
           Len(stack[scheduled_term]) \in {n, n + 1},
           Len(stack'[scheduled_term]) \in {n, n + 1},
           \A j \in 1 .. n : Bottom(stack'[scheduled_term], j) = Bottom(stack[scheduled_term], j)
    PROVE  TopChanges(n)
<1>1. ASSUME NEW t \in Terms, NEW j \in 1 .. Len(stack'[t])
      PROVE  \/ t = scheduled_term /\ j = n + 1
             \/ j \in 1 .. Len(stack[t]) /\ Bottom(stack'[t], j) = Place(t, j)
  <2>1. CASE t = scheduled_term
    <3>1. j \in 1 .. n \/ j = n + 1
      BY <2>1
    <3> QED
      BY <2>1, <3>1 DEF Place
  <2>2. CASE t # scheduled_term
    <3>1. stack'[t] = stack[t]
      BY <2>2
    <3> QED
      BY <1>1, <3>1 DEF Place
  <2> QED
    BY <2>1, <2>2
<1>2. ASSUME NEW t \in Terms, NEW j \in 1 .. Len(stack[t])
      PROVE  \/ t = scheduled_term /\ j = n + 1
             \/ j \in 1 .. Len(stack'[t]) /\ Bottom(stack'[t], j) = Place(t, j)
  <2>1. CASE t = scheduled_term
    <3>1. j \in 1 .. n \/ j = n + 1
      BY <2>1
    <3> QED
      BY <2>1, <3>1 DEF Place
  <2>2. CASE t # scheduled_term
    <3>1. stack'[t] = stack[t]
      BY <2>2
    <3> QED
      BY <1>2, <3>1 DEF Place
  <2> QED
    BY <2>1, <2>2
<1> QED
  BY <1>1, <1>2 DEF TopChanges

LEMMA Pushed ==
    ASSUME StacksOK, NEW f \in FrameTypes, Push(f)
    PROVE  LET n == Len(stack[scheduled_term]) IN
           /\ n \in Nat \ {0} /\ TopChanges(n)
           /\ Len(stack'[scheduled_term]) = n + 1
           /\ Bottom(stack'[scheduled_term], n + 1) = f
<1> DEFINE c == scheduled_term
           s == stack[c]
           n == Len(s)
<1>1. s \in Seq(FrameTypes) /\ s # << >> /\ c \in Terms
  BY DEF StacksOK
<1>2. n \in Nat \ {0}
  BY <1>1, PopFacts
<1>3. stack'[c] = <<f>> \o s /\ \A t \in Terms \ {c} : stack'[t] = stack[t]
  BY <1>1 DEF Push, StacksOK
<1>4. /\ stack'[c] \in Seq(FrameTypes) /\ Len(stack'[c]) = n + 1
      /\ Bottom(stack'[c], n + 1) = f
      /\ \A j \in 1 .. n : Bottom(stack'[c], j) = Bottom(s, j)
  BY <1>1, <1>3, PushFacts
<1>5. stack' \in [Terms -> Seq(FrameTypes)]
  BY <1>1, <1>4 DEF Push, StacksOK
<1> HIDE DEF s, n
<1>6. TopChanges(n)
  BY <1>2, <1>3, <1>4, <1>5, TopChanged DEF s, n
<1> QED
  BY <1>2, <1>4, <1>6 DEF s, n

LEMMA Popped ==
    ASSUME StacksOK, Pop
    PROVE  LET n == Len(stack[scheduled_term]) - 1 IN
           /\ n \in Nat /\ TopChanges(n)
           /\ Len(stack'[scheduled_term]) = n
           /\ Top = Place(scheduled_term, n + 1) /\ n + 1 = Len(stack[scheduled_term])
<1> DEFINE c == scheduled_term
           s == stack[c]
           n == Len(s) - 1
<1>1. s \in Seq(FrameTypes) /\ s # << >> /\ c \in Terms
  BY DEF StacksOK
<1>2. Len(s) \in Nat \ {0} /\ n \in Nat /\ n + 1 = Len(s)
  BY <1>1, PopFacts
<1>3. stack'[c] = Tail(s) /\ \A t \in Terms \ {c} : stack'[t] = stack[t]
  BY <1>1 DEF Pop, StacksOK
<1>4. /\ stack'[c] \in Seq(FrameTypes) /\ Len(stack'[c]) = n
      /\ Head(s) = Bottom(s, Len(s))
      /\ \A j \in 1 .. n : Bottom(stack'[c], j) = Bottom(s, j)
  BY <1>1, <1>3, PopFacts
<1>5. stack' \in [Terms -> Seq(FrameTypes)]
  BY <1>1, <1>4 DEF Pop, StacksOK
<1> HIDE DEF s, n
<1>6. TopChanges(n)
  BY <1>2, <1>3, <1>4, <1>5, TopChanged DEF s
<1> QED
  BY <1>2, <1>4, <1>6 DEF s, n, Top, Place

LEMMA Replaced ==
    ASSUME StacksOK, NEW f \in FrameTypes, Replace(f)
    PROVE  LET n == Len(stack[scheduled_term]) - 1 IN
           /\ n \in Nat /\ TopChanges(n)
           /\ Len(stack'[scheduled_term]) = n + 1
           /\ Bottom(stack'[scheduled_term], n + 1) = f
           /\ Top = Place(scheduled_term, n + 1) /\ n + 1 = Len(stack[scheduled_term])
<1> DEFINE c == scheduled_term
           s == stack[c]
           n == Len(s) - 1
<1>1. s \in Seq(FrameTypes) /\ s # << >> /\ c \in Terms
  BY DEF StacksOK
<1>2. Len(s) \in Nat \ {0} /\ n \in Nat /\ n + 1 = Len(s)
  BY <1>1, PopFacts
<1>3. stack'[c] = <<f>> \o Tail(s) /\ \A t \in Terms \ {c} : stack'[t] = stack[t]
  BY <1>1 DEF Replace, StacksOK
<1>4. /\ stack'[c] \in Seq(FrameTypes) /\ Len(stack'[c]) = Len(s)
      /\ Bottom(stack'[c], Len(s)) = f
      /\ \A j \in 1 .. Len(s) - 1 : Bottom(stack'[c], j) = Bottom(s, j)
  BY <1>1, <1>3, ReplaceFacts
<1>5. Head(s) = Bottom(s, Len(s))
  BY <1>1, PopFacts
<1>6. stack' \in [Terms -> Seq(FrameTypes)]
  BY <1>1, <1>4 DEF Replace, StacksOK
<1> HIDE DEF s, n
<1>7. Len(s) - 1 = n
  BY <1>2
<1>8. TopChanges(n)
  BY <1>2, <1>3, <1>4, <1>6, <1>7, TopChanged DEF s
<1> QED
  BY <1>2, <1>4, <1>5, <1>8 DEF s, n, Top, Place

-----------------------------------------------------------------------------
(* What a change at the top of the running stack does to the handlers.     *)

LEMMA HandlersAre ==
    ASSUME NEW s
    PROVE  \A h : h \in HandlersOn(s) <=>
                    \E t \in Terms : \E j \in 1 .. Len(s[t]) :
                        Halfway(Bottom(s[t], j)) /\ h = At(s, t, j)
BY DEF HandlersOn

LEMMA TopHandlers ==
    ASSUME StacksOK, NEW n \in Nat, TopChanges(n)
    PROVE  \A h : h \in Handlers' <=>
             \/ h \in Handlers /\ ~(h.term = scheduled_term /\ h.place = n + 1)
             \/ /\ n + 1 \in 1 .. Len(stack'[scheduled_term])
                /\ Halfway(Bottom(stack'[scheduled_term], n + 1))
                /\ h = At(stack', scheduled_term, n + 1)
<1> DEFINE c == scheduled_term
<1>1. ASSUME NEW h, h \in Handlers', ~(h.term = c /\ h.place = n + 1)
      PROVE  h \in Handlers
  <2>1. PICK t \in Terms : \E j \in 1 .. Len(stack'[t]) : Halfway(Bottom(stack'[t], j)) /\ h = At(stack', t, j)
    BY <1>1, HandlersAre DEF Handlers
  <2>2. PICK j \in 1 .. Len(stack'[t]) : Halfway(Bottom(stack'[t], j)) /\ h = At(stack', t, j)
    BY <2>1
  <2>3. h.term = t /\ h.place = j
    BY <2>2 DEF At
  <2>4. j \in 1 .. Len(stack[t]) /\ Bottom(stack'[t], j) = Bottom(stack[t], j)
    BY <1>1, <2>3 DEF TopChanges, Place
  <2>5. Halfway(Bottom(stack[t], j)) /\ h = At(stack, t, j)
    BY <2>2, <2>4 DEF At
  <2> QED
    BY <2>4, <2>5, HandlersAre DEF Handlers
<1>2. ASSUME NEW h, h \in Handlers, ~(h.term = c /\ h.place = n + 1)
      PROVE  h \in Handlers'
  <2>1. PICK t \in Terms : \E j \in 1 .. Len(stack[t]) : Halfway(Bottom(stack[t], j)) /\ h = At(stack, t, j)
    BY <1>2, HandlersAre DEF Handlers
  <2>2. PICK j \in 1 .. Len(stack[t]) : Halfway(Bottom(stack[t], j)) /\ h = At(stack, t, j)
    BY <2>1
  <2>3. h.term = t /\ h.place = j
    BY <2>2 DEF At
  <2>4. j \in 1 .. Len(stack'[t]) /\ Bottom(stack'[t], j) = Bottom(stack[t], j)
    BY <1>2, <2>3 DEF TopChanges, Place
  <2>5. Halfway(Bottom(stack'[t], j)) /\ h = At(stack', t, j)
    BY <2>2, <2>4 DEF At
  <2> QED
    BY <2>4, <2>5, HandlersAre DEF Handlers
<1>3. ASSUME NEW h, h \in Handlers', h.term = c, h.place = n + 1
      PROVE  /\ n + 1 \in 1 .. Len(stack'[c])
             /\ Halfway(Bottom(stack'[c], n + 1))
             /\ h = At(stack', c, n + 1)
  <2>1. PICK t \in Terms : \E j \in 1 .. Len(stack'[t]) : Halfway(Bottom(stack'[t], j)) /\ h = At(stack', t, j)
    BY <1>3, HandlersAre DEF Handlers
  <2>2. PICK j \in 1 .. Len(stack'[t]) : Halfway(Bottom(stack'[t], j)) /\ h = At(stack', t, j)
    BY <2>1
  <2>3. c = t /\ n + 1 = j
    BY <1>3, <2>2 DEF At
  <2> QED
    BY <2>2, <2>3
<1>4. ASSUME n + 1 \in 1 .. Len(stack'[c]), Halfway(Bottom(stack'[c], n + 1))
      PROVE  At(stack', c, n + 1) \in Handlers'
  <2>1. c \in Terms
    BY DEF StacksOK
  <2> QED
    BY <1>4, <2>1, HandlersAre DEF Handlers
<1> QED
  BY <1>1, <1>2, <1>3, <1>4

(* The places of handlers are on their stacks. *)
LEMMA HandlerPlaces ==
    ASSUME NEW h \in Handlers
    PROVE  /\ h.term \in Terms /\ h.place \in 1 .. Len(stack[h.term])
           /\ h.frame = Place(h.term, h.place) /\ Halfway(h.frame)
<1>1. PICK t \in Terms : \E j \in 1 .. Len(stack[t]) : Halfway(Bottom(stack[t], j)) /\ h = At(stack, t, j)
  BY HandlersAre DEF Handlers
<1>2. PICK j \in 1 .. Len(stack[t]) : Halfway(Bottom(stack[t], j)) /\ h = At(stack, t, j)
  BY <1>1
<1> QED
  BY <1>2 DEF At, Place

(* The stacks stay in order when the top changes above the bottom. *)
LEMMA StacksKept ==
    ASSUME StacksOK, NEW n \in Nat, TopChanges(n), UNCHANGED scheduled_term,
           Len(stack'[scheduled_term]) \in {n, n + 1},
           n = 0 => /\ Len(stack'[scheduled_term]) = 1
                    /\ Bottom(stack'[scheduled_term], 1) \in {Boot, User}
    PROVE  StacksOK'
<1>1. stack' \in [Terms -> Seq(FrameTypes)] /\ scheduled_term \in Terms
  BY DEF StacksOK, TopChanges
<1>2. stack'[scheduled_term] # << >>
  <2>1. Len(stack'[scheduled_term]) # 0
    OBVIOUS
  <2> QED
    BY <2>1
<1>3. ASSUME NEW t \in Terms, stack'[t] # << >>
      PROVE  Bottom(stack'[t], 1) \in {Boot, User}
  <2>1. stack'[t] \in Seq(FrameTypes)
    BY <1>1
  <2>2. 1 \in 1 .. Len(stack'[t])
    BY <1>3, <2>1
  <2>3. CASE t = scheduled_term /\ 1 = n + 1
    BY <2>3
  <2>4. CASE 1 \in 1 .. Len(stack[t]) /\ Bottom(stack'[t], 1) = Place(t, 1)
    <3>1. stack[t] # << >>
      BY <2>4
    <3> QED
      BY <2>4, <3>1 DEF StacksOK
  <2> QED
    BY <2>2, <2>3, <2>4 DEF TopChanges
<1> QED
  BY <1>1, <1>2, <1>3 DEF StacksOK, Place

(* Frames at and above the place of the top are no handlers yet. *)
LEMMA NoneAbove ==
    ASSUME StacksOK, NEW h \in Handlers, h.term = scheduled_term
    PROVE  h.place # Len(stack[scheduled_term]) + 1
<1>1. stack[scheduled_term] \in Seq(FrameTypes)
  BY DEF StacksOK
<1> QED
  BY <1>1, HandlerPlaces

LEMMA PushHandlers ==
    ASSUME StacksOK, NEW f \in FrameTypes, Push(f), UNCHANGED scheduled_term
    PROVE  /\ StacksOK'
           /\ ~Halfway(f) => Handlers' = Handlers
           /\ Halfway(f) /\ Handlers = {} => \E h \in Handlers' : Handlers' = {h} /\ h.frame = f
<1> DEFINE c == scheduled_term
           n == Len(stack[c])
<1>1. /\ n \in Nat \ {0} /\ TopChanges(n) /\ Len(stack'[c]) = n + 1
      /\ Bottom(stack'[c], n + 1) = f
  BY Pushed
<1>2. \A h \in Handlers : ~(h.term = c /\ h.place = n + 1)
  BY NoneAbove
<1> HIDE DEF n
<1>3. StacksOK'
  BY <1>1, StacksKept
<1>4. \A h : h \in Handlers' <=> \/ h \in Handlers
                                 \/ Halfway(f) /\ h = At(stack', c, n + 1)
  BY <1>1, <1>2, TopHandlers
<1>5. At(stack', c, n + 1).frame = f
  BY <1>1 DEF At
<1>6. ASSUME ~Halfway(f) PROVE Handlers' = Handlers
  BY <1>4, <1>6
<1>7. ASSUME Halfway(f), Handlers = {}
      PROVE  \E h \in Handlers' : Handlers' = {h} /\ h.frame = f
  BY <1>4, <1>5, <1>7
<1> QED
  BY <1>3, <1>6, <1>7

LEMMA PopHandlers ==
    ASSUME StacksOK, Pop, Top \in {Call, End}, UNCHANGED scheduled_term
    PROVE  StacksOK' /\ Handlers' = Handlers
<1> DEFINE c == scheduled_term
           n == Len(stack[c]) - 1
<1>1. /\ n \in Nat /\ TopChanges(n) /\ Len(stack'[c]) = n
      /\ Top = Place(c, n + 1) /\ n + 1 = Len(stack[c])
  BY Popped
<1> HIDE DEF n
<1>2. ~Halfway(Top) /\ Top \notin {Boot, User}
  BY DEF Halfway, Call, End, Boot, User, Frame
<1>3. n # 0
  BY <1>1, <1>2 DEF StacksOK
<1>4. StacksOK'
  BY <1>1, <1>3, StacksKept
<1>5. \A h \in Handlers : ~(h.term = c /\ h.place = n + 1)
  BY <1>1, <1>2, HandlerPlaces
<1>6. \A h : h \in Handlers' <=> h \in Handlers
  BY <1>1, <1>5, TopHandlers
<1> QED
  BY <1>4, <1>6

LEMMA ReplaceHandlers ==
    ASSUME StacksOK, NEW f \in FrameTypes, Replace(f), UNCHANGED scheduled_term,
           Top \in {Boot, User} <=> f \in {Boot, User}
    PROVE  /\ StacksOK'
           /\ ~Halfway(Top) /\ ~Halfway(f) => Handlers' = Handlers
           /\ Halfway(Top) => \E h \in Handlers : h.frame = Top
           /\ \A h : Handlers = {h} /\ Halfway(Top) =>
                 /\ ~Halfway(f) => Handlers' = {}
                 /\ Halfway(f) => \E g \in Handlers' : Handlers' = {g} /\ g.frame = f
<1> DEFINE c == scheduled_term
           n == Len(stack[c]) - 1
           new == At(stack', c, n + 1)
<1>1. /\ n \in Nat /\ TopChanges(n) /\ Len(stack'[c]) = n + 1
      /\ Bottom(stack'[c], n + 1) = f
      /\ Top = Place(c, n + 1) /\ n + 1 = Len(stack[c])
  BY Replaced
<1> HIDE DEF n
<1>2. StacksOK'
  BY <1>1, StacksKept DEF StacksOK
<1>3. \A h : h \in Handlers' <=> \/ h \in Handlers /\ ~(h.term = c /\ h.place = n + 1)
                                 \/ Halfway(f) /\ h = new
  BY <1>1, TopHandlers
<1>4. new.frame = f
  BY <1>1 DEF At
<1>5. ASSUME ~Halfway(Top), ~Halfway(f) PROVE Handlers' = Handlers
  <2>1. \A h \in Handlers : ~(h.term = c /\ h.place = n + 1)
    BY <1>1, <1>5, HandlerPlaces
  <2> QED
    BY <1>3, <1>5, <2>1
<1>6. ASSUME Halfway(Top)
      PROVE  /\ At(stack, c, n + 1) \in Handlers /\ At(stack, c, n + 1).frame = Top
             /\ At(stack, c, n + 1).term = c /\ At(stack, c, n + 1).place = n + 1
  <2>1. c \in Terms /\ n + 1 \in 1 .. Len(stack[c]) /\ Bottom(stack[c], n + 1) = Top
    BY <1>1 DEF StacksOK, Place
  <2>2. At(stack, c, n + 1) \in Handlers
    BY <1>6, <2>1, HandlersAre DEF Handlers
  <2> QED
    BY <2>1, <2>2 DEF At
<1>7. ASSUME NEW h, Handlers = {h}, Halfway(Top)
      PROVE  \A g : g \in Handlers' <=> Halfway(f) /\ g = new
  BY <1>3, <1>6, <1>7
<1>8. ASSUME NEW h, Handlers = {h}, Halfway(Top)
      PROVE  /\ ~Halfway(f) => Handlers' = {}
             /\ Halfway(f) => \E g \in Handlers' : Handlers' = {g} /\ g.frame = f
  BY <1>4, <1>7, <1>8
<1> QED
  BY <1>2, <1>5, <1>6, <1>8

(* The timer goes on to another stack; a new one has only a program. *)
LEMMA TickHandlers ==
    ASSUME StacksOK, NEW next \in Terms, scheduled_term' = next,
           stack' = IF stack[next] = << >> THEN [stack EXCEPT ![next] = <<User>>] ELSE stack
    PROVE  StacksOK' /\ Handlers' = Handlers
<1>1. CASE stack[next] # << >>
  <2>1. stack' = stack
    BY <1>1
  <2>2. StacksOK'
    BY <1>1, <2>1 DEF StacksOK, Place
  <2>3. Handlers' = Handlers
    BY <2>1 DEF Handlers
  <2> QED
    BY <2>2, <2>3
<1>2. CASE stack[next] = << >>
  <2>1. /\ <<User>> \in Seq(FrameTypes) /\ Len(<<User>>) = 1 /\ <<User>> # << >>
        /\ Bottom(<<User>>, 1) = User /\ ~Halfway(User) /\ Len(stack[next]) = 0
    BY <1>2 DEF FrameTypes, Bottom, Halfway, User, Frame
  <2>2. /\ stack' \in [Terms -> Seq(FrameTypes)] /\ stack'[next] = <<User>>
        /\ \A t \in Terms \ {next} : stack'[t] = stack[t]
    BY <1>2, <2>1 DEF StacksOK
  <2>3. StacksOK'
    BY <2>1, <2>2 DEF StacksOK, Place
  <2> DEFINE IsAt(s, h, t) == \E j \in 1 .. Len(s[t]) :
                                 Halfway(Bottom(s[t], j)) /\ h = At(s, t, j)
  <2>4. ASSUME NEW h, NEW t \in Terms PROVE IsAt(stack, h, t) <=> IsAt(stack', h, t)
    <3>1. CASE t = next
      <4>1. ~\E j \in 1 .. Len(stack[t]) : TRUE
        BY <2>1, <3>1
      <4>2. \A j \in 1 .. Len(stack'[t]) : j = 1 /\ ~Halfway(Bottom(stack'[t], j))
        BY <2>1, <2>2, <3>1
      <4> QED
        BY <4>1, <4>2
    <3>2. CASE t # next
      <4>1. stack'[t] = stack[t]
        BY <2>2, <3>2
      <4> QED
        BY <4>1 DEF At
    <3> QED
      BY <3>1, <3>2
  <2>5. \A s, h : h \in HandlersOn(s) <=> \E t \in Terms : IsAt(s, h, t)
    BY HandlersAre
  <2> HIDE DEF IsAt
  <2>6. \A h : h \in HandlersOn(stack') <=> h \in HandlersOn(stack)
    BY <2>4, <2>5
  <2>7. HandlersOn(stack') = HandlersOn(stack)
    BY <2>6
  <2> QED
    BY <2>3, <2>7 DEF Handlers
<1> QED
  BY <1>1, <1>2

-----------------------------------------------------------------------------
(* The steps that leave every handler where it is.                         *)

LEMMA PlainFrames ==
    /\ {Boot, User, Call, End} \subseteq FrameTypes
    /\ \A f \in {Boot, User, Call, End} : ~Halfway(f)
    /\ Call \notin {Boot, User} /\ End \notin {Boot, User}
BY DEF FrameTypes, Halfway, Boot, User, Call, End, Frame

LEMMA InService ==
    ASSUME OneHandler
    PROVE  isr \subseteq {KEYBOARD}
BY DEF OneHandler, HandlerOf

LEMMA OneHandlerKept ==
    ASSUME OneHandler, Handlers' = Handlers, UNCHANGED <<isr, port, typing>>
    PROVE  OneHandler'
BY DEF OneHandler, HandlerOf, InStep, Owed, Holds, SilentFrom, typing

(* Only the stacks, the interrupt flag, the masks and other requests. *)
LEMMA HandlerInvKept ==
    ASSUME HandlerInv, StacksOK', Handlers' = Handlers,
           UNCHANGED <<isr, port, typing, pressed>>,
           IFlag' \in BOOLEAN, irr' \subseteq Lines, KEYBOARD \in irr' => KEYBOARD \in irr,
           enabled' = {} => enabled = {}
    PROVE  HandlerInv'
<1>1. OneHandler'
  BY OneHandlerKept DEF HandlerInv
<1>2. WaitingOK' /\ BufferOK'
  BY DEF HandlerInv, WaitingOK, SilentFrom, BufferOK, typing
<1> QED
  BY <1>1, <1>2 DEF HandlerInv

(* The controllers are initialised before any line is unmasked. *)
LEMMA BootKeeps ==
    ASSUME HandlerInv, BootInv, NEW step, BootStep(step)
    PROVE  HandlerInv'
<1>1. step = "pic" => enabled = {}
  <2>1. steps # Left8 /\ step = Head(steps)
    BY DEF BootStep, Left8
  <2> QED
    BY <2>1, BootSequence DEF BootInv
<1>2. isr' = isr
  BY <1>1 DEF BootStep, HandlerInv
<1>3. /\ UNCHANGED <<scheduled_term, port, typing, pressed>>
      /\ IFlag' \in BOOLEAN /\ irr' \subseteq Lines
      /\ KEYBOARD \in irr' => KEYBOARD \in irr
  BY DEF BootStep, HandlerInv, WaitingOK
<1>4. enabled' = {} => enabled = {}
  BY DEF BootStep
<1>5. StacksOK' /\ Handlers' = Handlers
  <2>1. CASE step = "execute"
    <3>1. Top = Boot /\ Replace(User)
      BY <2>1 DEF BootStep
    <3> QED
      BY <1>3, <3>1, ReplaceHandlers, PlainFrames DEF HandlerInv
  <2>2. CASE step # "execute"
    <3>1. UNCHANGED <<stack, scheduled_term>>
      BY <2>2 DEF BootStep
    <3> QED
      BY <3>1 DEF HandlerInv, StacksOK, Place, Handlers
  <2> QED
    BY <2>1, <2>2
<1> QED
  BY <1>2, <1>3, <1>4, <1>5, HandlerInvKept

LEMMA QuietKeeps ==
    ASSUME HandlerInv,
           \/ \E v \in {SystemCall} \cup Exceptions : Enter(v)
           \/ \E flag \in BOOLEAN : CallSets(flag)
           \/ Return \/ Requests(PIT) \/ Requests(RTC) \/ Tick \/ RtcInterrupt
    PROVE  HandlerInv'
<1> USE DEF pic, cpu
<1>1. ASSUME NEW v, Enter(v) PROVE HandlerInv'
  <2>1. /\ Push(Call) /\ UNCHANGED <<pic, scheduled_term, port, typing, pressed>>
        /\ IFlag' \in BOOLEAN
    BY <1>1 DEF Enter, FlagAfterGate, HandlerInv, WaitingOK
  <2>2. StacksOK' /\ Handlers' = Handlers
    BY <2>1, PushHandlers, PlainFrames DEF HandlerInv
  <2> QED
    BY <2>1, <2>2, HandlerInvKept DEF HandlerInv, WaitingOK
<1>2. CASE UNCHANGED <<stack, scheduled_term, pic, port, typing, pressed>> /\ IFlag' \in BOOLEAN
  <2>1. StacksOK' /\ Handlers' = Handlers
    BY <1>2 DEF HandlerInv, StacksOK, Place, Handlers
  <2> QED
    BY <1>2, <2>1, HandlerInvKept DEF HandlerInv, WaitingOK
<1>3. CASE Return
  <2>1. /\ Pop /\ Top \in {Call, End}
        /\ UNCHANGED <<pic, scheduled_term, port, typing, pressed>> /\ IFlag' = TRUE
    BY <1>3 DEF Return
  <2>2. StacksOK' /\ Handlers' = Handlers
    BY <2>1, PopHandlers DEF HandlerInv
  <2> QED
    BY <2>1, <2>2, HandlerInvKept DEF HandlerInv, WaitingOK
<1>4. ASSUME NEW l \in {PIT, RTC}, Requests(l) PROVE HandlerInv'
  <2>1. /\ UNCHANGED <<enabled, isr, cpu, port, typing, pressed>>
        /\ irr' = irr \cup {l} /\ l \in Lines /\ l # KEYBOARD
    BY <1>4 DEF Requests, Lines, PIT, RTC, KEYBOARD
  <2>2. StacksOK' /\ Handlers' = Handlers
    BY <2>1 DEF HandlerInv, StacksOK, Place, Handlers
  <2> QED
    BY <2>1, <2>2, HandlerInvKept DEF HandlerInv, WaitingOK
<1>5. CASE Tick
  <2> DEFINE next == (scheduled_term + 1) % NUM_TERMS
  <2>1. /\ irr' = irr \ {PIT} /\ scheduled_term' = next
        /\ stack' = IF stack[next] = << >> THEN [stack EXCEPT ![next] = <<User>>] ELSE stack
        /\ isr' = (isr \cup Serviced(PIT)) \ EndOfInterrupt(PIT) /\ IFlag' = TRUE
        /\ UNCHANGED <<enabled, port, typing, pressed>>
    BY <1>5 DEF Tick, TickEnds
  <2>2. isr' = isr
    BY <2>1, InService DEF HandlerInv, Serviced, EndOfInterrupt, MasterLine, PIT, RTC, KEYBOARD
  <2>3. next \in Terms
    BY InterruptsAssumption DEF HandlerInv, StacksOK, Terms
  <2> HIDE DEF next
  <2>4. StacksOK' /\ Handlers' = Handlers
    BY <2>1, <2>3, TickHandlers DEF HandlerInv
  <2> QED
    BY <2>1, <2>2, <2>4, HandlerInvKept DEF HandlerInv, WaitingOK
<1>6. CASE RtcInterrupt
  <2>1. /\ irr' = irr \ {RTC} /\ UNCHANGED <<enabled, cpu, port, typing, pressed>>
        /\ isr' = (isr \cup Serviced(RTC)) \ EndOfInterrupt(RTC)
    BY <1>6 DEF RtcInterrupt
  <2>2. isr' = isr
    BY <2>1, InService DEF HandlerInv, Serviced, EndOfInterrupt, MasterLine, SLAVE, RTC, KEYBOARD
  <2>3. StacksOK' /\ Handlers' = Handlers
    BY <2>1 DEF HandlerInv, StacksOK, Place, Handlers
  <2> QED
    BY <2>1, <2>2, <2>3, HandlerInvKept DEF HandlerInv, WaitingOK
<1>7. ASSUME NEW flag \in BOOLEAN, CallSets(flag) PROVE HandlerInv'
  BY <1>2, <1>7 DEF CallSets
<1> QED
  BY <1>1, <1>3, <1>4, <1>5, <1>6, <1>7

-----------------------------------------------------------------------------
(* The steps of the keyboard's handler.                                    *)

Orderly == "HurriesAfterTab" \notin Habits

LEMMA KeyNames ==
    /\ TAB # SILENT /\ TAB # BACKSPACE /\ TAB # ENTER /\ ENTER # BACKSPACE
    /\ ENTER # SILENT /\ BACKSPACE # SILENT
    /\ CTRL_L # TAB /\ CTRL_L # ENTER /\ CTRL_L # BACKSPACE /\ CTRL_L # SILENT
    /\ TAB \notin Chars /\ ENTER \notin Chars /\ BACKSPACE \notin Chars
    /\ CTRL_L \notin Chars /\ SILENT \notin Chars
BY KeyAssumption DEF TAB, SILENT, BACKSPACE, ENTER, CTRL_L

(* A key other than a silent one is read only when no handler is halfway:  *)
(* one that has not ended its interrupt keeps others out, and behind a tab *)
(* none waits.                                                             *)
LEMMA KeyRead ==
    ASSUME HandlerInv, NEW key, ReadsPort(key)
    PROVE  /\ key \in Keys /\ enabled # {} /\ UNCHANGED <<enabled, scheduled_term, pressed>>
           /\ isr = {}
           /\ key # SILENT => Handlers = {} /\ InStep(0)
           /\ key = TAB => SilentFrom(1)'
           /\ SilentFrom(1) => SilentFrom(1)'
           /\ IFlag' \in BOOLEAN => WaitingOK'
<1>1. /\ port \in Seq(Keys) /\ port # << >> /\ key = Head(port) /\ port' = Tail(port)
      /\ UNCHANGED <<enabled, scheduled_term, pressed>>
  BY DEF HandlerInv, WaitingOK, ReadsPort, Accepts
<1>2. KEYBOARD \notin isr /\ enabled # {}
  BY DEF ReadsPort, Accepts, MasterLine, KEYBOARD, RTC
<1>3. isr = {}
  BY <1>2, InService DEF HandlerInv
<1>4. /\ key \in Keys /\ port' \in Seq(Keys) /\ Len(port) \in Nat \ {0}
      /\ Len(port') = Len(port) - 1 /\ \A i \in 1 .. Len(port) - 1 : port'[i] = port[i + 1]
      /\ key = port[1]
  BY <1>1
<1>5. ASSUME NEW h \in Handlers, HandlerOf(h.frame) PROVE key = SILENT
  <2>1. Halfway(h.frame) /\ ~Fresh(h.frame)
    BY <1>3, <1>5, HandlerPlaces DEF HandlerOf
  <2>2. h.frame.key = TAB
    BY <1>5, <2>1 DEF HandlerOf, Fresh
  <2>3. SilentFrom(1)
    BY <1>5, <2>2 DEF HandlerOf
  <2> QED
    BY <1>4, <2>3 DEF SilentFrom
<1>6. key # SILENT => Handlers = {} /\ InStep(0)
  BY <1>5 DEF HandlerInv, OneHandler
<1>7. ASSUME NEW n \in Nat, SilentFrom(n + 1), NEW i \in n .. Len(port'), i # 0
      PROVE  port'[i] = SILENT
  <2>1. i \in 1 .. Len(port) - 1 /\ i + 1 \in n + 1 .. Len(port)
    BY <1>4, <1>7
  <2> QED
    BY <1>4, <1>7, <2>1 DEF SilentFrom
<1>8. ASSUME NEW i \in 1 .. Len(port'), port'[i] = TAB PROVE SilentFrom(i + 1)'
  <2>1. i + 1 \in 1 .. Len(port) /\ port[i + 1] = TAB /\ i + 1 \in Nat
    BY <1>4, <1>8
  <2>2. SilentFrom((i + 1) + 1)
    BY <2>1 DEF HandlerInv, WaitingOK
  <2>3. \A j \in i + 1 .. Len(port') : j # 0 => port'[j] = SILENT
    BY <1>7, <2>1, <2>2
  <2> QED
    BY <2>1, <2>3 DEF SilentFrom
<1>9. SilentFrom(1) => SilentFrom(1)'
  <2> SUFFICES ASSUME SilentFrom(1), NEW i \in 1 .. Len(port') PROVE port'[i] = SILENT
    BY DEF SilentFrom
  <2>1. i \in 1 .. Len(port) - 1 /\ i + 1 \in 1 .. Len(port)
    BY <1>4
  <2> QED
    BY <1>4, <2>1 DEF SilentFrom
<1>10. ASSUME key = TAB PROVE SilentFrom(1)'
  <2>1. 1 \in 1 .. Len(port) /\ port[1] = TAB
    BY <1>4, <1>10
  <2>2. SilentFrom(1 + 1)
    BY <2>1 DEF HandlerInv, WaitingOK
  <2>3. \A j \in 1 .. Len(port') : j # 0 => port'[j] = SILENT
    BY <1>7, <2>2
  <2> QED
    BY <2>3 DEF SilentFrom
<1>11. /\ KEYBOARD \in irr' => port' # << >>
       /\ irr' \subseteq Lines
  BY <1>1 DEF ReadsPort, HandlerInv, WaitingOK, Lines
<1>12. ASSUME IFlag' \in BOOLEAN PROVE WaitingOK'
  <2>1. \A i \in 1 .. Len(port') : port'[i] = TAB => SilentFrom(i + 1)'
    BY <1>8
  <2>2. Len(port') =< MaxWaiting
    BY <1>4, InterruptsAssumption DEF HandlerInv, WaitingOK
  <2>3. pressed' \in 0 .. MaxKeys
    BY <1>1 DEF HandlerInv, WaitingOK
  <2> QED
    BY <1>4, <1>11, <1>12, <2>1, <2>2, <2>3 DEF WaitingOK, SilentFrom
<1> QED
  BY <1>1, <1>2, <1>3, <1>4, <1>6, <1>9, <1>10, <1>12

(* A sequence without its last element. *)
LEMMA ShorterFacts ==
    ASSUME NEW S, NEW s \in Seq(S), s # << >>
    PROVE  LET short == SubSeq(s, 1, Len(s) - 1)
           IN /\ short \in Seq(S) /\ Len(short) = Len(s) - 1
              /\ \A i \in 1 .. Len(s) - 1 : short[i] = s[i]
<1> DEFINE n == Len(s) - 1
           short == SubSeq(s, 1, n)
<1>1. n \in Nat /\ \A i \in 1 .. n : s[i] \in S
  OBVIOUS
<1> HIDE DEF n
<1>2. /\ short \in Seq(S)
      /\ Len(short) = IF 1 <= n THEN n - 1 + 1 ELSE 0
      /\ \A i \in 1 .. n - 1 + 1 : short[i] = s[1 + i - 1]
  BY <1>1, SubSeqProperties
<1> HIDE DEF short
<1>3. Len(short) = n
  BY <1>1, <1>2
<1>4. \A i \in 1 .. n : short[i] = s[i]
  BY <1>1, <1>2
<1> QED
  BY <1>2, <1>3, <1>4 DEF n, short

(* What LineAfter makes of a line, by length and characters. *)
Room(text) == BUFSIZE - 1 - Len(text)
Spaces(text) == IF TAB_LENGTH < Room(text) THEN TAB_LENGTH ELSE Room(text)

LEMMA LineAfterFacts ==
    ASSUME NEW C, SPACE \in C, Chars \subseteq C, NEW text \in Seq(C), Len(text) =< BUFSIZE - 1
    PROVE  /\ LineAfter(text, ENTER) = << >>
           /\ \A key \in {CTRL_L, SILENT} : LineAfter(text, key) = text
           /\ LineAfter(text, TAB) \in Seq(C)
           /\ Len(LineAfter(text, TAB)) = Len(text) + Spaces(text)
           /\ \A i \in 1 .. Len(text) : LineAfter(text, TAB)[i] = text[i]
           /\ \A i \in Len(text) + 1 .. Len(text) + Spaces(text) : LineAfter(text, TAB)[i] = SPACE
           /\ Room(text) = 0 => LineAfter(text, TAB) = text
           /\ text = << >> => LineAfter(text, BACKSPACE) = text
           /\ text # << >> =>
                /\ LineAfter(text, BACKSPACE) \in Seq(C)
                /\ Len(LineAfter(text, BACKSPACE)) = Len(text) - 1
                /\ \A i \in 1 .. Len(text) - 1 : LineAfter(text, BACKSPACE)[i] = text[i]
           /\ \A c \in Chars : LineAfter(text, c) = IF Room(text) > 0 THEN Append(text, c) ELSE text
<1> DEFINE tab == [i \in 1 .. Spaces(text) |-> SPACE]
<1>1. /\ Len(text) \in Nat /\ Room(text) \in Nat /\ Spaces(text) \in Nat
      /\ Room(text) = 0 => Spaces(text) = 0
  BY InterruptsAssumption DEF Room, Spaces
<1>2. LineAfter(text, ENTER) = << >> /\ \A key \in {CTRL_L, SILENT} : LineAfter(text, key) = text
  BY KeyNames DEF LineAfter
<1>3. LineAfter(text, TAB) = text \o tab
  BY KeyNames DEF LineAfter, Spaces, Room
<1>4. tab \in Seq(C) /\ Len(tab) = Spaces(text) /\ \A i \in 1 .. Spaces(text) : tab[i] = SPACE
  BY <1>1
<1> HIDE DEF tab
<1>5. /\ text \o tab \in Seq(C) /\ Len(text \o tab) = Len(text) + Spaces(text)
      /\ \A i \in 1 .. Len(text) : (text \o tab)[i] = text[i]
      /\ \A i \in Len(text) + 1 .. Len(text) + Spaces(text) : (text \o tab)[i] = SPACE
  BY <1>1, <1>4
<1>6. ASSUME Room(text) = 0 PROVE text \o tab = text
  <2>1. tab = << >>
    BY <1>1, <1>4, <1>6
  <2> QED
    BY <2>1
<1>7. LineAfter(text, BACKSPACE) = IF text = << >> THEN text ELSE SubSeq(text, 1, Len(text) - 1)
  BY KeyNames DEF LineAfter
<1>8. ASSUME text # << >>
      PROVE  /\ SubSeq(text, 1, Len(text) - 1) \in Seq(C)
             /\ Len(SubSeq(text, 1, Len(text) - 1)) = Len(text) - 1
             /\ \A i \in 1 .. Len(text) - 1 : SubSeq(text, 1, Len(text) - 1)[i] = text[i]
  BY <1>8, ShorterFacts
<1>9. ASSUME NEW c \in Chars
      PROVE  LineAfter(text, c) = IF Room(text) > 0 THEN Append(text, c) ELSE text
  BY KeyNames DEF LineAfter, Room
<1>10. text # << >> =>
         /\ LineAfter(text, BACKSPACE) \in Seq(C)
         /\ Len(LineAfter(text, BACKSPACE)) = Len(text) - 1
         /\ \A i \in 1 .. Len(text) - 1 : LineAfter(text, BACKSPACE)[i] = text[i]
  BY <1>7, <1>8
<1>11. text = << >> => LineAfter(text, BACKSPACE) = text
  BY <1>7
<1>12. /\ LineAfter(text, TAB) \in Seq(C)
       /\ Len(LineAfter(text, TAB)) = Len(text) + Spaces(text)
       /\ \A i \in 1 .. Len(text) : LineAfter(text, TAB)[i] = text[i]
       /\ \A i \in Len(text) + 1 .. Len(text) + Spaces(text) : LineAfter(text, TAB)[i] = SPACE
       /\ Room(text) = 0 => LineAfter(text, TAB) = text
  BY <1>3, <1>5, <1>6
<1> QED
  BY <1>2, <1>9, <1>10, <1>11, <1>12

(* A key that only ends its interrupt. *)
LEMMA KeyAtOnceKeeps ==
    ASSUME HandlerInv, NEW key, KeyAtOnce(key)
    PROVE  HandlerInv'
<1>1. /\ key \in Keys /\ enabled # {} /\ UNCHANGED <<enabled, scheduled_term, pressed>>
      /\ isr = {} /\ WaitingOK'
      /\ key # SILENT => Handlers = {} /\ InStep(0)
      /\ SilentFrom(1) => SilentFrom(1)'
  BY KeyRead DEF KeyAtOnce
<1>2. StacksOK' /\ Handlers' = Handlers
  BY <1>1, PushHandlers, PlainFrames DEF KeyAtOnce, HandlerInv
<1>3. isr' = {} /\ isr' = isr
  <2>1. isr' = {}
    BY <1>1 DEF KeyAtOnce, Serviced, EndOfInterrupt
  <2> QED
    BY <1>1, <2>1
<1>4. typed' = LineAfter(typed, key) /\ UNCHANGED <<keyboard_buf, buf_idx>>
  BY DEF KeyAtOnce, ReadsPort
<1>5. UNCHANGED typing
  <2>1. CASE key = SILENT
    <3>1. LineAfter(typed, key) = typed
      BY <2>1, KeyNames DEF LineAfter
    <3> QED
      BY <1>4, <3>1 DEF typing
  <2>2. CASE key # SILENT
    <3>1. /\ typed \in Seq(Chars \cup {SPACE}) /\ Len(typed) =< BUFSIZE - 1
          /\ Len(typed) = buf_idx /\ buf_idx \in 0 .. BUFSIZE
      <4>1. typed \in Seq(Chars \cup {SPACE}) /\ buf_idx \in 0 .. BUFSIZE
        BY DEF HandlerInv, BufferOK
      <4>2. buf_idx =< BUFSIZE - 1 /\ Len(typed) = buf_idx + 0
        BY <1>1, <2>2 DEF InStep
      <4> QED
        BY <4>1, <4>2, InterruptsAssumption
    <3>2. LineFull => Room(typed) = 0
      BY <3>1, InterruptsAssumption DEF LineFull, Room
    <3>3. buf_idx = 0 => typed = << >>
      BY <3>1
    <3>4. LineAfter(typed, key) = typed
      BY <2>2, <3>1, <3>2, <3>3, LineAfterFacts DEF KeyAtOnce
    <3> QED
      BY <1>4, <3>4 DEF typing
  <2> QED
    BY <2>1, <2>2
<1>6. BufferOK'
  BY <1>5 DEF HandlerInv, BufferOK, typing
<1>7. \A f : HandlerOf(f) => HandlerOf(f)'
  BY <1>1, <1>3, <1>5 DEF HandlerOf, InStep, Owed, Holds, typing
<1>8. InStep(0) => InStep(0)'
  BY <1>5 DEF InStep, Holds, typing
<1>9. OneHandler'
  BY <1>2, <1>3, <1>7, <1>8 DEF HandlerInv, OneHandler
<1> QED
  BY <1>1, <1>2, <1>3, <1>6, <1>9 DEF HandlerInv

(* The typed characters, before and after a key that shows something. *)
LEMMA TypedFacts ==
    ASSUME HandlerInv, NEW key, key # SILENT, ReadsPort(key)
    PROVE  /\ typed \in Seq(Chars \cup {SPACE}) /\ Len(typed) = buf_idx /\ Len(typed) =< BUFSIZE - 1
           /\ buf_idx \in 0 .. BUFSIZE - 1 /\ BUFSIZE - 1 \in Nat
           /\ keyboard_buf \in [0 .. BUFSIZE - 1 -> Bytes]
           /\ typed' = LineAfter(typed, key)
           /\ \A i \in 1 .. buf_idx : typed[i] = keyboard_buf[i - 1]
<1>1. InStep(0)
  BY KeyRead
<1> QED
  BY <1>1, InterruptsAssumption DEF HandlerInv, BufferOK, ReadsPort, InStep, Holds

(* keyboard_handler stores a key: its handler is the only one from now on, *)
(* and its line is in service.                                             *)
LEMMA KeyStoredKeeps ==
    ASSUME HandlerInv, NEW key, NEW reads \in BOOLEAN, KeyStored(key, reads)
    PROVE  HandlerInv'
<1> DEFINE f == Frame("stored", key, 0)
<1>0. key # SILENT /\ key \in Chars \cup {TAB, ENTER, BACKSPACE, CTRL_L}
  BY KeyNames DEF KeyStored
<1>1. /\ key \in Keys /\ enabled # {} /\ UNCHANGED <<enabled, scheduled_term, pressed>>
      /\ Handlers = {} /\ isr = {} /\ WaitingOK'
      /\ key = TAB => SilentFrom(1)'
  BY <1>0, KeyRead DEF KeyStored
<1>2. /\ f \in FrameTypes /\ Halfway(f) /\ Fresh(f) /\ f.key = key /\ f.at = "stored" /\ f.done = 0
  BY <1>1, InterruptsAssumption DEF FrameTypes, Halfway, Fresh, Frame
<1>3. StacksOK' /\ \E h \in Handlers' : Handlers' = {h} /\ h.frame = f
  BY <1>1, <1>2, PushHandlers DEF KeyStored, HandlerInv
<1>4. isr' = {KEYBOARD}
  BY <1>1 DEF KeyStored, ServicedWhileShown, Serviced, MasterLine, KEYBOARD, RTC
<1>5. /\ typed \in Seq(Chars \cup {SPACE}) /\ Len(typed) = buf_idx /\ Len(typed) =< BUFSIZE - 1
      /\ buf_idx \in 0 .. BUFSIZE - 1 /\ BUFSIZE - 1 \in Nat
      /\ keyboard_buf \in [0 .. BUFSIZE - 1 -> Bytes]
      /\ typed' = LineAfter(typed, key)
      /\ \A i \in 1 .. buf_idx : typed[i] = keyboard_buf[i - 1]
  BY <1>0, TypedFacts DEF KeyStored
<1> HIDE DEF f
<1>6. BufferOK' /\ HandlerOf(f)'
  <2>1. CASE key = BACKSPACE
    <3>1. buf_idx' = buf_idx - 1 /\ keyboard_buf' = keyboard_buf /\ buf_idx > 0
      BY <2>1, KeyNames DEF KeyStored
    <3>2. /\ typed' \in Seq(Chars \cup {SPACE}) /\ Len(typed') = Len(typed) - 1
          /\ \A i \in 1 .. Len(typed) - 1 : typed'[i] = typed[i]
      <4>1. typed # << >>
        BY <1>5, <3>1
      <4> QED
        BY <1>5, <2>1, <4>1, LineAfterFacts
    <3>3. BufferOK'
      BY <1>5, <3>1, <3>2, InterruptsAssumption DEF BufferOK
    <3>4. Owed(f)' = 0 /\ Holds(buf_idx)'
      BY <1>2, <1>5, <2>1, <3>1, <3>2, KeyNames DEF Owed, Holds
    <3>5. InStep(Owed(f))'
      BY <1>5, <3>1, <3>2, <3>4 DEF InStep
    <3> QED
      BY <1>2, <1>4, <2>1, <3>3, <3>5, KeyNames DEF HandlerOf
  <2>3. CASE key = CTRL_L
    <3>1. UNCHANGED <<keyboard_buf, buf_idx>>
      BY <2>3, KeyNames DEF KeyStored
    <3>2. typed' = typed
      BY <1>5, <2>3, LineAfterFacts
    <3>3. BufferOK'
      BY <3>1, <3>2 DEF HandlerInv, BufferOK
    <3>4. Owed(f)' = 0 /\ Holds(buf_idx)'
      BY <1>2, <1>5, <2>3, <3>1, <3>2, KeyNames DEF Owed, Holds
    <3>5. InStep(Owed(f))'
      BY <1>5, <3>1, <3>2, <3>4 DEF InStep
    <3> QED
      BY <1>2, <1>4, <2>3, <3>3, <3>5, KeyNames DEF HandlerOf
  <2>4. CASE key = ENTER
    <3>1. /\ buf_idx' = buf_idx + 1
          /\ keyboard_buf' = [i \in 0 .. BUFSIZE - 1 |->
                IF i \in {buf_idx, buf_idx + 1} THEN NEWLINE ELSE keyboard_buf[i]]
      BY <2>4, KeyNames DEF KeyStored
    <3>2. typed' = << >>
      BY <1>5, <2>4, LineAfterFacts
    <3>3. keyboard_buf' \in [0 .. BUFSIZE - 1 -> Bytes]
      BY <1>5, <3>1 DEF Bytes
    <3>4. buf_idx' \in 0 .. BUFSIZE
      BY <1>5, <3>1, InterruptsAssumption
    <3>5. BufferOK'
      BY <3>2, <3>3, <3>4 DEF BufferOK
    <3> QED
      BY <1>2, <1>4, <2>4, <3>2, <3>5, KeyNames DEF HandlerOf
  <2>2. CASE key \in Chars \cup {TAB}
    <3> DEFINE char == IF key = TAB THEN SPACE ELSE key
    <3>1. /\ key \in Chars \cup {TAB} /\ buf_idx < BUFSIZE - 1
          /\ buf_idx' = buf_idx /\ keyboard_buf' = [keyboard_buf EXCEPT ![buf_idx] = char]
      BY <1>5, <2>2, KeyNames DEF KeyStored, LineFull
    <3>2. char \in Chars \cup {SPACE} /\ Room(typed) > 0
      BY <1>5, <3>1 DEF Room
    <3> HIDE DEF char
    <3>3. /\ keyboard_buf' \in [0 .. BUFSIZE - 1 -> Bytes]
          /\ keyboard_buf'[buf_idx] = char
          /\ \A i \in 1 .. buf_idx : keyboard_buf'[i - 1] = keyboard_buf[i - 1]
      BY <1>5, <3>1, <3>2 DEF Bytes
    <3>4. CASE key = TAB
      <4>1. /\ typed' \in Seq(Chars \cup {SPACE}) /\ Len(typed') = Len(typed) + Spaces(typed)
            /\ \A i \in 1 .. Len(typed) : typed'[i] = typed[i]
            /\ \A i \in Len(typed) + 1 .. Len(typed) + Spaces(typed) : typed'[i] = SPACE
        BY <1>5, <3>4, LineAfterFacts
      <4>2. Spaces(typed) = Owed(f)' /\ Spaces(typed) \in Nat \ {0}
        BY <1>2, <1>5, <3>1, <3>2, <3>4, InterruptsAssumption DEF Owed, Spaces, Room
      <4>3. typed'[buf_idx + 1] = SPACE /\ char = SPACE
        BY <1>5, <3>4, <4>1, <4>2 DEF char
      <4>4. BufferOK' /\ Holds(buf_idx)'
        BY <1>5, <3>1, <3>3, <4>1, InterruptsAssumption DEF BufferOK, Holds
      <4>5. InStep(Owed(f))'
        BY <1>5, <3>1, <4>1, <4>2, <4>4 DEF InStep
      <4>6. \A i \in buf_idx' + 1 .. Len(typed') : typed'[i] = SPACE
        BY <1>5, <3>1, <4>1
      <4> QED
        BY <1>1, <1>2, <1>4, <3>1, <3>3, <3>4, <4>3, <4>4, <4>5, <4>6, KeyNames,
           InterruptsAssumption DEF HandlerOf
    <3>5. CASE key \in Chars
      <4>1. typed' = Append(typed, key) /\ char = key
        BY <1>5, <3>2, <3>5, KeyNames, LineAfterFacts DEF char
      <4>2. /\ typed' \in Seq(Chars \cup {SPACE}) /\ Len(typed') = Len(typed) + 1
            /\ \A i \in 1 .. Len(typed) : typed'[i] = typed[i]
            /\ typed'[Len(typed) + 1] = key
        BY <1>5, <3>5, <4>1
      <4>3. key # TAB /\ key # BACKSPACE /\ Owed(f)' = 1
        BY <1>2, <3>5, KeyNames DEF Owed
      <4>4. BufferOK' /\ Holds(buf_idx)'
        BY <1>5, <3>1, <3>3, <4>2, InterruptsAssumption DEF BufferOK, Holds
      <4>5. InStep(Owed(f))'
        BY <1>5, <3>1, <4>2, <4>3, <4>4 DEF InStep
      <4>6. typed'[buf_idx' + 1] = keyboard_buf'[buf_idx']
        BY <1>5, <3>1, <3>3, <4>1, <4>2
      <4> QED
        BY <1>2, <1>4, <3>1, <3>5, <4>3, <4>4, <4>5, <4>6, KeyNames DEF HandlerOf
    <3> QED
      BY <3>1, <3>4, <3>5
  <2> QED
    BY <1>0, <2>1, <2>2, <2>3, <2>4
<1>7. OneHandler'
  BY <1>3, <1>6 DEF OneHandler
<1> QED
  BY <1>1, <1>3, <1>6, <1>7 DEF HandlerInv

LEMMA TopHalfway ==
    ASSUME StacksOK, Halfway(Top)
    PROVE  Top \in FrameTypes /\ \E h \in Handlers : h.frame = Top
<1> DEFINE c == scheduled_term
           n == Len(stack[c])
<1>1. c \in Terms /\ stack[c] \in Seq(FrameTypes) /\ stack[c] # << >>
  BY DEF StacksOK
<1>2. Top \in FrameTypes /\ n \in 1 .. n /\ Bottom(stack[c], n) = Top
  BY <1>1, PopFacts DEF Top
<1>3. At(stack, c, n) \in Handlers
  BY <1>1, <1>2, HandlersAre DEF Handlers
<1>4. At(stack, c, n).frame = Top
  BY <1>2 DEF At
<1> QED
  BY <1>2, <1>3, <1>4

(* The handler on top of the running stack is the one that is halfway. *)
LEMMA TopIsHandler ==
    ASSUME HandlerInv, Halfway(Top), NEW f \in FrameTypes, Replace(f), UNCHANGED scheduled_term,
           f \notin {Boot, User}
    PROVE  /\ StacksOK' /\ HandlerOf(Top) /\ Top \in FrameTypes
           /\ ~Halfway(f) => Handlers' = {}
           /\ Halfway(f) => \E g \in Handlers' : Handlers' = {g} /\ g.frame = f
<1>1. Top \notin {Boot, User}
  BY PlainFrames
<1>2. /\ StacksOK' /\ \E h \in Handlers : h.frame = Top
      /\ \A h : Handlers = {h} =>
            /\ ~Halfway(f) => Handlers' = {}
            /\ Halfway(f) => \E g \in Handlers' : Handlers' = {g} /\ g.frame = f
  BY <1>1, ReplaceHandlers DEF HandlerInv
<1>3. PICK h \in Handlers : Handlers = {h} /\ HandlerOf(h.frame)
  BY <1>2 DEF HandlerInv, OneHandler
<1>4. h.frame = Top
  BY <1>2, <1>3
<1>5. Top \in FrameTypes
  BY TopHalfway DEF HandlerInv
<1> QED
  BY <1>2, <1>3, <1>4, <1>5

(* The state of the buffer while a handler is halfway. *)
LEMMA HalfwayFacts ==
    ASSUME HandlerInv, NEW f \in FrameTypes, Halfway(f), HandlerOf(f)
    PROVE  /\ buf_idx \in Nat /\ BUFSIZE - 1 \in Nat
           /\ TAB_LENGTH \in Nat \ {0} /\ f.done \in 0 .. TAB_LENGTH
           /\ typed \in Seq(Chars \cup {SPACE}) /\ Len(typed) \in Nat
           /\ keyboard_buf \in [0 .. BUFSIZE - 1 -> Bytes]
           /\ f.key # ENTER =>
                /\ buf_idx =< BUFSIZE - 1 /\ Len(typed) = buf_idx + Owed(f)
                /\ \A i \in 1 .. buf_idx : typed[i] = keyboard_buf[i - 1]
           /\ isr \subseteq {KEYBOARD}
<1>1. f.done \in 0 .. TAB_LENGTH
  BY InterruptsAssumption DEF Halfway, FrameTypes, Boot, User, Call, End, Frame
<1> QED
  BY <1>1, InService, InterruptsAssumption DEF HandlerInv, BufferOK, HandlerOf, InStep, Holds

(* The rest of a key: it is counted, or its byte cleared, and the          *)
(* interrupt is ended.                                                     *)
LEMMA KeyKeptKeeps ==
    ASSUME HandlerInv, KeyKept
    PROVE  HandlerInv'
<1>1. PICK f : f = Top
  OBVIOUS
<1>2. PICK g : g = IF f.key = TAB THEN Frame("tab", TAB, f.done + 1) ELSE End
  OBVIOUS
<1>3. /\ f.at = "stored" /\ Halfway(f) /\ Replace(g) /\ IFlag' = TRUE
      /\ isr' = isr \ EndOfInterrupt(KEYBOARD)
      /\ UNCHANGED <<enabled, irr, scheduled_term, port, typed, pressed>>
      /\ \/ f.key \in Chars \cup {TAB} /\ buf_idx' = buf_idx + 1 /\ keyboard_buf' = keyboard_buf
         \/ f.key = ENTER /\ keyboard_buf' = Blank /\ buf_idx' = 0
         \/ /\ f.key = BACKSPACE /\ buf_idx' = buf_idx
            /\ keyboard_buf' = [keyboard_buf EXCEPT ![buf_idx] = NUL]
         \/ f.key = CTRL_L /\ keyboard_buf' = keyboard_buf /\ buf_idx' = buf_idx
  BY <1>1, <1>2 DEF KeyKept, Halfway
<1>4. f \in FrameTypes /\ HandlerOf(f)
  BY <1>1, <1>3, TopHalfway DEF HandlerInv, OneHandler
<1>5. /\ buf_idx \in Nat /\ BUFSIZE - 1 \in Nat
      /\ TAB_LENGTH \in Nat \ {0} /\ f.done \in 0 .. TAB_LENGTH
      /\ typed \in Seq(Chars \cup {SPACE}) /\ Len(typed) \in Nat
      /\ keyboard_buf \in [0 .. BUFSIZE - 1 -> Bytes]
      /\ f.key # ENTER =>
           /\ buf_idx =< BUFSIZE - 1 /\ Len(typed) = buf_idx + Owed(f)
           /\ \A i \in 1 .. buf_idx : typed[i] = keyboard_buf[i - 1]
      /\ isr \subseteq {KEYBOARD}
  BY <1>3, <1>4, HalfwayFacts
<1>6. isr' = {}
  BY <1>3, <1>5 DEF EndOfInterrupt
<1>7. f.key = TAB => f.done + 1 \in 1 .. TAB_LENGTH
  BY <1>3, <1>4, <1>5 DEF HandlerOf
<1>8. g \in FrameTypes /\ g \notin {Boot, User}
  BY <1>2, <1>7, PlainFrames DEF FrameTypes, Frame, Keys, Boot, User, TAB, SILENT
<1>9. /\ f.key = TAB => g = Frame("tab", TAB, f.done + 1)
      /\ f.key # TAB => g = End
  BY <1>2
<1>10. WaitingOK'
  BY <1>3 DEF HandlerInv, WaitingOK, SilentFrom
<1>11. ASSUME f.key # TAB, BufferOK', InStep(0)' PROVE HandlerInv'
  <2>1. g = End /\ ~Halfway(g)
    BY <1>9, <1>11, PlainFrames
  <2>2. StacksOK' /\ Handlers' = {}
    BY <1>3, <1>8, <2>1, <1>1, TopIsHandler
  <2> QED
    BY <1>3, <1>6, <1>10, <1>11, <2>2 DEF HandlerInv, OneHandler
<1>12. CASE f.key = BACKSPACE
  <2>1. buf_idx' = buf_idx /\ keyboard_buf' = [keyboard_buf EXCEPT ![buf_idx] = NUL]
    BY <1>3, <1>12, KeyNames
  <2>2. Len(typed) = buf_idx
    BY <1>5, <1>12, KeyNames DEF Owed
  <2>3. keyboard_buf' \in [0 .. BUFSIZE - 1 -> Bytes]
    BY <1>5, <2>1 DEF Bytes
  <2>4. \A i \in 1 .. buf_idx : typed[i] = keyboard_buf'[i - 1]
    BY <1>5, <1>12, <2>1, KeyNames
  <2>5. BufferOK' /\ InStep(0)'
    BY <1>3, <1>5, <1>12, <2>1, <2>2, <2>3, <2>4, KeyNames DEF HandlerInv, BufferOK, InStep, Holds
  <2> QED
    BY <1>11, <1>12, <2>5, KeyNames
<1>13. CASE f.key = CTRL_L
  <2>1. buf_idx' = buf_idx /\ keyboard_buf' = keyboard_buf /\ typed' = typed
    BY <1>3, <1>13, KeyNames
  <2>2. Len(typed) = buf_idx
    BY <1>5, <1>13, KeyNames DEF Owed
  <2>3. BufferOK' /\ InStep(0)'
    BY <1>5, <1>13, <2>1, <2>2, KeyNames DEF HandlerInv, BufferOK, InStep, Holds
  <2> QED
    BY <1>11, <1>13, <2>3, KeyNames
<1>14. CASE f.key = ENTER
  <2>1. buf_idx' = 0 /\ keyboard_buf' = Blank /\ typed' = << >>
    BY <1>3, <1>4, <1>14, KeyNames DEF HandlerOf
  <2>2. BufferOK' /\ InStep(0)'
    BY <1>5, <2>1 DEF BufferOK, InStep, Holds, Blank, Bytes
  <2> QED
    BY <1>11, <1>14, <2>2, KeyNames
<1>15. CASE f.key \in Chars \cup {TAB}
  <2>1. buf_idx' = buf_idx + 1 /\ keyboard_buf' = keyboard_buf /\ typed' = typed
    BY <1>3, <1>15, KeyNames
  <2>2. f.key # ENTER /\ f.key # BACKSPACE /\ f.key # CTRL_L
    BY <1>15, KeyNames
  <2>7. buf_idx < BUFSIZE - 1 /\ typed[buf_idx + 1] = keyboard_buf[buf_idx]
    BY <1>3, <1>4, <1>15 DEF HandlerOf
  <2>3. BufferOK'
    BY <1>5, <2>1, <2>7 DEF BufferOK
  <2>4. Holds(buf_idx)'
    <3> SUFFICES ASSUME NEW i \in 1 .. buf_idx + 1 PROVE typed[i] = keyboard_buf[i - 1]
      BY <1>5, <2>1 DEF Holds
    <3>1. i \in 1 .. buf_idx \/ i = buf_idx + 1
      BY <1>5
    <3>2. \A j \in 1 .. buf_idx : typed[j] = keyboard_buf[j - 1]
      BY <1>5, <2>2
    <3>3. i = buf_idx + 1 => i - 1 = buf_idx
      BY <1>5
    <3> QED
      BY <2>7, <3>1, <3>2, <3>3
  <2>5. CASE f.key # TAB
    <3>1. Len(typed) = buf_idx + 1
      BY <1>5, <2>2, <2>5 DEF Owed
    <3>2. InStep(0)'
      BY <1>5, <2>1, <2>4, <2>7, <3>1 DEF InStep
    <3> QED
      BY <1>11, <2>3, <2>5, <3>2
  <2>6. CASE f.key = TAB
    <3>1. g = Frame("tab", TAB, f.done + 1) /\ Halfway(g) /\ ~Fresh(g)
          /\ g.at = "tab" /\ g.key = TAB /\ g.done = f.done + 1
      <4>1. g = [at |-> "tab", key |-> TAB, done |-> f.done + 1]
        BY <1>9, <2>6 DEF Frame
      <4>2. g.at = "tab" /\ g.key = TAB /\ g.done = f.done + 1
        BY <4>1
      <4>3. Halfway(g) /\ ~Fresh(g)
        BY <4>2 DEF Halfway, Fresh
      <4> QED
        BY <4>1, <4>2, <4>3 DEF Frame
    <3>2. StacksOK' /\ \E h \in Handlers' : Handlers' = {h} /\ h.frame = g
      BY <1>3, <1>8, <3>1, <1>1, TopIsHandler
    <3>3. /\ SilentFrom(1)' /\ f.done < TAB_LENGTH
          /\ \A i \in buf_idx + 1 .. Len(typed) : typed[i] = SPACE
      BY <1>3, <1>4, <2>6 DEF HandlerOf, SilentFrom
    <3>4. Len(typed') = buf_idx' + Owed(g)'
      <4>1. Owed(f) = IF TAB_LENGTH - f.done < BUFSIZE - 1 - buf_idx
                      THEN TAB_LENGTH - f.done ELSE BUFSIZE - 1 - buf_idx
        BY <2>6 DEF Owed
      <4>2. Owed(g)' = IF TAB_LENGTH - (f.done + 1) < BUFSIZE - 1 - (buf_idx + 1)
                       THEN TAB_LENGTH - (f.done + 1) ELSE BUFSIZE - 1 - (buf_idx + 1)
        BY <2>1, <3>1 DEF Owed
      <4>3. PICK room \in Int, idx \in Int, done \in Int, width \in Int :
              /\ room = BUFSIZE - 1 /\ idx = buf_idx
              /\ done = f.done /\ width = TAB_LENGTH
        BY <1>5
      <4>4. Owed(f) = IF width - done < room - idx THEN width - done ELSE room - idx
        BY <4>1, <4>3
      <4>5. Owed(g)' = IF width - (done + 1) < room - (idx + 1)
                       THEN width - (done + 1) ELSE room - (idx + 1)
        BY <4>2, <4>3
      <4>6. Owed(f) \in Int /\ Owed(g)' = Owed(f) - 1
        BY <4>4, <4>5
      <4>7. Len(typed) = idx + Owed(f) /\ typed' = typed /\ buf_idx' = idx + 1
        BY <1>5, <2>1, <2>2, <4>3
      <4> QED
        BY <4>6, <4>7
    <3>5. \A i \in buf_idx' + 1 .. Len(typed') : typed'[i] = SPACE
      BY <1>5, <2>1, <3>3
    <3>8. InStep(Owed(g))'
      BY <1>5, <2>1, <2>4, <2>7, <3>4 DEF InStep
    <3>6. HandlerOf(g)'
      BY <1>3, <1>5, <1>6, <3>1, <3>3, <3>5, <3>8, KeyNames DEF HandlerOf
    <3>7. OneHandler'
      BY <3>2, <3>6 DEF OneHandler
    <3> QED
      BY <1>3, <1>6, <1>10, <2>3, <3>2, <3>7 DEF HandlerInv
  <2> QED
    BY <2>5, <2>6
<1> QED
  BY <1>3, <1>12, <1>13, <1>14, <1>15

(* The loop of tab_helper: another space, or the end of the handler. *)
LEMMA TabGoesOnKeeps ==
    ASSUME HandlerInv, TabGoesOn
    PROVE  HandlerInv'
<1>1. PICK f : f = Top
  OBVIOUS
<1>2. /\ f.at = "tab" /\ Halfway(f)
      /\ UNCHANGED <<enabled, irr, IFlag, scheduled_term, port, buf_idx, typed, pressed>>
  BY <1>1 DEF TabGoesOn, Halfway
<1>3. f \in FrameTypes /\ HandlerOf(f)
  BY <1>1, <1>2, TopHalfway DEF HandlerInv, OneHandler
<1>5. /\ f.key = TAB /\ SilentFrom(1)' /\ f.done # 0 /\ ~Fresh(f) /\ isr = {}
      /\ \A i \in buf_idx + 1 .. Len(typed) : typed[i] = SPACE
  BY <1>2, <1>3 DEF HandlerOf, Fresh, SilentFrom
<1>4. /\ buf_idx \in Nat /\ buf_idx =< BUFSIZE - 1 /\ BUFSIZE - 1 \in Nat
      /\ TAB_LENGTH \in Nat \ {0} /\ f.done \in 0 .. TAB_LENGTH
      /\ typed \in Seq(Chars \cup {SPACE}) /\ Len(typed) \in Nat
      /\ keyboard_buf \in [0 .. BUFSIZE - 1 -> Bytes]
      /\ Len(typed) = buf_idx + Owed(f)
      /\ \A i \in 1 .. buf_idx : typed[i] = keyboard_buf[i - 1]
      /\ isr \subseteq {KEYBOARD}
  BY <1>2, <1>3, <1>5, HalfwayFacts, KeyNames
<1>6. WaitingOK'
  BY <1>2 DEF HandlerInv, WaitingOK, SilentFrom
<1>7. Owed(f) = IF TAB_LENGTH - f.done < BUFSIZE - 1 - buf_idx
                THEN TAB_LENGTH - f.done ELSE BUFSIZE - 1 - buf_idx
  BY <1>5 DEF Owed
<1>8. CASE f.done = TAB_LENGTH \/ LineFull
  <2>1. isr' = isr \ EndOfInterrupt(KEYBOARD) /\ Replace(End) /\ keyboard_buf' = keyboard_buf
    BY <1>1, <1>8 DEF TabGoesOn
  <2>2. StacksOK' /\ Handlers' = {}
    BY <1>1, <1>2, <2>1, PlainFrames, TopIsHandler
  <2>3. Len(typed) = buf_idx
    BY <1>4, <1>7, <1>8 DEF LineFull
  <2>4. BufferOK' /\ OneHandler'
    BY <1>2, <1>4, <1>5, <2>1, <2>2, <2>3 DEF HandlerInv, BufferOK, OneHandler, InStep, Holds
  <2> QED
    BY <1>2, <1>5, <1>6, <2>1, <2>2, <2>4 DEF HandlerInv
<1>9. CASE ~(f.done = TAB_LENGTH \/ LineFull)
  <2>1. PICK g : g = Frame("stored", TAB, f.done)
    OBVIOUS
  <2>2. /\ keyboard_buf' = [keyboard_buf EXCEPT ![buf_idx] = SPACE]
        /\ Replace(g) /\ isr' = isr
    BY <1>1, <1>9, <2>1 DEF TabGoesOn
  <2>3. /\ g.at = "stored" /\ g.key = TAB /\ g.done = f.done
        /\ Halfway(g) /\ ~Fresh(g) /\ g \in FrameTypes /\ g \notin {Boot, User}
    BY <1>4, <1>5, <2>1, PlainFrames DEF Frame, Halfway, Fresh, FrameTypes, Keys
  <2>4. StacksOK' /\ \E h \in Handlers' : Handlers' = {h} /\ h.frame = g
    BY <1>1, <1>2, <2>2, <2>3, TopIsHandler
  <2>5. buf_idx < BUFSIZE - 1 /\ f.done < TAB_LENGTH /\ Owed(f) \in Nat \ {0}
    BY <1>4, <1>7, <1>9 DEF LineFull
  <2>6. /\ keyboard_buf' \in [0 .. BUFSIZE - 1 -> Bytes]
        /\ keyboard_buf'[buf_idx] = SPACE
        /\ \A i \in 1 .. buf_idx : typed[i] = keyboard_buf'[i - 1]
    BY <1>4, <2>2, <2>5 DEF Bytes
  <2>7. BufferOK' /\ Holds(buf_idx)'
    BY <1>2, <1>4, <2>6 DEF HandlerInv, BufferOK, Holds
  <2>8. Owed(g)' = Owed(f) /\ typed[buf_idx + 1] = SPACE
    <3>1. Owed(g)' = Owed(f)
      BY <1>2, <1>5, <2>3 DEF Owed
    <3>2. buf_idx + 1 \in buf_idx + 1 .. Len(typed)
      BY <1>4, <2>5
    <3> QED
      BY <1>5, <3>1, <3>2
  <2>11. InStep(Owed(g))'
    BY <1>2, <1>4, <2>7, <2>8 DEF InStep
  <2>9. HandlerOf(g)'
    BY <1>2, <1>5, <2>2, <2>3, <2>5, <2>6, <2>8, <2>11, KeyNames DEF HandlerOf
  <2>10. OneHandler'
    BY <2>4, <2>9 DEF OneHandler
  <2> QED
    BY <1>2, <1>5, <1>6, <2>2, <2>4, <2>7, <2>10 DEF HandlerInv
<1> QED
  BY <1>8, <1>9

(* A user who does not hurry presses no key that shows something while a   *)
(* tab is handled.                                                         *)
LEMMA PressKeeps ==
    ASSUME HandlerInv, Orderly, NEW key \in Keys, Press(key)
    PROVE  HandlerInv'
<1>1. /\ pressed < MaxKeys /\ Len(port) < MaxWaiting
      /\ pressed' = pressed + 1 /\ port' = Append(port, key)
      /\ irr' = IF port = << >> THEN irr \cup {KEYBOARD} ELSE irr
      /\ UNCHANGED <<enabled, isr, IFlag, scheduled_term, stack, typing>>
      /\ key # SILENT => /\ \A f \in Frames : f.key # TAB
                         /\ \A i \in 1 .. Len(port) : port[i] # TAB
  BY DEF Press, Orderly, cpu
<1>2. StacksOK' /\ Handlers' = Handlers
  BY <1>1 DEF HandlerInv, StacksOK, Place, Handlers
<1>3. /\ port \in Seq(Keys) /\ Len(port) \in Nat
      /\ port' \in Seq(Keys) /\ Len(port') = Len(port) + 1
      /\ \A i \in 1 .. Len(port) : port'[i] = port[i]
      /\ port'[Len(port) + 1] = key
  BY <1>1 DEF HandlerInv, WaitingOK
<1>8. ASSUME key = SILENT, NEW n \in Nat \ {0}, SilentFrom(n) PROVE SilentFrom(n)'
  <2> SUFFICES ASSUME NEW i \in n .. Len(port') PROVE port'[i] = SILENT
    BY DEF SilentFrom
  <2>1. (i \in n .. Len(port) /\ i \in 1 .. Len(port)) \/ i = Len(port) + 1
    BY <1>3
  <2> QED
    BY <1>3, <1>8, <2>1 DEF SilentFrom
<1>9. ASSUME NEW i \in 1 .. Len(port'), port'[i] = TAB PROVE SilentFrom(i + 1)'
  <2>1. i \in 1 .. Len(port) \/ i = Len(port) + 1
    BY <1>3
  <2>2. CASE i = Len(port) + 1
    BY <1>3, <2>2 DEF SilentFrom
  <2>3. CASE i \in 1 .. Len(port)
    <3>1. port[i] = TAB
      BY <1>3, <1>9, <2>3
    <3>2. key = SILENT /\ SilentFrom(i + 1)
      BY <1>1, <2>3, <3>1 DEF HandlerInv, WaitingOK
    <3> QED
      BY <1>8, <3>2
  <2> QED
    BY <2>1, <2>2, <2>3
<1>4. WaitingOK'
  <2>1. \A i \in 1 .. Len(port') : port'[i] = TAB => SilentFrom(i + 1)'
    BY <1>9
  <2>2. Len(port') =< MaxWaiting /\ port' # << >> /\ pressed' \in 0 .. MaxKeys
    BY <1>1, <1>3, InterruptsAssumption DEF HandlerInv, WaitingOK
  <2>3. irr' \subseteq Lines
    BY <1>1 DEF HandlerInv, WaitingOK, Lines
  <2> QED
    BY <1>1, <1>3, <2>1, <2>2, <2>3 DEF HandlerInv, WaitingOK, SilentFrom
<1>5. key # SILENT => \A h \in Handlers : h.frame.key # TAB
  <2> SUFFICES ASSUME NEW h \in Handlers PROVE h.frame \in Frames
    BY <1>1
  <2>1. /\ h.term \in Terms /\ h.place \in 1 .. Len(stack[h.term])
        /\ h.frame = Place(h.term, h.place)
    BY HandlerPlaces
  <2>2. stack[h.term] \in Seq(FrameTypes)
    BY <2>1 DEF HandlerInv, StacksOK
  <2>3. Len(stack[h.term]) + 1 - h.place \in 1 .. Len(stack[h.term])
    BY <2>1, <2>2
  <2> QED
    BY <2>1, <2>3 DEF Frames, Place, Bottom
<1>10. SilentFrom(1) => key # SILENT \/ SilentFrom(1)'
  BY <1>8
<1>11. \A h \in Handlers : HandlerOf(h.frame) => HandlerOf(h.frame)'
  BY <1>1, <1>5, <1>10 DEF HandlerOf, InStep, Owed, Holds, typing
<1>12. InStep(0) => InStep(0)'
  BY <1>1 DEF InStep, Holds, typing
<1>6. OneHandler'
  BY <1>1, <1>2, <1>11, <1>12 DEF HandlerInv, OneHandler
<1>7. BufferOK'
  BY <1>1 DEF HandlerInv, BufferOK, typing
<1> QED
  BY <1>1, <1>2, <1>4, <1>6, <1>7 DEF HandlerInv

-----------------------------------------------------------------------------
(* The theorems about handlers. *)

LEMMA HandlerInit ==
    ASSUME Init
    PROVE  HandlerInv
<1>1. /\ 0 \in Terms /\ stack = [t \in Terms |-> IF t = 0 THEN <<Boot>> ELSE << >>]
      /\ scheduled_term = 0
  BY InterruptsAssumption DEF Init, Terms
<1>2. /\ <<Boot>> \in Seq(FrameTypes) /\ << >> \in Seq(FrameTypes)
      /\ Bottom(<<Boot>>, 1) = Boot /\ ~Halfway(Boot)
      /\ Len(<<Boot>>) = 1 /\ Len(<< >>) = 0
  BY PlainFrames DEF Bottom
<1>3. StacksOK
  BY <1>1, <1>2 DEF StacksOK, Place
<1>4. Handlers = {}
  <2> SUFFICES ASSUME NEW h \in Handlers PROVE FALSE
    OBVIOUS
  <2>1. h.term \in Terms /\ h.place \in 1 .. Len(stack[h.term])
        /\ Halfway(Place(h.term, h.place))
    BY HandlerPlaces
  <2>2. CASE h.term = 0
    BY <1>1, <1>2, <2>1, <2>2 DEF Place
  <2>3. CASE h.term # 0
    BY <1>1, <1>2, <2>1, <2>3
  <2> QED
    BY <2>2, <2>3
<1>5. WaitingOK /\ BufferOK
  <2>1. WaitingOK
    <3>1. /\ port = << >> /\ irr = {} /\ pressed = 0 /\ IFlag = FALSE
          /\ port \in Seq(Keys) /\ Len(port) = 0
      BY DEF Init
    <3>2. \A i \in 1 .. Len(port) : FALSE
      BY <3>1
    <3>3. \A i \in 1 .. Len(port) : port[i] = TAB => SilentFrom(i + 1)
      BY <3>2
    <3>4. Len(port) =< MaxWaiting /\ pressed \in 0 .. MaxKeys
      BY <3>1, InterruptsAssumption
    <3>5. irr \subseteq Lines /\ (KEYBOARD \in irr => port # << >>) /\ IFlag \in BOOLEAN
      BY <3>1
    <3> QED
      BY <3>1, <3>3, <3>4, <3>5 DEF WaitingOK
  <2>2. Blank \in [0 .. BUFSIZE - 1 -> Bytes]
    BY DEF Blank, Bytes
  <2> QED
    BY <2>1, <2>2, InterruptsAssumption DEF Init, BufferOK
<1>6. OneHandler
  BY <1>4, InterruptsAssumption DEF Init, OneHandler, InStep, Holds
<1> QED
  BY <1>3, <1>5, <1>6 DEF Init, HandlerInv

LEMMA HandlerNext ==
    ASSUME Orderly, HandlerInv, BootInv, [Next]_vars
    PROVE  HandlerInv'
<1>1. ASSUME NEW step, BootStep(step) PROVE HandlerInv'
  BY <1>1, BootKeeps
<1>2. CASE KeyKept
  BY <1>2, KeyKeptKeeps
<1>3. CASE TabGoesOn
  BY <1>3, TabGoesOnKeeps
<1>4. CASE \/ \E v \in {SystemCall} \cup Exceptions : Enter(v)
           \/ \E flag \in BOOLEAN : CallSets(flag)
           \/ Return \/ Requests(PIT) \/ Requests(RTC) \/ Tick \/ RtcInterrupt
  BY <1>4, QuietKeeps
<1>5. CASE KeyInterrupt
  BY <1>5, KeyAtOnceKeeps, KeyStoredKeeps DEF KeyInterrupt
<1>6. ASSUME NEW key \in Keys, Press(key) PROVE HandlerInv'
  BY <1>6, PressKeeps
<1>7. CASE UNCHANGED vars
  <2>1. StacksOK' /\ Handlers' = Handlers
    BY <1>7 DEF HandlerInv, StacksOK, Place, Handlers, vars, cpu
  <2> QED
    BY <1>7, <2>1, HandlerInvKept DEF HandlerInv, WaitingOK, vars, pic, cpu
<1> QED
  BY <1>1, <1>2, <1>3, <1>4, <1>5, <1>6, <1>7 DEF Next, Runs

(* At every moment at most one handler is halfway through its key, over    *)
(* all stacks; what is in service and how far keyboard_buf is behind what  *)
(* the user typed follow from how far that handler has got.                *)
THEOREM HandlerInvariance ==
    ASSUME Orderly
    PROVE  Spec => []HandlerInv
<1>1. HandlerInv /\ BootInv /\ [Next]_vars => HandlerInv'
  BY HandlerNext
<1> QED
  BY <1>1, HandlerInit, BootInvariance, PTL DEF Spec

(* Types, above all that no key of the model moves buf_idx further than    *)
(* one beyond keyboard_buf, where Enter has it for a while (enter_helper,  *)
(* tab_helper, backspace_helper).                                          *)
THEOREM TypeCorrect ==
    ASSUME Orderly
    PROVE  Spec => []TypeOK
<1>1. HandlerInv /\ BootInv => TypeOK
  <2> SUFFICES ASSUME HandlerInv, BootInv PROVE TypeOK
    OBVIOUS
  <2>1. gates \subseteq 0 .. 255 /\ enabled \subseteq Lines
    BY DEF BootInv, AllGates, Exceptions, InterruptGates, SystemCall, Lines
  <2>2. isr \subseteq Lines
    BY InService DEF HandlerInv, Lines
  <2>3. ASSUME NEW t \in Terms, NEW i \in 1 .. Len(stack[t])
        PROVE  stack[t][i] \in FrameTypes
    <3>1. stack[t] \in Seq(FrameTypes)
      BY DEF HandlerInv, StacksOK
    <3> QED
      BY <3>1
  <2> QED
    BY <2>1, <2>2, <2>3 DEF HandlerInv, StacksOK, WaitingOK, BufferOK, TypeOK, FrameTypes
<1> QED
  BY <1>1, HandlerInvariance, BootInvariance, PTL

(* An unended handler, where InServiceIsHandled sees it, from the top, and *)
(* where the invariant does, from the bottom.                              *)
LEMMA UnendedHandlers ==
    ASSUME StacksOK
    PROVE  /\ \A u \in Unended : \E h \in Handlers :
                 Fresh(h.frame) /\ u = <<h.term, Len(stack[h.term]) + 1 - h.place>>
           /\ \A h \in Handlers : Fresh(h.frame) => Unended # {}
<1>1. ASSUME NEW t \in Terms PROVE stack[t] \in Seq(FrameTypes) /\ Len(stack[t]) \in Nat
  BY DEF StacksOK
<1>2. \A u : u \in Unended <=>
        \E t \in Terms : \E i \in 1 .. Len(stack[t]) : Fresh(stack[t][i]) /\ u = <<t, i>>
  BY DEF Unended, Fresh
<1>3. ASSUME NEW u \in Unended
      PROVE  \E h \in Handlers : Fresh(h.frame) /\ u = <<h.term, Len(stack[h.term]) + 1 - h.place>>
  <2>1. PICK t \in Terms : \E i \in 1 .. Len(stack[t]) : Fresh(stack[t][i]) /\ u = <<t, i>>
    BY <1>2
  <2>2. PICK i \in 1 .. Len(stack[t]) : Fresh(stack[t][i]) /\ u = <<t, i>>
    BY <2>1
  <2> DEFINE j == Len(stack[t]) + 1 - i
  <2>3. /\ j \in 1 .. Len(stack[t]) /\ Len(stack[t]) + 1 - j = i
        /\ Bottom(stack[t], j) = stack[t][i]
    BY <1>1 DEF Bottom
  <2> HIDE DEF j
  <2>4. Halfway(Bottom(stack[t], j))
    BY <2>2, <2>3 DEF Fresh, Halfway
  <2>5. At(stack, t, j) \in Handlers
    BY <2>3, <2>4, HandlersAre DEF Handlers
  <2>6. /\ At(stack, t, j).term = t /\ At(stack, t, j).place = j
        /\ At(stack, t, j).frame = stack[t][i]
    BY <2>3 DEF At
  <2> QED
    BY <2>2, <2>3, <2>5, <2>6
<1>4. ASSUME NEW h \in Handlers, Fresh(h.frame) PROVE Unended # {}
  <2>1. /\ h.term \in Terms /\ h.place \in 1 .. Len(stack[h.term])
        /\ h.frame = Place(h.term, h.place)
    BY HandlerPlaces
  <2>2. /\ Len(stack[h.term]) + 1 - h.place \in 1 .. Len(stack[h.term])
        /\ Fresh(stack[h.term][Len(stack[h.term]) + 1 - h.place])
    BY <1>1, <1>4, <2>1 DEF Place, Bottom
  <2> QED
    BY <1>2, <2>1, <2>2
<1> QED
  BY <1>3, <1>4

(* A line is in service exactly while a handler of it has not sent its end *)
(* of interrupt, across switches of stacks (send_eoi and its callers).     *)
THEOREM ServiceIsHandled ==
    ASSUME Orderly
    PROVE  Spec => []InServiceIsHandled
<1>1. HandlerInv => InServiceIsHandled
  <2> SUFFICES ASSUME HandlerInv PROVE InServiceIsHandled
    OBVIOUS
  <2>1. /\ isr \subseteq {KEYBOARD}
        /\ \A u \in Unended : \E h \in Handlers :
                 Fresh(h.frame) /\ u = <<h.term, Len(stack[h.term]) + 1 - h.place>>
        /\ \A h \in Handlers : Fresh(h.frame) => Unended # {}
    BY InService, UnendedHandlers DEF HandlerInv
  <2>2. CASE Handlers = {} /\ isr = {}
    <3>1. Unended = {}
      BY <2>1, <2>2
    <3> QED
      BY <2>2, <3>1, FS_EmptySet DEF InServiceIsHandled
  <2>3. ASSUME NEW h \in Handlers, Handlers = {h}, HandlerOf(h.frame)
        PROVE  InServiceIsHandled
    <3> DEFINE p == <<h.term, Len(stack[h.term]) + 1 - h.place>>
    <3>1. KEYBOARD \in isr <=> Fresh(h.frame)
      BY <2>3 DEF HandlerOf
    <3>2. \A u \in Unended : u = p /\ Fresh(h.frame)
      BY <2>1, <2>3
    <3>3. Unended \in {{}, {p}}
      BY <3>2
    <3>4. Cardinality(Unended) =< 1
      <4>1. Cardinality({}) = 0 /\ Cardinality({p}) = 1
        BY FS_EmptySet, FS_Singleton
      <4> HIDE DEF p
      <4> QED
        BY <3>3, <4>1
    <3> QED
      BY <2>1, <2>3, <3>1, <3>2, <3>4 DEF InServiceIsHandled
  <2> QED
    BY <2>2, <2>3 DEF HandlerInv, OneHandler
<1> QED
  BY <1>1, HandlerInvariance, PTL

(* When no handler is halfway, keyboard_buf holds the line that the keys   *)
(* make, handled one by one in the order in which they were read           *)
(* (keyboard_handler and its helpers).                                     *)
THEOREM LineIsAsTyped ==
    ASSUME Orderly
    PROVE  Spec => []LineAsTyped
<1>1. HandlerInv => LineAsTyped
  <2> SUFFICES ASSUME HandlerInv, \A f \in Frames : f.at \notin {"stored", "tab"}
               PROVE  typed = [i \in 1 .. buf_idx |-> keyboard_buf[i - 1]]
    BY DEF LineAsTyped
  <2>1. Handlers = {}
    <3> SUFFICES ASSUME NEW h \in Handlers PROVE FALSE
      OBVIOUS
    <3>1. /\ h.term \in Terms /\ h.place \in 1 .. Len(stack[h.term])
          /\ h.frame = Place(h.term, h.place) /\ Halfway(h.frame)
      BY HandlerPlaces
    <3>2. stack[h.term] \in Seq(FrameTypes)
      BY <3>1 DEF HandlerInv, StacksOK
    <3>3. Len(stack[h.term]) + 1 - h.place \in 1 .. Len(stack[h.term])
      BY <3>1, <3>2
    <3>4. h.frame \in Frames
      BY <3>1, <3>3 DEF Frames, Place, Bottom
    <3> QED
      BY <3>1, <3>4 DEF Halfway
  <2>2. /\ Len(typed) = buf_idx /\ typed \in Seq(Chars \cup {SPACE}) /\ buf_idx \in Nat
        /\ \A i \in 1 .. buf_idx : typed[i] = keyboard_buf[i - 1]
    BY <2>1, InterruptsAssumption DEF HandlerInv, OneHandler, BufferOK, InStep, Holds
  <2>3. typed = [i \in 1 .. buf_idx |-> typed[i]]
    BY <2>2
  <2> QED
    BY <2>2, <2>3
<1> QED
  BY <1>1, HandlerInvariance, PTL
=============================================================================
