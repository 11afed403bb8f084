-------------------------------- MODULE Rtc ---------------------------------
(***************************************************************************)
(* The virtualised real-time clock (rtc.c).  The chip interrupts at one    *)
(* fixed rate; every terminal has a frequency of its own, made by counting *)
(* interrupts, and rtc_read spins on the terminal's flag.  The interrupt   *)
(* comes between any two steps of the programs: read() and write() enable  *)
(* interrupts before they call the driver.                                 *)
(***************************************************************************)
EXTENDS Integers

CONSTANTS NUM_TERMS,  \* terminals (3)
          max_freq    \* the frequency of the chip, a power of two (1024)

ASSUME RtcAssumption == NUM_TERMS \in Nat \ {0} /\ max_freq \in Nat /\ max_freq > 1

Terms == 0 .. NUM_TERMS - 1

VARIABLES
    curr_freq,       \* the frequency each terminal has asked for
    freq_count,      \* and how many interrupts its clock counts for a tick
    curr_count,      \* interrupts still to count in each terminal
    flag,            \* 1 when a tick has come since rtc_read reset it
    scheduled_term,  \* the terminal whose program has the processor
    opened,          \* the terminals whose programs have opened the rtc
    reading,         \* the terminals whose programs are in rtc_read
    reload,          \* history: what curr_count was last reloaded with
    left,            \* history: what was still to count when a read began
    waited           \* history: interrupts a read has waited for, counted up
                     \* to max_freq + 1

clock == <<curr_freq, freq_count, curr_count>>
history == <<reload, left, waited>>
vars == <<clock, flag, scheduled_term, opened, reading, history>>

TypeOK ==
    /\ curr_freq \in [Terms -> 1 .. max_freq]
    /\ freq_count \in [Terms -> 1 .. max_freq]
    /\ curr_count \in [Terms -> 0 .. max_freq]
    /\ flag \in [Terms -> {0, 1}]
    /\ scheduled_term \in Terms
    /\ opened \subseteq Terms /\ reading \subseteq opened
    /\ reload \in [Terms -> 1 .. max_freq]
    /\ left \in [Terms -> 0 .. max_freq]
    /\ waited \in [Terms -> 0 .. max_freq + 1]

Init ==
    /\ curr_freq = [t \in Terms |-> max_freq]
    /\ freq_count = [t \in Terms |-> 1]
    /\ curr_count = [t \in Terms |-> 1]
    /\ flag = [t \in Terms |-> 0]
    /\ scheduled_term = 0
    /\ opened = {} /\ reading = {}
    /\ reload = [t \in Terms |-> 1]
    /\ left = [t \in Terms |-> 0]
    /\ waited = [t \in Terms |-> 0]

-----------------------------------------------------------------------------
(* Mutated form: the counter goes on below zero. *)
NeverElapsed(t) == FALSE

(* The interrupt that ends terminal t's period. *)
Elapsed(t) == curr_count[t] = 0

(* Mutated form: only the clock of the scheduled terminal runs. *)
RunningOnly == {scheduled_term}

(* The terminals whose clocks an interrupt advances. *)
Counting == Terms

(* Mutated form: the tick is given to the scheduled terminal. *)
RaisedForScheduled(t) == scheduled_term = t /\ \E u \in Terms : Elapsed(u)

(* Does this interrupt raise the flag of t? *)
Raised(t) == Elapsed(t)

rtc_handler ==
    /\ curr_count' = [t \in Terms |-> IF t \notin Counting THEN curr_count[t]
                                      ELSE IF Elapsed(t) THEN freq_count[t]
                                      ELSE curr_count[t] - 1]
    /\ flag' = [t \in Terms |-> IF t \in Counting /\ Raised(t) THEN 1 ELSE flag[t]]
    /\ reload' = [t \in Terms |-> IF t \in Counting /\ Elapsed(t) THEN freq_count[t]
                                  ELSE reload[t]]
    /\ waited' = [t \in Terms |-> IF t \in reading /\ flag[t] = 0 /\ waited[t] <= max_freq
                                  THEN waited[t] + 1
                                  ELSE waited[t]]
    /\ UNCHANGED <<curr_freq, freq_count, scheduled_term, opened, reading, left>>

(* The program of terminal t runs and is not inside rtc_read. *)
Calls(t) == scheduled_term = t /\ t \notin reading

rtc_open(t) ==
    /\ Calls(t)
    /\ opened' = opened \cup {t}
    /\ curr_freq' = [curr_freq EXCEPT ![t] = 2]
    /\ freq_count' = [freq_count EXCEPT ![t] = max_freq \div 2]
    /\ UNCHANGED <<curr_count, flag, scheduled_term, reading, history>>

(* The frequencies that rtc_write accepts: any other call returns -1.      *)
Accepted == {f \in 1 .. max_freq : \E n \in 0 .. max_freq : f = 2^n}

(* rtc_write: the counter keeps what it had left of the old period. *)
rtc_write(t, frequency) ==
    /\ Calls(t) /\ t \in opened
    /\ curr_freq' = [curr_freq EXCEPT ![t] = frequency]
    /\ freq_count' = [freq_count EXCEPT ![t] = max_freq \div frequency]
    /\ UNCHANGED <<curr_count, flag, scheduled_term, opened, reading, history>>

(* Mutated form: a tick from before the read is not forgotten. *)
FlagKept(t) == flag[t]

(* The flag of t when rtc_read starts to wait. *)
FlagReset(t) == 0

(* rtc_read, up to its loop. *)
ReadStarts(t) ==
    /\ Calls(t) /\ t \in opened
    /\ flag' = [flag EXCEPT ![t] = FlagReset(t)]
    /\ reading' = reading \cup {t}
    /\ left' = [left EXCEPT ![t] = curr_count[t]]
    /\ waited' = [waited EXCEPT ![t] = 0]
    /\ UNCHANGED <<clock, scheduled_term, opened, reload>>

(* The loop ends. *)
ReadEnds(t) ==
    /\ scheduled_term = t /\ t \in reading /\ flag[t] = 1
    /\ reading' = reading \ {t}
    /\ left' = [left EXCEPT ![t] = 0]
    /\ waited' = [waited EXCEPT ![t] = 0]
    /\ UNCHANGED <<clock, flag, scheduled_term, opened, reload>>

(* The timer interrupt. *)
Tick ==
    /\ scheduled_term' = (scheduled_term + 1) % NUM_TERMS
    /\ UNCHANGED <<clock, flag, opened, reading, history>>

Next ==
    \/ rtc_handler
    \/ \E t \in Terms : \/ rtc_open(t)
                        \/ \E frequency \in Accepted : rtc_write(t, frequency)
                        \/ ReadStarts(t)
                        \/ ReadEnds(t)
    \/ Tick

Spec == Init /\ [][Next]_vars

(* Both chips keep interrupting, and a time slice is long enough for a     *)
(* program that spins to look at its flag.                                 *)
FairSpec ==
    /\ Spec
    /\ WF_vars(rtc_handler) /\ WF_vars(Tick)
    /\ \A t \in Terms : SF_vars(ReadEnds(t))

-----------------------------------------------------------------------------
(* Properties. *)

(* rtc_read never returns for a tick that came before it was called: the   *)
(* flag it finds up was raised by an interrupt it waited for.              *)
ReadWaits == \A t \in reading : flag[t] = 1 => waited[t] > 0

(* However the other terminals use their clocks, and whoever is scheduled, *)
(* a read that finds n interrupts still to count in its terminal's period  *)
(* ends with interrupt n + 1, neither sooner nor later: a frequency set in *)
(* between takes effect with the next period only.  A whole period, with   *)
(* n = freq_count, is freq_count + 1 interrupts: one more than the         *)
(* comments say (ReadWithinPeriod).                                        *)
ReadBounded ==
    \A t \in reading :
        flag[t] = 0 => waited[t] + curr_count[t] = left[t] /\ left[t] <= reload[t]

(* "we wait for 512 interrupts in rtc_read before we let the program       *)
(* continue" (rtc.c:77), "we count for one interrupt in order for rtc_read *)
(* to finish executing" (rtc.c:108): once a period of the current          *)
(* frequency has begun, a read ends within freq_count interrupts.          *)
ReadWithinPeriod ==
    \A t \in reading :
        (flag[t] = 0 /\ reload[t] = freq_count[t]) => waited[t] < freq_count[t]

(* Every rtc_read returns, whatever the other terminals do to their own    *)
(* clocks: no tick is lost while its reader is not scheduled.              *)
ReadReturns == \A t \in Terms : (t \in reading) ~> (t \notin reading)
=============================================================================
