----------------------------- MODULE Rtc_proofs -----------------------------
(***************************************************************************)
(* Proofs about Rtc, for any number of terminals and any frequency of the  *)
(* chip: a read waits for a tick of its own and ends with the period in    *)
(* progress.                                                               *)
(***************************************************************************)
EXTENDS Rtc, TLAPS

(* The number of interrupts that rtc_open and rtc_write count for a tick.  *)
LEMMA CountInRange ==
    ASSUME NEW f \in 1 .. max_freq
    PROVE  max_freq \div f \in 1 .. max_freq
  BY RtcAssumption, SMT

(* The chip is at least as fast as the 2 Hz that rtc_open asks for. *)
LEMMA TwoHertz == 2 \in 1 .. max_freq
  BY RtcAssumption, SMT

(* The counter never holds more than it was last reloaded with, so a read  *)
(* that starts now has no longer than a period to wait.                    *)
CountWithinReload == \A t \in Terms : curr_count[t] <= reload[t]

RtcInv == TypeOK /\ CountWithinReload /\ ReadWaits /\ ReadBounded

LEMMA RtcInit == Init => RtcInv
  BY RtcAssumption, SMT DEF Init, RtcInv, TypeOK, CountWithinReload, ReadWaits,
     ReadBounded, Terms

(* The interrupt counts every terminal down by one, or reloads it, and     *)
(* every waiting read up by one.                                           *)
LEMMA HandlerStep ==
    ASSUME RtcInv, rtc_handler
    PROVE  RtcInv'
  <1> USE RtcAssumption DEF RtcInv, rtc_handler, TypeOK, Counting, Elapsed, Raised
  <1>1. TypeOK'
    BY SMT
  <1>2. CountWithinReload'
    BY SMT DEF CountWithinReload
  <1>3. ReadWaits'
    BY SMT DEF ReadWaits
  <1>4. ReadBounded'
    BY SMT DEF ReadBounded, CountWithinReload
  <1> QED BY <1>1, <1>2, <1>3, <1>4

(* Setting a frequency leaves the period in progress alone. *)
LEMMA FrequencyStep ==
    ASSUME RtcInv, NEW t \in Terms,
           rtc_open(t) \/ \E frequency \in Accepted : rtc_write(t, frequency)
    PROVE  RtcInv'
  <1> USE DEF RtcInv, TypeOK, CountWithinReload, ReadWaits, ReadBounded, history
  <1>1. CASE rtc_open(t)
    <2>1. max_freq \div 2 \in 1 .. max_freq
      BY TwoHertz, CountInRange
    <2>2. TypeOK'
      BY <1>1, <2>1, TwoHertz, SMT DEF rtc_open, Calls
    <2> QED BY <1>1, <2>2, SMT DEF rtc_open, Calls
  <1>2. ASSUME NEW frequency \in Accepted, rtc_write(t, frequency)
        PROVE  RtcInv'
    <2>1. frequency \in 1 .. max_freq
      BY DEF Accepted
    <2>2. max_freq \div frequency \in 1 .. max_freq
      BY <2>1, CountInRange
    <2>3. TypeOK'
      BY <1>2, <2>1, <2>2, SMT DEF rtc_write, Calls
    <2> QED BY <1>2, <2>3, SMT DEF rtc_write, Calls
  <1> QED BY <1>1, <1>2

(* A read starts with the flag down, and ends. *)
LEMMA ReadStep ==
    ASSUME RtcInv, NEW t \in Terms, ReadStarts(t) \/ ReadEnds(t)
    PROVE  RtcInv'
  <1> USE RtcAssumption DEF RtcInv, TypeOK, clock
  <1>1. CASE ReadStarts(t)
    <2> USE <1>1 DEF ReadStarts, Calls, FlagReset
    <2>1. TypeOK'
      BY SMT
    <2>2. CountWithinReload'
      BY SMT DEF CountWithinReload
    <2>3. ReadWaits'
      BY SMT DEF ReadWaits
    <2>4. ReadBounded'
      BY SMT DEF ReadBounded, CountWithinReload
    <2> QED BY <2>1, <2>2, <2>3, <2>4
  <1>2. CASE ReadEnds(t)
    <2> USE <1>2 DEF ReadEnds
    <2>1. TypeOK'
      BY SMT
    <2>2. CountWithinReload'
      BY SMT DEF CountWithinReload
    <2>3. ReadWaits' /\ ReadBounded'
      BY SMT DEF ReadWaits, ReadBounded
    <2> QED BY <2>1, <2>2, <2>3
  <1> QED BY <1>1, <1>2

(* The scheduler does not touch the clocks. *)
LEMMA TickStep ==
    ASSUME RtcInv, Tick
    PROVE  RtcInv'
  <1>1. (scheduled_term + 1) % NUM_TERMS \in Terms
    <2>1. scheduled_term + 1 \in Nat /\ NUM_TERMS \in Nat /\ NUM_TERMS > 0
      BY RtcAssumption DEF RtcInv, TypeOK, Terms
    <2>2. (scheduled_term + 1) % NUM_TERMS \in 0 .. NUM_TERMS - 1
      BY <2>1, SMT
    <2> QED BY <2>2 DEF Terms
  <1>2. scheduled_term' \in Terms
    BY <1>1 DEF Tick
  <1> QED
    BY <1>2 DEF RtcInv, TypeOK, CountWithinReload, ReadWaits, ReadBounded, Tick,
       clock, history

(* The counters, flags and the reads in progress keep the invariant, step  *)
(* by step of the interrupt, the driver functions and the scheduler.       *)
THEOREM RtcInvariance == Spec => []RtcInv
  <1>1. ASSUME RtcInv, [Next]_vars
        PROVE  RtcInv'
    <2>1. CASE rtc_handler
      BY <1>1, <2>1, HandlerStep
    <2>2. ASSUME NEW t \in Terms,
                 \/ rtc_open(t)
                 \/ \E frequency \in Accepted : rtc_write(t, frequency)
                 \/ ReadStarts(t)
                 \/ ReadEnds(t)
          PROVE  RtcInv'
      BY <1>1, <2>2, FrequencyStep, ReadStep
    <2>3. CASE Tick
      BY <1>1, <2>3, TickStep
    <2>4. CASE UNCHANGED vars
      BY <1>1, <2>4 DEF vars, clock, history, RtcInv, TypeOK, CountWithinReload,
         ReadWaits, ReadBounded
    <2> QED BY <1>1, <2>1, <2>2, <2>3, <2>4 DEF Next
  <1> QED BY <1>1, RtcInit, PTL DEF Spec

(* Counts, periods and flags stay in range, whatever frequencies are set.  *)
THEOREM RtcTypeCorrect == Spec => []TypeOK
  BY RtcInvariance, PTL DEF RtcInv

(* rtc_read returns for a tick that came after its call, and at the latest *)
(* when the period in progress ends.                                       *)
THEOREM ReadsEndInTime == Spec => [](ReadWaits /\ ReadBounded)
  <1>1. RtcInv => ReadWaits /\ ReadBounded
    BY DEF RtcInv
  <1> QED BY <1>1, RtcInvariance, PTL
=============================================================================
