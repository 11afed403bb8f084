-------------------------- MODULE Descriptors_proofs ------------------------
(***************************************************************************)
(* Proofs about Descriptors, for any number of terminals, processes and    *)
(* descriptors and files of any length: although the system calls of all   *)
(* terminals share curr_pcb, the two records of a process' open            *)
(* descriptors agree, no call changes the descriptors of a process that    *)
(* did not make it, a program starts with none, and a closed descriptor's  *)
(* position does not move.                                                 *)
(***************************************************************************)
EXTENDS Descriptors, SequenceTheorems, TLAPS

(* The inductive invariant.  The drivers check again in the caller's own   *)
(* block, so nothing about curr_pcb but its type is needed.                *)
DInv ==
    /\ TypeOK
    /\ stack \in [Terms -> Seq(Pids)]
    /\ IndexesAgree

-----------------------------------------------------------------------------
(* The processes of the terminals. *)

LEMMA CurrentIsLive ==
  ASSUME DInv, NEW t \in Terms
  PROVE  Current(t) \in Pids /\ Current(t) \in Live
<1>1. stack[t] \in Seq(Pids) /\ stack[t] # << >>
  BY DEF DInv, TypeOK
<1>2. Len(stack[t]) \in 1 .. Len(stack[t]) /\ DOMAIN stack[t] = 1 .. Len(stack[t])
  BY <1>1, EmptySeq, LenProperties
<1> QED
  BY <1>1, <1>2, ElementOfSeq DEF Current, Live

(* halt: every terminal keeps a process, and none appears. *)
LEMMA AfterHaltStacks ==
  ASSUME DInv, NEW t \in Terms, stack' = AfterHalt(t)
  PROVE  /\ stack' \in [Terms -> Seq(Pids)]
         /\ \A u \in Terms : stack'[u] # << >>
         /\ Live' \subseteq Live
<1> DEFINE s == stack[t]
           rest == IF Len(s) = 1 THEN s ELSE SubSeq(s, 1, Len(s) - 1)
<1>1. s \in Seq(Pids) /\ s # << >>
  BY DEF DInv, TypeOK
<1>2. Len(s) \in Nat \ {0} /\ DOMAIN s = 1 .. Len(s) /\ \A i \in 1 .. Len(s) : s[i] \in Pids
  BY <1>1, EmptySeq, LenProperties, ElementOfSeq
<1>3. /\ rest \in Seq(Pids) /\ rest # << >> /\ DOMAIN rest \subseteq DOMAIN s
      /\ \A i \in DOMAIN rest : rest[i] = s[i]
  <2>1. CASE Len(s) = 1
    BY <1>1, <2>1
  <2>2. CASE Len(s) # 1
    <3>1. Len(s) - 1 \in Int /\ \A i \in 1 .. Len(s) - 1 : s[i] \in Pids
      BY <1>2
    <3>2. /\ rest \in Seq(Pids)
          /\ Len(rest) = Len(s) - 1
          /\ \A i \in 1 .. Len(s) - 1 : rest[i] = s[1 + i - 1]
      BY <1>2, <2>2, <3>1, SubSeqProperties
    <3> HIDE DEF rest, s
    <3>3. Len(rest) # 0 /\ DOMAIN rest = 1 .. Len(s) - 1
      BY <1>2, <2>2, <3>2, LenProperties
    <3>4. rest # << >>
      BY <3>3, EmptySeq
    <3> QED
      BY <1>2, <3>2, <3>3, <3>4
  <2> QED
    BY <2>1, <2>2
<1>4. stack' = [stack EXCEPT ![t] = rest]
  BY DEF AfterHalt
<1> HIDE DEF rest
<1>5. \A u \in Terms : stack'[u] = IF u = t THEN rest ELSE stack[u]
  BY <1>4 DEF DInv
<1>6. Live' \subseteq Live
  BY <1>3, <1>5 DEF Live
<1> QED
  BY <1>3, <1>4, <1>5, <1>6 DEF DInv, TypeOK

(* execute: one process more. *)
LEMMA ExecuteStacks ==
  ASSUME DInv, NEW t \in Terms, NEW new \in Pids,
         stack' = [stack EXCEPT ![t] = Append(@, new)]
  PROVE  /\ stack' \in [Terms -> Seq(Pids)]
         /\ \A u \in Terms : stack'[u] # << >>
         /\ Live' = Live \cup {new}
<1> DEFINE s == stack[t]
           more == Append(s, new)
<1>1. s \in Seq(Pids) /\ Len(s) \in Nat /\ DOMAIN s = 1 .. Len(s)
  BY LenProperties DEF DInv
<1>2. /\ more \in Seq(Pids) /\ more # << >> /\ Len(more) = Len(s) + 1
      /\ more[Len(s) + 1] = new /\ \A i \in 1 .. Len(s) : more[i] = s[i]
  BY <1>1, AppendProperties
<1>3. DOMAIN more = 1 .. Len(s) + 1
  BY <1>2, LenProperties
<1>4. stack' = [stack EXCEPT ![t] = more]
  OBVIOUS
<1> HIDE DEF more
<1>5. \A u \in Terms : stack'[u] = IF u = t THEN more ELSE stack[u]
  BY <1>4 DEF DInv
<1>6. {more[i] : i \in DOMAIN more} = {s[i] : i \in DOMAIN s} \cup {new}
  BY <1>1, <1>2, <1>3
<1>7. Live' = Live \cup {new}
  BY <1>5, <1>6 DEF Live
<1> QED
  BY <1>2, <1>4, <1>5, <1>7 DEF DInv, TypeOK

-----------------------------------------------------------------------------
(* What a driver does to a position. *)

LEMMA FileLengths ==
  ASSUME NEW f \in Files
  PROVE  f.length \in Nat
<1>1. CASE f \in {Nothing, Rtc, Dir}
  BY <1>1 DEF Nothing, Rtc, Dir
<1>2. CASE f \in [type : {"file"}, length : Lengths]
  BY <1>2, DescriptorsAssumption
<1> QED
  BY <1>1, <1>2 DEF Files

(* A driver moves a position only where its own check finds a full one. *)
LEMMA MovedFacts ==
  ASSUME DInv, NEW q \in Pids, NEW fd \in OpenFds, NEW g, NEW n \in Nat
  PROVE  /\ Moved(q, fd, g, n) \in Nat
         /\ flags[q][fd] = "empty" => Moved(q, fd, g, n) = file_position[q][fd]
<1> DEFINE pos == file_position[q][fd]
           length == file[q][fd].length
<1>1. pos \in Nat /\ length \in Nat
  BY FileLengths DEF DInv, TypeOK
<1> HIDE DEF pos, length
<1>2. AfterReadFile(pos, n, length) \in Nat
  BY <1>1 DEF AfterReadFile
<1>3. \/ Moved(q, fd, g, n) = pos
      \/ flags[q][fd] = "full" /\ Moved(q, fd, g, n) = AfterReadFile(pos, n, length)
      \/ flags[q][fd] = "full" /\ Moved(q, fd, g, n) = 0
      \/ flags[q][fd] = "full" /\ Moved(q, fd, g, n) = pos + 1
  BY DEF Moved, FullForDriver, pos, length
<1> QED
  BY <1>1, <1>2, <1>3 DEF pos

(* The outcome of the second half of a read or write. *)
LEMMA DispatchEffect ==
  ASSUME DInv, NEW t \in Terms, Dispatches(t)
  PROVE  /\ file_position' \in [Pids -> [OpenFds -> Nat]]
         /\ \A p \in Pids : p # Current(scheduled_term) =>
              file_position'[p] = file_position[p]
         /\ \A p \in Pids, fd \in OpenFds :
              flags[p][fd] = "empty" => file_position'[p][fd] = file_position[p][fd]
<1> DEFINE fd == call[t].fd
           q == Current(t)
           n == call[t].nbytes
           after == Moved(q, fd, file[curr_pcb][fd], n)
<1>1. q \in Pids /\ q = Current(scheduled_term)
  BY CurrentIsLive DEF Dispatches
<1>2. call[t] \in Calls /\ call[t] # Idle
  BY DEF Dispatches, DInv, TypeOK
<1>3. n \in Nat
  BY <1>2, DescriptorsAssumption DEF Calls
<1>4. CASE call[t].op = "read" /\ fd \in OpenFds
  <2>1. file_position' = [file_position EXCEPT ![q][fd] = after]
    BY <1>4 DEF Dispatches, DriverPcb
  <2>2. after \in Nat /\ (flags[q][fd] = "empty" => after = file_position[q][fd])
    BY <1>1, <1>3, <1>4, MovedFacts
  <2> HIDE DEF after, fd, q
  <2> QED
    BY <1>1, <1>4, <2>1, <2>2 DEF DInv, TypeOK
<1>5. CASE ~(call[t].op = "read" /\ fd \in OpenFds)
  <2>1. UNCHANGED file_position
    BY <1>5 DEF Dispatches
  <2> QED
    BY <2>1 DEF DInv, TypeOK
<1> QED
  BY <1>4, <1>5

-----------------------------------------------------------------------------
(* The invariant is kept, and what each step changes. *)

LEMMA DInvInit ==
  Init => DInv
<1> SUFFICES ASSUME Init PROVE DInv
  OBVIOUS
<1>1. Terms \subseteq Pids /\ 0 \in Terms /\ NUM_TERMS - 1 \in Terms
  BY DescriptorsAssumption DEF Terms, Pids
<1>2. ASSUME NEW t \in Terms
      PROVE  stack[t] = <<t>> /\ stack[t] \in Seq(Pids) /\ stack[t] # << >>
  BY <1>1 DEF Init
<1>3. \A t \in Terms : \A i \in DOMAIN stack[t] : stack[t][i] \in Pids
  BY <1>2, ElementOfSeq, LenProperties
<1>4. stack \in [Terms -> Seq(Pids)]
  BY <1>2 DEF Init
<1>5. flags = openIndexes /\ openIndexes \in [Pids -> [OpenFds -> {"empty", "full"}]]
  BY DEF Init, AllEmpty
<1>6. Nothing \in Files /\ Idle \in Calls
  BY DEF Files, Calls
<1>7. /\ file \in [Pids -> [OpenFds -> Files]]
      /\ file_position \in [Pids -> [OpenFds -> Nat]]
      /\ call \in [Terms -> Calls]
      /\ scheduled_term \in Terms /\ curr_pcb \in Pids
  BY <1>1, <1>6 DEF Init
<1> QED
  BY <1>2, <1>3, <1>4, <1>5, <1>7 DEF DInv, TypeOK, IndexesAgree

(* What the steps of Next may do to the tables, in the terms of the action *)
(* properties.                                                             *)
Discipline ==
    /\ \A p \in Live : p # Current(scheduled_term) =>
          /\ flags'[p] = flags[p]
          /\ openIndexes'[p] = openIndexes[p]
          /\ file'[p] = file[p]
          /\ file_position'[p] = file_position[p]
    /\ \A p \in Pids, fd \in OpenFds :
          flags[p][fd] = "empty" /\ flags'[p][fd] = "empty"
            => file_position'[p][fd] = file_position[p][fd]

(* A typed stack gives TypeOK's clause about it. *)
LEMMA StackTypes ==
  ASSUME NEW stacks \in [Terms -> Seq(Pids)], NEW t \in Terms
  PROVE  \A i \in DOMAIN stacks[t] : stacks[t][i] \in Pids
  BY ElementOfSeq, LenProperties

LEMMA StepFacts ==
  ASSUME DInv, [Next]_vars
  PROVE  DInv' /\ Discipline
<1> DEFINE Good == DInv' /\ Discipline
<1> USE DEF IndexesAgree
<1>1. ASSUME UNCHANGED stack PROVE Live' = Live
  BY <1>1 DEF Live
<1>2. ASSUME NEW t \in Terms, NEW p \in Pids, NEW f \in Files, Open(t, p, f)
      PROVE  Good
  <2>1. p = Current(scheduled_term)
    BY <1>2 DEF Open, Calling
  <2>2. PICK fd \in OpenFds :
          /\ openIndexes' = [openIndexes EXCEPT ![p][fd] = "full"]
          /\ flags' = [flags EXCEPT ![p][fd] = "full"]
          /\ file' = [file EXCEPT ![p][fd] = f]
          /\ file_position' = [file_position EXCEPT ![p][fd] = 0]
    BY <1>2 DEF Open
  <2>3. UNCHANGED <<stack, scheduled_term, call>> /\ curr_pcb' = p
    BY <1>2 DEF Open
  <2>4. DInv'
    BY <2>2, <2>3 DEF DInv, TypeOK
  <2>5. Discipline
    BY <1>1, <2>1, <2>2, <2>3 DEF DInv, TypeOK, Discipline
  <2> QED
    BY <2>4, <2>5
<1>3. ASSUME NEW t \in Terms, NEW p \in Pids, OpenFails(t, p) PROVE Good
  BY <1>3, <1>1 DEF OpenFails, DInv, TypeOK, Discipline, tables
<1>4. ASSUME NEW t \in Terms, NEW p \in Pids, NEW fd \in OpenFds, Close(t, p, fd)
      PROVE  Good
  <2>1. p = Current(scheduled_term) /\ UNCHANGED <<stack, scheduled_term, file, call>>
        /\ curr_pcb' = p
    BY <1>4 DEF Close, Calling
  <2>2. CASE flags[p][fd] = "full"
    <3>1. /\ openIndexes' = [openIndexes EXCEPT ![p][fd] = "empty"]
          /\ flags' = [flags EXCEPT ![p][fd] = "empty"]
          /\ file_position' = [file_position EXCEPT ![p][fd] = 0]
      BY <1>4, <2>2 DEF Close, IndexFreed
    <3> QED
      BY <1>1, <2>1, <2>2, <3>1 DEF DInv, TypeOK, Discipline
  <2>3. CASE flags[p][fd] # "full"
    <3>1. UNCHANGED <<openIndexes, flags, file_position>>
      BY <1>4, <2>3 DEF Close
    <3> QED
      BY <1>1, <2>1, <3>1 DEF DInv, TypeOK, Discipline
  <2> QED
    BY <2>2, <2>3
<1>5. ASSUME NEW t \in Terms, NEW p \in Pids, Execute(t, p) PROVE Good
  <2>1. PICK new \in Pids \ Live :
          /\ stack' = [stack EXCEPT ![t] = Append(@, new)]
          /\ openIndexes' = [openIndexes EXCEPT ![new] = AllEmpty]
          /\ flags' = [flags EXCEPT ![new] = AllEmpty]
          /\ curr_pcb' = new
    BY <1>5 DEF Execute, FlagsAtStart
  <2>2. UNCHANGED <<scheduled_term, file, file_position, call>>
    BY <1>5 DEF Execute
  <2>3. AllEmpty \in [OpenFds -> {"empty", "full"}]
    BY DEF AllEmpty
  <2>4. /\ stack' \in [Terms -> Seq(Pids)] /\ \A u \in Terms : stack'[u] # << >>
        /\ Live' = Live \cup {new}
    BY <2>1, ExecuteStacks
  <2>5. \A u \in Terms : \A i \in DOMAIN stack'[u] : stack'[u][i] \in Pids
    BY <2>4, StackTypes
  <2>6. DInv'
    BY <2>1, <2>2, <2>3, <2>4, <2>5 DEF DInv, TypeOK
  <2>7. Discipline
    BY <2>1, <2>2, <2>4 DEF DInv, TypeOK, Discipline, AllEmpty
  <2> QED
    BY <2>6, <2>7
<1>6. ASSUME NEW t \in Terms, stack' = AfterHalt(t), call' \in [Terms -> Calls],
             curr_pcb' \in Pids, UNCHANGED <<scheduled_term, tables>>
      PROVE  Good
  <2>1. /\ stack' \in [Terms -> Seq(Pids)] /\ \A u \in Terms : stack'[u] # << >>
        /\ Live' \subseteq Live
    BY <1>6, AfterHaltStacks
  <2>2. \A u \in Terms : \A i \in DOMAIN stack'[u] : stack'[u][i] \in Pids
    BY <2>1, StackTypes
  <2> QED
    BY <1>6, <2>1, <2>2 DEF DInv, TypeOK, Discipline, tables
<1>7. ASSUME NEW t \in Terms, NEW p \in Pids, Halt(t, p) PROVE Good
  BY <1>7, <1>6 DEF Halt, DInv, TypeOK
<1>8. ASSUME NEW t \in Terms, NEW p \in Pids, NEW op \in {"read", "write"},
             NEW fd \in 0 .. NUM_FDS - 1, NEW n \in Sizes, Enters(t, p, op, fd, n)
      PROVE  Good
  <2>1. [op |-> op, fd |-> fd, nbytes |-> n, stage |-> "entered"] \in Calls
    BY DEF Calls
  <2> QED
    BY <1>8, <1>1, <2>1 DEF Enters, DInv, TypeOK, Discipline, tables
<1>9. ASSUME NEW t \in Terms, Checks(t) PROVE Good
  <2>1. call[t] \in Calls /\ call[t] # Idle
    BY <1>9 DEF Checks, DInv, TypeOK
  <2>2. [call[t] EXCEPT !.stage = "checked"] \in Calls /\ Idle \in Calls
    BY <2>1 DEF Calls
  <2>3. call' \in [Terms -> Calls]
    BY <1>9, <2>2 DEF Checks, DInv, TypeOK
  <2> QED
    BY <1>9, <1>1, <2>3 DEF Checks, DInv, TypeOK, Discipline, tables
<1>10. ASSUME NEW t \in Terms, Dispatches(t) PROVE Good
  <2>1. /\ UNCHANGED <<stack, scheduled_term, flags, openIndexes, file, curr_pcb>>
        /\ call' = [call EXCEPT ![t] = Idle] /\ Idle \in Calls
    BY <1>10 DEF Dispatches, Calls
  <2>2. DInv'
    BY <1>10, <2>1, DispatchEffect DEF DInv, TypeOK
  <2>3. Live \subseteq Pids
    BY DEF Live, DInv, TypeOK
  <2>4. Discipline
    BY <1>10, <1>1, <2>1, <2>3, DispatchEffect DEF Discipline
  <2> QED
    BY <2>2, <2>4
<1>11. ASSUME NEW t \in Terms, Faults(t) PROVE Good
  <2>1. Idle \in Calls /\ Current(t) \in Pids
    BY CurrentIsLive DEF Calls
  <2> QED
    BY <1>11, <1>6, <2>1 DEF Faults, DInv, TypeOK
<1>12. CASE Tick
  <2>1. scheduled_term' \in Terms
    BY <1>12, DescriptorsAssumption DEF Tick, DInv, TypeOK, Terms
  <2> QED
    BY <1>12, <1>1, <2>1 DEF Tick, DInv, TypeOK, Discipline, tables
<1>13. CASE UNCHANGED vars
  BY <1>13, <1>1 DEF vars, DInv, TypeOK, Discipline, tables
<1> QED
  BY <1>2, <1>3, <1>4, <1>5, <1>7, <1>8, <1>9, <1>10, <1>11, <1>12, <1>13 DEF Next

(* The types, and the agreement of flags and openIndexes: open never hands *)
(* out a descriptor in use, and close makes every one available again,     *)
(* through every halt and every reuse of a block.                          *)
THEOREM DescriptorInvariant ==
  Spec => [](TypeOK /\ IndexesAgree)
<1>1. Spec => []DInv
  BY DInvInit, StepFacts, PTL DEF Spec
<1> QED
  BY <1>1, PTL DEF DInv

(* However the calls of several terminals overlap, a step changes the      *)
(* descriptors of the calling process (or of the one it creates) only, and *)
(* the position of a descriptor that is closed does not move.              *)
THEOREM DescriptorsArePrivate ==
  Spec => OwnTableOnly /\ ClosedStaysPut
<1>1. Spec => []DInv
  BY DInvInit, StepFacts, PTL DEF Spec
<1>2. DInv /\ [Next]_vars =>
        /\ [\A p \in Live : p # Current(scheduled_term) =>
              /\ flags'[p] = flags[p]
              /\ openIndexes'[p] = openIndexes[p]
              /\ file'[p] = file[p]
              /\ file_position'[p] = file_position[p]]_vars
        /\ [\A p \in Pids, fd \in OpenFds :
              flags[p][fd] = "empty" /\ flags'[p][fd] = "empty"
                => file_position'[p][fd] = file_position[p][fd]]_vars
  BY StepFacts DEF Discipline
<1> QED
  BY <1>1, <1>2, PTL DEF Spec, OwnTableOnly, ClosedStaysPut
=============================================================================
