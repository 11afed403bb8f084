-------------------------- MODULE Processes_proofs --------------------------
(***************************************************************************)
(* Proofs about Processes, for any number of terminals and process control *)
(* blocks.  Type correctness needs no assumption on the environment; the   *)
(* other results assume that a program is executed only from the visible   *)
(* terminal and after boot (Disciplined).                                  *)
(*                                                                         *)
(* What holds for every step along a terminal's chain of ancestors is      *)
(* shown for the smallest step at which it would fail (LeastNatural).      *)
(***************************************************************************)
EXTENDS Processes, FiniteSetTheorems, TLAPS

Disciplined == BackgroundExec = FALSE /\ EarlyExec = FALSE

-----------------------------------------------------------------------------
(* The round robin stays among the terminals, and reaches terminal 0 only  *)
(* from the last one.                                                      *)
LEMMA NextTermFact ==
  ASSUME NEW t \in Terms
  PROVE  /\ NextTerm(t) \in Terms
         /\ NextTerm(t) = IF t + 1 = NUM_TERMS THEN 0 ELSE t + 1
<1>1. t \in Nat /\ t + 1 \in Nat /\ t + 1 <= NUM_TERMS /\ NUM_TERMS \in Nat \ {0}
  BY NumTermsAssumption DEF Terms
<1>2. CASE t + 1 = NUM_TERMS
  BY <1>1, <1>2 DEF NextTerm, Terms
<1>3. CASE t + 1 # NUM_TERMS
  BY <1>1, <1>3 DEF NextTerm, Terms
<1> QED
  BY <1>2, <1>3

(* Every base shell has a process control block of its own. *)
LEMMA BasePidsArePids == Terms \subseteq Pids
  BY NumTermsAssumption, MaxPcbAssumption DEF Terms, Pids

-----------------------------------------------------------------------------
(* execute keeps the types, whatever the image and the terminal. *)
LEMMA ExecuteImageType ==
  ASSUME TypeOK, NEW image \in Images, NEW term \in Terms,
         ExecuteImage(image, term)
  PROVE  /\ pcb_arr' \in [Pids -> {0, 1}]
         /\ curr_pid_for_term' \in [Terms -> Pids]
         /\ parent_pid_for_term' \in [Terms -> Pids]
         /\ parent' \in [Pids -> Pids]
         /\ esp' \in [Pids -> Contexts]
         /\ user_page' \in Pids
         /\ tss_esp0' \in Pids
         /\ running' \in Contexts
         /\ eax' \in Returns \cup {NoReturn}
<1>1. CASE Spawn(term)
  <2>1. PICK newest_pid \in FreePcbs :
          /\ pcb_arr' = [pcb_arr EXCEPT ![newest_pid] = 1]
          /\ parent_pid_for_term' =
               [parent_pid_for_term EXCEPT ![term] = curr_pid_for_term[term]]
          /\ curr_pid_for_term' = [curr_pid_for_term EXCEPT ![term] = newest_pid]
          /\ parent' = [parent EXCEPT ![newest_pid] = ParentOf(newest_pid, term)]
          /\ esp' = SaveForHalt(newest_pid, term)
          /\ SwitchMemory(newest_pid)
          /\ running' = newest_pid
          /\ eax' = NoReturn
    BY <1>1 DEF Spawn
  <2>2. newest_pid \in Pids /\ newest_pid \in Contexts
    BY DEF FreePcbs, Contexts
  <2>3. ParentOf(newest_pid, term) \in Pids
    BY <2>2 DEF ParentOf, TypeOK
  <2>4. esp' \in [Pids -> Contexts]
    BY <2>1, <2>3 DEF SaveForHalt, TypeOK
  <2> QED
    BY <2>1, <2>2, <2>3, <2>4 DEF TypeOK, SwitchMemory
<1>2. CASE UNCHANGED <<tables, esp, memory, running>> /\ eax' \in {0, -1}
  BY <1>2 DEF TypeOK, tables, memory, Returns
<1> QED
  BY <1>1, <1>2 DEF ExecuteImage

(* Every handler keeps the types. *)
LEMMA TypeStep ==
  ASSUME TypeOK, [Next]_vars
  PROVE  TypeOK'
  <1> 0 \in Terms /\ Visible \in Terms /\ NextTerm(scheduled_term) \in Terms
      /\ CurrentPid \in Pids
    BY NumTermsAssumption, NextTermFact DEF TypeOK, Terms, Visible, CurrentPid
  <1> "executable" \in Images
    BY DEF Images
  <1>1. CASE KernelEntry
    BY <1>1, ExecuteImageType DEF KernelEntry, TypeOK
  <1>2. ASSUME NEW image \in Images, Execute(image) PROVE TypeOK'
    BY <1>2, ExecuteImageType DEF Execute, TypeOK, boot
  <1>3. CASE HaltBaseShell
    BY <1>3 DEF HaltBaseShell, TypeOK, tables, boot, memory, Contexts
  <1>4. ASSUME NEW status \in Statuses, HaltProcess(status) PROVE TypeOK'
    <2> DEFINE caller == parent_pid_for_term[scheduled_term]
    <2>1. caller \in Pids /\ parent[caller] \in Pids
      BY DEF TypeOK
    <2>2. esp[caller] \in Contexts /\ Stale \in Contexts
      BY <2>1 DEF TypeOK, Contexts
    <2>3. WithoutStack(esp, CurrentPid) \in [Pids -> Contexts]
      BY <2>2 DEF TypeOK, WithoutStack
    <2>4. WithoutStack(scheduledEsp, CurrentPid) \in [Pids -> Contexts]
      BY <2>2 DEF TypeOK, WithoutStack
    <2>5. StatusReturned(status) \in Returns
      BY DEF Statuses, StatusReturned, Returns
    <2> QED
      BY <1>4, <2>1, <2>2, <2>3, <2>4, <2>5
      DEF HaltProcess, TypeOK, Released, ParentAfterHalt, SwitchMemory, boot
  <1>5. CASE PitInstantiates
    <2>1. SaveForPit(scheduled_term) \in [Pids -> Contexts]
      BY DEF TypeOK, SaveForPit
    <2>2. NextTerm(scheduled_term) + 1 \in 1 .. NUM_TERMS
      BY NumTermsAssumption DEF Terms
    <2> QED
      BY <1>5, <2>1, <2>2, ExecuteImageType DEF PitInstantiates, TypeOK
  <1>6. CASE PitSwitches
    <2>1. SaveForPit(scheduled_term) \in [Pids -> Contexts]
      BY DEF TypeOK, SaveForPit
    <2>2. 1 \in 1 .. NUM_TERMS
      BY NumTermsAssumption
    <2> QED
      BY <1>6, <2>1, <2>2 DEF PitSwitches, TypeOK, SwitchMemory, tables, Contexts
  <1>7. ASSUME NEW term \in 1 .. NUM_TERMS, SwitchTerminal(term) PROVE TypeOK'
    BY <1>7 DEF SwitchTerminal, TypeOK, tables, boot, memory
  <1>8. CASE UNCHANGED vars
    BY <1>8 DEF vars, tables, boot, memory, TypeOK
  <1> QED
    BY <1>1, <1>2, <1>3, <1>4, <1>5, <1>6, <1>7, <1>8 DEF Next, PitHandler

(* The registers, tables and saved contexts keep their types: every        *)
(* handler of systemCall.c and scheduling.c indexes the arrays in range.   *)
THEOREM TypeCorrect == Spec => []TypeOK
<1>1. Init => TypeOK
  BY NumTermsAssumption, MaxPcbAssumption
  DEF Init, TypeOK, Terms, Pids, Contexts
<1>2. TypeOK /\ [Next]_vars => TypeOK'
  BY TypeStep
<1> QED
  BY <1>1, <1>2, PTL DEF Spec

-----------------------------------------------------------------------------
(* A process executes a program from the visible terminal: it waits for a  *)
(* new process that is no base shell, current in its place, and resumed    *)
(* where execute saved the running stack.                                  *)
LEMMA ExecuteStep ==
  ASSUME Disciplined, IInv, TypeOK', NEW image \in Images, Execute(image)
  PROVE  IInv'
<1>1. CASE UNCHANGED <<tables, esp, memory, running>>
  BY <1>1 DEF Execute, IInv, tables, memory, boot, BootOrder, BaseShells,
     CallersWait, CurrentsLead, CurrentPidRuns, OwnMemory, ResumePointsValid,
     ParentTableAgrees, Started, Live, Waits, Booted, CurrentPid
<1>2. CASE Spawn(Visible)
  <2> DEFINE st == scheduled_term
             me == CurrentPid
  <2>1. /\ Visible = st /\ doneInstantiating = 1 /\ Booted
        /\ UNCHANGED <<scheduled_term, terminalInstantiated, doneInstantiating,
                       scheduledEsp>>
    BY DEF Execute, Disciplined, InUserProgram, boot, Booted
  <2>2. PICK new \in FreePcbs :
          /\ pcb_arr' = [pcb_arr EXCEPT ![new] = 1]
          /\ parent_pid_for_term' =
               [parent_pid_for_term EXCEPT ![st] = curr_pid_for_term[st]]
          /\ curr_pid_for_term' = [curr_pid_for_term EXCEPT ![st] = new]
          /\ parent' = [parent EXCEPT ![new] = ParentOf(new, st)]
          /\ esp' = SaveForHalt(new, st)
          /\ SwitchMemory(new)
          /\ running' = new
    BY <1>2, <2>1 DEF Spawn
  <2>3. /\ st \in Terms /\ me \in Pids /\ me = curr_pid_for_term[st]
        /\ new \in Pids /\ new \notin BasePids /\ ~Live(new)
        /\ Live(me) /\ running = me /\ new # me
        /\ \A t \in Terms : Started(t) /\ Live(t)
    BY <2>1 DEF IInv, TypeOK, BootOrder, BaseShells, CurrentPidRuns, CurrentPid,
       FreePcbs, Live, BasePids
  <2>4. \A p \in Pids : Live(p)' <=> Live(p) \/ p = new
    BY <2>2, <2>3 DEF IInv, TypeOK, Live
  <2>5. \A p \in Pids : parent'[p] = IF p = new THEN me ELSE parent[p]
    BY <2>2, <2>3 DEF IInv, TypeOK, ParentOf
  <2>6. \A t \in Terms :
          curr_pid_for_term'[t] = IF t = st THEN new ELSE curr_pid_for_term[t]
    BY <2>2, <2>3 DEF IInv, TypeOK
  <2>7. \A p, q \in Pids : Waits(p, q)' <=> Waits(p, q) \/ (p = me /\ q = new)
    BY <2>3, <2>4, <2>5 DEF Waits
  <2>8. \A p \in Pids : esp'[p] = IF p = me THEN me ELSE esp[p]
    BY <2>2, <2>3 DEF IInv, TypeOK, SaveForHalt, ParentOf
  <2>9. \A t \in Terms : Started(t)'
    BY <2>1, <2>3 DEF Started
  <2>10. BootOrder'
    BY <2>1, <2>9 DEF BootOrder, Booted
  <2>11. BaseShells'
    BY <2>3, <2>4, <2>5, <2>6, <2>9, BasePidsArePids
    DEF IInv, BaseShells, TypeOK, BasePids
  <2>12. CallersWait'
    <3>1. \A p \in Pids : (Live(p) /\ p \notin BasePids => Live(parent[p]) /\ parent[p] # p)'
      BY <2>3, <2>4, <2>5 DEF IInv, TypeOK, CallersWait
    <3>2. \A p, q, r \in Pids : (Waits(r, p) /\ Waits(r, q) => p = q)'
      BY <2>3, <2>7 DEF IInv, CallersWait, CurrentsLead
    <3> QED
      BY <3>1, <3>2 DEF CallersWait
  <2>13. CurrentsLead'
    <3>1. \A t, u \in Terms :
            curr_pid_for_term'[t] = curr_pid_for_term'[u] => t = u
      BY <2>3, <2>6 DEF IInv, CurrentsLead, BaseShells
    <3>2. \A t \in Terms, q \in Pids : ~Waits(curr_pid_for_term[t], q)'
      <4>1. \A q \in Pids : ~Waits(new, q)
        BY <2>3 DEF IInv, CallersWait, Waits
      <4>2. \A t \in Terms : curr_pid_for_term'[t] \in Pids
        BY DEF TypeOK
      <4> QED
        BY <2>3, <2>6, <2>7, <4>1, <4>2 DEF IInv, CurrentsLead, Waits
    <3>3. \A p \in Pids : Live(p)' => \/ \E t \in Terms : curr_pid_for_term'[t] = p
                                      \/ \E q \in Pids : Waits(p, q)'
      BY <2>3, <2>4, <2>6, <2>7 DEF IInv, CurrentsLead
    <3> QED
      BY <3>1, <3>2, <3>3 DEF CurrentsLead
  <2>14. CurrentPidRuns' /\ OwnMemory'
    BY <2>1, <2>2, <2>3, <2>6 DEF CurrentPidRuns, OwnMemory, SwitchMemory, CurrentPid
  <2>15. ResumePointsValid'
    <3>1. \A p, q \in Pids : Waits(p, q)' => esp'[p] = p
      BY <2>3, <2>7, <2>8 DEF IInv, ResumePointsValid
    <3>2. \A t \in Terms : t # scheduled_term'
            => scheduledEsp'[curr_pid_for_term'[t]] = curr_pid_for_term'[t]
      BY <2>1, <2>3, <2>6 DEF IInv, ResumePointsValid, Started
    <3> QED
      BY <3>1, <3>2 DEF ResumePointsValid
  <2>16. ParentTableAgrees'
    <3>1. \A t \in Terms : parent_pid_for_term'[t] =
            IF t = st THEN me ELSE parent_pid_for_term[t]
      BY <2>2, <2>3 DEF IInv, TypeOK
    <3>2. \A t \in Terms : curr_pid_for_term[t] # new /\ curr_pid_for_term[t] \in Pids
      BY <2>3 DEF IInv, BaseShells, TypeOK
    <3> QED
      BY <2>3, <2>5, <2>6, <3>1, <3>2 DEF IInv, ParentTableAgrees, Started
  <2> QED
    BY <2>10, <2>11, <2>12, <2>13, <2>14, <2>15, <2>16 DEF IInv
<1> QED
  BY <1>1, <1>2 DEF Execute, ExecuteImage

(* A process ends: its caller, which waited for it alone, is current in    *)
(* its place and resumed on its own stack.                                 *)
LEMMA HaltStep ==
  ASSUME IInv, TypeOK', NEW status \in Statuses, HaltProcess(status)
  PROVE  IInv'
<1> DEFINE st == scheduled_term
           me == CurrentPid
           caller == parent_pid_for_term[st]
<1>1. /\ pcb_arr' = [pcb_arr EXCEPT ![me] = 0]
      /\ curr_pid_for_term' = [curr_pid_for_term EXCEPT ![st] = caller]
      /\ parent_pid_for_term' = [parent_pid_for_term EXCEPT ![st] = parent[caller]]
      /\ SwitchMemory(caller)
      /\ running' = esp[caller]
      /\ esp' = [WithoutStack(esp, me) EXCEPT ![caller] = Stale]
      /\ scheduledEsp' = WithoutStack(scheduledEsp, me)
      /\ UNCHANGED <<scheduled_term, currentTerminal, terminalInstantiated,
                     doneInstantiating, parent>>
      /\ Booted /\ me \notin BasePids
  BY DEF HaltProcess, Released, ParentAfterHalt, InUserProgram, boot, Booted
<1>2. Started(st)
  BY <1>1 DEF IInv, TypeOK, BootOrder, Started, BaseShells, CurrentPid, BasePids
<1>3. /\ st \in Terms /\ me \in Pids /\ me = curr_pid_for_term[st]
      /\ Live(me) /\ caller = parent[me] /\ caller \in Pids
      /\ Live(caller) /\ caller # me /\ Waits(caller, me)
      /\ me \notin Terms
  <2>1. st \in Terms /\ me = curr_pid_for_term[st] /\ me \in Pids /\ caller \in Pids
    BY DEF IInv, TypeOK, CurrentPid
  <2>2. Live(me) /\ caller = parent[me] /\ me \notin Terms
    BY <1>1, <1>2, <2>1 DEF IInv, BaseShells, ParentTableAgrees, Started, BasePids
  <2>3. Live(caller) /\ caller # me
    BY <1>1, <2>1, <2>2 DEF IInv, CallersWait
  <2> QED
    BY <1>1, <2>1, <2>2, <2>3 DEF Waits
<1>4. esp[caller] = caller
  BY <1>3 DEF IInv, ResumePointsValid
<1>5. \A p \in Pids : ~Waits(me, p) /\ (Waits(caller, p) => p = me)
  BY <1>2, <1>3 DEF IInv, CurrentsLead, CallersWait
<1>6. \A p \in Pids : Live(p)' <=> Live(p) /\ p # me
  BY <1>1, <1>3 DEF IInv, TypeOK, Live
<1>7. \A p, q \in Pids : Waits(p, q)' <=> Waits(p, q) /\ q # me
  BY <1>1, <1>6 DEF Waits
<1>8. \A t \in Terms :
        curr_pid_for_term'[t] = IF t = st THEN caller ELSE curr_pid_for_term[t]
  BY <1>1, <1>3 DEF IInv, TypeOK
<1>9. \A t \in Terms : Started(t)' <=> Started(t)
  BY <1>1 DEF Started
<1>10. \A t \in Terms : t # st => /\ curr_pid_for_term[t] # me
                                  /\ curr_pid_for_term[t] # caller
  <2>1. \A t \in Terms : t # st => curr_pid_for_term[t] # me
    BY <1>3 DEF IInv, CurrentsLead
  <2>2. ASSUME NEW t \in Terms, t # st PROVE curr_pid_for_term[t] # caller
    <3>1. CASE Started(t)
      BY <1>3, <3>1 DEF IInv, CurrentsLead
    <3>2. CASE ~Started(t)
      BY <1>3, <3>2 DEF IInv, BaseShells
    <3> QED
      BY <3>1, <3>2
  <2> QED
    BY <2>1, <2>2
<1>11. BootOrder'
  BY <1>1, <1>6, <1>9 DEF IInv, BootOrder, Booted
<1>12. BaseShells'
  <2>1. \A t \in Terms : parent_pid_for_term'[t] =
          IF t = st THEN parent[caller] ELSE parent_pid_for_term[t]
    BY <1>1, <1>3 DEF IInv, TypeOK
  <2> QED
    BY <1>1, <1>2, <1>3, <1>6, <1>8, <1>9, <1>10, <2>1, BasePidsArePids
    DEF IInv, TypeOK, BaseShells
<1>13. CallersWait'
  <2>1. \A p \in Pids : (Live(p) /\ p \notin BasePids => Live(parent[p]) /\ parent[p] # p)'
    <3>1. \A p \in Pids : Live(p) /\ p \notin BasePids => Waits(parent[p], p)
      BY DEF Waits
    <3> QED
      BY <1>1, <1>5, <1>6, <3>1 DEF IInv, TypeOK, CallersWait
  <2>2. \A p, q, r \in Pids : (Waits(r, p) /\ Waits(r, q) => p = q)'
    BY <1>7 DEF IInv, CallersWait
  <2> QED
    BY <2>1, <2>2 DEF CallersWait
<1>14. CurrentsLead'
  <2>1. \A t, u \in Terms :
          curr_pid_for_term'[t] = curr_pid_for_term'[u] => t = u
    BY <1>8, <1>10 DEF IInv, CurrentsLead
  <2>2. \A t \in Terms, q \in Pids : (Started(t) => ~Waits(curr_pid_for_term[t], q))'
    <3>1. \A t \in Terms : curr_pid_for_term[t] \in Pids
      BY DEF IInv, TypeOK
    <3>2. \A p, q \in Pids : p = caller => ~(Waits(p, q)')
      BY <1>5, <1>7
    <3>3. \A t \in Terms, q \in Pids :
            Started(t) => ~Waits(curr_pid_for_term[t], q)
      BY DEF IInv, CurrentsLead
    <3>4. ASSUME NEW t \in Terms, NEW q \in Pids, Started(t)'
          PROVE  ~Waits(curr_pid_for_term[t], q)'
      <4>1. CASE t = st
        BY <1>3, <1>8, <3>2, <4>1 DEF Waits
      <4>2. CASE t # st
        <5>1. curr_pid_for_term'[t] = curr_pid_for_term[t]
          BY <1>8, <4>2
        <5>2. ~Waits(curr_pid_for_term[t], q)
          BY <1>9, <3>3, <3>4
        <5> QED
          BY <1>1, <1>6, <5>1, <5>2 DEF Waits
      <4> QED
        BY <4>1, <4>2
    <3> QED
      BY <3>4
  <2>3. \A p \in Pids : Live(p)' => \/ \E t \in Terms : curr_pid_for_term'[t] = p
                                    \/ \E q \in Pids : Waits(p, q)'
    <3>1. ASSUME NEW p \in Pids, Live(p)', p # caller
          PROVE  \/ \E t \in Terms : curr_pid_for_term'[t] = p
                 \/ \E q \in Pids : Waits(p, q)'
      <4>1. CASE \E t \in Terms : curr_pid_for_term[t] = p
        BY <1>3, <1>6, <1>8, <3>1, <4>1
      <4>2. CASE \E q \in Pids : Waits(p, q)
        <5>1. Waits(p, me) => p = caller
          BY <1>3 DEF Waits
        <5> QED
          BY <1>7, <3>1, <4>2, <5>1
      <4> QED
        BY <1>6, <3>1, <4>1, <4>2 DEF IInv, CurrentsLead
    <3> QED
      BY <1>3, <1>8, <3>1
  <2> QED
    BY <2>1, <2>2, <2>3 DEF CurrentsLead
<1>15. CurrentPidRuns' /\ OwnMemory'
  BY <1>1, <1>3, <1>4, <1>8 DEF CurrentPidRuns, OwnMemory, SwitchMemory, CurrentPid
<1>16. ResumePointsValid'
  <2>1. \A p \in Pids : esp'[p] =
          IF p = caller \/ esp[p] = me THEN Stale ELSE esp[p]
    BY <1>1, <1>3 DEF WithoutStack
  <2>2. \A p, q \in Pids : Waits(p, q)' => esp'[p] = p
    BY <1>3, <1>5, <1>7, <2>1 DEF IInv, ResumePointsValid
  <2>3. ASSUME NEW t \in Terms, Started(t)', t # scheduled_term'
        PROVE  scheduledEsp'[curr_pid_for_term'[t]] = curr_pid_for_term'[t]
    <3>1. /\ curr_pid_for_term'[t] = curr_pid_for_term[t]
          /\ curr_pid_for_term[t] \in Pids /\ curr_pid_for_term[t] # me
          /\ scheduledEsp[curr_pid_for_term[t]] = curr_pid_for_term[t]
      BY <1>1, <1>8, <1>9, <1>10, <2>3
      DEF IInv, TypeOK, ResumePointsValid, Started
    <3> QED
      BY <1>1, <3>1 DEF WithoutStack
  <2> QED
    BY <2>2, <2>3 DEF ResumePointsValid, Started
<1>17. ParentTableAgrees'
  <2>1. \A t \in Terms : parent_pid_for_term'[t] =
          IF t = st THEN parent[caller] ELSE parent_pid_for_term[t]
    BY <1>1, <1>3 DEF IInv, TypeOK
  <2> QED
    BY <1>1, <1>8, <1>9, <2>1 DEF IInv, ParentTableAgrees, Started
<1> QED
  BY <1>11, <1>12, <1>13, <1>14, <1>15, <1>16, <1>17 DEF IInv

-----------------------------------------------------------------------------
(* execute of the next base shell, at boot or by the timer: the lowest free *)
(* control block is the one that has the number of its terminal.           *)
LEMMA BaseShellEffect ==
  ASSUME IInv, NEW term \in Terms,
         \A t \in Terms : Started(t) <=> t < term,
         ExecuteImage("executable", term)
  PROVE  /\ ~Started(term) /\ term \in Pids /\ ~Live(term)
         /\ curr_pid_for_term[term] = term /\ parent_pid_for_term[term] = term
         /\ curr_pid_for_term' = curr_pid_for_term
         /\ parent_pid_for_term' = parent_pid_for_term
         /\ parent' = [parent EXCEPT ![term] = term]
         /\ esp' = esp /\ running' = term /\ user_page' = term /\ tss_esp0' = term
         /\ eax' = NoReturn
         /\ \A p \in Pids : Live(p)' <=> Live(p) \/ p = term
<1>1. /\ ~Started(term) /\ term \in Pids /\ ~Live(term) /\ term \in FreePcbs
      /\ curr_pid_for_term[term] = term /\ parent_pid_for_term[term] = term
  BY BasePidsArePids DEF IInv, TypeOK, BaseShells, FreePcbs, Live, Terms
<1>2. Spawn(term)
  BY <1>1 DEF ExecuteImage
<1>3. PICK new \in FreePcbs :
        /\ \A p \in FreePcbs : new <= p
        /\ pcb_arr' = [pcb_arr EXCEPT ![new] = 1]
        /\ parent_pid_for_term' =
             [parent_pid_for_term EXCEPT ![term] = curr_pid_for_term[term]]
        /\ curr_pid_for_term' = [curr_pid_for_term EXCEPT ![term] = new]
        /\ parent' = [parent EXCEPT ![new] = ParentOf(new, term)]
        /\ esp' = SaveForHalt(new, term)
        /\ SwitchMemory(new)
        /\ running' = new
        /\ eax' = NoReturn
  BY <1>2 DEF Spawn
<1>4. new = term
  <2>1. new \in Pids /\ new <= term /\ ~Live(new)
    BY <1>1, <1>3 DEF FreePcbs, Live
  <2>2. new < term => new \in Terms /\ Started(new)
    BY <2>1, NumTermsAssumption, MaxPcbAssumption DEF Pids, Terms
  <2>3. ~(new < term)
    BY <2>1, <2>2 DEF IInv, BaseShells
  <2> QED
    BY <2>1, <2>3, NumTermsAssumption, MaxPcbAssumption DEF Pids, Terms
<1>5. /\ curr_pid_for_term' = curr_pid_for_term
      /\ parent_pid_for_term' = parent_pid_for_term
      /\ esp' = esp /\ running' = term /\ user_page' = term /\ tss_esp0' = term
      /\ parent' = [parent EXCEPT ![term] = term]
  BY <1>1, <1>3, <1>4
  DEF IInv, TypeOK, SaveForHalt, ParentOf, SwitchMemory, BasePids
<1>6. \A p \in Pids : Live(p)' <=> Live(p) \/ p = term
  BY <1>1, <1>3, <1>4 DEF IInv, TypeOK, Live
<1> QED
  BY <1>1, <1>3, <1>5, <1>6

LEMMA BaseShellStep ==
  ASSUME IInv, TypeOK', NEW term \in Terms,
         doneInstantiating = 0, UNCHANGED doneInstantiating,
         \A t \in Terms : Started(t) <=> t < term,
         scheduled_term' = term,
         terminalInstantiated' = [terminalInstantiated EXCEPT ![term] = 1],
         ExecuteImage("executable", term),
         \A t \in Terms : Started(t) =>
           scheduledEsp'[curr_pid_for_term[t]] = curr_pid_for_term[t]
  PROVE  IInv'
<1>1. /\ ~Started(term) /\ term \in Pids /\ ~Live(term)
      /\ curr_pid_for_term[term] = term /\ parent_pid_for_term[term] = term
  BY BaseShellEffect
<1>5. /\ curr_pid_for_term' = curr_pid_for_term
      /\ parent_pid_for_term' = parent_pid_for_term
      /\ esp' = esp /\ running' = term /\ user_page' = term /\ tss_esp0' = term
      /\ parent' = [parent EXCEPT ![term] = term]
  BY BaseShellEffect
<1>6. \A p \in Pids : Live(p)' <=> Live(p) \/ p = term
  BY BaseShellEffect
<1>7. \A t \in Terms : Started(t)' <=> t <= term
  BY NumTermsAssumption DEF IInv, TypeOK, Started, Terms
<1>8. \A p, q \in Pids : ~Waits(p, q) /\ ~Waits(p, q)'
  BY <1>6 DEF IInv, BootOrder, Waits, BasePids
<1>9. BootOrder'
  <2>1. Started(0)'
    BY <1>7, NumTermsAssumption DEF Terms
  <2> QED
    BY <1>6, <1>7, <2>1 DEF IInv, BootOrder, Booted, Started, BasePids
<1>10. BaseShells'
  <2>1. \A t \in Terms : parent'[t] = IF t = term THEN term ELSE parent[t]
    BY <1>5, BasePidsArePids DEF IInv, TypeOK
  <2>2. \A t \in Terms : Started(t)' <=> Started(t) \/ t = term
    BY <1>7, NumTermsAssumption DEF Terms
  <2>3. ASSUME NEW t \in Terms, ~Started(t)'
        PROVE  (/\ curr_pid_for_term[t] = t
                /\ parent_pid_for_term[t] = t
                /\ ~Live(t))'
    BY <1>5, <1>6, <2>2, <2>3, BasePidsArePids DEF IInv, BaseShells
  <2>4. ASSUME NEW t \in Terms, Started(t)'
        PROVE  (Live(t) /\ parent[t] = t /\ Live(curr_pid_for_term[t]))'
    <3>1. CASE t = term
      BY <1>1, <1>5, <1>6, <2>1, <3>1
    <3>2. CASE t # term
      BY <1>5, <1>6, <2>1, <2>2, <2>4, <3>2, BasePidsArePids
      DEF IInv, BaseShells, TypeOK
    <3> QED
      BY <3>1, <3>2
  <2> QED
    BY <2>3, <2>4 DEF BaseShells
<1>11. CallersWait'
  BY <1>6, <1>8 DEF IInv, BootOrder, CallersWait, BasePids
<1>12. CurrentsLead'
  <2>1. \A t \in Terms : curr_pid_for_term'[t] \in Pids
    BY DEF TypeOK
  <2>2. \A p \in Pids : Live(p)' => \E t \in Terms : curr_pid_for_term'[t] = p
    BY <1>1, <1>5, <1>6, <1>8 DEF IInv, CurrentsLead
  <2> QED
    BY <1>5, <1>8, <2>1, <2>2 DEF IInv, CurrentsLead, Waits
<1>13. CurrentPidRuns' /\ OwnMemory'
  BY <1>1, <1>5 DEF CurrentPidRuns, OwnMemory, CurrentPid
<1>14. ResumePointsValid'
  BY <1>5, <1>7, <1>8, NumTermsAssumption
  DEF IInv, ResumePointsValid, Started, Terms
<1>15. ParentTableAgrees'
  <2>1. \A t \in Terms : t # term => parent'[curr_pid_for_term[t]] = parent[curr_pid_for_term[t]]
    BY <1>1, <1>5 DEF IInv, TypeOK, CurrentsLead
  <2>2. \A t \in Terms : Started(t)' <=> Started(t) \/ t = term
    BY <1>7, NumTermsAssumption DEF Terms
  <2>3. parent'[term] = term
    BY <1>1, <1>5 DEF IInv, TypeOK
  <2> QED
    BY <1>1, <1>5, <2>1, <2>2, <2>3 DEF IInv, ParentTableAgrees, Started
<1> QED
  BY <1>9, <1>10, <1>11, <1>12, <1>13, <1>14, <1>15 DEF IInv

(* The last lines of entry() execute the base shell of terminal 0. *)
LEMMA KernelEntryFacts ==
  ASSUME IInv, KernelEntry
  PROVE  /\ 0 \in Terms /\ Visible = 0 /\ doneInstantiating = 0
         /\ scheduled_term' = 0 /\ scheduled_term = 0
         /\ \A t \in Terms : Started(t) <=> t < 0
<1>1. /\ 0 \in Terms /\ Visible = 0 /\ doneInstantiating = 0
      /\ scheduled_term' = 0 /\ scheduled_term = 0
      /\ \A t \in Terms : ~Started(t)
  BY NumTermsAssumption
  DEF KernelEntry, IInv, BootOrder, Booted, Visible, Terms
<1> QED
  BY <1>1 DEF Terms

LEMMA KernelEntryStep ==
  ASSUME IInv, TypeOK', KernelEntry
  PROVE  IInv'
<1>1. /\ UNCHANGED doneInstantiating
      /\ \A t \in Terms : ~Started(t)
  BY KernelEntryFacts DEF KernelEntry, Terms
<1> QED
  BY <1>1, KernelEntryFacts, BaseShellStep DEF KernelEntry

(* The timer executes the base shell of the terminal whose turn comes. *)
LEMMA PitInstantiatesFacts ==
  ASSUME IInv, PitInstantiates
  PROVE  /\ NextTerm(scheduled_term) \in Terms /\ scheduled_term \in Terms
         /\ Booted /\ doneInstantiating = 0
         /\ \A t \in Terms : Started(t) <=> t < NextTerm(scheduled_term)
<1> DEFINE term == NextTerm(scheduled_term)
<1>1. term \in Terms /\ scheduled_term \in Terms /\ Booted /\ ~Started(term)
  BY NextTermFact DEF PitInstantiates, IInv, TypeOK, InUserProgram, Booted, Started
<1>2. doneInstantiating = 0
  BY <1>1 DEF IInv, TypeOK, BootOrder
<1>3. \A t \in Terms : Started(t) <=> t <= scheduled_term
  BY <1>1, <1>2 DEF IInv, BootOrder
<1>4. term = scheduled_term + 1
  BY <1>1, <1>3, NextTermFact, NumTermsAssumption DEF Terms
<1>5. \A t \in Terms : Started(t) <=> t < term
  BY <1>1, <1>3, <1>4 DEF Terms
<1> QED
  BY <1>1, <1>2, <1>5

LEMMA PitInstantiatesStep ==
  ASSUME IInv, TypeOK', PitInstantiates
  PROVE  IInv'
<1>1. ASSUME NEW t \in Terms, Started(t)
      PROVE  scheduledEsp'[curr_pid_for_term[t]] = curr_pid_for_term[t]
  <2>1. scheduledEsp' = [scheduledEsp EXCEPT ![CurrentPid] = running]
    BY DEF PitInstantiates, SaveForPit, CurrentPid
  <2>2. running = CurrentPid /\ CurrentPid \in Pids
    BY PitInstantiatesFacts DEF IInv, CurrentPidRuns, TypeOK, CurrentPid
  <2>3. CASE t = scheduled_term
    BY <2>1, <2>2, <2>3 DEF IInv, TypeOK, CurrentPid
  <2>4. CASE t # scheduled_term
    <3>1. curr_pid_for_term[t] # CurrentPid /\ curr_pid_for_term[t] \in Pids
      BY PitInstantiatesFacts, <2>4 DEF IInv, TypeOK, CurrentsLead, CurrentPid
    <3> QED
      BY <1>1, <2>1, <2>4, <3>1 DEF IInv, TypeOK, ResumePointsValid, Started
  <2> QED
    BY <2>3, <2>4
<1> QED
  BY <1>1, PitInstantiatesFacts, BaseShellStep DEF PitInstantiates

(* The timer switches to the current process of the next terminal, which   *)
(* goes on where the timer found it.                                       *)
LEMMA PitSwitchesStep ==
  ASSUME IInv, TypeOK', PitSwitches
  PROVE  IInv'
<1> DEFINE st == scheduled_term
           term == NextTerm(st)
           next == curr_pid_for_term[term]
           me == CurrentPid
<1>1. /\ st \in Terms /\ term \in Terms /\ Booted /\ Started(term)
      /\ me \in Pids /\ next \in Pids /\ me = curr_pid_for_term[st] /\ running = me
      /\ Started(st)
  <2>1. /\ st \in Terms /\ term \in Terms /\ Booted /\ Started(term)
        /\ me \in Pids /\ next \in Pids /\ me = curr_pid_for_term[st] /\ running = me
    BY NextTermFact DEF PitSwitches, InUserProgram, Booted, Started, IInv, TypeOK,
       CurrentPid, CurrentPidRuns
  <2>2. Started(st)
    BY <2>1 DEF IInv, TypeOK, BootOrder, Terms
  <2> QED
    BY <2>1, <2>2
<1>2. /\ UNCHANGED <<tables, terminalInstantiated, esp>>
      /\ scheduled_term' = term /\ doneInstantiating' = 1
      /\ SwitchMemory(next)
      /\ running' = SaveForPit(st)[next]
      /\ scheduledEsp' = [SaveForPit(st) EXCEPT ![next] = Stale]
  BY DEF PitSwitches
<1>3. /\ \A p \in Pids : Live(p)' <=> Live(p)
      /\ \A p, q \in Pids : Waits(p, q)' <=> Waits(p, q)
      /\ \A t \in Terms : Started(t)' <=> Started(t)
      /\ \A t \in Terms : curr_pid_for_term'[t] = curr_pid_for_term[t]
      /\ Booted'
  BY <1>1, <1>2 DEF tables, Live, Waits, Started, Booted
<1>4. running' = next
  <2>1. CASE term = st
    BY <1>1, <1>2, <2>1 DEF SaveForPit, IInv, TypeOK
  <2>2. CASE term # st
    <3>1. next # me /\ scheduledEsp[next] = next
      BY <1>1, <2>2 DEF IInv, CurrentsLead, ResumePointsValid, Started
    <3> QED
      BY <1>1, <1>2, <3>1 DEF SaveForPit, IInv, TypeOK
  <2> QED
    BY <2>1, <2>2
<1>5. \A t \in Terms : Started(t)
  <2>1. CASE doneInstantiating = 1
    BY <2>1 DEF IInv, BootOrder
  <2>2. CASE doneInstantiating = 0
    <3>1. \A t \in Terms : Started(t) <=> t <= st
      BY <1>1, <2>2 DEF IInv, BootOrder
    <3>2. st + 1 = NUM_TERMS
      BY <1>1, <3>1, NextTermFact, NumTermsAssumption DEF Terms
    <3> QED
      BY <1>1, <3>1, <3>2, NumTermsAssumption DEF Terms
  <2> QED
    BY <2>1, <2>2 DEF IInv, TypeOK
<1>6. BootOrder'
  BY <1>2, <1>3, <1>5 DEF BootOrder, Booted
<1>7. BaseShells'
  BY <1>2, <1>3, BasePidsArePids DEF IInv, BaseShells, tables, Live, Started
<1>8. CallersWait'
  BY <1>2 DEF IInv, CallersWait, tables, Live, Waits
<1>9. CurrentsLead'
  BY <1>2 DEF IInv, CurrentsLead, tables, Live, Waits, Started
<1>10. CurrentPidRuns' /\ OwnMemory'
  BY <1>1, <1>2, <1>3, <1>4 DEF CurrentPidRuns, OwnMemory, SwitchMemory, CurrentPid
<1>11. ResumePointsValid'
  <2>1. \A p, q \in Pids : Waits(p, q)' => esp'[p] = p
    BY <1>2, <1>3 DEF IInv, ResumePointsValid
  <2>2. ASSUME NEW t \in Terms, t # term
        PROVE  scheduledEsp'[curr_pid_for_term[t]] = curr_pid_for_term[t]
    <3>1. curr_pid_for_term[t] # next /\ curr_pid_for_term[t] \in Pids
      BY <1>1, <2>2 DEF IInv, TypeOK, CurrentsLead
    <3>2. CASE t = st
      BY <1>1, <1>2, <3>1, <3>2 DEF SaveForPit, IInv, TypeOK
    <3>3. CASE t # st
      <4>1. /\ curr_pid_for_term[t] # me
            /\ scheduledEsp[curr_pid_for_term[t]] = curr_pid_for_term[t]
        BY <1>1, <1>5, <3>3 DEF IInv, CurrentsLead, ResumePointsValid, Started
      <4> QED
        BY <1>1, <1>2, <3>1, <4>1 DEF SaveForPit, IInv, TypeOK
    <3> QED
      BY <3>2, <3>3
  <2> QED
    BY <1>2, <1>3, <2>1, <2>2 DEF ResumePointsValid
<1>12. ParentTableAgrees'
  BY <1>2 DEF IInv, ParentTableAgrees, tables
<1> QED
  BY <1>6, <1>7, <1>8, <1>9, <1>10, <1>11, <1>12 DEF IInv

-----------------------------------------------------------------------------
(* IInv is an invariant: boot order, session structure, and what the       *)
(* processor and the saved stack pointers refer to, for any number of      *)
(* terminals and control blocks.                                           *)
THEOREM Invariance ==
  ASSUME Disciplined
  PROVE  Spec => []IInv
<1>1. Init => IInv
  <2> SUFFICES ASSUME Init PROVE IInv
    OBVIOUS
  <2>1. TypeOK
    BY NumTermsAssumption, MaxPcbAssumption
    DEF Init, TypeOK, Terms, Pids, Contexts
  <2>2. 0 \in Terms /\ 0 \in Pids /\ Terms \subseteq Pids
    BY NumTermsAssumption, MaxPcbAssumption DEF Terms, Pids
  <2>3. \A p \in Pids : ~Live(p)
    BY DEF Init, Live
  <2>4. \A t \in Terms : ~Started(t) /\ curr_pid_for_term[t] = t /\ parent_pid_for_term[t] = t
    BY DEF Init, Started
  <2> QED
    BY <2>1, <2>2, <2>3, <2>4
    DEF Init, IInv, BootOrder, BaseShells, CallersWait, CurrentsLead, Booted,
        CurrentPidRuns, OwnMemory, ResumePointsValid, ParentTableAgrees, Waits, Started
<1>2. IInv /\ [Next]_vars => IInv'
  <2> SUFFICES ASSUME IInv, [Next]_vars PROVE IInv'
    OBVIOUS
  <2>1. TypeOK'
    BY TypeStep DEF IInv
  <2>2. ASSUME UNCHANGED <<tables, scheduled_term, boot, esp, scheduledEsp,
                           memory, running>>,
               currentTerminal' = currentTerminal \/ Booted
        PROVE  IInv'
    BY <2>1, <2>2
    DEF IInv, BootOrder, BaseShells, CallersWait, CurrentsLead, CurrentPidRuns,
        OwnMemory, ResumePointsValid, ParentTableAgrees, tables, boot, memory,
        Live, Waits, Started, Booted, CurrentPid
  <2>3. CASE KernelEntry
    BY <2>1, <2>3, KernelEntryStep
  <2>4. ASSUME NEW image \in Images, Execute(image) PROVE IInv'
    BY <2>1, <2>4, ExecuteStep
  <2>5. CASE HaltBaseShell
    <3>1. running' = running
      BY <2>5 DEF HaltBaseShell, InUserProgram, IInv, OwnMemory, Booted
    <3> QED
      BY <2>2, <2>5, <3>1 DEF HaltBaseShell
  <2>6. ASSUME NEW status \in Statuses, HaltProcess(status) PROVE IInv'
    BY <2>1, <2>6, HaltStep
  <2>7. CASE PitInstantiates
    BY <2>1, <2>7, PitInstantiatesStep
  <2>8. CASE PitSwitches
    BY <2>1, <2>8, PitSwitchesStep
  <2>9. ASSUME NEW term \in 1 .. NUM_TERMS, SwitchTerminal(term) PROVE IInv'
    BY <2>2, <2>9 DEF SwitchTerminal, InUserProgram, Booted
  <2>10. CASE UNCHANGED vars
    BY <2>2, <2>10 DEF vars
  <2> QED
    BY <2>3, <2>4, <2>5, <2>6, <2>7, <2>8, <2>9, <2>10 DEF Next, PitHandler
<1> QED
  BY <1>1, <1>2, PTL DEF Spec

(* curr_pid_for_term names the process the processor runs; a running       *)
(* program has its own page and kernel stack; halt and pit_handler resume  *)
(* a process where it was left; and the two tables agree with the PCBs.    *)
THEOREM SafeSwitching ==
  ASSUME Disciplined
  PROVE  Spec => [](/\ CurrentPidRuns
                    /\ OwnMemory
                    /\ ResumePointsValid
                    /\ ParentTableAgrees)
<1> QED
  BY Invariance, PTL DEF IInv

(* Every live process is current in exactly one terminal, or waits for     *)
(* exactly one child: execute and halt build one list per terminal.        *)
THEOREM OneResumerInvariant ==
  ASSUME Disciplined
  PROVE  Spec => []OneResumer
<1>1. IInv => OneResumer
  <2> SUFFICES ASSUME IInv, NEW p \in Pids, Live(p)
               PROVE  \/ /\ \E t \in Terms : curr_pid_for_term[t] = p
                         /\ \A t, u \in Terms :
                              curr_pid_for_term[t] = p /\ curr_pid_for_term[u] = p => t = u
                         /\ \A q \in Pids : ~Waits(p, q)
                      \/ /\ \A t \in Terms : curr_pid_for_term[t] # p
                         /\ \E q \in Pids :
                              Waits(p, q) /\ \A r \in Pids : Waits(p, r) => r = q
    BY DEF OneResumer
  <2>1. CASE \E t \in Terms : curr_pid_for_term[t] = p
    <3>1. PICK t \in Terms : curr_pid_for_term[t] = p
      BY <2>1
    <3>2. Started(t)
      BY <3>1 DEF IInv, BaseShells
    <3> QED
      BY <3>1, <3>2 DEF IInv, CurrentsLead
  <2>2. CASE \A t \in Terms : curr_pid_for_term[t] # p
    BY <2>2 DEF IInv, CurrentsLead, CallersWait
  <2> QED
    BY <2>1, <2>2
<1> QED
  BY Invariance, <1>1, PTL

-----------------------------------------------------------------------------
(* One step of the processes is one step of the sessions, or none. *)
LEMMA SessionsStep ==
  ASSUME Disciplined, IInv, IInv', [Next]_vars
  PROVE  [S!Next]_S!sessionVars
<1> USE DEF S!sessionVars
<1> DEFINE alive == {p \in Pids : Live(p)}
<1>1. CASE KernelEntry
  <2>1. /\ 0 \in Terms /\ 0 \in Pids /\ ~Live(0)
        /\ curr_pid_for_term[0] = 0 /\ UNCHANGED curr_pid_for_term
        /\ parent' = [parent EXCEPT ![0] = 0]
        /\ scheduled_term' = 0 /\ running' = 0 /\ eax' = NoReturn
        /\ ended' = NoReturn
        /\ \A p \in Pids : Live(p)' <=> Live(p) \/ p = 0
    BY <1>1, KernelEntryFacts, BaseShellEffect DEF KernelEntry
  <2>2. alive' = alive \cup {0}
    BY <2>1
  <2>3. S!StartTerminal(0)
    BY <2>1, <2>2 DEF S!StartTerminal, S!ReturnsNothing
  <2> QED
    BY <2>1, <2>3 DEF S!Next
<1>2. ASSUME NEW image \in Images, Execute(image) PROVE S!Next
  <2>1. CASE /\ UNCHANGED <<tables, esp, memory, running>>
             /\ eax' = -1 \/ (FreePcbs = {} /\ eax' = 0)
    <3>1. eax' = 0 => alive = Pids
      BY <2>1 DEF IInv, TypeOK, FreePcbs, Live
    <3>2. S!ExecFails
      BY <1>2, <2>1, <3>1 DEF S!ExecFails, Execute, tables, Live
    <3> QED
      BY <3>2 DEF S!Next
  <2>2. CASE Spawn(Visible)
    <3>1. /\ Visible = scheduled_term /\ doneInstantiating = 1 /\ Booted
          /\ UNCHANGED scheduled_term /\ ended' = NoReturn
      BY <1>2 DEF Execute, Disciplined, InUserProgram, Booted
    <3>2. PICK new \in FreePcbs :
            /\ pcb_arr' = [pcb_arr EXCEPT ![new] = 1]
            /\ curr_pid_for_term' = [curr_pid_for_term EXCEPT ![scheduled_term] = new]
            /\ parent' = [parent EXCEPT ![new] = ParentOf(new, scheduled_term)]
            /\ running' = new
            /\ eax' = NoReturn
      BY <2>2, <3>1 DEF Spawn
    <3>3. /\ new \in Pids /\ new \notin Terms /\ ~Live(new)
          /\ running = curr_pid_for_term[scheduled_term]
      BY <3>1 DEF IInv, BootOrder, BaseShells, CurrentPidRuns, CurrentPid,
         FreePcbs, Live
    <3>4. alive' = alive \cup {new}
      BY <3>2, <3>3 DEF IInv, TypeOK, Live
    <3>5. S!Exec(new)
      BY <3>1, <3>2, <3>3, <3>4 DEF S!Exec, S!ReturnsNothing, ParentOf, BasePids
    <3> QED
      BY <3>3, <3>5 DEF S!Next
  <2> QED
    BY <1>2, <2>1, <2>2 DEF Execute, ExecuteImage
<1>3. CASE HaltBaseShell
  <2>1. running' = running
    BY <1>3 DEF HaltBaseShell, InUserProgram, IInv, OwnMemory, Booted
  <2>2. S!Elsewhere
    BY <1>3, <2>1 DEF HaltBaseShell, S!Elsewhere, S!ReturnsNothing, tables, Live
  <2> QED
    BY <2>2 DEF S!Next
<1>4. ASSUME NEW status \in Statuses, HaltProcess(status) PROVE S!Next
  <2> DEFINE st == scheduled_term
             me == CurrentPid
  <2>1. /\ Booted /\ me \notin Terms /\ UNCHANGED <<parent, scheduled_term>>
        /\ pcb_arr' = [pcb_arr EXCEPT ![me] = 0]
        /\ curr_pid_for_term' =
             [curr_pid_for_term EXCEPT ![st] = parent_pid_for_term[st]]
        /\ eax' = StatusReturned(status)
        /\ terminalInstantiated' = terminalInstantiated
    BY <1>4 DEF HaltProcess, Released, InUserProgram, boot, Booted, BasePids
  <2>2. /\ st \in Terms /\ me \in Pids /\ me = curr_pid_for_term[st]
        /\ running = me
    BY <2>1 DEF IInv, TypeOK, CurrentPid, CurrentPidRuns
  <2>3. Started(st) /\ parent_pid_for_term[st] = parent[me]
    BY <2>1, <2>2 DEF IInv, BaseShells, ParentTableAgrees, Started
  <2>4. running' = parent[me]
    BY <2>1, <2>2, <2>3 DEF IInv, TypeOK, CurrentPidRuns, CurrentPid, Booted
  <2>5. alive' = alive \ {me}
    BY <2>1, <2>2 DEF IInv, TypeOK, Live
  <2>6. /\ ended' = status /\ status \in Statuses
        /\ eax' = IF status = 255 THEN 256 ELSE status
    BY <1>4, <2>1 DEF HaltProcess, StatusReturned
  <2>7. S!Exit
    BY <2>1, <2>2, <2>3, <2>4, <2>5, <2>6 DEF S!Exit
  <2> QED
    BY <2>7 DEF S!Next
<1>5. CASE PitInstantiates
  <2> DEFINE term == NextTerm(scheduled_term)
  <2>1. /\ term \in Terms /\ term \in Pids /\ ~Live(term)
        /\ curr_pid_for_term[term] = term /\ UNCHANGED curr_pid_for_term
        /\ parent' = [parent EXCEPT ![term] = term]
        /\ scheduled_term' = term /\ running' = term /\ eax' = NoReturn
        /\ ended' = NoReturn
        /\ \A p \in Pids : Live(p)' <=> Live(p) \/ p = term
    BY <1>5, PitInstantiatesFacts, BaseShellEffect DEF PitInstantiates
  <2>2. alive' = alive \cup {term}
    BY <2>1
  <2>3. S!StartTerminal(term)
    BY <2>1, <2>2 DEF S!StartTerminal, S!ReturnsNothing
  <2> QED
    BY <2>1, <2>3 DEF S!Next
<1>6. CASE PitSwitches
  <2> DEFINE term == NextTerm(scheduled_term)
  <2>1. /\ term \in Terms /\ Started(term) /\ scheduled_term' = term
        /\ UNCHANGED tables /\ eax' = NoReturn /\ Booted'
        /\ ended' = NoReturn
    BY <1>6, NextTermFact
    DEF PitSwitches, IInv, TypeOK, Started, InUserProgram, Booted
  <2>2. curr_pid_for_term[term] \in Pids /\ Live(curr_pid_for_term[term])
    BY <2>1 DEF IInv, TypeOK, BaseShells
  <2>3. running' = curr_pid_for_term[term]
    BY <2>1 DEF IInv, CurrentPidRuns, CurrentPid, tables
  <2>4. S!GiveTurn(term)
    BY <2>1, <2>2, <2>3 DEF S!GiveTurn, S!ReturnsNothing, tables, Live
  <2> QED
    BY <2>1, <2>4 DEF S!Next
<1>7. ASSUME NEW term \in 1 .. NUM_TERMS, SwitchTerminal(term) PROVE S!Next
  <2>1. S!Elsewhere
    BY <1>7 DEF SwitchTerminal, S!Elsewhere, S!ReturnsNothing, tables, Live
  <2> QED
    BY <2>1 DEF S!Next
<1>8. CASE UNCHANGED vars
  BY <1>8 DEF vars, tables, Live
<1> QED
  BY <1>1, <1>2, <1>3, <1>4, <1>5, <1>6, <1>7, <1>8 DEF Next, PitHandler

(* execute, halt and pit_handler implement Sessions: what a terminal's     *)
(* programs see does not depend on the other terminals, the timer, or the  *)
(* terminal the user looks at.                                             *)
THEOREM Refinement ==
  ASSUME Disciplined
  PROVE  Spec => ImplementsSessions
<1>1. Init => S!Init
  BY NumTermsAssumption, MaxPcbAssumption
  DEF Init, S!Init, Live, Pids, Terms
<1>2. IInv /\ IInv' /\ [Next]_vars => [S!Next]_S!sessionVars
  BY SessionsStep
<1> QED
  BY <1>1, <1>2, Invariance, PTL DEF Spec, ImplementsSessions, S!Spec

-----------------------------------------------------------------------------
(* The control blocks in use, as one chain of processes per terminal. *)

(* c[t][0] .. c[t][n[t]] are the processes of terminal t: its base shell,  *)
(* each process that one of them executed, and its current process.  They  *)
(* are live, no process is in two places, and every live process is one.   *)
AreChains(c, n) ==
    /\ c \in [Terms -> [Nat -> Pids]] /\ n \in [Terms -> Nat]
    /\ \A t \in Terms : Live(t) =>
          /\ c[t][0] = t
          /\ c[t][n[t]] = curr_pid_for_term[t]
          /\ \A i \in 0 .. n[t] : Live(c[t][i])
          /\ \A i \in 1 .. n[t] : c[t][i] \notin BasePids /\ parent[c[t][i]] = c[t][i - 1]
    /\ \A t, u \in Terms : Live(t) /\ Live(u) =>
          \A i \in 0 .. n[t], j \in 0 .. n[u] : c[t][i] = c[u][j] => t = u /\ i = j
    /\ \A p \in Pids : Live(p) =>
          \E t \in Terms : Live(t) /\ \E i \in 0 .. n[t] : c[t][i] = p

SessionsAreChains == \E c, n : AreChains(c, n)

(* What does not touch the tables leaves the chains as they are. *)
LEMMA ChainsKept ==
  ASSUME SessionsAreChains, UNCHANGED <<curr_pid_for_term, parent>>,
         \A p \in Pids : Live(p)' <=> Live(p)
  PROVE  SessionsAreChains'
<1>1. PICK c, n : AreChains(c, n)
  BY DEF SessionsAreChains
<1>2. \A t \in Terms, i \in Nat : c[t][i] \in Pids /\ t \in Pids
  BY <1>1, BasePidsArePids DEF AreChains
<1>3. \A t \in Terms : n[t] \in Nat /\ (Live(t)' <=> Live(t))
  BY <1>1, <1>2, BasePidsArePids DEF AreChains
<1>4. \A t \in Terms, i \in Nat : Live(c[t][i])' <=> Live(c[t][i])
  BY <1>2
<1>5. AreChains(c, n)'
  BY <1>1, <1>3, <1>4 DEF AreChains
<1> QED
  BY <1>5 DEF SessionsAreChains

(* The chain of a terminal that starts is its base shell. *)
LEMMA ChainsStart ==
  ASSUME SessionsAreChains, TypeOK, NEW t \in Terms, ~Live(t),
         curr_pid_for_term[t] = t, UNCHANGED curr_pid_for_term,
         parent' = [parent EXCEPT ![t] = t],
         \A p \in Pids : Live(p)' <=> Live(p) \/ p = t
  PROVE  SessionsAreChains'
<1>1. PICK c, n : AreChains(c, n)
  BY DEF SessionsAreChains
<1>2. PICK d, m : d = [c EXCEPT ![t] = [i \in Nat |-> t]] /\ m = [n EXCEPT ![t] = 0]
  OBVIOUS
<1>3. t \in Pids /\ \A u \in Terms : u \in Pids
  BY BasePidsArePids
<1>4. /\ d \in [Terms -> [Nat -> Pids]] /\ m \in [Terms -> Nat]
      /\ d[t][0] = t /\ m[t] = 0
      /\ \A u \in Terms : u # t => d[u] = c[u] /\ m[u] = n[u]
  BY <1>1, <1>2, <1>3 DEF AreChains
<1>5. ASSUME NEW u \in Terms, u # t, Live(u)
      PROVE  \A i \in 0 .. n[u] : c[u][i] \in Pids /\ Live(c[u][i]) /\ c[u][i] # t
  <2>1. n[u] \in Nat /\ \A i \in 0 .. n[u] : i \in Nat
    BY <1>1 DEF AreChains
  <2> QED
    BY <1>1, <1>5, <2>1 DEF AreChains
<1>6. ASSUME NEW u \in Terms, Live(u)'
      PROVE  /\ d[u][0] = u
             /\ d[u][m[u]] = curr_pid_for_term'[u]
             /\ \A i \in 0 .. m[u] : Live(d[u][i])'
             /\ \A i \in 1 .. m[u] : /\ d[u][i] \notin BasePids
                                     /\ parent'[d[u][i]] = d[u][i - 1]
  <2>1. CASE u = t
    <3>1. \A i \in 0 .. m[u] : i = 0
      BY <1>4, <2>1
    <3>2. \A i \in 1 .. m[u] : FALSE
      BY <1>4, <2>1
    <3> QED
      BY <1>3, <1>4, <2>1, <3>1, <3>2
  <2>2. CASE u # t
    <3>1. Live(u) /\ d[u] = c[u] /\ m[u] = n[u] /\ n[u] \in Nat
      BY <1>1, <1>3, <1>4, <1>6, <2>2 DEF AreChains
    <3>2. \A i \in 1 .. n[u] : i \in 0 .. n[u]
      BY <3>1
    <3>3. \A i \in 1 .. n[u] : parent'[c[u][i]] = parent[c[u][i]]
      BY <1>5, <2>2, <3>1, <3>2 DEF TypeOK
    <3> QED
      BY <1>1, <1>5, <2>2, <3>1, <3>2, <3>3 DEF AreChains
  <2> QED
    BY <2>1, <2>2
<1>7. ASSUME NEW u \in Terms, NEW v \in Terms, Live(u)', Live(v)',
             NEW i \in 0 .. m[u], NEW j \in 0 .. m[v], d[u][i] = d[v][j]
      PROVE  u = v /\ i = j
  <2>1. CASE u = t /\ v = t
    BY <1>4, <2>1
  <2>2. CASE u = t /\ v # t
    <3>1. d[u][i] = t
      BY <1>4, <2>2
    <3> QED
      BY <1>3, <1>4, <1>5, <1>7, <2>2, <3>1
  <2>3. CASE u # t /\ v = t
    <3>1. d[v][j] = t
      BY <1>4, <2>3
    <3> QED
      BY <1>3, <1>4, <1>5, <1>7, <2>3, <3>1
  <2>4. CASE u # t /\ v # t
    <3>1. Live(u) /\ Live(v) /\ d[u] = c[u] /\ m[u] = n[u] /\ d[v] = c[v] /\ m[v] = n[v]
      BY <1>3, <1>4, <1>7, <2>4
    <3> QED
      BY <1>1, <1>7, <3>1 DEF AreChains
  <2> QED
    BY <2>1, <2>2, <2>3, <2>4
<1>8. ASSUME NEW p \in Pids, Live(p)'
      PROVE  \E u \in Terms : Live(u)' /\ \E i \in 0 .. m[u] : d[u][i] = p
  <2>1. CASE p = t
    <3>1. 0 \in 0 .. m[t] /\ d[t][0] = p /\ Live(t)'
      BY <1>3, <1>4, <2>1
    <3> QED
      BY <3>1
  <2>2. CASE p # t
    <3>1. PICK u \in Terms : Live(u) /\ \E i \in 0 .. n[u] : c[u][i] = p
      BY <1>1, <1>8, <2>2 DEF AreChains
    <3>2. u # t
      BY <3>1
    <3> QED
      BY <1>3, <1>4, <3>1, <3>2
  <2> QED
    BY <2>1, <2>2
<1>9. AreChains(d, m)'
  BY <1>4, <1>6, <1>7, <1>8 DEF AreChains
<1> QED
  BY <1>9 DEF SessionsAreChains

(* A process that is executed comes to the end of its terminal's chain. *)
LEMMA ChainsExec ==
  ASSUME SessionsAreChains, TypeOK, NEW t \in Terms, Live(t),
         NEW p \in Pids, p \notin BasePids, ~Live(p),
         curr_pid_for_term' = [curr_pid_for_term EXCEPT ![t] = p],
         parent' = [parent EXCEPT ![p] = curr_pid_for_term[t]],
         \A q \in Pids : Live(q)' <=> Live(q) \/ q = p
  PROVE  SessionsAreChains'
<1>1. PICK c, n : AreChains(c, n)
  BY DEF SessionsAreChains
<1>2. PICK k \in Nat : k = n[t]
  BY <1>1 DEF AreChains
<1>3. PICK d, m : /\ d = [c EXCEPT ![t] = [@ EXCEPT ![k + 1] = p]]
                  /\ m = [n EXCEPT ![t] = k + 1]
  OBVIOUS
<1>4. \A u \in Terms : u \in Pids /\ u # p /\ (Live(u)' <=> Live(u))
  BY BasePidsArePids DEF BasePids
<1>5. /\ d \in [Terms -> [Nat -> Pids]] /\ m \in [Terms -> Nat]
      /\ m[t] = k + 1 /\ d[t][k + 1] = p
      /\ \A i \in 0 .. k : d[t][i] = c[t][i]
      /\ \A u \in Terms : u # t => d[u] = c[u] /\ m[u] = n[u]
  <2>1. k + 1 \in Nat /\ \A i \in 0 .. k : i \in Nat /\ i # k + 1
    OBVIOUS
  <2>2. c \in [Terms -> [Nat -> Pids]] /\ n \in [Terms -> Nat]
    BY <1>1 DEF AreChains
  <2>3. /\ d[t] = [c[t] EXCEPT ![k + 1] = p] /\ c[t] \in [Nat -> Pids]
        /\ m[t] = k + 1 /\ m \in [Terms -> Nat]
        /\ \A u \in Terms : u # t => d[u] = c[u] /\ m[u] = n[u]
    BY <1>2, <1>3, <2>1, <2>2
  <2>4. d[t] \in [Nat -> Pids]
    BY <2>3
  <2>5. d \in [Terms -> [Nat -> Pids]]
    BY <1>2, <1>3, <2>2, <2>3, <2>4
  <2> QED
    BY <2>1, <2>3, <2>5
<1>6. ASSUME NEW u \in Terms, Live(u)
      PROVE  /\ n[u] \in Nat
             /\ \A i \in 0 .. n[u] :
                   c[u][i] \in Pids /\ Live(c[u][i]) /\ c[u][i] # p
  <2>1. n[u] \in Nat /\ \A i \in 0 .. n[u] : i \in Nat
    BY <1>1 DEF AreChains
  <2> QED
    BY <1>1, <1>6, <2>1 DEF AreChains
<1>7. ASSUME NEW u \in Terms, Live(u)
      PROVE  \A i \in 0 .. m[u] : \/ i \in 0 .. n[u] /\ d[u][i] = c[u][i]
                                  \/ u = t /\ i = k + 1 /\ d[u][i] = p
  <2>1. CASE u = t
    <3>1. \A i \in 0 .. k + 1 : i \in 0 .. k \/ i = k + 1
      OBVIOUS
    <3> QED
      BY <1>2, <1>5, <2>1, <3>1
  <2>2. CASE u # t
    BY <1>5, <2>2
  <2> QED
    BY <2>1, <2>2
<1>8. ASSUME NEW u \in Terms, Live(u)'
      PROVE  /\ d[u][0] = u
             /\ d[u][m[u]] = curr_pid_for_term'[u]
             /\ \A i \in 0 .. m[u] : Live(d[u][i])'
             /\ \A i \in 1 .. m[u] : /\ d[u][i] \notin BasePids
                                     /\ parent'[d[u][i]] = d[u][i - 1]
  <2>1. /\ Live(u) /\ c[u][0] = u /\ c[u][n[u]] = curr_pid_for_term[u]
        /\ n[u] \in Nat
        /\ \A i \in 1 .. n[u] : c[u][i] \notin BasePids /\ parent[c[u][i]] = c[u][i - 1]
    BY <1>1, <1>4, <1>6, <1>8 DEF AreChains
  <2>2. d[u][0] = u
    BY <1>2, <1>5, <2>1
  <2>3. d[u][m[u]] = curr_pid_for_term'[u]
    BY <1>5, <2>1 DEF TypeOK
  <2>4. \A i \in 0 .. m[u] : Live(d[u][i])'
    BY <1>6, <1>7, <2>1
  <2>5. ASSUME NEW i \in 1 .. m[u]
        PROVE  /\ d[u][i] \notin BasePids
               /\ parent'[d[u][i]] = d[u][i - 1]
    <3>1. m[u] \in Nat
      BY <1>5
    <3>2. i \in 0 .. m[u] /\ i - 1 \in 0 .. m[u]
      BY <3>1
    <3>3. CASE i \in 0 .. n[u] /\ d[u][i] = c[u][i]
      <4>1. i \in 1 .. n[u] /\ i - 1 \in 0 .. n[u]
        BY <2>1, <3>3
      <4>2. d[u][i - 1] = c[u][i - 1]
        BY <1>2, <1>5, <4>1
      <4>3. parent'[c[u][i]] = parent[c[u][i]]
        BY <1>6, <2>1, <3>3 DEF TypeOK
      <4> QED
        BY <2>1, <3>3, <4>1, <4>2, <4>3
    <3>4. CASE u = t /\ i = k + 1 /\ d[u][i] = p
      <4>1. d[t][k] = curr_pid_for_term[t]
        BY <1>2, <1>5, <2>1, <3>4
      <4>2. i - 1 = k
        BY <3>4
      <4> QED
        BY <3>4, <4>1, <4>2 DEF TypeOK
    <3> QED
      BY <1>7, <2>1, <3>2, <3>3, <3>4
  <2> QED
    BY <2>2, <2>3, <2>4, <2>5
<1>9. ASSUME NEW u \in Terms, NEW v \in Terms, Live(u)', Live(v)',
             NEW i \in 0 .. m[u], NEW j \in 0 .. m[v], d[u][i] = d[v][j]
      PROVE  u = v /\ i = j
  <2>1. Live(u) /\ Live(v)
    BY <1>4, <1>9
  <2>2. \/ i \in 0 .. n[u] /\ d[u][i] = c[u][i]
        \/ u = t /\ i = k + 1 /\ d[u][i] = p
    BY <1>7, <2>1
  <2>3. \/ j \in 0 .. n[v] /\ d[v][j] = c[v][j]
        \/ v = t /\ j = k + 1 /\ d[v][j] = p
    BY <1>7, <2>1
  <2>4. /\ \A h \in 0 .. n[u] : c[u][h] # p
        /\ \A h \in 0 .. n[v] : c[v][h] # p
    BY <1>6, <2>1
  <2>5. \A g \in 0 .. n[u], h \in 0 .. n[v] : c[u][g] = c[v][h] => u = v /\ g = h
    BY <1>1, <2>1 DEF AreChains
  <2> QED
    BY <1>9, <2>2, <2>3, <2>4, <2>5
<1>10. ASSUME NEW q \in Pids, Live(q)'
       PROVE  \E u \in Terms : Live(u)' /\ \E i \in 0 .. m[u] : d[u][i] = q
  <2>1. CASE q = p
    <3>1. k + 1 \in 0 .. m[t]
      BY <1>5
    <3> QED
      BY <1>4, <1>5, <2>1, <3>1
  <2>2. CASE q # p
    <3>1. PICK u \in Terms : Live(u) /\ \E i \in 0 .. n[u] : c[u][i] = q
      BY <1>1, <1>10, <2>2 DEF AreChains
    <3>2. PICK i \in 0 .. n[u] : c[u][i] = q
      BY <3>1
    <3>3. i \in 0 .. m[u] /\ d[u][i] = q
      BY <1>2, <1>5, <3>2
    <3> QED
      BY <1>4, <3>1, <3>3
  <2> QED
    BY <2>1, <2>2
<1>11. AreChains(d, m)'
  BY <1>5, <1>8, <1>9, <1>10 DEF AreChains
<1> QED
  BY <1>11 DEF SessionsAreChains

(* A process that ends was the last of its terminal's chain, and its       *)
(* parent the one before.                                                  *)
LEMMA ChainsExit ==
  ASSUME SessionsAreChains, TypeOK, NEW t \in Terms, Live(t),
         curr_pid_for_term[t] \notin BasePids, UNCHANGED parent,
         curr_pid_for_term' = [curr_pid_for_term EXCEPT ![t] = parent[curr_pid_for_term[t]]],
         \A q \in Pids : Live(q)' <=> Live(q) /\ q # curr_pid_for_term[t]
  PROVE  SessionsAreChains'
<1>1. PICK c, n : AreChains(c, n)
  BY DEF SessionsAreChains
<1>2. PICK p \in Pids, k \in Nat : p = curr_pid_for_term[t] /\ k = n[t]
  BY <1>1 DEF AreChains, TypeOK
<1>3. PICK m : m = [n EXCEPT ![t] = k - 1]
  OBVIOUS
<1>4. \A u \in Terms : u \in Pids /\ u # p /\ (Live(u)' <=> Live(u))
  BY <1>2, BasePidsArePids DEF BasePids
<1>5. c[t][k] = p /\ k # 0 /\ k - 1 \in Nat
  <2>1. c[t][k] = p /\ c[t][0] = t
    BY <1>1, <1>2 DEF AreChains
  <2>2. k # 0
    BY <1>4, <2>1
  <2> QED
    BY <2>1, <2>2
<1>6. /\ m \in [Terms -> Nat] /\ m[t] = k - 1
      /\ \A u \in Terms : u # t => m[u] = n[u]
  BY <1>1, <1>2, <1>3, <1>5 DEF AreChains
<1>7. ASSUME NEW u \in Terms, Live(u), NEW i \in 0 .. n[u]
      PROVE  /\ c[u][i] \in Pids /\ Live(c[u][i])
             /\ c[u][i] = p => u = t /\ i = k
  <2>1. n[u] \in Nat /\ i \in Nat /\ k \in 0 .. n[t]
    BY <1>1, <1>2 DEF AreChains
  <2> QED
    BY <1>1, <1>2, <1>5, <1>7, <2>1 DEF AreChains
<1>8. ASSUME NEW u \in Terms, NEW i \in 0 .. m[u]
      PROVE  i \in 0 .. n[u] /\ ~(u = t /\ i = k)
  BY <1>2, <1>5, <1>6
<1>9. ASSUME NEW u \in Terms, Live(u)'
      PROVE  /\ c[u][0] = u
             /\ c[u][m[u]] = curr_pid_for_term'[u]
             /\ \A i \in 0 .. m[u] : Live(c[u][i])'
             /\ \A i \in 1 .. m[u] : /\ c[u][i] \notin BasePids
                                     /\ parent'[c[u][i]] = c[u][i - 1]
  <2>1. /\ Live(u) /\ c[u][0] = u /\ c[u][n[u]] = curr_pid_for_term[u]
        /\ \A i \in 1 .. n[u] : c[u][i] \notin BasePids /\ parent[c[u][i]] = c[u][i - 1]
    BY <1>1, <1>4, <1>9 DEF AreChains
  <2>2. c[u][m[u]] = curr_pid_for_term'[u]
    <3>1. CASE u = t
      <4>1. k \in 1 .. n[t]
        BY <1>2, <1>5
      <4> QED
        BY <1>2, <1>5, <1>6, <2>1, <3>1, <4>1 DEF TypeOK
    <3>2. CASE u # t
      BY <1>6, <2>1, <3>2 DEF TypeOK
    <3> QED
      BY <3>1, <3>2
  <2>3. ASSUME NEW i \in 0 .. m[u] PROVE Live(c[u][i])'
    <3>1. c[u][i] \in Pids /\ Live(c[u][i]) /\ c[u][i] # p
      BY <1>7, <1>8, <2>1
    <3> QED
      BY <1>2, <3>1
  <2>4. \A i \in 1 .. m[u] : i \in 1 .. n[u]
    BY <1>2, <1>5, <1>6
  <2> QED
    BY <2>1, <2>2, <2>3, <2>4
<1>10. ASSUME NEW u \in Terms, NEW v \in Terms, Live(u)', Live(v)',
              NEW i \in 0 .. m[u], NEW j \in 0 .. m[v], c[u][i] = c[v][j]
       PROVE  u = v /\ i = j
  <2>1. Live(u) /\ Live(v) /\ i \in 0 .. n[u] /\ j \in 0 .. n[v]
    BY <1>4, <1>8, <1>10
  <2> QED
    BY <1>1, <1>10, <2>1 DEF AreChains
<1>11. ASSUME NEW q \in Pids, Live(q)'
       PROVE  \E u \in Terms : Live(u)' /\ \E i \in 0 .. m[u] : c[u][i] = q
  <2>1. Live(q) /\ q # p
    BY <1>2, <1>11
  <2>2. PICK u \in Terms : Live(u) /\ \E i \in 0 .. n[u] : c[u][i] = q
    BY <1>1, <2>1 DEF AreChains
  <2>3. PICK i \in 0 .. n[u] : c[u][i] = q
    BY <2>2
  <2>4. ~(u = t /\ i = k)
    BY <1>5, <2>1, <2>3
  <2>5. i \in 0 .. m[u]
    BY <1>2, <1>5, <1>6, <2>3, <2>4
  <2> QED
    BY <1>4, <2>2, <2>3, <2>5
<1>12. c \in [Terms -> [Nat -> Pids]]
  BY <1>1 DEF AreChains
<1>13. AreChains(c, m)'
  BY <1>6, <1>9, <1>10, <1>11, <1>12 DEF AreChains
<1> QED
  BY <1>13 DEF SessionsAreChains

(* Every step keeps the processes in use in their chains. *)
LEMMA ChainsStep ==
  ASSUME Disciplined, IInv, IInv', SessionsAreChains, [Next]_vars
  PROVE  SessionsAreChains'
<1> DEFINE alive == {p \in Pids : Live(p)}
<1>1. [S!Next]_S!sessionVars
  BY SessionsStep
<1>2. ASSUME UNCHANGED <<alive, curr_pid_for_term, parent>>
      PROVE  SessionsAreChains'
  <2>1. \A p \in Pids : Live(p)' <=> Live(p)
    BY <1>2
  <2> QED
    BY <1>2, <2>1, ChainsKept
<1>3. ASSUME NEW t \in Terms, S!StartTerminal(t) PROVE SessionsAreChains'
  <2>1. t \in Pids
    BY BasePidsArePids
  <2>2. /\ alive' = alive \cup {t} /\ t \notin alive /\ curr_pid_for_term[t] = t
        /\ UNCHANGED curr_pid_for_term /\ parent' = [parent EXCEPT ![t] = t]
    BY <1>3 DEF S!StartTerminal
  <2>3. ~Live(t) /\ \A p \in Pids : Live(p)' <=> Live(p) \/ p = t
    BY <2>1, <2>2
  <2> QED
    BY <2>2, <2>3, ChainsStart DEF IInv
<1>4. ASSUME NEW t \in Terms, S!GiveTurn(t) PROVE SessionsAreChains'
  BY <1>2, <1>4 DEF S!GiveTurn
<1>5. ASSUME NEW p \in Pids, S!Exec(p) PROVE SessionsAreChains'
  <2>1. PICK t \in Terms : t = scheduled_term
    BY DEF IInv, TypeOK
  <2>2. /\ alive' = alive \cup {p} /\ p \notin alive /\ p \notin BasePids
        /\ curr_pid_for_term' = [curr_pid_for_term EXCEPT ![t] = p]
        /\ parent' = [parent EXCEPT ![p] = curr_pid_for_term[t]]
    BY <1>5, <2>1 DEF S!Exec, BasePids
  <2>3. ~Live(p) /\ \A q \in Pids : Live(q)' <=> Live(q) \/ q = p
    BY <2>2
  <2>4. curr_pid_for_term'[t] = p /\ t # p
    BY <2>2 DEF IInv, TypeOK, BasePids
  <2>5. Live(t)'
    BY <2>4 DEF IInv, BaseShells
  <2>6. Live(t)
    BY <2>3, <2>4, <2>5, BasePidsArePids
  <2> QED
    BY <2>2, <2>3, <2>6, ChainsExec DEF IInv
<1>6. ASSUME S!Exit PROVE SessionsAreChains'
  <2>1. PICK t \in Terms, p \in Pids : t = scheduled_term /\ p = curr_pid_for_term[t]
    BY DEF IInv, TypeOK
  <2>2. /\ alive' = alive \ {p} /\ p \notin BasePids /\ UNCHANGED parent
        /\ curr_pid_for_term' = [curr_pid_for_term EXCEPT ![t] = parent[p]]
    BY <1>6, <2>1 DEF S!Exit, BasePids
  <2>3. \A q \in Pids : Live(q)' <=> Live(q) /\ q # p
    BY <2>2
  <2>4. Live(t)
    BY <2>1, <2>2 DEF IInv, BaseShells, BasePids
  <2> QED
    BY <2>1, <2>2, <2>3, <2>4, ChainsExit DEF IInv
<1>7. CASE S!ExecFails \/ S!Elsewhere \/ UNCHANGED S!sessionVars
  BY <1>2, <1>7 DEF S!ExecFails, S!Elsewhere, S!sessionVars
<1> QED
  BY <1>1, <1>3, <1>4, <1>5, <1>6, <1>7 DEF S!Next

(* At first there is no process, so there is no chain. *)
LEMMA ChainsInit ==
  ASSUME Init
  PROVE  SessionsAreChains
<1>1. \A p \in Pids : ~Live(p)
  BY DEF Init, Live
<1> DEFINE c == [t \in Terms |-> [i \in Nat |-> t]]
           n == [t \in Terms |-> 0]
<1>2. c \in [Terms -> [Nat -> Pids]] /\ n \in [Terms -> Nat]
  BY BasePidsArePids
<1> HIDE DEF c, n
<1>3. AreChains(c, n)
  BY <1>1, <1>2, BasePidsArePids DEF AreChains
<1> QED
  BY <1>3 DEF SessionsAreChains

(* A chain has no more processes than there are control blocks. *)
LEMMA ChainsFit ==
  ASSUME NEW c, NEW n, AreChains(c, n), NEW t \in Terms, Live(t)
  PROVE  n[t] \in Nat /\ n[t] < MAX_PCB
<1>1. PICK k \in Nat : k = n[t]
  BY DEF AreChains
<1>2. MAX_PCB \in Nat /\ MAX_PCB > 0
  BY NumTermsAssumption, MaxPcbAssumption
<1> DEFINE f == [i \in 0 .. k |-> c[t][i]]
<1>3. f \in [0 .. k -> Pids]
  <2>1. \A i \in 0 .. k : i \in Nat
    OBVIOUS
  <2> QED
    BY <2>1 DEF AreChains
<1>4. \A i, j \in 0 .. k : f[i] = f[j] => i = j
  BY <1>1 DEF AreChains
<1>5. /\ IsFiniteSet(0 .. k) /\ Cardinality(0 .. k) = k + 1
      /\ IsFiniteSet(Pids) /\ Cardinality(Pids) = MAX_PCB
  <2>1. /\ IsFiniteSet(0 .. k)
        /\ Cardinality(0 .. k) = IF 0 > k THEN 0 ELSE k - 0 + 1
    BY FS_Interval
  <2>2. MAX_PCB - 1 \in Int
    BY <1>2
  <2>3. /\ IsFiniteSet(0 .. MAX_PCB - 1)
        /\ Cardinality(0 .. MAX_PCB - 1) = IF 0 > MAX_PCB - 1 THEN 0 ELSE MAX_PCB - 1 - 0 + 1
    BY <2>2, FS_Interval
  <2>4. Cardinality(0 .. k) = k + 1 /\ Cardinality(0 .. MAX_PCB - 1) = MAX_PCB
    BY <1>2, <2>1, <2>3
  <2> QED
    BY <2>1, <2>3, <2>4 DEF Pids
<1> HIDE DEF f
<1>6. ~(Cardinality(Pids) < Cardinality(0 .. k))
  BY <1>3, <1>4, <1>5, FS_PigeonHole
<1> QED
  BY <1>1, <1>2, <1>5, <1>6

(* A set of naturals that is not empty has a least element. *)
LEMMA LeastNatural ==
  ASSUME NEW T \in SUBSET Nat, T # {}
  PROVE  \E n \in T : \A m \in T : ~(m < n)
<1>1. PICK n \in T : \A m \in T : <<m, n>> \notin OpToRel(<, Nat)
  BY NatLessThanWellFounded, WFMin
<1>2. \A m \in T : m < n => <<m, n>> \in OpToRel(<, Nat)
  BY DEF OpToRel
<1> QED
  BY <1>1, <1>2

(* The ancestors of a current process are the processes of its chain: from *)
(* the last to the base shell, which is its own parent from there on.      *)
LEMMA SessionIsChain ==
  ASSUME NEW c, NEW n, AreChains(c, n), NEW t \in Terms, Live(t), parent[t] = t
  PROVE  SessionOf(t) = {c[t][i] : i \in 0 .. n[t]}
<1>1. PICK k \in Nat : k = n[t] /\ k =< MAX_PCB
  BY ChainsFit, MaxPcbAssumption
<1>2. PICK d : d = c[t]
  OBVIOUS
<1>3. /\ d[0] = t /\ d[k] = curr_pid_for_term[t]
      /\ \A i \in 1 .. k : parent[d[i]] = d[i - 1]
  BY <1>1, <1>2 DEF AreChains
<1> DEFINE Def(g) == g = [j \in 0 .. MAX_PCB |->
                            IF j = 0 THEN curr_pid_for_term[t] ELSE parent[g[j - 1]]]
           ancestor == CHOOSE g : Def(g)
<1>4. SessionOf(t) = {ancestor[j] : j \in 0 .. MAX_PCB}
  BY DEF SessionOf
<1>5. PICK g : g = [j \in 0 .. MAX_PCB |-> IF j =< k THEN d[k - j] ELSE t]
  OBVIOUS
<1>6. Def(g)
  <2>1. ASSUME NEW j \in 0 .. MAX_PCB, j # 0 PROVE g[j] = parent[g[j - 1]]
    <3>1. j \in Nat /\ j - 1 \in 0 .. MAX_PCB
      BY <2>1, MaxPcbAssumption
    <3>2. CASE j =< k
      <4>1. k - j + 1 \in 1 .. k /\ k - (j - 1) = k - j + 1 /\ k - j + 1 - 1 = k - j
        BY <2>1, <3>1, <3>2
      <4>2. g[j] = d[k - j] /\ g[j - 1] = d[k - j + 1]
        BY <1>5, <3>1, <3>2, <4>1
      <4> QED
        BY <1>3, <4>1, <4>2
    <3>3. CASE ~(j =< k)
      <4>1. g[j] = t
        BY <1>5, <3>3
      <4>2. g[j - 1] = t
        <5>1. CASE j - 1 =< k
          <6>1. k - (j - 1) = 0
            BY <3>1, <3>3, <5>1
          <6> QED
            BY <1>3, <1>5, <3>1, <5>1, <6>1
        <5>2. CASE ~(j - 1 =< k)
          BY <1>5, <3>1, <5>2
        <5> QED
          BY <5>1, <5>2
      <4> QED
        BY <4>1, <4>2
    <3> QED
      BY <3>2, <3>3
  <2>2. 0 \in 0 .. MAX_PCB /\ g[0] = curr_pid_for_term[t]
    <3>1. 0 \in 0 .. MAX_PCB /\ k - 0 = k
      BY MaxPcbAssumption
    <3> QED
      BY <1>3, <1>5, <3>1
  <2>3. g = [j \in 0 .. MAX_PCB |-> g[j]]
    BY <1>5
  <2>4. \A j \in 0 .. MAX_PCB :
           g[j] = IF j = 0 THEN curr_pid_for_term[t] ELSE parent[g[j - 1]]
    BY <2>1, <2>2
  <2> QED
    BY <2>3, <2>4
<1>7. Def(ancestor)
  <2> HIDE DEF Def
  <2> QED
    BY <1>6
<1> HIDE DEF ancestor
<1>8. \A j \in 0 .. MAX_PCB : ancestor[j] = g[j]
  <2> DEFINE T == {j \in Nat : j =< MAX_PCB /\ ancestor[j] # g[j]}
  <2>1. ASSUME NEW j \in T, \A m \in T : ~(m < j) PROVE FALSE
    <3>1. j \in 0 .. MAX_PCB /\ j \in Nat
      BY MaxPcbAssumption
    <3>2. /\ ancestor[j] = IF j = 0 THEN curr_pid_for_term[t] ELSE parent[ancestor[j - 1]]
          /\ g[j] = IF j = 0 THEN curr_pid_for_term[t] ELSE parent[g[j - 1]]
      BY <1>6, <1>7, <3>1
    <3>3. j # 0
      BY <2>1, <3>2
    <3>4. j - 1 \in Nat /\ j - 1 =< MAX_PCB /\ j - 1 < j
      BY <3>1, <3>3, MaxPcbAssumption
    <3>5. ancestor[j - 1] = g[j - 1]
      BY <2>1, <3>4
    <3> QED
      BY <2>1, <3>2, <3>3, <3>5
  <2>2. T \in SUBSET Nat
    OBVIOUS
  <2> HIDE DEF T
  <2>3. T = {}
    BY <2>1, <2>2, LeastNatural
  <2>4. \A j \in 0 .. MAX_PCB : j \in Nat /\ j =< MAX_PCB
    BY MaxPcbAssumption
  <2> QED
    BY <2>3, <2>4 DEF T
<1>9. ASSUME NEW j \in 0 .. MAX_PCB PROVE \E i \in 0 .. k : g[j] = d[i]
  <2>1. CASE j =< k
    <3>1. k - j \in 0 .. k
      BY <2>1, MaxPcbAssumption
    <3> QED
      BY <1>5, <2>1, <3>1
  <2>2. CASE ~(j =< k)
    <3>1. g[j] = d[0] /\ 0 \in 0 .. k
      BY <1>3, <1>5, <2>2
    <3> QED
      BY <3>1
  <2> QED
    BY <2>1, <2>2
<1>10. ASSUME NEW i \in 0 .. k PROVE \E j \in 0 .. MAX_PCB : g[j] = d[i]
  <2>1. k - i \in 0 .. MAX_PCB /\ k - i =< k /\ k - (k - i) = i
    BY <1>1, MaxPcbAssumption
  <2>2. g[k - i] = d[i]
    BY <1>5, <2>1
  <2> QED
    BY <2>1, <2>2
<1> QED
  BY <1>1, <1>2, <1>4, <1>8, <1>9, <1>10

(* The control blocks in use are exactly the processes of the terminals'   *)
(* sessions, each in one session, and of the base shells only the one that *)
(* started it: execute and halt leak no control block, reuse none that is  *)
(* in use, and let no session reach into another.                          *)
THEOREM SessionsArePartition ==
  ASSUME Disciplined
  PROVE  Spec => []SessionsPartition
<1>1. Init => SessionsAreChains
  BY ChainsInit
<1>2. IInv /\ IInv' /\ SessionsAreChains /\ [Next]_vars => SessionsAreChains'
  BY ChainsStep
<1>3. IInv /\ SessionsAreChains => SessionsPartition
  <2> SUFFICES ASSUME IInv, SessionsAreChains PROVE SessionsPartition
    OBVIOUS
  <2>1. PICK c, n : AreChains(c, n)
    BY DEF SessionsAreChains
  <2> DEFINE started == {t \in Terms : terminalInstantiated[t] = 1}
  <2>2. \A t \in Terms : t \in started <=> Live(t)
    BY DEF IInv, BaseShells, Started
  <2>3. ASSUME NEW t \in started
        PROVE  /\ SessionOf(t) = {c[t][i] : i \in 0 .. n[t]}
               /\ n[t] \in Nat /\ t \in Terms /\ Live(t)
    <3>1. t \in Terms /\ Live(t) /\ parent[t] = t
      BY DEF IInv, BaseShells, Started
    <3> QED
      BY <2>1, <3>1, SessionIsChain, ChainsFit
  <2>4. ASSUME NEW t \in started, NEW i \in 0 .. n[t]
        PROVE  c[t][i] \in Pids /\ Live(c[t][i])
    <3>1. i \in Nat /\ t \in Terms /\ Live(t)
      BY <2>3
    <3> QED
      BY <2>1, <3>1 DEF AreChains
  <2>5. {p \in Pids : Live(p)} = UNION {SessionOf(t) : t \in started}
    <3>1. ASSUME NEW p \in Pids, Live(p)
          PROVE  \E t \in started : p \in SessionOf(t)
      <4>1. PICK t \in Terms : Live(t) /\ \E i \in 0 .. n[t] : c[t][i] = p
        BY <2>1, <3>1 DEF AreChains
      <4>2. t \in started
        BY <2>2, <4>1
      <4> QED
        BY <2>3, <4>1, <4>2
    <3>2. ASSUME NEW t \in started, NEW p \in SessionOf(t)
          PROVE  p \in Pids /\ Live(p)
      BY <2>3, <2>4
    <3> HIDE DEF started
    <3> QED
      BY <3>1, <3>2
  <2>6. ASSUME NEW t \in started PROVE SessionOf(t) \cap BasePids = {t}
    <3>1. t \in Terms /\ Live(t) /\ n[t] \in Nat
      BY <2>3
    <3>2. c[t][0] = t /\ \A i \in 1 .. n[t] : c[t][i] \notin BasePids
      BY <2>1, <3>1 DEF AreChains
    <3>3. 0 \in 0 .. n[t] /\ \A i \in 0 .. n[t] : i = 0 \/ i \in 1 .. n[t]
      BY <3>1
    <3>4. t \in SessionOf(t)
      BY <2>3, <3>2, <3>3
    <3>5. ASSUME NEW p \in SessionOf(t), p \in BasePids PROVE p = t
      <4>1. PICK i \in 0 .. n[t] : p = c[t][i]
        BY <2>3
      <4> QED
        BY <3>2, <3>3, <3>5, <4>1
    <3> QED
      BY <3>1, <3>4, <3>5 DEF BasePids
  <2>7. ASSUME NEW t \in started, NEW u \in started, t # u
        PROVE  SessionOf(t) \cap SessionOf(u) = {}
    <3>1. ASSUME NEW p \in SessionOf(t), p \in SessionOf(u) PROVE FALSE
      <4>1. PICK i \in 0 .. n[t] : p = c[t][i]
        BY <2>3
      <4>2. PICK j \in 0 .. n[u] : p = c[u][j]
        BY <2>3, <3>1
      <4>3. t \in Terms /\ Live(t) /\ u \in Terms /\ Live(u)
        BY <2>3
      <4>4. c[t][i] = c[u][j] => t = u
        BY <2>1, <4>3 DEF AreChains
      <4> QED
        BY <2>7, <4>1, <4>2, <4>4
    <3> QED
      BY <3>1
  <2> QED
    BY <2>5, <2>6, <2>7 DEF SessionsPartition
<1> QED
  BY <1>1, <1>2, <1>3, Invariance, PTL DEF Spec
=============================================================================
