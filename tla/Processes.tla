----------------------------- MODULE Processes ------------------------------
(***************************************************************************)
(* Processes, terminals and the round-robin scheduler: execute and halt of *)
(* systemCall.c, pit_handler of scheduling.c, the switch of the visible    *)
(* terminal by Alt+Fn, and the first execute of kernel.c.                  *)
(*                                                                         *)
(* All three run with interrupts disabled from their first line to their   *)
(* iret (or leave/ret), so each is one action.  A saved stack pointer is   *)
(* represented by the process whose kernel stack it points into, or by     *)
(* Stale once the frame it points at is gone: resumed already, or part of  *)
(* the stack of a process that has ended.                                  *)
(***************************************************************************)
EXTENDS Integers, FiniteSets

CONSTANTS NUM_TERMS,       \* terminals (3)
          MAX_PCB,         \* process control blocks (6)
          BackgroundExec,  \* may a process execute while its terminal is hidden?
          EarlyExec        \* may a process execute before every base shell runs?

ASSUME NumTermsAssumption == NUM_TERMS \in Nat \ {0}
ASSUME MaxPcbAssumption == MAX_PCB \in Nat /\ NUM_TERMS <= MAX_PCB
ASSUME EnvironmentAssumption == BackgroundExec \in BOOLEAN /\ EarlyExec \in BOOLEAN

Terms == 0 .. NUM_TERMS - 1      \* scheduled_term and the arrays are 0-indexed
Pids == 0 .. MAX_PCB - 1
BasePids == Terms                \* pids 0, 1 and 2 are the base shells
Stale == -1
Contexts == Pids \cup {Stale}

Statuses == {0, 1, 255}          \* what a program hands to halt; 255 from exceptions
Images == {"missing", "not_executable", "executable"}
NoReturn == -2
Returns == {-1, 0, 1, 256}       \* what execute() returns to its caller

VARIABLES
    pcb_arr,               \* 1 for a process control block in use
    curr_pid_for_term,     \* the current process of each terminal
    parent_pid_for_term,   \* and its parent
    scheduled_term,        \* the terminal whose process has the processor
    currentTerminal,       \* the visible terminal (1-indexed)
    terminalInstantiated,  \* 1 once a base shell was executed for the terminal
    doneInstantiating,     \* 1 once the scheduler came round to terminal 0 again
    parent,                \* PCB.parent
    esp,                   \* PCB.esp, PCB.ebp: where halt of a child resumes it
    scheduledEsp,          \* PCB.scheduledEsp, .scheduledEbp: where the PIT resumes it
    user_page,             \* the pid page_directory[32] maps at 128 MB
    tss_esp0,              \* the pid on whose stack the next kernel entry starts
    running,               \* the pid whose code the processor is executing
    eax,                   \* what execute() has just returned to running
    ended                  \* history: the status just given to halt, or NoReturn

tables == <<pcb_arr, curr_pid_for_term, parent_pid_for_term, parent>>
boot == <<terminalInstantiated, doneInstantiating>>
memory == <<user_page, tss_esp0>>
vars == <<tables, scheduled_term, currentTerminal, boot, esp, scheduledEsp,
          memory, running, eax, ended>>

TypeOK ==
    /\ pcb_arr \in [Pids -> {0, 1}]
    /\ curr_pid_for_term \in [Terms -> Pids]
    /\ parent_pid_for_term \in [Terms -> Pids]
    /\ scheduled_term \in Terms
    /\ currentTerminal \in 1 .. NUM_TERMS
    /\ terminalInstantiated \in [Terms -> {0, 1}]
    /\ doneInstantiating \in {0, 1}
    /\ parent \in [Pids -> Pids]
    /\ esp \in [Pids -> Contexts]
    /\ scheduledEsp \in [Pids -> Contexts]
    /\ user_page \in Pids
    /\ tss_esp0 \in Pids
    /\ running \in Contexts
    /\ eax \in Returns \cup {NoReturn}
    /\ ended \in Statuses \cup {NoReturn}

-----------------------------------------------------------------------------
(* Helpers of the handlers. *)

CurrentPid == curr_pid_for_term[scheduled_term]
Visible == currentTerminal - 1

(* Mutated form: the scan that finds the table full is forgotten. *)
FreePcbsOrLast ==
    LET free == {p \in Pids : pcb_arr[p] = 0}
    IN IF free = {} THEN {MAX_PCB - 1} ELSE free

FreePcbs == {p \in Pids : pcb_arr[p] = 0}

(* Mutated form: the control block freed is that of the caller. *)
ReleasedCaller(p) == [pcb_arr EXCEPT ![parent_pid_for_term[scheduled_term]] = 0]

(* pcb_arr once halt has freed the control block of p. *)
Released(p) == [pcb_arr EXCEPT ![p] = 0]

(* Mutated form: the last terminal is never reached. *)
NextTermButLast(t) == (t + 1) % (NUM_TERMS - 1)

NextTerm(t) == (t + 1) % NUM_TERMS

(* The parent execute records for a new process: the process current in    *)
(* the terminal it is registered under, or itself for a base shell.        *)
ParentOf(newest_pid, term) ==
    IF newest_pid \in BasePids THEN newest_pid ELSE curr_pid_for_term[term]

(* Mutated form: the new process' own control block gets the stack. *)
SaveInChild(newest_pid, term) ==
    IF newest_pid \in BasePids THEN esp ELSE [esp EXCEPT ![newest_pid] = running]

(* execute saves the running stack in the parent's PCB, for halt. *)
SaveForHalt(newest_pid, term) ==
    IF newest_pid \in BasePids
    THEN esp
    ELSE [esp EXCEPT ![ParentOf(newest_pid, term)] = running]

(* Mutated form: the PCB is looked up once scheduled_term has moved on. *)
SaveForNext(oldTerm) ==
    [scheduledEsp EXCEPT ![curr_pid_for_term[NextTerm(oldTerm)]] = running]

(* pit_handler saves the running stack in the PCB of the terminal it leaves. *)
SaveForPit(oldTerm) == [scheduledEsp EXCEPT ![curr_pid_for_term[oldTerm]] = running]

(* Mutated form: halt leaves the terminal's entry as it was. *)
CallerAgain(caller) == caller

(* parent_pid_for_term once halt has made caller current. *)
ParentAfterHalt(caller) == parent[caller]

(* Saved contexts that point into the stack of p, which has ended. *)
WithoutStack(contexts, p) ==
    [q \in Pids |-> IF contexts[q] = p THEN Stale ELSE contexts[q]]

(* Mutated form: an exception is reported like any status. *)
StatusAsIs(status) == status

(* halt hands 256 to the caller of a program that ended by an exception. *)
StatusReturned(status) == IF status = 255 THEN 256 ELSE status

(* Mutated form: the TSS is left with the stack of the process before. *)
SwitchPageOnly(p) == user_page' = p /\ UNCHANGED tss_esp0

(* The page directory and the TSS follow the process that will run. *)
SwitchMemory(p) == user_page' = p /\ tss_esp0' = p

(* execute from the search for a free PCB to its iret, the new process     *)
(* registered under terminal term.                                         *)
Spawn(term) ==
    \E newest_pid \in FreePcbs :
        /\ \A p \in FreePcbs : newest_pid <= p
        /\ pcb_arr' = [pcb_arr EXCEPT ![newest_pid] = 1]
        /\ parent_pid_for_term' =
             [parent_pid_for_term EXCEPT ![term] = curr_pid_for_term[term]]
        /\ curr_pid_for_term' = [curr_pid_for_term EXCEPT ![term] = newest_pid]
        /\ parent' = [parent EXCEPT ![newest_pid] = ParentOf(newest_pid, term)]
        /\ esp' = SaveForHalt(newest_pid, term)
        /\ SwitchMemory(newest_pid)
        /\ running' = newest_pid
        /\ eax' = NoReturn

(* execute of an image: a missing file fails before the table is found     *)
(* full, a file that is not an ELF executable fails after.                 *)
ExecuteImage(image, term) ==
    \/ /\ image = "executable"
       /\ FreePcbs # {}
       /\ Spawn(term)
    \/ /\ image # "executable" \/ FreePcbs = {}
       /\ eax' = IF image # "missing" /\ FreePcbs = {} THEN 0 ELSE -1
       /\ UNCHANGED <<tables, esp, memory, running>>

-----------------------------------------------------------------------------
Init ==
    /\ pcb_arr = [p \in Pids |-> 0]
    /\ curr_pid_for_term = [t \in Terms |-> t]
    /\ parent_pid_for_term = [t \in Terms |-> t]
    /\ scheduled_term = 0
    /\ currentTerminal = 1
    /\ terminalInstantiated = [t \in Terms |-> 0]
    /\ doneInstantiating = 0
    /\ parent = [p \in Pids |-> 0]
    /\ esp = [p \in Pids |-> Stale]
    /\ scheduledEsp = [p \in Pids |-> Stale]
    /\ user_page = 0
    /\ tss_esp0 = 0
    /\ running = 0
    /\ eax = NoReturn
    /\ ended = NoReturn

(* The last lines of entry(): the first base shell.  Interrupts are still  *)
(* disabled: the iret of execute enables them.                             *)
KernelEntry ==
    /\ terminalInstantiated[0] = 0
    /\ terminalInstantiated' = [terminalInstantiated EXCEPT ![0] = 1]
    /\ ExecuteImage("executable", Visible)
    /\ ended' = NoReturn
    /\ UNCHANGED <<scheduled_term, currentTerminal, doneInstantiating, scheduledEsp>>

(* A user program runs: the kernel was entered and the CPU is not lost. *)
InUserProgram == terminalInstantiated[0] = 1 /\ running # Stale

(* The execute system call. *)
Execute(image) ==
    /\ InUserProgram
    /\ BackgroundExec \/ scheduled_term = Visible
    /\ EarlyExec \/ doneInstantiating = 1
    /\ ExecuteImage(image, Visible)
    /\ ended' = NoReturn
    /\ UNCHANGED <<scheduled_term, currentTerminal, boot, scheduledEsp>>

(* halt of a base shell: its program starts again on an empty stack. *)
HaltBaseShell ==
    /\ InUserProgram
    /\ CurrentPid \in BasePids
    /\ running' = tss_esp0
    /\ eax' = NoReturn
    /\ ended' = NoReturn
    /\ UNCHANGED <<tables, scheduled_term, currentTerminal, boot, esp,
                   scheduledEsp, memory>>

(* halt of any other process: the caller is resumed inside its execute. *)
HaltProcess(status) ==
    LET caller == parent_pid_for_term[scheduled_term] IN
    /\ InUserProgram
    /\ CurrentPid \notin BasePids
    /\ pcb_arr' = Released(CurrentPid)
    /\ curr_pid_for_term' = [curr_pid_for_term EXCEPT ![scheduled_term] = caller]
    /\ parent_pid_for_term' =
         [parent_pid_for_term EXCEPT ![scheduled_term] = ParentAfterHalt(caller)]
    /\ SwitchMemory(caller)
    /\ running' = esp[caller]
    /\ esp' = [WithoutStack(esp, CurrentPid) EXCEPT ![caller] = Stale]
    /\ scheduledEsp' = WithoutStack(scheduledEsp, CurrentPid)
    /\ eax' = StatusReturned(status)
    /\ ended' = status
    /\ UNCHANGED <<scheduled_term, currentTerminal, boot, parent>>

(* The timer interrupt while some base shell is still to be executed: it   *)
(* makes the terminal whose turn it is visible and executes its shell.     *)
PitInstantiates ==
    LET term == NextTerm(scheduled_term) IN
    /\ InUserProgram
    /\ terminalInstantiated[term] = 0
    /\ scheduled_term' = term
    /\ scheduledEsp' = SaveForPit(scheduled_term)
    /\ currentTerminal' = term + 1
    /\ terminalInstantiated' = [terminalInstantiated EXCEPT ![term] = 1]
    /\ ExecuteImage("executable", term)
    /\ ended' = NoReturn
    /\ UNCHANGED doneInstantiating

(* The timer interrupt afterwards: a switch to the current process of the  *)
(* next terminal.  The first one also shows terminal 1 to the user.        *)
PitSwitches ==
    LET term == NextTerm(scheduled_term)
        next_pid == curr_pid_for_term[term]
        saved == SaveForPit(scheduled_term)
    IN
    /\ InUserProgram
    /\ terminalInstantiated[term] = 1
    /\ scheduled_term' = term
    /\ currentTerminal' = IF doneInstantiating = 0 THEN 1 ELSE currentTerminal
    /\ doneInstantiating' = 1
    /\ SwitchMemory(next_pid)
    /\ running' = saved[next_pid]
    /\ scheduledEsp' = [saved EXCEPT ![next_pid] = Stale]
    /\ eax' = NoReturn
    /\ ended' = NoReturn
    /\ UNCHANGED <<tables, terminalInstantiated, esp>>

PitHandler == PitInstantiates \/ PitSwitches

(* Alt+Fn, through f_helper and terminal_changing. *)
SwitchTerminal(term) ==
    /\ InUserProgram
    /\ term # currentTerminal
    /\ currentTerminal' = term
    /\ eax' = NoReturn
    /\ ended' = NoReturn
    /\ UNCHANGED <<tables, scheduled_term, boot, esp, scheduledEsp, memory, running>>

Next ==
    \/ KernelEntry
    \/ \E image \in Images : Execute(image)
    \/ HaltBaseShell
    \/ \E status \in Statuses : HaltProcess(status)
    \/ PitHandler
    \/ \E term \in 1 .. NUM_TERMS : SwitchTerminal(term)

(* The boot code always reaches its execute, and the timer keeps ticking:  *)
(* a program cannot disable interrupts, and no path of the kernel that     *)
(* does runs for ever.                                                     *)
Fairness == WF_vars(KernelEntry) /\ WF_vars(PitHandler)

Spec == Init /\ [][Next]_vars
FairSpec == Spec /\ Fairness
-----------------------------------------------------------------------------
(* Properties. *)

Booted == terminalInstantiated[0] = 1
Live(p) == pcb_arr[p] = 1
Waits(p, q) == Live(q) /\ q \notin BasePids /\ parent[q] = p   \* p executed q

(* "this array keeps track of the currently running pid for each terminal" *)
(* (scheduling.h:23): the processor runs the process that the tables give  *)
(* as current for the terminal whose turn it is.  halt, read, write, open  *)
(* and close find their PCB through that entry.                            *)
CurrentPidRuns == Booted => running = CurrentPid

(* The running program executes in its own 4 MB, and enters the kernel on  *)
(* its own 8 KB stack: execute, halt and pit_handler keep the page         *)
(* directory and the TSS in step with the process they resume.             *)
OwnMemory == Booted => user_page = running /\ tss_esp0 = running

(* A stack pointer halt or pit_handler will load points into the stack of  *)
(* the process it resumes, at a frame nobody has used since: every process *)
(* that waits for a child, and the current process of every terminal whose *)
(* turn it is not.                                                         *)
ResumePointsValid ==
    /\ \A p, q \in Pids : Waits(p, q) => esp[p] = p
    /\ \A t \in Terms :
         terminalInstantiated[t] = 1 /\ t # scheduled_term
           => scheduledEsp[curr_pid_for_term[t]] = curr_pid_for_term[t]

(* parent_pid_for_term, which halt resumes without looking at the PCB of   *)
(* the halting process, always agrees with that PCB.                       *)
ParentTableAgrees ==
    \A t \in Terms :
        terminalInstantiated[t] = 1
          => parent_pid_for_term[t] = parent[curr_pid_for_term[t]]

(* A live process is current in one terminal or waits for one child, never *)
(* both and never for two: nobody resumes a process twice.                 *)
OneResumer ==
    \A p \in Pids : Live(p) =>
        \/ /\ \E t \in Terms : curr_pid_for_term[t] = p
           /\ \A t, u \in Terms :
                curr_pid_for_term[t] = p /\ curr_pid_for_term[u] = p => t = u
           /\ \A q \in Pids : ~Waits(p, q)
        \/ /\ \A t \in Terms : curr_pid_for_term[t] # p
           /\ \E q \in Pids : Waits(p, q) /\ \A r \in Pids : Waits(p, r) => r = q

(* The ancestors of a terminal's current process, itself included. *)
SessionOf(t) ==
    LET ancestor[n \in 0 .. MAX_PCB] ==
          IF n = 0 THEN curr_pid_for_term[t] ELSE parent[ancestor[n - 1]]
    IN {ancestor[n] : n \in 0 .. MAX_PCB}

(* The control blocks in use are exactly the processes of the sessions,    *)
(* each in one session, which its terminal's base shell started: execute   *)
(* and halt leak no control block and hand none out twice.                 *)
SessionsPartition ==
    LET started == {t \in Terms : terminalInstantiated[t] = 1} IN
    /\ {p \in Pids : Live(p)} = UNION {SessionOf(t) : t \in started}
    /\ \A t \in started : SessionOf(t) \cap BasePids = {t}
    /\ \A t, u \in started : t # u => SessionOf(t) \cap SessionOf(u) = {}

(* "if we are halting the original process(shell) we want to keep running  *)
(* it" (systemCall.c:35) is decided by the pid alone: of the processes with *)
(* a base pid, a terminal runs none but its own base shell.                *)
OnlyBaseShellsRestart ==
    \A t \in Terms : curr_pid_for_term[t] \in BasePids => curr_pid_for_term[t] = t

(* "if we are at the max amount of programs return -1" (systemCall.c:197): *)
(* what a caller of execute gets that no program handed to halt is -1.     *)
FailureIsReported == eax # NoReturn /\ ended = NoReturn => eax = -1

(* Each terminal's session behaves as Sessions promises. *)
S == INSTANCE Sessions WITH
        Terminals <- Terms, Processes <- Pids,
        alive <- {p \in Pids : Live(p)}, front <- curr_pid_for_term,
        caller <- parent, turn <- scheduled_term, onCpu <- running, result <- eax,
        exitStatus <- ended

(* execute, halt and pit_handler implement the sessions: the program that  *)
(* ends is followed by its caller, which gets the status of that program,  *)
(* whatever the other terminals ran meanwhile, and nothing but -1, or 0    *)
(* when the table is full, where no program ran.                           *)
ImplementsSessions == S!Spec

(* After boot every terminal gets the processor again and again, and with  *)
(* it its current process (pit_handler's round robin).                     *)
EveryTerminalRuns ==
    \A t \in Terms : []<>(scheduled_term = t /\ running = curr_pid_for_term[t])

-----------------------------------------------------------------------------
(* The inductive invariant behind the safety properties. *)

Started(t) == terminalInstantiated[t] = 1

(* The base shells are executed in the order of the terminals, and nothing *)
(* else is before they all are.                                            *)
BootOrder ==
    /\ ~Booted => /\ doneInstantiating = 0
                  /\ scheduled_term = 0
                  /\ currentTerminal = 1
                  /\ \A t \in Terms : ~Started(t)
    /\ Booted /\ doneInstantiating = 0
         => \A t \in Terms : Started(t) <=> t <= scheduled_term
    /\ doneInstantiating = 1 => \A t \in Terms : Started(t)
    /\ doneInstantiating = 0 => \A p \in Pids : Live(p) => p \in BasePids

BaseShells ==
    \A t \in Terms :
        /\ ~Started(t) => /\ curr_pid_for_term[t] = t
                          /\ parent_pid_for_term[t] = t
                          /\ ~Live(t)
        /\ Started(t) => Live(t) /\ parent[t] = t /\ Live(curr_pid_for_term[t])

CallersWait ==
    /\ \A p \in Pids :
         Live(p) /\ p \notin BasePids => Live(parent[p]) /\ parent[p] # p
    /\ \A p, q, r \in Pids : Waits(r, p) /\ Waits(r, q) => p = q

CurrentsLead ==
    /\ \A t, u \in Terms : curr_pid_for_term[t] = curr_pid_for_term[u] => t = u
    /\ \A t \in Terms, q \in Pids : Started(t) => ~Waits(curr_pid_for_term[t], q)
    /\ \A p \in Pids :
         Live(p) => \/ \E t \in Terms : curr_pid_for_term[t] = p
                    \/ \E q \in Pids : Waits(p, q)

(* Boot order, session structure, and what the processor and the saved     *)
(* stack pointers refer to, as one inductive invariant of execute, halt,   *)
(* pit_handler and Alt+Fn.                                                 *)
IInv ==
    /\ TypeOK
    /\ BootOrder
    /\ BaseShells
    /\ CallersWait
    /\ CurrentsLead
    /\ CurrentPidRuns
    /\ OwnMemory
    /\ ResumePointsValid
    /\ ParentTableAgrees
=============================================================================
