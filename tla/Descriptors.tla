---------------------------- MODULE Descriptors -----------------------------
(***************************************************************************)
(* The descriptor layer of systemCall.c: open, close, read and write, with *)
(* what execute and halt do to a process' descriptors, and the part of the *)
(* file, directory and rtc drivers that reads or writes the descriptor.    *)
(*                                                                         *)
(* A system call enters through an interrupt gate.  open, close, execute   *)
(* and halt run to their end; read and write enable interrupts and then    *)
(* reach the PCB three times through the global curr_pcb, which the system *)
(* calls of the other terminals assign too.  The model starts when the     *)
(* base shells run; each terminal's processes are a stack whose last one   *)
(* is current (module Processes shows that the kernel's tables are that).  *)
(***************************************************************************)
EXTENDS Integers, Sequences, FiniteSets

CONSTANTS NUM_TERMS,  \* terminals (3)
          MAX_PCB,    \* process control blocks (6)
          NUM_FDS,    \* descriptors of a process (8)
          Lengths,    \* the lengths of the regular files, which stand for their inodes
          Directory,  \* the number of directory entries
          Sizes,      \* the sizes programs pass to read
          MaxUsed     \* bound: how many descriptors are ever opened

ASSUME DescriptorsAssumption ==
    /\ NUM_TERMS \in Nat \ {0} /\ MAX_PCB \in Nat /\ MAX_PCB >= NUM_TERMS
    /\ NUM_FDS \in Nat /\ NUM_FDS > 2
    /\ Lengths \subseteq Nat
    /\ Directory \in Nat /\ MaxUsed \in Nat
    /\ Sizes \subseteq Nat

Terms == 0 .. NUM_TERMS - 1
Pids == 0 .. MAX_PCB - 1
OpenFds == 2 .. NUM_FDS - 1       \* the descriptors open hands out

(* What open finds: a type, and an inode of some length.  The directory    *)
(* and the rtc have inode 0, an empty file.                                *)
Nothing == [type |-> "none", length |-> 0]      \* never opened
Rtc == [type |-> "rtc", length |-> 0]
Dir == [type |-> "directory", length |-> 0]
Files == {Nothing, Rtc, Dir} \cup [type : {"file"}, length : Lengths]
Idle == [op |-> "none"]           \* the program runs user code

VARIABLES
    stack,           \* the processes of each terminal, the current one last
    scheduled_term,  \* the terminal whose program has the processor
    flags,           \* fdArray[].flags, of the descriptors from 2 on
    openIndexes,     \* openIndexes[] of each PCB
    file,            \* fdArray[].jump_table and .inode_check: what was opened
    file_position,   \* fdArray[].file_position
    curr_pcb,        \* the global that all system calls share
    call             \* the read or write each terminal's process is in

tables == <<flags, openIndexes, file, file_position>>
vars == <<stack, scheduled_term, tables, curr_pcb, call>>

Live == UNION {{stack[t][i] : i \in DOMAIN stack[t]} : t \in Terms}
Current(t) == stack[t][Len(stack[t])]

Calls ==
    {Idle} \cup [op : {"read", "write"}, fd : 0 .. NUM_FDS - 1,
                 nbytes : Sizes, stage : {"entered", "checked"}]

TypeOK ==
    /\ \A t \in Terms : /\ stack[t] # << >>
                        /\ \A i \in DOMAIN stack[t] : stack[t][i] \in Pids
    /\ scheduled_term \in Terms
    /\ flags \in [Pids -> [OpenFds -> {"empty", "full"}]]
    /\ openIndexes \in [Pids -> [OpenFds -> {"empty", "full"}]]
    /\ file \in [Pids -> [OpenFds -> Files]]
    /\ file_position \in [Pids -> [OpenFds -> Nat]]
    /\ curr_pcb \in Pids
    /\ call \in [Terms -> Calls]

AllEmpty == [fd \in OpenFds |-> "empty"]

Init ==
    /\ stack = [t \in Terms |-> <<t>>]
    /\ scheduled_term = 0
    /\ flags = [p \in Pids |-> AllEmpty]
    /\ openIndexes = [p \in Pids |-> AllEmpty]
    /\ file = [p \in Pids |-> [fd \in OpenFds |-> Nothing]]
    /\ file_position = [p \in Pids |-> [fd \in OpenFds |-> 0]]
    /\ curr_pcb = NUM_TERMS - 1
    /\ call = [t \in Terms |-> Idle]

-----------------------------------------------------------------------------
(* System calls that run to their end. *)

(* The current process p of the scheduled terminal makes a system call. *)
Calling(t, p) == scheduled_term = t /\ call[t] = Idle /\ p = Current(t)

Used == {x \in Pids \X OpenFds : file[x[1]][x[2]] # Nothing}

(* open(name) with a name that exists, of any type; the first free index. *)
Open(t, p, f) ==
    /\ Calling(t, p) /\ f # Nothing
    /\ \E fd \in OpenFds :
         /\ openIndexes[p][fd] = "empty"
         /\ \A lower \in OpenFds : openIndexes[p][lower] = "empty" => fd <= lower
         /\ Cardinality(Used \cup {<<p, fd>>}) <= MaxUsed
         /\ openIndexes' = [openIndexes EXCEPT ![p][fd] = "full"]
         /\ flags' = [flags EXCEPT ![p][fd] = "full"]
         /\ file' = [file EXCEPT ![p][fd] = f]
         /\ file_position' = [file_position EXCEPT ![p][fd] = 0]
    /\ curr_pcb' = p
    /\ UNCHANGED <<stack, scheduled_term, call>>

(* openIndexes after a close. *)
IndexFreed(indexes, fd) == [indexes EXCEPT ![fd] = "empty"]

(* close(fd), or open without a free index: both at least set curr_pcb. *)
Close(t, p, fd) ==
    /\ Calling(t, p)
    /\ IF flags[p][fd] = "full"
       THEN /\ openIndexes' = [openIndexes EXCEPT ![p] = IndexFreed(@, fd)]
            /\ flags' = [flags EXCEPT ![p][fd] = "empty"]
            /\ file_position' = [file_position EXCEPT ![p][fd] = 0]
       ELSE UNCHANGED <<openIndexes, flags, file_position>>
    /\ curr_pcb' = p
    /\ UNCHANGED <<stack, scheduled_term, file, call>>

OpenFails(t, p) ==
    /\ Calling(t, p)
    /\ \A fd \in OpenFds : openIndexes[p][fd] = "full"
    /\ curr_pcb' = p
    /\ UNCHANGED <<stack, scheduled_term, tables, call>>

(* Mutated form: the descriptors of the block's last owner stay. *)
FlagsOfLastOwner(p) == flags[p]

(* The flags execute gives the new process. *)
FlagsAtStart(p) == AllEmpty

(* execute: the lowest free block, all of its descriptors empty. *)
Execute(t, p) ==
    /\ Calling(t, p)
    /\ \E new \in Pids \ Live :
         /\ \A free \in Pids \ Live : new <= free
         /\ stack' = [stack EXCEPT ![t] = Append(@, new)]
         /\ openIndexes' = [openIndexes EXCEPT ![new] = AllEmpty]
         /\ flags' = [flags EXCEPT ![new] = FlagsAtStart(new)]
         /\ curr_pcb' = new
    /\ UNCHANGED <<scheduled_term, file, file_position, call>>

(* Mutated form: a base shell is ended like any other process. *)
Popped(t) == [stack EXCEPT ![t] = SubSeq(@, 1, Len(@) - 1)]

(* The processes of t after halt. *)
AfterHalt(t) ==
    [stack EXCEPT ![t] = IF Len(@) = 1 THEN @ ELSE SubSeq(@, 1, Len(@) - 1)]

(* halt: the close functions it calls (up to the first free index) change  *)
(* no descriptor; the block keeps its descriptors, and so does a base      *)
(* shell that starts over.                                                 *)
Halt(t, p) ==
    /\ Calling(t, p)
    /\ stack' = AfterHalt(t)
    /\ curr_pcb' = p
    /\ UNCHANGED <<scheduled_term, tables, call>>

-----------------------------------------------------------------------------
(* read and write, which can be preempted after each step. *)

(* sti, and curr_pcb is set. *)
Enters(t, p, op, fd, n) ==
    /\ Calling(t, p)
    /\ IF op = "read" THEN fd # 1 ELSE fd # 0
    /\ call' = [call EXCEPT ![t] = [op |-> op, fd |-> fd, nbytes |-> n,
                                    stage |-> "entered"]]
    /\ curr_pcb' = p
    /\ UNCHANGED <<stack, scheduled_term, tables>>

(* Is the descriptor full in the block that curr_pcb names now? *)
FullIn(q, fd) == fd < 2 \/ flags[q][fd] = "full"

Checks(t) ==
    /\ scheduled_term = t /\ call[t] # Idle /\ call[t].stage = "entered"
    /\ call' = IF FullIn(curr_pcb, call[t].fd)
               THEN [call EXCEPT ![t].stage = "checked"]
               ELSE [call EXCEPT ![t] = Idle]
    /\ UNCHANGED <<stack, scheduled_term, tables, curr_pcb>>

(* Mutated form: the driver uses the global as well. *)
GlobalPcb(t) == curr_pcb

(* The block whose descriptor read_file and read_directory use. *)
DriverPcb(t) == Current(t)

(* file_position after read_file: read_data reads nothing past the end.    *)
AfterReadFile(pos, n, length) ==
    IF pos > length THEN pos ELSE IF pos + n >= length THEN length ELSE pos + n

(* Mutated form: the descriptor is taken to be full. *)
AnyDescriptor(q, fd) == TRUE

(* The check of read_file and read_directory themselves. *)
FullForDriver(q, fd) == flags[q][fd] = "full"

(* file_position after the function of g was called for descriptor fd of q *)
(* to read n bytes.                                                        *)
Moved(q, fd, g, n) ==
    LET pos == file_position[q][fd] IN
    IF ~FullForDriver(q, fd) THEN pos
    ELSE CASE g.type = "file"      -> AfterReadFile(pos, n, file[q][fd].length)
           [] g.type = "directory" -> IF pos >= Directory THEN 0 ELSE pos + 1
           [] OTHER                -> pos

(* The function is taken from the block that curr_pcb names now, and runs. *)
Dispatches(t) ==
    /\ scheduled_term = t /\ call[t] # Idle /\ call[t].stage = "checked"
    /\ LET fd == call[t].fd
           q == DriverPcb(t)
       IN /\ fd \in OpenFds => file[curr_pcb][fd] # Nothing
          /\ IF call[t].op = "read" /\ fd \in OpenFds
             THEN file_position' = [file_position EXCEPT
                      ![q][fd] = Moved(q, fd, file[curr_pcb][fd], call[t].nbytes)]
             ELSE UNCHANGED file_position
    /\ call' = [call EXCEPT ![t] = Idle]
    /\ UNCHANGED <<stack, scheduled_term, flags, openIndexes, file, curr_pcb>>

(* The function was never set: the jump to address 0 is a page fault,      *)
(* whose handler halts the process.                                        *)
Faults(t) ==
    /\ scheduled_term = t /\ call[t] # Idle /\ call[t].stage = "checked"
    /\ call[t].fd \in OpenFds /\ file[curr_pcb][call[t].fd] = Nothing
    /\ stack' = AfterHalt(t)
    /\ call' = [call EXCEPT ![t] = Idle]
    /\ curr_pcb' = Current(t)
    /\ UNCHANGED <<scheduled_term, tables>>

(* The timer interrupt, which a program in user mode may also get. *)
Tick ==
    /\ scheduled_term' = (scheduled_term + 1) % NUM_TERMS
    /\ UNCHANGED <<stack, tables, curr_pcb, call>>

Next ==
    \E t \in Terms, p \in Pids :
        \/ \E f \in Files : Open(t, p, f)
        \/ OpenFails(t, p)
        \/ \E fd \in OpenFds : Close(t, p, fd)
        \/ Execute(t, p)
        \/ Halt(t, p)
        \/ \E op \in {"read", "write"}, fd \in 0 .. NUM_FDS - 1, n \in Sizes :
              Enters(t, p, op, fd, n)
        \/ Checks(t)
        \/ Dispatches(t)
        \/ Faults(t)
        \/ Tick

Spec == Init /\ [][Next]_vars

-----------------------------------------------------------------------------
(* Properties. *)

(* The two records of which descriptors are open agree through every open, *)
(* close, halt and reuse of a block: open never hands out a descriptor     *)
(* that is in use, and close makes every descriptor available again.       *)
IndexesAgree == flags = openIndexes

(* A read whose check looked at another process' open descriptor does not  *)
(* move the position of the caller's closed one: the drivers check again.  *)
ClosedStaysPut ==
    [][\A p \in Pids, fd \in OpenFds :
          flags[p][fd] = "empty" /\ flags'[p][fd] = "empty"
            => file_position'[p][fd] = file_position[p][fd]]_vars

(* A system call changes the descriptors of the process that makes it (or  *)
(* of the process it creates) and of no other, however the calls of        *)
(* several terminals overlap and although they share curr_pcb.             *)
OwnTableOnly ==
    [][\A p \in Live : p # Current(scheduled_term) =>
          /\ flags'[p] = flags[p]
          /\ openIndexes'[p] = openIndexes[p]
          /\ file'[p] = file[p]
          /\ file_position'[p] = file_position[p]]_vars

(* The jump table of the caller's own descriptor: "use the jumptable from  *)
(* the fd index to call the write function" (systemCall.c:381).            *)
RightDriver ==
    \A t \in Terms :
        LET fd == call[t].fd IN
        (scheduled_term = t /\ call[t] # Idle /\ call[t].stage = "checked"
           /\ fd \in OpenFds)
        => /\ flags[Current(t)][fd] = "full"
           /\ file[curr_pcb][fd] = file[Current(t)][fd]
=============================================================================
