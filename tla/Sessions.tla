------------------------------ MODULE Sessions ------------------------------
(***************************************************************************)
(* What the process subsystem promises, with no page directory, no TSS, no *)
(* saved stack pointers and no visible terminal in it.                     *)
(*                                                                         *)
(* Every terminal runs one foreground process.  A process that executes a  *)
(* program waits for it; when the program ends, its caller is foreground   *)
(* again and receives the status.  The processor turns round the terminals *)
(* and always runs the foreground process of the terminal whose turn it    *)
(* is.  Terminal t starts with its base shell, process t, which never ends.*)
(* Which terminal the user is looking at makes no difference.              *)
(***************************************************************************)
EXTENDS Integers

CONSTANTS Terminals,   \* a set of numbers: process t is the base shell of t
          Processes,   \* every process identity, base shells included
          Statuses,    \* what a program may end with
          NoReturn     \* no call of execute() has just returned

VARIABLES alive,       \* the processes that exist
          front,       \* the foreground process of each terminal
          caller,      \* who executed a process
          turn,        \* the terminal whose turn it is
          onCpu,       \* the process the processor runs
          result,      \* what execute() has just handed back to onCpu
          exitStatus   \* what the program that has just ended ended with

sessionVars == <<alive, front, caller, turn, onCpu, result, exitStatus>>

(* No call of execute() returns in this step. *)
ReturnsNothing == result' = NoReturn /\ exitStatus' = NoReturn

Init ==
    /\ alive = {}
    /\ front = [t \in Terminals |-> t]
    /\ caller \in [Processes -> Processes]
    /\ turn = 0
    /\ onCpu = 0
    /\ result = NoReturn
    /\ exitStatus = NoReturn

(* The processor passes to the base shell of a terminal that has none yet. *)
StartTerminal(t) ==
    /\ front[t] = t
    /\ t \notin alive
    /\ alive' = alive \cup {t}
    /\ caller' = [caller EXCEPT ![t] = t]
    /\ turn' = t
    /\ onCpu' = t
    /\ ReturnsNothing
    /\ UNCHANGED front

(* The processor passes to the foreground process of another terminal. *)
GiveTurn(t) ==
    /\ front[t] \in alive
    /\ turn' = t
    /\ onCpu' = front[t]
    /\ ReturnsNothing
    /\ UNCHANGED <<alive, front, caller>>

(* The running process executes a program: p becomes foreground. *)
Exec(p) ==
    /\ onCpu = front[turn]
    /\ p \notin alive \cup Terminals
    /\ alive' = alive \cup {p}
    /\ caller' = [caller EXCEPT ![p] = onCpu]
    /\ front' = [front EXCEPT ![turn] = p]
    /\ onCpu' = p
    /\ ReturnsNothing
    /\ UNCHANGED turn

(* The running process asked for a program that cannot be run.  It is told *)
(* so, except that a full table may look like a program that ended well.   *)
ExecFails ==
    /\ \/ result' = -1
       \/ alive = Processes /\ result' = 0
    /\ exitStatus' = NoReturn
    /\ UNCHANGED <<alive, front, caller, turn, onCpu>>

(* The running process, not a base shell, ends: its caller goes on with    *)
(* the status, which is 256 for an end by an exception, status 255.        *)
Exit ==
    /\ onCpu = front[turn]
    /\ onCpu \notin Terminals
    /\ alive' = alive \ {onCpu}
    /\ front' = [front EXCEPT ![turn] = caller[onCpu]]
    /\ onCpu' = caller[onCpu]
    /\ \E status \in Statuses :
         /\ exitStatus' = status
         /\ result' = IF status = 255 THEN 256 ELSE status
    /\ UNCHANGED <<caller, turn>>

(* Something happens that is none of the sessions' business: a base shell  *)
(* starts again, or the user looks at another terminal.                    *)
Elsewhere ==
    /\ ReturnsNothing
    /\ UNCHANGED <<alive, front, caller, turn, onCpu>>

Next ==
    \/ \E t \in Terminals : StartTerminal(t) \/ GiveTurn(t)
    \/ \E p \in Processes : Exec(p)
    \/ ExecFails
    \/ Exit
    \/ Elsewhere

Spec == Init /\ [][Next]_sessionVars
=============================================================================
