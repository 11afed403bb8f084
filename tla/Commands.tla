------------------------------ MODULE Commands ------------------------------
(***************************************************************************)
(* From the line a user types to what the program prints: the shells, the  *)
(* parsing in execute, the args buffer that all programs share, getargs,   *)
(* open and the loops of cat and ls over the file system.                  *)
(*                                                                         *)
(* One shell runs in each terminal and executes one program at a time.     *)
(* The system calls of different terminals interleave; process management  *)
(* and descriptors are the subject of Processes and Descriptors.           *)
(***************************************************************************)
EXTENDS FileSystem

CONSTANTS Terminals,
          Commands,     \* Commands[t]: the lines typed in terminal t
          ImageSize,    \* bytes that execute asks for: 0x400000
          ArgsSize,     \* bytes of args: BUFSIZE (128)
          ReadSizes,    \* the numbers of bytes that cat may ask for
          CAT, LS,      \* the names of the two programs
          DOT,          \* and the name of the directory
          ELF,          \* the bytes every executable starts with
          SP,           \* the space character
          Habits        \* what users do beyond the ordinary

ASSUME CommandsAssumption ==
    /\ ArgsSize \in Nat
    /\ ReadSizes \subseteq Nat \ {0}
    /\ \A d \in DOMAIN Entries : Entries[d].type \in 0 .. 2
    /\ \A n \in DOMAIN Inodes : ImageSize > Inodes[n].length
    /\ Habits \subseteq {"Overlaps", "TwoSpaces"}

VARIABLES args,    \* the arguments of the program executed last
          run      \* run[t]: the program that terminal t's shell waits for

vars == <<args, run>>

Shell == [at |-> "shell", typed |-> << >>, image |-> NoEntry, arg |-> << >>,
          file |-> NoEntry, position |-> 0, out |-> << >>, rval |-> 0]

Init == args = << >> /\ run = [t \in Terminals |-> Shell]

-----------------------------------------------------------------------------
(* execute. *)

Spaces(cmd) == {i \in DOMAIN cmd : cmd[i] = SP}
From(cmd, i) == SubSeq(cmd, i, Len(cmd))
UpTo(cmd, n) == SubSeq(cmd, 1, IF Len(cmd) < n THEN Len(cmd) ELSE n)

(* The name: the characters before the first space, as many as fit. *)
FunctionOf(cmd) ==
    LET end == IF Spaces(cmd) = {} THEN Len(cmd) ELSE Min(Spaces(cmd)) - 1
    IN UpTo(SubSeq(cmd, 1, end), FILENAME_LEN)

(* The arguments: the characters after the last space. *)
ArgsOf(cmd) ==
    IF Spaces(cmd) = {} THEN << >> ELSE UpTo(From(cmd, Max(Spaces(cmd)) + 1), ArgsSize)

(* Is it an executable? *)
Executable(d) == d # NoEntry /\ read_data(Entries[d].inode, 0, Len(ELF)) = ELF

(* A name that fills its buffer has no NUL: what follows in memory may     *)
(* make it too long to be found.                                           *)
Found(function, terminated) ==
    IF Len(function) = FILENAME_LEN /\ ~terminated THEN NoEntry
    ELSE read_dentry_by_name(function)

Waiting(t) == run[t].at = "started"

(* The shell reads a line and executes it.  args is replaced whether the   *)
(* program is found or not.                                                *)
Execute(t, cmd, terminated) ==
    LET image == Found(FunctionOf(cmd), terminated)
    IN
    /\ run[t].at = "shell" /\ cmd # << >>
    /\ "Overlaps" \in Habits \/ \A u \in Terminals : ~Waiting(u)
    /\ "TwoSpaces" \in Habits \/ Cardinality(Spaces(cmd)) <= 1
    /\ args' = ArgsOf(cmd)
    /\ run' = [run EXCEPT ![t] =
                 IF Executable(image)
                 THEN [Shell EXCEPT !.at = "started", !.typed = cmd, !.image = image]
                 ELSE [Shell EXCEPT !.typed = cmd, !.rval = Failure]]

-----------------------------------------------------------------------------
(* The programs. *)

Name(d) == Entries[d].name
Inode(t) == Entries[run[t].file].inode
IsClock(d) == Entries[d].type = 0
IsDirectory(d) == Entries[d].type = 1

(* cat: getargs, which fails when there are none. *)
GetArgs(t) ==
    /\ Waiting(t) /\ Name(run[t].image) = CAT
    /\ run' = [run EXCEPT ![t] =
                 IF args = << >> THEN [@ EXCEPT !.at = "ended", !.rval = 3]
                 ELSE [@ EXCEPT !.at = "opening", !.arg = args]]
    /\ UNCHANGED args

(* open of cat's argument, or of the directory by ls. *)
Open(t) ==
    LET file == read_dentry_by_name(IF Name(run[t].image) = LS THEN DOT ELSE run[t].arg)
    IN
    /\ run[t].at = "opening" \/ (Waiting(t) /\ Name(run[t].image) = LS)
    /\ run' = [run EXCEPT ![t] =
                 IF file = NoEntry THEN [@ EXCEPT !.at = "ended", !.rval = 2]
                 ELSE [@ EXCEPT !.at = "reading", !.file = file]]
    /\ UNCHANGED args

(* A turn of the loop: read from a file and write what was read. *)
CopyFile(t, nbytes) ==
    LET r == run[t]
        text == read_file(Inode(t), r.position, nbytes)
    IN
    /\ r.at = "reading" /\ ~IsDirectory(r.file) /\ ~IsClock(r.file)
    /\ run' = [run EXCEPT ![t] =
                 IF text = << >> THEN [r EXCEPT !.at = "ended"]
                 ELSE [r EXCEPT !.out = r.out \o text,
                                !.position = r.position + Len(text)]]
    /\ UNCHANGED args

(* The same for a directory: one name for each read. *)
CopyNames(t) ==
    LET r == run[t]
        name == read_directory(r.position)
    IN
    /\ r.at = "reading" /\ IsDirectory(r.file)
    /\ run' = [run EXCEPT ![t] =
                 [r EXCEPT !.position = NextPosition(r.position),
                           !.at = IF name = << >> THEN "ended" ELSE r.at,
                           !.out = IF name = << >> THEN r.out ELSE Append(r.out, name)]]
    /\ UNCHANGED args

(* Mutated form: the handler of the clock wakes up another terminal. *)
ReadClockWaits(t) ==
    /\ run[t].at = "reading" /\ IsClock(run[t].file)
    /\ UNCHANGED vars

(* A read of the clock returns 0 once its time has come: the loop ends.    *)
ReadClock(t) ==
    /\ run[t].at = "reading" /\ IsClock(run[t].file)
    /\ run' = [run EXCEPT ![t].at = "ended"]
    /\ UNCHANGED args

(* halt: the shell's execute returns. *)
Halt(t) ==
    /\ run[t].at = "ended"
    /\ run' = [run EXCEPT ![t] = [Shell EXCEPT !.rval = run[t].rval]]
    /\ UNCHANGED args

Program(t) ==
    \/ GetArgs(t) \/ Open(t) \/ CopyNames(t) \/ ReadClock(t) \/ Halt(t)
    \/ \E nbytes \in ReadSizes : CopyFile(t, nbytes)

Next ==
    \E t \in Terminals :
        \/ \E cmd \in Commands[t], terminated \in BOOLEAN : Execute(t, cmd, terminated)
        \/ Program(t)

Spec == Init /\ [][Next]_vars

(* A program is scheduled again and again. *)
FairSpec == Spec /\ \A t \in Terminals : WF_vars(Program(t))

-----------------------------------------------------------------------------
(* Properties. *)

(* What is typed: a name, and the rest of the line after a space. *)
TypedName(cmd) == IF Spaces(cmd) = {} THEN cmd ELSE SubSeq(cmd, 1, Min(Spaces(cmd)) - 1)
TypedRest(cmd) == IF Spaces(cmd) = {} THEN << >> ELSE From(cmd, Min(Spaces(cmd)) + 1)
Contents(n) == [i \in 1 .. Inodes[n].length |-> ByteAt(n, i - 1)]
Listing == [d \in 1 .. Len(Entries) |-> Name(d)]
TextOf(d) == IF IsClock(d) THEN << >>
             ELSE IF IsDirectory(d) THEN Listing ELSE Contents(Entries[d].inode)

TypeOK ==
    /\ Len(args) <= ArgsSize
    /\ \A t \in Terminals :
         /\ run[t].at \in {"shell", "started", "opening", "reading", "ended"}
         /\ run[t].image \in DOMAIN Entries \cup {NoEntry}
         /\ run[t].file \in DOMAIN Entries \cup {NoEntry}
         /\ run[t].rval \in {Failure, 0, 2, 3}

(* The program that runs is the executable with the name that was typed,   *)
(* and a typed name of an executable that fits its buffer is executed.     *)
RunsWhatWasTyped ==
    \A t \in Terminals :
        LET name == TypedName(run[t].typed) IN
        /\ run[t].image # NoEntry /\ Len(name) <= FILENAME_LEN =>
              Name(run[t].image) = name /\ Executable(run[t].image)
        /\ run[t].at = "shell" /\ run[t].typed # << >> /\ Len(name) < FILENAME_LEN =>
              ~\E d \in DOMAIN Entries : Name(d) = name /\ Executable(d)

(* cat and ls end having printed all of what was asked for, block by block *)
(* and name by name, and never a byte that is not in the file; of the      *)
(* clock they print nothing.                                               *)
PrintsWhatWasTyped ==
    \A t \in Terminals :
        LET r == run[t]
            whole == TextOf(r.file)
        IN r.file # NoEntry =>
             /\ Name(r.file) = IF Name(r.image) = LS THEN DOT ELSE TypedRest(r.typed)
             /\ Len(r.out) <= Len(whole) /\ r.out = SubSeq(whole, 1, Len(r.out))
             /\ r.at = "ended" => r.out = whole

(* "if file name length is greater than 32 exit" (file_systems.c:28): no    *)
(* program runs whose typed name is longer than a name may be.             *)
LongNamesFail ==
    \A t \in Terminals :
        run[t].image # NoEntry => Len(TypedName(run[t].typed)) <= FILENAME_LEN

(* execute's read_data, which asks for much more than any file has, loads  *)
(* all of the file.                                                        *)
LoadsWholeImage ==
    \A t \in Terminals :
        run[t].image # NoEntry =>
            LET n == Entries[run[t].image].inode
                image == read_data(n, 0, ImageSize)
            IN /\ Len(image) >= Inodes[n].length
               /\ SubSeq(image, 1, Inodes[n].length) = Contents(n)

(* Every command that was typed gives the shell back: the loop over a file *)
(* ends, wherever its end lies in a block and whatever sizes are read.     *)
CommandsEnd == \A t \in Terminals : run[t].at # "shell" ~> run[t].at = "shell"
=============================================================================
