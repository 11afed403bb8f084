# A TLA+ model of the Simplified Linux Operating System

The repository is a 32-bit x86 teaching kernel (`src/student-distrib/`): three
terminals, at most six processes, a round-robin scheduler driven by the PIT, a
keyboard, a virtualised real-time clock and a read-only file system. There is one
processor. What makes the kernel hard is that every interrupt handler and every
system call shares global variables (`curr_pcb`, `term_buf`, `keyboard_buf`,
`args`, `video_mem`'s mapping, the page directory and the TSS), that the
program that has the processor (`scheduled_term`) and the terminal the user looks
at (`currentTerminal`) change independently, and that the context switch is done
by hand, by loading stack pointers saved earlier.

File and line references below are relative to `src/student-distrib/`.

## 1. Inventory

| Part | State | Operations | Interacts with |
| --- | --- | --- | --- |
| Processes (`systemCall.c`) | `pcb_arr`, PCBs (`parent`, `esp`/`ebp`, `fdArray`, `openIndexes`), `curr_pcb`, `args` | `execute`, `halt`, `getargs` | scheduler tables, page directory, TSS, file system |
| Scheduler (`scheduling.c`) | `curr_pid_for_term`, `parent_pid_for_term`, `scheduled_term`, `terminalInstantiated`, `doneInstantiating` | `pit_handler`, `set_paging_scheduling` | executes the base shells of terminals 2 and 3; switches the visible terminal during boot |
| Keyboard (`keyboard.c`) | `keyboard_buf`, `buf_idx`, one saved buffer per terminal, `recentTermChoice`, modifier flags | `keyboard_handler` and its helpers, `terminal_changing_handler` | `_enter_flag` and `term_buf` of the terminal, the console, the video mapping |
| Terminal (`terminal.c`) | `term_buf`, `terminal_switch_array`, `_enter_flag`, `termReadFlag` | `terminal_read`, `terminal_write`, `terminal_close` | waits for the keyboard; called through descriptors and by `halt` |
| Descriptors (`systemCall.c`) | `fdArray`, `openIndexes`, `curr_pcb` | `open`, `close`, `read`, `write` | jump tables of the drivers |
| File system (`file_systems.c`) | a read-only image; `file_position` | `read_dentry_by_name/index`, `read_data`, `read_file`, `read_directory` | descriptors; `execute` loads programs |
| RTC (`rtc.c`) | `freq_count`, `curr_count`, `flag`, per terminal | `rtc_handler`, `rtc_open/read/write/close` | descriptors, scheduler |
| Console (`lib.c`) | cursor per terminal, video memory, `keyboardPutCFlag` | `putc`, `keyboardputc`, `clear`, `printf` | keyboard, programs, video mapping |
| Paging and video (`paging.c`) | page directory, page tables, `currentTerminal` | `paging_init`, `terminal_changing`, `vidmap` | scheduler, keyboard |
| Interrupts (`i8259.c`, `exception_handlers.c`, `*.S`) | PIC masks and in-service bits, IDT, what is on each kernel stack | EOI, masking, exceptions, which call `halt(255)` | all of the above |
| Boot (`kernel.c`) | - | `entry`: initialisation, then the first `execute` | all of the above |

What is hard in it:

- **Interleaving.** A timer, keyboard or RTC interrupt comes between any two
  instructions of a user program, and inside `read` and `write`, which enable
  interrupts. `terminal_read` and `rtc_read` spin on flags that handlers set.
- **Two notions of "current terminal".** `execute` files a process under the visible
  terminal, `halt` under the scheduled one; `term_buf` belongs to the visible
  terminal, its readers to the scheduled one.
- **Saved stack pointers** are good for one resumption; the order in which
  `execute`, `halt` and `pit_handler` save and load them decides whether the kernel
  survives.
- **Interrupts come back on by the way.** `putc` ends with `sti`, whoever calls it, and
  `tab_helper` acknowledges its interrupt once for every space: a keyboard handler can be
  interrupted halfway, and its terminal be out of turn until its acknowledgement is sent.
- **Mappings as state.** Which screen a program prints to is decided by page tables that
  the timer, a switch, `vidmap` and `keyboardputc` change.
- **Limits and boundaries**: six control blocks, 128-byte lines, eight descriptors,
  a clock divided by counting down to zero.

What makes each part correct: one process per terminal runs and resumes where it
stopped, on its own memory and stack (processes, scheduler); a line entered in a
terminal reaches a program of that terminal, whole and once (keyboard, terminal);
a system call acts on its caller's descriptors (descriptors); a read of the clock
ends with the terminal's own period (rtc); the bytes of a file are returned in
order up to its end (file system); a terminal's output appears on that terminal
(console, video); a line in service has its handler, and every key is handled once and
in order (interrupts); a command runs the program it names on the arguments it gives
(execute, getargs).

## 2. Modules

| Module | Models |
| --- | --- |
| `Sessions` | abstract: a session of processes per terminal, served in turn |
| `Processes` | `execute`, `halt`, `pit_handler`, Alt+Fn, the first `execute`; implements `Sessions` |
| `Lines` | abstract: a line discipline with nothing shared between terminals |
| `Terminals` | the keyboard handler, the switch of terminals, `terminal_read`, `terminal_close`; implements `Lines` |
| `Rtc` | the virtualised clock |
| `Descriptors` | `open`, `close`, `read`, `write` and what `execute` and `halt` do to descriptors |
| `Cells` | pure: what `putc` makes of a screen and its cursor |
| `Screens` | abstract: a screen of its own for every terminal |
| `Console` | `putc`, `keyboardputc`, `clear`, the page tables of video memory, `vidmap`, `terminal_changing`; implements `Screens` |
| `FileSystem` | pure: `read_dentry_by_name`, `read_data`, `read_file`, `read_directory` over a disk |
| `Commands` | the shells, `execute`'s parsing and `args`, `getargs`, the loops of `cat` and `ls`; uses `FileSystem` |
| `MCCommands` | a small disk for `Commands` |
| `Interrupts` | the controllers, the IDT's gates, nesting and preemption of handlers, the order of `entry` |
| `Cells_proofs` | lemmas about `putc`, its cursor and a text on a screen |
| `*_proofs` | theorems about `Processes`, `Rtc`, `Descriptors`, `Terminals`, `Console`, `Commands`, `Interrupts` |

Each module keeps the names of the C variables and functions. A handler that runs with
interrupts disabled (`execute`, `halt`, `pit_handler`, `open`, `close`, which enter
through interrupt gates, and the keyboard handler, whose interrupt is acknowledged last)
is one action. A function that can be preempted is one action per step between which a
preemption makes a difference: `terminal_read` is three (call, loop and flag reset, copy),
`read` and `write` three (assignment of `curr_pcb`, check, dispatch), `rtc_read` two,
`keyboardputc` two. Mutated forms of an operator stand before it, named and marked;
nothing uses them.

### Processes

A kernel stack is represented by the process it belongs to: `esp[p] = p` says that
the context saved in `p`'s PCB points into `p`'s own stack at a live frame, `Stale`
that the frame has been used or its stack is gone. `running` is the process whose
code the processor executes; it moves only through the `iret` of `execute` and the
`leave; ret` of `halt` and `pit_handler`, and becomes `Stale` if one of them loads a
pointer that is not valid. The hardware that the code drives is `user_page` (the 4 MB
page at 128 MB) and `tss_esp0`. `Init` is the state in which `entry` calls `execute`.
That `pit_handler`, `execute` and `halt` are not interrupted before they have switched
is what `Interrupts` shows.

Two constants name what the user and the programs do:

- `BackgroundExec`: may a process call `execute` while its terminal is hidden?
  `execute` registers the process under `currentTerminal` (lines 235-236, 261), so
  with `TRUE` the tables and the processor part company. This happens when the user
  presses Enter and Alt+Fn before the shell's next turn, or when a program executes
  another one in the background. The run `background_exec` shows it.
- `EarlyExec`: may a process call `execute` before the timer has started all three
  shells? Then it gets pid 1 or 2, which `halt` takes for a base shell
  (`systemCall.c:38`), and when it ends it starts again instead of returning to its
  caller: `EarlyExec.cfg` violates `OnlyBaseShellsRestart`. It needs a line that is
  entered in the first two time slices (the controller buffers keys).

With both `FALSE`, everything below holds. With the table full, `execute` returns 0
(`systemCall.c:205`), although the comments at 197 and 204 say -1; the model returns
what the code returns, and a missing file is found before the table is seen full.
`Sessions` says exactly which status a caller gets: that of its program, 256 for one
killed by an exception, -1 for an `execute` that fails, or 0 with all blocks taken.
`FailureIsReported`, what the comments promise, is violated under `FullTable.cfg`.
`ended`, the status with which a program has just ended, is a history variable.

### Terminals

The state is the code's: one `keyboard_buf` and `term_buf`, those of the visible
terminal, and saved copies. A buffer is a function from indexes to characters. Of
the two elements of `recentTermChoice` only `CURR_TERM` is kept, as `PREV_TERM` is only
ever read in the handler that has just set it. Ctrl+L, Shift and Caps Lock change no
buffer. The escape and backquote keys, whose table entry is 0, put a NUL into the
line (`keyboard.c:316`: the table is consulted and only -1 ignored); they are left
out of `Keys`, so the results are about lines without them.

The keyboard handler is one action here although its echo can be preempted: what
follows the echo touches only `keyboard_buf` and `buf_idx`, which no reader uses.

`unread`, `overrun` and `returned` are history: the terminals whose entered line has
not been read, whether a byte was written outside `keyboard_buf`, and the result of
the last read. Four constants name what the user and the programs do:

- `Hurry`: Enter or a function key before the visible terminal's entered line was
  read. `term_buf` is one buffer: in the run `hurry`, Alt+F2 between the end of
  `terminal_read`'s wait and its copy makes the read return NULs (`ReadEndsLine`).
- `BackgroundHalts`: a program of a hidden terminal ends while the visible
  terminal's line is unread; `terminal_close` empties `term_buf`, and the read returns
  NULs (`ReadEndsLine`, `BackgroundHalt.cfg`).
- `FullLines`: Space or Enter on a line of 127 characters. `buffer_clear` writes a
  newline one byte past `keyboard_buf` (`NoOverrun`, `FullLine.cfg`). What lies there is
  not modelled, so the passing run ends lines before that.
- `PlainFKeys`: F1 to F3 without Alt; `f_helper` updates `recentTermChoice` although
  nothing is switched, and the next Alt+Fn saves the buffers under the wrong terminal
  (`FKeysKeepLines`, `PlainFKeys.cfg`).

With all `FALSE` the shared buffers implement `Lines`. `Lines` says exactly how much a
read gets: the whole line, or one byte more than it asked for (`terminal.c:102`),
against `systemCall.c:335` (`NoMoreThanAsked`, violated under `OneTooMany.cfg`).

### Rtc

One action per driver function, `rtc_read` in two steps. `curr_count` is left alone
by `rtc_open` and `rtc_write`, as in the code: the period in progress keeps its
length. `reload`, `left` and `waited` are history. A read that finds `n` interrupts
still to count ends with interrupt `n + 1`, neither sooner nor later (`ReadBounded`), so
a period is `freq_count + 1` interrupts. The comments (`rtc.c:77`, 108) say
`freq_count`: `ReadWithinPeriod`, violated under `RtcPeriod.cfg`. That the chip's rate of
3 is 1024 Hz (line 12) is the code's belief about the hardware and outside the model.

### Descriptors

Each terminal's processes are a stack; that the kernel's tables amount to that is
what `Processes` shows. A descriptor has flags, an index flag, what was opened (its
jump table and inode, as a type and a length) and a position; closing leaves the jump
table in place. `read` and `write` are interruptible and look at `curr_pcb` after
every step; the drivers compute their PCB themselves. A jump through a table that was
never set is a page fault, whose handler halts the process (`Faults`). Descriptors 0
and 1 are always full and always the terminal's; what reading them does is in
`Terminals`, and what opening and reading the clock do in `Rtc`. The PCB's `terminal`
field is written and never read, so it has no variable.

### Cells, Screens and Console

`Cells` is the arithmetic of `putc`: a position in the row-major screen, wrapping,
scrolling, newline, and the backspace, whose column goes below 0 and is brought back by
C's remainder, which is negative for a negative number (`CRem`). A cell holds a
character; attributes are left out.

`Console` has the physical screen (page `VIDEO`) and a page per terminal for its screen
while it is hidden, and the two virtual pages whose mapping changes: the one the kernel
prints to (`kernelPage`) and the one `vidmap` gives to a program (`userPage`). A character
of a write is an action, as `putc` has interrupts disabled. `keyboardputc` is two: up to
the `sti` at the end of `putc` (`EchoBegins`), and the rest, which restores the mapping
(`EchoEnds`). A timer tick may come in between, in every echo. `Ctrl+L` is a step that
clears, a `keyboardputc` for every character of the line, between which and within which
ticks may come too, and `clear_help`. The line typed is a sequence here; that the shared
`keyboard_buf` amounts to that is `Terminals`.

`Screens` has no pages and no mappings: a program prints and draws on the screen of its
own terminal, a key writes on the one shown, a switch changes none. The preempted echo
leaves `keyboardPutCFlag` up, and then the code breaks this simplest form: what another
program prints meanwhile goes to its own screen's memory but is put at the cursor of the
visible terminal (the run `echo_preempted`). `Screens` therefore lets a program print at
that cursor while an echo is in progress, and only then. `unseen` is history: why a
terminal's line may not be shown before its cursor. It was typed ahead of the read,
something else was printed at its cursor, or Ctrl+L found it a row long or longer.
`Habits` names what is left out of the passing run, and one that is in it:

- `PrintsBackspace` (in the passing run): a program prints a backspace. It moves the
  visible terminal's cursor, whatever terminal the program is on.
- `TypesAtBoot`: a key is echoed while the shells start. `pit_handler` changes the visible
  terminal meanwhile, and `keyboardputc` restores a mapping that is no longer right
  (`OwnScreenMapped`, `TypedAtBoot.cfg`).
- `ErasesBareTop`: a backspace that empties the line at column 1 of the top row, as after
  Ctrl+L, `a`, Backspace. The row is decremented, below 0 (`CursorOnScreen`,
  `BareLine.cfg`).

Ctrl+L with a line of 80 characters or more needs no habit: `clear_help` puts the cursor
beyond the row, which `LongLineShown` (`LongLine.cfg`) shows and `unseen` remembers.

### FileSystem and Commands

`FileSystem` is operators over a disk given as constants. A name is a sequence of
characters, a file a list of block numbers, and `read_data`'s loop is the number of
bytes after which it stops (`Copied`): it looks for the end of the file only where a
block ends, and stops only when it has read past it. That is exact only because
`read_file` shortens the request first. `int32_t` and `uint32_t` wrap at `Word`.

`Commands` has one shell per terminal, which executes one command at a time, and
`args`, the buffer that all commands share. `execute` takes the characters before the
first space as the name, as many as fit, and those after the last space as the
arguments. A name of `FILENAME_LEN` characters or more is not terminated; what follows
in memory decides whether it is found, so `Found` has both outcomes, and a longer name
may run the program of its first characters (`LongNamesFail`, `LongName.cfg`). `cat` and
`ls` are the loops of `src/syscalls/`, over all sizes of reads. An entry of type 0 is the
clock: `cat` reads 0 bytes from it and prints nothing. The model starts with all shells
running, whose own `execute` has cleared `args`; a base shell that `halt` starts again is
resumed without `execute`, and leaves `args` alone. `Habits`:

- `Overlaps`: a command in another terminal between `execute` and `getargs` (the run
  `arguments`).
- `TwoSpaces`: a command with two spaces, whose arguments are cut
  (`PrintsWhatWasTyped`, `TwoSpaces.cfg`).

### Interrupts

Each terminal has a kernel stack, the sequence of what runs on it: the program, a system
call, keyboard handlers. A handler is interrupted wherever the code has interrupts
enabled: after `putc`'s `sti` in `keyboardputc`, and in `tab_helper`, which sends the
end of interrupt after every space. Enter is such a handler while a program reads, in
`buffer_clear`'s echo of the newline, before the buffer is cleared and the interrupt
acknowledged; so is Ctrl+L, which echoes the line, and Backspace (`KeyStored`,
`KeyKept`). Handled at once (`KeyAtOnce`) are the keys that echo nothing: those without a
character, a character on a full line, Backspace on an empty one, and Ctrl+L when there is
nothing to draw. `pit_handler` sends its own and leaves the stack for
the next terminal's; what it interrupted goes on when that terminal has its turn again.
`BootSteps` is the order of `entry`, beginning with the `printf` that enables
interrupts before there is an IDT (`InterruptsEarly.cfg`). The controllers and the
keyboard are external: priorities, masks, in-service bits, one request per line, and
scan codes that wait. `i8259_init` is one step: between its last ICW4 and the writes of
the masks all lines are open for a moment, which is left out. `Habits`:

- `HurriesAfterTab`: another key that changes the line while the spaces of a tab are being
  inserted (the tab's own release, and other silent keys, may come there in every run).
  Its handler runs between the store of a space and the increment of `buf_idx`, and
  both `LineAsTyped` (`HurriedTab.cfg`) and `InServiceIsHandled` fail.
- `TypesAtBoot`: a key before `i8259_init`. The controller forgets the request, and
  `keyboard_init` does not read the port: no other key is ever requested
  (`KeysAreHandled`).

## 3. Runs

| Run | Question | Bounds |
| --- | --- | --- |
| `processes` | Do all interleavings of `execute`, `halt`, timer and Alt+Fn keep tables, memory and stacks in step, implement `Sessions` and starve nobody? | the kernel's own: 3 terminals, 6 blocks |
| `background_exec` (violated) | The tables name the running process, whoever executes and when | as above |
| `terminals` | Do the shared buffers implement a line per terminal, and is every entered line read? | 2 terminals, lines of 2 characters and the newline, tabs of 2, reads of 1 and 3 bytes |
| `hurry` (violated) | A read returns a line of its own terminal, whatever the user presses meanwhile | as above |
| `rtc` | Does every read of the clock wait for a new tick, take exactly what is left of the period in progress, and end? | 2 terminals, 4 interrupts a second for the code's 1024: periods of 1, 2 and 4 |
| `descriptors` | Do open, close, read, write, execute and halt keep every process' descriptors its own? | 2 terminals, 3 processes, descriptors 0 to 3, one file of 1 byte, a directory of 1 entry, 2 descriptors ever opened |
| `right_driver` (violated) | A call goes through the caller's own jump table | as above |
| `console` | Do the mappings, the cursor and the echo, preempted anywhere, give each terminal a screen of its own, with the line that is typed on it? | 2 terminals, 2 rows of 3 columns, lines of 4, 4 characters of output |
| `echo_preempted` (violated) | A program's output moves no cursor but its own | as above |
| `commands` | Does every line typed run the program named, on its arguments, print all of the file and give the shell back? | 2 terminals; all lines of up to 4 characters in one, 3 commands in the other; blocks of 2 bytes, files of 0 to 5, a directory and a clock, reads of 1, 3 and 4 |
| `arguments` (violated) | The same with commands that overlap | as above |
| `interrupts` | Is every line in service handled by one handler on some stack, the line typed the one the keys make, and every key read? | 2 terminals, 3 keys, 2 of them waiting, lines of 3 characters, tabs of 2 |

Beside these stand configurations that show what the habits of section 2 break, and
where the code is not what a comment says. Under each of them TLC finds its one
property violated, within seconds:

| Configuration | Module | Property | What happens |
| --- | --- | --- | --- |
| `EarlyExec.cfg` | `Processes` | `OnlyBaseShellsRestart` | a program executed before all shells run is started again by its own `halt` |
| `FullTable.cfg` | `Processes` | `FailureIsReported` | `execute` with all blocks taken returns 0 |
| `BackgroundHalt.cfg` | `Terminals` | `ReadEndsLine` | a hidden program's end empties the visible terminal's line |
| `FullLine.cfg` | `Terminals` | `NoOverrun` | Enter on a full line writes past `keyboard_buf` |
| `PlainFKeys.cfg` | `Terminals` | `FKeysKeepLines` | F2 without Alt, then Alt+F1: a line is saved for the wrong terminal |
| `OneTooMany.cfg` | `Terminals` | `NoMoreThanAsked` | a read of a longer line gets a byte more than it asked for |
| `RtcPeriod.cfg` | `Rtc` | `ReadWithinPeriod` | a period is `freq_count + 1` interrupts |
| `TypedAtBoot.cfg` | `Console` | `OwnScreenMapped` | an echo while the shells start restores a stale mapping |
| `BareLine.cfg` | `Console` | `CursorOnScreen` | Backspace on the top row takes the cursor above the screen |
| `LongLine.cfg` | `Console` | `LongLineShown` | Ctrl+L with a long line puts the cursor beyond the row |
| `TwoSpaces.cfg` | `MCCommands` | `PrintsWhatWasTyped` | the arguments begin after the last space |
| `LongName.cfg` | `MCCommands` | `LongNamesFail` | a name that is too long runs the program of its beginning |
| `HurriedTab.cfg` | `Interrupts` | `LineAsTyped` | a key pressed during Tab's spaces takes the place of one |
| `InterruptsEarly.cfg` | `Interrupts` | `InterruptsAfterIdt` | `printf` enables interrupts before there is an IDT |

Why the bounds are enough. `processes` uses the kernel's sizes; its state space is
finite without a bound. In `terminals` two terminals make every pair of "mine" and
"the other's" that the shared buffers can confuse; two characters make an empty, a
partial and a full line, and reads of 1 and 3 bytes a beginning and a whole line. One
character stands for all, as no code compares the characters of a line with each
other; lines of different terminals are told apart by their lengths. In `rtc` the
periods 1, 2 and 4 are the chip's own frequency, the one `rtc_open` sets and a longer
one; terminals interact through `scheduled_term` only. In `descriptors` two opened
descriptors (`MaxUsed`) are two of one process or one each of two that race, and the
third block is created, left and reused. In `console` four characters fill more than a
row of three, so that a line wraps, scrolls the two rows and is erased across the wrap.
In `commands` the files end within a block, at its end and at once, one has its blocks
out of order, names are as long as their field and beginnings of one another, and the
reads are shorter than, as long as and longer than what is left. In `interrupts` three
keys are one that is preempted, one that waits and one that finds the line full.

Properties worth reading first: `ResumePointsValid`, `OneResumer` and
`ImplementsSessions` (Processes); `ImplementsLines` and `EditConsistent`
(Terminals); `ReadReturns` (Rtc); `OwnTableOnly` (Descriptors), which is bug 8 of
`src/buglog.txt:144`; `ImplementsScreens` and `LineShown` (Console);
`PrintsWhatWasTyped` (Commands); `InServiceIsHandled` and `LineAsTyped` (Interrupts).

Fairness. The timer and RTC interrupts keep coming (weak fairness): no user program
can disable interrupts, and every path of the kernel that does ends in an `iret` or
enables them again. A program that spins in `terminal_read` or `rtc_read` is only
able to look at its flag while it is scheduled, so its steps get strong fairness: a
time slice (20 ms) is longer than one turn of the loop. `Interrupts` says the same of
what runs on each stack (strong fairness of a terminal's steps while it is scheduled),
requests the timer again and again, and lets the processor accept a request that it
could accept infinitely often: the handlers together need far less than a slice. A
system call that has interrupts disabled enables them or returns. In `Commands` a
program that can make a system call does (weak fairness). No fairness is assumed of
the user or of what programs call.

## 4. Proofs

`Processes_proofs` proves, for any number of terminals and of control blocks (at
least one block per terminal):

- `TypeCorrect`: `Spec => []TypeOK`, with no assumption on the environment.
- `Invariance`: `Disciplined => (Spec => []IInv)`, where `Disciplined` says that
  `BackgroundExec` and `EarlyExec` are `FALSE`.
- `SafeSwitching`: `CurrentPidRuns`, `OwnMemory`, `ResumePointsValid` and
  `ParentTableAgrees`.
- `OneResumerInvariant`: `OneResumer`.
- `Refinement`: under `Disciplined`, `Processes` implements `Sessions`.
- `SessionsArePartition`: `SessionsPartition`, under `Disciplined`.

None of `CurrentPidRuns`, `OwnMemory`, `ResumePointsValid` and `ParentTableAgrees` is
inductive. That `halt` resumes its caller on a live frame needs that the caller waits
for the halting process and for no other (`CallersWait`, `CurrentsLead`), that the
parent recorded per terminal is that of the PCB, and that the base shells, whose pids
are decided by which block is free, come up in order (`BootOrder`, `BaseShells`).
`IInv` is their conjunction; the run `processes` checks it too. The proof has a lemma
per handler (`ExecuteStep`, `HaltStep`, `KernelEntryStep`, `PitInstantiatesStep`,
`PitSwitchesStep`), whose steps are the conjuncts the handler can disturb. The
refinement uses `IInv` for the two facts `Sessions` relies on: the running process is
the foreground one, and its caller is the one the table gives.

`IInv` says of a process who its parent is and who waits for it, not where its chain of
ancestors ends: a ring of processes that wait for each other satisfies it. For
`SessionsPartition` the invariant is therefore `SessionsAreChains`: there is a sequence
of processes per terminal, from its base shell to its current process, without
repetition, that together are all the live ones. It is kept by the steps of `Sessions`
(`ChainsStart`, `ChainsExec`, `ChainsExit`, `ChainsKept`), which the processes implement
(`SessionsStep`). A chain has no more members than there are control blocks
(`ChainsFit`, a pigeonhole), so `SessionOf`, which follows `MAX_PCB` parents, reaches
its base shell and stays there (`SessionIsChain`).

`Rtc_proofs` proves, for any number of terminals and any frequency of the chip above
1, and with no assumption on what programs call:

- `RtcTypeCorrect`: `Spec => []TypeOK`.
- `ReadsEndInTime`: `Spec => [](ReadWaits /\ ReadBounded)`: the read ends with the interrupt
  that ends the period in progress, no other.

The inductive invariant, `RtcInv`, adds `CountWithinReload`: a read may start in the
middle of a period, and is bounded by it only because the counter never exceeds what
it was last reloaded with, which no change of frequency alters. `RtcInvariance` states
it, from a lemma for the interrupt, one for the calls that set a frequency, one for the
two steps of `rtc_read` and one for the scheduler.

`Descriptors_proofs` proves, for any number of terminals, processes, descriptors and
kinds of files, and with no assumption on what programs call:

- `DescriptorInvariant`: `Spec => [](TypeOK /\ IndexesAgree)`.
- `DescriptorsArePrivate`: `OwnTableOnly` and `ClosedStaysPut`, which are properties of
  steps. The second is about the position of a closed descriptor; its jump table stays
  because `close` leaves it alone.

The inductive invariant `DInv` says little more than the properties, and nothing of
`curr_pcb` but its type: the drivers compute their control block again, which is why a
`curr_pcb` replaced by another terminal's call does no harm to a table (the call may
still go to the wrong driver: `right_driver`).

`Terminals_proofs` proves, for any number of terminals, any `BUFSIZE` above 1, any width
of a tab and sizes of reads, and for a user and programs without the four habits
(`Patient`):

- `LinesAreIntact`: `TypeOK`, `EditConsistent` and `ReadEndsLine`.
- `GivesEveryTerminalALine`: `Terminals` implements `Lines`.

`TInv` adds to the properties that every terminal's buffer, saved or not, is `buf_idx`
characters followed by NULs (`LineOK`), that only the visible terminal has an unread
line, which ends within `term_buf` (`OneUnread`), and that the flags lag behind it in the
right order (`FlagsFollow`). The refinement has a lemma per action, on sequences
(`LineExtended`, `LineOfFacts`).

`Console_proofs` proves, for any number of terminals, size of the screen and length of
the line:

- `TypeCorrect`: `TypeOK`, with no assumption.
- `OwnScreen`: `OwnScreenMapped`, when no key is echoed while the shells start
  (`SettledDown`).
- `GivesEveryTerminalAScreen`: under `SettledDown`, `Console` implements `Screens`.
- `CursorsStayOnScreen`: `CursorOnScreen`, when no backspace empties a line in the top left
  corner, and a line is shorter than the screen (`Careful`).
- `LineIsShown`: `LineShown`, under `SettledDown` and `Careful`, and when a prompt and a line
  fit in two rows (`Fits`).

In all of them the timer may tick within every echo and between the echoes of a Ctrl+L,
and programs may print backspaces. `CInv` says which physical pages the two virtual pages
lead to, and what `keyboardputc` will restore: while an echo is preempted, the mapping of
the terminal it interrupted, so it is right again when that terminal runs. What a
character does to a screen is a parameter of that argument: it holds for any `PutC`.

The other theorems rest on what `putc` does, stated once in `Cells_proofs` for a screen
of any size: `CursorOK` (`CursorsOK` for all terminals) lets the column go below 0 only
where there is a row above, which is what makes the cursor invariant inductive
(`PutKeepsCursor`, `ErasedKeepsCursor`). `ShownInv` adds to `LineShown` in which row the line
starts, and that it reaches no third one: otherwise an erased character could be the one
that a scroll has taken away. `PutShows`, `ErasedShows` and `NewlineShows` say
that a character, a backspace and a newline keep it there, and `RedrawShows` that Ctrl+L
puts it there a character at a time. `Fits`
is true of 25 rows of 80 columns, the kernel's lines of 127 characters and its prompt of
seven, and it is sharp: with rows of 3, a prompt of 1 and lines of 5, TLC finds `LineShown`
violated.

`Commands_proofs` proves, for every disk with different, non-empty names, existing inodes
and entries of the three types there are (clock, directory, file), every block size, all
sizes of reads and every set of commands that fit (`Calm`, which also excludes the two
habits and requires positions to stay far from 32 bits):

- `TypedProgramsRun`: `RunsWhatWasTyped`.
- `WholeFilesArePrinted`: `PrintsWhatWasTyped`.
- `WholeImagesAreLoaded`: `LoadsWholeImage`.

`CommandInv` relates what is printed to the position in the file, the file to the
argument, and `args` to the command until `getargs`. The lemmas about the file system
say that `read_file` returns exactly what follows its position (`ReadsWhatFollows`) and
that `read_data`, asked for more than there is, copies all that there is (`CopiesAll`).
The least and the greatest of a set of numbers, by which names and spaces are found,
exist because the numbers are well-founded (`LeastNumber`).

`Interrupts_proofs` proves, for any number of terminals and keys, length of a line and
width of a tab above 0:

- `UnmaskedLinesHaveGates`: `Vectored`, with all habits. `BootInv` lists the gates and masks
  at each step of `entry`.
- `TypeCorrect`, `ServiceIsHandled` and `LineIsAsTyped`: `TypeOK`, `InServiceIsHandled` and
  `LineAsTyped`, for a user who presses no key that changes the line while a tab's spaces are
  inserted (`Orderly`), with a key typed at any time during boot, and with the handlers of
  Enter, Ctrl+L, Backspace and the characters preempted in service.

`HandlerInv` says that over all stacks at most one keyboard handler is halfway through its
key, and relates how far it has got to what is in service and to how many characters of
the line are still to be stored (`HandlerOf`). The reason differs by key: an ordinary
handler, Enter's among them, keeps its interrupt in service until it is done, so no other
can start, while `tab_helper` acknowledges its interrupt with the first space, and only
the user's waiting keeps another key away. That handler may be at any depth of any stack,
preempted by the timer, so frames are numbered from the bottom of a stack, where they do
not move. Both properties fail without `Orderly` (`HurriesAfterTab`). That Enter, Tab,
Backspace, Ctrl+L, the keys without a character and the characters are different keys is
`KeyAssumption`.

Model-checked only: liveness (`EveryTerminalRuns`, `EnteredLineIsRead`, `ReadReturns`,
`CommandsEnd`, `KeysAreHandled`), which needs ENABLED. Every other property of a passing
run is stated by a theorem. Where one speaks of a chain of any length (`SessionOf`), induction
is replaced by its equivalent for a set of naturals: if a claim failed for some length,
there would be a least one (`LeastNatural`).

## 5. Not modelled

- `printf`, `puts` and their conversions are sequences of `putc`; the string and memory
  functions of `lib.c` are used by their meaning. `memmove`'s backward copy, which sets
  the direction flag, is never called.
- The contents of the GDT, LDT and TSS but for `esp0`; saved registers in `*.S`;
  multiboot information; page attributes other than user and present.
- Shift, Caps Lock and Ctrl only choose a character or a function. The escape and
  backquote keys put a NUL into the line.
- `tests.c`, which nothing calls; `set_handler` and `sigreturn`, which only return -1;
  `disable_irq` and `terminal_open`, which nothing calls.
- User programs other than the shell, `cat` and `ls`: in every module programs are the
  environment and make any sequence of system calls. `exit` is a command of the shell
  that is a `halt` in `Processes`.
- The firmware is taken to leave all lines masked.
- Enter after erasing across a wrapped row leaves an empty row; no property is about
  layout.
- An empty file given to `execute`: as an offset of 0 is not beyond a length of 0,
  `read_data` goes on and copies what the inode's first block number points to, and what
  `execute` looks for at the beginning of an executable is sought there.
- Positions and requests near 2^31, where `position + nbytes` overflows in
  `read_file`; `FileSystem` has the arithmetic, no program of the repository gets there.

A program killed by an exception is a `halt(255)`.

## 6. Plan

In order:

1. Composition of `Terminals` with `Processes`, so that the shell's read and its
   `execute` are one program and `BackgroundExec` becomes a consequence of when the user
   switches.
2. `Console` with the interrupts of `Interrupts`: the echo within a tab, whose handler has
   acknowledged its interrupt.
3. `fish` and `vidmap`: a program that draws while its terminal is switched.

Theorems: invariants and refinements of the two compositions (1 and 2), each from the
theorems of its parts.
