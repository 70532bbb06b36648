# A TLA+ model of the ECE 391 MP3 kernel

The repository holds a small x86 kernel (`src/student-distrib`) and the user
programs it runs (`src/syscalls`, `src/fish`). Three terminals share one
keyboard and one screen; each has a base shell; shells execute programs, up to
six processes in all; a 40 Hz timer switches between the active processes of
the terminals. This directory models the kernel in TLA+, checks the models with
TLC and proves the main results with TLAPS.

Paths below are relative to `src/student-distrib` unless they start with `src/`.

## 1. Inventory

| Component | State it keeps | Operations | Hard because |
|---|---|---|---|
| Process management (`syscall_handler.c`) | `process_array`, `terminal_array`, the PCBs at the bottom of the 8 KB kernel stacks (`leaf`, `parent_pid`, `terminal`, `parent_esp`, `saved_esp`), the user page, the TSS | `execute`, `halt` | five different names for "the current process"; stack pointers kept in PCBs that are reused without being cleared |
| Scheduler (`syscall_handler.c`, `int_wrapper.S`) | `curr_terminal`, the contexts in `saved_esp` | `pit_int` | preempts user code, blocking reads and the end of writes; interrupt flag of every context |
| Boot (`kernel.c`, `boot.S`, `execute_shells`) | the same tables, half built | `execute_shells` | runs with interrupts on while the timer already switches |
| Keyboard and terminal input (`keyboard.c`, `keyboard.h`) | per terminal: buffer, `line_marker`, `kbrd_buf_length`, `is_enter`, `read_lock`, modifier flags; the displayed terminal | `kbrd_int`, `terminal_read` | interrupt handler against three readers; displayed terminal against the reader's terminal |
| Screen (`lib.c`) | cursor and video page per terminal, copy of the displayed terminal | `putc`, `puts`, `reset`, `backspace_helper`, `vert_scroll`, `update_vidmem`, `refresh_vidmem` | written from system calls and from two interrupt handlers |
| File descriptors (`syscall_handler.c`) | `file_array[8]` of each PCB | `open`, `close`, `read`, `write` | slots that are freed but keep their jump table; the flags of the boot shells |
| File system (`file_system.c`) | read-only image | `read_dentry_by_name`, `read_dentry_by_index`, `read_data`, `file_*`, `dir_*`, `load_program` | block boundaries, end of file, 32-bit sums |
| RTC (`rtc.c`) | one `readFlag`, the rate | `rtc_int`, `rtc_read`, `rtc_write`, `change_rate` | one flag for all readers; rate truncated to 8 bits; a window with the line masked |
| Interrupt controller (`i8259.c`) | two masks in memory and in the chips, requests, interrupts in service | `i8259_init`, `enable_irq`, `disable_irq`, `send_eoi` | cascade; the mask is stored, loaded and written out in separate instructions |
| Paging (`paging.c`) | page directory and tables | `init_paging`, `change_process`, `change_vidmap` | address arithmetic |
| Exceptions, IDT, GDT, entry | – | set-up code; handlers print, and stop the machine if the kernel faulted | – |
| getargs, vidmap, set_handler, sigreturn | the arguments in the PCB | copy the arguments; return a constant | arguments left by an earlier program in the same PCB |

How they interact. A program traps through `sys_int_w`; the gate is an
interrupt gate (`setup_idt` sets `reserved3 = 0` for every used vector), so a
system call runs with interrupts off unless it executes `sti()`. `execute`,
`halt`, `open` and `close` never do, and are atomic. `read` executes `sti()`
before it calls the driver, `terminal_write` executes it after the last
character, and `change_rate` before it unmasks IRQ 8. There, and in user code with IF = 1, the timer, the keyboard and the
RTC get in. `rtc_int` and `kbrd_int` change nothing of the process state;
`pit_int` changes all of it. The keyboard shares `is_enter`, `read_lock`,
`line_marker` and the buffer with `terminal_read`, and calls `lib.c` to echo
keys and to change the displayed terminal. Programs write to the page of their
own terminal, never to VIDEO: `rtc_int` copies the displayed page there. `open`
connects a descriptor of the PCB with the RTC, the directory or a file.

What makes each part correct:

* processes: all names for the current process agree; each terminal has one
  schedulable process; parents wait for their child; no context is lost, used
  twice or resumed stale; shells survive;
* scheduler: no terminal is starved;
* boot: a tick in the middle leaves nothing half built, and every shell starts;
* terminal: what was typed is read once, in order, on the terminal where it was
  typed; a waiting reader gets its line; the buffer is not overrun;
* screen: no cursor leaves its page, text stays where it was put, the display
  follows the displayed terminal;
* files: every open file is read piece by piece from its own position, names are
  found exactly, programs get their own arguments and a clean table;
* RTC and interrupt controller: no device stays masked or blocked, a read returns
  for a tick of its own, the clock has the rate asked for.

`PROJECT.json` lists the components, the hazards with their source lines, the
map from definitions to source lines, the runs, the mutants and the theorems.

## 2. Modules

| Module | What it is |
|---|---|
| `Processes` | execute, halt, the timer switch and the interruptible parts of read and write; the properties and the inductive invariant |
| `ProcessTree` | abstract specification of `Processes`: a forest of processes and a running leaf |
| `ProcessesProofs` | the TLAPS proofs about `Processes` |
| `Boot` | extends `Processes` with `execute_shells`, one store per step |
| `Terminal` | `kbrd_int` and `terminal_read` |
| `LineInput` | abstract specification of `Terminal`: a text per terminal, typed at the end, read from the front |
| `FileSystem` | the functions of `file_system.c` on an image |
| `Files` | the descriptor table and the arguments of a PCB: open, close, read, write, execute, halt, getargs |
| `OpenFiles` | abstract specification of `Files`: open files with positions |
| `MCFiles` | a small image, names, commands and buffers for `Files` |
| `Screen` | the page and cursor of each terminal, VIDEO, and everything that writes to them |
| `MCScreen` | texts and the view for `Screen` |
| `I8259` | the interrupt controllers as operators on their state |
| `Rtc` | the RTC behind the controllers, with programs that read it and change its rate, from the boot on |
| `BootProofs`, `RtcProofs`, `TerminalProofs`, `ScreenProofs`, `FilesProofs` | the TLAPS proofs about the module of that name |
| `Induction` | the least member of a set of numbers, and induction over such a set, for the proofs about loops |

Operators commented `Faulty:` are not part of the models. Each is the version
of the definition below it that a plausible mistake would give; putting it in
place of that definition must break a property, which shows that the property
depends on the code it is about.

### Processes

*Contexts.* A suspended computation is `[pid, at, uif]`: the process, where it
stands (user code, inside read, inside write, inside execute) and the interrupt
flag its user code runs with. The C fields `saved_esp`/`saved_ebp` and
`parent_esp`/`parent_ebp` are stack addresses. An address stays in a PCB after
the frame it points to has been popped, so the model keeps what lies at the
address: when a frame is popped by a resume the field becomes `Garbage`. Reading
a `Garbage` field is what a use of a stale stack pointer is in C.

*Who is current.* `cpu.pid` is the computation the processor executes, `page`
the target of `change_process`, `tss` the stack `tss.esp0` points into (hence
the PCB that `esp & PCB_BITMASK` finds after a trap from user mode),
`terminal_array[curr_terminal]` the process `halt`, `getargs`, `pit_int` and
`get_curr_pcb_term` look at. The model never assumes that they agree: `execute`
uses `KStack` and `halt` uses `cur_pid`, as in the code.

*Interrupt flag.* `return_to_user` pushes the flags of its caller. Called from
`execute` or `halt` (a trap with IF = 0), the new program runs with interrupts
off; called from `execute_shells` after `sti()`, the boot shells run with
interrupts on. A tick while interrupts are off stays latched in the PIC (`irq`).
`pit_int_w`'s `sti; iret` opens no window, since `sti` takes effect after the
following instruction.

*Actions and code.* `execute`/`execute_fail`: `execute` with its early
returns; argument copying, loading and the descriptor table are left to the file
modules. `halt_child`, `halt_shell`: the two branches of `halt`. `read_enter`,
`read_return`, `write_enter`, `write_return`: entering and leaving the part of
the system call that runs with interrupts on. `pit_tick`: the PIT's request.
`pit_int`: the handler with its early returns; the scan is `next_pid`, the
schedulable process at the smallest distance behind the current one. (The code's
scan says `% 6` in one place and `% MAX_OPEN_PROCESSES` in the other; the two are
equal in the kernel and are one constant here.) System calls that change none of
this state (open, close, getargs, vidmap) are stuttering steps.

### Boot

The loop of `execute_shells`, from the last terminal to the first, one action
per store that another component reads. The boot code runs on the stack at
0x800000, which is the kernel stack of process 0, so if `pit_int` switches away
from it the boot code is saved as process 0. The shells that the timer starts in
the meantime run with all the actions of `Processes`. `Memory` is what the leaf
flag and the terminal of an unwritten PCB may contain, 0 or 1. `boot_race` uses zero (the
state of RAM under the emulator the kernel is run on). `boot_handover` and the proofs
need it for one word only (`Zeroed_Spec`): the terminal of process 0, which `pit_int`
takes over when it resumes the boot code before the terminal was stored.

The model lets a shell run that the timer enters before the boot is done. In the
code such a shell does worse: its frame holds no data segment, and the `iret` from
the kernel's leaves a null `%ds` behind, so that its first access to memory faults
(`return_to_user`, which starts process 0 and every program, loads `%ds`). The model
has more behaviours than the machine there; the safety results hold for both.

### Terminal

One action per branch of `kbrd_int`, one step per statement of `terminal_read`
that runs with interrupts on; the part between `cli()` and `sti()` is one step.
The two-dimensional buffer is one row of bytes, because `memset(kbrd_buf[t] +
writeBytes, 0, nbytes)` and an overlong line reach into the next row. Bytes
outside the whole array read as NUL and drop stores. `line_marker` is a byte and
wraps. `get_curr_pcb_term()` is the reader's terminal, which is what
`CurrentProcessCoherent` shows in `Processes`. Reads of 0 or fewer bytes, which
make the code write in front of its transfer buffer, are not in `ReadSizes`.

`Habits` restricts users and programs. `"prompt"`: keys are pressed only while
no reader is between two statements. `"foreground"`: programs read only on the
displayed terminal, and the user switches only while nobody reads. `"alt_only"`:
no other modifier key is down during a switch. With all three, and lines that fit the buffer (`MarkerBound`, section 3), the code is right
(`terminal_careful`); without one of them it is not (`terminal_background`,
`terminal_typeahead`, which are the only runs about the races that `"prompt"` and
`"foreground"` exclude; without `"alt_only"` a Shift that is held over a switch and
released on the other terminal stays set on the first, which breaks
`FlagsFollowKeys`).

### FileSystem and Files

`FileSystem` has one operator per function of `file_system.c`. The image is a
constant: a directory, inodes and blocks. Words wrap at `WORD`, so that the sum
in `read_data` and negative sizes do what they do in 32 bits; a name of
`NAME_SIZE` characters has no NUL, and what follows it in memory is the file type.
A read gives the number returned and the buffer left behind, because both readers
empty part of the buffer first and `execute` looks at a header buffer that it
never initialised.

`Files` follows one PCB: a base shell's, with the flags that `execute_shells`
computes from the shell's number (all descriptors taken, or none), or one that is
used by one program after another. The PCBs of other processes are not touched by
these calls (`CurrentProcessCoherent` in `Processes`), and a process does one call
at a time, so each call is a step. `execute` takes the parse of the command, the
checks, the load and the table; its bookkeeping is in `Processes`. Reads of the
terminal and the RTC return what `Terminal` and `Rtc` say they return.

`OpenFiles` is what a program may expect: it starts with the standard descriptors
and no other, a close of a standard or of a closed descriptor fails, and a call that
fails changes nothing. It promises nothing about the answer to a read of a closed
descriptor, only that it disturbs nothing, and nothing about what a negative size
delivers. The code does not keep this promise to everybody. A base shell has wrong
flags; the refinement mapping leaves base shells out (to `OpenFiles` they have no open
files and make no calls). And a `close` of a standard descriptor returns -1 but frees
it; the constant `StdKept` says that programs do not do that. With `StdKept = FALSE`
in `Files.cfg` TLC finds the first such `close` as a violation of
`ImplementsOpenFiles`. No other property needs `StdKept`: base shells close what they
like in every run, and the theorems about the other properties do not assume it.

Seen while modelling, and in the model: a negative size that wraps reads from the
position to a smaller one, so it moves the position backwards, at offset 0 it
reads the whole file; `halt` closes
descriptors only up to the first gap, which is harmless because `execute` sets up
the table anew; `execute` looks at no file type, but "." and "rtc" have the empty
inode 0 and fail. Not in the model, by `ReadSensible` and the choice of commands: a
directory read with a buffer longer than 32 bytes delivers one byte more of a name
of 32 characters; `getargs` clears 1024 bytes of the caller's buffer whatever its
size; a command without a blank takes its arguments from byte 33 on, which are NUL
in the shell's buffer.

### Screen

`screen[t]` is the page of a terminal with `screen_x` and `screen_y`. Every
operation of `lib.c` is an operator on that record, every key, write and tick one
step, since all of them run with interrupts off. `kbrd_buf[t]` is the row of the
keyboard buffer up to `line_marker`, keys without a character (NUL) included, and
`kbrd_buf_length[t]` how much of it Backspace may erase. Backspace erases one cell per
key; Ctrl-L clears the page and prints the row from its first byte to the first NUL
(`string`), which is less than Backspace may erase if a NUL is in it, and more if the
row starts with the rest of a short read. `take_line` is the effect of `terminal_read`
on the row, for readers that are done before the next key (the habit `"prompt"` of
`Terminal`); rows grow to `LINE_MAX` bytes at most, the overrun is in `Terminal`.
`EraseVisible` restricts users: Backspace only while every key of the row shows.
`screen_nul` shows what happens otherwise.

`tail` is a history variable, the text since the last newline. Exception handlers
print on the displayed terminal and return if a user program faulted; otherwise
they loop with interrupts off (`frozen`), which is why these runs may stop. A program
that called `vidmap` writes to VIDEO itself, whatever terminal it belongs to
(`draw`). Attribute bytes and number formatting are left out. That the handler which
copies the page to VIDEO keeps being called is `ClockGoesOn` of `Rtc`.

### I8259 and Rtc

`I8259` keeps the masks twice, in memory and in the chips, with the requests and
the interrupts in service of both chips; `deliverable` and `acknowledge` model the
chips (cascade through line 2, nothing as urgent in service). ICW1 clears the mask
registers, so the slave is unmasked between `i8259_init` and the first
`disable_irq`; interrupts are off then.

`Rtc` starts after `i8259_init`. `initialize_rtc` runs with interrupts off up to
the `sti` in `change_rate`; the mask changes that follow, up to `kbrd_init`, and
those of every `rtc_write` are made in steps: store of the mask, load, output,
return. This is what the compiled `enable_irq` does (the Makefile asks for no
optimisation; the repository's `bootimg` has the instructions). `rtc_read` is the
test of `readFlag` and, as a separate step, its reset. `tick` raises IRQ 8 only if
register C was read since the last tick. Of `pit_int` and `kbrd_int` only the
acknowledgement is modelled. `rtc_write` takes one byte of the number in the buffer
(`byte`), so 1024 is refused and 258 accepted as 2; `asked` is the number itself.
`Values` has 1024; with 258 in it TLC finds `RateAsAsked` violated.

## 3. Runs

| Run | Bounds | Checks |
|---|---|---|
| `processes` | 5 processes, 3 terminals | the inductive invariant, nine safety properties of section 4, and that no terminal is starved |
| `boot_handover` | 5 processes, 3 terminals, leaf flags and terminals 0 or 1 in unwritten PCBs | the timer never resumes an unbuilt frame; a finished boot is a correct start; a boot suspended too early never finishes; the inductive invariant |
| `boot_race` | 3 processes | *violation*: a shell may never start |
| `terminal_careful` | 2 terminals, a buffer of 3 bytes, reads of 1, 2 and 4 bytes | the line discipline, the lock, the buffer, the modifier flags, and that reads return |
| `terminal_background` | the same, without `"foreground"` | *violation*: Enter drops the line of a waiting reader |
| `terminal_typeahead` | 1 terminal, without `"prompt"` | *violation*: the buffer is overrun |
| `files` | names of 3 bytes, blocks of 2, 4 entries, 3 descriptors (1 of them standard), the table of a shell or a program | positions, lookups in every directory of two entries, loading, arguments, the refinement of `OpenFiles` |
| `files_closed` | as `files`, 2 of the descriptors standard | *violation*: a closed descriptor can be read |
| `screen` | 2 terminals of 2 by 2 cells, a line of 2, a key with and one without a character | cursors and text |
| `screen_nul` | the same, without `EraseVisible` | *violation*: Backspace moves the cursor above the page |
| `rtc` | one reader, one writer, numbers 2, 3, 128 and 1024 | masks, rate, ticks, and that requests and reads are served and the clock goes on |
| `rtc_mask` | two writers | *violation*: IRQ 8 stays masked |

Why the bounds suffice. Processes: three terminals are the real number; five ids
leave two to be executed and halted on any terminal, which is what changes the
order of the scan, and the table gets full. The safety properties are proved for
every size (section 6). Boot has two spare ids, so that shells started early can
execute programs on two terminals, and id 0 can be given away when the boot code is
lost. Terminal: two terminals give a displayed
one and another; a read of 1 byte keeps the whole line, 2 keeps a rest, 4
exceeds the buffer; a buffer of 3 has a full, a partial and an empty state.
`MarkerBound` stops the user from typing when `line_marker` has reached it. In
`terminal_typeahead` it lies behind the end of the buffer and only keeps the run
finite. In `terminal_careful` it is the last byte of the buffer and is an
assumption about the user as well: the code does not enforce it. A short read
leaves a rest, Enter resets `kbrd_buf_length`, and the next line may grow the
rest past the end of the buffer, which is finding 3 by another way. What
`terminal_careful` shows holds while line and rest fit the buffer together.
`Letters` has one key because only its identity, its capital and NUL are told
apart. Files: the text lies in two blocks that are not neighbours and ends inside
the second, its name fills the name field, the program fills its last block, a
buffer is longer than any file; sizes 2 and -1 cross a block, meet the end and
wrap. The lookup is compared with its meaning for all directories of up to two
entries over two letters, which is enough for the comparison length to grow. One
standard descriptor of the two leaves a program two files to have open at a time; that
there are two standard ones matters only for the functions they start with.
Screen: a page of two rows and two columns has every edge, and a line of two
characters wraps; two terminals give a displayed one and another. The cells of
VIDEO are left out of the `VIEW` of the screen runs: no step of the model reads them
and no property of these runs is about them, so states that differ there alone are
explored once. Rtc: rates at
the ends of what a byte allows, one that is no power of two, one that is cut.
Deadlock is checked everywhere except in the screen runs, where a fault in the kernel
stops the machine.

Fairness. `pit_tick` and `pit_int` are weakly fair: the PIT is periodic and the
processor takes a latched request once it may; the request stays latched.
`read_enter \/ write_enter` is strongly fair: this is an assumption on programs,
and a necessary one, since a program started by `execute` has interrupts off and
can keep the processor by computing. No read is assumed to return. In `Boot` the
boot code is strongly fair: it makes progress between ticks. In `Terminal` every
reader is weakly fair (its process is scheduled, by `EveryTerminalScheduled`) and
the user eventually presses Enter. `Screen` and `Files` have no liveness properties
and no fairness. In `Rtc` the clock ticks, a deliverable
request is taken (weak fairness: threads that have unmasked it do not go on
before), and threads in the kernel go on although they are interrupted (strong
fairness of the mask changes); no program is assumed to make a call.

## 4. Properties

`Processes`: `CurrentProcessCoherent` (the five names agree), `OneLeafPerTerminal`,
`ParentsWaitForChildren`, `OneContinuation` (each active process has exactly one
context anywhere in the machine, an unused id none), `ShellsSurvive`,
`OnlyShellsPreemptedInUser`, `HaltResumesParent` (action property),
`ImplementsTree` (refinement), `EveryTerminalScheduled` (liveness).

Why nobody starves although the scan starts from a process id that changes
between ticks: an id that `execute` hands out is the lowest unused one and may
jump over a waiting leaf, but a process leaves the cyclic order only by becoming
a parent or by halting, and then another process of the same terminal replaces
it; the scan visits the leaves in cyclic order and each terminal has exactly one
(`OneLeafPerTerminal`), so a terminal can be passed over only while programs
keep being started and halted on the others. That this cannot go on for ever is
what the run checks; it is not proved.

`Boot`: `NoGarbageResumed`, `BootHandsOver`, `BootInv` (the inductive invariant),
`EarlyTickIsFinal` (action property: a boot code suspended before `pit_int` can find
process 0 is never resumed), `AllShellsStart` (violated).

`Terminal`: `LockFollowsReader` (the lock that decides whether Enter drops a line is
set exactly while its terminal's reader may wait, although both stores to it go to the
terminal that is displayed at the time), `BufferEndsWithTyped` (Backspace erases what
the user sees), `ImplementsLineInput` (refinement), `ReadReturns` (liveness),
`FlagsFollowKeys` (a modifier flag of the displayed terminal has a key that is
down: Alt left set on the terminal that was left is cleared by the release that
follows the way back), `EnterKeepsLine` (action property, violated for a reader that
starts in the background), `LineFitsBuffer` (violated). `LineInput` allows a line to be
discarded; that it is not while somebody waits for it is `EnterKeepsLine`.

`Files`: `ImplementsOpenFiles` (refinement), `LookupFindsName`, `PositionInFile`,
`ExecuteNotHalfDone` (no failure after the user page was changed),
`ArgumentsAreRest`; violated: `ReadClosedFails`.

`Screen`: `CursorOnPage`, `TextBeforeCursor` (what was put on the screen since the
last newline, or printed by Ctrl-L, stands before the cursor, over wrapping, scrolling
and erasing), `CursorShown`. The first is violated without `EraseVisible`.

`Rtc`: `MaskRestored` (holds for one writer, violated for two), `RateAsAsked` (holds
for numbers that a byte holds, violated by 258), `TickPerRead`, and the liveness
properties `RequestsServed`, `RtcReadReturns` and `ClockGoesOn` (IRQ 8 arrives again
and again, on which the refresh of the screen depends), for one writer. `TickPerRead` and
`RtcReadReturns` are about a lone reader: two readers that leave the loop on the
same tick both return, and one can keep the other waiting. A tick from before the
call ends a read at once, although the comment on `rtc_read` says that it blocks
until the next interrupt.

## 5. Findings

1. A tick in the last iteration of `execute_shells` between the stores of
   `terminal_array[0]` and `leaf` suspends the boot code for ever
   (`syscall_handler.c:158`): process 0 is not yet schedulable, so the timer
   never returns to it. `EarlyTickFinal` proves that nothing brings it back.
2. `terminal_read` takes `read_lock` of the displayed terminal
   (`keyboard.c:72`), so a process that starts to read in the background loses
   the line that is typed for it.
3. The length check of `kbrd_int` uses `kbrd_buf_length`, which Enter resets
   before the reader has taken the line (`keyboard.c:327`): typing ahead stores
   behind the end of the buffer, and so does a line typed behind the rest that a
   read shorter than the previous line left over (with `Habits = {"prompt",
   "foreground"}` and `ReadSizes = {2}` the same cfg shows that one).
4. `close` keeps the jump table and `read` does not look at the flags
   (`syscall_handler.c:467`): a closed RTC descriptor can be read. The test
   `err_unopened` expects -1.
5. `change_rate` turns interrupts on before `enable_irq` (`rtc.c:112`,
   `i8259.c:93`). Writer 1 stores the mask; writer 2 masks IRQ 8; writer 1 loads
   the mask; writer 2 finishes; writer 1 writes the old mask out. No tick arrives
   any more, reads of the RTC do not return and the screen is not refreshed, until
   the next rate change.
6. A key without a character is stored and counted (`keyboard.c:351`) and shows
   nothing. Backspace for it erases a cell of something else, and in the first cell of
   the page (on an empty screen, or after Ctrl-L, which prints the row up to the first
   NUL) sets `screen_y` to -1; what is put there next lies in front of the page.

Seen while modelling, without a run of their own:

* `halt` pushes 0 instead of the status (`syscall_handler.c:100`), although its header
  promises the parent the status: the parent's `execute` returns 0 whatever the child
  passed. `halt` of `Processes` sets `eax` to 0.
* `close` of descriptor 0 or 1 returns -1, as the test `err_unopened` expects, but
  frees the descriptor (`syscall_handler.c:468`), although the test says "Nothing
  should be able to be closed" (`ece391syserr.c:174`): the next `open` returns 0.
  `Files.cfg` with `StdKept = FALSE` shows it.
* `execute_shells` sets the descriptor flags from the number of the shell instead of
  the descriptor (`syscall_handler.c:177`): two base shells have no descriptor left to
  open a file with, and in the third the first `open` returns 0. The shell of the
  repository opens no file. `Init` of `Files` has these flags.
* `rtc_write` looks at one byte (`rtc.c:180`): 258, no power of two, is accepted and
  sets 2 Hz. `Rtc.cfg` with 258 in `Values` shows it.

Not listed, as it depends on memory contents: if the terminal of process 0 is not
zero in memory at boot and its leaf flag is set, a tick between the stores of
`process_array[0]` and `terminal` suspends the boot code, and the tick that resumes it
sets `curr_terminal` to that value; the ticks that follow resume a shell that was
never saved (`NoGarbageResumed` fails for `Boot_Spec` with `Memory = {0, 1}`). The
proofs show that no other leaf flag or terminal in unwritten memory matters.

## 6. Proofs

### Process bookkeeping

`ProcessesProofs` proves, for every number of processes and terminals with
`NUM_TERMINALS <= MAX_OPEN_PROCESSES` and every set of statuses:

* `Invariance`: `Spec => []IInv`;
* `TypeCorrect`, `Coherence`, `LeafUnique`, `ParentsWait`, `Shells`,
  `UserPreemption`, `ContinuationUnique`: seven invariants of the run
  `processes`;
* `HaltReturns`: the action property;
* `Refinement`: `Spec => Tree!TreeSpec`.

None of the invariants is inductive alone. `IInv` has seven parts, each needed by
the others:

| Part | Says | Needed because |
|---|---|---|
| `TypeOK` | types | functions are updated at the right places |
| `CurrentPart` | `cpu`, `page`, `tss` and `cur_pid` agree; the processor is in user code, read or write | `execute` uses the TSS, `halt` uses `cur_pid` |
| `LeafPart` | `terminal_array[t]` is the leaf of terminal t, and each leaf is of some terminal | `pit_int` sets `curr_terminal` to the terminal of a leaf and must find that leaf there |
| `ParentPart` | a live child's parent is alive, waits, on the same terminal; children are unique | `halt` makes the parent the leaf |
| `RootPart` | the shells are the active processes without a parent | `halt` never frees a shell |
| `ContextPart` | which PCB fields hold a live context | `pit_int` resumes `saved_esp[next]`, `halt` resumes `parent_esp` |
| `FlagPart` | IF = 1 contexts belong to shells, wherever they are kept | the flag travels through both PCB fields |

The proof has one lemma per kind of step: the moves in and out of read and write
(`MoveIInv`), the steps that leave the bookkeeping alone (`QuietIInv`),
`ExecuteIInv`, `HaltChildIInv`, `HaltShellIInv`, `SwitchIInv`; `NextIInv` puts
them together. The consequences follow from `IInv` alone; `ContinuationUnique`
computes the set `Continuations(p)` in the four cases (loaded, saved, waiting,
unused). The refinement maps live ids to `alive`, clears `parent` and `owner` of
unused ids, and shows that the abstract leaves are the schedulable processes
(`LeavesAreSchedulable`); execute is a Spawn, halt of a child an Exit, a switch a
Switch, everything else a stutter.

### Boot

`BootProofs` proves, for every number of processes and terminals and with leaf flags
and terminals of 0 or 1 in unwritten PCBs, if the terminal of process 0 is 0 at first
(`Zeroed_Spec`; without it the results are false, section 5):

* `BootInvariance`: `Zeroed_Spec => []BootInv`;
* `BootNoGarbage`, `BootComplete`: the invariants `NoGarbageResumed` and
  `BootHandsOver` of the run `boot_handover`;
* `BootEndsConsistent`: `IInv` holds whenever the boot is done, so that everything
  proved of `Processes` from `IInv` holds from then on, and not only for the initial
  state `Processes` assumes;
* `BootEndsInTree`: the steps after the boot are steps of `ProcessTree`;
* `EarlyTickFinal`: finding 1 for every size. The boot code that was suspended before
  `process_array[0]` and the leaf flag were set is not resumed, and stays so.

`BootInv` tells two phases apart:

| Part | Says |
|---|---|
| `BuildPart` | The boot code has had the processor all the time and has not set `process_array[0]`: every table and PCB holds exactly what the loop has written (`Written`), the rest is as it was. `pit_int` does nothing before `terminal_array[0]` is set, because `curr_terminal` is 0 and terminal 0 has no task |
| `RunInv` | Shells may run. The parts are those of `IInv` with three differences: the fields of process 0 that the loop has yet to write are taken as written (`Leaf`, `Parent`); process 0, running or suspended, stands in the boot code until the boot is done (`Booting`); and if the boot code was lost between `terminal_array[0]` and `process_array[0]` (`Lost`), terminal 0 is not among the scheduled ones (`Roots`) and its context is left over in `saved_esp[0]` |

The last point is why `ContextPart` of `Processes` is too strong here: process id 0
is unused and `execute` may give it to a program, whose PCB then holds the stack
pointer of the boot code. The proof shows that `pit_int` overwrites it, when it
switches away from that program, before it can be used. One lemma per kind of step:
a store while building (`StoreBuilds`), the store that activates process 0
(`ActivateZero`, into `RunInv`), the tick that loses the boot code (`LoseBoot`), a
store of a boot code that shares the processor (`RunStore`), and the actions of
`Processes` (`RunMove`, `RunExecute`, `RunHaltChild`, `RunHaltShell`, `RunSwitch`).
`DoneIInv` shows that `BootInv` is `IInv` at the end; the rest is taken from
`ProcessesProofs` (`NamesAgree`, `LeavesCounted`, `ContinuationsCounted`, `TreeStep`).

### Rtc

`RtcProofs` proves, for every set of readers, writers and values: `RtcTypes`,
`RateCorrect` if a number that is accepted is a byte (the search for the divider in
`change_rate` is compared with the powers of two, exponent by exponent),
`TicksCorrect` if there is at most one reader, `MasksRestored` if there is at most one
writer. The hypotheses `ExactValues`, `LoneReader` and `LoneWriter` are needed: 258
in `Values` violates `RateAsAsked`, two readers share one `readFlag`, and the
run `rtc_mask` violates `MaskRestored` with two writers.

`MaskRestored` speaks only of moments when nobody changes a mask. Its invariant
`MaskPart` says for each chip what memory and chip hold in between: when no thread
is busy with the chip, both are the lines that the place of the boot code and the
writers under way leave open (`OpenLines`); when one is, memory is ahead by the
change of that thread (`Changed`), the register `al` holds the new mask once it was
loaded, and the chip once it was written out. `WorkPart` bounds what each thread
has left to do; with one writer at most one thread has anything left (`OneWorker`),
because programs run only after the boot.

### Terminal

`TerminalProofs` proves `TerminalTypes` without hypotheses, `LockCorrect` and
`EnterCorrect` if `"foreground"` is a habit (`LockPart`: every reader is on the
displayed terminal until its read returns, so that it drops the lock it took),
`FlagsCorrect` if `"alt_only"` is a habit, and `LineCorrect` and the refinement
`LineImplemented` under `Careful` (`"prompt"`, `"foreground"` and `MarkerBound <
KBRD_BUF_LENGTH <= 256`, so that a line and a rest fit and the byte `line_marker`
does not wrap). All of it is for any number of terminals, any buffer and any read
sizes. Without `Careful` the results are false (findings 2 and 3).

`LinePart` is the invariant: only the displayed terminal has a reader; a reader that
has seen Enter finds no unfinished line; the characters typed since the last Enter
stand in the row of their terminal right before `line_marker`, and only NULs behind
it (`Matches`). The lemmas about the buffer show that the rows of the array do not
overlap, and `CopySizes` that under `Careful` the `memset` behind a shifted rest ends
inside its row, which it does not for every line (section 2); the `memmove` is
compared with dropping the front of the text.

### Screen

`ScreenProofs` proves `CardCorrect`, and under `EraseVisible` `CursorCorrect` and
`TextCorrect`, for every page size, text and set of keys that `ScreenAssumption`
allows, keys without a character included. The invariant `ScreenPart`: cursors lie on
their page; the characters of `tail` stand in the cells before the cursor (`Shows`);
and if all keys of a row show, what Backspace may erase is not longer than the number
of cells before the cursor (`Room`), which is why the cursor cannot leave the page at
the top: scrolling takes a row away from those cells, but never with more than
`LINE_MAX` keys in the row, and these fit above the last row. After Ctrl-L there are
as many cells as the printed row has bytes (`StringOfRow`): all of it if all keys show.
The lemmas treat `putc` by cases
(newline, at the end of a row, at the end of the page, otherwise) through the
position as one number, `puts` by induction over the text, and scrolling as a shift
of all cells by one row.

### Files

`FilesProofs` proves, for every image that `ImageAssumption` allows, every set of
names, commands, sizes and buffers that `FilesAssumption` allows, and every width of
words:

* `LookupCorrect`: `NumBitsBound` shows that the comparison length of iteration i
  is at least the length of both names compared or the full field, so the
  comparison decides equality (`SameName`), also for a name that fills the field and
  is followed by its type;
* `ExecuteWhole`: one read of the length of the file at offset 0 returns that length;
* `PositionCorrect`: the invariant `SlotPart` says that a descriptor in use with the
  jump table of files (of the directory) stands for an inode (the directory) of the
  image at a position inside it. It also types the slots that are not in use, because
  `read` moves their positions too;
* `ArgumentsCorrect`, under `ShortCommands`: the arguments fit into the PCB, and
  the name ends within `NAME_SIZE` bytes. `execute` checks neither;
* `FilesImplemented`: the refinement of `OpenFiles`, under `StdKept`,
  which keeps the standard descriptors of a program in use (`StdPart`); the steps of
  a base shell stutter (`ShellStutters`). `DataBlock` and `PointerAtBlock`
  show that the pointer `read_data` moves on at block boundaries is at every byte in
  the block that byte lies in; `FileBytes` and `DirName` say what a read delivers;
  then there is one lemma per call (`OpenKept`, `CloseKept`, `ReadKept` with
  `ReadFileKept` and `ReadDirKept`, `OtherKept`). The hypothesis `Len(dentries) <
  NUM_DENTRIES` is needed: behind the last entry of a directory with all 63 entries
  `dir_read` returns -1 where it returns 0 otherwise, because `read_dentry_by_index`
  compares with the size of the table and not with the number of entries.

### Assumptions and what is left to TLC

The assumptions are the named ASSUMEs of the modules (`SizesAssumption`,
`StatusesAssumption`, `MemoryAssumption`, `RtcAssumption`, `TerminalAssumption`, `ScreenAssumption`,
`ImageAssumption`, `FilesAssumption`), which TLC evaluates on every run of the
module, and the hypotheses named above, which the runs' constants satisfy. Those of
the image say what `createfs` writes: names are C strings of 1 to `NAME_SIZE` bytes,
inode numbers and block numbers exist, a file is not longer than its blocks and its
length is a positive `int32_t`. Those of `Files` say that a program's buffer is as
long as the size it gives, and that sizes are `int32_t`.

The loops of the code are recursive functions here. That such a function has the
values its equation says is not known to the provers; each is shown by induction
over the set of lengths for which a solution exists (`InductionStep` of `Induction`,
which needs no operator parameter).

Only model-checked: everything that depends on fairness (`EveryTerminalScheduled`,
`AllShellsStart`, `ReadReturns`, `RequestsServed`, `RtcReadReturns`, `ClockGoesOn`), which the prover does not handle. Every other property of a passing
run is stated by a theorem.

## 7. Not modelled

* GDT, IDT entries, multiboot parsing, the page tables that `init_paging` builds:
  straight-line code that runs once.
* set_handler and sigreturn return -1; the bounds check of vidmap is pure.
* `itoa`, `strrev` and the word variants of `memset` in `lib.c`: pure conversions
  that no property depends on.
* A file system image without a `shell`, or with a corrupt program: the image is
  built with the kernel.
* User programs: they are the environment, and make any system call at any time.
* Loads and stores below the level of one C statement in `terminal_read`: a key
  between the load of `current_terminal` and the store that uses it.
* `tests.c`: test code, read as documentation.

## 8. Plan

Models that are left: the address map of user pages, kernel stacks and PCBs, with
a lemma that `esp & PCB_BITMASK` finds the PCB of the stack it is on; more than
one reader of the RTC.
