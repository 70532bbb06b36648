----------------------------- MODULE Processes -----------------------------
(***************************************************************************)
(* The process subsystem of the kernel: execute, halt, the context switch  *)
(* of the timer interrupt, and the two system calls (read and write) that  *)
(* turn interrupts back on inside the kernel.  student-distrib/            *)
(* syscall_handler.c, int_wrapper.S, and the parts of paging.c and of the  *)
(* TSS they set.                                                           *)
(*                                                                         *)
(* A suspended computation is a context: whose it is, where it stands and  *)
(* the interrupt flag its user code runs with.  The kernel keeps contexts  *)
(* in two PCB fields: saved_esp (put there by pit_int) and parent_esp (the *)
(* frame of the parent's execute, kept in the child's PCB).  A stack       *)
(* pointer in C survives the frame it points to; here the field holds what *)
(* lies at that address, so a field whose frame was popped by a resume is  *)
(* Garbage, as is one that was never written.                              *)
(*                                                                         *)
(* Every gate of the IDT is an interrupt gate, so a system call runs with  *)
(* interrupts off and is one atomic step unless it calls sti().  A timer   *)
(* tick that arrives with interrupts off stays latched in the PIC (irq).   *)
(***************************************************************************)
EXTENDS Integers, FiniteSets

CONSTANTS
    MAX_OPEN_PROCESSES,   \* 6 in syscall_handler.h
    NUM_TERMINALS,        \* 3 in syscall_handler.h
    Statuses              \* the statuses programs halt with

ASSUME SizesAssumption ==
    /\ MAX_OPEN_PROCESSES \in Nat
    /\ NUM_TERMINALS \in Nat \ {0}
    /\ NUM_TERMINALS <= MAX_OPEN_PROCESSES

ASSUME StatusesAssumption == Statuses \subseteq 0 .. 255

VARIABLES
    process_array,    \* process_array[p] = 1 iff process p is active
    terminal_array,   \* terminal_array[t]: the active process of terminal t
    curr_terminal,    \* the terminal the scheduler is running
    leaf,             \* PCB: 1 iff the process has no child
    parent_pid,       \* PCB: the parent, None for a base shell
    terminal,         \* PCB: the terminal of the process
    parent_esp,       \* PCB: the context of the parent's execute
    saved_esp,        \* PCB: the context pit_int saved
    page,             \* the process the 128 MB user page is mapped to
    tss,              \* the process whose kernel stack tss.esp0 points into
    cpu,              \* the context loaded in the processor
    irq,              \* 1 iff the PIC holds a timer interrupt request
    eax               \* what the last execute to return gave its caller

pcbVars   == <<leaf, parent_pid, terminal, parent_esp>>
tableVars == <<process_array, terminal_array>>
vars      == <<process_array, terminal_array, curr_terminal, leaf, parent_pid,
               terminal, parent_esp, saved_esp, page, tss, cpu, irq, eax>>

Pids      == 0 .. MAX_OPEN_PROCESSES - 1
Terminals == 0 .. NUM_TERMINALS - 1
None      == -1

Places    == {"user", "read", "write", "execute", "garbage"}
Contexts  == [pid : Pids \cup {None}, at : Places, uif : {0, 1}]
Garbage   == [pid |-> None, at |-> "garbage", uif |-> 0]

-----------------------------------------------------------------------------
(* The processor.                                                          *)

\* IF as the processor sees it: in user mode the flag of the program, inside
\* read and write 1, because both have executed sti().
Interruptible == cpu.at = "user" => cpu.uif = 1

\* An instruction of the current program can be executed: no interrupt is due.
Running == ~ (irq = 1 /\ Interruptible)

\* The process whose PCB `esp & PCB_BITMASK` finds.  A trap from user mode
\* enters the kernel on the stack of the TSS.
KStack == IF cpu.at = "user" THEN tss ELSE cpu.pid

\* The active process of the scheduled terminal.
cur_pid == terminal_array[curr_terminal]

\* Faulty: the flags pushed for iret have IF set.
return_to_user_if(p, user_page, flag) ==
    /\ tss' = p
    /\ cpu' = [pid |-> user_page, at |-> "user", uif |-> 1]

\* return_to_user: iret to the entry point of the program in the user page,
\* with the flags of the caller.
return_to_user(p, user_page, flag) ==
    /\ tss' = p
    /\ cpu' = [pid |-> user_page, at |-> "user", uif |-> flag]

\* Faulty: the user page is not remapped.
change_process_none(p) == page' = page

\* change_process: the user page is mapped to the memory of p, the TLB is flushed.
change_process(p) == page' = p

-----------------------------------------------------------------------------
(* System calls.                                                           *)

\* get_next_pid: the lowest unused process id, if there is one.
get_next_pid(pid) ==
    /\ process_array[pid] = 0
    /\ \A q \in Pids : q < pid => process_array[q] = 1

\* Faulty: execute leaves the caller schedulable.
leaf_child(me, pid) == [leaf EXCEPT ![pid] = 1]

\* The caller of execute waits, the new process has no child.
leaf_execute(me, pid) == [leaf EXCEPT ![me] = 0, ![pid] = 1]

\* The PCB and the tables of a new process `pid` executed by process `me`.
new_pcb(pid, me) ==
    /\ process_array' = [process_array EXCEPT ![pid] = 1]
    /\ terminal_array' = [terminal_array EXCEPT ![curr_terminal] = pid,
                                                ![terminal[me]] = pid]
    /\ terminal' = [terminal EXCEPT ![pid] = terminal[me]]
    /\ parent_pid' = [parent_pid EXCEPT ![pid] = me]
    /\ parent_esp' = [parent_esp EXCEPT
                         ![pid] = [pid |-> me, at |-> "execute", uif |-> cpu.uif]]
    /\ leaf' = leaf_execute(me, pid)

\* execute of a valid program.  saved_esp of the new PCB is left as it is.
execute ==
    /\ Running
    /\ cpu.at = "user"
    /\ \E pid \in Pids :
          /\ get_next_pid(pid)
          /\ change_process(pid)
          /\ new_pcb(pid, KStack)
          /\ return_to_user(pid, pid, 0)
    /\ UNCHANGED <<curr_terminal, saved_esp, irq, eax>>

\* execute that fails: no command, no unused process id, no such file, or a
\* file that does not start with the ELF magic.
execute_fail ==
    /\ Running
    /\ cpu.at = "user"
    /\ eax' = -1
    /\ UNCHANGED <<tableVars, curr_terminal, pcbVars, saved_esp, page, tss, cpu, irq>>

\* Faulty: halt does not ask whether there is a parent.
has_parent_always(p) == TRUE

has_parent(p) == parent_pid[p] >= 0

\* Faulty: halt does not make the parent schedulable again.
leaf_halt_none(par) == leaf

leaf_halt(par) == [leaf EXCEPT ![par] = 1]

\* halt of a program that has a parent: the parent's execute returns.
halt_child(status) ==
    /\ has_parent(cur_pid)
    /\ change_process(parent_pid[cur_pid])
    /\ tss' = parent_pid[cur_pid]
    /\ process_array' = [process_array EXCEPT ![cur_pid] = 0]
    /\ terminal_array' = [terminal_array EXCEPT ![curr_terminal] = parent_pid[cur_pid]]
    /\ leaf' = leaf_halt(parent_pid[cur_pid])
    /\ cpu' = [pid |-> parent_esp[cur_pid].pid, at |-> "user",
               uif |-> parent_esp[cur_pid].uif]
    /\ parent_esp' = [parent_esp EXCEPT ![cur_pid] = Garbage]
    /\ eax' = 0                              \* pushl $0, not the status
    /\ UNCHANGED <<curr_terminal, parent_pid, terminal, saved_esp, irq>>

\* halt of a base shell: it is started again in its own page.
halt_shell ==
    /\ ~ has_parent(cur_pid)
    /\ return_to_user(cur_pid, page, 0)
    /\ UNCHANGED <<tableVars, curr_terminal, pcbVars, saved_esp, page, irq, eax>>

halt(status) ==
    /\ Running
    /\ cpu.at = "user"
    /\ halt_child(status) \/ halt_shell

\* The current program enters or leaves the part of a read (of a write) that
\* runs in the kernel with interrupts on.
move(from, to) ==
    /\ Running
    /\ cpu.at = from
    /\ cpu' = [pid |-> KStack, at |-> to, uif |-> cpu.uif]
    /\ UNCHANGED <<tableVars, curr_terminal, pcbVars, saved_esp, page, tss, irq, eax>>

read_enter   == move("user", "read")
read_return  == move("read", "user")
write_enter  == move("user", "write")
write_return == move("write", "user")

-----------------------------------------------------------------------------
(* The timer.                                                              *)

\* The PIT raises its line; the PIC latches the request.
pit_tick ==
    /\ irq = 0
    /\ irq' = 1
    /\ UNCHANGED <<tableVars, curr_terminal, pcbVars, saved_esp, page, tss, cpu, eax>>

\* Faulty: processes that wait for a child are scheduled too.
Schedulable_all == {p \in Pids : process_array[p] = 1}

\* The processes pit_int may switch to, and the order it looks at them.
Schedulable == {p \in Pids : process_array[p] = 1 /\ leaf[p] = 1}

\* Faulty: the scan starts at process 0 instead of behind the current one.
distance_zero(p, q) == q

distance(p, q) == (q - p) % MAX_OPEN_PROCESSES

next_pid(next) ==
    /\ next \in Schedulable \ {cur_pid}
    /\ \A q \in Schedulable \ {cur_pid} :
          distance(cur_pid, next) <= distance(cur_pid, q)

\* Faulty: the context of the preempted process is not saved.
save_none(next) == [saved_esp EXCEPT ![next] = Garbage]

\* The context of the preempted process is saved; the one of `next` is used up.
save_context(next) ==
    [saved_esp EXCEPT
        ![cur_pid] = [pid |-> KStack, at |-> cpu.at, uif |-> cpu.uif],
        ![next] = Garbage]

\* The part of pit_int after a process to switch to was found.
switch_to(next) ==
    /\ saved_esp' = save_context(next)
    /\ change_process(next)
    /\ tss' = next
    /\ curr_terminal' = terminal[next]
    /\ cpu' = saved_esp[next]

pit_switch ==
    /\ cur_pid # None
    /\ \E next \in Pids : next_pid(next) /\ switch_to(next)
    /\ UNCHANGED <<tableVars, pcbVars, eax>>

\* pit_int returns at once while the scheduled terminal has no task, which only
\* happens during boot, and when there is no other process to run.
pit_no_switch ==
    /\ cur_pid = None \/ Schedulable \ {cur_pid} = {}
    /\ UNCHANGED <<tableVars, curr_terminal, pcbVars, saved_esp, page, tss, cpu, eax>>

pit_int ==
    /\ irq = 1
    /\ Interruptible
    /\ irq' = 0
    /\ pit_switch \/ pit_no_switch

-----------------------------------------------------------------------------
(* Specification.                                                          *)

\* The state execute_shells leaves behind (see Boot): one shell per terminal,
\* shell 0 running, the others parked on the frames it built for them.
Init ==
    /\ process_array = [p \in Pids |-> IF p \in Terminals THEN 1 ELSE 0]
    /\ terminal_array = [t \in Terminals |-> t]
    /\ curr_terminal = 0
    /\ leaf = [p \in Pids |-> IF p \in Terminals THEN 1 ELSE 0]
    /\ parent_pid = [p \in Pids |-> None]
    /\ terminal = [p \in Pids |-> IF p \in Terminals THEN p ELSE 0]
    /\ parent_esp = [p \in Pids |-> Garbage]
    /\ saved_esp = [p \in Pids |-> IF p \in Terminals \ {0}
                                   THEN [pid |-> p, at |-> "user", uif |-> 1]
                                   ELSE Garbage]
    /\ page = 0
    /\ tss = 0
    /\ cpu = [pid |-> 0, at |-> "user", uif |-> 1]
    /\ irq = 0
    /\ eax = 0

Next ==
    \/ execute
    \/ execute_fail
    \/ \E status \in Statuses : halt(status)
    \/ read_enter
    \/ read_return
    \/ write_enter
    \/ write_return
    \/ pit_tick
    \/ pit_int

Spec == Init /\ [][Next]_vars

\* The PIT keeps ticking and the processor takes a pending interrupt once it
\* may.  Programs keep making system calls that open the kernel to interrupts:
\* nothing else lets a tick in while a program started by execute is running,
\* because such a program runs with IF = 0.  No read has to return.
Fairness ==
    /\ WF_vars(pit_tick)
    /\ WF_vars(pit_int)
    /\ SF_vars(read_enter \/ write_enter)

FairSpec == Spec /\ Fairness

-----------------------------------------------------------------------------
(* Properties.                                                             *)

\* Every variable has the type the C declarations give it; the scheduler's
\* current terminal always has an active process once the shells are up.
TypeOK ==
    /\ process_array \in [Pids -> {0, 1}]
    /\ terminal_array \in [Terminals -> Pids]
    /\ curr_terminal \in Terminals
    /\ leaf \in [Pids -> {0, 1}]
    /\ parent_pid \in [Pids -> Pids \cup {None}]
    /\ terminal \in [Pids -> Terminals]
    /\ parent_esp \in [Pids -> Contexts]
    /\ saved_esp \in [Pids -> Contexts]
    /\ page \in Pids
    /\ tss \in Pids
    /\ cpu \in Contexts
    /\ irq \in {0, 1}
    /\ eax \in {-1, 0}

\* The five ways the kernel names "the current process" agree at every
\* instruction: the loaded context, the user page, the TSS stack (the PCB that
\* `esp & PCB_BITMASK` finds in execute, open, close, read and write), and
\* terminal_array[curr_terminal] (the PCB that halt, getargs, pit_int and
\* get_curr_pcb_term use); and that process is live and belongs to the terminal.
CurrentProcessCoherent ==
    /\ cpu.pid = cur_pid
    /\ page = cur_pid
    /\ tss = cur_pid
    /\ terminal[cur_pid] = curr_terminal
    /\ process_array[cur_pid] = 1

\* Each terminal has exactly one schedulable process, the one terminal_array
\* names: pit_int never finds two leaves of one terminal, and never loses one.
OneLeafPerTerminal ==
    \A t \in Terminals :
        {p \in Schedulable : terminal[p] = t} = {terminal_array[t]}

\* A process waits in execute iff it has a live child, then exactly one, on the
\* same terminal, and the child's PCB holds the frame its halt must return to.
ParentsWaitForChildren ==
    \A p \in Pids : process_array[p] = 1 =>
        LET children == {q \in Pids : process_array[q] = 1 /\ parent_pid[q] = p}
        IN  /\ leaf[p] = 1 => children = {}
            /\ leaf[p] = 0 => \E q \in children :
                  /\ children = {q}
                  /\ terminal[q] = terminal[p]
                  /\ parent_esp[q].pid = p
                  /\ parent_esp[q].at = "execute"

\* Where the computation of process p can be found.
Continuations(p) ==
    (IF cpu.pid = p THEN {<<"cpu", p>>} ELSE {})
    \cup {<<"saved", q>> : q \in {r \in Pids : saved_esp[r].pid = p}}
    \cup {<<"parent", q>> : q \in {r \in Pids : parent_esp[r].pid = p}}

\* No context switch, execute or halt loses or duplicates a computation: every
\* active process has exactly one context, in the processor, in its saved_esp
\* or in its child's parent_esp; an unused process id has none, so execute can
\* hand it out again although it does not clear saved_esp.
OneContinuation ==
    \A p \in Pids : Cardinality(Continuations(p)) = process_array[p]

\* The base shells are the roots: "you can't halt the base shell".  They are
\* active for ever, whatever is halted, and only they have no parent.
ShellsSurvive ==
    \A p \in Pids :
        process_array[p] = 1 /\ parent_pid[p] = None <=> p \in Terminals

\* A program that execute started, or a shell that halt restarted, runs its user
\* code with IF = 0, so the timer preempts user code of boot shells only.
OnlyShellsPreemptedInUser ==
    \A c \in {cpu} \cup {saved_esp[p] : p \in Pids} :
        c.at = "user" /\ c.uif = 1 => c.pid \in Terminals

\* A process leaves process_array only by its own halt, which gives the
\* processor to its parent, makes the parent schedulable again and keeps the
\* terminal; no other process changes.
HaltResumesParent ==
    [][\A p \in Pids : process_array[p] = 1 /\ process_array'[p] = 0 =>
          /\ p = cpu.pid
          /\ cpu'.pid = parent_pid[p]
          /\ parent_pid[p] \in Schedulable'
          /\ curr_terminal' = curr_terminal
          /\ \A q \in Pids \ {p} : process_array'[q] = process_array[q]]_vars

\* Every terminal gets the processor again and again, whatever programs are
\* executed and halted in between and even if no read ever returns.
EveryTerminalScheduled ==
    \A t \in Terminals : []<>(curr_terminal = t)

-----------------------------------------------------------------------------
(* The inductive invariant, in parts.                                      *)

Active(p) == process_array[p] = 1

\* The current process: every name for it, and where it can stand.
CurrentPart ==
    /\ cpu.pid = cur_pid
    /\ page = cur_pid
    /\ tss = cur_pid
    /\ cpu.at \in {"user", "read", "write"}

\* terminal_array and the leaf flags describe the same set of processes.
LeafPart ==
    /\ \A t \in Terminals : LET p == terminal_array[t]
                             IN  Active(p) /\ leaf[p] = 1 /\ terminal[p] = t
    /\ \A p \in Pids : Active(p) /\ leaf[p] = 1 => terminal_array[terminal[p]] = p

\* A parent is alive, waits in execute, and has one child.
ParentPart ==
    /\ \A p \in Pids : Active(p) /\ parent_pid[p] # None =>
          LET q == parent_pid[p]
          IN  /\ Active(q) /\ leaf[q] = 0 /\ terminal[q] = terminal[p]
              /\ parent_esp[p].pid = q /\ parent_esp[p].at = "execute"
    /\ \A p, q \in Pids : Active(p) /\ Active(q) /\ parent_pid[p] # None
                          /\ parent_pid[p] = parent_pid[q] => p = q
    /\ \A p \in Pids : Active(p) /\ leaf[p] = 0 =>
          \E q \in Pids : Active(q) /\ parent_pid[q] = p

\* The roots are the shells.
RootPart ==
    /\ \A p \in Terminals : Active(p)
    /\ \A p \in Pids : Active(p) => (parent_pid[p] = None <=> p \in Terminals)

\* Which PCB fields hold a context that has not been resumed yet.
ContextPart ==
    /\ \A p \in Pids :
          IF Active(p) /\ leaf[p] = 1 /\ p # cpu.pid
          THEN saved_esp[p].pid = p /\ saved_esp[p].at \in {"user", "read", "write"}
          ELSE saved_esp[p].pid = None
    /\ \A p \in Pids :
          ~ Active(p) \/ parent_pid[p] = None => parent_esp[p].pid = None

\* User code with IF = 1 belongs to shells, wherever its context is kept.
FlagPart ==
    /\ cpu.uif = 1 => cpu.pid \in Terminals
    /\ \A p \in Pids : saved_esp[p].uif = 1 => saved_esp[p].pid \in Terminals
    /\ \A p \in Pids : parent_esp[p].uif = 1 => parent_esp[p].pid \in Terminals

\* The kernel's bookkeeping is consistent: the strengthening of the properties
\* above that every step of execute, halt, pit_int, read and write preserves.
IInv ==
    TypeOK /\ CurrentPart /\ LeafPart /\ ParentPart /\ RootPart /\ ContextPart
    /\ FlagPart

-----------------------------------------------------------------------------
(* Refinement.                                                             *)

\* The bookkeeping implements the tree of processes the programs see.
Tree == INSTANCE ProcessTree WITH
    alive   <- {p \in Pids : process_array[p] = 1},
    parent  <- [p \in Pids |-> IF process_array[p] = 1 THEN parent_pid[p] ELSE None],
    owner   <- [p \in Pids |-> IF process_array[p] = 1 THEN terminal[p] ELSE None],
    running <- cpu.pid

\* Every step of the kernel is a step of the process tree or leaves it alone.
ImplementsTree == Tree!TreeSpec
=============================================================================
