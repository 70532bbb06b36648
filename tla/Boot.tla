-------------------------------- MODULE Boot --------------------------------
(***************************************************************************)
(* execute_shells (syscall_handler.c): building the three base shells with *)
(* interrupts on, while the timer is already ticking and pit_int already   *)
(* switches processes.  The module extends Processes, so that the shells   *)
(* that pit_int starts in the middle of the boot run as they do later.     *)
(*                                                                         *)
(* The boot code runs on the stack at 0x800000, which is the kernel stack  *)
(* of process 0 (boot.S sets %esp to it), and is the context "boot" of     *)
(* process 0 here.  The PCBs are memory nobody initialised: Memory gives   *)
(* the values a PCB field may hold before it is first written.             *)
(***************************************************************************)
EXTENDS Processes

CONSTANT Memory   \* contents of unwritten memory: {0}, or more

ASSUME MemoryAssumption == Memory \subseteq {0, 1} /\ 0 \in Memory

VARIABLES boot_k,    \* iterations of the loop that are done
          boot_at    \* the next store of the current iteration

bootVars == <<vars, boot_k, boot_at>>

\* Faulty: the loop runs upwards.
shell_of_up(k) == k

\* The loop `for (i = SECOND_TERMINAL; i >= 0; i--)`.
shell_of(k) == NUM_TERMINALS - 1 - k
i == shell_of(boot_k)

Boot_Init ==
    /\ process_array = [p \in Pids |-> 0]
    /\ terminal_array = [t \in Terminals |-> None]
    /\ curr_terminal = 0
    /\ leaf \in [Pids -> Memory]
    /\ parent_pid = [p \in Pids |-> 0]
    /\ terminal \in [Pids -> Memory \cap Terminals]
    /\ parent_esp = [p \in Pids |-> Garbage]
    /\ saved_esp = [p \in Pids |-> Garbage]
    /\ page = 0
    /\ tss = 0
    /\ cpu = [pid |-> 0, at |-> "boot", uif |-> 1]
    /\ irq = 0
    /\ eax = 0
    /\ boot_k = 0
    /\ boot_at = "terminal_array"

\* One store of the loop: the processor runs the boot code, interrupts are on.
step(at, next) ==
    /\ cpu.at = "boot"
    /\ Running
    /\ boot_at = at
    /\ boot_at' = next
    /\ UNCHANGED <<irq, eax, parent_esp>>

set_terminal_array ==
    /\ step("terminal_array", "process_array")
    /\ terminal_array' = [terminal_array EXCEPT ![i] = i]
    /\ UNCHANGED <<process_array, curr_terminal, leaf, parent_pid, terminal,
                   saved_esp, page, tss, cpu, boot_k>>

set_process_array ==
    /\ step("process_array", "load")
    /\ process_array' = [process_array EXCEPT ![i] = 1]
    /\ UNCHANGED <<terminal_array, curr_terminal, leaf, parent_pid, terminal,
                   saved_esp, page, tss, cpu, boot_k>>

\* change_process(i) and the loading of the shell's image.
load_shell ==
    /\ step("load", "leaf")
    /\ change_process(i)
    /\ UNCHANGED <<tableVars, curr_terminal, leaf, parent_pid, terminal,
                   saved_esp, tss, cpu, boot_k>>

set_leaf ==
    /\ step("leaf", "terminal")
    /\ leaf' = [leaf EXCEPT ![i] = 1]
    /\ UNCHANGED <<tableVars, curr_terminal, parent_pid, terminal, saved_esp,
                   page, tss, cpu, boot_k>>

\* Faulty: the terminal of the PCB is not set.
set_terminal_none ==
    /\ step("terminal", "parent_pid")
    /\ UNCHANGED <<tableVars, curr_terminal, leaf, parent_pid, terminal, saved_esp,
                   page, tss, cpu, boot_k>>

set_terminal ==
    /\ step("terminal", "parent_pid")
    /\ terminal' = [terminal EXCEPT ![i] = i]
    /\ UNCHANGED <<tableVars, curr_terminal, leaf, parent_pid, saved_esp,
                   page, tss, cpu, boot_k>>

\* Faulty: the parent of a base shell is left as it was in memory.
set_parent_pid_none ==
    /\ step("parent_pid", "frame")
    /\ UNCHANGED <<tableVars, curr_terminal, leaf, parent_pid, terminal, saved_esp,
                   page, tss, cpu, boot_k>>

set_parent_pid ==
    /\ step("parent_pid", "frame")
    /\ parent_pid' = [parent_pid EXCEPT ![i] = None]
    /\ UNCHANGED <<tableVars, curr_terminal, leaf, terminal, saved_esp,
                   page, tss, cpu, boot_k>>

\* The frame pit_int will return through, built for every shell but the one
\* that is entered by return_to_user; then the next iteration.
build_frame ==
    /\ step("frame", IF boot_k = NUM_TERMINALS - 1 THEN "curr_terminal"
                                                        ELSE "terminal_array")
    /\ tss' = i
    /\ saved_esp' = [saved_esp EXCEPT
          ![i] = IF i # 0 THEN [pid |-> i, at |-> "user", uif |-> 1] ELSE Garbage]
    /\ boot_k' = IF boot_k < NUM_TERMINALS - 1 THEN boot_k + 1 ELSE boot_k
    /\ UNCHANGED <<tableVars, curr_terminal, leaf, parent_pid, terminal, page, cpu>>

set_curr_terminal ==
    /\ step("curr_terminal", "return_to_user")
    /\ curr_terminal' = terminal[i]
    /\ UNCHANGED <<tableVars, leaf, parent_pid, terminal, saved_esp, page, tss,
                   cpu, boot_k>>

enter_shell ==
    /\ step("return_to_user", "done")
    /\ return_to_user(i, page, 1)
    /\ UNCHANGED <<tableVars, curr_terminal, leaf, parent_pid, terminal,
                   saved_esp, page, boot_k>>

execute_shells ==
    \/ set_terminal_array
    \/ set_process_array
    \/ load_shell
    \/ set_leaf
    \/ set_terminal
    \/ set_parent_pid
    \/ build_frame
    \/ set_curr_terminal
    \/ enter_shell

\* The boot, the timer, and the shells the timer has already started.
Boot_Next ==
    \/ execute_shells
    \/ Next /\ UNCHANGED <<boot_k, boot_at>>

Boot_Spec == Boot_Init /\ [][Boot_Next]_bootVars

\* The word of unwritten memory that the hand-over depends on: pit_int takes the
\* terminal of the suspended boot code from the PCB of process 0.
Zeroed_Init == Boot_Init /\ terminal[0] = 0
Zeroed_Spec == Zeroed_Init /\ [][Boot_Next]_bootVars

\* The boot code gets to run between ticks, the timer goes on, programs behave
\* as in Processes.
Boot_FairSpec ==
    /\ Boot_Spec
    /\ SF_bootVars(execute_shells)
    /\ WF_bootVars(pit_tick /\ UNCHANGED <<boot_k, boot_at>>)
    /\ WF_bootVars(pit_int /\ UNCHANGED <<boot_k, boot_at>>)
    /\ SF_bootVars((read_enter \/ write_enter) /\ UNCHANGED <<boot_k, boot_at>>)

-----------------------------------------------------------------------------

\* pit_int never loads a stack pointer that was not saved: the order of the
\* loop (last shell first, while curr_terminal is 0) keeps the timer out until
\* every shell it could switch to has its frame.
NoGarbageResumed == cpu.at # "garbage"

\* When execute_shells returns to user mode the shells are complete, even if
\* the timer suspended the boot code after its leaf flag was set: the
\* properties of Processes hold from then on.
BootHandsOver ==
    boot_at = "done" =>
        /\ TypeOK
        /\ CurrentProcessCoherent
        /\ OneLeafPerTerminal
        /\ OneContinuation

\* The timer has the processor from the boot code before process_array[0] and the
\* leaf flag of process 0 are set: pit_int does not find process 0.
SuspendedEarly ==
    /\ cpu.at # "boot"
    /\ boot_at = "process_array" \/ (boot_at \in {"load", "leaf"} /\ leaf[0] = 0)

\* Such a suspension is final: no tick and no call of a shell ever makes process 0
\* schedulable as the boot code again, so execute_shells is not finished.  If id 0
\* is given to a program, pit_int does not run into the abandoned boot code.
EarlyTickIsFinal == [][SuspendedEarly => SuspendedEarly']_bootVars

\* Documented at execute_shells ("starts up three shells on three terminals"):
\* every terminal's shell gets to run.
AllShellsStart ==
    \A t \in Terminals : <>(cpu.pid = t /\ cpu.at = "user")

-----------------------------------------------------------------------------
(* The inductive invariant, in parts.                                      *)

BootContexts == [pid : Pids \cup {None}, at : Places \cup {"boot"}, uif : {0, 1}]

\* The stores of the loop and what follows it, in program order.
Stores == [terminal_array |-> 1, process_array |-> 2, load |-> 3, leaf |-> 4,
           terminal |-> 5, parent_pid |-> 6, frame |-> 7, curr_terminal |-> 8,
           return_to_user |-> 9, done |-> 10]

\* The loop has done the store `at` for shell p.
Written(p, at) == p > i \/ (p = i /\ Stores[boot_at] > Stores[at])

\* Once shells run: the timer took the processor when terminal_array[0] was set
\* and process_array[0] was not, so that nobody will resume the boot code; or
\* process 0 is the boot code, running or suspended; or it is the shell.
Lost    == boot_at = "process_array"
Booting == boot_at \notin {"process_array", "done"}
Roots   == IF Lost THEN Terminals \ {0} ELSE Terminals

\* The PCB of process 0 as it will be: fields the loop has yet to write are taken
\* as written.
Leaf(p)   == leaf[p] = 1 \/ (p = 0 /\ boot_at \in {"load", "leaf"})
Parent(p) == IF p = 0 /\ boot_at \in {"load", "leaf", "terminal", "parent_pid"}
             THEN None ELSE parent_pid[p]

BootTypes ==
    /\ boot_k \in 0 .. NUM_TERMINALS - 1
    /\ boot_at \in DOMAIN Stores
    /\ process_array \in [Pids -> {0, 1}]
    /\ terminal_array \in [Terminals -> Pids \cup {None}]
    /\ curr_terminal \in Terminals
    /\ leaf \in [Pids -> {0, 1}]
    /\ parent_pid \in [Pids -> Pids \cup {None}]
    /\ terminal \in [Pids -> Terminals]
    /\ parent_esp \in [Pids -> Contexts]
    /\ saved_esp \in [Pids -> BootContexts]
    /\ page \in Pids
    /\ tss \in Pids
    /\ cpu \in BootContexts
    /\ irq \in {0, 1}
    /\ eax \in {-1, 0}

\* The boot code has always had the processor and process_array[0] is not set:
\* exactly what the loop has written is there.  Only terminal 0 is scheduled,
\* which has no task before the last iteration.
BuildPart ==
    /\ cpu = [pid |-> 0, at |-> "boot", uif |-> 1]
    /\ boot_at \notin {"curr_terminal", "return_to_user", "done"}
    /\ ~ Written(0, "process_array")
    /\ curr_terminal = 0 /\ terminal[0] = 0
    /\ \A t \in Terminals :
          terminal_array[t] = IF Written(t, "terminal_array") THEN t ELSE None
    /\ \A p \in Pids :
          /\ Active(p) <=> p \in Terminals /\ Written(p, "process_array")
          /\ parent_esp[p] = Garbage
          /\ saved_esp[p] = IF p \in Terminals /\ Written(p, "frame")
                            THEN [pid |-> p, at |-> "user", uif |-> 1] ELSE Garbage
    /\ \A p \in Terminals :
          /\ Written(p, "leaf") => leaf[p] = 1
          /\ Written(p, "terminal") => terminal[p] = p
          /\ Written(p, "parent_pid") => parent_pid[p] = None

\* From then on (RunInv) the bookkeeping of Processes is in order, among the shells
\* that are active.  As long as process 0 is the boot code it stands in the boot
\* code; a lost boot code stays behind in saved_esp[0], which pit_int overwrites
\* before it uses it if process id 0 is given to a program.
RunPart ==
    /\ boot_k = NUM_TERMINALS - 1 /\ boot_at # "terminal_array"
    /\ terminal_array \in [Terminals -> Pids]
    /\ Booting => terminal[0] = 0 /\ terminal_array[0] = 0

BootCurrentPart ==
    /\ cpu.pid = cur_pid
    /\ curr_terminal \in Roots
    /\ IF Booting /\ cpu.pid = 0
       THEN cpu.at = "boot" /\ (boot_at # "load" => page = 0)
       ELSE cpu.at \in {"user", "read", "write"} /\ page = cur_pid /\ tss = cur_pid

BootLeafPart ==
    /\ \A t \in Roots : LET p == terminal_array[t]
                         IN  Active(p) /\ Leaf(p) /\ terminal[p] = t
    /\ \A p \in Pids : Active(p) /\ Leaf(p) =>
          terminal[p] \in Roots /\ terminal_array[terminal[p]] = p

BootParentPart ==
    /\ \A p \in Pids : Active(p) /\ Parent(p) # None =>
          LET q == Parent(p)
          IN  /\ Active(q) /\ ~ Leaf(q) /\ terminal[q] = terminal[p]
              /\ parent_esp[p].pid = q /\ parent_esp[p].at = "execute"
    /\ \A p, q \in Pids : Active(p) /\ Active(q) /\ Parent(p) # None
                          /\ Parent(p) = Parent(q) => p = q
    /\ \A p \in Pids : Active(p) /\ ~ Leaf(p) =>
          \E q \in Pids : Active(q) /\ Parent(q) = p

BootRootPart ==
    /\ \A p \in Roots : Active(p)
    /\ \A p \in Pids : Active(p) => (Parent(p) = None <=> p \in Roots)

BootContextPart ==
    /\ \A p \in Pids :
          IF Active(p) /\ Leaf(p) /\ p # cpu.pid
          THEN /\ saved_esp[p].pid = p
               /\ IF Booting /\ p = 0 THEN saved_esp[p].at = "boot"
                                      ELSE saved_esp[p].at \in {"user", "read", "write"}
          ELSE saved_esp[p] = Garbage \/ (Lost /\ p = 0)
    /\ \A p \in Pids : ~ Active(p) \/ Parent(p) = None => parent_esp[p] = Garbage

RunInv ==
    RunPart /\ BootCurrentPart /\ BootLeafPart /\ BootParentPart /\ BootRootPart
    /\ BootContextPart

\* Every state of the boot: the strengthening of NoGarbageResumed and
\* BootHandsOver that each store of execute_shells, each tick and each system call
\* of a shell the timer has started preserves.
BootInv ==
    /\ BootTypes
    /\ FlagPart
    /\ BuildPart \/ RunInv
=============================================================================
