---------------------------- MODULE ProcessTree ----------------------------
(***************************************************************************)
(* What the process subsystem (syscall_handler.c) promises to the programs *)
(* it runs, without any of the kernel's bookkeeping.                       *)
(*                                                                         *)
(*   - Every terminal owns a base shell and the chain of programs started  *)
(*     from it.  A program that calls execute stands still until the       *)
(*     program it started has halted.                                      *)
(*   - The processor runs one program that is not waiting for a child.     *)
(*   - The scheduler may pass the processor to any other such program, and *)
(*     does nothing else.                                                  *)
(*   - Base shells never go away.                                          *)
(***************************************************************************)
EXTENDS Integers

CONSTANTS MAX_OPEN_PROCESSES, NUM_TERMINALS

VARIABLES alive,    \* the process ids in use
          parent,   \* parent[p]: the process that executed p, None for a shell
          owner,    \* owner[p]: the terminal p belongs to
          running   \* the process that has the processor

treeVars == <<alive, parent, owner, running>>

Pids == 0 .. MAX_OPEN_PROCESSES - 1

None == -1

\* The live processes that no live process was executed by.
Leaves == {p \in alive : \A q \in alive : parent[q] # p}

TreeInit ==
    /\ alive = 0 .. NUM_TERMINALS - 1
    /\ parent = [p \in Pids |-> None]
    /\ owner = [p \in Pids |-> IF p < NUM_TERMINALS THEN p ELSE None]
    /\ running = 0

\* A running leaf starts a program under an unused process id.
Spawn ==
    /\ running \in Leaves
    /\ \E q \in Pids \ alive :
          /\ alive' = alive \cup {q}
          /\ parent' = [parent EXCEPT ![q] = running]
          /\ owner' = [owner EXCEPT ![q] = owner[running]]
          /\ running' = q

\* A running leaf that is not a base shell ends and its parent goes on.
Exit ==
    /\ running \in Leaves
    /\ parent[running] # None
    /\ alive' = alive \ {running}
    /\ parent' = [parent EXCEPT ![running] = None]
    /\ owner' = [owner EXCEPT ![running] = None]
    /\ running' = parent[running]

\* The scheduler passes the processor from one leaf to another.
Switch ==
    /\ running \in Leaves
    /\ \E p \in Leaves \ {running} : running' = p
    /\ UNCHANGED <<alive, parent, owner>>

TreeNext == Spawn \/ Exit \/ Switch

TreeSpec == TreeInit /\ [][TreeNext]_treeVars
=============================================================================
