-------------------------- MODULE ProcessesProofs --------------------------
(***************************************************************************)
(* The process subsystem is correct for every number of processes and      *)
(* terminals: the proof that IInv is an invariant of Processes, one lemma  *)
(* per action, and what follows from it.                                   *)
(***************************************************************************)
EXTENDS Processes, FiniteSetTheorems, TLAPS

\* The base shells occupy the first process ids.
LEMMA TerminalsArePids == Terminals \subseteq Pids /\ 0 \in Terminals
  BY SizesAssumption DEF Terminals, Pids

\* None, the parent of a base shell, is no process id.
LEMMA NoneIsNoPid == None \notin Pids /\ (\A p \in Pids : p >= 0) /\ ~ (None >= 0)
  BY SizesAssumption DEF Pids, None

\* The state execute_shells hands over satisfies the invariant.
LEMMA InitIInv == Init => IInv
  <1> SUFFICES ASSUME Init PROVE IInv
    OBVIOUS
  <1> USE TerminalsArePids, NoneIsNoPid DEF Init
  <1>1. TypeOK
    BY DEF TypeOK, Contexts, Places, Garbage
  <1>2. CurrentPart
    BY DEF CurrentPart, cur_pid
  <1>3. LeafPart
    BY DEF LeafPart, Active
  <1>4. ParentPart
    BY DEF ParentPart, Active
  <1>5. RootPart
    BY DEF RootPart, Active
  <1>6. ContextPart
    BY DEF ContextPart, Active, Garbage
  <1>7. FlagPart
    BY DEF FlagPart, Garbage
  <1> QED
    BY <1>1, <1>2, <1>3, <1>4, <1>5, <1>6, <1>7 DEF IInv

\* What IInv says of the current process in user mode or inside the kernel.
LEMMA CurrentFacts ==
  ASSUME IInv
  PROVE  /\ cur_pid \in Pids
         /\ cpu.pid = cur_pid /\ page = cur_pid /\ tss = cur_pid
         /\ KStack = cur_pid
         /\ Active(cur_pid) /\ leaf[cur_pid] = 1
         /\ terminal[cur_pid] = curr_terminal
         /\ terminal_array[curr_terminal] = cur_pid
  BY DEF IInv, TypeOK, CurrentPart, LeafPart, cur_pid, KStack

\* A step that only moves the current process between user mode and the kernel.
LEMMA MoveIInv ==
  ASSUME IInv, NEW from, NEW to \in {"user", "read", "write"}, move(from, to)
  PROVE  IInv'
  <1> USE CurrentFacts DEF move, tableVars, pcbVars, IInv
  <1>0. cpu' = [pid |-> cpu.pid, at |-> to, uif |-> cpu.uif]
    BY DEF TypeOK, Contexts
  <1>1. TypeOK'
    BY <1>0 DEF TypeOK, Contexts, Places
  <1>2. CurrentPart'
    BY <1>0 DEF CurrentPart, cur_pid
  <1>3. LeafPart' /\ ParentPart' /\ RootPart'
    BY DEF LeafPart, ParentPart, RootPart, Active
  <1>4. ContextPart'
    BY <1>0 DEF ContextPart, Active
  <1>5. FlagPart'
    BY <1>0 DEF FlagPart
  <1> QED
    BY <1>1, <1>2, <1>3, <1>4, <1>5

\* Steps that change neither the tables, nor a PCB, nor a context.
LEMMA QuietIInv ==
  ASSUME IInv,
         UNCHANGED <<tableVars, curr_terminal, pcbVars, saved_esp, page, tss, cpu>>,
         irq' \in {0, 1}, eax' \in {-1, 0}
  PROVE  IInv'
  <1> USE DEF IInv, tableVars, pcbVars
  <1>1. TypeOK'
    BY DEF TypeOK
  <1>2. CurrentPart' /\ LeafPart' /\ ParentPart' /\ RootPart' /\ ContextPart' /\ FlagPart'
    BY DEF CurrentPart, cur_pid, LeafPart, ParentPart, RootPart, ContextPart,
           FlagPart, Active
  <1> QED
    BY <1>1, <1>2

\* execute of a program: the caller starts to wait for the new process.
LEMMA ExecuteIInv ==
  ASSUME IInv, execute
  PROVE  IInv'
  <1> DEFINE me == cur_pid
  <1> PICK pid \in Pids : get_next_pid(pid) /\ change_process(pid)
                          /\ new_pcb(pid, KStack) /\ return_to_user(pid, pid, 0)
    BY DEF execute
  <1>1. UNCHANGED <<curr_terminal, saved_esp, irq, eax>>
    BY DEF execute
  <1>2. /\ ~ Active(pid) /\ pid # me /\ me \in Pids
        /\ pid \notin Terminals /\ pid # None /\ me # None
        /\ process_array[pid] = 0
    BY CurrentFacts, NoneIsNoPid DEF get_next_pid, Active, IInv, RootPart
  <1>3. /\ process_array' = [process_array EXCEPT ![pid] = 1]
        /\ terminal_array' = [terminal_array EXCEPT ![curr_terminal] = pid]
        /\ terminal' = [terminal EXCEPT ![pid] = curr_terminal]
        /\ parent_pid' = [parent_pid EXCEPT ![pid] = me]
        /\ parent_esp' = [parent_esp EXCEPT
                             ![pid] = [pid |-> me, at |-> "execute", uif |-> cpu.uif]]
        /\ leaf' = [leaf EXCEPT ![me] = 0, ![pid] = 1]
    BY CurrentFacts DEF new_pcb, leaf_execute, IInv, TypeOK
  <1>4. page' = pid /\ tss' = pid /\ cpu' = [pid |-> pid, at |-> "user", uif |-> 0]
    BY DEF change_process, return_to_user
  <1>5. TypeOK'
    BY <1>1, <1>2, <1>3, <1>4 DEF IInv, TypeOK, Contexts, Places
  <1>6. CurrentPart'
    BY <1>1, <1>3, <1>4 DEF IInv, TypeOK, CurrentPart, cur_pid
  <1>7. \A p \in Pids : /\ (process_array'[p] = 1) <=> Active(p) \/ p = pid
                        /\ p # pid => /\ terminal'[p] = terminal[p]
                                      /\ parent_pid'[p] = parent_pid[p]
                                      /\ parent_esp'[p] = parent_esp[p]
                        /\ p # pid /\ p # me => leaf'[p] = leaf[p]
    BY <1>2, <1>3 DEF IInv, TypeOK, Active
  <1>8. /\ Active(me) /\ leaf[me] = 1 /\ terminal[me] = curr_terminal
        /\ terminal_array[curr_terminal] = me
        /\ leaf'[me] = 0 /\ leaf'[pid] = 1 /\ terminal'[pid] = curr_terminal
        /\ parent_pid'[pid] = me
        /\ parent_esp'[pid] = [pid |-> me, at |-> "execute", uif |-> cpu.uif]
    BY <1>2, <1>3, CurrentFacts DEF IInv, TypeOK
  <1>9. LeafPart'
    <2>1. ASSUME NEW t \in Terminals
          PROVE  LET p == terminal_array'[t]
                 IN  process_array'[p] = 1 /\ leaf'[p] = 1 /\ terminal'[p] = t
      <3>1. CASE t = curr_terminal
        BY <1>3, <1>7, <1>8, <3>1 DEF IInv, TypeOK
      <3>2. CASE t # curr_terminal
        <4>1. terminal_array'[t] = terminal_array[t]
          BY <1>3, <3>2 DEF IInv, TypeOK
        <4>2. terminal_array[t] # pid /\ terminal_array[t] # me
              /\ terminal_array[t] \in Pids
          BY <1>2, <1>8, <3>2 DEF IInv, TypeOK, LeafPart
        <4> QED
          BY <1>7, <4>1, <4>2 DEF IInv, LeafPart
      <3> QED
        BY <3>1, <3>2
    <2>2. ASSUME NEW p \in Pids, process_array'[p] = 1, leaf'[p] = 1
          PROVE  terminal_array'[terminal'[p]] = p
      <3>1. CASE p = pid
        BY <1>3, <1>8, <3>1 DEF IInv, TypeOK
      <3>2. CASE p # pid
        <4>1. p # me /\ Active(p) /\ leaf[p] = 1 /\ terminal'[p] = terminal[p]
          BY <1>7, <1>8, <2>2, <3>2
        <4>2. terminal_array[terminal[p]] = p /\ terminal[p] # curr_terminal
              /\ terminal[p] \in Terminals
          BY <1>8, <4>1 DEF IInv, LeafPart, TypeOK
        <4> QED
          BY <1>3, <4>1, <4>2 DEF IInv, TypeOK
      <3> QED
        BY <3>1, <3>2
    <2> QED
      BY <1>1, <2>1, <2>2 DEF LeafPart, Active
  <1>10. ParentPart'
    <2>1. \A p \in Pids : Active(p) => parent_pid[p] # pid /\ parent_pid[p] # me
      BY <1>2, <1>8 DEF IInv, ParentPart
    <2>2. ASSUME NEW p \in Pids, process_array'[p] = 1, parent_pid'[p] # None
          PROVE  LET q == parent_pid'[p]
                 IN  /\ process_array'[q] = 1 /\ leaf'[q] = 0 /\ terminal'[q] = terminal'[p]
                     /\ parent_esp'[p].pid = q /\ parent_esp'[p].at = "execute"
      <3>1. CASE p = pid
        BY <1>2, <1>7, <1>8, <3>1
      <3>2. CASE p # pid
        <4>1. Active(p) /\ parent_pid'[p] = parent_pid[p] /\ parent_pid[p] \in Pids
          BY <1>7, <2>2, <3>2 DEF IInv, TypeOK
        <4> QED
          BY <1>7, <2>1, <2>2, <3>2, <4>1 DEF IInv, ParentPart
      <3> QED
        BY <3>1, <3>2
    <2>3. ASSUME NEW p \in Pids, NEW q \in Pids, process_array'[p] = 1, process_array'[q] = 1,
                 parent_pid'[p] # None, parent_pid'[p] = parent_pid'[q]
          PROVE  p = q
      BY <1>7, <1>8, <2>1, <2>3 DEF IInv, ParentPart
    <2>4. ASSUME NEW p \in Pids, process_array'[p] = 1, leaf'[p] = 0
          PROVE  \E q \in Pids : process_array'[q] = 1 /\ parent_pid'[q] = p
      <3>1. CASE p = me
        BY <1>7, <1>8, <3>1
      <3>2. CASE p # me
        <4>1. Active(p) /\ leaf[p] = 0
          BY <1>7, <1>8, <2>4, <3>2
        <4>2. PICK q \in Pids : Active(q) /\ parent_pid[q] = p
          BY <4>1 DEF IInv, ParentPart
        <4> QED
          BY <1>2, <1>7, <4>2
      <3> QED
        BY <3>1, <3>2
    <2> QED
      BY <2>2, <2>3, <2>4 DEF ParentPart, Active
  <1>11. RootPart'
    BY <1>2, <1>7, <1>8, TerminalsArePids DEF IInv, RootPart, Active
  <1>12. ContextPart'
    <2>1. ASSUME NEW p \in Pids
          PROVE  IF process_array'[p] = 1 /\ leaf'[p] = 1 /\ p # cpu'.pid
                 THEN saved_esp'[p].pid = p /\ saved_esp'[p].at \in {"user", "read", "write"}
                 ELSE saved_esp'[p].pid = None
      <3>1. CASE p = pid \/ p = me
        BY <1>1, <1>2, <1>4, <1>8, <3>1, CurrentFacts DEF IInv, ContextPart
      <3>2. CASE p # pid /\ p # me
        BY <1>1, <1>4, <1>7, <3>2, CurrentFacts DEF IInv, ContextPart
      <3> QED
        BY <3>1, <3>2
    <2>2. ASSUME NEW p \in Pids, process_array'[p] # 1 \/ parent_pid'[p] = None
          PROVE  parent_esp'[p].pid = None
      BY <1>2, <1>7, <1>8, <2>2 DEF IInv, ContextPart
    <2> QED
      BY <2>1, <2>2 DEF ContextPart, Active
  <1>13. FlagPart'
    BY <1>1, <1>4, <1>7, <1>8, CurrentFacts DEF IInv, FlagPart
  <1> QED
    BY <1>5, <1>6, <1>9, <1>10, <1>11, <1>12, <1>13 DEF IInv

\* halt of a program with a parent: the parent's execute returns.
LEMMA HaltChildIInv ==
  ASSUME IInv, NEW status, halt_child(status)
  PROVE  IInv'
  <1> DEFINE me == cur_pid
             par == parent_pid[cur_pid]
  <1>1. /\ me \in Pids /\ Active(me) /\ leaf[me] = 1
        /\ terminal[me] = curr_terminal /\ terminal_array[curr_terminal] = me
    BY CurrentFacts
  <1>2. par \in Pids /\ par # None /\ me \notin Terminals
    BY <1>1, NoneIsNoPid DEF halt_child, has_parent, leaf_halt, IInv, TypeOK, RootPart
  <1>3. /\ Active(par) /\ leaf[par] = 0 /\ terminal[par] = curr_terminal
        /\ parent_esp[me].pid = par /\ par # me
    BY <1>1, <1>2 DEF IInv, ParentPart
  <1>4. /\ process_array' = [process_array EXCEPT ![me] = 0]
        /\ terminal_array' = [terminal_array EXCEPT ![curr_terminal] = par]
        /\ leaf' = [leaf EXCEPT ![par] = 1]
        /\ parent_esp' = [parent_esp EXCEPT ![me] = Garbage]
        /\ cpu' = [pid |-> par, at |-> "user", uif |-> parent_esp[me].uif]
        /\ page' = par /\ tss' = par /\ eax' = 0
        /\ UNCHANGED <<curr_terminal, parent_pid, terminal, saved_esp, irq>>
    BY <1>3 DEF halt_child, leaf_halt, change_process
  <1>5. TypeOK'
    BY <1>1, <1>2, <1>4 DEF IInv, TypeOK, Contexts, Places, Garbage
  <1>6. CurrentPart'
    BY <1>4 DEF IInv, TypeOK, CurrentPart, cur_pid
  <1>7. \A p \in Pids : /\ (process_array'[p] = 1) <=> Active(p) /\ p # me
                        /\ p # par => leaf'[p] = leaf[p]
                        /\ p # me => parent_esp'[p] = parent_esp[p]
    BY <1>1, <1>2, <1>4 DEF IInv, TypeOK, Active
  <1>8. leaf'[par] = 1 /\ parent_esp'[me] = Garbage
    BY <1>1, <1>2, <1>4 DEF IInv, TypeOK
  <1>9. LeafPart'
    <2>1. ASSUME NEW t \in Terminals
          PROVE  LET p == terminal_array'[t]
                 IN  process_array'[p] = 1 /\ leaf'[p] = 1 /\ terminal'[p] = t
      <3>1. CASE t = curr_terminal
        BY <1>2, <1>3, <1>4, <1>7, <1>8, <3>1 DEF IInv, TypeOK
      <3>2. CASE t # curr_terminal
        <4>1. /\ terminal_array'[t] = terminal_array[t]
              /\ terminal_array[t] \in Pids \ {me, par}
          BY <1>1, <1>3, <1>4, <3>2 DEF IInv, TypeOK, LeafPart
        <4> QED
          BY <1>4, <1>7, <4>1 DEF IInv, LeafPart
      <3> QED
        BY <3>1, <3>2
    <2>2. ASSUME NEW p \in Pids, process_array'[p] = 1, leaf'[p] = 1
          PROVE  terminal_array'[terminal'[p]] = p
      <3>1. CASE p = par
        BY <1>3, <1>4, <3>1 DEF IInv, TypeOK
      <3>2. CASE p # par
        <4>1. Active(p) /\ p # me /\ leaf[p] = 1
          BY <1>7, <2>2, <3>2
        <4>2. /\ terminal_array[terminal[p]] = p /\ terminal[p] # curr_terminal
              /\ terminal[p] \in Terminals
          BY <1>1, <4>1 DEF IInv, LeafPart, TypeOK
        <4> QED
          BY <1>4, <4>2 DEF IInv, TypeOK
      <3> QED
        BY <3>1, <3>2
    <2> QED
      BY <2>1, <2>2 DEF LeafPart, Active
  <1>10. ParentPart'
    <2>1. \A p \in Pids : /\ Active(p) => parent_pid[p] # me
                          /\ Active(p) /\ p # me => parent_pid[p] # par
      BY <1>1, <1>2, NoneIsNoPid DEF IInv, ParentPart
    <2>2. ASSUME NEW p \in Pids, process_array'[p] = 1, parent_pid[p] # None
          PROVE  LET q == parent_pid[p]
                 IN  /\ process_array'[q] = 1 /\ leaf'[q] = 0 /\ terminal[q] = terminal[p]
                     /\ parent_esp'[p].pid = q /\ parent_esp'[p].at = "execute"
      <3>1. Active(p) /\ p # me /\ parent_pid[p] \in Pids \ {me, par}
        BY <1>7, <2>1, <2>2 DEF IInv, TypeOK
      <3> QED
        BY <1>7, <2>2, <3>1 DEF IInv, ParentPart
    <2>3. ASSUME NEW p \in Pids, process_array'[p] = 1, leaf'[p] = 0
          PROVE  \E q \in Pids : process_array'[q] = 1 /\ parent_pid[q] = p
      <3>1. Active(p) /\ leaf[p] = 0 /\ p # par
        BY <1>7, <1>8, <2>3
      <3>2. PICK q \in Pids : Active(q) /\ parent_pid[q] = p
        BY <3>1 DEF IInv, ParentPart
      <3> QED
        BY <1>7, <3>1, <3>2
    <2>4. \A p, q \in Pids : process_array'[p] = 1 /\ process_array'[q] = 1
             /\ parent_pid[p] # None /\ parent_pid[p] = parent_pid[q] => p = q
      BY <1>7 DEF IInv, ParentPart
    <2> QED
      BY <1>4, <2>2, <2>3, <2>4 DEF ParentPart, Active
  <1>11. RootPart'
    BY <1>2, <1>4, <1>7, TerminalsArePids DEF IInv, RootPart, Active
  <1>12. ContextPart'
    <2>1. ASSUME NEW p \in Pids
          PROVE  IF process_array'[p] = 1 /\ leaf'[p] = 1 /\ p # cpu'.pid
                 THEN saved_esp[p].pid = p /\ saved_esp[p].at \in {"user", "read", "write"}
                 ELSE saved_esp[p].pid = None
      <3>1. CASE p = me \/ p = par
        BY <1>1, <1>3, <1>4, <1>7, <3>1, CurrentFacts DEF IInv, ContextPart
      <3>2. CASE p # me /\ p # par
        BY <1>4, <1>7, <3>2, CurrentFacts DEF IInv, ContextPart
      <3> QED
        BY <3>1, <3>2
    <2>2. ASSUME NEW p \in Pids, process_array'[p] # 1 \/ parent_pid[p] = None
          PROVE  parent_esp'[p].pid = None
      BY <1>7, <1>8, <2>2 DEF IInv, ContextPart, Garbage
    <2> QED
      BY <1>4, <2>1, <2>2 DEF ContextPart, Active
  <1>13. FlagPart'
    BY <1>1, <1>3, <1>4, <1>7, <1>8 DEF IInv, FlagPart, Garbage
  <1> QED
    BY <1>5, <1>6, <1>9, <1>10, <1>11, <1>12, <1>13 DEF IInv

\* halt of a base shell: it starts again, with interrupts off.
LEMMA HaltShellIInv ==
  ASSUME IInv, halt_shell
  PROVE  IInv'
  <1> USE CurrentFacts DEF halt_shell, return_to_user, tableVars, pcbVars, IInv
  <1>1. cpu' = [pid |-> cpu.pid, at |-> "user", uif |-> 0] /\ tss' = tss
    OBVIOUS
  <1>2. TypeOK'
    BY <1>1 DEF TypeOK, Contexts, Places
  <1>3. CurrentPart'
    BY <1>1 DEF CurrentPart, cur_pid
  <1>4. LeafPart' /\ ParentPart' /\ RootPart'
    BY DEF LeafPart, ParentPart, RootPart, Active
  <1>5. ContextPart'
    BY <1>1 DEF ContextPart, Active
  <1>6. FlagPart'
    BY <1>1 DEF FlagPart
  <1> QED
    BY <1>2, <1>3, <1>4, <1>5, <1>6

\* The context switch of the timer interrupt.
LEMMA SwitchIInv ==
  ASSUME IInv, pit_switch, irq' = 0
  PROVE  IInv'
  <1> DEFINE me == cur_pid
  <1> PICK next \in Pids : next_pid(next) /\ switch_to(next)
    BY DEF pit_switch
  <1>1. UNCHANGED <<tableVars, pcbVars, eax>>
    BY DEF pit_switch
  <1>2. Active(next) /\ leaf[next] = 1 /\ next # me /\ me \in Pids
    BY CurrentFacts DEF next_pid, Schedulable, Active
  <1>3. /\ saved_esp' = [saved_esp EXCEPT
                            ![me] = [pid |-> me, at |-> cpu.at, uif |-> cpu.uif],
                            ![next] = Garbage]
        /\ page' = next /\ tss' = next /\ curr_terminal' = terminal[next]
        /\ cpu' = saved_esp[next]
    BY CurrentFacts DEF switch_to, save_context, change_process
  <1>4. saved_esp[next].pid = next /\ saved_esp[next].at \in {"user", "read", "write"}
    BY <1>2, CurrentFacts DEF IInv, ContextPart
  <1>5. terminal_array[terminal[next]] = next
    BY <1>2 DEF IInv, LeafPart
  <1>6. TypeOK'
    BY <1>1, <1>2, <1>3 DEF IInv, TypeOK, Contexts, Garbage, Places, tableVars, pcbVars
  <1>7. CurrentPart'
    BY <1>1, <1>3, <1>4, <1>5 DEF CurrentPart, cur_pid, tableVars
  <1>8. LeafPart' /\ ParentPart' /\ RootPart'
    BY <1>1 DEF IInv, LeafPart, ParentPart, RootPart, Active, tableVars, pcbVars
  <1>9. /\ saved_esp'[me] = [pid |-> me, at |-> cpu.at, uif |-> cpu.uif]
        /\ saved_esp'[next] = Garbage
        /\ \A p \in Pids \ {me, next} : saved_esp'[p] = saved_esp[p]
    BY <1>2, <1>3 DEF IInv, TypeOK
  <1>10. ContextPart'
    <2>1. ASSUME NEW p \in Pids
          PROVE  IF Active(p) /\ leaf[p] = 1 /\ p # cpu'.pid
                 THEN saved_esp'[p].pid = p /\ saved_esp'[p].at \in {"user", "read", "write"}
                 ELSE saved_esp'[p].pid = None
      <3>1. CASE p = me
        BY <1>2, <1>3, <1>4, <1>9, <3>1, CurrentFacts DEF IInv, CurrentPart
      <3>2. CASE p = next
        BY <1>3, <1>4, <1>9, <3>2 DEF Garbage
      <3>3. CASE p # me /\ p # next
        BY ZenonT(60), <1>3, <1>4, <1>9, <3>3, CurrentFacts DEF IInv, ContextPart
      <3> QED
        BY <3>1, <3>2, <3>3
    <2> QED
      BY <1>1, <2>1 DEF IInv, ContextPart, Active, tableVars, pcbVars
  <1>11. FlagPart'
    <2>1. cpu'.uif = 1 => cpu'.pid \in Terminals
      BY <1>3 DEF IInv, FlagPart
    <2>2. ASSUME NEW p \in Pids
          PROVE  saved_esp'[p].uif = 1 => saved_esp'[p].pid \in Terminals
      BY <1>9, CurrentFacts DEF IInv, FlagPart, Garbage
    <2> QED
      BY <1>1, <2>1, <2>2 DEF IInv, FlagPart, pcbVars
  <1> QED
    BY <1>6, <1>7, <1>8, <1>10, <1>11 DEF IInv

\* Every step preserves the invariant.
LEMMA NextIInv == IInv /\ [Next]_vars => IInv'
  <1> SUFFICES ASSUME IInv, [Next]_vars PROVE IInv'
    OBVIOUS
  <1>1. CASE execute
    BY <1>1, ExecuteIInv
  <1>2. CASE execute_fail
    BY <1>2, QuietIInv DEF execute_fail, IInv, TypeOK
  <1>3. ASSUME NEW status \in Statuses, halt(status) PROVE IInv'
    BY <1>3, HaltChildIInv, HaltShellIInv DEF halt
  <1>4. CASE read_enter \/ read_return \/ write_enter \/ write_return
    BY <1>4, MoveIInv DEF read_enter, read_return, write_enter, write_return
  <1>5. CASE pit_tick
    BY <1>5, QuietIInv DEF pit_tick, IInv, TypeOK
  <1>6. CASE pit_int
    BY <1>6, SwitchIInv, QuietIInv DEF pit_int, pit_no_switch, IInv, TypeOK
  <1>7. CASE UNCHANGED vars
    BY <1>7, QuietIInv DEF vars, tableVars, pcbVars, IInv, TypeOK
  <1> QED
    BY <1>1, <1>2, <1>3, <1>4, <1>5, <1>6, <1>7 DEF Next

\* The bookkeeping of processes stays consistent: IInv is an invariant of the
\* kernel for every number of processes and terminals.
THEOREM Invariance == Spec => []IInv
  BY InitIInv, NextIInv, PTL DEF Spec

\* Every variable keeps its type; in particular the scheduled terminal always
\* has an active process, so pit_int and halt never index with -1.
THEOREM TypeCorrect == Spec => []TypeOK
  <1>1. IInv => TypeOK
    BY DEF IInv
  <1> QED
    BY <1>1, Invariance, PTL

\* The invariant has one current process, whichever name the kernel uses for it.
LEMMA NamesAgree == IInv => CurrentProcessCoherent
  BY CurrentFacts DEF CurrentProcessCoherent, Active

\* The names the kernel uses for the current process agree at every instruction.
THEOREM Coherence == Spec => []CurrentProcessCoherent
  BY NamesAgree, Invariance, PTL

\* The invariant has one leaf per terminal.
LEMMA LeavesCounted == IInv => OneLeafPerTerminal
  BY DEF IInv, TypeOK, LeafPart, OneLeafPerTerminal, Schedulable, Active

\* Each terminal has exactly one schedulable process, the one terminal_array names.
THEOREM LeafUnique == Spec => []OneLeafPerTerminal
  BY LeavesCounted, Invariance, PTL

\* A process waits in execute iff it has a live child, then exactly one.
THEOREM ParentsWait == Spec => []ParentsWaitForChildren
  <1>1. ASSUME IInv PROVE ParentsWaitForChildren
    <2> SUFFICES ASSUME NEW p \in Pids, Active(p)
                 PROVE  LET children == {q \in Pids : Active(q) /\ parent_pid[q] = p}
                        IN  /\ leaf[p] = 1 => children = {}
                            /\ leaf[p] = 0 => \E q \in children :
                                  /\ children = {q}
                                  /\ terminal[q] = terminal[p]
                                  /\ parent_esp[q].pid = p
                                  /\ parent_esp[q].at = "execute"
      BY DEF ParentsWaitForChildren, Active
    <2> DEFINE children == {q \in Pids : Active(q) /\ parent_pid[q] = p}
    <2>1. \A q \in children : /\ leaf[p] = 0 /\ terminal[q] = terminal[p]
                              /\ parent_esp[q].pid = p /\ parent_esp[q].at = "execute"
      BY <1>1, NoneIsNoPid DEF IInv, ParentPart
    <2>2. \A q, r \in children : q = r
      BY <1>1, NoneIsNoPid DEF IInv, ParentPart
    <2>3. leaf[p] = 0 => \E q \in children : children = {q}
      <3>1. leaf[p] = 0 => \E q \in children : TRUE
        BY <1>1 DEF IInv, ParentPart
      <3> QED
        BY <2>2, <3>1
    <2> QED
      BY <2>1, <2>3
  <1> QED
    BY <1>1, Invariance, PTL

\* The base shells are the roots of the tree, for ever.
THEOREM Shells == Spec => []ShellsSurvive
  <1>1. IInv => ShellsSurvive
    BY TerminalsArePids DEF IInv, RootPart, ShellsSurvive, Active
  <1> QED
    BY <1>1, Invariance, PTL

\* The timer preempts user code of boot shells only.
THEOREM UserPreemption == Spec => []OnlyShellsPreemptedInUser
  <1>1. IInv => OnlyShellsPreemptedInUser
    BY DEF IInv, FlagPart, OnlyShellsPreemptedInUser
  <1> QED
    BY <1>1, Invariance, PTL

\* The invariant accounts for every context: an active process has one, in the
\* processor, in its saved_esp or in its child's parent_esp.
LEMMA ContinuationsCounted == IInv => OneContinuation
  <1>1. ASSUME IInv, NEW p \in Pids PROVE Cardinality(Continuations(p)) = process_array[p]
    <2> DEFINE S == {<<"saved", q>> : q \in {r \in Pids : saved_esp[r].pid = p}}
               P == {<<"parent", q>> : q \in {r \in Pids : parent_esp[r].pid = p}}
               C == IF cpu.pid = p THEN {<<"cpu", p>>} ELSE {}
    <2>0. Continuations(p) = C \cup S \cup P
      BY DEF Continuations
    <2>1. \A q \in Pids : saved_esp[q].pid = p <=>
             q = p /\ Active(p) /\ leaf[p] = 1 /\ p # cpu.pid
      BY <1>1, NoneIsNoPid DEF IInv, ContextPart
    <2>2. \A q \in Pids : parent_esp[q].pid = p <=> Active(q) /\ parent_pid[q] = p
      BY <1>1, NoneIsNoPid DEF IInv, ContextPart, ParentPart
    <2>3. CASE ~ Active(p)
      <3>1. p # cpu.pid
        BY <1>1, <2>3, CurrentFacts
      <3>2. \A q \in Pids : ~ (Active(q) /\ parent_pid[q] = p)
        BY <1>1, <2>3, NoneIsNoPid DEF IInv, ParentPart
      <3>3. Continuations(p) = {}
        BY <2>0, <2>1, <2>2, <2>3, <3>1, <3>2
      <3>4. process_array[p] = 0
        BY <1>1, <2>3 DEF IInv, TypeOK, Active
      <3> QED
        BY <3>3, <3>4, FS_EmptySet
    <2>4. CASE Active(p) /\ leaf[p] = 1
      <3>1. \A q \in Pids : ~ (Active(q) /\ parent_pid[q] = p)
        BY <1>1, <2>4, NoneIsNoPid DEF IInv, ParentPart
      <3>2. Continuations(p) = IF cpu.pid = p THEN {<<"cpu", p>>} ELSE {<<"saved", p>>}
        BY <1>1, <2>0, <2>1, <2>2, <2>4, <3>1
      <3> QED
        BY <2>4, <3>2, FS_Singleton DEF Active
    <2>5. CASE Active(p) /\ leaf[p] = 0
      <3>1. p # cpu.pid
        BY <1>1, <2>5, CurrentFacts
      <3>2. PICK q \in Pids : Active(q) /\ parent_pid[q] = p
        BY <1>1, <2>5 DEF IInv, ParentPart
      <3>3. \A r \in Pids : Active(r) /\ parent_pid[r] = p => r = q
        BY <1>1, <3>2, NoneIsNoPid DEF IInv, ParentPart
      <3>4. Continuations(p) = {<<"parent", q>>}
        BY <2>0, <2>1, <2>2, <2>5, <3>1, <3>2, <3>3
      <3> QED
        BY <2>5, <3>4, FS_Singleton DEF Active
    <2>6. leaf[p] \in {0, 1}
      BY <1>1 DEF IInv, TypeOK
    <2> QED
      BY <2>3, <2>4, <2>5, <2>6
  <1> QED
    BY <1>1 DEF OneContinuation

\* No context is lost or duplicated.
THEOREM ContinuationUnique == Spec => []OneContinuation
  BY ContinuationsCounted, Invariance, PTL

\* halt gives the processor to the parent and removes nobody else.
THEOREM HaltReturns == Spec => HaltResumesParent
  <1> DEFINE A == \A p \in Pids : process_array[p] = 1 /\ process_array'[p] = 0 =>
                    /\ p = cpu.pid
                    /\ cpu'.pid = parent_pid[p]
                    /\ parent_pid[p] \in Schedulable'
                    /\ curr_terminal' = curr_terminal
                    /\ \A q \in Pids \ {p} : process_array'[q] = process_array[q]
  <1>1. ASSUME IInv, [Next]_vars PROVE A
    <2> SUFFICES ASSUME NEW p \in Pids, process_array[p] = 1, process_array'[p] = 0
                 PROVE  /\ p = cpu.pid
                        /\ cpu'.pid = parent_pid[p]
                        /\ parent_pid[p] \in Schedulable'
                        /\ curr_terminal' = curr_terminal
                        /\ \A q \in Pids \ {p} : process_array'[q] = process_array[q]
      OBVIOUS
    <2>1. ~ execute
      <3> SUFFICES ASSUME execute PROVE FALSE
        OBVIOUS
      <3> PICK pid \in Pids : process_array' = [process_array EXCEPT ![pid] = 1]
        BY DEF execute, new_pcb
      <3> QED
        BY <1>1 DEF IInv, TypeOK
    <2>2. process_array' # process_array
      OBVIOUS
    <2>3. PICK status \in Statuses : halt_child(status)
      BY <1>1, <2>1, <2>2 DEF Next, vars, tableVars, execute_fail, halt, halt_shell,
         read_enter, read_return, write_enter, write_return, move, pit_tick, pit_int,
         pit_switch, pit_no_switch
    <2>4. p = cur_pid /\ \A q \in Pids \ {p} : process_array'[q] = process_array[q]
      BY <1>1, <2>3 DEF halt_child, has_parent, leaf_halt, IInv, TypeOK
    <2>5. /\ parent_pid[p] \in Pids /\ parent_pid[p] # p
          /\ process_array[parent_pid[p]] = 1
          /\ parent_esp[p].pid = parent_pid[p]
      BY <1>1, <2>3, <2>4, CurrentFacts, NoneIsNoPid
         DEF halt_child, has_parent, leaf_halt, IInv, TypeOK, ParentPart, Active
    <2>6. leaf'[parent_pid[p]] = 1 /\ process_array'[parent_pid[p]] = 1
      BY <1>1, <2>3, <2>4, <2>5 DEF halt_child, has_parent, leaf_halt, IInv, TypeOK
    <2>7. cpu'.pid = parent_pid[p] /\ curr_terminal' = curr_terminal
      BY <2>3, <2>4, <2>5 DEF halt_child
    <2>8. p = cpu.pid
      BY <1>1, <2>4, CurrentFacts
    <2> QED
      BY <2>4, <2>5, <2>6, <2>7, <2>8 DEF Schedulable
  <1>2. Spec => [][A]_vars
    BY <1>1, Invariance, PTL DEF Spec
  <1> QED
    BY <1>2 DEF HaltResumesParent

-----------------------------------------------------------------------------
(* Refinement of ProcessTree.                                              *)

\* The process ids of the tree are those of the kernel.
LEMMA SameConstants == Tree!Pids = Pids /\ Tree!None = None
  BY DEF Tree!Pids, Pids, Tree!None, None

\* The leaves of the tree are the processes the scheduler may pick: the leaf
\* flags, which execute and halt maintain, say who has a live child.
LEMMA LeavesAreSchedulable ==
  ASSUME IInv
  PROVE  Tree!Leaves = Schedulable
  <1> DEFINE live == {p \in Pids : process_array[p] = 1}
             par == [p \in Pids |-> IF process_array[p] = 1 THEN parent_pid[p] ELSE None]
  <1>1. Tree!Leaves = {p \in live : \A q \in live : par[q] # p}
    BY DEF Tree!Leaves
  <1>2. \A q \in live : par[q] = parent_pid[q]
    OBVIOUS
  <1>3. ASSUME NEW p \in live PROVE (\A q \in live : parent_pid[q] # p) <=> leaf[p] = 1
    <2>1. ASSUME leaf[p] = 1, NEW q \in live, parent_pid[q] = p PROVE FALSE
      BY <2>1, NoneIsNoPid DEF IInv, ParentPart, Active
    <2>2. ASSUME leaf[p] # 1 PROVE \E q \in live : parent_pid[q] = p
      BY <2>2 DEF IInv, TypeOK, ParentPart, Active
    <2> QED
      BY <2>1, <2>2
  <1> QED
    BY <1>1, <1>2, <1>3 DEF Schedulable

\* The process that has the processor is a leaf.
LEMMA CurrentIsLeaf ==
  ASSUME IInv
  PROVE  cpu.pid \in Tree!Leaves
  BY CurrentFacts, LeavesAreSchedulable DEF Schedulable, Active

\* The state after boot is the initial tree.
LEMMA TreeInitial == Init => Tree!TreeInit
  <1> SUFFICES ASSUME Init PROVE Tree!TreeInit
    OBVIOUS
  <1> USE TerminalsArePids, SizesAssumption DEF Init
  <1>1. {p \in Pids : process_array[p] = 1} = 0 .. NUM_TERMINALS - 1
    BY DEF Terminals
  <1>2. \A p \in Pids : p \in Terminals <=> p < NUM_TERMINALS
    BY DEF Pids, Terminals
  <1>3. cpu.pid = 0
    OBVIOUS
  <1>4. [p \in Pids |-> IF process_array[p] = 1 THEN parent_pid[p] ELSE None]
          = [p \in Pids |-> None]
    OBVIOUS
  <1>5. [p \in Pids |-> IF process_array[p] = 1 THEN terminal[p] ELSE None]
          = [p \in Pids |-> IF p < NUM_TERMINALS THEN p ELSE None]
    BY <1>2
  <1> QED
    BY ZenonT(60), <1>1, <1>3, <1>4, <1>5, SameConstants DEF Tree!TreeInit

\* execute is Spawn.
LEMMA ExecuteSpawns ==
  ASSUME IInv, execute
  PROVE  Tree!Spawn
  <1> PICK pid \in Pids : get_next_pid(pid) /\ change_process(pid)
                          /\ new_pcb(pid, KStack) /\ return_to_user(pid, pid, 0)
    BY DEF execute
  <1> DEFINE live == {p \in Pids : process_array[p] = 1}
             par == [p \in Pids |-> IF process_array[p] = 1 THEN parent_pid[p] ELSE None]
             own == [p \in Pids |-> IF process_array[p] = 1 THEN terminal[p] ELSE None]
  <1>1. /\ pid # cur_pid /\ cur_pid \in Pids /\ process_array[cur_pid] = 1
        /\ cpu.pid = cur_pid /\ process_array[pid] = 0
    BY CurrentFacts DEF get_next_pid, Active
  <1>2. /\ process_array' = [process_array EXCEPT ![pid] = 1]
        /\ terminal' = [terminal EXCEPT ![pid] = terminal[cur_pid]]
        /\ parent_pid' = [parent_pid EXCEPT ![pid] = cur_pid]
        /\ cpu' = [pid |-> pid, at |-> "user", uif |-> 0]
    BY CurrentFacts DEF new_pcb, return_to_user
  <1>3. pid \in Pids \ live
    BY <1>1
  <1>4. live' = live \cup {pid}
    BY <1>2 DEF IInv, TypeOK
  <1>5. par' = [par EXCEPT ![pid] = cpu.pid]
    BY <1>1, <1>2 DEF IInv, TypeOK
  <1>6. own' = [own EXCEPT ![pid] = own[cpu.pid]]
    BY <1>1, <1>2 DEF IInv, TypeOK
  <1>7. cpu'.pid = pid
    BY <1>2
  <1> QED
    BY <1>3, <1>4, <1>5, <1>6, <1>7, CurrentIsLeaf, SameConstants DEF Tree!Spawn

\* halt of a program with a parent is Exit.
LEMMA HaltExits ==
  ASSUME IInv, NEW status, halt_child(status)
  PROVE  Tree!Exit
  <1> DEFINE me == cur_pid
             live == {p \in Pids : process_array[p] = 1}
             par == [p \in Pids |-> IF process_array[p] = 1 THEN parent_pid[p] ELSE None]
             own == [p \in Pids |-> IF process_array[p] = 1 THEN terminal[p] ELSE None]
  <1>1. me \in Pids /\ process_array[me] = 1 /\ cpu.pid = me
    BY CurrentFacts DEF Active
  <1>2. parent_pid[me] # None /\ parent_esp[me].pid = parent_pid[me]
    BY <1>1, NoneIsNoPid DEF halt_child, has_parent, leaf_halt, IInv, ParentPart, Active
  <1>3. /\ process_array' = [process_array EXCEPT ![me] = 0]
        /\ UNCHANGED <<parent_pid, terminal>>
        /\ cpu'.pid = parent_pid[me]
    BY <1>2 DEF halt_child
  <1>4. live' = live \ {me}
    BY <1>1, <1>3 DEF IInv, TypeOK
  <1>a. \A p \in Pids : process_array'[p] = IF p = me THEN 0 ELSE process_array[p]
    BY <1>1, <1>3 DEF IInv, TypeOK
  <1>5. par' = [par EXCEPT ![me] = None]
    <2>1. par' = [p \in Pids |-> IF process_array'[p] = 1 THEN parent_pid[p] ELSE None]
      BY <1>3 DEF None
    <2>2. [par EXCEPT ![me] = None] = [p \in Pids |-> IF p = me THEN None ELSE par[p]]
      OBVIOUS
    <2> QED
      BY <1>a, <2>1, <2>2
  <1>6. own' = [own EXCEPT ![me] = None]
    <2>1. own' = [p \in Pids |-> IF process_array'[p] = 1 THEN terminal[p] ELSE None]
      BY <1>3 DEF None
    <2>2. [own EXCEPT ![me] = None] = [p \in Pids |-> IF p = me THEN None ELSE own[p]]
      OBVIOUS
    <2> QED
      BY <1>a, <2>1, <2>2
  <1>7. par[me] = parent_pid[me]
    BY <1>1
  <1> QED
    BY <1>1, <1>2, <1>3, <1>4, <1>5, <1>6, <1>7, CurrentIsLeaf, SameConstants
    DEF Tree!Exit

\* The context switch of pit_int is Switch.
LEMMA PitSwitches ==
  ASSUME IInv, pit_switch
  PROVE  Tree!Switch
  <1> PICK next \in Pids : next_pid(next) /\ switch_to(next)
    BY DEF pit_switch
  <1>1. UNCHANGED <<process_array, parent_pid, terminal>>
    BY DEF pit_switch, tableVars, pcbVars
  <1>2. next \in Schedulable /\ next # cpu.pid /\ cpu' = saved_esp[next]
    BY CurrentFacts DEF next_pid, switch_to
  <1>3. saved_esp[next].pid = next
    BY <1>2 DEF IInv, ContextPart, Schedulable, Active
  <1> QED
    BY <1>1, <1>2, <1>3, CurrentIsLeaf, LeavesAreSchedulable DEF Tree!Switch

\* Every other step leaves the tree alone.
LEMMA QuietTree ==
  ASSUME UNCHANGED <<process_array, parent_pid, terminal>>, cpu'.pid = cpu.pid
  PROVE  UNCHANGED Tree!treeVars
  BY DEF Tree!treeVars

\* Every step of the kernel is a step of the tree or leaves it alone.
LEMMA TreeStep ==
  ASSUME IInv, [Next]_vars
  PROVE  [Tree!TreeNext]_(Tree!treeVars)
  <1>1. CASE execute
    BY <1>1, ExecuteSpawns DEF Tree!TreeNext
  <1>2. CASE execute_fail
    BY <1>2, QuietTree DEF execute_fail, tableVars, pcbVars
  <1>3. ASSUME NEW status \in Statuses, halt(status)
        PROVE  [Tree!TreeNext]_(Tree!treeVars)
    <2>1. CASE halt_child(status)
      BY <2>1, HaltExits DEF Tree!TreeNext
    <2>2. CASE halt_shell
      <3>1. UNCHANGED <<process_array, parent_pid, terminal>> /\ cpu'.pid = cpu.pid
        BY <2>2, CurrentFacts DEF halt_shell, return_to_user, tableVars, pcbVars
      <3> QED
        BY <3>1, QuietTree
    <2> QED
      BY <1>3, <2>1, <2>2 DEF halt
  <1>4. CASE read_enter \/ read_return \/ write_enter \/ write_return
    <2>1. UNCHANGED <<process_array, parent_pid, terminal>> /\ cpu'.pid = cpu.pid
      BY <1>4, CurrentFacts
         DEF read_enter, read_return, write_enter, write_return, move, tableVars, pcbVars
    <2> QED
      BY <2>1, QuietTree
  <1>5. CASE pit_tick
    BY <1>5, QuietTree DEF pit_tick, tableVars, pcbVars
  <1>6. CASE pit_int
    <2>1. CASE pit_switch
      BY <2>1, PitSwitches DEF Tree!TreeNext
    <2>2. CASE pit_no_switch
      BY <2>2, QuietTree DEF pit_no_switch, tableVars, pcbVars
    <2> QED
      BY <1>6, <2>1, <2>2 DEF pit_int
  <1>7. CASE UNCHANGED vars
    BY <1>7, QuietTree DEF vars
  <1> QED
    BY <1>1, <1>2, <1>3, <1>4, <1>5, <1>6, <1>7 DEF Next

\* The kernel implements the tree of processes: execute suspends the caller until
\* the child halts, the scheduler only moves the processor between leaves.
THEOREM Refinement == Spec => ImplementsTree
  <1>1. IInv /\ [Next]_vars => [Tree!TreeNext]_(Tree!treeVars)
    BY TreeStep
  <1> QED
    BY <1>1, TreeInitial, Invariance, PTL DEF Spec, ImplementsTree, Tree!TreeSpec

=============================================================================
