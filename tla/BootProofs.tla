----------------------------- MODULE BootProofs -----------------------------
(***************************************************************************)
(* The boot of the shells is safe for every number of processes and of     *)
(* terminals: the proof that BootInv is an invariant of Boot, whatever the *)
(* order of the stores of execute_shells, of the timer and of the shells   *)
(* it has started, and that IInv holds when the boot is over.              *)
(***************************************************************************)
EXTENDS Boot, ProcessesProofs

\* The stores by name and number.
LEMMA StoreNumbers ==
  /\ DOMAIN Stores = {"terminal_array", "process_array", "load", "leaf", "terminal",
                      "parent_pid", "frame", "curr_terminal", "return_to_user", "done"}
  /\ Stores["terminal_array"] = 1 /\ Stores["process_array"] = 2 /\ Stores["load"] = 3
  /\ Stores["leaf"] = 4 /\ Stores["terminal"] = 5 /\ Stores["parent_pid"] = 6
  /\ Stores["frame"] = 7 /\ Stores["curr_terminal"] = 8
  /\ Stores["return_to_user"] = 9 /\ Stores["done"] = 10
  BY DEF Stores

\* The loop counter is a terminal, 0 in the last iteration.
LEMMA LoopCounter ==
  ASSUME boot_k \in 0 .. NUM_TERMINALS - 1
  PROVE  /\ i \in Terminals /\ i \in Pids /\ i = NUM_TERMINALS - 1 - boot_k
         /\ i = 0 <=> boot_k = NUM_TERMINALS - 1
  BY SizesAssumption DEF i, shell_of, Terminals, Pids

\* Before anything is written: the loop starts at the last terminal.
LEMMA InitBootInv == Zeroed_Init => BootInv
  <1> SUFFICES ASSUME Boot_Init, terminal[0] = 0 PROVE BootInv
    BY DEF Zeroed_Init
  <1> USE TerminalsArePids, NoneIsNoPid, SizesAssumption, MemoryAssumption
  <1>1. BootTypes
    <2>1. boot_k \in 0 .. NUM_TERMINALS - 1 /\ boot_at \in DOMAIN Stores
      BY StoreNumbers DEF Boot_Init
    <2>2. leaf \in [Pids -> {0, 1}] /\ terminal \in [Pids -> Terminals]
      BY DEF Boot_Init
    <2>3. saved_esp \in [Pids -> BootContexts] /\ cpu \in BootContexts
          /\ parent_esp \in [Pids -> Contexts]
      BY DEF Boot_Init, BootContexts, Contexts, Places, Garbage
    <2> QED
      BY <2>1, <2>2, <2>3 DEF Boot_Init, BootTypes
  <1>2. FlagPart
    BY DEF Boot_Init, FlagPart, Garbage
  <1>3. \A p \in Terminals, at \in DOMAIN Stores : ~ Written(p, at)
    BY SMTT(60), StoreNumbers DEF Boot_Init, Written, i, shell_of, Terminals
  <1>4. BuildPart
    BY <1>3, StoreNumbers DEF Boot_Init, BuildPart, Active
  <1> QED
    BY <1>1, <1>2, <1>4 DEF BootInv

-----------------------------------------------------------------------------
(* The boot code alone.                                                    *)

\* What a store of the loop adds to what is written.
LEMMA WrittenNext ==
  ASSUME boot_k \in 0 .. NUM_TERMINALS - 1, boot_at \in DOMAIN Stores,
         \/ boot_k' = boot_k /\ boot_at' \in DOMAIN Stores
            /\ Stores[boot_at'] = Stores[boot_at] + 1
         \/ boot_k' = boot_k + 1 /\ boot_at = "frame" /\ boot_at' = "terminal_array"
  PROVE  \A p \in Int : \A at \in {"terminal_array", "process_array", "load", "leaf",
                                    "terminal", "parent_pid", "frame"} :
            /\ Written(p, at)' <=> Written(p, at) \/ (p = i /\ at = boot_at)
            /\ ~ Written(i, boot_at)
  <1>1. i \in Int /\ i' = NUM_TERMINALS - 1 - boot_k' /\ i = NUM_TERMINALS - 1 - boot_k
    BY SizesAssumption DEF i, shell_of
  <1>2. CASE boot_k' = boot_k /\ boot_at' \in DOMAIN Stores
             /\ Stores[boot_at'] = Stores[boot_at] + 1
    <2>1. i' = i
      BY <1>1, <1>2
    <2> QED
      BY <1>1, <1>2, <2>1, StoreNumbers DEF Written
  <1>3. CASE boot_k' = boot_k + 1 /\ boot_at = "frame" /\ boot_at' = "terminal_array"
    <2>1. i' = i - 1
      BY <1>1, <1>3, SizesAssumption
    <2>2. \A p \in Int : p > i - 1 <=> p > i \/ p = i
      BY <1>1
    <2> QED
      BY <1>1, <1>3, <2>1, <2>2, StoreNumbers DEF Written
  <1> QED
    BY <1>2, <1>3

\* The steps that leave everything but the interrupt request and eax alone.
LEMMA QuietBootInv ==
  ASSUME BootInv,
         UNCHANGED <<tableVars, curr_terminal, pcbVars, saved_esp, page, tss, cpu,
                     boot_k, boot_at>>,
         irq' \in {0, 1}, eax' \in {-1, 0}
  PROVE  BootInv'
  <1> USE DEF tableVars, pcbVars
  <1>1. BootTypes' /\ FlagPart'
    BY DEF BootInv, BootTypes, FlagPart
  <1>2. i' = i /\ \A p, at : Written(p, at)' = Written(p, at)
    BY DEF i, Written
  <1>3. BuildPart' = BuildPart
    BY <1>2 DEF BuildPart, Active
  <1>4. RunPart' = RunPart /\ BootCurrentPart' = BootCurrentPart
    BY DEF RunPart, BootCurrentPart, Booting, cur_pid, Roots, Lost
  <1>5. Roots' = Roots /\ Lost' = Lost /\ Booting' = Booting
        /\ \A p : Leaf(p)' = Leaf(p) /\ Parent(p)' = Parent(p) /\ Active(p)' = Active(p)
    BY DEF Roots, Lost, Booting, Leaf, Parent, Active
  <1>6. BootLeafPart' = BootLeafPart /\ BootParentPart' = BootParentPart
    BY <1>5 DEF BootLeafPart, BootParentPart
  <1>7. BootRootPart' = BootRootPart /\ BootContextPart' = BootContextPart
    BY <1>5 DEF BootRootPart, BootContextPart
  <1> QED
    BY <1>1, <1>3, <1>4, <1>6, <1>7 DEF BootInv, RunInv

\* Each store of the loop writes one field of shell i and moves on to the next store.
LEMMA StoreEffect ==
  ASSUME BootTypes, BuildPart, execute_shells
  PROVE  /\ UNCHANGED <<cpu, curr_terminal, parent_esp, irq, eax>>
         /\ terminal_array' = IF boot_at = "terminal_array"
                              THEN [terminal_array EXCEPT ![i] = i] ELSE terminal_array
         /\ process_array' = IF boot_at = "process_array"
                             THEN [process_array EXCEPT ![i] = 1] ELSE process_array
         /\ page' = IF boot_at = "load" THEN i ELSE page
         /\ leaf' = IF boot_at = "leaf" THEN [leaf EXCEPT ![i] = 1] ELSE leaf
         /\ terminal' = IF boot_at = "terminal" THEN [terminal EXCEPT ![i] = i] ELSE terminal
         /\ parent_pid' = IF boot_at = "parent_pid" THEN [parent_pid EXCEPT ![i] = None]
                          ELSE parent_pid
         /\ saved_esp' = IF boot_at = "frame"
                         THEN [saved_esp EXCEPT ![i] = [pid |-> i, at |-> "user", uif |-> 1]]
                         ELSE saved_esp
         /\ tss' = IF boot_at = "frame" THEN i ELSE tss
         /\ boot_k' \in 0 .. NUM_TERMINALS - 1
         /\ boot_at' \in DOMAIN Stores
         /\ boot_at' \notin {"curr_terminal", "return_to_user", "done"}
         /\ \/ boot_k' = boot_k /\ Stores[boot_at'] = Stores[boot_at] + 1
            \/ boot_k' = boot_k + 1 /\ boot_at = "frame" /\ boot_at' = "terminal_array"
  <1>1. boot_at = "frame" => i # 0 /\ boot_k < NUM_TERMINALS - 1
    BY LoopCounter, StoreNumbers, SizesAssumption DEF BuildPart, BootTypes, Written
  <1>2. ~ set_curr_terminal /\ ~ enter_shell
    BY DEF BuildPart, set_curr_terminal, enter_shell, step
  <1>3. boot_k \in 0 .. NUM_TERMINALS - 1
    BY DEF BootTypes
  <1>4. CASE set_terminal_array
    BY <1>3, <1>4, StoreNumbers DEF set_terminal_array, step
  <1>5. CASE set_process_array
    BY <1>3, <1>5, StoreNumbers DEF set_process_array, step
  <1>6. CASE load_shell
    BY <1>3, <1>6, StoreNumbers DEF load_shell, step, change_process, tableVars
  <1>7. CASE set_leaf
    BY <1>3, <1>7, StoreNumbers DEF set_leaf, step, tableVars
  <1>8. CASE set_terminal
    BY <1>3, <1>8, StoreNumbers DEF set_terminal, step, tableVars
  <1>9. CASE set_parent_pid
    BY <1>3, <1>9, StoreNumbers DEF set_parent_pid, step, tableVars
  <1>10. CASE build_frame
    <2>1. boot_at = "frame" /\ boot_at' = "terminal_array" /\ boot_k' = boot_k + 1
      BY <1>1, <1>3, <1>10, SizesAssumption DEF build_frame, step
    <2>2. boot_k' \in 0 .. NUM_TERMINALS - 1
      BY <1>1, <1>3, <2>1, SizesAssumption
    <2> QED
      BY <1>1, <1>10, <2>1, <2>2, StoreNumbers DEF build_frame, step, tableVars
  <1> QED
    BY <1>2, <1>4, <1>5, <1>6, <1>7, <1>8, <1>9, <1>10 DEF execute_shells

\* As long as process_array[0] is not set, a store keeps BuildPart.
LEMMA StoreBuilds ==
  ASSUME BootTypes, FlagPart, BuildPart, execute_shells,
         ~ (i = 0 /\ boot_at = "process_array")
  PROVE  BootTypes' /\ FlagPart' /\ BuildPart'
  <1> USE TerminalsArePids, NoneIsNoPid
  <1>1. i \in Terminals /\ i \in Pids /\ boot_k \in 0 .. NUM_TERMINALS - 1
        /\ boot_at \in DOMAIN Stores
    BY LoopCounter DEF BootTypes
  <1>2. BootTypes'
    <2>1. [pid |-> i, at |-> "user", uif |-> 1] \in BootContexts
      BY <1>1 DEF BootContexts, Places
    <2>2. saved_esp' \in [Pids -> BootContexts]
      BY <1>1, <2>1, StoreEffect DEF BootTypes
    <2>3. terminal_array' \in [Terminals -> Pids \cup {None}]
          /\ process_array' \in [Pids -> {0, 1}] /\ leaf' \in [Pids -> {0, 1}]
      BY SMTT(60), <1>1, StoreEffect DEF BootTypes
    <2>4. terminal' \in [Pids -> Terminals] /\ parent_pid' \in [Pids -> Pids \cup {None}]
      BY SMTT(60), <1>1, StoreEffect DEF BootTypes
    <2>5. page' \in Pids /\ tss' \in Pids
      BY <1>1, StoreEffect DEF BootTypes
    <2> QED
      BY <2>2, <2>3, <2>4, <2>5, StoreEffect DEF BootTypes
  <1>3. FlagPart'
    BY <1>1, StoreEffect DEF FlagPart, BootTypes
  <1>4. \A p \in Pids : \A at \in {"terminal_array", "process_array", "load", "leaf",
                                    "terminal", "parent_pid", "frame"} :
            /\ Written(p, at)' <=> Written(p, at) \/ (p = i /\ at = boot_at)
            /\ ~ Written(i, boot_at)
    <2>1. Pids \subseteq Int
      BY DEF Pids
    <2> QED
      BY <1>1, <2>1, StoreEffect, WrittenNext
  <1>5. ~ Written(0, "process_array")'
    BY <1>4 DEF BuildPart
  <1>6. \A t \in Terminals :
          terminal_array'[t] = IF Written(t, "terminal_array")' THEN t ELSE None
    BY <1>1, <1>4, StoreEffect DEF BuildPart, BootTypes
  <1>7. ASSUME NEW p \in Pids
        PROVE  (process_array'[p] = 1) <=> p \in Terminals /\ Written(p, "process_array")'
    BY <1>1, <1>4, StoreEffect DEF BuildPart, BootTypes, Active
  <1>8. ASSUME NEW p \in Pids
        PROVE  saved_esp'[p] = IF p \in Terminals /\ Written(p, "frame")'
                               THEN [pid |-> p, at |-> "user", uif |-> 1] ELSE Garbage
    BY <1>1, <1>4, StoreEffect DEF BuildPart, BootTypes
  <1>9. ASSUME NEW p \in Terminals
        PROVE  /\ Written(p, "leaf")' => leaf'[p] = 1
               /\ Written(p, "terminal")' => terminal'[p] = p
               /\ Written(p, "parent_pid")' => parent_pid'[p] = None
    BY <1>1, <1>4, StoreEffect DEF BuildPart, BootTypes
  <1>10. terminal'[0] = 0 /\ UNCHANGED <<cpu, curr_terminal, parent_esp>>
         /\ boot_at' \notin {"curr_terminal", "return_to_user", "done"}
    BY <1>1, StoreEffect DEF BuildPart, BootTypes
  <1> QED
    BY <1>2, <1>3, <1>5, <1>6, <1>7, <1>8, <1>9, <1>10 DEF BuildPart, Active

\* Terminal 0 gets its task when the other shells are complete.
LEMMA BuiltFacts ==
  ASSUME BootTypes, BuildPart, terminal_array[0] # None
  PROVE  /\ boot_at = "process_array" /\ i = 0 /\ boot_k = NUM_TERMINALS - 1
         /\ terminal_array = [t \in Terminals |-> t]
         /\ \A p \in Pids : Active(p) <=> p \in Terminals \ {0}
         /\ \A p \in Terminals \ {0} :
               /\ leaf[p] = 1 /\ terminal[p] = p /\ parent_pid[p] = None
               /\ saved_esp[p] = [pid |-> p, at |-> "user", uif |-> 1]
         /\ \A p \in Pids : parent_esp[p] = Garbage
         /\ \A p \in Pids : p \notin Terminals \ {0} => saved_esp[p] = Garbage
  <1> USE TerminalsArePids
  <1>1. Written(0, "terminal_array") /\ ~ Written(0, "process_array")
    BY DEF BuildPart
  <1>2. i = 0 /\ boot_at = "process_array"
    <2>1. i \in Nat /\ boot_at \in DOMAIN Stores
      BY LoopCounter DEF BootTypes, Terminals
    <2>2. i = 0 /\ Stores[boot_at] > 1 /\ ~ (Stores[boot_at] > 2)
      BY <1>1, <2>1, StoreNumbers DEF Written
    <2> QED
      BY <2>1, <2>2, StoreNumbers
  <1>3. boot_k = NUM_TERMINALS - 1
    BY <1>2, LoopCounter DEF BootTypes
  <1>4. \A p \in Terminals \ {0} : \A at : Written(p, at)
    BY <1>2 DEF Written, Terminals
  <1>5. ~ Written(0, "frame")
    BY <1>2, StoreNumbers DEF Written
  <1>6. \A t \in Terminals : terminal_array[t] = t
    BY <1>1, <1>4 DEF BuildPart
  <1>7. terminal_array = [t \in Terminals |-> t]
    BY <1>6 DEF BootTypes
  <1>8. \A p \in Pids : Active(p) <=> p \in Terminals \ {0}
    BY <1>1, <1>4 DEF BuildPart
  <1>9. \A p \in Terminals \ {0} :
               /\ leaf[p] = 1 /\ terminal[p] = p /\ parent_pid[p] = None
               /\ saved_esp[p] = [pid |-> p, at |-> "user", uif |-> 1]
    BY <1>4 DEF BuildPart
  <1>10. \A p \in Pids : p \notin Terminals \ {0} => saved_esp[p] = Garbage
    BY <1>5 DEF BuildPart
  <1> QED
    BY <1>2, <1>3, <1>7, <1>8, <1>9, <1>10 DEF BuildPart

\* process_array[0] is set: from here on pit_int may resume the boot code.
LEMMA ActivateZero ==
  ASSUME BootTypes, FlagPart, BuildPart, execute_shells,
         i = 0, boot_at = "process_array"
  PROVE  BootTypes' /\ FlagPart' /\ RunInv'
  <1> USE TerminalsArePids, NoneIsNoPid
  <1>1. set_process_array
    BY DEF execute_shells, set_terminal_array, set_process_array, load_shell, set_leaf,
           set_terminal, set_parent_pid, build_frame, set_curr_terminal, enter_shell, step
  <1>2. terminal_array[0] # None
    BY StoreNumbers DEF BuildPart, Written
  <1>3. /\ boot_at' = "load" /\ process_array' = [process_array EXCEPT ![0] = 1]
        /\ UNCHANGED <<terminal_array, curr_terminal, leaf, parent_pid, terminal, parent_esp,
                       saved_esp, page, tss, cpu, irq, eax, boot_k>>
    BY <1>1 DEF set_process_array, step
  <1>4. BootTypes'
    BY <1>3, StoreNumbers DEF BootTypes
  <1>5. FlagPart'
    BY <1>3 DEF FlagPart
  <1>6. Roots' = Terminals /\ ~ Lost' /\ Booting'
    BY <1>3 DEF Roots, Lost, Booting
  <1>7. \A p \in Pids : Active(p)' <=> p \in Terminals
    BY <1>2, <1>3, BuiltFacts DEF Active, BootTypes
  <1>8. \A p \in Terminals : Leaf(p)' /\ Parent(p)' = None
    BY <1>2, <1>3, BuiltFacts DEF Leaf, Parent
  <1>9. \A p \in Terminals : terminal_array'[p] = p /\ terminal'[p] = p
    <2>1. \A p \in Terminals : terminal_array[p] = p
      BY <1>2, BuiltFacts
    <2>2. \A p \in Terminals : terminal[p] = p
      BY <1>2, BuiltFacts DEF BuildPart
    <2> QED
      BY <1>3, <2>1, <2>2
  <1>10. RunPart'
    BY <1>2, <1>3, <1>9, BuiltFacts DEF RunPart
  <1>11. BootCurrentPart'
    BY <1>3, <1>6, <1>9 DEF BootCurrentPart, BuildPart, cur_pid
  <1>12. BootLeafPart'
    BY <1>6, <1>7, <1>8, <1>9 DEF BootLeafPart
  <1>13. BootParentPart'
    BY <1>7, <1>8 DEF BootParentPart
  <1>14. BootRootPart'
    BY <1>6, <1>7, <1>8 DEF BootRootPart
  <1>15. BootContextPart'
    <2>1. cpu'.pid = 0
      BY <1>3 DEF BuildPart
    <2>2. ASSUME NEW p \in Pids
          PROVE  IF Active(p)' /\ Leaf(p)' /\ p # cpu'.pid
                 THEN /\ saved_esp'[p].pid = p
                      /\ IF Booting' /\ p = 0 THEN saved_esp'[p].at = "boot"
                         ELSE saved_esp'[p].at \in {"user", "read", "write"}
                 ELSE saved_esp'[p] = Garbage
      <3>1. CASE p \in Terminals \ {0}
        <4>1. saved_esp'[p] = [pid |-> p, at |-> "user", uif |-> 1]
          BY <1>2, <1>3, <3>1, BuiltFacts
        <4>2. p # 0 /\ Active(p)' /\ Leaf(p)'
          BY <1>7, <1>8, <3>1
        <4> QED
          BY <2>1, <4>1, <4>2
      <3>2. CASE p \notin Terminals \ {0}
        BY <1>2, <1>3, <1>7, <2>1, <3>2, BuiltFacts
      <3> QED
        BY <3>1, <3>2
    <2>3. \A p \in Pids : parent_esp'[p] = Garbage
      BY <1>3 DEF BuildPart
    <2> QED
      BY <2>2, <2>3 DEF BootContextPart
  <1> QED
    BY <1>4, <1>5, <1>10, <1>11, <1>12, <1>13, <1>14, <1>15 DEF RunInv

\* The timer takes the processor between the two stores: the boot code is lost,
\* the other shells run.
LEMMA LoseBoot ==
  ASSUME BootTypes, FlagPart, BuildPart, pit_switch, irq' = 0, UNCHANGED <<boot_k, boot_at>>
  PROVE  BootTypes' /\ FlagPart' /\ RunInv'
  <1> USE TerminalsArePids, NoneIsNoPid
  <1>1. cur_pid = terminal_array[0] /\ terminal_array[0] # None
    BY DEF pit_switch, cur_pid, BuildPart
  <1>2. cur_pid = 0
    BY <1>1, BuiltFacts
  <1> PICK next \in Pids : next_pid(next) /\ switch_to(next)
    BY DEF pit_switch
  <1>3. next \in Terminals \ {0}
    BY <1>1, <1>2, BuiltFacts DEF next_pid, Schedulable, Active
  <1>4. /\ saved_esp' = [saved_esp EXCEPT ![0] = [pid |-> 0, at |-> "boot", uif |-> 1],
                                          ![next] = Garbage]
        /\ page' = next /\ tss' = next /\ curr_terminal' = next
        /\ cpu' = [pid |-> next, at |-> "user", uif |-> 1]
        /\ UNCHANGED <<process_array, terminal_array, leaf, parent_pid, terminal,
                       parent_esp, eax, boot_k, boot_at>>
    BY <1>1, <1>2, <1>3, BuiltFacts
       DEF pit_switch, switch_to, save_context, change_process, BuildPart, KStack,
           tableVars, pcbVars
  <1>5. BootTypes'
    BY <1>3, <1>4 DEF BootTypes, BootContexts, Places, Garbage
  <1>6. FlagPart'
    BY SMTT(60), <1>3, <1>4 DEF FlagPart, BootTypes, Garbage
  <1>7. Roots' = Terminals \ {0} /\ Lost' /\ ~ Booting'
    BY <1>1, <1>4, BuiltFacts DEF Roots, Lost, Booting
  <1>8. \A p \in Pids : Active(p)' <=> p \in Terminals \ {0}
    BY <1>1, <1>4, BuiltFacts DEF Active
  <1>9. \A p \in Terminals \ {0} : Leaf(p)' /\ Parent(p)' = None /\ terminal'[p] = p
    BY <1>1, <1>4, BuiltFacts DEF Leaf, Parent
  <1>10. \A t \in Terminals : terminal_array'[t] = t
    BY <1>1, <1>4, BuiltFacts
  <1>11. RunPart'
    BY <1>1, <1>4, <1>7, BuiltFacts DEF RunPart
  <1>12. BootCurrentPart'
    BY <1>3, <1>4, <1>7, <1>10 DEF BootCurrentPart, cur_pid
  <1>13. BootLeafPart' /\ BootParentPart' /\ BootRootPart'
    BY <1>7, <1>8, <1>9, <1>10 DEF BootLeafPart, BootParentPart, BootRootPart
  <1>14. BootContextPart'
    <2>1. ASSUME NEW p \in Pids
          PROVE  IF Active(p)' /\ Leaf(p)' /\ p # cpu'.pid
                 THEN saved_esp'[p].pid = p /\ saved_esp'[p].at = "user"
                 ELSE saved_esp'[p] = Garbage \/ p = 0
      <3>1. CASE p = next
        BY <1>3, <1>4, <3>1 DEF BootTypes
      <3>2. CASE p \in Terminals \ {0, next}
        <4>1. saved_esp'[p] = saved_esp[p]
          BY <1>4, <3>2 DEF BootTypes
        <4> QED
          <5>1. saved_esp'[p] = [pid |-> p, at |-> "user", uif |-> 1]
            BY <1>1, <3>2, <4>1, BuiltFacts
          <5>2. p # cpu'.pid /\ Active(p)' /\ Leaf(p)'
            BY <1>4, <1>8, <1>9, <3>2
          <5> QED
            BY <5>1, <5>2
      <3>3. CASE p \notin Terminals
        <4>1. saved_esp'[p] = saved_esp[p]
          BY <1>3, <1>4, <3>3 DEF BootTypes
        <4> QED
          BY <1>1, <1>8, <3>3, <4>1, BuiltFacts
      <3>4. CASE p = 0
        BY <1>8, <3>4
      <3> QED
        BY <3>1, <3>2, <3>3, <3>4
    <2>2. \A p \in Pids : parent_esp'[p] = Garbage
      BY <1>4 DEF BuildPart
    <2> QED
      BY <1>7, <2>1, <2>2 DEF BootContextPart
  <1> QED
    BY <1>5, <1>6, <1>11, <1>12, <1>13, <1>14 DEF RunInv

-----------------------------------------------------------------------------
(* Once shells run.                                                        *)

\* What RunInv says of the current process.
LEMMA RunFacts ==
  ASSUME BootTypes, RunInv
  PROVE  /\ cur_pid \in Pids /\ cpu.pid = cur_pid /\ KStack = cur_pid
         /\ Active(cur_pid) /\ Leaf(cur_pid)
         /\ terminal[cur_pid] = curr_terminal
         /\ terminal_array[curr_terminal] = cur_pid
         /\ curr_terminal \in Roots /\ curr_terminal \in Terminals
         /\ cpu.at = "boot" <=> Booting /\ cur_pid = 0
         /\ cpu.at # "boot" => page = cur_pid /\ tss = cur_pid
         /\ cpu.at \in {"user", "read", "write", "boot"}
  <1>1. curr_terminal \in Roots /\ cpu.pid = cur_pid
    BY DEF RunInv, BootCurrentPart
  <1>2. terminal_array[curr_terminal] = cur_pid /\ curr_terminal \in Terminals
        /\ cur_pid \in Pids
    BY DEF BootTypes, RunInv, RunPart, cur_pid
  <1>3. Active(cur_pid) /\ Leaf(cur_pid) /\ terminal[cur_pid] = curr_terminal
    BY <1>1, <1>2 DEF RunInv, BootLeafPart
  <1>4. IF Booting /\ cur_pid = 0 THEN cpu.at = "boot"
        ELSE cpu.at \in {"user", "read", "write"} /\ page = cur_pid /\ tss = cur_pid
    BY <1>1 DEF RunInv, BootCurrentPart
  <1>5. KStack = cur_pid
    BY <1>1, <1>4 DEF KStack
  <1> QED
    BY <1>1, <1>2, <1>3, <1>4, <1>5

\* The roots are shells, all of them unless the boot code is lost.
LEMMA RootFacts ==
  /\ Roots \subseteq Terminals /\ Roots \subseteq Pids
  /\ Booting => 0 \in Roots
  /\ Booting => ~ Lost
  BY TerminalsArePids DEF Roots, Booting, Lost

\* While process 0 is the boot code it is a leaf of terminal 0 without a parent.
LEMMA BootingFacts ==
  ASSUME BootTypes, RunInv, Booting
  PROVE  /\ Active(0) /\ Leaf(0) /\ terminal[0] = 0 /\ terminal_array[0] = 0
         /\ Parent(0) = None
  <1>1. terminal[0] = 0 /\ terminal_array[0] = 0
    BY DEF RunInv, RunPart
  <1>2. Active(0) /\ Leaf(0)
    BY <1>1, RootFacts DEF RunInv, BootLeafPart
  <1> QED
    BY <1>1, <1>2, RootFacts, TerminalsArePids DEF RunInv, BootRootPart

\* The PCB of a process that is not the boot code is taken as it is.
LEMMA PlainPcb ==
  ASSUME BootTypes, NEW p \in Pids, p # 0 \/ ~ Booting
  PROVE  /\ Leaf(p) <=> leaf[p] = 1
         /\ ~ Leaf(p) <=> leaf[p] = 0
         /\ Parent(p) = parent_pid[p]
  <1>1. leaf[p] \in {0, 1}
    BY DEF BootTypes
  <1>2. Leaf(p) <=> leaf[p] = 1
    BY DEF Booting, Leaf
  <1>3. Parent(p) = parent_pid[p]
    BY DEF Booting, Parent
  <1> QED
    BY <1>1, <1>2, <1>3

\* The modes depend on boot_at only.
LEMMA SameMode ==
  ASSUME UNCHANGED <<boot_k, boot_at>>
  PROVE  Roots' = Roots /\ Lost' = Lost /\ Booting' = Booting
  BY DEF Roots, Lost, Booting

\* A step that moves the current program between user mode and the kernel.
LEMMA RunMove ==
  ASSUME BootTypes, FlagPart, RunInv, UNCHANGED <<boot_k, boot_at>>,
         NEW from \in {"user", "read", "write"}, NEW to \in {"user", "read", "write"},
         move(from, to)
  PROVE  BootTypes' /\ FlagPart' /\ RunInv'
  <1> USE RunFacts, SameMode DEF move, tableVars, pcbVars
  <1>1. cpu' = [pid |-> cpu.pid, at |-> to, uif |-> cpu.uif] /\ cpu.at # "boot"
    BY DEF BootTypes, BootContexts
  <1>2. BootTypes'
    BY <1>1 DEF BootTypes, BootContexts, Places
  <1>3. FlagPart'
    BY <1>1 DEF FlagPart
  <1>4. RunPart' /\ BootCurrentPart'
    BY <1>1 DEF RunInv, RunPart, BootCurrentPart, cur_pid
  <1>5. \A p : Leaf(p)' = Leaf(p) /\ Parent(p)' = Parent(p) /\ Active(p)' = Active(p)
    BY DEF Leaf, Parent, Active
  <1>6. BootLeafPart' /\ BootParentPart' /\ BootRootPart'
    BY <1>5 DEF RunInv, BootLeafPart, BootParentPart, BootRootPart
  <1>7. BootContextPart'
    BY <1>1, <1>5 DEF RunInv, BootContextPart
  <1> QED
    BY <1>2, <1>3, <1>4, <1>6, <1>7 DEF RunInv

\* halt of a base shell: it starts again.
LEMMA RunHaltShell ==
  ASSUME BootTypes, FlagPart, RunInv, UNCHANGED <<boot_k, boot_at>>,
         cpu.at = "user", halt_shell
  PROVE  BootTypes' /\ FlagPart' /\ RunInv'
  <1> USE RunFacts, SameMode DEF halt_shell, return_to_user, tableVars, pcbVars
  <1>1. cpu' = [pid |-> cpu.pid, at |-> "user", uif |-> 0] /\ tss' = tss
    OBVIOUS
  <1>2. BootTypes'
    BY <1>1 DEF BootTypes, BootContexts, Places
  <1>3. FlagPart'
    BY <1>1 DEF FlagPart
  <1>4. RunPart' /\ BootCurrentPart'
    BY <1>1 DEF RunInv, RunPart, BootCurrentPart, cur_pid
  <1>5. \A p : Leaf(p)' = Leaf(p) /\ Parent(p)' = Parent(p) /\ Active(p)' = Active(p)
    BY DEF Leaf, Parent, Active
  <1>6. BootLeafPart' /\ BootParentPart' /\ BootRootPart'
    BY <1>5 DEF RunInv, BootLeafPart, BootParentPart, BootRootPart
  <1>7. BootContextPart'
    BY <1>1, <1>5 DEF RunInv, BootContextPart
  <1> QED
    BY <1>2, <1>3, <1>4, <1>6, <1>7 DEF RunInv

\* execute of a program, which gets process id 0 if the boot code is lost.
LEMMA RunExecute ==
  ASSUME BootTypes, FlagPart, RunInv, UNCHANGED <<boot_k, boot_at>>, execute
  PROVE  BootTypes' /\ FlagPart' /\ RunInv'
  <1> PICK me \in Pids : me = cur_pid
    BY RunFacts
  <1> PICK pid \in Pids : get_next_pid(pid) /\ change_process(pid)
                          /\ new_pcb(pid, KStack) /\ return_to_user(pid, pid, 0)
    BY DEF execute
  <1> USE SameMode
  <1>1. UNCHANGED <<curr_terminal, saved_esp, irq, eax>> /\ cpu.at = "user"
    BY DEF execute
  <1>2. /\ ~ Active(pid) /\ pid # me /\ me \in Pids
        /\ pid \notin Roots /\ pid # None /\ me # None
        /\ process_array[pid] = 0
    BY RunFacts, NoneIsNoPid DEF get_next_pid, Active, RunInv, BootRootPart
  <1>3. (pid # 0 \/ ~ Booting) /\ (me # 0 \/ ~ Booting)
    BY <1>1, <1>2, RunFacts, RootFacts
  <1>4. /\ process_array' = [process_array EXCEPT ![pid] = 1]
        /\ terminal_array' = [terminal_array EXCEPT ![curr_terminal] = pid]
        /\ terminal' = [terminal EXCEPT ![pid] = curr_terminal]
        /\ parent_pid' = [parent_pid EXCEPT ![pid] = me]
        /\ parent_esp' = [parent_esp EXCEPT
                             ![pid] = [pid |-> me, at |-> "execute", uif |-> cpu.uif]]
        /\ leaf' = [leaf EXCEPT ![me] = 0, ![pid] = 1]
    BY RunFacts DEF new_pcb, leaf_execute, BootTypes
  <1>5. page' = pid /\ tss' = pid /\ cpu' = [pid |-> pid, at |-> "user", uif |-> 0]
    BY DEF change_process, return_to_user
  <1>6. BootTypes'
    <2>1. cpu.uif \in {0, 1} /\ curr_terminal \in Terminals
      BY DEF BootTypes, BootContexts
    <2> QED
      BY <1>1, <1>2, <1>4, <1>5, <2>1 DEF BootTypes, BootContexts, Contexts, Places
  <1>7. \A p \in Pids : /\ Active(p)' <=> Active(p) \/ p = pid
                        /\ p # pid => /\ terminal'[p] = terminal[p]
                                      /\ Parent(p)' = Parent(p)
                                      /\ parent_esp'[p] = parent_esp[p]
                        /\ p # pid /\ p # me => (Leaf(p)' <=> Leaf(p))
    BY <1>2, <1>4 DEF BootTypes, Active, Parent, Leaf
  <1>8. /\ Active(me) /\ Leaf(me) /\ terminal[me] = curr_terminal
        /\ terminal_array[curr_terminal] = me
        /\ curr_terminal \in Roots /\ curr_terminal \in Terminals
    BY RunFacts
  <1>9. /\ ~ Leaf(me)' /\ Leaf(pid)' /\ terminal'[pid] = curr_terminal
        /\ Parent(pid)' = me
        /\ parent_esp'[pid] = [pid |-> me, at |-> "execute", uif |-> cpu.uif]
    BY <1>2, <1>3, <1>4 DEF BootTypes, Leaf, Parent, Booting
  <1>10. RunPart' /\ BootCurrentPart'
    <2>1. Booting => terminal'[0] = 0 /\ terminal_array'[0] = 0
      <3> SUFFICES ASSUME Booting PROVE terminal'[0] = 0 /\ terminal_array'[0] = 0
        OBVIOUS
      <3>1. terminal[0] = 0 /\ terminal_array[0] = 0 /\ pid # 0 /\ me # 0
        BY <1>3, BootingFacts
      <3> QED
        BY <1>4, <1>8, <3>1, TerminalsArePids DEF BootTypes
    <2>2. terminal_array' \in [Terminals -> Pids]
      BY <1>4 DEF RunInv, RunPart
    <2>3. cur_pid' = pid
      BY <1>1, <1>4, <1>8 DEF cur_pid, BootTypes
    <2> QED
      BY <1>1, <1>3, <1>5, <1>8, <2>1, <2>2, <2>3 DEF RunInv, RunPart, BootCurrentPart
  <1>11. BootLeafPart'
    <2>1. ASSUME NEW t \in Roots
          PROVE  /\ Active(terminal_array[t])' /\ Leaf(terminal_array[t])'
                 /\ terminal'[terminal_array'[t]] = t
      <3>1. CASE t = curr_terminal
        <4>1. terminal_array'[t] = pid
          BY <1>4, <1>8, <3>1 DEF BootTypes
        <4>2. Active(pid)' /\ Leaf(pid)' /\ terminal'[pid] = t
          BY <1>7, <1>9, <3>1
        <4> QED
          BY <4>1, <4>2 DEF Active, Leaf
      <3>2. CASE t # curr_terminal
        <4>1. terminal_array'[t] = terminal_array[t] /\ terminal_array[t] \in Pids
          BY <1>4, <3>2, RootFacts DEF RunInv, RunPart
        <4>2. Active(terminal_array[t]) /\ Leaf(terminal_array[t])
              /\ terminal[terminal_array[t]] = t
          BY DEF RunInv, BootLeafPart
        <4>3. terminal_array[t] # pid /\ terminal_array[t] # me
          BY <1>2, <1>8, <3>2, <4>2
        <4> DEFINE q == terminal_array[t]
        <4>4. q \in Pids /\ q # pid /\ q # me /\ Active(q) /\ Leaf(q) /\ terminal[q] = t
          BY <4>1, <4>2, <4>3
        <4> HIDE DEF q
        <4>5. process_array'[q] = 1 /\ terminal'[q] = t
              /\ (leaf'[q] = 1 \/ (q = 0 /\ boot_at' \in {"load", "leaf"}))
          BY <1>7, <4>4 DEF Active, Leaf
        <4> QED
          BY <4>1, <4>5 DEF Active, Leaf, q
      <3> QED
        BY <3>1, <3>2
    <2>2. ASSUME NEW p \in Pids, Active(p)', Leaf(p)'
          PROVE  terminal'[p] \in Roots /\ terminal_array'[terminal'[p]] = p
      <3>1. CASE p = pid
        BY <1>4, <1>8, <1>9, <3>1 DEF BootTypes
      <3>2. CASE p # pid
        <4>1. p # me /\ Active(p) /\ Leaf(p) /\ terminal'[p] = terminal[p]
          BY <1>7, <1>9, <2>2, <3>2
        <4>2. terminal_array[terminal[p]] = p /\ terminal[p] # curr_terminal
              /\ terminal[p] \in Roots
          BY <1>8, <4>1 DEF RunInv, BootLeafPart
        <4> QED
          BY <1>4, <4>1, <4>2, RootFacts DEF BootTypes
      <3> QED
        BY <3>1, <3>2
    <2> QED
      BY <2>1, <2>2 DEF BootLeafPart
  <1>12. BootParentPart'
    <2>1. \A p \in Pids : Active(p) => Parent(p) # pid /\ Parent(p) # me
      BY <1>2, <1>8 DEF RunInv, BootParentPart
    <2>2. ASSUME NEW p \in Pids, Active(p)', Parent(p)' # None
          PROVE  \E q \in Pids : /\ q = Parent(p)'
                                 /\ Active(q)' /\ ~ Leaf(q)' /\ terminal'[q] = terminal'[p]
                                 /\ parent_esp'[p].pid = q /\ parent_esp'[p].at = "execute"
      <3>1. CASE p = pid
        BY <1>2, <1>7, <1>8, <1>9, <3>1
      <3>2. CASE p # pid
        <4>1. Active(p) /\ Parent(p)' = Parent(p) /\ Parent(p) # None /\ Parent(p) \in Pids
          BY <1>7, <2>2, <3>2 DEF BootTypes, Parent
        <4>2. /\ Active(Parent(p)) /\ ~ Leaf(Parent(p))
              /\ terminal[Parent(p)] = terminal[p]
              /\ parent_esp[p].pid = Parent(p) /\ parent_esp[p].at = "execute"
              /\ Parent(p) # pid /\ Parent(p) # me
          BY <2>1, <4>1 DEF RunInv, BootParentPart
        <4> QED
          BY <1>7, <3>2, <4>1, <4>2
      <3> QED
        BY <3>1, <3>2
    <2>3. ASSUME NEW p \in Pids, NEW q \in Pids, Active(p)', Active(q)',
                 Parent(p)' # None, Parent(p)' = Parent(q)'
          PROVE  p = q
      BY <1>7, <1>9, <2>1, <2>3 DEF RunInv, BootParentPart
    <2>4. ASSUME NEW p \in Pids, Active(p)', ~ Leaf(p)'
          PROVE  \E q \in Pids : Active(q)' /\ Parent(q)' = p
      <3>1. CASE p = me
        BY <1>7, <1>9, <3>1
      <3>2. CASE p # me
        <4>1. Active(p) /\ ~ Leaf(p)
          BY <1>7, <1>9, <2>4, <3>2
        <4>2. PICK q \in Pids : Active(q) /\ Parent(q) = p
          BY <4>1 DEF RunInv, BootParentPart
        <4> QED
          BY <1>2, <1>7, <4>2
      <3> QED
        BY <3>1, <3>2
    <2> QED
      BY <2>2, <2>3, <2>4 DEF BootParentPart, Active, Leaf
  <1>13. BootRootPart'
    BY <1>2, <1>7, <1>9, RootFacts DEF RunInv, BootRootPart
  <1>14. BootContextPart'
    <2>1. ASSUME NEW p \in Pids
          PROVE  IF Active(p)' /\ Leaf(p)' /\ p # cpu'.pid
                 THEN /\ saved_esp'[p].pid = p
                      /\ IF Booting /\ p = 0 THEN saved_esp'[p].at = "boot"
                         ELSE saved_esp'[p].at \in {"user", "read", "write"}
                 ELSE saved_esp'[p] = Garbage \/ (Lost /\ p = 0)
      <3>1. CASE p = pid \/ p = me
        BY <1>1, <1>2, <1>5, <1>8, <1>9, <3>1, RunFacts DEF RunInv, BootContextPart
      <3>2. CASE p # pid /\ p # me
        BY <1>1, <1>5, <1>7, <3>2, RunFacts DEF RunInv, BootContextPart
      <3> QED
        BY <3>1, <3>2
    <2>2. ASSUME NEW p \in Pids, ~ Active(p)' \/ Parent(p)' = None
          PROVE  parent_esp'[p] = Garbage
      BY <1>2, <1>7, <1>9, <2>2 DEF RunInv, BootContextPart
    <2> QED
      BY <2>1, <2>2 DEF BootContextPart
  <1>15. FlagPart'
    <2>1. \A p \in Pids : p # pid => parent_esp'[p] = parent_esp[p]
      BY <1>7
    <2> QED
      BY <1>1, <1>5, <1>9, <2>1, RunFacts DEF FlagPart
  <1> QED
    BY <1>6, <1>10, <1>11, <1>12, <1>13, <1>14, <1>15 DEF RunInv

\* halt of a program with a parent: the parent's execute returns.
LEMMA RunHaltChild ==
  ASSUME BootTypes, FlagPart, RunInv, UNCHANGED <<boot_k, boot_at>>,
         cpu.at = "user", NEW status, halt_child(status)
  PROVE  BootTypes' /\ FlagPart' /\ RunInv'
  <1> PICK me \in Pids : me = cur_pid
    BY RunFacts
  <1> USE SameMode
  <1>1. /\ Active(me) /\ Leaf(me) /\ terminal[me] = curr_terminal
        /\ terminal_array[curr_terminal] = me /\ curr_terminal \in Roots
        /\ curr_terminal \in Terminals /\ cpu.pid = me /\ (me # 0 \/ ~ Booting)
    BY RunFacts
  <1>2. Parent(me) = parent_pid[me] /\ parent_pid[me] >= 0
    BY <1>1, PlainPcb DEF halt_child, has_parent
  <1> PICK par \in Pids : par = parent_pid[me]
    BY <1>2, NoneIsNoPid DEF BootTypes
  <1>3. par # None /\ Parent(me) = par
    BY <1>2, NoneIsNoPid
  <1>4. /\ Active(par) /\ ~ Leaf(par) /\ terminal[par] = curr_terminal
        /\ parent_esp[me].pid = par /\ par # me
    BY <1>1, <1>3 DEF RunInv, BootParentPart
  <1>5. par # 0 \/ ~ Booting
    BY <1>4, BootingFacts
  <1>6. me \notin Roots
    BY <1>1, <1>3 DEF RunInv, BootRootPart
  <1>7. /\ process_array' = [process_array EXCEPT ![me] = 0]
        /\ terminal_array' = [terminal_array EXCEPT ![curr_terminal] = par]
        /\ leaf' = [leaf EXCEPT ![par] = 1]
        /\ parent_esp' = [parent_esp EXCEPT ![me] = Garbage]
        /\ cpu' = [pid |-> par, at |-> "user", uif |-> parent_esp[me].uif]
        /\ page' = par /\ tss' = par /\ eax' = 0
        /\ UNCHANGED <<curr_terminal, parent_pid, terminal, saved_esp, irq>>
    BY <1>4 DEF halt_child, leaf_halt, change_process
  <1>8. BootTypes'
    BY <1>7 DEF BootTypes, BootContexts, Contexts, Places, Garbage
  <1>9. \A p \in Pids : /\ Active(p)' <=> Active(p) /\ p # me
                        /\ Parent(p)' = Parent(p)
                        /\ p # par => (Leaf(p)' <=> Leaf(p))
                        /\ p # me => parent_esp'[p] = parent_esp[p]
    BY <1>7 DEF BootTypes, Active, Parent, Leaf
  <1>10. Leaf(par)' /\ parent_esp'[me] = Garbage
    BY <1>7 DEF BootTypes, Leaf
  <1>11. RunPart' /\ BootCurrentPart'
    <2>1. Booting => terminal'[0] = 0 /\ terminal_array'[0] = 0
      <3> SUFFICES ASSUME Booting PROVE terminal'[0] = 0 /\ terminal_array'[0] = 0
        OBVIOUS
      <3>1. terminal[0] = 0 /\ terminal_array[0] = 0 /\ me # 0
        BY <1>1, BootingFacts
      <3> QED
        BY <1>1, <1>7, <3>1, TerminalsArePids DEF BootTypes
    <2>2. terminal_array' \in [Terminals -> Pids]
      BY <1>7 DEF RunInv, RunPart
    <2>3. cur_pid' = par
      BY <1>1, <1>7 DEF cur_pid, BootTypes
    <2> QED
      BY <1>1, <1>5, <1>7, <2>1, <2>2, <2>3 DEF RunInv, RunPart, BootCurrentPart
  <1>12. BootLeafPart'
    <2>1. ASSUME NEW t \in Roots
          PROVE  /\ Active(terminal_array[t])' /\ Leaf(terminal_array[t])'
                 /\ terminal'[terminal_array'[t]] = t
      <3>1. CASE t = curr_terminal
        <4>1. terminal_array'[t] = par
          BY <1>1, <1>7, <3>1 DEF BootTypes
        <4>2. Active(par)' /\ Leaf(par)' /\ terminal'[par] = t
          BY <1>4, <1>7, <1>9, <1>10, <3>1
        <4> QED
          BY <4>1, <4>2 DEF Active, Leaf
      <3>2. CASE t # curr_terminal
        <4> PICK q \in Pids : q = terminal_array[t]
          BY RootFacts DEF RunInv, RunPart
        <4>1. terminal_array'[t] = q
          BY <1>7, <3>2, RootFacts DEF BootTypes
        <4>2. Active(q) /\ Leaf(q) /\ terminal[q] = t
          BY DEF RunInv, BootLeafPart
        <4>3. q # me /\ q # par
          BY <1>1, <1>4, <3>2, <4>2
        <4>4. Active(q)' /\ Leaf(q)' /\ terminal'[q] = t
          BY <1>7, <1>9, <4>2, <4>3
        <4> QED
          BY <4>1, <4>4 DEF Active, Leaf
      <3> QED
        BY <3>1, <3>2
    <2>2. ASSUME NEW p \in Pids, Active(p)', Leaf(p)'
          PROVE  terminal'[p] \in Roots /\ terminal_array'[terminal'[p]] = p
      <3>1. CASE p = par
        BY <1>1, <1>4, <1>7, <3>1 DEF BootTypes
      <3>2. CASE p # par
        <4>1. Active(p) /\ p # me /\ Leaf(p)
          BY <1>9, <2>2, <3>2
        <4>2. terminal_array[terminal[p]] = p /\ terminal[p] # curr_terminal
              /\ terminal[p] \in Roots
          BY <1>1, <4>1 DEF RunInv, BootLeafPart
        <4> QED
          BY <1>7, <4>2, RootFacts DEF BootTypes
      <3> QED
        BY <3>1, <3>2
    <2> QED
      BY <2>1, <2>2 DEF BootLeafPart
  <1>13. BootParentPart'
    <2>1. \A p \in Pids : /\ Active(p) => Parent(p) # me
                          /\ Active(p) /\ p # me => Parent(p) # par
      BY <1>1, <1>3, NoneIsNoPid DEF RunInv, BootParentPart
    <2>2. ASSUME NEW p \in Pids, Active(p)', Parent(p)' # None
          PROVE  \E q \in Pids : /\ q = Parent(p)'
                                 /\ Active(q)' /\ ~ Leaf(q)' /\ terminal'[q] = terminal'[p]
                                 /\ parent_esp'[p].pid = q /\ parent_esp'[p].at = "execute"
      <3>1. Active(p) /\ p # me /\ Parent(p)' = Parent(p) /\ Parent(p) # None
        BY <1>9, <2>2
      <3> PICK q \in Pids : q = Parent(p)
        BY <3>1 DEF BootTypes, Parent
      <3>2. /\ Active(q) /\ ~ Leaf(q) /\ terminal[q] = terminal[p]
            /\ parent_esp[p].pid = q /\ parent_esp[p].at = "execute"
            /\ q # me /\ q # par
        BY <2>1, <3>1 DEF RunInv, BootParentPart
      <3> QED
        BY <1>7, <1>9, <3>1, <3>2
    <2>3. ASSUME NEW p \in Pids, Active(p)', ~ Leaf(p)'
          PROVE  \E q \in Pids : Active(q)' /\ Parent(q)' = p
      <3>1. Active(p) /\ ~ Leaf(p) /\ p # par
        BY <1>9, <1>10, <2>3
      <3>2. PICK q \in Pids : Active(q) /\ Parent(q) = p
        BY <3>1 DEF RunInv, BootParentPart
      <3> QED
        BY <1>3, <1>9, <3>1, <3>2
    <2>4. \A p, q \in Pids : Active(p)' /\ Active(q)'
             /\ Parent(p)' # None /\ Parent(p)' = Parent(q)' => p = q
      BY <1>9 DEF RunInv, BootParentPart
    <2> QED
      BY <2>2, <2>3, <2>4 DEF BootParentPart, Active, Leaf
  <1>14. BootRootPart'
    BY <1>6, <1>9, RootFacts DEF RunInv, BootRootPart
  <1>15. BootContextPart'
    <2>1. ASSUME NEW p \in Pids
          PROVE  IF Active(p)' /\ Leaf(p)' /\ p # cpu'.pid
                 THEN /\ saved_esp'[p].pid = p
                      /\ IF Booting /\ p = 0 THEN saved_esp'[p].at = "boot"
                         ELSE saved_esp'[p].at \in {"user", "read", "write"}
                 ELSE saved_esp'[p] = Garbage \/ (Lost /\ p = 0)
      <3>1. CASE p = me \/ p = par
        BY <1>1, <1>4, <1>7, <1>9, <3>1 DEF RunInv, BootContextPart
      <3>2. CASE p # me /\ p # par
        BY <1>1, <1>7, <1>9, <3>2 DEF RunInv, BootContextPart
      <3> QED
        BY <3>1, <3>2
    <2>2. ASSUME NEW p \in Pids, ~ Active(p)' \/ Parent(p)' = None
          PROVE  parent_esp'[p] = Garbage
      BY <1>9, <1>10, <2>2 DEF RunInv, BootContextPart
    <2> QED
      BY <2>1, <2>2 DEF BootContextPart
  <1>16. FlagPart'
    BY <1>4, <1>7, <1>9, <1>10 DEF FlagPart, Garbage
  <1> QED
    BY <1>8, <1>11, <1>12, <1>13, <1>14, <1>15, <1>16 DEF RunInv

\* The context switch of the timer: it may suspend and resume the boot code.
LEMMA RunSwitch ==
  ASSUME BootTypes, FlagPart, RunInv, UNCHANGED <<boot_k, boot_at>>,
         pit_switch, irq' = 0
  PROVE  BootTypes' /\ FlagPart' /\ RunInv'
  <1> PICK me \in Pids : me = cur_pid
    BY RunFacts
  <1> PICK next \in Pids : next_pid(next) /\ switch_to(next)
    BY DEF pit_switch
  <1> USE SameMode
  <1>1. UNCHANGED <<process_array, terminal_array, leaf, parent_pid, terminal,
                    parent_esp, eax>>
    BY DEF pit_switch, tableVars, pcbVars
  <1>2. Active(next) /\ Leaf(next) /\ next # me
    BY DEF next_pid, Schedulable, Active, Leaf
  <1>3. /\ saved_esp' = [saved_esp EXCEPT
                            ![me] = [pid |-> me, at |-> cpu.at, uif |-> cpu.uif],
                            ![next] = Garbage]
        /\ page' = next /\ tss' = next /\ curr_terminal' = terminal[next]
        /\ cpu' = saved_esp[next]
    BY RunFacts DEF switch_to, save_context, change_process
  <1>4. /\ saved_esp[next].pid = next
        /\ IF Booting /\ next = 0 THEN saved_esp[next].at = "boot"
           ELSE saved_esp[next].at \in {"user", "read", "write"}
    BY <1>2, RunFacts DEF RunInv, BootContextPart
  <1>5. terminal[next] \in Roots /\ terminal_array[terminal[next]] = next
    BY <1>2 DEF RunInv, BootLeafPart
  <1>6. BootTypes'
    <2>1. [pid |-> me, at |-> cpu.at, uif |-> cpu.uif] \in BootContexts
          /\ Garbage \in BootContexts
      BY DEF BootTypes, BootContexts, Places, Garbage
    <2> QED
      BY <1>1, <1>3, <2>1 DEF BootTypes
  <1>7. \A p : Leaf(p)' = Leaf(p) /\ Parent(p)' = Parent(p) /\ Active(p)' = Active(p)
    BY <1>1 DEF Leaf, Parent, Active
  <1>8. RunPart' /\ BootCurrentPart'
    BY <1>1, <1>3, <1>4, <1>5 DEF RunInv, RunPart, BootCurrentPart, cur_pid
  <1>9. BootLeafPart' /\ BootParentPart' /\ BootRootPart'
    BY <1>1, <1>7 DEF RunInv, BootLeafPart, BootParentPart, BootRootPart
  <1>10. /\ saved_esp'[me] = [pid |-> me, at |-> cpu.at, uif |-> cpu.uif]
         /\ saved_esp'[next] = Garbage
         /\ \A p \in Pids \ {me, next} : saved_esp'[p] = saved_esp[p]
    BY <1>2, <1>3 DEF BootTypes
  <1>11. BootContextPart'
    <2>1. ASSUME NEW p \in Pids
          PROVE  IF Active(p) /\ Leaf(p) /\ p # cpu'.pid
                 THEN /\ saved_esp'[p].pid = p
                      /\ IF Booting /\ p = 0 THEN saved_esp'[p].at = "boot"
                         ELSE saved_esp'[p].at \in {"user", "read", "write"}
                 ELSE saved_esp'[p] = Garbage \/ (Lost /\ p = 0)
      <3>1. CASE p = me
        <4>1. Active(p) /\ Leaf(p) /\ p # cpu'.pid
          BY <1>2, <1>3, <1>4, <3>1, RunFacts
        <4>2. saved_esp'[p].pid = p /\ saved_esp'[p].at = cpu.at
          BY <1>10, <3>1
        <4> QED
          BY <3>1, <4>1, <4>2, RunFacts
      <3>2. CASE p = next
        BY <1>3, <1>4, <1>10, <3>2
      <3>3. CASE p # me /\ p # next
        <4>1. saved_esp'[p] = saved_esp[p] /\ p # cpu.pid /\ p # cpu'.pid
          BY <1>3, <1>4, <1>10, <3>3, RunFacts
        <4> QED
          BY <4>1 DEF RunInv, BootContextPart
      <3> QED
        BY <3>1, <3>2, <3>3
    <2> QED
      BY <1>1, <1>7, <2>1 DEF RunInv, BootContextPart
  <1>12. FlagPart'
    <2>1. cpu'.uif = 1 => cpu'.pid \in Terminals
      BY <1>3 DEF FlagPart
    <2>2. ASSUME NEW p \in Pids
          PROVE  saved_esp'[p].uif = 1 => saved_esp'[p].pid \in Terminals
      BY <1>10, RunFacts DEF FlagPart, Garbage
    <2> QED
      BY <1>1, <2>1, <2>2 DEF FlagPart
  <1> QED
    BY <1>6, <1>8, <1>9, <1>11, <1>12 DEF RunInv

\* A store of the loop once process 0 is active, and the entry into the shell: the
\* bookkeeping is as RunInv already took it to be.
LEMMA RunStoreEffect ==
  ASSUME BootTypes, RunInv, execute_shells
  PROVE  /\ Booting /\ cpu.at = "boot" /\ cur_pid = 0 /\ cpu.pid = 0 /\ curr_terminal = 0
         /\ UNCHANGED <<process_array, terminal_array, terminal, saved_esp, curr_terminal,
                        parent_esp, irq, eax, boot_k>>
         /\ leaf' \in [Pids -> {0, 1}] /\ parent_pid' \in [Pids -> Pids \cup {None}]
         /\ \A p \in Pids : (Leaf(p)' <=> Leaf(p)) /\ Parent(p)' = Parent(p)
         /\ page' \in Pids /\ tss' \in Pids
         /\ \/ /\ Booting' /\ cpu' = cpu /\ boot_at' # "load" /\ page' = 0
            \/ /\ boot_at' = "done" /\ page' = 0 /\ tss' = 0
               /\ cpu' = [pid |-> 0, at |-> "user", uif |-> 1]
         /\ boot_at' \in DOMAIN Stores /\ boot_at' \notin {"terminal_array", "process_array"}
  <1> USE TerminalsArePids, NoneIsNoPid
  <1>1. Booting /\ cpu.at = "boot" /\ cur_pid = 0 /\ cpu.pid = 0
    <2>1. cpu.at = "boot"
      BY DEF execute_shells, set_terminal_array, set_process_array, load_shell, set_leaf,
             set_terminal, set_parent_pid, build_frame, set_curr_terminal, enter_shell, step
    <2> QED
      BY <2>1, RunFacts
  <1>2. i = 0 /\ boot_k = NUM_TERMINALS - 1
    BY LoopCounter DEF RunInv, RunPart, BootTypes
  <1>3. /\ Leaf(0) /\ terminal[0] = 0 /\ curr_terminal = 0 /\ 0 \in Pids
        /\ saved_esp[0] = Garbage
    <2>1. Leaf(0) /\ terminal[0] = 0 /\ Active(0)
      BY <1>1, BootingFacts
    <2>2. curr_terminal = 0
      BY <1>1, <2>1, RunFacts
    <2>3. saved_esp[0] = Garbage
      BY <1>1, RootFacts DEF RunInv, BootContextPart
    <2> QED
      BY <2>1, <2>2, <2>3
  <1>4. boot_at # "load" => page = 0
    BY <1>1 DEF RunInv, BootCurrentPart
  <1>5. ~ set_terminal_array /\ ~ set_process_array
    BY <1>1 DEF RunInv, RunPart, Booting, set_terminal_array, set_process_array, step
  <1>6. CASE load_shell
    <2>1. /\ boot_at = "load" /\ boot_at' = "leaf" /\ page' = 0
          /\ UNCHANGED <<process_array, terminal_array, terminal, saved_esp, curr_terminal,
                         parent_esp, irq, eax, boot_k, leaf, parent_pid, tss, cpu>>
      BY <1>2, <1>6 DEF load_shell, step, change_process, tableVars
    <2>2. \A p \in Pids : (Leaf(p)' <=> Leaf(p)) /\ Parent(p)' = Parent(p)
      BY <2>1 DEF Leaf, Parent
    <2> QED
      BY <1>1, <1>3, <2>1, <2>2, StoreNumbers DEF Booting, BootTypes
  <1>7. CASE set_leaf
    <2>1. /\ boot_at = "leaf" /\ boot_at' = "terminal" /\ leaf' = [leaf EXCEPT ![0] = 1]
          /\ UNCHANGED <<process_array, terminal_array, terminal, saved_esp, curr_terminal,
                         parent_esp, irq, eax, boot_k, parent_pid, page, tss, cpu>>
      BY <1>2, <1>7 DEF set_leaf, step, tableVars
    <2>2. \A p \in Pids : (Leaf(p)' <=> Leaf(p)) /\ Parent(p)' = Parent(p)
      BY <2>1 DEF Leaf, Parent, BootTypes
    <2>3. leaf' \in [Pids -> {0, 1}]
      BY <2>1 DEF BootTypes
    <2> QED
      BY <1>1, <1>3, <1>4, <2>1, <2>2, <2>3, StoreNumbers DEF Booting, BootTypes
  <1>8. CASE set_terminal
    <2>1. /\ boot_at = "terminal" /\ boot_at' = "parent_pid"
          /\ terminal' = [terminal EXCEPT ![0] = 0]
          /\ UNCHANGED <<process_array, terminal_array, saved_esp, curr_terminal,
                         parent_esp, irq, eax, boot_k, leaf, parent_pid, page, tss, cpu>>
      BY <1>2, <1>8 DEF set_terminal, step, tableVars
    <2>2. \A p \in Pids : (Leaf(p)' <=> Leaf(p)) /\ Parent(p)' = Parent(p)
      BY <2>1 DEF Leaf, Parent
    <2>3. terminal' = terminal
      BY <1>3, <2>1 DEF BootTypes
    <2> QED
      BY <1>1, <1>3, <1>4, <2>1, <2>2, <2>3, StoreNumbers DEF Booting, BootTypes
  <1>9. CASE set_parent_pid
    <2>1. /\ boot_at = "parent_pid" /\ boot_at' = "frame"
          /\ parent_pid' = [parent_pid EXCEPT ![0] = None]
          /\ UNCHANGED <<process_array, terminal_array, terminal, saved_esp, curr_terminal,
                         parent_esp, irq, eax, boot_k, leaf, page, tss, cpu>>
      BY <1>2, <1>9 DEF set_parent_pid, step, tableVars
    <2>2. \A p \in Pids : (Leaf(p)' <=> Leaf(p)) /\ Parent(p)' = Parent(p)
      BY <2>1 DEF Leaf, Parent, BootTypes
    <2>3. parent_pid' \in [Pids -> Pids \cup {None}]
      BY <2>1 DEF BootTypes
    <2> QED
      BY <1>1, <1>3, <1>4, <2>1, <2>2, <2>3, StoreNumbers DEF Booting, BootTypes
  <1>10. CASE build_frame
    <2>1. /\ boot_at = "frame" /\ boot_at' = "curr_terminal" /\ tss' = 0
          /\ saved_esp' = [saved_esp EXCEPT ![0] = Garbage]
          /\ UNCHANGED <<process_array, terminal_array, terminal, curr_terminal,
                         parent_esp, irq, eax, leaf, parent_pid, page, cpu>>
      BY <1>2, <1>10 DEF build_frame, step, tableVars
    <2>2. boot_k' = boot_k
      BY <1>2, <1>10, SizesAssumption DEF build_frame
    <2>3. \A p \in Pids : (Leaf(p)' <=> Leaf(p)) /\ Parent(p)' = Parent(p)
      BY <2>1 DEF Leaf, Parent
    <2>4. saved_esp' = saved_esp
      BY <1>3, <2>1 DEF BootTypes
    <2> QED
      BY <1>1, <1>3, <1>4, <2>1, <2>2, <2>3, <2>4, StoreNumbers DEF Booting, BootTypes
  <1>11. CASE set_curr_terminal
    <2>1. /\ boot_at = "curr_terminal" /\ boot_at' = "return_to_user"
          /\ UNCHANGED <<process_array, terminal_array, terminal, saved_esp, curr_terminal,
                         parent_esp, irq, eax, boot_k, leaf, parent_pid, page, tss, cpu>>
      BY <1>2, <1>3, <1>11 DEF set_curr_terminal, step, tableVars
    <2>2. \A p \in Pids : (Leaf(p)' <=> Leaf(p)) /\ Parent(p)' = Parent(p)
      BY <2>1 DEF Leaf, Parent
    <2> QED
      BY <1>1, <1>3, <1>4, <2>1, <2>2, StoreNumbers DEF Booting, BootTypes
  <1>12. CASE enter_shell
    <2>1. /\ boot_at = "return_to_user" /\ boot_at' = "done" /\ tss' = 0
          /\ cpu' = [pid |-> page, at |-> "user", uif |-> 1]
          /\ UNCHANGED <<process_array, terminal_array, terminal, saved_esp, curr_terminal,
                         parent_esp, irq, eax, boot_k, leaf, parent_pid, page>>
      BY <1>2, <1>12 DEF enter_shell, step, return_to_user, tableVars
    <2>2. \A p \in Pids : (Leaf(p)' <=> Leaf(p)) /\ Parent(p)' = Parent(p)
      BY <2>1 DEF Leaf, Parent
    <2> QED
      BY <1>1, <1>3, <1>4, <2>1, <2>2, StoreNumbers DEF BootTypes
  <1> QED
    BY <1>5, <1>6, <1>7, <1>8, <1>9, <1>10, <1>11, <1>12 DEF execute_shells

\* The boot goes on among running shells.
LEMMA RunStore ==
  ASSUME BootTypes, FlagPart, RunInv, execute_shells
  PROVE  BootTypes' /\ FlagPart' /\ RunInv'
  <1> USE TerminalsArePids, NoneIsNoPid
  <1>1. Roots' = Roots /\ ~ Lost /\ ~ Lost' /\ Booting
    BY RunStoreEffect DEF Roots, Lost, Booting
  <1>2. BootTypes'
    BY RunStoreEffect DEF BootTypes, BootContexts, Places
  <1>3. FlagPart'
    BY RunStoreEffect DEF FlagPart
  <1>4. \A p \in Pids : Active(p)' = Active(p)
    BY RunStoreEffect DEF Active
  <1>5. cpu'.pid = 0 /\ cpu.pid = 0 /\ (Booting' => cpu'.at = "boot")
    BY RunStoreEffect DEF Booting
  <1>6. RunPart'
    BY RunStoreEffect DEF RunInv, RunPart
  <1>7. BootCurrentPart'
    <2>1. cur_pid' = 0 /\ curr_terminal' \in Roots'
      BY <1>1, RunStoreEffect DEF cur_pid, RunInv, BootCurrentPart
    <2>2. CASE Booting' /\ cpu' = cpu /\ boot_at' # "load" /\ page' = 0
      BY <1>5, <2>1, <2>2 DEF BootCurrentPart
    <2>3. CASE /\ boot_at' = "done" /\ page' = 0 /\ tss' = 0
               /\ cpu' = [pid |-> 0, at |-> "user", uif |-> 1]
      <3>1. ~ Booting'
        BY <2>3 DEF Booting
      <3> QED
        BY <2>1, <2>3, <3>1 DEF BootCurrentPart
    <2> QED
      BY <2>2, <2>3, RunStoreEffect
  <1>8. BootLeafPart'
    <2>1. ASSUME NEW t \in Roots
          PROVE  /\ Active(terminal_array[t])' /\ Leaf(terminal_array[t])'
                 /\ terminal'[terminal_array'[t]] = t
      <3> PICK q \in Pids : q = terminal_array[t]
        BY RootFacts DEF RunInv, RunPart
      <3>1. Active(q) /\ Leaf(q) /\ terminal[q] = t
        BY DEF RunInv, BootLeafPart
      <3>2. Active(q)' /\ Leaf(q)' /\ terminal'[q] = t /\ terminal_array'[t] = q
        BY <1>4, <3>1, RunStoreEffect
      <3> QED
        BY <3>2 DEF Active, Leaf
    <2>2. ASSUME NEW p \in Pids, Active(p)', Leaf(p)'
          PROVE  terminal'[p] \in Roots /\ terminal_array'[terminal'[p]] = p
      BY <1>4, <2>2, RunStoreEffect DEF RunInv, BootLeafPart
    <2> QED
      BY <1>1, <2>1, <2>2 DEF BootLeafPart
  <1>9. BootParentPart'
    <2>1. ASSUME NEW p \in Pids, Active(p)', Parent(p)' # None
          PROVE  \E q \in Pids : /\ q = Parent(p)'
                                 /\ Active(q)' /\ ~ Leaf(q)' /\ terminal'[q] = terminal'[p]
                                 /\ parent_esp'[p].pid = q /\ parent_esp'[p].at = "execute"
      <3>1. Active(p) /\ Parent(p)' = Parent(p) /\ Parent(p) # None
        BY <1>4, <2>1, RunStoreEffect
      <3> PICK q \in Pids : q = Parent(p)
        BY <3>1 DEF BootTypes, Parent
      <3>2. /\ Active(q) /\ ~ Leaf(q) /\ terminal[q] = terminal[p]
            /\ parent_esp[p].pid = q /\ parent_esp[p].at = "execute"
        BY <3>1 DEF RunInv, BootParentPart
      <3> QED
        BY <1>4, <3>1, <3>2, RunStoreEffect
    <2>2. ASSUME NEW p \in Pids, Active(p)', ~ Leaf(p)'
          PROVE  \E q \in Pids : Active(q)' /\ Parent(q)' = p
      <3>1. PICK q \in Pids : Active(q) /\ Parent(q) = p
        BY <1>4, <2>2, RunStoreEffect DEF RunInv, BootParentPart
      <3> QED
        BY <1>4, <3>1, RunStoreEffect
    <2>3. \A p, q \in Pids : Active(p)' /\ Active(q)'
             /\ Parent(p)' # None /\ Parent(p)' = Parent(q)' => p = q
      BY <1>4, RunStoreEffect DEF RunInv, BootParentPart
    <2> QED
      BY <2>1, <2>2, <2>3 DEF BootParentPart, Active, Leaf
  <1>10. BootRootPart'
    BY <1>1, <1>4, RunStoreEffect, RootFacts DEF RunInv, BootRootPart
  <1>11. BootContextPart'
    <2>1. ASSUME NEW p \in Pids
          PROVE  IF Active(p)' /\ Leaf(p)' /\ p # cpu'.pid
                 THEN /\ saved_esp'[p].pid = p
                      /\ IF Booting' /\ p = 0 THEN saved_esp'[p].at = "boot"
                         ELSE saved_esp'[p].at \in {"user", "read", "write"}
                 ELSE saved_esp'[p] = Garbage
      <3>1. /\ Active(p)' = Active(p) /\ (Leaf(p)' <=> Leaf(p))
            /\ saved_esp'[p] = saved_esp[p]
        BY <1>4, RunStoreEffect
      <3>2. IF Active(p) /\ Leaf(p) /\ p # 0
            THEN saved_esp[p].pid = p /\ saved_esp[p].at \in {"user", "read", "write"}
            ELSE saved_esp[p] = Garbage
        BY <1>1, <1>5 DEF RunInv, BootContextPart
      <3> QED
        BY <1>5, <3>1, <3>2
    <2>2. ASSUME NEW p \in Pids, ~ Active(p)' \/ Parent(p)' = None
          PROVE  parent_esp'[p] = Garbage
      BY <1>4, <2>2, RunStoreEffect DEF RunInv, BootContextPart
    <2> QED
      BY <2>1, <2>2 DEF BootContextPart
  <1> QED
    BY <1>2, <1>3, <1>6, <1>7, <1>8, <1>9, <1>10, <1>11 DEF RunInv

-----------------------------------------------------------------------------
(* Every step, and what follows.                                           *)

\* While the boot code is alone, the only other actor is the timer.
LEMMA OnlyTimer ==
  ASSUME BuildPart, Next
  PROVE  pit_tick \/ pit_int
  <1>1. cpu.at = "boot"
    BY DEF BuildPart
  <1>2. ~ execute /\ ~ execute_fail /\ \A status : ~ halt(status)
    BY <1>1 DEF execute, execute_fail, halt
  <1>3. ~ read_enter /\ ~ read_return /\ ~ write_enter /\ ~ write_return
    BY <1>1 DEF read_enter, read_return, write_enter, write_return, move
  <1> QED
    BY <1>2, <1>3 DEF Next

\* Every step of the boot, of the timer and of the shells preserves BootInv.
LEMMA NextBootInv == BootInv /\ [Boot_Next]_bootVars => BootInv'
  <1> SUFFICES ASSUME BootInv, [Boot_Next]_bootVars PROVE BootInv'
    OBVIOUS
  <1>0. BootTypes /\ FlagPart /\ irq \in {0, 1} /\ eax \in {-1, 0}
    BY DEF BootInv, BootTypes
  <1>1. CASE UNCHANGED bootVars
    BY <1>0, <1>1, QuietBootInv DEF bootVars, vars, tableVars, pcbVars
  <1>2. CASE BuildPart /\ execute_shells
    <2>1. CASE i = 0 /\ boot_at = "process_array"
      BY <1>0, <1>2, <2>1, ActivateZero DEF BootInv
    <2>2. CASE ~ (i = 0 /\ boot_at = "process_array")
      BY <1>0, <1>2, <2>2, StoreBuilds DEF BootInv
    <2> QED
      BY <2>1, <2>2
  <1>3. CASE BuildPart /\ Next /\ UNCHANGED <<boot_k, boot_at>>
    <2>1. CASE pit_tick
      BY <1>0, <1>3, <2>1, QuietBootInv DEF pit_tick
    <2>2. CASE pit_int
      <3>1. CASE pit_switch
        BY <1>0, <1>3, <2>2, <3>1, LoseBoot DEF pit_int, BootInv
      <3>2. CASE pit_no_switch
        BY <1>0, <1>3, <2>2, <3>2, QuietBootInv DEF pit_int, pit_no_switch
      <3> QED
        BY <2>2, <3>1, <3>2 DEF pit_int
    <2> QED
      BY <1>3, <2>1, <2>2, OnlyTimer
  <1>4. CASE RunInv /\ execute_shells
    BY <1>0, <1>4, RunStore DEF BootInv
  <1>5. CASE RunInv /\ Next /\ UNCHANGED <<boot_k, boot_at>>
    <2>1. CASE execute
      BY <1>0, <1>5, <2>1, RunExecute DEF BootInv
    <2>2. CASE execute_fail
      BY <1>0, <1>5, <2>2, QuietBootInv DEF execute_fail
    <2>3. ASSUME NEW status \in Statuses, halt(status) PROVE BootInv'
      BY <1>0, <1>5, <2>3, RunHaltChild, RunHaltShell DEF halt, BootInv
    <2>4. CASE read_enter \/ read_return \/ write_enter \/ write_return
      BY <1>0, <1>5, <2>4, RunMove DEF read_enter, read_return, write_enter, write_return,
                                       BootInv
    <2>5. CASE pit_tick
      BY <1>0, <1>5, <2>5, QuietBootInv DEF pit_tick
    <2>6. CASE pit_int
      <3>1. CASE pit_switch
        BY <1>0, <1>5, <2>6, <3>1, RunSwitch DEF pit_int, BootInv
      <3>2. CASE pit_no_switch
        BY <1>0, <1>5, <2>6, <3>2, QuietBootInv DEF pit_int, pit_no_switch
      <3> QED
        BY <2>6, <3>1, <3>2 DEF pit_int
    <2> QED
      BY <1>5, <2>1, <2>2, <2>3, <2>4, <2>5, <2>6 DEF Next
  <1> QED
    BY <1>1, <1>2, <1>3, <1>4, <1>5 DEF Boot_Next, BootInv

\* When the boot is over BootInv is the invariant of Processes.
LEMMA DoneIInv == BootInv /\ boot_at = "done" => IInv
  <1> SUFFICES ASSUME BootInv, boot_at = "done" PROVE IInv
    OBVIOUS
  <1>1. BootTypes /\ FlagPart /\ RunInv
    BY DEF BootInv, BuildPart
  <1>2. Roots = Terminals /\ ~ Lost /\ ~ Booting
    BY DEF Roots, Lost, Booting
  <1>3. \A p \in Pids : /\ Leaf(p) <=> leaf[p] = 1
                        /\ ~ Leaf(p) <=> leaf[p] = 0
                        /\ Parent(p) = parent_pid[p]
    BY <1>1, <1>2, PlainPcb
  <1>4. cpu.at \in {"user", "read", "write"} /\ page = cur_pid /\ tss = cur_pid
        /\ cpu.pid = cur_pid
    BY <1>1, <1>2, RunFacts
  <1>5. TypeOK
    <2>1. cpu \in Contexts
      BY <1>1, <1>4 DEF BootTypes, BootContexts, Contexts, Places
    <2>2. ASSUME NEW p \in Pids PROVE saved_esp[p] \in Contexts
      <3>1. saved_esp[p] \in BootContexts
        BY <1>1 DEF BootTypes
      <3>2. saved_esp[p].at \in {"user", "read", "write"} \/ saved_esp[p] = Garbage
        BY <1>1, <1>2 DEF RunInv, BootContextPart
      <3> QED
        BY <3>1, <3>2 DEF BootContexts, Contexts, Places, Garbage
    <2>3. saved_esp \in [Pids -> Contexts]
      BY <1>1, <2>2 DEF BootTypes
    <2> QED
      BY <1>1, <2>1, <2>3 DEF BootTypes, TypeOK, RunInv, RunPart
  <1>6. CurrentPart
    BY <1>4 DEF CurrentPart
  <1>7. LeafPart
    <2>1. ASSUME NEW t \in Terminals
          PROVE  /\ Active(terminal_array[t]) /\ leaf[terminal_array[t]] = 1
                 /\ terminal[terminal_array[t]] = t
      <3>1. terminal_array[t] \in Pids
        BY <1>5 DEF TypeOK
      <3> QED
        BY <1>1, <1>2, <1>3, <3>1 DEF RunInv, BootLeafPart
    <2>2. \A p \in Pids : Active(p) /\ leaf[p] = 1 => terminal_array[terminal[p]] = p
      BY <1>1, <1>3 DEF RunInv, BootLeafPart
    <2> QED
      BY <2>1, <2>2 DEF LeafPart
  <1>8. ParentPart
    <2>1. ASSUME NEW p \in Pids, Active(p), parent_pid[p] # None
          PROVE  LET q == parent_pid[p]
                 IN  /\ Active(q) /\ leaf[q] = 0 /\ terminal[q] = terminal[p]
                     /\ parent_esp[p].pid = q /\ parent_esp[p].at = "execute"
      <3> PICK q \in Pids : q = parent_pid[p]
        BY <1>5, <2>1 DEF TypeOK
      <3>1. /\ Active(q) /\ ~ Leaf(q) /\ terminal[q] = terminal[p]
            /\ parent_esp[p].pid = q /\ parent_esp[p].at = "execute"
        BY <1>1, <1>3, <2>1 DEF RunInv, BootParentPart
      <3> QED
        BY <1>3, <3>1
    <2>2. \A p, q \in Pids : Active(p) /\ Active(q) /\ parent_pid[p] # None
                             /\ parent_pid[p] = parent_pid[q] => p = q
      BY <1>1, <1>3 DEF RunInv, BootParentPart
    <2>3. ASSUME NEW p \in Pids, Active(p), leaf[p] = 0
          PROVE  \E q \in Pids : Active(q) /\ parent_pid[q] = p
      BY <1>1, <1>3, <2>3 DEF RunInv, BootParentPart
    <2> QED
      BY <2>1, <2>2, <2>3 DEF ParentPart
  <1>9. RootPart
    BY <1>1, <1>2, <1>3 DEF RunInv, BootRootPart, RootPart
  <1>10. ContextPart
    <2>1. Garbage.pid = None
      BY DEF Garbage
    <2>2. ASSUME NEW p \in Pids
          PROVE  IF Active(p) /\ leaf[p] = 1 /\ p # cpu.pid
                 THEN saved_esp[p].pid = p /\ saved_esp[p].at \in {"user", "read", "write"}
                 ELSE saved_esp[p].pid = None
      BY <1>1, <1>2, <1>3, <2>1 DEF RunInv, BootContextPart
    <2>3. ASSUME NEW p \in Pids, ~ Active(p) \/ parent_pid[p] = None
          PROVE  parent_esp[p].pid = None
      BY <1>1, <1>3, <2>1, <2>3 DEF RunInv, BootContextPart
    <2> QED
      BY <2>2, <2>3 DEF ContextPart
  <1> QED
    BY <1>1, <1>5, <1>6, <1>7, <1>8, <1>9, <1>10 DEF IInv

\* BootInv is an invariant of the boot, for every number of processes and of
\* terminals, whatever leaf flags and terminals unwritten PCBs hold, as long as the
\* terminal of process 0 reads as 0 before execute_shells sets it.
THEOREM BootInvariance == Zeroed_Spec => []BootInv
  BY InitBootInv, NextBootInv, PTL DEF Zeroed_Spec

\* pit_int never loads a stack pointer that was not saved.
THEOREM BootNoGarbage == Zeroed_Spec => []NoGarbageResumed
  <1>1. BootInv => NoGarbageResumed
    <2>1. BuildPart => NoGarbageResumed
      BY DEF BuildPart, NoGarbageResumed
    <2>2. ASSUME BootTypes, RunInv PROVE NoGarbageResumed
      BY <2>2, RunFacts DEF NoGarbageResumed
    <2> QED
      BY <2>1, <2>2 DEF BootInv
  <1> QED
    BY <1>1, BootInvariance, PTL

\* When execute_shells returns to user mode, and ever after, the bookkeeping is
\* consistent: what Processes assumes of its initial state may be assumed.
THEOREM BootEndsConsistent == Zeroed_Spec => [](boot_at = "done" => IInv)
  BY DoneIInv, BootInvariance, PTL

\* The shells execute_shells hands over are complete, whenever the timer
\* suspended it.
THEOREM BootComplete == Zeroed_Spec => []BootHandsOver
  <1>1. BootInv => BootHandsOver
    <2>1. IInv => TypeOK
      BY DEF IInv
    <2> QED
      BY <2>1, DoneIInv, NamesAgree, LeavesCounted, ContinuationsCounted DEF BootHandsOver
  <1> QED
    BY <1>1, BootInvariance, PTL

\* From the end of the boot on, the kernel implements the tree of processes.
THEOREM BootEndsInTree ==
  Zeroed_Spec => [][boot_at = "done" => [Tree!TreeNext]_(Tree!treeVars)]_bootVars
  <1>1. ASSUME BootInv, [Boot_Next]_bootVars, boot_at = "done"
        PROVE  [Tree!TreeNext]_(Tree!treeVars)
    <2>1. ~ execute_shells
      BY <1>1 DEF execute_shells, set_terminal_array, set_process_array, load_shell, set_leaf,
             set_terminal, set_parent_pid, build_frame, set_curr_terminal, enter_shell, step
    <2>2. [Next]_vars
      BY <1>1, <2>1 DEF Boot_Next, bootVars
    <2> QED
      BY <1>1, <2>2, DoneIInv, TreeStep
  <1>2. BootInv /\ [Boot_Next]_bootVars
          => (boot_at = "done" => [Tree!TreeNext]_(Tree!treeVars))
    BY <1>1
  <1> QED
    BY <1>2, BootInvariance, PTL DEF Zeroed_Spec

\* If the timer suspends execute_shells before process_array[0] and the leaf flag of
\* shell 0 are stored, it is never resumed, whatever the other shells do.
THEOREM EarlyTickFinal == Zeroed_Spec => EarlyTickIsFinal
  <1>1. ASSUME BootInv, [Boot_Next]_bootVars, SuspendedEarly
        PROVE  SuspendedEarly'
    <2>1. BootTypes /\ RunInv /\ cpu.at # "boot"
      BY <1>1 DEF BootInv, BuildPart, SuspendedEarly
    <2>2. ~ execute_shells
      BY <2>1 DEF execute_shells, set_terminal_array, set_process_array, load_shell, set_leaf,
             set_terminal, set_parent_pid, build_frame, set_curr_terminal, enter_shell, step
    <2>3. UNCHANGED boot_at /\ [Next]_vars
      BY <1>1, <2>2 DEF Boot_Next, bootVars
    <2>4. \A next \in Schedulable \ {cur_pid} : saved_esp[next].at # "boot"
      <3> SUFFICES ASSUME NEW next \in Schedulable \ {cur_pid}
                   PROVE  saved_esp[next].at # "boot"
        OBVIOUS
      <3>1. next \in Pids /\ Active(next) /\ Leaf(next) /\ leaf[next] = 1 /\ next # cpu.pid
        BY <2>1, RunFacts DEF Schedulable, Active, Leaf
      <3>2. ~ (Booting /\ next = 0)
        BY <1>1, <3>1 DEF SuspendedEarly, Booting
      <3> QED
        BY <2>1, <3>1, <3>2 DEF RunInv, BootContextPart
    <2>5. cpu'.at # "boot"
      BY <2>1, <2>3, <2>4 DEF Next, execute, execute_fail, halt, halt_child, halt_shell,
         return_to_user, read_enter, read_return, write_enter, write_return, move, pit_tick,
         pit_int, pit_switch, pit_no_switch, next_pid, switch_to, vars
    <2>6. ASSUME boot_at \in {"load", "leaf"}, leaf[0] = 0
          PROVE  leaf'[0] = 0
      <3>1. Booting /\ Active(0) /\ Leaf(0) /\ process_array[0] = 1
        BY <2>1, <2>6, BootingFacts DEF Booting, Active
      <3>2. KStack # 0 /\ cur_pid # 0 /\ cur_pid \in Pids /\ Active(cur_pid)
        BY <2>1, <3>1, RunFacts
      <3>3. CASE execute
        <4>1. PICK pid \in Pids : process_array[pid] = 0
                                  /\ leaf' = [leaf EXCEPT ![KStack] = 0, ![pid] = 1]
          BY <3>3 DEF execute, get_next_pid, new_pcb, leaf_execute
        <4> QED
          BY <2>1, <2>6, <3>1, <3>2, <4>1, TerminalsArePids DEF BootTypes
      <3>4. ASSUME NEW status, halt_child(status) PROVE leaf'[0] = 0
        <4> PICK par : par = parent_pid[cur_pid]
          OBVIOUS
        <4>1. par # None /\ Parent(cur_pid) = par
          BY <2>1, <3>2, <3>4, PlainPcb, NoneIsNoPid DEF halt_child, has_parent, None
        <4>2. par # 0
          BY <2>1, <3>1, <3>2, <4>1 DEF RunInv, BootParentPart
        <4> QED
          BY <2>1, <2>6, <3>4, <4>2, TerminalsArePids DEF BootTypes, halt_child, leaf_halt
      <3> QED
        BY <2>3, <2>6, <3>3, <3>4 DEF Next, execute_fail, halt, halt_shell, read_enter,
           read_return, write_enter, write_return, move, pit_tick, pit_int, pit_switch,
           pit_no_switch, vars, pcbVars
    <2> QED
      BY <1>1, <2>3, <2>5, <2>6 DEF SuspendedEarly
  <1>2. BootInv /\ [Boot_Next]_bootVars => (SuspendedEarly => SuspendedEarly')
    BY <1>1
  <1> QED
    BY <1>2, BootInvariance, PTL DEF Zeroed_Spec, EarlyTickIsFinal
=============================================================================
