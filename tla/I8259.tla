------------------------------- MODULE I8259 -------------------------------
(***************************************************************************)
(* The two cascaded interrupt controllers (i8259.c).  The kernel keeps the *)
(* masks in memory, master_mask and slave_mask, and writes them out; the   *)
(* chips hold the mask registers, the latched requests and the interrupts  *)
(* in service.                                                             *)
(***************************************************************************)
EXTENDS Integers

Lines       == 0 .. 7
Chips       == {"master", "slave"}
MASTER_IRQ  == 7
MAX_IRQ_NUM == 15
ICW3_SLAVE  == 2      \* the line of the master that the slave is wired to

Pics == [mask : [Chips -> SUBSET Lines],      \* master_mask and slave_mask
         imr  : [Chips -> SUBSET Lines],      \* the mask registers
         irr  : [Chips -> SUBSET Lines],      \* requests latched
         isr  : [Chips -> SUBSET Lines]]      \* in service

chip(irq_num) == IF irq_num > MASTER_IRQ THEN "slave" ELSE "master"
line(irq_num) == IF irq_num > MASTER_IRQ THEN irq_num - (MASTER_IRQ + 1) ELSE irq_num

-----------------------------------------------------------------------------
(* What the kernel does.  The build stores the mask, loads it again and    *)
(* writes it out: with interrupts on these are three steps.                *)

unmask(pic, irq_num) ==
    IF irq_num > MAX_IRQ_NUM THEN pic
    ELSE [pic EXCEPT !.mask[chip(irq_num)] = @ \ {line(irq_num)}]

mask_off(pic, irq_num) ==
    IF irq_num > MAX_IRQ_NUM THEN pic
    ELSE [pic EXCEPT !.mask[chip(irq_num)] = @ \cup {line(irq_num)}]

\* Faulty: the data port of the master is not replaced by the slave's.
out_mask_master(pic, irq_num, m) == [pic EXCEPT !.imr["master"] = m]

out_mask(pic, irq_num, m) ==
    IF irq_num > MAX_IRQ_NUM THEN pic ELSE [pic EXCEPT !.imr[chip(irq_num)] = m]

\* The whole calls, with interrupts off.
enable_irq(pic, irq_num) ==
    LET new == unmask(pic, irq_num) IN out_mask(new, irq_num, new.mask[chip(irq_num)])

disable_irq(pic, irq_num) ==
    LET new == mask_off(pic, irq_num) IN out_mask(new, irq_num, new.mask[chip(irq_num)])

\* Faulty: the master is not told about an interrupt of the slave.
send_eoi_one(pic, irq_num) == [pic EXCEPT !.isr[chip(irq_num)] = @ \ {line(irq_num)}]

send_eoi(pic, irq_num) ==
    IF irq_num > MAX_IRQ_NUM THEN pic
    ELSE [pic EXCEPT !.isr = [c \in Chips |->
              pic.isr[c] \ ((IF c = chip(irq_num) THEN {line(irq_num)} ELSE {})
                            \cup (IF c = "master" /\ chip(irq_num) = "slave"
                                  THEN {ICW3_SLAVE} ELSE {}))]]

\* The first control word clears the mask registers again, and only the
\* master's is written afterwards: the slave is open until its first mask.
i8259_init ==
    enable_irq([mask |-> [c \in Chips |-> Lines], imr |-> [c \in Chips |-> {}],
                irr  |-> [c \in Chips |-> {}],    isr |-> [c \in Chips |-> {}]], ICW3_SLAVE)

-----------------------------------------------------------------------------
(* What the chips do.                                                      *)

requested(pic, irq_num) == line(irq_num) \in pic.irr[chip(irq_num)]

\* A device raises its line; the edge is latched, masked or not.
request(pic, irq_num) == [pic EXCEPT !.irr[chip(irq_num)] = @ \cup {line(irq_num)}]

\* Line l gets through: not masked, and nothing as urgent is in service.
open_line(pic, c, l) == l \notin pic.imr[c] /\ \A k \in pic.isr[c] : l < k

\* The request would interrupt the processor.  Of several that would, the chips
\* choose the most urgent; here any may come first.
deliverable(pic, irq_num) ==
    /\ requested(pic, irq_num)
    /\ open_line(pic, chip(irq_num), line(irq_num))
    /\ chip(irq_num) = "slave" => open_line(pic, "master", ICW3_SLAVE)

acknowledge(pic, irq_num) ==
    [pic EXCEPT !.irr[chip(irq_num)] = @ \ {line(irq_num)},
                !.isr = [c \in Chips |->
                    pic.isr[c] \cup (IF c = chip(irq_num) THEN {line(irq_num)} ELSE {})
                               \cup (IF c = "master" /\ chip(irq_num) = "slave"
                                     THEN {ICW3_SLAVE} ELSE {})]]
=============================================================================
