-------------------------------- MODULE Rtc --------------------------------
(***************************************************************************)
(* The real-time clock (rtc.c) behind the interrupt controllers.  Programs *)
(* wait for ticks with rtc_read and change the rate with rtc_write; one    *)
(* flag, readFlag, tells all of them of a tick.  A system call runs with   *)
(* interrupts off until the kernel turns them on: in read before rtc_read, *)
(* in rtc_write at the sti of change_rate, before IRQ 8 is unmasked again. *)
(***************************************************************************)
EXTENDS I8259, Sequences

CONSTANTS
    Readers,          \* the programs that call read on the RTC
    Writers,          \* the programs that call write on it
    Values            \* the numbers written

Kernel  == "kernel"   \* the boot code
Threads == Readers \cup Writers \cup {Kernel}

RTC_IRQ  == 8
PIT_IRQ  == 0
KBRD_IRQ == 1
Devices  == {RTC_IRQ, PIT_IRQ, KBRD_IRQ}

DEFAULT_FREQ     == 2
FREQ_UPPER_BOUND == 1024
INITIAL_FREQ     == 32

ASSUME RtcAssumption == Values \subseteq Nat /\ Kernel \notin Readers \cup Writers

VARIABLES
    pic,              \* the interrupt controllers
    rate,             \* the rate bits of register A
    periodic,         \* bit 6 of register B
    pending,          \* a tick is noted in register C, which was not read since
    readFlag,
    pc,               \* where a thread is
    todo,             \* mask changes a thread still has to make, in order
    phase,            \* how far the first of them is
    al,               \* the register with the mask to write out
    asked,            \* history: the number of the last write that was accepted
    news              \* history: a tick was handled since the last read returned

vars == <<pic, rate, periodic, pending, readFlag, pc, todo, phase, al, asked, news>>

-----------------------------------------------------------------------------
(* The rate.                                                               *)

\* The number of shifts that bring rate down to 1.
log2(r) == CHOOSE k \in 0 .. 10 : 2^k <= r /\ r < 2^(k + 1)

\* Faulty: one shift too many is counted.
rate_bits_off(r) == 15 - log2(r)

\* Faulty: the shifts are added.
rate_bits_sum(r) == 16 + log2(r)

rate_bits(r) == 16 - log2(r)

\* What rtc_write takes: one byte of the buffer, within bounds, a power of two.
byte(v)     == v % 256
accepted(r) == r >= DEFAULT_FREQ /\ r <= FREQ_UPPER_BOUND /\ \E k \in 0 .. 10 : r = 2^k

\* The frequency the RTC has with these rate bits.
frequency(bits) == 32768 \div 2^(bits - 1)

-----------------------------------------------------------------------------
(* Threads.                                                                *)

Enable(irq_num)  == <<"enable", irq_num>>
Disable(irq_num) == <<"disable", irq_num>>

\* change_rate up to its sti; rest, its enable_irq first, is left to do.
change_rate(t, r, rest) ==
    /\ pic' = disable_irq(pic, RTC_IRQ)
    /\ rate' = rate_bits(r)
    /\ todo' = [todo EXCEPT ![t] = rest]

\* The rest of the boot: enable_irq in change_rate and again in initialize_rtc,
\* initialize_pit, kbrd_init.
boot_rest == <<Enable(RTC_IRQ), Enable(RTC_IRQ), Disable(PIT_IRQ), Enable(PIT_IRQ),
               Enable(KBRD_IRQ)>>

initialize_rtc ==
    /\ pc[Kernel] = "boot"
    /\ pc' = [pc EXCEPT ![Kernel] = "on"]
    /\ periodic' = TRUE
    /\ change_rate(Kernel, INITIAL_FREQ, boot_rest)
    /\ asked' = INITIAL_FREQ
    /\ UNCHANGED <<pending, readFlag, phase, al, news>>

\* Interrupts are on from the sti of the boot's change_rate.
Interruptible == pc[Kernel] = "on"
Booted        == Interruptible /\ todo[Kernel] = <<>>

\* The first load of the mask is taken together with the store: a mask changes
\* between the two only in the bit that the store decides.
store_mask(t) ==
    /\ todo[t] # <<>> /\ phase[t] = "store"
    /\ pic' = LET op == Head(todo[t]) IN IF op[1] = "enable" THEN unmask(pic, op[2])
                                         ELSE mask_off(pic, op[2])
    /\ phase' = [phase EXCEPT ![t] = "load"]
    /\ UNCHANGED <<rate, periodic, pending, readFlag, pc, todo, al, asked, news>>

load_mask(t) ==
    /\ phase[t] = "load"
    /\ al' = [al EXCEPT ![t] = pic.mask[chip(Head(todo[t])[2])]]
    /\ phase' = [phase EXCEPT ![t] = "out"]
    /\ UNCHANGED <<pic, rate, periodic, pending, readFlag, pc, todo, asked, news>>

write_mask(t) ==
    /\ phase[t] = "out"
    /\ pic' = out_mask(pic, Head(todo[t])[2], al[t])
    /\ al' = [al EXCEPT ![t] = {}]
    /\ phase' = [phase EXCEPT ![t] = "return"]
    /\ UNCHANGED <<rate, periodic, pending, readFlag, pc, todo, asked, news>>

\* The call returns.  Interrupts are on, and the processor takes a request that
\* the new mask lets through before it goes on.
leave(t) ==
    /\ phase[t] = "return"
    /\ ~ deliverable(pic, Head(todo[t])[2])
    /\ todo' = [todo EXCEPT ![t] = Tail(@)]
    /\ phase' = [phase EXCEPT ![t] = "store"]
    /\ UNCHANGED <<pic, rate, periodic, pending, readFlag, pc, al, asked, news>>

\* The program's buffer holds the number v, of which the first byte is looked at.
\* A rate that is not accepted changes nothing.
rtc_write(t, v) ==
    /\ Booted /\ todo[t] = <<>>
    /\ accepted(byte(v))
    /\ change_rate(t, byte(v), <<Enable(RTC_IRQ)>>)
    /\ asked' = v
    /\ UNCHANGED <<periodic, pending, readFlag, pc, phase, al, news>>

\* read turns interrupts on and calls rtc_read.
rtc_read(t) ==
    /\ Booted /\ pc[t] = "user"
    /\ pc' = [pc EXCEPT ![t] = "wait"]
    /\ UNCHANGED <<pic, rate, periodic, pending, readFlag, todo, phase, al, asked, news>>

\* The loop of rtc_read ends.
see_flag(t) ==
    /\ pc[t] = "wait" /\ readFlag = 1
    /\ pc' = [pc EXCEPT ![t] = "clear"]
    /\ UNCHANGED <<pic, rate, periodic, pending, readFlag, todo, phase, al, asked, news>>

\* Faulty: the flag is left set.
reset_flag_none == 1

reset_flag == 0

\* rtc_read resets the flag and returns 0.
clear_flag(t) ==
    /\ pc[t] = "clear"
    /\ readFlag' = reset_flag
    /\ news' = FALSE
    /\ pc' = [pc EXCEPT ![t] = "user"]
    /\ UNCHANGED <<pic, rate, periodic, pending, todo, phase, al, asked>>

-----------------------------------------------------------------------------
(* Interrupts.                                                             *)

\* The RTC notes a tick and raises its line, unless the last one was not read.
tick ==
    /\ periodic /\ ~ pending
    /\ pending' = TRUE
    /\ pic' = request(pic, RTC_IRQ)
    /\ UNCHANGED <<rate, periodic, readFlag, pc, todo, phase, al, asked, news>>

\* Faulty: register C is not read.
read_register_c_none == pending' = pending

read_register_c == pending' = FALSE

\* What refresh_vidmem copies at the end of rtc_int is in module Screen.
rtc_int ==
    /\ Interruptible /\ deliverable(pic, RTC_IRQ)
    /\ readFlag' = 1
    /\ read_register_c
    /\ pic' = send_eoi(acknowledge(pic, RTC_IRQ), RTC_IRQ)
    /\ news' = TRUE
    /\ UNCHANGED <<rate, periodic, pc, todo, phase, al, asked>>

\* The timer and the keyboard.
raise(irq_num) ==
    /\ ~ requested(pic, irq_num)
    /\ pic' = request(pic, irq_num)
    /\ UNCHANGED <<rate, periodic, pending, readFlag, pc, todo, phase, al, asked, news>>

\* pit_int and kbrd_int, for what they do to the controllers.
other_int(irq_num) ==
    /\ Interruptible /\ deliverable(pic, irq_num)
    /\ pic' = send_eoi(acknowledge(pic, irq_num), irq_num)
    /\ UNCHANGED <<rate, periodic, pending, readFlag, pc, todo, phase, al, asked, news>>

-----------------------------------------------------------------------------
(* Specification.                                                          *)

\* After i8259_init, interrupts off; the firmware left some rate.
Init ==
    /\ pic = i8259_init
    /\ rate \in 1 .. 15
    /\ periodic = FALSE
    /\ pending = FALSE
    /\ readFlag = 0
    /\ pc = [t \in Threads |-> IF t = Kernel THEN "boot" ELSE "user"]
    /\ todo = [t \in Threads |-> <<>>]
    /\ phase = [t \in Threads |-> "store"]
    /\ al = [t \in Threads |-> {}]
    /\ asked = frequency(rate)
    /\ news = FALSE

Thread(t) == store_mask(t) \/ load_mask(t) \/ write_mask(t) \/ leave(t)
Reader(t) == see_flag(t) \/ clear_flag(t)

Next ==
    \/ initialize_rtc
    \/ \E t \in Threads : Thread(t)
    \/ \E t \in Writers, v \in Values : rtc_write(t, v)
    \/ \E t \in Readers : rtc_read(t) \/ Reader(t)
    \/ tick
    \/ rtc_int
    \/ \E n \in {PIT_IRQ, KBRD_IRQ} : raise(n) \/ other_int(n)

Spec == Init /\ [][Next]_vars

\* The clock ticks; a request that gets through is taken; code that is not
\* finished goes on, however often it is interrupted: every terminal is
\* scheduled (module Processes), and both windows run with interrupts on.
Fairness ==
    /\ WF_vars(initialize_rtc)
    /\ \A t \in Threads : SF_vars(Thread(t))
    /\ \A t \in Readers : WF_vars(Reader(t))
    /\ WF_vars(tick)
    /\ WF_vars(rtc_int)
    /\ \A n \in {PIT_IRQ, KBRD_IRQ} : WF_vars(other_int(n))

FairSpec == Spec /\ Fairness

-----------------------------------------------------------------------------
(* Properties.                                                             *)

\* The types of the variables; the rate fits its four bits of register A, so
\* that change_rate leaves the other bits alone.
TypeOK ==
    /\ pic \in Pics
    /\ rate \in 0 .. 15
    /\ {periodic, pending, news} \subseteq BOOLEAN
    /\ readFlag \in {0, 1}
    /\ pc \in [Threads -> {"boot", "on", "user", "wait", "clear"}]
    /\ \A t \in Threads : Len(todo[t]) <= 5
    /\ phase \in [Threads -> {"store", "load", "out", "return"}]
    /\ al \in [Threads -> SUBSET Lines]
    /\ asked \in Nat

\* When no thread is between the sti and the end of change_rate, the chips have
\* the masks that the kernel has in memory, and exactly the devices of the
\* kernel are unmasked.  So it is if the boot and one writer change masks, with
\* interrupts between any two of their steps; two writers whose calls of
\* change_rate overlap can leave IRQ 8 masked.
MaskRestored ==
    (Booted /\ \A t \in Threads : todo[t] = <<>>) =>
        /\ pic.imr = pic.mask
        /\ pic.mask["master"] = Lines \ {PIT_IRQ, KBRD_IRQ, ICW3_SLAVE}
        /\ pic.mask["slave"] = Lines \ {line(RTC_IRQ)}

\* The RTC runs at the frequency that was written to it when rtc_write last
\* returned 0.  It does so as long as programs write numbers that a byte holds, or
\* numbers whose first byte is no rate: rtc_write reads one byte of its buffer.
RateAsAsked == frequency(rate) = asked

\* A tick lets at most one read of a lone reader return.
TickPerRead == \A t \in Readers : pc[t] = "clear" => news

\* No request is blocked for ever, by a mask or by an interrupt in service.
RequestsServed ==
    \A n \in Devices : requested(pic, n) ~> ~ requested(pic, n)

\* A lone reader's rtc_read returns, although another program changes the rate,
\* and masks the RTC for that, any number of times meanwhile.
RtcReadReturns == \A t \in Readers : (pc[t] = "wait") ~> (pc[t] = "user")

\* The RTC interrupts again and again: rtc_int is what copies the page of the
\* displayed terminal to the screen, so the screen follows what is printed.  It
\* takes register C to be read, the in-service bits of both chips to be cleared
\* and each mask change of the boot and of rtc_write to be undone.
ClockGoesOn == []<><<rtc_int>>_vars
=============================================================================
