----------------------------- MODULE RtcProofs -----------------------------
(***************************************************************************)
(* The masks of the interrupt controllers and the rate of the clock, for   *)
(* any number of programs that read the RTC and any values written to it.  *)
(***************************************************************************)
EXTENDS Rtc, TLAPS

-----------------------------------------------------------------------------
(* The operations of i8259.c, field by field.                              *)

\* Where the lines of the devices are, and their mask operations.
LEMMA DeviceLines ==
  /\ chip(RTC_IRQ) = "slave" /\ line(RTC_IRQ) = 0
  /\ chip(PIT_IRQ) = "master" /\ line(PIT_IRQ) = 0
  /\ chip(KBRD_IRQ) = "master" /\ line(KBRD_IRQ) = 1
  BY DEF chip, line, RTC_IRQ, PIT_IRQ, KBRD_IRQ, MASTER_IRQ

\* The chip and the line of a device exist.
LEMMA DeviceTypes ==
  ASSUME NEW n \in Devices
  PROVE  chip(n) \in Chips /\ line(n) \in Lines /\ ~ (n > MAX_IRQ_NUM)
  BY DEF chip, line, Devices, RTC_IRQ, PIT_IRQ, KBRD_IRQ, MASTER_IRQ, MAX_IRQ_NUM, Chips, Lines

\* Storing a mask changes one line of one mask in memory.
LEMMA StoreFields ==
  ASSUME NEW p \in Pics, NEW n \in Devices
  PROVE  /\ unmask(p, n) \in Pics /\ mask_off(p, n) \in Pics
         /\ unmask(p, n).imr = p.imr /\ mask_off(p, n).imr = p.imr
         /\ unmask(p, n).mask = [p.mask EXCEPT ![chip(n)] = @ \ {line(n)}]
         /\ mask_off(p, n).mask = [p.mask EXCEPT ![chip(n)] = @ \cup {line(n)}]
  BY DeviceTypes DEF Pics, unmask, mask_off

\* Writing a mask out changes the register of one chip.
LEMMA OutFields ==
  ASSUME NEW p \in Pics, NEW n \in Devices, NEW m \in SUBSET Lines
  PROVE  /\ out_mask(p, n, m) \in Pics
         /\ out_mask(p, n, m).mask = p.mask
         /\ out_mask(p, n, m).imr = [p.imr EXCEPT ![chip(n)] = m]
  BY DeviceTypes DEF Pics, out_mask

\* disable_irq does both.
LEMMA DisableFields ==
  ASSUME NEW p \in Pics, NEW n \in Devices
  PROVE  LET q == disable_irq(p, n)
             m == p.mask[chip(n)] \cup {line(n)}
         IN  /\ q \in Pics
             /\ q.mask = [p.mask EXCEPT ![chip(n)] = m]
             /\ q.imr = [p.imr EXCEPT ![chip(n)] = m]
  <1> DEFINE r == mask_off(p, n)
             m == p.mask[chip(n)] \cup {line(n)}
  <1>1. p.mask \in [Chips -> SUBSET Lines]
    BY DEF Pics
  <1>2. m \in SUBSET Lines
    BY <1>1, DeviceTypes
  <1>3. r \in Pics /\ r.imr = p.imr /\ r.mask = [p.mask EXCEPT ![chip(n)] = m]
    BY StoreFields
  <1>4. r.mask[chip(n)] = m
    BY <1>1, <1>3, DeviceTypes
  <1>5. disable_irq(p, n) = out_mask(r, n, m)
    BY <1>4 DEF disable_irq
  <1> HIDE DEF r, m
  <1>6. /\ out_mask(r, n, m) \in Pics /\ out_mask(r, n, m).mask = r.mask
        /\ out_mask(r, n, m).imr = [r.imr EXCEPT ![chip(n)] = m]
    BY <1>2, <1>3, OutFields
  <1> QED
    BY <1>3, <1>5, <1>6 DEF m

\* Requests and their service leave the masks alone.
LEMMA ServiceFields ==
  ASSUME NEW p \in Pics, NEW n \in Devices
  PROVE  /\ request(p, n) \in Pics
         /\ request(p, n).mask = p.mask /\ request(p, n).imr = p.imr
         /\ send_eoi(acknowledge(p, n), n) \in Pics
         /\ send_eoi(acknowledge(p, n), n).mask = p.mask
         /\ send_eoi(acknowledge(p, n), n).imr = p.imr
  <1>1. request(p, n) \in Pics /\ request(p, n).mask = p.mask /\ request(p, n).imr = p.imr
    BY DeviceTypes DEF Pics, request
  <1>2. /\ acknowledge(p, n) \in Pics
        /\ acknowledge(p, n).mask = p.mask /\ acknowledge(p, n).imr = p.imr
    <2> DEFINE served == [c \in Chips |->
                    p.isr[c] \cup (IF c = chip(n) THEN {line(n)} ELSE {})
                             \cup (IF c = "master" /\ chip(n) = "slave"
                                   THEN {ICW3_SLAVE} ELSE {})]
    <2>1. p.isr \in [Chips -> SUBSET Lines] /\ ICW3_SLAVE \in Lines
      BY DEF Pics, ICW3_SLAVE, Lines
    <2>2. served \in [Chips -> SUBSET Lines]
      BY <2>1, DeviceTypes
    <2>3. acknowledge(p, n) = [p EXCEPT !.irr[chip(n)] = @ \ {line(n)}, !.isr = served]
      BY DEF acknowledge
    <2> HIDE DEF served
    <2> QED
      BY ZenonT(150), <2>2, <2>3, DeviceTypes DEF Pics
  <1>3. ASSUME NEW q \in Pics
        PROVE  send_eoi(q, n) \in Pics /\ send_eoi(q, n).mask = q.mask
               /\ send_eoi(q, n).imr = q.imr
    BY DeviceTypes DEF Pics, send_eoi
  <1> QED
    BY <1>1, <1>2, <1>3

\* The masks after i8259_init: in memory all but the cascade is masked, the
\* register of the slave is still open.
LEMMA InitFields ==
  /\ i8259_init \in Pics
  /\ i8259_init.mask["master"] = Lines \ {ICW3_SLAVE} /\ i8259_init.mask["slave"] = Lines
  /\ i8259_init.imr["master"] = Lines \ {ICW3_SLAVE}
  <1> DEFINE none == [c \in Chips |-> {}]
             all  == [c \in Chips |-> Lines]
             some == [all EXCEPT !["master"] = @ \ {ICW3_SLAVE}]
             old  == [mask |-> all, imr |-> none, irr |-> none, isr |-> none]
             new  == [mask |-> some, imr |-> none, irr |-> none, isr |-> none]
  <1>1. chip(ICW3_SLAVE) = "master" /\ line(ICW3_SLAVE) = ICW3_SLAVE
        /\ ~ (ICW3_SLAVE > MAX_IRQ_NUM)
    BY DEF chip, line, ICW3_SLAVE, MASTER_IRQ, MAX_IRQ_NUM
  <1>2. unmask(old, ICW3_SLAVE) = new /\ new.mask = some
    BY <1>1 DEF unmask
  <1>3. some["master"] = Lines \ {ICW3_SLAVE} /\ some["slave"] = Lines
        /\ some \in [Chips -> SUBSET Lines] /\ none \in [Chips -> SUBSET Lines]
    BY DEF Chips
  <1>4. i8259_init = out_mask(new, ICW3_SLAVE, some["master"])
    <2>1. i8259_init = enable_irq(old, ICW3_SLAVE)
      BY DEF i8259_init
    <2> HIDE DEF old, new, some
    <2> QED
      BY <1>1, <1>2, <2>1 DEF enable_irq
  <1> HIDE DEF some, none
  <1>5. i8259_init = [mask |-> some, irr |-> none, isr |-> none,
                      imr  |-> [none EXCEPT !["master"] = Lines \ {ICW3_SLAVE}]]
    BY <1>1, <1>3, <1>4 DEF out_mask
  <1> QED
    BY <1>3, <1>5 DEF Pics, Chips

-----------------------------------------------------------------------------
(* What the threads still have to do.                                      *)

\* The mask changes initialize_rtc, pit_init and kbrd_init have left to make.
KernelWork == {<<>>, <<Enable(KBRD_IRQ)>>, <<Enable(PIT_IRQ), Enable(KBRD_IRQ)>>,
               <<Disable(PIT_IRQ), Enable(PIT_IRQ), Enable(KBRD_IRQ)>>,
               <<Enable(RTC_IRQ), Disable(PIT_IRQ), Enable(PIT_IRQ), Enable(KBRD_IRQ)>>,
               <<Enable(RTC_IRQ), Enable(RTC_IRQ), Disable(PIT_IRQ), Enable(PIT_IRQ),
                 Enable(KBRD_IRQ)>>}

\* The boot code makes its mask changes in order, and writers have at most one to
\* make, after the boot.
WorkPart ==
    /\ todo \in [Threads -> KernelWork \cup {<<Enable(RTC_IRQ)>>}]
    /\ todo[Kernel] \in KernelWork
    /\ pc[Kernel] \in {"boot", "on"}
    /\ pc[Kernel] = "boot" => todo[Kernel] = <<>>
    /\ \A t \in Threads \ {Kernel} :
          todo[t] = <<>> \/ (t \in Writers /\ Booted /\ todo[t] = <<Enable(RTC_IRQ)>>)
    /\ \A t \in Threads : todo[t] = <<>> => phase[t] = "store"

\* What every proof below starts from.
TypeInv == TypeOK /\ WorkPart

\* Thread t has stored a mask of chip c and not yet returned.
Busy(t, c) == todo[t] # <<>> /\ phase[t] # "store" /\ chip(Head(todo[t])[2]) = c

\* The lines that are unmasked when no mask change is under way.
OpenFor(c, place, left, writing) ==
    IF c = "slave" THEN IF place = "boot" \/ left = 5 \/ writing # {} THEN {} ELSE {0}
    ELSE IF place = "boot" \/ left >= 2 THEN {2}
    ELSE IF left = 1 THEN {0, 2} ELSE {0, 1, 2}

\* The writers between their disable_irq and the end of their enable_irq.
Working == {w \in Writers : todo[w] # <<>>}

\* The same in the current state.
OpenLines(c) == OpenFor(c, pc[Kernel], Len(todo[Kernel]), Working)

\* And what a mask change makes of them.
Changed(op) ==
    LET n == op[2]
    IN  IF op[1] = "enable" THEN OpenLines(chip(n)) \cup {line(n)}
        ELSE OpenLines(chip(n)) \ {line(n)}

\* A chip that nobody works on has the mask of the kernel (but for the slave in
\* the boot), and a thread in the middle of a change finds its mask untouched.
MaskPart ==
    /\ \A c \in Chips : (\A t \in Threads : ~ Busy(t, c)) =>
          /\ pic.mask[c] = Lines \ OpenLines(c)
          /\ pc[Kernel] = "on" \/ c = "master" => pic.imr[c] = pic.mask[c]
    /\ \A t \in Threads : \A c \in Chips : Busy(t, c) =>
          /\ pic.mask[c] = Lines \ Changed(Head(todo[t]))
          /\ phase[t] = "out" => al[t] = pic.mask[c]
          /\ phase[t] = "return" => pic.imr[c] = pic.mask[c]
          /\ \A d \in Chips \ {c} : pic.mask[d] = Lines \ OpenLines(d)
                                    /\ pic.imr[d] = pic.mask[d]

\* A flag that is set stands for a tick nobody has used.
TickPart ==
    /\ readFlag = 1 => news
    /\ \A t \in Readers : pc[t] = "clear" => news

-----------------------------------------------------------------------------
(* The rate.                                                               *)

\* l is a divider that fits the four bits of register A, with its power of two.
PowerRow(l) ==
    \/ l = 0 /\ 2^l = 1
    \/ l = 1 /\ 2^l = 2
    \/ l = 2 /\ 2^l = 4
    \/ l = 3 /\ 2^l = 8
    \/ l = 4 /\ 2^l = 16
    \/ l = 5 /\ 2^l = 32
    \/ l = 6 /\ 2^l = 64
    \/ l = 7 /\ 2^l = 128
    \/ l = 8 /\ 2^l = 256
    \/ l = 9 /\ 2^l = 512
    \/ l = 10 /\ 2^l = 1024
    \/ l = 11 /\ 2^l = 2048
    \/ l = 12 /\ 2^l = 4096
    \/ l = 13 /\ 2^l = 8192
    \/ l = 14 /\ 2^l = 16384
    \/ l = 15 /\ 2^l = 32768

\* The provers know powers of literals only.
LEMMA PowersOfTwo ==
  ASSUME NEW l \in 0 .. 15
  PROVE  PowerRow(l)
  <1>0. CASE l = 0
    BY <1>0 DEF PowerRow
  <1>1. CASE l = 1
    BY <1>1 DEF PowerRow
  <1>2. CASE l = 2
    BY <1>2 DEF PowerRow
  <1>3. CASE l = 3
    BY <1>3 DEF PowerRow
  <1>4. CASE l = 4
    BY <1>4 DEF PowerRow
  <1>5. CASE l = 5
    BY <1>5 DEF PowerRow
  <1>6. CASE l = 6
    BY <1>6 DEF PowerRow
  <1>7. CASE l = 7
    BY <1>7 DEF PowerRow
  <1>8. CASE l = 8
    BY <1>8 DEF PowerRow
  <1>9. CASE l = 9
    BY <1>9 DEF PowerRow
  <1>10. CASE l = 10
    BY <1>10 DEF PowerRow
  <1>11. CASE l = 11
    BY <1>11 DEF PowerRow
  <1>12. CASE l = 12
    BY <1>12 DEF PowerRow
  <1>13. CASE l = 13
    BY <1>13 DEF PowerRow
  <1>14. CASE l = 14
    BY <1>14 DEF PowerRow
  <1>15. CASE l = 15
    BY <1>15 DEF PowerRow
  <1> QED
    BY <1>0, <1>1, <1>2, <1>3, <1>4, <1>5, <1>6, <1>7,
       <1>8, <1>9, <1>10, <1>11, <1>12, <1>13, <1>14, <1>15

\* The shifts of change_rate count the exponent of an accepted rate.
LEMMA LogOfRate ==
  ASSUME NEW k \in 0 .. 10
  PROVE  log2(2^k) = k
  <1>1. \A l \in 0 .. 10 : 2^l <= 2^k /\ 2^k < 2^(l + 1) <=> l = k
    <2> TAKE l \in 0 .. 10
    <2> QED
      <3>1. PowerRow(l) /\ PowerRow(l + 1) /\ PowerRow(k)
        BY PowersOfTwo
      <3> QED
        BY <3>1 DEF PowerRow
  <1> QED
    BY <1>1 DEF log2

\* change_rate sets rate bits that fit their field and give the rate asked for.
LEMMA RateIsAsked ==
  ASSUME NEW r \in Nat, accepted(r)
  PROVE  rate_bits(r) \in 1 .. 15 /\ frequency(rate_bits(r)) = r
  <1> PICK k \in 0 .. 10 : r = 2^k
    BY DEF accepted
  <1>1. k # 0
    <2>1. PowerRow(k)
      BY PowersOfTwo
    <2> QED
      BY <2>1 DEF PowerRow, accepted, DEFAULT_FREQ
  <1>2. rate_bits(r) = 16 - k
    BY LogOfRate DEF rate_bits
  <1>3. k \in 0 .. 15 /\ 15 - k \in 0 .. 15 /\ (16 - k) - 1 = 15 - k
    OBVIOUS
  <1>4. 32768 \div 2^(15 - k) = 2^k
    <2>1. PowerRow(k) /\ PowerRow(15 - k)
      BY <1>3, PowersOfTwo
    <2> QED
      BY <2>1 DEF PowerRow
  <1> QED
    BY <1>1, <1>2, <1>3, <1>4 DEF frequency

-----------------------------------------------------------------------------
(* Types, for any readers and writers.                                     *)

\* The head of the work is a change of a device's mask, the tail is work again.
LEMMA WorkSteps ==
  ASSUME NEW w \in KernelWork \cup {<<Enable(RTC_IRQ)>>}, w # <<>>
  PROVE  /\ Head(w)[2] \in Devices
         /\ Tail(w) \in KernelWork
         /\ w = <<Enable(RTC_IRQ)>> => Tail(w) = <<>>
         /\ Len(w) <= 5
  <1>1. CASE w = <<Enable(KBRD_IRQ)>>
    BY <1>1 DEF KernelWork, Enable, Disable, Devices
  <1>2. CASE w = <<Enable(PIT_IRQ), Enable(KBRD_IRQ)>>
    BY <1>2 DEF KernelWork, Enable, Disable, Devices
  <1>3. CASE w = <<Disable(PIT_IRQ), Enable(PIT_IRQ), Enable(KBRD_IRQ)>>
    BY <1>3 DEF KernelWork, Enable, Disable, Devices
  <1>4. CASE w = <<Enable(RTC_IRQ), Disable(PIT_IRQ), Enable(PIT_IRQ), Enable(KBRD_IRQ)>>
    BY <1>4 DEF KernelWork, Enable, Disable, Devices
  <1>5. CASE w = <<Enable(RTC_IRQ), Enable(RTC_IRQ), Disable(PIT_IRQ), Enable(PIT_IRQ),
                   Enable(KBRD_IRQ)>>
    BY <1>5 DEF KernelWork, Enable, Disable, Devices
  <1>6. CASE w = <<Enable(RTC_IRQ)>>
    BY <1>6 DEF KernelWork, Enable, Disable, Devices
  <1> QED
    BY <1>1, <1>2, <1>3, <1>4, <1>5, <1>6 DEF KernelWork

\* i8259_init, and the firmware's rate.
LEMMA InitTypeInv == Init => TypeInv /\ RateAsAsked
  <1> SUFFICES ASSUME Init PROVE TypeInv /\ RateAsAsked
    OBVIOUS
  <1>1. frequency(rate) \in Nat
    <2>1. rate - 1 \in 0 .. 15 /\ PowerRow(rate - 1)
      BY SMTT(60), PowersOfTwo DEF Init
    <2> QED
      BY <2>1 DEF PowerRow, frequency
  <1>2. TypeOK
    <2>1. pc \in [Threads -> {"boot", "on", "user", "wait", "clear"}]
      BY DEF Init
    <2>2. /\ phase \in [Threads -> {"store", "load", "out", "return"}]
          /\ al \in [Threads -> SUBSET Lines]
          /\ \A t \in Threads : Len(todo[t]) <= 5
      BY DEF Init
    <2>3. {periodic, pending, news} \subseteq BOOLEAN
      BY Zenon DEF Init
    <2>4. readFlag \in {0, 1} /\ rate \in 0 .. 15 /\ pic \in Pics
      BY InitFields DEF Init
    <2> QED
      BY <1>1, <2>1, <2>2, <2>3, <2>4 DEF Init, TypeOK
  <1>3. WorkPart
    BY RtcAssumption DEF Init, WorkPart, KernelWork, Threads
  <1> QED
    BY <1>2, <1>3 DEF TypeInv, Init, RateAsAsked

\* change_rate keeps the types and sets the frequency it is called with.
LEMMA ChangeRateTypes ==
  ASSUME TypeInv, NEW t \in Threads, NEW r \in Nat, accepted(r), NEW rest,
         change_rate(t, r, rest)
  PROVE  pic' \in Pics /\ rate' \in 0 .. 15 /\ frequency(rate') = r
  <1>1. pic' \in Pics
    BY DisableFields DEF change_rate, TypeInv, TypeOK, Devices
  <1> QED
    BY <1>1, RateIsAsked DEF change_rate

\* No step leaves the types.
LEMMA NextTypeInv == TypeInv /\ [Next]_vars => TypeInv'
  <1> SUFFICES ASSUME TypeInv, [Next]_vars
               PROVE  TypeInv'
    OBVIOUS
  <1> USE DEF TypeInv
  <1>0. Kernel \in Threads /\ \A t \in Writers \cup Readers : t \in Threads /\ t # Kernel
    BY RtcAssumption DEF Threads
  <1>1. CASE initialize_rtc
    <2>1. accepted(INITIAL_FREQ)
      <3>1. INITIAL_FREQ = 2^5
        BY DEF INITIAL_FREQ
      <3> QED
        BY <3>1 DEF accepted, INITIAL_FREQ, DEFAULT_FREQ, FREQ_UPPER_BOUND
    <2>2. /\ pic' \in Pics /\ rate' \in 0 .. 15 /\ asked' \in Nat
      BY <1>0, <1>1, <2>1, ChangeRateTypes DEF initialize_rtc, INITIAL_FREQ
    <2>3. todo' = [todo EXCEPT ![Kernel] =
             <<Enable(RTC_IRQ), Enable(RTC_IRQ), Disable(PIT_IRQ), Enable(PIT_IRQ),
               Enable(KBRD_IRQ)>>]
      BY <1>1 DEF initialize_rtc, change_rate, boot_rest
    <2>4. WorkPart'
      <3>1. <<Enable(RTC_IRQ), Enable(RTC_IRQ), Disable(PIT_IRQ), Enable(PIT_IRQ),
               Enable(KBRD_IRQ)>> \in KernelWork
        BY DEF KernelWork
      <3>2. /\ todo[Kernel] = <<>> /\ \A t \in Threads : phase[t] = "store"
            /\ \A t \in Threads \ {Kernel} : todo[t] = <<>>
        BY <1>1, "boot" # "on" DEF initialize_rtc, WorkPart, Booted, Interruptible
      <3>3. pc'[Kernel] = "on" /\ phase' = phase
        BY <1>0, <1>1 DEF initialize_rtc, TypeOK
      <3> QED
        BY <1>0, <2>3, <3>1, <3>2, <3>3 DEF WorkPart
    <2>5. TypeOK'
      BY <1>0, <1>1, <2>2, <2>4, WorkSteps DEF initialize_rtc, TypeOK, WorkPart
    <2> QED
      BY <2>2, <2>4, <2>5
  <1>2. ASSUME NEW t \in Threads, store_mask(t) PROVE TypeInv'
    <2>1. pic' \in Pics
      BY <1>2, WorkSteps, StoreFields DEF store_mask, TypeOK, WorkPart
    <2> QED
      BY <1>2, <2>1 DEF store_mask, TypeOK, WorkPart, Booted, Interruptible
  <1>3. ASSUME NEW t \in Threads, load_mask(t) PROVE TypeInv'
    <2>1. todo[t] # <<>>
      BY <1>3 DEF load_mask, WorkPart
    <2>2. chip(Head(todo[t])[2]) \in Chips
      BY <2>1, WorkSteps, DeviceTypes DEF WorkPart
    <2> QED
      BY <1>3, <2>1, <2>2 DEF load_mask, TypeOK, WorkPart, Booted, Interruptible, Pics
  <1>4. ASSUME NEW t \in Threads, write_mask(t) PROVE TypeInv'
    <2>1. todo[t] # <<>>
      BY <1>4 DEF write_mask, WorkPart
    <2>2. pic' \in Pics
      BY <1>4, <2>1, WorkSteps, OutFields DEF write_mask, TypeOK, WorkPart
    <2> QED
      BY <1>4, <2>1, <2>2 DEF write_mask, TypeOK, WorkPart, Booted, Interruptible
  <1>5. ASSUME NEW t \in Threads, leave(t) PROVE TypeInv'
    <2>1. todo[t] # <<>> /\ Tail(todo[t]) \in KernelWork
      BY <1>5, WorkSteps DEF leave, WorkPart
    <2>2. t # Kernel => Tail(todo[t]) = <<>> /\ todo[Kernel] = <<>> /\ todo'[Kernel] = <<>>
      BY <1>0, <1>5, <2>1, WorkSteps DEF leave, WorkPart, Booted
    <2>3. WorkPart'
      BY <1>0, <1>5, <2>1, <2>2 DEF leave, WorkPart, TypeOK, Booted, Interruptible
    <2>4. \A s \in Threads : Len(todo'[s]) <= 5
      BY <2>3, WorkSteps DEF WorkPart
    <2> QED
      BY <1>5, <2>3, <2>4 DEF leave, TypeOK
  <1>6. ASSUME NEW t \in Writers, NEW v \in Values, rtc_write(t, v)
        PROVE  TypeInv'
    <2>1. byte(v) \in Nat
      BY RtcAssumption DEF byte
    <2>2. /\ pic' \in Pics /\ rate' \in 0 .. 15 /\ asked' \in Nat
      BY <1>0, <1>6, <2>1, ChangeRateTypes, RtcAssumption DEF rtc_write
    <2>3. todo' = [todo EXCEPT ![t] = <<Enable(RTC_IRQ)>>]
      BY <1>6 DEF rtc_write, change_rate
    <2>4. WorkPart'
      BY <1>0, <1>6, <2>3 DEF rtc_write, WorkPart, Booted, Interruptible
    <2>5. \A s \in Threads : Len(todo'[s]) <= 5
      BY <2>4, WorkSteps DEF WorkPart
    <2> QED
      BY <1>6, <2>2, <2>4, <2>5 DEF rtc_write, TypeOK
  <1>7. ASSUME NEW t \in Readers, rtc_read(t) \/ see_flag(t) \/ clear_flag(t)
        PROVE  TypeInv'
    BY <1>0, <1>7 DEF rtc_read, see_flag, clear_flag, reset_flag, TypeOK, WorkPart, Booted,
                      Interruptible
  <1>8. CASE tick
    BY <1>8, ServiceFields DEF tick, TypeOK, WorkPart, Booted, Interruptible, Devices
  <1>9. CASE rtc_int
    BY <1>9, ServiceFields DEF rtc_int, read_register_c, TypeOK, WorkPart, Booted, Interruptible,
                               Devices
  <1>10. ASSUME NEW n \in {PIT_IRQ, KBRD_IRQ}, raise(n) \/ other_int(n)
         PROVE  TypeInv'
    BY SMTT(60), <1>10, ServiceFields DEF raise, other_int, TypeOK, WorkPart, Booted, Interruptible, Devices
  <1>11. CASE UNCHANGED vars
    BY <1>11 DEF vars, TypeOK, WorkPart, Booted, Interruptible
  <1> QED
    BY <1>1, <1>2, <1>3, <1>4, <1>5, <1>6, <1>7, <1>8, <1>9, <1>10, <1>11
       DEF Next, Thread, Reader

\* The types of rtc.c and i8259.c: in particular change_rate always computes rate
\* bits that fit their field.
THEOREM RtcTypes == Spec => []TypeOK
  BY InitTypeInv, NextTypeInv, PTL DEF Spec, TypeInv

\* Programs write no number beyond a byte whose first byte is a rate.
ExactValues == \A v \in Values : accepted(byte(v)) => v = byte(v)

\* Only change_rate touches the rate, with the number of the boot or of a write.
LEMMA NextRate ==
  ASSUME ExactValues, TypeInv, RateAsAsked, [Next]_vars
  PROVE  RateAsAsked'
  <1>0. Kernel \in Threads /\ \A t \in Writers : t \in Threads
    BY DEF Threads
  <1>1. CASE initialize_rtc
    <2>1. INITIAL_FREQ \in Nat /\ accepted(INITIAL_FREQ)
      <3>1. INITIAL_FREQ = 2^5
        BY DEF INITIAL_FREQ
      <3> QED
        BY <3>1 DEF accepted, INITIAL_FREQ, DEFAULT_FREQ, FREQ_UPPER_BOUND
    <2>2. change_rate(Kernel, INITIAL_FREQ, boot_rest) /\ asked' = INITIAL_FREQ
      BY <1>1 DEF initialize_rtc
    <2> QED
      BY <1>0, <2>1, <2>2, ChangeRateTypes DEF RateAsAsked
  <1>2. ASSUME NEW t \in Writers, NEW v \in Values, rtc_write(t, v)
        PROVE  RateAsAsked'
    <2>1. byte(v) \in Nat /\ accepted(byte(v)) /\ asked' = byte(v)
      BY <1>2, RtcAssumption DEF byte, rtc_write, ExactValues
    <2>2. change_rate(t, byte(v), <<Enable(RTC_IRQ)>>)
      BY <1>2 DEF rtc_write
    <2> QED
      BY <1>0, <2>1, <2>2, ChangeRateTypes DEF RateAsAsked
  <1>3. CASE UNCHANGED <<rate, asked>>
    BY <1>3 DEF RateAsAsked
  <1>4. ASSUME NEW t \in Threads, Thread(t) PROVE UNCHANGED <<rate, asked>>
    BY <1>4 DEF Thread, store_mask, load_mask, write_mask, leave
  <1>5. ASSUME NEW t \in Readers, rtc_read(t) \/ Reader(t) PROVE UNCHANGED <<rate, asked>>
    BY <1>5 DEF rtc_read, Reader, see_flag, clear_flag
  <1>6. ASSUME tick \/ rtc_int \/ UNCHANGED vars PROVE UNCHANGED <<rate, asked>>
    BY <1>6 DEF tick, rtc_int, vars
  <1>7. ASSUME NEW n \in {PIT_IRQ, KBRD_IRQ}, raise(n) \/ other_int(n)
        PROVE  UNCHANGED <<rate, asked>>
    BY <1>7 DEF raise, other_int
  <1> QED
    BY <1>1, <1>2, <1>3, <1>4, <1>5, <1>6, <1>7 DEF Next

\* If no number that programs write is cut down to a rate by the one byte that
\* rtc_write reads, the RTC runs at the frequency last written with success: the
\* count of shifts in change_rate is right for every rate it is called with.
THEOREM RateCorrect ==
  ASSUME ExactValues
  PROVE  Spec => []RateAsAsked
  BY InitTypeInv, NextTypeInv, NextRate, PTL DEF Spec

-----------------------------------------------------------------------------
(* Ticks, for one reader.                                                  *)

\* At most one program reads the RTC.
LoneReader == \A r, q \in Readers : r = q

\* If only one program reads the RTC, each of its reads needs a tick of its own:
\* rtc_read resets readFlag before it returns.
THEOREM TicksCorrect ==
  ASSUME LoneReader
  PROVE  Spec => []TickPerRead
  <1>1. Init => TickPart
    BY RtcAssumption DEF Init, TickPart, Threads
  <1>2. ASSUME TypeInv, TickPart, [Next]_vars PROVE TickPart'
    <2> USE DEF TickPart
    <2>0. \A r \in Readers : r \in Threads /\ r # Kernel
      BY RtcAssumption DEF Threads
    <2>1. CASE initialize_rtc
      BY <1>2, <2>0, <2>1 DEF initialize_rtc, TypeInv, TypeOK
    <2>2. CASE \E t \in Threads : Thread(t)
      BY <1>2, <2>2 DEF Thread, store_mask, load_mask, write_mask, leave
    <2>3. CASE \E t \in Writers, v \in Values : rtc_write(t, v)
      BY <1>2, <2>3 DEF rtc_write
    <2>4. ASSUME NEW t \in Readers, rtc_read(t) \/ see_flag(t) PROVE TickPart'
      BY <1>2, <2>0, <2>4 DEF rtc_read, see_flag, TypeInv, TypeOK
    <2>5. ASSUME NEW t \in Readers, clear_flag(t) PROVE TickPart'
      <3>1. \A r \in Readers : r = t
        BY DEF LoneReader
      <3>2. readFlag' = 0 /\ pc'[t] = "user"
        BY <1>2, <2>0, <2>5 DEF clear_flag, reset_flag, TypeInv, TypeOK
      <3> QED
        BY <3>1, <3>2
    <2>6. CASE tick \/ rtc_int \/ \E n \in {PIT_IRQ, KBRD_IRQ} : raise(n) \/ other_int(n)
      BY <1>2, <2>6 DEF tick, rtc_int, raise, other_int
    <2>7. CASE UNCHANGED vars
      BY <1>2, <2>7 DEF vars
    <2> QED
      BY <1>2, <2>1, <2>2, <2>3, <2>4, <2>5, <2>6, <2>7 DEF Next, Reader
  <1>3. TickPart => TickPerRead
    BY DEF TickPart, TickPerRead
  <1> QED
    BY <1>1, <1>2, <1>3, InitTypeInv, NextTypeInv, PTL DEF Spec

-----------------------------------------------------------------------------
(* Masks, for one writer.                                                  *)

\* At most one program changes its rate.
LoneWriter == \A v, w \in Writers : v = w

\* At most one thread has mask changes to make.
LEMMA OneWorker ==
  ASSUME TypeInv, LoneWriter, NEW s \in Threads, NEW t \in Threads,
         todo[s] # <<>>, todo[t] # <<>>
  PROVE  s = t /\ pc[Kernel] = "on"
  BY DEF TypeInv, WorkPart, Booted, Interruptible, LoneWriter

\* Steps that are not about masks.
LEMMA MaskFrame ==
  ASSUME MaskPart, pic'.mask = pic.mask, pic'.imr = pic.imr,
         UNCHANGED <<todo, phase, al>>, pc'[Kernel] = pc[Kernel]
  PROVE  MaskPart'
  <1>1. Working' = Working
    BY DEF Working
  <1>2. \A c \in Chips : OpenLines(c)' = OpenLines(c)
    BY <1>1 DEF OpenLines
  <1>3. \A op : chip(op[2]) \in Chips => Changed(op)' = Changed(op)
    BY <1>2 DEF Changed
  <1> QED
    BY <1>1, <1>2, <1>3 DEF MaskPart, Busy

\* The masks i8259_init leaves.
LEMMA InitMask == Init => MaskPart
  <1> SUFFICES ASSUME Init PROVE MaskPart
    OBVIOUS
  <1>1. \A t \in Threads : todo[t] = <<>>
    BY DEF Init
  <1>2. pc[Kernel] = "boot"
    BY DEF Init, Threads
  <1>3. OpenLines("slave") = {} /\ OpenLines("master") = {ICW3_SLAVE}
    BY <1>2 DEF OpenLines, OpenFor, ICW3_SLAVE
  <1> QED
    BY <1>1, <1>2, <1>3, InitFields DEF Init, MaskPart, Busy, Chips

\* What a thread finds before it starts a mask change.
LEMMA BeforeStore ==
  ASSUME TypeInv, LoneWriter, MaskPart, NEW t \in Threads, todo[t] # <<>>, phase[t] = "store",
         NEW c \in Chips
  PROVE  pic.mask[c] = Lines \ OpenLines(c) /\ pic.imr[c] = pic.mask[c]
  <1>1. \A s \in Threads : ~ Busy(s, c)
    BY OneWorker DEF Busy
  <1>2. pc[Kernel] = "on"
    BY OneWorker
  <1> QED
    BY <1>1, <1>2 DEF MaskPart

\* The store of enable_irq or disable_irq.
LEMMA StoreMaskPart ==
  ASSUME TypeInv, LoneWriter, MaskPart, NEW t \in Threads, store_mask(t)
  PROVE  MaskPart'
  <1> DEFINE op == Head(todo[t])
             n  == op[2]
             k  == chip(n)
  <1>1. todo[t] # <<>> /\ phase[t] = "store" /\ phase' = [phase EXCEPT ![t] = "load"]
        /\ UNCHANGED <<todo, pc, al>>
    BY DEF store_mask
  <1>2. n \in Devices /\ k \in Chips /\ line(n) \in Lines
    BY <1>1, WorkSteps, DeviceTypes DEF TypeInv, WorkPart
  <1>3. \A c \in Chips : OpenLines(c)' = OpenLines(c)
    BY <1>1 DEF OpenLines, Working
  <1>4. Changed(op)' = Changed(op)
    BY <1>1, <1>2, <1>3 DEF Changed
  <1>5. \A c \in Chips : pic.mask[c] = Lines \ OpenLines(c) /\ pic.imr[c] = pic.mask[c]
    BY <1>1, BeforeStore
  <1>6. /\ pic.mask \in [Chips -> SUBSET Lines] /\ pic'.imr = pic.imr
        /\ pic'.mask = [pic.mask EXCEPT ![k] = IF op[1] = "enable" THEN @ \ {line(n)}
                                               ELSE @ \cup {line(n)}]
    <2>1. pic' = IF op[1] = "enable" THEN unmask(pic, n) ELSE mask_off(pic, n)
      BY DEF store_mask
    <2>2. pic \in Pics
      BY DEF TypeInv, TypeOK
    <2>3. pic.mask \in [Chips -> SUBSET Lines]
      BY <2>2 DEF Pics
    <2>4. /\ unmask(pic, n).imr = pic.imr /\ mask_off(pic, n).imr = pic.imr
          /\ unmask(pic, n).mask = [pic.mask EXCEPT ![k] = @ \ {line(n)}]
          /\ mask_off(pic, n).mask = [pic.mask EXCEPT ![k] = @ \cup {line(n)}]
      BY SMTT(60), <1>2, <2>2, StoreFields
    <2> HIDE DEF op, n, k
    <2> QED
      BY <2>1, <2>3, <2>4
  <1>7. pic'.mask[k] = Lines \ Changed(op) /\ \A d \in Chips \ {k} : pic'.mask[d] = pic.mask[d]
    <2>1. Changed(op) = IF op[1] = "enable" THEN OpenLines(k) \cup {line(n)}
                        ELSE OpenLines(k) \ {line(n)}
      BY DEF Changed
    <2> HIDE DEF op, n, k
    <2> QED
      BY <1>2, <1>5, <1>6, <2>1
  <1>8. \A s \in Threads, c \in Chips : Busy(s, c)' => s = t /\ c = k
    BY <1>1, OneWorker DEF Busy
  <1>9. \A c \in Chips : c = k => Busy(t, c)'
    BY <1>1 DEF Busy, TypeInv, TypeOK
  <1>10. phase'[t] = "load"
    BY <1>1 DEF TypeInv, TypeOK
  <1>11. ASSUME NEW c \in Chips, \A s \in Threads : ~ Busy(s, c)'
         PROVE  pic'.mask[c] = Lines \ OpenLines(c)' /\ pic'.imr[c] = pic'.mask[c]
    <2>1. c # k
      BY <1>9, <1>11
    <2> HIDE DEF k
    <2> QED
      BY <1>3, <1>5, <1>6, <1>7, <2>1
  <1>12. ASSUME NEW s \in Threads, NEW c \in Chips, Busy(s, c)'
         PROVE  /\ pic'.mask[c] = Lines \ Changed(Head(todo[s]))'
                /\ phase'[s] = "load"
                /\ \A d \in Chips \ {c} : pic'.mask[d] = Lines \ OpenLines(d)'
                                          /\ pic'.imr[d] = pic'.mask[d]
    <2>1. s = t /\ c = k
      BY <1>8, <1>12
    <2>2. Changed(Head(todo[s]))' = Changed(op)
      BY <1>4, <2>1
    <2> HIDE DEF k
    <2> QED
      BY <1>3, <1>5, <1>6, <1>7, <1>10, <2>1, <2>2
  <1> QED
    BY <1>11, <1>12 DEF MaskPart

\* The load and the output of the mask.
LEMMA LoadMaskPart ==
  ASSUME TypeInv, LoneWriter, MaskPart, NEW t \in Threads, load_mask(t)
  PROVE  MaskPart'
  <1>1. todo[t] # <<>> /\ phase[t] = "load" /\ phase' = [phase EXCEPT ![t] = "out"]
        /\ UNCHANGED <<todo, pc, pic>>
    BY DEF load_mask, TypeInv, WorkPart
  <1>2. \A s \in Threads, c \in Chips : Busy(s, c)' <=> Busy(s, c)
    BY <1>1 DEF Busy, TypeInv, TypeOK
  <1>3. (\A c \in Chips : OpenLines(c)' = OpenLines(c))
        /\ \A op : Changed(op)' = Changed(op)
    BY <1>1 DEF OpenLines, Working, Changed
  <1>4. \A s \in Threads, c \in Chips : Busy(s, c) => s = t /\ c = chip(Head(todo[t])[2])
    BY <1>1, OneWorker DEF Busy
  <1>5. phase'[t] = "out" /\ al'[t] = pic.mask[chip(Head(todo[t])[2])]
    BY <1>1 DEF load_mask, TypeInv, TypeOK
  <1> QED
    BY <1>1, <1>2, <1>3, <1>4, <1>5 DEF MaskPart

\* The output of the loaded mask brings the chip up to date with memory.
LEMMA WriteMaskPart ==
  ASSUME TypeInv, LoneWriter, MaskPart, NEW t \in Threads, write_mask(t)
  PROVE  MaskPart'
  <1> DEFINE n == Head(todo[t])[2]
             k == chip(n)
  <1>1. todo[t] # <<>> /\ phase[t] = "out" /\ phase' = [phase EXCEPT ![t] = "return"]
        /\ UNCHANGED <<todo, pc>>
    BY DEF write_mask, TypeInv, WorkPart
  <1>2. n \in Devices /\ k \in Chips
    BY <1>1, WorkSteps, DeviceTypes DEF TypeInv, WorkPart
  <1>3. \A s \in Threads, c \in Chips : Busy(s, c)' <=> Busy(s, c)
    BY <1>1 DEF Busy, TypeInv, TypeOK
  <1>4. (\A c \in Chips : OpenLines(c)' = OpenLines(c))
        /\ \A op : Changed(op)' = Changed(op)
    BY <1>1 DEF OpenLines, Working, Changed
  <1>5. \A s \in Threads, c \in Chips : Busy(s, c) => s = t /\ c = k
    BY <1>1, OneWorker DEF Busy
  <1>6. Busy(t, k)
    BY <1>1 DEF Busy
  <1>7. pic'.mask = pic.mask /\ pic'.imr = [pic.imr EXCEPT ![k] = al[t]]
        /\ pic.imr \in [Chips -> SUBSET Lines]
    <2>1. pic \in Pics /\ al[t] \in SUBSET Lines /\ pic' = out_mask(pic, n, al[t])
      BY DEF TypeInv, TypeOK, write_mask
    <2>2. pic.imr \in [Chips -> SUBSET Lines]
      BY <2>1 DEF Pics
    <2> HIDE DEF n, k
    <2> QED
      BY <1>2, <2>1, <2>2, OutFields DEF k
  <1>8. phase'[t] = "return" /\ al[t] = pic.mask[k]
    BY <1>1, <1>2, <1>6 DEF MaskPart, TypeInv, TypeOK
  <1>9. ASSUME NEW s \in Threads, NEW c \in Chips, Busy(s, c)'
        PROVE  /\ pic'.mask[c] = Lines \ Changed(Head(todo[s]))'
               /\ phase'[s] = "return" /\ pic'.imr[c] = pic'.mask[c]
               /\ \A d \in Chips \ {c} : pic'.mask[d] = Lines \ OpenLines(d)'
                                         /\ pic'.imr[d] = pic'.mask[d]
    <2>1. s = t /\ c = k /\ Busy(t, k)
      BY <1>3, <1>5, <1>9
    <2>2. pic.mask[c] = Lines \ Changed(Head(todo[s]))
          /\ \A d \in Chips \ {c} : pic.mask[d] = Lines \ OpenLines(d)
                                    /\ pic.imr[d] = pic.mask[d]
      BY <2>1 DEF MaskPart
    <2> HIDE DEF n, k
    <2> QED
      BY <1>1, <1>2, <1>4, <1>7, <1>8, <2>1, <2>2
  <1>10. ASSUME NEW c \in Chips, \A s \in Threads : ~ Busy(s, c)'
         PROVE  pic'.mask[c] = Lines \ OpenLines(c)' /\ pic'.imr[c] = pic'.mask[c]
    <2>1. c # k
      BY <1>3, <1>6, <1>10
    <2>2. pic.mask[c] = Lines \ OpenLines(c) /\ pic.imr[c] = pic.mask[c]
      BY <1>2, <1>6, <2>1 DEF MaskPart
    <2> HIDE DEF n, k
    <2> QED
      BY <1>2, <1>4, <1>7, <2>1, <2>2
  <1> QED
    BY <1>9, <1>10 DEF MaskPart

\* The lines that are open at each point of the boot.
LEMMA OpenTable ==
  /\ \A n \in 0 .. 5 : \A W : OpenFor("slave", "on", n, W) = IF n = 5 \/ W # {} THEN {} ELSE {0}
  /\ \A W : /\ OpenFor("master", "on", 0, W) = {0, 1, 2}
          /\ OpenFor("master", "on", 1, W) = {0, 2}
          /\ \A n \in 2 .. 5 : OpenFor("master", "on", n, W) = {2}
  BY DEF OpenFor

\* When a thread leaves, the lines that should be open are those its change opened.
LEMMA LeaveOpens ==
  ASSUME TypeInv, LoneWriter, NEW t \in Threads, leave(t), NEW c \in Chips
  PROVE  OpenLines(c)' = IF c = chip(Head(todo[t])[2]) THEN Changed(Head(todo[t]))
                         ELSE OpenLines(c)
  <1>1. todo[t] # <<>> /\ UNCHANGED <<pc, pic>> /\ todo' = [todo EXCEPT ![t] = Tail(@)]
        /\ pc[Kernel] = "on"
    BY OneWorker DEF leave, TypeInv, WorkPart
  <1>2. /\ OpenLines("slave") = OpenFor("slave", "on", Len(todo[Kernel]), Working)
        /\ OpenLines("master") = OpenFor("master", "on", Len(todo[Kernel]), Working)
        /\ OpenLines("slave")' = OpenFor("slave", "on", Len(todo'[Kernel]), Working')
        /\ OpenLines("master")' = OpenFor("master", "on", Len(todo'[Kernel]), Working')
    BY <1>1 DEF OpenLines
  <1> DEFINE left1 == Len(todo'[Kernel])
             W1    == Working'
  <1>3. CASE t = Kernel
    <2>1. Working = {} /\ Working' = {} /\ todo'[Kernel] = Tail(todo[Kernel])
      BY <1>1, <1>3, RtcAssumption DEF TypeInv, WorkPart, Booted, Threads, Working
    <2>2. CASE todo[t] = <<Enable(KBRD_IRQ)>>
      <3>1. /\ Head(todo[t]) = Enable(KBRD_IRQ)
            /\ Len(todo[Kernel]) = 1 /\ Len(todo'[Kernel]) = 0
        BY <1>3, <2>1, <2>2
      <3>9. left1 = 0
        BY <3>1
      <3>2. /\ Head(todo[t])[1] = "enable" /\ chip(Head(todo[t])[2]) = "master"
            /\ line(Head(todo[t])[2]) = 1
        BY <3>1, DeviceLines DEF Enable, Disable
      <3>3. OpenLines("slave") = {0} /\ OpenLines("master") = {0, 2}
        BY <1>2, <2>1, <3>1, OpenTable
      <3>4. OpenLines("slave")' = {0} /\ OpenLines("master")' = {0, 1, 2}
        <4>1. left1 \in 0 .. 5 /\ W1 = {}
          BY <2>1, <3>1
        <4>2. OpenFor("slave", "on", left1, W1) = {0} /\ OpenFor("master", "on", left1, W1) = {0, 1, 2}
          <5> HIDE DEF left1, W1
          <5> QED
            BY <4>1, <3>9, OpenTable
        <4> QED
          BY <1>2, <4>2
      <3>5. Changed(Head(todo[t])) = {0, 1, 2}
        BY <3>2, <3>3 DEF Changed
      <3> QED
        BY <3>2, <3>3, <3>4, <3>5 DEF Chips
    <2>3. CASE todo[t] = <<Enable(PIT_IRQ), Enable(KBRD_IRQ)>>
      <3>1. /\ Head(todo[t]) = Enable(PIT_IRQ)
            /\ Len(todo[Kernel]) = 2 /\ Len(todo'[Kernel]) = 1
        BY <1>3, <2>1, <2>3
      <3>9. left1 = 1
        BY <3>1
      <3>2. /\ Head(todo[t])[1] = "enable" /\ chip(Head(todo[t])[2]) = "master"
            /\ line(Head(todo[t])[2]) = 0
        BY <3>1, DeviceLines DEF Enable, Disable
      <3>3. OpenLines("slave") = {0} /\ OpenLines("master") = {2}
        BY <1>2, <2>1, <3>1, OpenTable
      <3>4. OpenLines("slave")' = {0} /\ OpenLines("master")' = {0, 2}
        <4>1. left1 \in 0 .. 5 /\ W1 = {}
          BY <2>1, <3>1
        <4>2. OpenFor("slave", "on", left1, W1) = {0} /\ OpenFor("master", "on", left1, W1) = {0, 2}
          <5> HIDE DEF left1, W1
          <5> QED
            BY <4>1, <3>9, OpenTable
        <4> QED
          BY <1>2, <4>2
      <3>5. Changed(Head(todo[t])) = {0, 2}
        BY <3>2, <3>3 DEF Changed
      <3> QED
        BY <3>2, <3>3, <3>4, <3>5 DEF Chips
    <2>4. CASE todo[t] = <<Disable(PIT_IRQ), Enable(PIT_IRQ), Enable(KBRD_IRQ)>>
      <3>1. /\ Head(todo[t]) = Disable(PIT_IRQ)
            /\ Len(todo[Kernel]) = 3 /\ Len(todo'[Kernel]) = 2
        BY <1>3, <2>1, <2>4
      <3>9. left1 = 2
        BY <3>1
      <3>2. /\ Head(todo[t])[1] = "disable" /\ chip(Head(todo[t])[2]) = "master"
            /\ line(Head(todo[t])[2]) = 0
        BY <3>1, DeviceLines DEF Enable, Disable
      <3>3. OpenLines("slave") = {0} /\ OpenLines("master") = {2}
        BY <1>2, <2>1, <3>1, OpenTable
      <3>4. OpenLines("slave")' = {0} /\ OpenLines("master")' = {2}
        <4>1. left1 \in 0 .. 5 /\ W1 = {}
          BY <2>1, <3>1
        <4>2. OpenFor("slave", "on", left1, W1) = {0} /\ OpenFor("master", "on", left1, W1) = {2}
          <5> HIDE DEF left1, W1
          <5> QED
            BY <4>1, <3>9, OpenTable
        <4> QED
          BY <1>2, <4>2
      <3>5. Changed(Head(todo[t])) = {2}
        BY <3>2, <3>3 DEF Changed
      <3> QED
        BY <3>2, <3>3, <3>4, <3>5 DEF Chips
    <2>5. CASE todo[t] = <<Enable(RTC_IRQ), Disable(PIT_IRQ), Enable(PIT_IRQ),
                        Enable(KBRD_IRQ)>>
      <3>1. /\ Head(todo[t]) = Enable(RTC_IRQ)
            /\ Len(todo[Kernel]) = 4 /\ Len(todo'[Kernel]) = 3
        BY <1>3, <2>1, <2>5
      <3>9. left1 = 3
        BY <3>1
      <3>2. /\ Head(todo[t])[1] = "enable" /\ chip(Head(todo[t])[2]) = "slave"
            /\ line(Head(todo[t])[2]) = 0
        BY <3>1, DeviceLines DEF Enable, Disable
      <3>3. OpenLines("slave") = {0} /\ OpenLines("master") = {2}
        BY <1>2, <2>1, <3>1, OpenTable
      <3>4. OpenLines("slave")' = {0} /\ OpenLines("master")' = {2}
        <4>1. left1 \in 0 .. 5 /\ W1 = {}
          BY <2>1, <3>1
        <4>2. OpenFor("slave", "on", left1, W1) = {0} /\ OpenFor("master", "on", left1, W1) = {2}
          <5> HIDE DEF left1, W1
          <5> QED
            BY <4>1, <3>9, OpenTable
        <4> QED
          BY <1>2, <4>2
      <3>5. Changed(Head(todo[t])) = {0}
        BY <3>2, <3>3 DEF Changed
      <3> QED
        BY <3>2, <3>3, <3>4, <3>5 DEF Chips
    <2>6. CASE todo[t] = <<Enable(RTC_IRQ), Enable(RTC_IRQ), Disable(PIT_IRQ),
                        Enable(PIT_IRQ), Enable(KBRD_IRQ)>>
      <3>1. /\ Head(todo[t]) = Enable(RTC_IRQ)
            /\ Len(todo[Kernel]) = 5 /\ Len(todo'[Kernel]) = 4
        BY <1>3, <2>1, <2>6
      <3>9. left1 = 4
        BY <3>1
      <3>2. /\ Head(todo[t])[1] = "enable" /\ chip(Head(todo[t])[2]) = "slave"
            /\ line(Head(todo[t])[2]) = 0
        BY <3>1, DeviceLines DEF Enable, Disable
      <3>3. OpenLines("slave") = {} /\ OpenLines("master") = {2}
        BY <1>2, <2>1, <3>1, OpenTable
      <3>4. OpenLines("slave")' = {0} /\ OpenLines("master")' = {2}
        <4>1. left1 \in 0 .. 5 /\ W1 = {}
          BY <2>1, <3>1
        <4>2. OpenFor("slave", "on", left1, W1) = {0} /\ OpenFor("master", "on", left1, W1) = {2}
          <5> HIDE DEF left1, W1
          <5> QED
            BY <4>1, <3>9, OpenTable
        <4> QED
          BY <1>2, <4>2
      <3>5. Changed(Head(todo[t])) = {0}
        BY <3>2, <3>3 DEF Changed
      <3> QED
        BY <3>2, <3>3, <3>4, <3>5 DEF Chips
    <2> QED
      BY <1>1, <1>3, <2>2, <2>3, <2>4, <2>5, <2>6 DEF TypeInv, WorkPart, KernelWork
  <1>4. CASE t # Kernel
    <2>1. t \in Writers /\ todo[t] = <<Enable(RTC_IRQ)>> /\ todo[Kernel] = <<>>
      BY <1>1, <1>4 DEF TypeInv, WorkPart, Booted
    <2>2. todo'[t] = <<>> /\ todo'[Kernel] = <<>> /\ \A w \in Writers : w = t
      BY <1>1, <1>4, <2>1, RtcAssumption DEF TypeInv, WorkPart, LoneWriter, Threads
    <2>3. /\ Head(todo[t]) = Enable(RTC_IRQ) /\ Working # {} /\ Working' = {}
          /\ Len(todo[Kernel]) = 0 /\ Len(todo'[Kernel]) = 0
      BY <2>1, <2>2, RtcAssumption DEF Working
    <2>4. Head(todo[t])[1] = "enable" /\ chip(Head(todo[t])[2]) = "slave"
          /\ line(Head(todo[t])[2]) = 0
      BY <2>3, DeviceLines DEF Enable
    <2>5. OpenLines("slave") = {} /\ OpenLines("master") = {0, 1, 2}
      BY <1>2, <2>3, OpenTable
    <2>6. OpenLines("slave")' = {0} /\ OpenLines("master")' = {0, 1, 2}
      BY <1>2, <2>3, OpenTable
    <2>7. Changed(Head(todo[t])) = {0}
      BY <2>4, <2>5 DEF Changed
    <2> QED
      BY <2>4, <2>5, <2>6, <2>7 DEF Chips
  <1> QED
    BY <1>3, <1>4

\* The return of enable_irq or disable_irq.
LEMMA LeaveMaskPart ==
  ASSUME TypeInv, LoneWriter, MaskPart, NEW t \in Threads, leave(t)
  PROVE  MaskPart'
  <1> DEFINE k == chip(Head(todo[t])[2])
  <1>1. todo[t] # <<>> /\ phase[t] = "return" /\ phase' = [phase EXCEPT ![t] = "store"]
        /\ UNCHANGED <<pc, pic, al>> /\ todo' = [todo EXCEPT ![t] = Tail(@)]
    BY DEF leave, TypeInv, WorkPart
  <1>2. k \in Chips
    BY <1>1, WorkSteps, DeviceTypes DEF TypeInv, WorkPart
  <1>3. Busy(t, k)
    BY <1>1 DEF Busy
  <1>4. \A c \in Chips : pic.imr[c] = pic.mask[c]
           /\ pic.mask[c] = Lines \ (IF c = k THEN Changed(Head(todo[t])) ELSE OpenLines(c))
    BY <1>1, <1>2, <1>3 DEF MaskPart
  <1>5. \A c \in Chips : pic'.imr[c] = pic'.mask[c] /\ pic'.mask[c] = Lines \ OpenLines(c)'
    BY <1>1, <1>4, LeaveOpens
  <1>6. \A s \in Threads, c \in Chips : ~ Busy(s, c)'
    BY <1>1, OneWorker DEF Busy, TypeInv, TypeOK, WorkPart
  <1> QED
    BY <1>5, <1>6 DEF MaskPart

\* change_rate, in the boot and in rtc_write: nobody else changes a mask, and the
\* RTC is masked in memory and in the chip.
LEMMA ChangeRateMaskPart ==
  ASSUME TypeInv, MaskPart, NEW t \in Threads, NEW r, NEW rest, change_rate(t, r, rest),
         \A s \in Threads : todo[s] = <<>>, UNCHANGED phase, pc'[Kernel] = "on",
         OpenLines("slave")' = {}, OpenLines("master")' = OpenLines("master")
  PROVE  MaskPart'
  <1>1. \A s \in Threads : phase[s] = "store"
    BY DEF TypeInv, WorkPart
  <1>2. \A s \in Threads, c \in Chips : ~ Busy(s, c) /\ ~ Busy(s, c)'
    BY <1>1 DEF Busy
  <1>3. pic.mask["master"] = Lines \ OpenLines("master")
        /\ pic.imr["master"] = pic.mask["master"]
        /\ pic.mask["slave"] = Lines \ OpenLines("slave")
    BY <1>2 DEF MaskPart, Chips
  <1>4. /\ pic.mask \in [Chips -> SUBSET Lines] /\ pic.imr \in [Chips -> SUBSET Lines]
        /\ pic'.mask = [pic.mask EXCEPT !["slave"] = @ \cup {0}]
        /\ pic'.imr = [pic.imr EXCEPT !["slave"] = pic.mask["slave"] \cup {0}]
    <2>1. pic \in Pics /\ RTC_IRQ \in Devices /\ pic' = disable_irq(pic, RTC_IRQ)
      BY DEF TypeInv, TypeOK, change_rate, Devices
    <2>2. pic.mask \in [Chips -> SUBSET Lines] /\ pic.imr \in [Chips -> SUBSET Lines]
      BY <2>1 DEF Pics
    <2> QED
      BY ZenonT(60), <2>1, <2>2, DisableFields, DeviceLines
  <1>5. OpenLines("slave") \subseteq {0} /\ 0 \in Lines
    BY DEF OpenLines, OpenFor, Lines
  <1> QED
    BY <1>2, <1>3, <1>4, <1>5 DEF MaskPart, Chips

\* Every step keeps the masks in order.
LEMMA NextMask ==
  ASSUME TypeInv, LoneWriter, MaskPart, [Next]_vars
  PROVE  MaskPart'
  <1>0. Kernel \in Threads /\ RTC_IRQ \in Devices /\ pic \in Pics
    BY DEF Threads, Devices, TypeInv, TypeOK
  <1>1. CASE initialize_rtc
    <2>1. pc[Kernel] = "boot" /\ pc'[Kernel] = "on" /\ UNCHANGED phase
      BY <1>0, <1>1 DEF initialize_rtc, TypeInv, TypeOK
    <2>2. \A s \in Threads : todo[s] = <<>>
      BY <1>0, <2>1 DEF TypeInv, WorkPart, Booted, Interruptible
    <2>3. change_rate(Kernel, INITIAL_FREQ, boot_rest) /\ todo'[Kernel] = boot_rest
      BY <1>0, <1>1 DEF initialize_rtc, change_rate, TypeInv, WorkPart
    <2>4. Len(todo'[Kernel]) = 5
      BY <2>3 DEF boot_rest
    <2>5. OpenLines("slave")' = {} /\ OpenLines("master")' = {2} /\ OpenLines("master") = {2}
      BY <2>1, <2>4 DEF OpenLines, OpenFor
    <2> QED
      BY <1>0, <2>1, <2>2, <2>3, <2>5, ChangeRateMaskPart
  <1>2. ASSUME NEW t \in Threads, Thread(t) PROVE MaskPart'
    BY <1>2, StoreMaskPart, LoadMaskPart, WriteMaskPart, LeaveMaskPart DEF Thread
  <1>3. ASSUME NEW t \in Writers, NEW v \in Values, rtc_write(t, v) PROVE MaskPart'
    <2>1. t \in Threads /\ t # Kernel /\ \A w \in Writers : w = t
      BY RtcAssumption DEF Threads, LoneWriter
    <2>2. pc[Kernel] = "on" /\ pc'[Kernel] = "on" /\ todo[Kernel] = <<>> /\ todo[t] = <<>>
          /\ UNCHANGED phase /\ change_rate(t, byte(v), <<Enable(RTC_IRQ)>>)
      BY <1>3 DEF rtc_write, Booted, Interruptible
    <2>3. \A s \in Threads : todo[s] = <<>>
      BY <2>1, <2>2 DEF TypeInv, WorkPart
    <2>4. todo'[Kernel] = <<>> /\ todo'[t] # <<>>
      BY <1>0, <2>1, <2>2 DEF change_rate, TypeInv, WorkPart
    <2>5. Len(todo[Kernel]) = 0 /\ Len(todo'[Kernel]) = 0 /\ Working' # {}
      BY <2>2, <2>4 DEF Working
    <2>6. OpenLines("slave")' = {} /\ OpenLines("master")' = OpenLines("master")
      BY <2>2, <2>5 DEF OpenLines, OpenFor
    <2> QED
      BY <2>1, <2>2, <2>3, <2>6, ChangeRateMaskPart
  <1>4. ASSUME NEW t \in Readers, rtc_read(t) \/ Reader(t) PROVE MaskPart'
    <2>1. t # Kernel
      BY RtcAssumption
    <2> QED
      BY <1>0, <1>4, <2>1, MaskFrame DEF rtc_read, Reader, see_flag, clear_flag, TypeInv, TypeOK
  <1>5. CASE tick
    BY <1>0, <1>5, MaskFrame, ServiceFields DEF tick
  <1>6. CASE rtc_int
    BY <1>0, <1>6, MaskFrame, ServiceFields DEF rtc_int
  <1>7. ASSUME NEW n \in {PIT_IRQ, KBRD_IRQ}, raise(n) \/ other_int(n) PROVE MaskPart'
    <2>1. n \in Devices
      BY DEF Devices
    <2>2. UNCHANGED <<todo, phase, al>> /\ pc'[Kernel] = pc[Kernel]
      BY <1>7 DEF raise, other_int
    <2>3. pic' = request(pic, n) \/ pic' = send_eoi(acknowledge(pic, n), n)
      BY <1>7 DEF raise, other_int
    <2>4. pic'.mask = pic.mask /\ pic'.imr = pic.imr
      <3>1. pic \in Pics
        BY <1>0
      <3>2. /\ request(pic, n).mask = pic.mask /\ request(pic, n).imr = pic.imr
            /\ send_eoi(acknowledge(pic, n), n).mask = pic.mask
            /\ send_eoi(acknowledge(pic, n), n).imr = pic.imr
        BY ONLY <2>1, <3>1, ServiceFields, ZenonT(60)
      <3> QED
        BY ONLY <2>3, <3>2, ZenonT(60)
    <2> QED
      BY <2>2, <2>4, MaskFrame
  <1>8. CASE UNCHANGED vars
    BY <1>8, MaskFrame DEF vars
  <1> QED
    BY <1>1, <1>2, <1>3, <1>4, <1>5, <1>6, <1>7, <1>8 DEF Next

\* If only one program writes to the RTC, every mask change of the kernel is complete
\* when its code is: the chips have the masks of i8259.c and the three devices are open.
THEOREM MasksRestored ==
  ASSUME LoneWriter
  PROVE  Spec => []MaskRestored
  <1>1. ASSUME TypeInv, MaskPart PROVE MaskRestored
    <2> SUFFICES ASSUME Booted, \A t \in Threads : todo[t] = <<>>
                 PROVE  /\ pic.imr = pic.mask
                        /\ pic.mask["master"] = Lines \ {PIT_IRQ, KBRD_IRQ, ICW3_SLAVE}
                        /\ pic.mask["slave"] = Lines \ {line(RTC_IRQ)}
      BY DEF MaskRestored
    <2>1. \A t \in Threads, c \in Chips : ~ Busy(t, c)
      BY DEF Busy
    <2>2. pc[Kernel] = "on" /\ Len(todo[Kernel]) = 0 /\ Working = {}
      BY RtcAssumption DEF Booted, Interruptible, Working, Threads
    <2>3. OpenLines("slave") = {0} /\ OpenLines("master") = {0, 1, 2}
      BY <2>2 DEF OpenLines, OpenFor
    <2>4. \A c \in Chips : pic.mask[c] = Lines \ OpenLines(c) /\ pic.imr[c] = pic.mask[c]
      BY <1>1, <2>1, <2>2 DEF MaskPart
    <2>5. pic.mask \in [Chips -> SUBSET Lines] /\ pic.imr \in [Chips -> SUBSET Lines]
      BY <1>1 DEF TypeInv, TypeOK, Pics
    <2> QED
      BY <2>3, <2>4, <2>5, DeviceLines DEF Chips, PIT_IRQ, KBRD_IRQ, ICW3_SLAVE
  <1> QED
    BY <1>1, InitMask, NextMask, InitTypeInv, NextTypeInv, PTL DEF Spec
=============================================================================
