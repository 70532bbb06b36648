------------------------------ MODULE Terminal ------------------------------
(***************************************************************************)
(* The keyboard interrupt handler and terminal_read (keyboard.c): one      *)
(* keyboard, MAX_TERMINALS terminals of which current_terminal is shown,   *)
(* and one process per terminal that reads from it.                        *)
(*                                                                         *)
(* kbrd_int runs with interrupts off and is one step per key.              *)
(* terminal_read runs with interrupts on except while it copies, so its    *)
(* statements are separate steps between which keys arrive and the other   *)
(* readers run.  get_curr_pcb_term() is the reader's own terminal: that is *)
(* CurrentProcessCoherent of module Processes.                             *)
(*                                                                         *)
(* The characters on the screen are not modelled here; `typed` is what the *)
(* user has typed, and sees, since the last newline.                       *)
(***************************************************************************)
EXTENDS Integers, Sequences

CONSTANTS
    MAX_TERMINALS,     \* 3
    KBRD_BUF_LENGTH,   \* 128
    Letters,           \* letter keys the user has; "l" is special with ctrl
    ModKeys,           \* modifier keys the user has
    ReadSizes,         \* the nbytes programs read with
    Habits,            \* what users and programs refrain from, see below
    MarkerBound        \* bound: the user stops typing at this line_marker; below
                       \* KBRD_BUF_LENGTH it also keeps lines inside the buffer

ASSUME TerminalAssumption ==
    /\ MAX_TERMINALS \in Nat \ {0}
    /\ KBRD_BUF_LENGTH \in Nat \ {0, 1}
    /\ ReadSizes \subseteq Nat \ {0}
    /\ Letters \subseteq {"a", "l"}
    /\ ModKeys \subseteq {"ctrl", "lshift", "rshift", "alt"}
    /\ Habits \subseteq {"prompt", "foreground", "alt_only"}
    /\ MarkerBound \in Nat

VARIABLES
    current_terminal,    \* the terminal shown (keyboard.c)
    held,                \* the modifier keys that are down (the user's hands)
    mods,                \* is_ctrl, is_shift, is_caps, is_alt of each terminal
    kbrd_buf,            \* the bytes of kbrd_buf[MAX_TERMINALS][KBRD_BUF_LENGTH]
    line_marker,
    kbrd_buf_length,
    is_enter,
    read_lock,
    reader,              \* where the reader of each terminal stands
    nbytes,              \* the size it asked for
    got,                 \* the line its read has copied out
    typed                \* what the user typed since the last newline

modVars    == <<held, mods>>
bufVars    == <<kbrd_buf, line_marker, kbrd_buf_length, typed>>
readerVars == <<reader, nbytes, got>>
vars == <<current_terminal, modVars, bufVars, is_enter, read_lock, readerVars>>

Terminals == 0 .. MAX_TERMINALS - 1
NUL       == "nul"
Newline   == "newline"

\* The conversion tables of keyboard.h: shift and caps lock each turn a letter
\* into its capital and cancel each other; any other key of the table is NUL.
capital(c) == CASE c = "a" -> "A" [] c = "l" -> "L" [] OTHER -> NUL
kbrdscancode(key, flags) ==
    IF key \notin Letters THEN NUL
    ELSE IF ("shift" \in flags) # ("caps" \in flags) THEN capital(key) ELSE key

Chars == Letters \cup {capital(c) : c \in Letters} \cup {NUL}

-----------------------------------------------------------------------------
(* The two-dimensional buffer is one row of bytes.                         *)

addr(t, k) == t * KBRD_BUF_LENGTH + k
Bytes      == 0 .. addr(MAX_TERMINALS, 0) - 1

\* A byte of the buffer; outside it other variables of the kernel lie.
fetch(b, a)    == IF a \in Bytes THEN b[a] ELSE NUL
store(b, a, c) == IF a \in Bytes THEN [b EXCEPT ![a] = c] ELSE b

\* memset(kbrd_buf[t] + from, NULL_SCANCODE, n)
clear(b, t, from, n) ==
    [a \in Bytes |-> IF a \in addr(t, from) .. addr(t, from) + n - 1 THEN NUL ELSE b[a]]

\* memmove(kbrd_buf[t], kbrd_buf[t] + from, n)
move_down(b, t, from, n) ==
    [a \in Bytes |-> IF a \in addr(t, 0) .. addr(t, 0) + n - 1
                     THEN fetch(b, a + from) ELSE b[a]]

uint8(n) == n % 256

-----------------------------------------------------------------------------
(* What users and programs refrain from.  "prompt": the user types only    *)
(* while every reader is out of the kernel or waiting for Enter.           *)
(* "foreground": programs read only on the terminal that is shown, and the *)
(* user changes terminals only while nobody reads.  "alt_only": no other   *)
(* modifier key is down while the user changes terminals.                  *)

Prompt ==
    "prompt" \in Habits =>
        \A t \in Terminals : \/ reader[t] = "idle"
                             \/ reader[t] = "wait" /\ is_enter[t] = 0

NobodyReads == \A t \in Terminals : reader[t] = "idle"

-----------------------------------------------------------------------------
(* kbrd_int, one action per branch.                                        *)

\* The modifier flag a key works on.
flag_of(key) == IF key \in {"lshift", "rshift"} THEN "shift" ELSE key

press_modifier(key) ==
    /\ Prompt
    /\ key \notin held
    /\ held' = held \cup {key}
    /\ mods' = [mods EXCEPT ![current_terminal] = @ \cup {flag_of(key)}]
    /\ UNCHANGED <<current_terminal, bufVars, is_enter, read_lock, readerVars>>

\* Faulty: the release of Alt is not noticed.
released_alt(flags, key) == IF key = "alt" THEN flags ELSE flags \ {flag_of(key)}

released(flags, key) == flags \ {flag_of(key)}

release_modifier(key) ==
    /\ Prompt
    /\ key \in held
    /\ held' = held \ {key}
    /\ mods' = [mods EXCEPT ![current_terminal] = released(@, key)]
    /\ UNCHANGED <<current_terminal, bufVars, is_enter, read_lock, readerVars>>

press_caps ==
    /\ Prompt
    /\ mods' = [mods EXCEPT ![current_terminal] =
                   IF "caps" \in @ THEN @ \ {"caps"} ELSE @ \cup {"caps"}]
    /\ UNCHANGED <<held, current_terminal, bufVars, is_enter, read_lock, readerVars>>

\* Alt and F1, F2 or F3.  update_curr_term and update_vidmem follow: module Screen.
press_function(t) ==
    /\ Prompt
    /\ "foreground" \in Habits => NobodyReads
    /\ "alt_only" \in Habits => held \subseteq {"alt"}
    /\ "alt" \in mods[current_terminal]
    /\ t # current_terminal
    /\ current_terminal' = t
    /\ UNCHANGED <<modVars, bufVars, is_enter, read_lock, readerVars>>

\* Faulty: Enter on an empty line is ignored.
enter_flag_text(t) == IF line_marker[t] = 0 THEN is_enter ELSE [is_enter EXCEPT ![t] = 1]

enter_flag(t) == [is_enter EXCEPT ![t] = 1]

\* Faulty: the length survives Enter.
enter_length_kept(t) == kbrd_buf_length

enter_length(t) == [kbrd_buf_length EXCEPT ![t] = 0]

\* Faulty: the lock is not looked at.
unread_always(t) == TRUE

unread(t) == read_lock[t] = 0

\* Enter: the line is complete; it is dropped unless read_lock is set.
press_enter ==
    /\ Prompt
    /\ LET t == current_terminal
       IN  /\ typed' = [typed EXCEPT ![t] = <<>>]
           /\ is_enter' = enter_flag(t)
           /\ kbrd_buf_length' = enter_length(t)
           /\ IF unread(t)
              THEN /\ kbrd_buf' = clear(kbrd_buf, t, 0, KBRD_BUF_LENGTH)
                   /\ line_marker' = [line_marker EXCEPT ![t] = 0]
              ELSE UNCHANGED <<kbrd_buf, line_marker>>
    /\ UNCHANGED <<current_terminal, modVars, read_lock, readerVars>>

\* Faulty: Backspace does not look whether the line is empty.
can_erase_always(t) == TRUE

can_erase(t) == kbrd_buf_length[t] > 0

press_backspace ==
    /\ Prompt
    /\ LET t == current_terminal
       IN  /\ can_erase(t)
           /\ kbrd_buf' = store(kbrd_buf, addr(t, line_marker[t] - 1), NUL)
           /\ kbrd_buf_length' = [kbrd_buf_length EXCEPT ![t] = @ - 1]
           /\ line_marker' = [line_marker EXCEPT ![t] = uint8(@ - 1)]
           /\ typed' = [typed EXCEPT ![t] = SubSeq(@, 1, Len(@) - 1)]
    /\ UNCHANGED <<current_terminal, modVars, is_enter, read_lock, readerVars>>

\* Any other key.  A key without a character (a function key, say) ends here too
\* and is buffered as NUL.  Ctrl-L repaints the screen, which changes nothing in this module.
press_key(key) ==
    /\ Prompt
    /\ LET t == current_terminal
       IN  /\ kbrd_buf_length[t] < KBRD_BUF_LENGTH - 1
           /\ line_marker[t] < MarkerBound
           /\ ~ ("ctrl" \in mods[t] /\ key = "l")
           /\ LET c == kbrdscancode(key, mods[t])
              IN  /\ kbrd_buf' = store(kbrd_buf, addr(t, line_marker[t]), c)
                  /\ typed' = [typed EXCEPT ![t] = Append(@, c)]
           /\ line_marker' = [line_marker EXCEPT ![t] = uint8(@ + 1)]
           /\ kbrd_buf_length' = [kbrd_buf_length EXCEPT ![t] = @ + 1]
    /\ UNCHANGED <<current_terminal, modVars, is_enter, read_lock, readerVars>>

-----------------------------------------------------------------------------
(* terminal_read, called by the process of terminal t.                     *)

\* One statement of the reader of t.
step(t, from, to) ==
    /\ reader[t] = from
    /\ reader' = [reader EXCEPT ![t] = to]
    /\ UNCHANGED <<current_terminal, modVars, kbrd_buf_length, typed>>

read_call(t, n) ==
    /\ "foreground" \in Habits => t = current_terminal
    /\ step(t, "idle", "lock")
    /\ nbytes' = [nbytes EXCEPT ![t] = n]
    /\ UNCHANGED <<kbrd_buf, line_marker, is_enter, read_lock, got>>

\* read_lock[current_terminal] = 1
take_lock(t) ==
    /\ step(t, "lock", "clear")
    /\ read_lock' = [read_lock EXCEPT ![current_terminal] = 1]
    /\ UNCHANGED <<kbrd_buf, line_marker, is_enter, nbytes, got>>

\* is_enter[current_terminal] = 0
clear_enter(t) ==
    /\ step(t, "clear", "wait")
    /\ is_enter' = [is_enter EXCEPT ![current_terminal] = 0]
    /\ UNCHANGED <<kbrd_buf, line_marker, read_lock, nbytes, got>>

\* while(!is_enter[get_curr_pcb_term()]);
see_enter(t) ==
    /\ is_enter[t] = 1
    /\ step(t, "wait", "copy")
    /\ UNCHANGED <<kbrd_buf, line_marker, is_enter, read_lock, nbytes, got>>

\* Faulty: the byte replaced by the newline is not counted.
write_bytes_less(marker, n) == IF marker - n < 0 THEN 0 ELSE marker - n

\* How many bytes of the line stay in the buffer.
write_bytes(marker, n) == IF marker - n < 0 THEN 0 ELSE marker - (n - 1)

\* From cli() to sti(): the bytes go out, the rest of the line moves down.
copy_line(t) ==
    /\ step(t, "copy", "unlock")
    /\ LET d == current_terminal
           n == IF nbytes[t] < KBRD_BUF_LENGTH THEN nbytes[t] ELSE KBRD_BUF_LENGTH
           w == write_bytes(line_marker[d], nbytes[t])
       IN  /\ got' = [got EXCEPT ![t] =
                 [k \in 1 .. n |-> IF k < n THEN fetch(kbrd_buf, addr(d, k - 1))
                                            ELSE Newline]]
           /\ kbrd_buf' = clear(move_down(kbrd_buf, d, n - 1, w), d, w, n)
           /\ line_marker' = [line_marker EXCEPT ![d] = uint8(w)]
    /\ UNCHANGED <<is_enter, read_lock, nbytes>>

\* Faulty: the lock is kept.
drop_lock_none(t) ==
    /\ step(t, "unlock", "forget")
    /\ UNCHANGED <<kbrd_buf, line_marker, is_enter, read_lock, nbytes, got>>

\* read_lock[current_terminal] = 0
drop_lock(t) ==
    /\ step(t, "unlock", "forget")
    /\ read_lock' = [read_lock EXCEPT ![current_terminal] = 0]
    /\ UNCHANGED <<kbrd_buf, line_marker, is_enter, nbytes, got>>

\* is_enter[current_terminal] = 0, and the return; the program uses the line.
forget_enter(t) ==
    /\ step(t, "forget", "idle")
    /\ is_enter' = [is_enter EXCEPT ![current_terminal] = 0]
    /\ nbytes' = [nbytes EXCEPT ![t] = 0]
    /\ got' = [got EXCEPT ![t] = <<>>]
    /\ UNCHANGED <<kbrd_buf, line_marker, read_lock>>

terminal_read(t) ==
    \/ take_lock(t)
    \/ clear_enter(t)
    \/ see_enter(t)
    \/ copy_line(t)
    \/ drop_lock(t)
    \/ forget_enter(t)

-----------------------------------------------------------------------------
(* Specification.                                                          *)

\* After kbrd_init; the statics are zero.
Init ==
    /\ current_terminal = 0
    /\ held = {}
    /\ mods = [t \in Terminals |-> {}]
    /\ kbrd_buf = [a \in Bytes |-> NUL]
    /\ line_marker = [t \in Terminals |-> 0]
    /\ kbrd_buf_length = [t \in Terminals |-> 0]
    /\ is_enter = [t \in Terminals |-> 0]
    /\ read_lock = [t \in Terminals |-> 0]
    /\ reader = [t \in Terminals |-> "idle"]
    /\ nbytes = [t \in Terminals |-> 0]
    /\ got = [t \in Terminals |-> <<>>]
    /\ typed = [t \in Terminals |-> <<>>]

kbrd_int ==
    \/ \E key \in ModKeys : press_modifier(key) \/ release_modifier(key)
    \/ press_caps
    \/ \E t \in Terminals : press_function(t)
    \/ press_enter
    \/ press_backspace
    \/ \E key \in Letters \cup {"unmapped"} : press_key(key)

Next ==
    \/ kbrd_int
    \/ \E t \in Terminals : \/ \E n \in ReadSizes : read_call(t, n)
                            \/ terminal_read(t)

Spec == Init /\ [][Next]_vars

\* The scheduler runs every process (EveryTerminalScheduled of Processes) and
\* a user who waits for a program presses Enter.
Fairness ==
    /\ \A t \in Terminals : WF_vars(terminal_read(t))
    /\ WF_vars(press_enter)

FairSpec == Spec /\ Fairness

-----------------------------------------------------------------------------
(* Properties.                                                             *)

\* The types of the statics of keyboard.c; line_marker is a byte.
TypeOK ==
    /\ current_terminal \in Terminals
    /\ held \subseteq ModKeys
    /\ mods \in [Terminals -> SUBSET {"ctrl", "shift", "alt", "caps"}]
    /\ kbrd_buf \in [Bytes -> Chars]
    /\ line_marker \in [Terminals -> 0 .. 255]
    /\ kbrd_buf_length \in [Terminals -> 0 .. KBRD_BUF_LENGTH - 1]
    /\ is_enter \in [Terminals -> {0, 1}]
    /\ read_lock \in [Terminals -> {0, 1}]

\* A terminal is locked exactly while its reader is between the two stores to
\* read_lock, both of which go to the terminal shown at the time: Enter drops no
\* line somebody waits for, and keeps none for the next reader while nobody reads.
LockFollowsReader ==
    \A t \in Terminals :
        read_lock[t] = 1 <=> reader[t] \in {"clear", "wait", "copy", "unlock"}

\* A modifier flag of the terminal shown is set only while one of its keys is
\* down, although every terminal has its own flags and a key may be pressed on
\* one terminal and released on another: Alt left set on the terminal that was
\* left is cleared by the release that follows the way back.
FlagsFollowKeys ==
    \A f \in mods[current_terminal] \ {"caps"} : \E key \in held : flag_of(key) = f

\* The end of the buffered text is what the user sees on the input line, so that
\* Backspace erases the character the user means; nothing lies behind it.
BufferEndsWithTyped ==
    \A t \in Terminals :
        /\ kbrd_buf_length[t] = Len(typed[t])
        /\ kbrd_buf_length[t] <= line_marker[t]
        /\ \A k \in 1 .. Len(typed[t]) :
              typed[t][k] = fetch(kbrd_buf, addr(t, line_marker[t] - Len(typed[t]) + k - 1))
        /\ \A k \in line_marker[t] .. KBRD_BUF_LENGTH - 1 : fetch(kbrd_buf, addr(t, k)) = NUL

\* A program that waits for a line gets one when the user presses Enter.
ReadReturns ==
    \A t \in Terminals : reader[t] = "wait" ~> reader[t] = "idle"

\* The text of the line discipline is what lies below line_marker.
Line == INSTANCE LineInput WITH
    text  <- [t \in Terminals |->
                 [k \in 1 .. line_marker[t] |-> fetch(kbrd_buf, addr(t, k - 1))]],
    Sizes <- {IF n < KBRD_BUF_LENGTH THEN n ELSE KBRD_BUF_LENGTH : n \in ReadSizes}

\* Keys and reads implement the line discipline: memmove, memset and line_marker
\* lose no byte of a line and give no byte twice.
ImplementsLineInput == Line!LineSpec

\* Documented in kbrd_int ("reset kbrd buffer if not being read from"): Enter
\* keeps the line for a process that is waiting for it on this terminal.
EnterKeepsLine ==
    [][press_enter /\ reader[current_terminal] = "wait" =>
          line_marker'[current_terminal] = line_marker[current_terminal]]_vars

\* Documented in kbrd_int ("If keyboard buffer is less than the max allowed size
\* ... add the character to the buffer"): the line fits the buffer.
LineFitsBuffer ==
    \A t \in Terminals : line_marker[t] <= KBRD_BUF_LENGTH - 1
=============================================================================
