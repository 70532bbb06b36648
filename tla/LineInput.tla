----------------------------- MODULE LineInput -----------------------------
(***************************************************************************)
(* What a terminal promises to the program that reads from it: keys are    *)
(* added to and erased from the end of a text, and a read takes bytes from *)
(* its front.  No byte is lost, duplicated, reordered or delivered to      *)
(* another terminal.                                                       *)
(***************************************************************************)
EXTENDS Integers, Sequences, SequencesExt

CONSTANTS Terminals,   \* the terminals
          Chars,       \* what a key can produce, NUL included
          NUL,         \* the filler of a short line
          Newline,     \* the last byte of every read
          Sizes        \* how many bytes a read can return

VARIABLES text,        \* text[t]: what was typed on t and not read yet
          got          \* got[t]: the line a read on t has delivered

lineVars == <<text, got>>

\* The first n bytes of s, filled up with NUL.
Padded(s, n) == [k \in 1 .. n |-> IF k <= Len(s) THEN s[k] ELSE NUL]

LineInit ==
    /\ text = [t \in Terminals |-> <<>>]
    /\ got = [t \in Terminals |-> <<>>]

Type(t) ==
    /\ \E c \in Chars : text' = [text EXCEPT ![t] = Append(@, c)]
    /\ UNCHANGED got

Erase(t) ==
    /\ text[t] # <<>>
    /\ text' = [text EXCEPT ![t] = Front(@)]
    /\ UNCHANGED got

\* Enter on a terminal nobody reads from.
Discard(t) ==
    /\ text' = [text EXCEPT ![t] = <<>>]
    /\ UNCHANGED got

\* A read of n bytes: n - 1 bytes of text and a newline; the rest stays.
Deliver(t, n) ==
    /\ got' = [got EXCEPT ![t] = Append(Padded(text[t], n - 1), Newline)]
    /\ text' = [text EXCEPT ![t] = SubSeq(@, n, Len(@))]

\* The program has used the line.
Consume(t) ==
    /\ got' = [got EXCEPT ![t] = <<>>]
    /\ UNCHANGED text

LineNext ==
    \E t \in Terminals :
        \/ Consume(t)
        \/ Type(t)
        \/ Erase(t)
        \/ Discard(t)
        \/ \E n \in Sizes : Deliver(t, n)

LineSpec == LineInit /\ [][LineNext]_lineVars
=============================================================================
