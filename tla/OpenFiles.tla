----------------------------- MODULE OpenFiles ------------------------------
(***************************************************************************)
(* What open, read, write and close promise a program: every open file has *)
(* a position of its own, consecutive reads deliver consecutive bytes of   *)
(* it until its end, a directory delivers one name per read, a call that   *)
(* fails changes nothing, a new program has the standard descriptors and   *)
(* no other, and it keeps them: they cannot be closed.                     *)
(***************************************************************************)
EXTENDS Integers, Sequences

CONSTANTS
    Fds, Std,       \* all descriptors, the standard ones
    Names, Sizes,   \* what programs ask for; a size may be negative
    Find(_),        \* the file of a name, or Missing
    Kind(_),        \* "bytes", "names" or "device"
    Content(_)      \* the bytes of a file, the names of a directory

VARIABLES handle,   \* descriptor -> file and position, or Closed
          reply     \* what the last call returned and delivered

At(file, p) == [file |-> file, pos |-> p]

Missing  == <<"missing">>
Standard == <<"std">>
Closed   == At(<<"closed">>, 0)

Gives(call, n, bytes) == reply' = [call |-> call, ret |-> n, data |-> bytes]
Free == {fd \in Fds : handle[fd] = Closed}
All(h) == [fd \in Fds |-> h]

Init ==
    /\ handle = All(Closed)
    /\ reply = [call |-> <<"none">>, ret |-> 0, data |-> <<>>]

Start ==
    /\ Gives(<<"execute">>, 0, <<>>)
    /\ handle' = [fd \in Fds |-> IF fd \in Std THEN At(Standard, 0) ELSE Closed]

Exit == Gives(<<"halt">>, 0, <<>>) /\ handle' = All(Closed)

Open(name) ==
    /\ reply'.call = <<"open">>
    /\ IF Find(name) = Missing \/ Free = {}
       THEN Gives(<<"open">>, -1, <<>>) /\ UNCHANGED handle
       ELSE LET fd == CHOOSE f \in Free : \A g \in Free : f <= g
            IN  Gives(<<"open">>, fd, <<>>) /\ handle' = [handle EXCEPT ![fd] = At(Find(name), 0)]

\* The next n bytes, fewer at the end of the file.
ReadBytes(fd, n) ==
    LET all  == Content(handle[fd].file)
        from == handle[fd].pos
        last == IF from + n < Len(all) THEN from + n ELSE Len(all)
    IN  /\ Gives(<<"read", fd, n>>, last - from, SubSeq(all, from + 1, last))
        /\ handle' = [handle EXCEPT ![fd].pos = last]

\* The next name, cut to n bytes; nothing after the last one.
ReadName(fd, n) ==
    LET all  == Content(handle[fd].file)
        from == handle[fd].pos
        name == IF from < Len(all) THEN all[from + 1] ELSE <<>>
        size == IF n < Len(name) THEN n ELSE Len(name)
    IN  /\ Gives(<<"read", fd, n>>, size, SubSeq(name, 1, size))
        /\ handle' = [handle EXCEPT ![fd].pos = IF size > 0 THEN @ + 1 ELSE @]

\* Nothing is promised for a negative size, but the position stays in the file.
ReadNegative(fd) ==
    \E p \in 0 .. Len(Content(handle[fd].file)) : handle' = [handle EXCEPT ![fd].pos = p]

Read(fd, n) ==
    /\ reply'.call = <<"read", fd, n>>
    /\ handle[fd] # Closed
    /\ LET kind == Kind(handle[fd].file)
       IN  \/ kind = "device" /\ UNCHANGED handle
           \/ kind # "device" /\ n < 0 /\ ReadNegative(fd)
           \/ kind = "bytes" /\ n >= 0 /\ ReadBytes(fd, n)
           \/ kind = "names" /\ n >= 0 /\ ReadName(fd, n)

Close(fd) ==
    IF fd \in Std \/ handle[fd] = Closed
    THEN Gives(<<"close">>, -1, <<>>) /\ UNCHANGED handle
    ELSE Gives(<<"close">>, 0, <<>>) /\ handle' = [handle EXCEPT ![fd] = Closed]

\* A read of a closed descriptor changes nothing; its answer is not promised.
ReadClosed(fd, n) ==
    /\ reply'.call = <<"read", fd, n>>
    /\ handle[fd] = Closed
    /\ UNCHANGED handle

\* Calls that are not about positions.
Other == reply'.call \in {<<"write">>, <<"getargs">>, <<"execute">>} /\ UNCHANGED handle

Next ==
    \/ Start \/ Exit \/ Other
    \/ \E name \in Names : Open(name)
    \/ \E fd \in Fds : Close(fd) \/ \E n \in Sizes : Read(fd, n) \/ ReadClosed(fd, n)

OpenFilesSpec == Init /\ [][Next]_<<handle, reply>>
=============================================================================
