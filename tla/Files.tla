------------------------------- MODULE Files --------------------------------
(***************************************************************************)
(* The system calls through which a program uses files (syscall_handler.c):*)
(* open, close, read, write, and execute, halt and getargs as far as they  *)
(* touch the descriptors and the arguments in the PCB.  One PCB is         *)
(* followed: it belongs to a base shell, or to one program after another.  *)
(* Only its own process changes a PCB's descriptors, and that process does *)
(* one call at a time, so every call is one step.                          *)
(***************************************************************************)
EXTENDS FileSystem

CONSTANTS
    MAX_OPEN_FILES,  \* 8
    STD_FILES,       \* 2
    ARGS_SIZE,       \* 1024
    BUFSIZE,         \* 4: bytes of the header that execute reads
    Magic,           \* the header of a program
    Names,           \* names that programs open
    Commands,        \* commands that the shell executes
    Sizes,           \* nbytes of reads, negative ones too
    Buffers,         \* what a buffer holds before a read
    StdKept,         \* programs do not close their standard descriptors
    Directories,     \* directories to look names up in, for LookupFindsName
    LookupNames      \* and the names looked up

ASSUME FilesAssumption ==
    /\ ARGS_SIZE \in Nat /\ MAX_OPEN_FILES \in Nat /\ STD_FILES \in 0 .. MAX_OPEN_FILES
    /\ 1 < WORD /\ 2 * MAX_OPEN_FILES < WORD
    /\ Len(Magic) = BUFSIZE
    /\ \A n \in Sizes : n \in Int /\ 2 * n < WORD /\ -2 * n < WORD
    /\ \A buf \in Buffers, n \in Sizes : 0 .. n - 1 \subseteq DOMAIN buf
    /\ \A s \in Names \cup Commands \cup LookupNames : IsString(s)
    /\ StdKept \in BOOLEAN
    /\ None # Unused
    /\ \A dir \in Directories : IsDirectory(dir)

VARIABLES
    owner,        \* "nobody", "shell" or "program": who has the PCB
    file_array,
    args,         \* the bytes of pcb->args
    command,      \* the command that started the program
    reply         \* the last call: what it returned and delivered

vars == <<owner, file_array, args, command, reply>>

Fds   == 0 .. MAX_OPEN_FILES - 1
Blank == " "

uint32(n) == n % WORD
int32(w)  == IF 2 * w >= WORD THEN w - WORD ELSE w

NoCall == [call |-> <<"none">>, ret |-> 0, data |-> <<>>]

answer(call, r, bytes) == reply' = [call |-> call, ret |-> int32(r), data |-> bytes]

-----------------------------------------------------------------------------
(* Commands and names.                                                     *)

\* The first loop of execute stops at a blank or after NAME_SIZE bytes.
name_end(c) ==
    CHOOSE i \in 0 .. NAME_SIZE :
        /\ i = NAME_SIZE \/ string_byte(c, i) = Blank
        /\ \A j \in 0 .. i - 1 : string_byte(c, j) # Blank

\* The name ends at a NUL as well; behind the command lie NULs, which is how
\* terminal_read fills the shell's buffer.
command_name(c) == SubSeq(c, 1, Min2(name_end(c), Len(c)))

command_args(c) == SubSeq(c, name_end(c) + 2, Len(c))

\* The lookups in the directory of the image, tabulated.
lookup == [name \in Names \cup {command_name(c) : c \in Commands} |->
             read_dentry_by_name(dentries, name)]

-----------------------------------------------------------------------------
(* Descriptors.                                                            *)

\* The jump table of a file type (file_table).
file_table(type) == CASE type = RTC_TYPE -> "rtc"
                      [] type = DIR_TYPE -> "dir"
                      [] OTHER           -> "file"

\* The jump table a descriptor starts with (std_table, nofunc_table).
first_table(fd) == IF fd >= STD_FILES THEN "nofunc" ELSE IF fd = 0 THEN "stdin" ELSE "stdout"

first_descriptor(fd, used) ==
    [ops |-> first_table(fd), inode |-> 0, file_type |-> -1, file_position |-> 0, flags |-> used]

Used(fd) == file_array[fd].flags # 0

free_fd(unused) == CHOOSE i \in unused : \A j \in unused : i <= j

open(filename) ==
    /\ owner # "nobody"
    /\ LET i      == lookup[filename]
           unused == {fd \in Fds : ~ Used(fd)}
       IN  IF i = None \/ unused = {}
           THEN answer(<<"open">>, FAILURE, <<>>) /\ UNCHANGED file_array
           ELSE LET d    == dentry(dentries, i)
                    fd   == free_fd(unused)
                    fail == d.file_type # RTC_TYPE /\ file_open(lookup[filename]) # SUCCESS
                IN  /\ file_array' = [file_array EXCEPT ![fd] =
                          [ops |-> file_table(d.file_type), inode |-> d.inode_num,
                           file_type |-> d.file_type, file_position |-> 0, flags |-> 1]]
                    /\ answer(<<"open">>, IF fail THEN FAILURE ELSE fd, <<>>)
    /\ UNCHANGED <<owner, args, command>>

\* The jump table stays.
closed_slot(slot) ==
    [slot EXCEPT !.inode = 0, !.file_type = -1, !.file_position = 0, !.flags = 0]

\* terminal_close takes the inode, 0, for a null pointer; no_func is -1.
close_result(slot) == IF slot.ops \in {"stdin", "stdout", "nofunc"} THEN FAILURE ELSE SUCCESS

close(fd) ==
    /\ owner # "nobody"
    /\ StdKept /\ owner = "program" => fd >= STD_FILES
    /\ IF ~ Used(fd) THEN answer(<<"close">>, FAILURE, <<>>) /\ UNCHANGED file_array
       ELSE /\ file_array' = [file_array EXCEPT ![fd] = closed_slot(@)]
            /\ answer(<<"close">>, close_result(file_array[fd]), <<>>)
    /\ UNCHANGED <<owner, args, command>>

\* What the function in the jump table returns, and the buffer it leaves.
read_result(slot, buf, n) ==
    CASE slot.ops = "file"  -> file_read(slot.inode, buf, n, slot.file_position)
      [] slot.ops = "dir"   -> dir_read(buf, n, slot.file_position)
      [] slot.ops = "rtc"   -> [ret |-> 0, buf |-> buf]
      [] slot.ops = "stdin" -> [ret |-> n, buf |-> buf]      \* see module Terminal
      [] OTHER              -> [ret |-> FAILURE, buf |-> buf]

\* Faulty: a directory advances by the length of the name.
advance_bytes(slot, ret) == uint32(slot.file_position + ret)

advance(slot, ret) ==
    IF slot.file_type = DIR_TYPE
    THEN slot.file_position + (IF int32(ret) > 0 THEN 1 ELSE 0)
    ELSE uint32(slot.file_position + ret)

\* Two habits of programs: a line has a size of at least one, and the buffer for
\* a name is at most NAME_SIZE.  The positions of descriptors that have no file
\* count results that nobody uses; the bound lets them leave zero once.
ReadSensible(slot, n) ==
    /\ slot.ops = "stdin" => n > 0
    /\ slot.ops = "dir" => n <= NAME_SIZE
    /\ slot.file_type \in {DIR_TYPE, FILE_TYPE} \/ slot.file_position = 0

read(fd, n) ==
    /\ owner # "nobody"
    /\ ReadSensible(file_array[fd], n)
    /\ \E buf \in Buffers :
          LET slot == file_array[fd]
              r    == read_result(slot, buf, uint32(n))
          IN  /\ file_array' = [file_array EXCEPT ![fd].file_position = advance(slot, r.ret)]
              /\ IF slot.flags = 0 /\ r.ret = 1
                 THEN answer(<<"read", fd, n>>, FAILURE, <<>>)
                 ELSE answer(<<"read", fd, n>>, r.ret,
                             IF slot.ops \in {"file", "dir"}
                             THEN [k \in 1 .. int32(r.ret) |-> r.buf[k - 1]] ELSE <<>>)
    /\ UNCHANGED <<owner, args, command>>

\* What the function in the jump table may return: terminal_write the size it was
\* given, rtc_write whether it takes the rate (module Rtc), the others -1.
write_result(slot, n) == CASE slot.ops = "stdout" -> {uint32(n)}
                           [] slot.ops = "rtc"    -> {SUCCESS, FAILURE}
                           [] OTHER               -> {FAILURE}

\* write looks at no flag and moves no position.
write(fd, n) ==
    /\ owner # "nobody"
    /\ \E r \in write_result(file_array[fd], n) : answer(<<"write">>, r, <<>>)
    /\ UNCHANGED <<owner, file_array, args, command>>

-----------------------------------------------------------------------------
(* Programs and arguments.                                                 *)

\* Faulty: the old arguments are not erased first.
store_args_over(old, new) ==
    [k \in 0 .. ARGS_SIZE - 1 |-> IF k < Len(new) THEN new[k + 1] ELSE old[k]]

\* pcb->args is filled with NUL, then the bytes before the NUL of args are copied.
store_args(old, new) == [k \in 0 .. ARGS_SIZE - 1 |-> string_byte(new, k)]

\* The checks of execute before it changes anything: the file exists, is not
\* empty and begins like a program.  What the header buffer on the stack held
\* before is part of the header of a file that is too short.
is_program(i, buf) ==
    /\ i # None
    /\ LET header == file_read(dentry(dentries, i).inode_num, buf, BUFSIZE, 0)
       IN  /\ header.ret # 0
           /\ \A k \in 1 .. BUFSIZE : header.buf[k - 1] = Magic[k]

\* A process of another PCB executes a command, and this PCB is free for it.
\* If load_program fails the caller gets -1 with the user page already changed.
execute(c) ==
    /\ owner = "nobody"
    /\ LET i == lookup[command_name(c)]
       IN  \E buf \in Buffers :
              IF ~ is_program(i, buf)
              THEN /\ answer(<<"execute">>, FAILURE, <<>>)
                   /\ UNCHANGED <<owner, file_array, args, command>>
              ELSE IF load_program(dentry(dentries, i).inode_num, buf) # SUCCESS
              THEN /\ answer(<<"page changed">>, FAILURE, <<>>)
                   /\ UNCHANGED <<owner, file_array, args, command>>
              ELSE /\ owner' = "program"
                   /\ args' = store_args(args, command_args(c))
                   /\ file_array' = [fd \in Fds |->
                                        first_descriptor(fd, IF fd < STD_FILES THEN 1 ELSE 0)]
                   /\ command' = c
                   /\ answer(<<"execute">>, SUCCESS, <<>>)

\* halt closes descriptors from 0 up to the first unused one.  A base shell is
\* started again with the descriptors it has.
halt ==
    \/ /\ owner = "program"
       /\ owner' = "nobody"
       /\ file_array' = [fd \in Fds |-> IF \A g \in 0 .. fd : Used(g)
                                        THEN closed_slot(file_array[fd]) ELSE file_array[fd]]
       /\ command' = <<>>
       /\ answer(<<"halt">>, SUCCESS, <<>>)
       /\ UNCHANGED args
    \/ /\ owner = "shell"
       /\ answer(<<"execute">>, SUCCESS, <<>>)
       /\ UNCHANGED <<owner, file_array, args, command>>

args_string == LET n == CHOOSE n \in 0 .. ARGS_SIZE :
                           /\ n = ARGS_SIZE \/ args[n] = NUL
                           /\ \A k \in 0 .. n - 1 : args[k] # NUL
               IN  [k \in 1 .. n |-> args[k - 1]]

getargs(n) ==
    /\ owner = "program"
    /\ IF n = 0 \/ Len(args_string) > uint32(n)
       THEN answer(<<"getargs">>, FAILURE, <<>>)
       ELSE answer(<<"getargs">>, SUCCESS, args_string)
    /\ UNCHANGED <<owner, file_array, args, command>>

-----------------------------------------------------------------------------
(* Specification.                                                          *)

\* execute_shells gives a base shell flags by the number of its terminal, so
\* that all descriptors are used or none; or the PCB is for programs.
Init ==
    /\ owner \in {"nobody", "shell"}
    /\ file_array \in {[fd \in Fds |-> first_descriptor(fd, used)] : used \in {0, 1}}
    /\ args = [k \in 0 .. ARGS_SIZE - 1 |-> NUL]
    /\ command = <<>>
    /\ reply = NoCall

Next ==
    \/ \E name \in Names : open(name)
    \/ \E fd \in Fds : \/ close(fd)
                       \/ \E n \in Sizes : read(fd, n) \/ write(fd, n)
    \/ \E n \in Sizes \cup {0} : getargs(n)
    \/ \E c \in Commands : execute(c)
    \/ halt

Spec == Init /\ [][Next]_vars

-----------------------------------------------------------------------------
(* The image as it is meant.                                               *)

\* The first entry with exactly this name, names being cut to NAME_SIZE.
EntryNamed(dir, name) ==
    LET cut  == SubSeq(name, 1, Min2(Len(name), NAME_SIZE))
        hits == {i \in 0 .. Len(dir) - 1 : dir[i + 1].file_name = cut}
    IN  IF hits = {} THEN None ELSE CHOOSE i \in hits : \A j \in hits : i <= j

FileNamed(name) ==
    LET i == EntryNamed(dentries, name)
    IN  IF i = None THEN <<"missing">>
        ELSE <<dentries[i + 1].file_type, dentries[i + 1].inode_num>>

KindOf(file) == IF file = <<"std">> THEN "device"
                ELSE CASE file[1] = FILE_TYPE -> "bytes"
                       [] file[1] = DIR_TYPE  -> "names"
                       [] OTHER               -> "device"

\* A file is the concatenation of its blocks, cut to its length.
ContentOf(file) ==
    IF KindOf(file) = "names"
    THEN [i \in 1 .. Len(dentries) |-> dentries[i].file_name]
    ELSE LET inode == inodes[file[2]]
         IN  [p \in 1 .. inode.length |->
                 data_blocks[inode.data_block[1 + ((p - 1) \div BLOCK_SIZE)]]
                            [1 + ((p - 1) % BLOCK_SIZE)]]

\* The open files the descriptors stand for.
FileAt(fd) ==
    LET slot == file_array[fd]
    IN  IF slot.ops \in {"stdin", "stdout"} THEN [file |-> <<"std">>, pos |-> 0]
        ELSE [file |-> <<slot.file_type, slot.inode>>, pos |-> slot.file_position]

Unopened == [file |-> <<"closed">>, pos |-> 0]

\* The promise is made to the programs that execute starts.  The descriptors of a
\* base shell start with wrong flags, and its calls do not count.
Promise == INSTANCE OpenFiles WITH
    Std <- 0 .. STD_FILES - 1,
    Find <- FileNamed, Kind <- KindOf, Content <- ContentOf,
    handle <- [fd \in Fds |-> IF owner # "program" \/ ~ Used(fd) THEN Unopened ELSE FileAt(fd)],
    reply <- IF owner = "shell" THEN NoCall ELSE reply

-----------------------------------------------------------------------------
(* Properties.                                                             *)

\* The calls of syscall_handler.c keep the promise of OpenFiles to the programs that
\* execute starts, as long as they do not close their standard descriptors (StdKept;
\* close would free them and return -1, which OpenFiles forbids): reads deliver the
\* file piece by piece across blocks and ends, calls that fail and calls on closed
\* descriptors disturb no open file, and every program starts clean.
ImplementsOpenFiles == Promise!OpenFilesSpec

\* read_dentry_by_name finds the entry with exactly the name asked for, in every
\* directory the machine may have been booted with (hence only before the first
\* call): no prefix matches, and a name that fills its field is found.
LookupFindsName ==
    reply.call = <<"none">> =>
        \A dir \in Directories, name \in LookupNames :
            read_dentry_by_name(dir, name) = EntryNamed(dir, name)

\* The position of an open file or directory stays inside it whatever sizes the
\* program reads with: the sum that wraps in read_data never moves it out.
PositionInFile ==
    \A fd \in Fds :
        Used(fd) /\ file_array[fd].ops \in {"file", "dir"} =>
            file_array[fd].file_position \in 0 .. Len(ContentOf(FileAt(fd).file))

\* execute does not fail between change_process and the new process: a file that
\* passes its checks is loaded.
ExecuteNotHalfDone == reply.call # <<"page changed">>

\* A program finds in pcb->args what stood behind the first blank of its command,
\* and nothing of the arguments of an earlier owner of the PCB.
ArgumentsAreRest ==
    LET blanks == {i \in 1 .. Len(command) : command[i] = Blank}
        rest   == IF blanks = {} THEN <<>>
                  ELSE SubSeq(command, 1 + CHOOSE i \in blanks : \A j \in blanks : i <= j,
                              Len(command))
    IN  owner = "program" => args_string = rest

\* Documented in the test err_unopened ("tries to read and write from unopened
\* fd's 2-7", which must give -1): a descriptor that is not open cannot be read.
ReadClosedFails ==
    [][\A fd \in STD_FILES .. MAX_OPEN_FILES - 1, n \in Sizes :
          reply'.call = <<"read", fd, n>> /\ ~ Used(fd) => reply'.ret = -1]_vars
=============================================================================
