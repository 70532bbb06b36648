----------------------------- MODULE FileSystem -----------------------------
(***************************************************************************)
(* The read-only file system of file_system.c as functions of the image:   *)
(* a directory of at most NUM_DENTRIES entries, inodes that list data      *)
(* blocks, and the data blocks.  Bytes are model values or strings, NUL is *)
(* the byte zero; a C string is the sequence of the bytes before its NUL.  *)
(* Words are unsigned and wrap at WORD; -1 is WORD - 1.                    *)
(***************************************************************************)
EXTENDS Integers, Sequences, FiniteSets

CONSTANTS
    NAME_SIZE,       \* 32
    NUM_DENTRIES,    \* 63
    BLOCK_SIZE,      \* 4096
    WORD,            \* 2^32
    dentries,        \* the directory: records with file_name, file_type, inode_num
    inodes,          \* inode number -> length and the numbers of its data blocks
    data_blocks,     \* block number -> BLOCK_SIZE bytes
    None             \* no entry

NUL     == "nul"
SUCCESS == 0
FAILURE == WORD - 1

RTC_TYPE  == 0
DIR_TYPE  == 1
FILE_TYPE == 2

\* A C string: bytes that are not NUL.
IsString(s) == s \in Seq({s[k] : k \in DOMAIN s} \ {NUL})

\* A directory as createfs writes it.
IsDirectory(dir) ==
    /\ dir \in Seq({dir[i] : i \in DOMAIN dir})
    /\ Len(dir) <= NUM_DENTRIES
    /\ \A i \in 1 .. Len(dir) :
          /\ IsString(dir[i].file_name) /\ Len(dir[i].file_name) \in 1 .. NAME_SIZE
          /\ dir[i].file_type \in {RTC_TYPE, DIR_TYPE, FILE_TYPE}

\* What createfs writes and init_file_system accepts.
ASSUME ImageAssumption ==
    /\ {NAME_SIZE, BLOCK_SIZE, NUM_DENTRIES, WORD} \subseteq Nat \ {0}
    /\ None \notin {dentries[i] : i \in DOMAIN dentries} /\ None \notin 0 .. NUM_DENTRIES - 1
    /\ IsDirectory(dentries)
    /\ \A i \in 1 .. Len(dentries) : dentries[i].inode_num \in DOMAIN inodes
    /\ \A k \in DOMAIN inodes :
          /\ inodes[k].length \in Nat /\ 2 * inodes[k].length < WORD
          /\ inodes[k].length <= BLOCK_SIZE * Len(inodes[k].data_block)
          /\ \A j \in 1 .. Len(inodes[k].data_block) :
                inodes[k].data_block[j] \in DOMAIN data_blocks

Min2(a, b) == IF a < b THEN a ELSE b
Max2(a, b) == IF a < b THEN b ELSE a

-----------------------------------------------------------------------------
(* Names.  A name of NAME_SIZE bytes has no NUL in its field: what follows *)
(* it in memory is the file type.                                          *)

\* The directory in memory: the entries behind the last one are zero.
Unused == [file_name |-> <<>>, file_type |-> 0, inode_num |-> 0]
dentry(dir, i) == IF i < Len(dir) THEN dir[i + 1] ELSE Unused

string_byte(s, k) == IF k < Len(s) THEN s[k + 1] ELSE NUL

dentry_byte(d, k) ==
    IF k < NAME_SIZE THEN string_byte(d.file_name, k)
    ELSE IF k = NAME_SIZE /\ d.file_type # 0 THEN "type" ELSE NUL

\* strlen(d.file_name)
name_strlen(d) == CHOOSE n \in 0 .. NAME_SIZE + 1 :
                     /\ dentry_byte(d, n) = NUL
                     /\ \A k \in 0 .. n - 1 : dentry_byte(d, k) # NUL

\* strncmp(fname, d.file_name, n) = 0
strncmp_equal(fname, d, n) ==
    \A k \in 0 .. n - 1 :
        \/ string_byte(fname, k) = dentry_byte(d, k)
        \/ \E j \in 0 .. k - 1 : string_byte(fname, j) = NUL /\ dentry_byte(d, j) = NUL

\* Faulty: the comparison never grows beyond the name asked for.
num_bits_fixed(dir, fname) == [i \in 0 .. NUM_DENTRIES - 1 |-> Min2(Len(fname), NAME_SIZE)]

\* num_bits in iteration i of the loop of read_dentry_by_name.
num_bits(dir, fname) ==
    LET bits[i \in 0 .. NUM_DENTRIES - 1] ==
            LET before == IF i = 0 THEN Min2(Len(fname), NAME_SIZE) ELSE bits[i - 1]
            IN  IF before = NAME_SIZE THEN before
                ELSE Max2(name_strlen(dentry(dir, i)), before)
    IN bits

\* The index of the entry that read_dentry_by_name copies out, None for FAILURE.
read_dentry_by_name(dir, fname) ==
    LET bits == num_bits(dir, fname)
        hits == {i \in 0 .. NUM_DENTRIES - 1 : strncmp_equal(fname, dentry(dir, i), bits[i])}
    IN  IF fname = <<>> \/ hits = {} THEN None
        ELSE CHOOSE i \in hits : \A j \in hits : i <= j

\* The entry at an index, None for FAILURE.
read_dentry_by_index(index) ==
    IF index >= NUM_DENTRIES THEN None ELSE dentry(dentries, index)

-----------------------------------------------------------------------------
(* Contents.  A read gives what it returns and the buffer it leaves.       *)

\* Faulty: the pointer moves on one byte late.
data_block_late(inode, offset, end) ==
    LET block[i \in offset .. end] ==
            IF i % BLOCK_SIZE = 1 \/ i = offset
            THEN inode.data_block[1 + (i \div BLOCK_SIZE)] ELSE block[i - 1]
    IN block

\* The pointer data_block while byte i is copied: set from the offset before the
\* loop, moved on when i is a multiple of BLOCK_SIZE.
data_block(inode, offset, end) ==
    LET block[i \in offset .. end] ==
            IF i % BLOCK_SIZE = 0 \/ i = offset
            THEN inode.data_block[1 + (i \div BLOCK_SIZE)] ELSE block[i - 1]
    IN block

\* The sum wraps: a length of -1 at the offset 3 ends at 2.
num_bytes(offset, length, size) ==
    IF (offset + length) % WORD > size THEN size - offset ELSE length

read_data(inode_index, offset, buf, length) ==
    IF inode_index \notin DOMAIN inodes THEN [ret |-> FAILURE, buf |-> buf]
    ELSE IF offset > inodes[inode_index].length THEN [ret |-> FAILURE, buf |-> buf]
    ELSE LET inode == inodes[inode_index]
             n     == num_bytes(offset, length, inode.length)
             end   == (offset + n) % WORD
             block == data_block(inode, offset, end - 1)
         IN  [ret |-> n,
              buf |-> [k \in DOMAIN buf |->
                          IF offset + k < end
                          THEN data_blocks[block[offset + k]][1 + ((offset + k) % BLOCK_SIZE)]
                          ELSE buf[k]]]

\* The loop at the head of file_read and dir_read: it empties the buffer up to
\* its first NUL, NAME_SIZE bytes at most, whatever size the caller gave.
empty_buffer(buf) ==
    [k \in DOMAIN buf |->
        IF k < NAME_SIZE /\ \A j \in 0 .. k : buf[j] # NUL THEN NUL ELSE buf[k]]

file_read(inode_index, buf, nbytes, offset) ==
    read_data(inode_index, offset, empty_buffer(buf), nbytes)

\* strncpy(buf, d.file_name, n) for n up to the length of the name
strncpy(buf, d, n) == [k \in DOMAIN buf |-> IF k < n THEN dentry_byte(d, k) ELSE buf[k]]

\* The position counts entries.  nbytes is compared as unsigned.
dir_read(buf, nbytes, offset) ==
    LET b == empty_buffer(buf)
        d == read_dentry_by_index(offset)
    IN  IF d = None THEN [ret |-> FAILURE, buf |-> b]
        ELSE LET n == Min2(nbytes, name_strlen(d))
             IN  [ret |-> n, buf |-> strncpy(b, d, n)]

\* file_open and dir_open look the name up once more and find the same.
file_open(found) == IF found = None THEN FAILURE ELSE SUCCESS

\* Faulty: the image is read from its second byte.
load_program_skip(inode_index, buf) ==
    IF file_read(inode_index, buf, inodes[inode_index].length, 1).ret # inodes[inode_index].length
    THEN FAILURE ELSE SUCCESS

\* load_program(fd, addr): the whole file in one read.
load_program(inode_index, buf) ==
    IF file_read(inode_index, buf, inodes[inode_index].length, 0).ret # inodes[inode_index].length
    THEN FAILURE ELSE SUCCESS
=============================================================================
