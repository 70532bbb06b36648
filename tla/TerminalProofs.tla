--------------------------- MODULE TerminalProofs ---------------------------
(***************************************************************************)
(* Proofs about module Terminal.                                           *)
(***************************************************************************)
EXTENDS Terminal, SequenceTheorems, TLAPS

-----------------------------------------------------------------------------
(* The buffer: the rows of the two-dimensional array do not overlap.       *)

\* The positions in a row of the buffer.
Cells == 0 .. KBRD_BUF_LENGTH - 1

\* A cell of a row is a byte of the buffer.
LEMMA AddrInBuffer ==
  ASSUME NEW t \in Terminals, NEW k \in Cells
  PROVE  addr(t, k) \in Bytes
  <1> DEFINE M == MAX_TERMINALS
             L == KBRD_BUF_LENGTH
  <1>1. M \in Nat /\ L \in Nat /\ t \in Nat /\ k \in Nat /\ t <= M - 1 /\ k <= L - 1
    BY TerminalAssumption DEF Terminals, Cells
  <1> HIDE DEF M, L
  <1>2. t * L >= 0 /\ t * L \in Int /\ M * L \in Int
    BY <1>1
  <1>3. (M - 1 - t) * L >= 0
    BY <1>1
  <1>4. (M - 1 - t) * L = M * L - L - t * L
    BY <1>1
  <1>5. t * L + k >= 0 /\ t * L + k <= M * L - 1
    BY <1>1, <1>2, <1>3, <1>4
  <1> QED
    BY <1>1, <1>2, <1>5 DEF addr, Bytes, M, L

\* Different cells are different bytes.
LEMMA AddrInjective ==
  ASSUME NEW t \in Terminals, NEW s \in Terminals, NEW j \in Cells, NEW k \in Cells,
         addr(t, j) = addr(s, k)
  PROVE  t = s /\ j = k
  <1> DEFINE L == KBRD_BUF_LENGTH
  <1>1. L \in Nat /\ t \in Nat /\ s \in Nat /\ j \in 0 .. L - 1 /\ k \in 0 .. L - 1
        /\ t * L + j = s * L + k
    BY TerminalAssumption DEF Terminals, Cells, addr
  <1> HIDE DEF L
  <1>2. CASE t < s
    <2>1. (s - t - 1) * L >= 0 /\ (s - t - 1) * L = s * L - t * L - L
      BY <1>1, <1>2
    <2> QED
      BY <1>1, <1>2, <2>1
  <1>3. CASE s < t
    <2>1. (t - s - 1) * L >= 0 /\ (t - s - 1) * L = t * L - s * L - L
      BY <1>1, <1>3
    <2> QED
      BY <1>1, <1>3, <2>1
  <1>4. CASE s = t
    BY <1>1, <1>4
  <1> QED
    BY <1>1, <1>2, <1>3, <1>4

\* A store at a cell changes that cell and no other.
LEMMA StoreCell ==
  ASSUME NEW b, DOMAIN b = Bytes, b = [a \in Bytes |-> b[a]], NEW t \in Terminals, NEW k \in Cells, NEW c,
         NEW s \in Terminals, NEW j \in Cells
  PROVE  fetch(store(b, addr(t, k), c), addr(s, j)) =
           IF s = t /\ j = k THEN c ELSE fetch(b, addr(s, j))
  <1>1. addr(t, k) \in Bytes /\ addr(s, j) \in Bytes
    BY AddrInBuffer
  <1>2. addr(s, j) = addr(t, k) <=> s = t /\ j = k
    BY AddrInjective
  <1> QED
    BY <1>1, <1>2 DEF fetch, store

\* The bytes of a row from cell `from` on, for n cells.
LEMMA RangeOfRow ==
  ASSUME NEW t \in Terminals, NEW from \in Nat, NEW n \in Nat, from + n <= KBRD_BUF_LENGTH,
         NEW s \in Terminals, NEW j \in Cells
  PROVE  addr(s, j) \in addr(t, from) .. addr(t, from) + n - 1
           <=> s = t /\ j \in from .. from + n - 1
  <1>1. KBRD_BUF_LENGTH \in Nat /\ j \in Nat /\ addr(s, j) \in Int /\ addr(t, from) \in Int
    BY TerminalAssumption DEF addr, Cells, Terminals
  <1>2. ASSUME addr(s, j) \in addr(t, from) .. addr(t, from) + n - 1
        PROVE  s = t /\ j \in from .. from + n - 1
    <2> DEFINE i == addr(s, j) - addr(t, from)
    <2>1. i \in 0 .. n - 1
      BY <1>1, <1>2
    <2>2. from + i \in Cells /\ addr(t, from + i) = addr(s, j)
      <3> HIDE DEF i
      <3>1. from + i \in Cells
        BY <1>1, <2>1 DEF Cells
      <3>2. addr(s, j) = addr(t, from) + i
        BY <1>1, <2>1 DEF i
      <3>3. addr(t, from + i) = addr(t, from) + i
        BY <1>1, <2>1, TerminalAssumption DEF addr, Terminals
      <3> QED
        BY <3>1, <3>2, <3>3
    <2>3. s = t /\ j = from + i
      BY <2>2, AddrInjective
    <2> QED
      BY <1>1, <2>1, <2>3
  <1>3. ASSUME s = t, j \in from .. from + n - 1
        PROVE  addr(s, j) \in addr(t, from) .. addr(t, from) + n - 1
    BY <1>1, <1>3, TerminalAssumption DEF addr, Terminals
  <1> QED
    BY <1>2, <1>3

\* memset clears the cells it is told to, if they lie in one row.
LEMMA ClearCell ==
  ASSUME NEW b, NEW t \in Terminals, NEW from \in Nat, NEW n \in Nat,
         from + n <= KBRD_BUF_LENGTH, NEW s \in Terminals, NEW j \in Cells
  PROVE  fetch(clear(b, t, from, n), addr(s, j)) =
           IF s = t /\ j \in from .. from + n - 1 THEN NUL ELSE fetch(b, addr(s, j))
  <1>1. addr(s, j) \in Bytes
    BY AddrInBuffer
  <1>2. addr(s, j) \in addr(t, from) .. addr(t, from) + n - 1
           <=> s = t /\ j \in from .. from + n - 1
    BY RangeOfRow
  <1> QED
    BY <1>1, <1>2 DEF fetch, clear

\* memmove brings down n cells within one row.
LEMMA MoveCell ==
  ASSUME NEW b, NEW t \in Terminals, NEW from \in Nat, NEW n \in Nat,
         from + n <= KBRD_BUF_LENGTH, NEW s \in Terminals, NEW j \in Cells
  PROVE  fetch(move_down(b, t, from, n), addr(s, j)) =
           IF s = t /\ j < n THEN fetch(b, addr(t, j + from)) ELSE fetch(b, addr(s, j))
  <1>0. KBRD_BUF_LENGTH \in Nat /\ j \in Nat /\ t \in Nat
    BY TerminalAssumption DEF Cells, Terminals
  <1>1. addr(s, j) \in Bytes
    BY AddrInBuffer
  <1>2. n <= KBRD_BUF_LENGTH
    BY <1>0
  <1>3. addr(s, j) \in addr(t, 0) .. addr(t, 0) + n - 1 <=> s = t /\ j \in 0 .. 0 + n - 1
    BY <1>2, RangeOfRow
  <1>4. j \in 0 .. 0 + n - 1 <=> j < n
    BY <1>0
  <1>5. addr(t, j) + from = addr(t, j + from)
    BY <1>0 DEF addr
  <1>6. fetch(move_down(b, t, from, n), addr(s, j)) =
          IF addr(s, j) \in addr(t, 0) .. addr(t, 0) + n - 1
          THEN fetch(b, addr(s, j) + from) ELSE b[addr(s, j)]
    BY <1>1 DEF fetch, move_down
  <1>7. b[addr(s, j)] = fetch(b, addr(s, j))
    BY <1>1 DEF fetch
  <1> QED
    BY <1>3, <1>4, <1>5, <1>6, <1>7

-----------------------------------------------------------------------------
(* Types.                                                                  *)

\* The types of the variables TypeOK does not mention.
RestTypes ==
    /\ reader \in [Terminals -> {"idle", "lock", "clear", "wait", "copy", "unlock", "forget"}]
    /\ nbytes \in [Terminals -> Nat]
    /\ \A t \in Terminals : reader[t] # "idle" => nbytes[t] \in ReadSizes
    /\ typed \in [Terminals -> Seq(Chars)]
    /\ got \in [Terminals -> Seq(Chars \cup {Newline})]

\* What every proof below starts from.
Types == TypeOK /\ RestTypes

\* What a key puts into the buffer is a character of the tables.
LEMMA ScancodeChar ==
  ASSUME NEW key, NEW flags
  PROVE  kbrdscancode(key, flags) \in Chars
  BY DEF kbrdscancode, Chars

\* The buffer keeps its type.
LEMMA BufferTypes ==
  ASSUME NEW b \in [Bytes -> Chars]
  PROVE  /\ \A a : fetch(b, a) \in Chars
         /\ \A a, c : c \in Chars => store(b, a, c) \in [Bytes -> Chars]
         /\ \A t, from, n : clear(b, t, from, n) \in [Bytes -> Chars]
         /\ \A t, from, n : move_down(b, t, from, n) \in [Bytes -> Chars]
  <1>1. NUL \in Chars
    BY DEF Chars
  <1>2. \A a : fetch(b, a) \in Chars
    BY SMTT(60), <1>1 DEF fetch
  <1> QED
    BY <1>1, <1>2 DEF store, clear, move_down

\* line_marker stays a byte.
LEMMA ByteRange ==
  /\ \A n \in Int : uint8(n) \in 0 .. 255
  /\ \A n \in 0 .. 255 : uint8(n - 1) \in 0 .. 255 /\ uint8(n + 1) \in 0 .. 255
  <1>1. \A n \in Int : uint8(n) \in 0 .. 255
    BY DEF uint8
  <1>2. \A n \in 0 .. 255 : n - 1 \in Int /\ n + 1 \in Int
    OBVIOUS
  <1> QED
    BY ZenonT(60), <1>1, <1>2

\* Dropping the last character of a text leaves a text.
LEMMA DropLast ==
  ASSUME NEW S, NEW s \in Seq(S)
  PROVE  SubSeq(s, 1, Len(s) - 1) \in Seq(S)
  OBVIOUS

\* The flag a modifier key works on.
LEMMA FlagTypes ==
  ASSUME NEW key \in ModKeys
  PROVE  flag_of(key) \in {"ctrl", "shift", "alt"}
  BY TerminalAssumption DEF flag_of

\* The statics start with their types.
LEMMA InitTypes == Init => Types
  <1>1. 0 \in Terminals /\ 0 \in 0 .. KBRD_BUF_LENGTH - 1 /\ NUL \in Chars
    BY TerminalAssumption DEF Terminals, Chars
  <1> QED
    BY <1>1 DEF Init, Types, TypeOK, RestTypes

\* Every key and every statement of terminal_read keeps the types.
LEMMA NextTypes ==
  ASSUME Types, [Next]_vars
  PROVE  Types'
  <1> USE DEF Types, TypeOK, RestTypes
  <1>0. NUL \in Chars /\ KBRD_BUF_LENGTH \in Nat /\ KBRD_BUF_LENGTH >= 2
        /\ ReadSizes \subseteq Nat \ {0}
    BY TerminalAssumption DEF Chars
  <1>00. current_terminal \in Terminals /\ line_marker[current_terminal] \in 0 .. 255
        /\ \A t \in Terminals : nbytes[t] \in Nat
    OBVIOUS
  <1>1. ASSUME NEW key \in ModKeys, press_modifier(key) PROVE Types'
    BY ZenonT(60), <1>1, FlagTypes DEF press_modifier, bufVars, readerVars
  <1>2. ASSUME NEW key \in ModKeys, release_modifier(key) PROVE Types'
    BY <1>2 DEF release_modifier, released, bufVars, readerVars
  <1>3. CASE press_caps
    BY ZenonT(60), <1>3 DEF press_caps, bufVars, readerVars
  <1>4. ASSUME NEW t \in Terminals, press_function(t) PROVE Types'
    BY <1>4 DEF press_function, modVars, bufVars, readerVars
  <1>5. CASE press_enter
    <2>1. kbrd_buf' \in [Bytes -> Chars] /\ line_marker' \in [Terminals -> 0 .. 255]
      <3>1. CASE read_lock[current_terminal] = 0
        <4>1. kbrd_buf' = clear(kbrd_buf, current_terminal, 0, KBRD_BUF_LENGTH)
              /\ line_marker' = [line_marker EXCEPT ![current_terminal] = 0]
          BY <1>5, <3>1 DEF press_enter, unread
        <4> QED
          BY SMTT(60), <4>1, BufferTypes
      <3>2. CASE read_lock[current_terminal] # 0
        BY ZenonT(60), <1>5, <3>2 DEF press_enter, unread
      <3> QED
        BY <3>1, <3>2
    <2>2. kbrd_buf_length' \in [Terminals -> 0 .. KBRD_BUF_LENGTH - 1]
      BY <1>0, <1>5 DEF press_enter, enter_length
    <2>3. is_enter' \in [Terminals -> {0, 1}] /\ typed' \in [Terminals -> Seq(Chars)]
      BY SMTT(60), <1>5 DEF press_enter, enter_flag
    <2> QED
      BY <1>5, <2>1, <2>2, <2>3 DEF press_enter, modVars, readerVars
  <1>6. CASE press_backspace
    <2>1. kbrd_buf' \in [Bytes -> Chars]
      BY <1>0, <1>6, BufferTypes DEF press_backspace
    <2>2. line_marker' \in [Terminals -> 0 .. 255]
      <3>1. uint8(line_marker[current_terminal] - 1) \in 0 .. 255
        BY <1>00, ByteRange
      <3>2. line_marker' = [line_marker EXCEPT ![current_terminal] =
                              uint8(line_marker[current_terminal] - 1)]
        BY <1>6 DEF press_backspace
      <3> QED
        BY SMTT(60), <3>1, <3>2
    <2>3. kbrd_buf_length' \in [Terminals -> 0 .. KBRD_BUF_LENGTH - 1]
      BY <1>0, <1>6 DEF press_backspace, can_erase
    <2>4. typed' \in [Terminals -> Seq(Chars)]
      <3>1. SubSeq(typed[current_terminal], 1, Len(typed[current_terminal]) - 1) \in Seq(Chars)
        BY SMTT(60), DropLast
      <3> QED
        BY <1>6, <3>1 DEF press_backspace
    <2> QED
      BY <1>6, <2>1, <2>2, <2>3, <2>4 DEF press_backspace, modVars, readerVars
  <1>7. ASSUME NEW key, press_key(key) PROVE Types'
    <2>1. kbrdscancode(key, mods[current_terminal]) \in Chars
      BY ScancodeChar
    <2>2. kbrd_buf' \in [Bytes -> Chars]
      BY <1>7, <2>1, BufferTypes DEF press_key
    <2>3. line_marker' \in [Terminals -> 0 .. 255]
      <3>1. uint8(line_marker[current_terminal] + 1) \in 0 .. 255
        BY <1>00, ByteRange
      <3>2. line_marker' = [line_marker EXCEPT ![current_terminal] =
                              uint8(line_marker[current_terminal] + 1)]
        BY <1>7 DEF press_key
      <3> QED
        BY SMTT(60), <3>1, <3>2
    <2>4. kbrd_buf_length' \in [Terminals -> 0 .. KBRD_BUF_LENGTH - 1]
      BY <1>0, <1>7 DEF press_key
    <2>5. typed' \in [Terminals -> Seq(Chars)]
      BY <1>7, <2>1 DEF press_key
    <2> QED
      BY <1>7, <2>2, <2>3, <2>4, <2>5 DEF press_key, modVars, readerVars
  <1>8. ASSUME NEW t \in Terminals, NEW n \in ReadSizes, read_call(t, n) PROVE Types'
    BY <1>0, <1>8 DEF read_call, step, modVars
  <1>9. ASSUME NEW t \in Terminals, take_lock(t) \/ clear_enter(t) \/ see_enter(t) \/ drop_lock(t)
        PROVE  Types'
    <2>1. CASE take_lock(t)
      BY ZenonT(60), <2>1 DEF take_lock, step, modVars
    <2>2. CASE clear_enter(t)
      BY ZenonT(60), <2>2 DEF clear_enter, step, modVars
    <2>3. CASE see_enter(t)
      BY ZenonT(60), <2>3 DEF see_enter, step, modVars
    <2>4. CASE drop_lock(t)
      BY ZenonT(60), <2>4 DEF drop_lock, step, modVars
    <2> HIDE DEF Types
    <2> QED
      BY <1>9, <2>1, <2>2, <2>3, <2>4
  <1>10. ASSUME NEW t \in Terminals, forget_enter(t) PROVE Types'
    <2>1. /\ reader' = [reader EXCEPT ![t] = "idle"]
          /\ is_enter' = [is_enter EXCEPT ![current_terminal] = 0]
          /\ nbytes' = [nbytes EXCEPT ![t] = 0] /\ got' = [got EXCEPT ![t] = <<>>]
          /\ UNCHANGED <<current_terminal, modVars, kbrd_buf_length, typed>>
          /\ UNCHANGED <<kbrd_buf, line_marker, read_lock>>
      <3> HIDE DEF Types
      <3> QED
        BY <1>10 DEF forget_enter, step
    <2>2. TypeOK'
      BY ZenonT(60), <2>1 DEF modVars
    <2>3. /\ nbytes' \in [Terminals -> Nat]
          /\ \A s \in Terminals : reader'[s] # "idle" => nbytes'[s] \in ReadSizes
      BY SMTT(60), <2>1
    <2>4. got' \in [Terminals -> Seq(Chars \cup {Newline})]
      BY SMTT(60), <2>1
    <2>5. reader' \in [Terminals -> {"idle", "lock", "clear", "wait", "copy", "unlock", "forget"}]
      BY SMTT(60), <2>1
    <2> HIDE DEF TypeOK
    <2> QED
      BY <2>1, <2>2, <2>3, <2>4, <2>5 DEF modVars
  <1>11. ASSUME NEW t \in Terminals, copy_line(t) PROVE Types'
    <2> DEFINE d == current_terminal
               n == IF nbytes[t] < KBRD_BUF_LENGTH THEN nbytes[t] ELSE KBRD_BUF_LENGTH
               w == write_bytes(line_marker[d], nbytes[t])
               line == [k \in 1 .. n |-> IF k < n THEN fetch(kbrd_buf, addr(d, k - 1)) ELSE Newline]
    <2>1. /\ got' = [got EXCEPT ![t] = line]
          /\ kbrd_buf' = clear(move_down(kbrd_buf, d, n - 1, w), d, w, n)
          /\ line_marker' = [line_marker EXCEPT ![d] = uint8(w)]
      BY <1>11 DEF copy_line
    <2>2. n \in Nat /\ w \in Int
      <3>1. nbytes[t] \in Nat /\ line_marker[d] \in Int
        <4> HIDE DEF Types, TypeOK, RestTypes
        <4> QED
          BY <1>00
      <3> QED
        BY SMTT(60), <1>0, <3>1 DEF write_bytes
    <2>3. kbrd_buf' \in [Bytes -> Chars]
      <3> HIDE DEF n, w
      <3> QED
        BY <2>1, BufferTypes
    <2>4. line_marker' \in [Terminals -> 0 .. 255]
      <3>1. uint8(w) \in 0 .. 255
        BY <2>2, ByteRange
      <3> HIDE DEF w
      <3> QED
        BY SMTT(60), <2>1, <3>1
    <2>5. got' \in [Terminals -> Seq(Chars \cup {Newline})]
      <3>1. \A k \in 1 .. n : line[k] \in Chars \cup {Newline}
        BY BufferTypes
      <3>2. line \in Seq(Chars \cup {Newline})
        <4> HIDE DEF n
        <4> QED
          BY <2>2, <3>1
      <3> HIDE DEF line
      <3> QED
        BY <2>1, <3>2
    <2> QED
      BY ZenonT(60), <1>11, <2>3, <2>4, <2>5 DEF copy_line, step, modVars
  <1>12. CASE UNCHANGED vars
    BY <1>12 DEF vars, modVars, bufVars, readerVars
  <1> QED
    BY <1>1, <1>2, <1>3, <1>4, <1>5, <1>6, <1>7, <1>8, <1>9, <1>10, <1>11, <1>12
       DEF Next, kbrd_int, terminal_read

\* The types of keyboard.c: no sequence of keys and reads, however the readers
\* interleave, takes line_marker or kbrd_buf_length out of its range.
THEOREM TerminalTypes == Spec => []TypeOK
  BY InitTypes, NextTypes, PTL DEF Spec, Types

-----------------------------------------------------------------------------
(* The display and the modifier flags.                                     *)

\* If programs read on the terminal shown, and the user changes terminals while
\* nobody reads, every reader is on the terminal shown until its read returns.
LockPart ==
    /\ \A t \in Terminals : reader[t] # "idle" => t = current_terminal
    /\ LockFollowsReader

\* No terminal is locked at first.
LEMMA InitLock == Init => LockPart
  BY DEF Init, LockPart, LockFollowsReader

\* Every key and every statement of terminal_read keeps readers on the terminal
\* shown and the lock theirs.
LEMMA NextLock ==
  ASSUME "foreground" \in Habits, Types, LockPart, [Next]_vars
  PROVE  LockPart'
  <1> USE DEF LockPart, LockFollowsReader
  <1>0. /\ current_terminal \in Terminals /\ read_lock \in [Terminals -> {0, 1}]
        /\ reader \in [Terminals -> {"idle", "lock", "clear", "wait", "copy", "unlock", "forget"}]
    BY DEF Types, TypeOK, RestTypes
  <1>1. ASSUME NEW t \in Terminals, press_function(t) PROVE LockPart'
    BY <1>1 DEF press_function, NobodyReads, readerVars
  <1>2. CASE UNCHANGED <<current_terminal, read_lock, reader>>
    BY <1>2
  <1>3. ASSUME NEW t \in Terminals, NEW n \in ReadSizes, read_call(t, n) PROVE LockPart'
    BY <1>0, <1>3 DEF read_call, step
  <1>4. ASSUME NEW t \in Terminals, terminal_read(t) PROVE LockPart'
    <2>1. CASE take_lock(t)
      BY <1>0, <2>1 DEF take_lock, step
    <2>2. CASE clear_enter(t)
      BY <1>0, <2>2 DEF clear_enter, step
    <2>3. CASE see_enter(t)
      BY <1>0, <2>3 DEF see_enter, step
    <2>4. CASE copy_line(t)
      BY <1>0, <2>4 DEF copy_line, step
    <2>5. CASE drop_lock(t)
      BY <1>0, <2>5 DEF drop_lock, step
    <2>6. CASE forget_enter(t)
      BY <1>0, <2>6 DEF forget_enter, step
    <2> QED
      BY <1>4, <2>1, <2>2, <2>3, <2>4, <2>5, <2>6 DEF terminal_read
  <1>5. CASE \/ \E key \in ModKeys : press_modifier(key) \/ release_modifier(key)
             \/ press_caps \/ press_enter \/ press_backspace
             \/ \E key \in Letters \cup {"unmapped"} : press_key(key)
    <2>1. UNCHANGED <<current_terminal, read_lock, reader>>
      BY <1>5 DEF press_modifier, release_modifier, press_caps, press_enter, press_backspace,
                  press_key, readerVars
    <2> QED
      BY <1>2, <2>1
  <1>6. CASE UNCHANGED vars
    BY <1>2, <1>6 DEF vars, readerVars
  <1> QED
    BY <1>1, <1>3, <1>4, <1>5, <1>6 DEF Next, kbrd_int

\* A terminal is locked exactly while its reader may wait for a line, for programs
\* that read on the terminal shown.
THEOREM LockCorrect ==
  ASSUME "foreground" \in Habits
  PROVE  Spec => []LockFollowsReader
  <1>1. LockPart => LockFollowsReader
    BY DEF LockPart
  <1> QED
    BY <1>1, InitTypes, NextTypes, InitLock, NextLock, PTL DEF Spec

\* For such programs Enter drops no line that a process waits for.
THEOREM EnterCorrect ==
  ASSUME "foreground" \in Habits
  PROVE  Spec => EnterKeepsLine
  <1>1. ASSUME Types, LockPart, press_enter, reader[current_terminal] = "wait"
        PROVE  line_marker'[current_terminal] = line_marker[current_terminal]
    <2>1. ~ unread(current_terminal)
      BY <1>1 DEF Types, TypeOK, LockPart, LockFollowsReader, unread
    <2> QED
      BY <1>1, <2>1 DEF press_enter
  <1>2. ASSUME Types, LockPart
        PROVE  [press_enter /\ reader[current_terminal] = "wait" =>
                  line_marker'[current_terminal] = line_marker[current_terminal]]_vars
    BY <1>1, <1>2
  <1> QED
    BY <1>2, InitTypes, NextTypes, InitLock, NextLock, PTL DEF Spec, EnterKeepsLine

\* A terminal that is not shown was left with no flag but Alt and caps lock set.
FlagPart ==
    /\ FlagsFollowKeys
    /\ \A t \in Terminals \ {current_terminal} : mods[t] \subseteq {"alt", "caps"}

\* Steps of the keyboard's text and of the readers leave the flags alone.
LEMMA FlagFrame ==
  ASSUME FlagPart, UNCHANGED <<current_terminal, held, mods>>
  PROVE  FlagPart'
  BY DEF FlagPart, FlagsFollowKeys

\* If the user holds only Alt when changing terminals, a modifier flag of the
\* terminal shown is set only while a key of it is down: the flag that Alt leaves
\* behind on another terminal is cleared before it is ever mistaken.
THEOREM FlagsCorrect ==
  ASSUME "alt_only" \in Habits
  PROVE  Spec => []FlagsFollowKeys
  <1>1. Init => FlagPart
    BY TerminalAssumption DEF Init, FlagPart, FlagsFollowKeys, Terminals
  <1>2. ASSUME Types, FlagPart, [Next]_vars PROVE FlagPart'
    <2>0. current_terminal \in Terminals /\ mods \in [Terminals -> SUBSET {"ctrl", "shift", "alt", "caps"}]
          /\ held \subseteq ModKeys
      BY <1>2 DEF Types, TypeOK
    <2>1. ASSUME NEW key \in ModKeys, press_modifier(key) PROVE FlagPart'
      BY <1>2, <2>0, <2>1 DEF press_modifier, FlagPart, FlagsFollowKeys
    <2>2. ASSUME NEW key \in ModKeys, release_modifier(key) PROVE FlagPart'
      BY <1>2, <2>0, <2>2 DEF release_modifier, released, FlagPart, FlagsFollowKeys
    <2>3. CASE press_caps
      BY <1>2, <2>0, <2>3 DEF press_caps, FlagPart, FlagsFollowKeys
    <2>4. ASSUME NEW t \in Terminals, press_function(t) PROVE FlagPart'
      <3>1. /\ held \subseteq {"alt"} /\ "alt" \in mods[current_terminal]
            /\ t # current_terminal /\ current_terminal' = t /\ UNCHANGED <<held, mods>>
        BY <2>4 DEF press_function, modVars
      <3>2. "alt" \in held
        BY <1>2, <3>1 DEF FlagPart, FlagsFollowKeys
      <3>3. flag_of("alt") = "alt"
        BY DEF flag_of
      <3>4. mods[current_terminal] \subseteq {"alt", "caps"} /\ mods[t] \subseteq {"alt", "caps"}
        BY <1>2, <3>1, <3>3 DEF FlagPart, FlagsFollowKeys
      <3> QED
        BY <1>2, <3>1, <3>2, <3>3, <3>4 DEF FlagPart, FlagsFollowKeys
    <2>5. CASE press_enter \/ press_backspace \/ \E key \in Letters \cup {"unmapped"} : press_key(key)
      BY <1>2, <2>5, FlagFrame DEF press_enter, press_backspace, press_key, modVars
    <2>6. ASSUME NEW t \in Terminals, terminal_read(t) \/ \E n \in ReadSizes : read_call(t, n)
          PROVE  FlagPart'
      <3>1. UNCHANGED <<current_terminal, modVars>>
        BY <2>6 DEF terminal_read, take_lock, clear_enter, see_enter, copy_line, drop_lock,
                    forget_enter, read_call, step
      <3> QED
        BY <1>2, <3>1, FlagFrame DEF modVars
    <2>7. CASE UNCHANGED vars
      BY <1>2, <2>7, FlagFrame DEF vars, modVars
    <2> QED
      BY <1>2, <2>1, <2>2, <2>3, <2>4, <2>5, <2>6, <2>7 DEF Next, kbrd_int
  <1>3. FlagPart => FlagsFollowKeys
    BY DEF FlagPart
  <1> QED
    BY <1>1, <1>2, <1>3, InitTypes, NextTypes, PTL DEF Spec

-----------------------------------------------------------------------------
(* The input line, for careful users and programs.                         *)

\* One row of the buffer.
Row(b, t) == [j \in Cells |-> fetch(b, addr(t, j))]

\* A store at cell k of row t.
LEMMA StoreRow ==
  ASSUME NEW b, b = [a \in Bytes |-> b[a]], NEW t \in Terminals, NEW k \in Cells, NEW c,
         NEW s \in Terminals
  PROVE  Row(store(b, addr(t, k), c), s) =
           IF s = t THEN [j \in Cells |-> IF j = k THEN c ELSE Row(b, t)[j]] ELSE Row(b, s)
  <1>1. DOMAIN b = Bytes
    OBVIOUS
  <1> QED
    BY <1>1, StoreCell DEF Row

\* memset of n cells of row t.
LEMMA ClearRow ==
  ASSUME NEW b, NEW t \in Terminals, NEW from \in Nat, NEW n \in Nat,
         from + n <= KBRD_BUF_LENGTH, NEW s \in Terminals
  PROVE  Row(clear(b, t, from, n), s) =
           IF s = t THEN [j \in Cells |-> IF j \in from .. from + n - 1 THEN NUL ELSE Row(b, t)[j]]
           ELSE Row(b, s)
  BY ClearCell DEF Row

\* memmove of n cells of row t.
LEMMA MoveRow ==
  ASSUME NEW b, NEW t \in Terminals, NEW from \in Nat, NEW n \in Nat,
         from + n <= KBRD_BUF_LENGTH, NEW s \in Terminals
  PROVE  /\ s # t => Row(move_down(b, t, from, n), s) = Row(b, s)
         /\ s = t => \A j \in Cells : Row(move_down(b, t, from, n), s)[j] =
                       IF j < n THEN Row(b, t)[j + from] ELSE Row(b, t)[j]
  <1>1. ASSUME NEW j \in Cells, j < n PROVE j + from \in Cells
    BY <1>1, TerminalAssumption DEF Cells
  <1> QED
    BY <1>1, MoveCell DEF Row

\* What terminal_read copies and keeps of a line that fits the buffer.
LEMMA CopySizes ==
  ASSUME NEW nb \in Nat \ {0}, NEW m \in Cells, NEW n,
         n = IF nb < KBRD_BUF_LENGTH THEN nb ELSE KBRD_BUF_LENGTH
  PROVE  /\ n \in 1 .. KBRD_BUF_LENGTH
         /\ write_bytes(m, nb) = IF m < n THEN 0 ELSE m - (n - 1)
         /\ write_bytes(m, nb) \in 0 .. m
         /\ write_bytes(m, nb) + n <= KBRD_BUF_LENGTH
  BY TerminalAssumption DEF Cells, write_bytes

\* The row that terminal_read leaves.
LEMMA CopyRow ==
  ASSUME NEW b, NEW t \in Terminals, NEW n \in 1 .. KBRD_BUF_LENGTH, NEW w \in Nat,
         w + n <= KBRD_BUF_LENGTH, NEW f \in Nat, f = n - 1, NEW s \in Terminals
  PROVE  Row(clear(move_down(b, t, f, w), t, w, n), s) =
           IF s = t THEN [j \in Cells |-> IF j < w THEN Row(b, t)[j + f]
                                          ELSE IF j < w + n THEN NUL ELSE Row(b, t)[j]]
           ELSE Row(b, s)
  <1>0. KBRD_BUF_LENGTH \in Nat /\ n \in Nat /\ f + w <= KBRD_BUF_LENGTH
    BY TerminalAssumption
  <1>1. ASSUME NEW u \in Terminals
        PROVE  /\ u # t => Row(move_down(b, t, f, w), u) = Row(b, u)
               /\ u = t => \A j \in Cells : Row(move_down(b, t, f, w), u)[j] =
                             IF j < w THEN Row(b, t)[j + f] ELSE Row(b, t)[j]
    BY <1>0, MoveRow
  <1>2. \A c : Row(clear(c, t, w, n), s) =
          IF s = t THEN [j \in Cells |-> IF j \in w .. w + n - 1 THEN NUL ELSE Row(c, t)[j]]
          ELSE Row(c, s)
    BY <1>0, ClearRow
  <1>3. \A j \in Cells : j \in w .. w + n - 1 <=> ~ (j < w) /\ j < w + n
    BY <1>0 DEF Cells
  <1>4. PICK c : c = move_down(b, t, f, w)
    OBVIOUS
  <1>5. CASE s = t
    <2>1. Row(clear(c, t, w, n), t) =
            [j \in Cells |-> IF j \in w .. w + n - 1 THEN NUL ELSE Row(c, t)[j]]
      BY <1>2, <1>5
    <2>2. \A j \in Cells : Row(c, t)[j] = IF j < w THEN Row(b, t)[j + f] ELSE Row(b, t)[j]
      BY <1>1, <1>4
    <2>3. Row(clear(c, t, w, n), t) = [j \in Cells |-> IF j < w THEN Row(b, t)[j + f]
                                          ELSE IF j < w + n THEN NUL ELSE Row(b, t)[j]]
      BY <1>3, <2>1, <2>2
    <2> QED
      BY <1>4, <1>5, <2>3
  <1>6. CASE s # t
    BY <1>1, <1>2, <1>6
  <1> QED
    BY <1>5, <1>6

\* Text s stands at the end of the m characters of row r, and nothing behind it.
Matches(r, m, s) ==
    /\ m \in Cells
    /\ Len(s) <= m
    /\ \A k \in 1 .. Len(s) : s[k] = r[m - Len(s) + k - 1]
    /\ \A k \in m .. KBRD_BUF_LENGTH - 1 : r[k] = NUL

\* An empty text matches where nothing lies behind it.
LEMMA MatchesEmpty ==
  ASSUME NEW r, NEW m \in Cells, \A k \in m .. KBRD_BUF_LENGTH - 1 : r[k] = NUL
  PROVE  Matches(r, m, <<>>)
  <1>1. Len(<<>>) = 0 /\ 0 <= m
    BY TerminalAssumption DEF Cells
  <1> QED
    BY <1>1 DEF Matches

\* One character more: what is typed is what is buffered.
LEMMA MatchesAppend ==
  ASSUME NEW r, NEW m \in Nat, NEW s \in Seq(Chars), NEW c \in Chars, Matches(r, m, s),
         m + 1 < KBRD_BUF_LENGTH
  PROVE  Matches([j \in Cells |-> IF j = m THEN c ELSE r[j]], m + 1, Append(s, c))
  <1>0. KBRD_BUF_LENGTH \in Nat /\ m \in Cells /\ m + 1 \in Cells /\ Len(s) \in Nat
    BY TerminalAssumption DEF Cells, Matches
  <1>1. Len(Append(s, c)) = Len(s) + 1 /\ \A k \in 1 .. Len(s) : Append(s, c)[k] = s[k]
    OBVIOUS
  <1>2. Append(s, c)[Len(s) + 1] = c
    OBVIOUS
  <1> DEFINE r1 == [j \in Cells |-> IF j = m THEN c ELSE r[j]]
  <1>3. ASSUME NEW k \in 1 .. Len(s) + 1
        PROVE  Append(s, c)[k] = r1[(m + 1) - (Len(s) + 1) + k - 1]
    <2>1. CASE k = Len(s) + 1
      <3>1. (m + 1) - (Len(s) + 1) + k - 1 = m
        BY <1>0, <2>1
      <3> QED
        BY <1>0, <1>2, <2>1, <3>1
    <2>2. CASE k # Len(s) + 1
      <3>1. k \in 1 .. Len(s)
        BY <1>0, <2>2
      <3>2. (m + 1) - (Len(s) + 1) + k - 1 = m - Len(s) + k - 1
        BY <1>0
      <3>3. m - Len(s) + k - 1 \in Cells /\ m - Len(s) + k - 1 # m
        BY <1>0, <3>1 DEF Matches, Cells
      <3>4. s[k] = r[m - Len(s) + k - 1]
        BY <3>1 DEF Matches
      <3>5. r1[m - Len(s) + k - 1] = r[m - Len(s) + k - 1]
        BY <3>3
      <3> QED
        BY <1>1, <3>1, <3>2, <3>4, <3>5
    <2> QED
      BY <2>1, <2>2
  <1>4. \A k \in m + 1 .. KBRD_BUF_LENGTH - 1 : r1[k] = NUL
    BY <1>0 DEF Matches, Cells
  <1>5. Len(s) + 1 <= m + 1
    BY <1>0 DEF Matches
  <1> HIDE DEF r1
  <1>6. Matches(r1, m + 1, Append(s, c))
    BY <1>0, <1>1, <1>3, <1>4, <1>5 DEF Matches
  <1> QED
    BY <1>6 DEF r1

\* One character less.
LEMMA MatchesErase ==
  ASSUME NEW r, NEW m \in Nat, NEW s \in Seq(Chars), Matches(r, m, s), Len(s) > 0
  PROVE  Matches([j \in Cells |-> IF j = m - 1 THEN NUL ELSE r[j]], m - 1,
                 SubSeq(s, 1, Len(s) - 1))
  <1>0. KBRD_BUF_LENGTH \in Nat /\ m \in Cells /\ m - 1 \in Cells /\ Len(s) \in Nat /\ Len(s) <= m
    BY TerminalAssumption DEF Cells, Matches
  <1> DEFINE r1 == [j \in Cells |-> IF j = m - 1 THEN NUL ELSE r[j]]
             u  == SubSeq(s, 1, Len(s) - 1)
  <1>1. Len(u) = Len(s) - 1 /\ \A k \in 1 .. Len(s) - 1 : u[k] = s[k]
    <2>1. Len(s) - 1 \in Nat /\ Len(s) - 1 <= Len(s)
      BY <1>0
    <2>2. u = [k \in 1 .. Len(s) - 1 |-> s[k]]
      BY <2>1
    <2> HIDE DEF u
    <2> QED
      BY <2>1, <2>2
  <1>2. ASSUME NEW k \in 1 .. Len(s) - 1
        PROVE  u[k] = r1[(m - 1) - (Len(s) - 1) + k - 1]
    <2>1. (m - 1) - (Len(s) - 1) + k - 1 = m - Len(s) + k - 1
      BY <1>0
    <2>2. m - Len(s) + k - 1 \in Cells /\ m - Len(s) + k - 1 # m - 1 /\ k \in 1 .. Len(s)
      BY <1>0 DEF Cells
    <2>3. s[k] = r[m - Len(s) + k - 1]
      BY <2>2 DEF Matches
    <2>4. r1[m - Len(s) + k - 1] = r[m - Len(s) + k - 1]
      BY <2>2
    <2> QED
      BY <1>1, <2>1, <2>3, <2>4
  <1>3. \A k \in m - 1 .. KBRD_BUF_LENGTH - 1 : r1[k] = NUL
    BY <1>0 DEF Matches, Cells
  <1> HIDE DEF r1, u
  <1>4. Len(u) <= m - 1
    BY <1>0, <1>1
  <1>5. Matches(r1, m - 1, u)
    BY <1>0, <1>1, <1>2, <1>3, <1>4 DEF Matches
  <1> QED
    BY <1>5 DEF r1, u

\* The user types only at a prompt and keeps to lines that fit the buffer, and
\* programs read on the terminal that is shown.
Careful ==
    /\ {"prompt", "foreground"} \subseteq Habits
    /\ MarkerBound < KBRD_BUF_LENGTH
    /\ KBRD_BUF_LENGTH <= 256

\* Only the terminal shown is read from; a read that has seen Enter finds no
\* unfinished line; the end of the buffered text is the line being typed.
LinePart ==
    \A t \in Terminals :
        /\ reader[t] # "idle" => t = current_terminal
        /\ \/ reader[t] \in {"copy", "unlock", "forget"}
           \/ reader[t] = "wait" /\ is_enter[t] = 1
           => typed[t] = <<>>
        /\ kbrd_buf_length[t] = Len(typed[t])
        /\ Matches(Row(kbrd_buf, t), line_marker[t], typed[t])

\* What LinePart says of one terminal.
LEMMA OneLine ==
  ASSUME Types, LinePart, NEW t \in Terminals
  PROVE  /\ line_marker[t] \in Cells /\ line_marker[t] \in Nat
         /\ typed[t] \in Seq(Chars) /\ Len(typed[t]) <= line_marker[t]
         /\ kbrd_buf = [a \in Bytes |-> kbrd_buf[a]]
         /\ kbrd_buf_length[t] = Len(typed[t])
         /\ Matches(Row(kbrd_buf, t), line_marker[t], typed[t])
         /\ \A k \in line_marker[t] .. KBRD_BUF_LENGTH - 1 : Row(kbrd_buf, t)[k] = NUL
  <1>1. typed[t] \in Seq(Chars) /\ kbrd_buf = [a \in Bytes |-> kbrd_buf[a]]
    BY DEF Types, TypeOK, RestTypes
  <1>2. kbrd_buf_length[t] = Len(typed[t]) /\ Matches(Row(kbrd_buf, t), line_marker[t], typed[t])
    BY DEF LinePart
  <1>3. /\ line_marker[t] \in Cells /\ Len(typed[t]) <= line_marker[t]
        /\ \A k \in line_marker[t] .. KBRD_BUF_LENGTH - 1 : Row(kbrd_buf, t)[k] = NUL
    BY <1>2 DEF Matches
  <1>4. line_marker[t] \in Nat
    BY <1>3, TerminalAssumption DEF Cells
  <1> QED
    BY <1>1, <1>2, <1>3, <1>4

\* A key that is buffered.
LEMMA KeyEffect ==
  ASSUME Careful, Types, LinePart, NEW key, press_key(key),
         NEW t, t = current_terminal, NEW m, m = line_marker[t],
         NEW c, c = kbrdscancode(key, mods[t])
  PROVE  /\ t \in Terminals /\ c \in Chars /\ m + 1 \in Cells
         /\ line_marker' = [line_marker EXCEPT ![t] = m + 1]
         /\ typed' = [typed EXCEPT ![t] = Append(typed[t], c)]
         /\ kbrd_buf_length' = [kbrd_buf_length EXCEPT ![t] = kbrd_buf_length[t] + 1]
         /\ Row(kbrd_buf', t) = [j \in Cells |-> IF j = m THEN c ELSE Row(kbrd_buf, t)[j]]
         /\ \A s \in Terminals \ {t} : Row(kbrd_buf', s) = Row(kbrd_buf, s)
  <1>1. t \in Terminals /\ c \in Chars
    BY ScancodeChar DEF Types, TypeOK
  <1>2. m \in Cells /\ m \in Nat /\ kbrd_buf = [a \in Bytes |-> kbrd_buf[a]]
    BY <1>1, OneLine
  <1>3. m < MarkerBound
    BY DEF press_key
  <1>4. m + 1 \in Cells /\ uint8(m + 1) = m + 1
    BY <1>2, <1>3, TerminalAssumption DEF Careful, Cells, uint8
  <1>5. /\ kbrd_buf' = store(kbrd_buf, addr(t, m), c)
        /\ line_marker' = [line_marker EXCEPT ![t] = uint8(line_marker[t] + 1)]
        /\ typed' = [typed EXCEPT ![t] = Append(typed[t], c)]
        /\ kbrd_buf_length' = [kbrd_buf_length EXCEPT ![t] = kbrd_buf_length[t] + 1]
    BY DEF press_key
  <1>6. \A s \in Terminals : Row(kbrd_buf', s) =
          IF s = t THEN [j \in Cells |-> IF j = m THEN c ELSE Row(kbrd_buf, t)[j]]
          ELSE Row(kbrd_buf, s)
    BY SMTT(60), <1>1, <1>2, <1>5, StoreRow
  <1> QED
    BY <1>1, <1>4, <1>5, <1>6

\* Backspace.
LEMMA EraseEffect ==
  ASSUME Careful, Types, LinePart, press_backspace,
         NEW t, t = current_terminal, NEW m, m = line_marker[t]
  PROVE  /\ t \in Terminals /\ m - 1 \in Cells /\ Len(typed[t]) > 0
         /\ line_marker' = [line_marker EXCEPT ![t] = m - 1]
         /\ typed' = [typed EXCEPT ![t] = SubSeq(typed[t], 1, Len(typed[t]) - 1)]
         /\ kbrd_buf_length' = [kbrd_buf_length EXCEPT ![t] = kbrd_buf_length[t] - 1]
         /\ Row(kbrd_buf', t) = [j \in Cells |-> IF j = m - 1 THEN NUL ELSE Row(kbrd_buf, t)[j]]
         /\ \A s \in Terminals \ {t} : Row(kbrd_buf', s) = Row(kbrd_buf, s)
  <1>1. t \in Terminals
    BY DEF Types, TypeOK
  <1>2. m \in Cells /\ m \in Nat /\ kbrd_buf = [a \in Bytes |-> kbrd_buf[a]]
        /\ Len(typed[t]) <= m /\ Len(typed[t]) \in Nat
    BY <1>1, OneLine
  <1>3. Len(typed[t]) > 0
    BY <1>1 DEF press_backspace, can_erase, LinePart
  <1>4. m - 1 \in Cells /\ uint8(m - 1) = m - 1
    <2>0. KBRD_BUF_LENGTH \in Nat /\ KBRD_BUF_LENGTH <= 256
      BY TerminalAssumption DEF Careful
    <2>1. m - 1 \in 0 .. 255 /\ m - 1 \in Cells
      <3>1. m >= 1
        BY <1>2, <1>3
      <3>2. m \in Nat /\ m \in 0 .. KBRD_BUF_LENGTH - 1
        BY <1>2 DEF Cells
      <3>3. m - 1 \in 0 .. 255 /\ m - 1 \in 0 .. KBRD_BUF_LENGTH - 1
        BY ONLY <2>0, <3>1, <3>2
      <3> QED
        BY <3>3 DEF Cells
    <2>2. \A x \in 0 .. 255 : uint8(x) = x
      BY DEF uint8
    <2> QED
      BY <2>1, <2>2
  <1>5. /\ kbrd_buf' = store(kbrd_buf, addr(t, m - 1), NUL)
        /\ line_marker' = [line_marker EXCEPT ![t] = uint8(line_marker[t] - 1)]
        /\ typed' = [typed EXCEPT ![t] = SubSeq(typed[t], 1, Len(typed[t]) - 1)]
        /\ kbrd_buf_length' = [kbrd_buf_length EXCEPT ![t] = kbrd_buf_length[t] - 1]
    BY DEF press_backspace
  <1>6. \A s \in Terminals : Row(kbrd_buf', s) =
          IF s = t THEN [j \in Cells |-> IF j = m - 1 THEN NUL ELSE Row(kbrd_buf, t)[j]]
          ELSE Row(kbrd_buf, s)
    BY SMTT(60), <1>1, <1>2, <1>4, <1>5, StoreRow
  <1> QED
    BY <1>1, <1>3, <1>4, <1>5, <1>6

\* Enter on a terminal that is not read from.
LEMMA EnterEffect ==
  ASSUME Types, press_enter, read_lock[current_terminal] = 0, NEW t, t = current_terminal
  PROVE  /\ t \in Terminals
         /\ line_marker' = [line_marker EXCEPT ![t] = 0]
         /\ Row(kbrd_buf', t) = [j \in Cells |-> NUL]
         /\ \A s \in Terminals \ {t} : Row(kbrd_buf', s) = Row(kbrd_buf, s)
  <1>1. t \in Terminals /\ KBRD_BUF_LENGTH \in Nat
    BY TerminalAssumption DEF Types, TypeOK
  <1>2. kbrd_buf' = clear(kbrd_buf, t, 0, KBRD_BUF_LENGTH)
        /\ line_marker' = [line_marker EXCEPT ![t] = 0]
    BY DEF press_enter, unread
  <1>3. \A s \in Terminals : Row(kbrd_buf', s) =
          IF s = t THEN [j \in Cells |-> IF j \in 0 .. 0 + KBRD_BUF_LENGTH - 1 THEN NUL
                                         ELSE Row(kbrd_buf, t)[j]]
          ELSE Row(kbrd_buf, s)
    BY SMTT(60), <1>1, <1>2, ClearRow
  <1>4. \A j \in Cells : j \in 0 .. 0 + KBRD_BUF_LENGTH - 1
    BY <1>1 DEF Cells
  <1> QED
    BY <1>1, <1>2, <1>3, <1>4

\* The copy in terminal_read.
LEMMA CopyEffect ==
  ASSUME Careful, Types, LinePart, NEW t \in Terminals, copy_line(t),
         NEW m, m = line_marker[t], NEW n,
         n = IF nbytes[t] < KBRD_BUF_LENGTH THEN nbytes[t] ELSE KBRD_BUF_LENGTH,
         NEW w, w = write_bytes(m, nbytes[t])
  PROVE  /\ t = current_terminal /\ typed[t] = <<>> /\ nbytes[t] \in ReadSizes
         /\ n \in 1 .. KBRD_BUF_LENGTH /\ w \in 0 .. m
         /\ w = IF m < n THEN 0 ELSE m - (n - 1)
         /\ line_marker' = [line_marker EXCEPT ![t] = w]
         /\ got' = [got EXCEPT ![t] = [k \in 1 .. n |-> IF k < n THEN fetch(kbrd_buf, addr(t, k - 1))
                                                        ELSE Newline]]
         /\ \A j \in Cells : Row(kbrd_buf', t)[j] =
                               IF j < w THEN Row(kbrd_buf, t)[j + (n - 1)]
                               ELSE IF j < w + n THEN NUL ELSE Row(kbrd_buf, t)[j]
         /\ \A s \in Terminals \ {t} : Row(kbrd_buf', s) = Row(kbrd_buf, s)
  <1>1. t = current_terminal /\ typed[t] = <<>> /\ nbytes[t] \in ReadSizes
        /\ nbytes[t] \in Nat \ {0}
    BY TerminalAssumption DEF copy_line, step, LinePart, Types, RestTypes
  <1>2. m \in Cells /\ m \in Nat
    BY OneLine
  <1>3. /\ n \in 1 .. KBRD_BUF_LENGTH /\ w \in 0 .. m /\ w + n <= KBRD_BUF_LENGTH
        /\ w = IF m < n THEN 0 ELSE m - (n - 1)
    BY <1>1, <1>2, CopySizes
  <1>4. PICK f : f = n - 1
    OBVIOUS
  <1>5. /\ got' = [got EXCEPT ![t] = [k \in 1 .. n |-> IF k < n THEN fetch(kbrd_buf, addr(t, k - 1))
                                                       ELSE Newline]]
        /\ kbrd_buf' = clear(move_down(kbrd_buf, t, f, w), t, w, n)
        /\ line_marker' = [line_marker EXCEPT ![t] = uint8(w)]
    BY <1>1, <1>4 DEF copy_line
  <1>6. uint8(w) = w /\ f \in Nat /\ w \in Nat
    BY <1>2, <1>3, <1>4, TerminalAssumption DEF Careful, Cells, uint8
  <1>7. \A s \in Terminals : Row(kbrd_buf', s) =
           IF s = t THEN [j \in Cells |-> IF j < w THEN Row(kbrd_buf, t)[j + f]
                                          ELSE IF j < w + n THEN NUL ELSE Row(kbrd_buf, t)[j]]
           ELSE Row(kbrd_buf, s)
    BY <1>3, <1>4, <1>5, <1>6, CopyRow
  <1>8. \A j \in Cells : Row(kbrd_buf', t)[j] =
                           IF j < w THEN Row(kbrd_buf, t)[j + (n - 1)]
                           ELSE IF j < w + n THEN NUL ELSE Row(kbrd_buf, t)[j]
    BY <1>4, <1>7
  <1>9. \A s \in Terminals \ {t} : Row(kbrd_buf', s) = Row(kbrd_buf, s)
    BY <1>7
  <1> QED
    BY <1>1, <1>3, <1>5, <1>6, <1>8, <1>9

\* Steps that leave the text alone.
LEMMA LineFrame ==
  ASSUME LinePart, UNCHANGED bufVars,
         \A t \in Terminals : /\ reader'[t] # "idle" => t = current_terminal'
                              /\ \/ reader'[t] \in {"copy", "unlock", "forget"}
                                 \/ reader'[t] = "wait" /\ is_enter'[t] = 1
                                 => typed[t] = <<>>
  PROVE  LinePart'
  BY DEF LinePart, bufVars

\* At a prompt no reader is past its wait.
LEMMA AtPrompt ==
  ASSUME Careful, Prompt, NEW t \in Terminals
  PROVE  reader[t] = "idle" \/ (reader[t] = "wait" /\ is_enter[t] = 0)
  BY DEF Careful, Prompt

\* Every step of careful users and programs keeps LinePart.
LEMMA NextLine ==
  ASSUME Careful, Types, LinePart, [Next]_vars
  PROVE  LinePart'
  <1>0. current_terminal \in Terminals /\ 0 \in Cells /\ KBRD_BUF_LENGTH \in Nat
        /\ typed \in [Terminals -> Seq(Chars)] /\ line_marker \in [Terminals -> 0 .. 255]
        /\ kbrd_buf_length \in [Terminals -> 0 .. KBRD_BUF_LENGTH - 1]
        /\ is_enter \in [Terminals -> {0, 1}] /\ DOMAIN reader = Terminals
    BY SMTT(60), TerminalAssumption DEF Types, TypeOK, RestTypes, Cells
  <1>1. ASSUME NEW key \in ModKeys, press_modifier(key) \/ release_modifier(key)
        PROVE  LinePart'
    <2>1. UNCHANGED <<current_terminal, bufVars, is_enter, readerVars>>
      BY <1>1 DEF press_modifier, release_modifier
    <2> QED
      BY <2>1, LineFrame DEF LinePart, readerVars
  <1>2. CASE press_caps
    <2>1. UNCHANGED <<current_terminal, bufVars, is_enter, readerVars>>
      BY <1>2 DEF press_caps
    <2> QED
      BY <2>1, LineFrame DEF LinePart, readerVars
  <1>3. ASSUME NEW t \in Terminals, press_function(t) PROVE LinePart'
    <2>1. UNCHANGED <<bufVars, is_enter, readerVars>> /\ NobodyReads
      BY <1>3 DEF press_function, Careful
    <2> QED
      BY <2>1, LineFrame DEF LinePart, NobodyReads, readerVars
  <1>4. CASE press_enter
    <2>1. PICK t : t = current_terminal
      OBVIOUS
    <2>2. /\ typed' = [typed EXCEPT ![t] = <<>>] /\ UNCHANGED <<current_terminal, reader>>
          /\ is_enter' = [is_enter EXCEPT ![t] = 1]
          /\ kbrd_buf_length' = [kbrd_buf_length EXCEPT ![t] = 0]
      BY <1>4, <2>1 DEF press_enter, enter_flag, enter_length, readerVars
    <2>3. \A s \in Terminals \ {t} : /\ Row(kbrd_buf', s) = Row(kbrd_buf, s)
                                     /\ line_marker'[s] = line_marker[s]
      <3>1. CASE read_lock[t] = 0
        BY <1>0, <1>4, <2>1, <3>1, EnterEffect
      <3>2. CASE read_lock[t] # 0
        BY <1>4, <2>1, <3>2 DEF press_enter, unread
      <3> QED
        BY <3>1, <3>2
    <2>4. Matches(Row(kbrd_buf', t), line_marker'[t], <<>>)
      <3>1. CASE read_lock[t] = 0
        <4>1. line_marker'[t] = 0 /\ Row(kbrd_buf', t) = [j \in Cells |-> NUL]
          BY <1>0, <1>4, <2>1, <3>1, EnterEffect
        <4> QED
          BY <1>0, <4>1 DEF Matches, Cells
      <3>2. CASE read_lock[t] # 0
        <4>1. UNCHANGED <<kbrd_buf, line_marker>>
          BY <1>4, <2>1, <3>2 DEF press_enter, unread
        <4>2. /\ line_marker[t] \in Cells
              /\ \A k \in line_marker[t] .. KBRD_BUF_LENGTH - 1 : Row(kbrd_buf, t)[k] = NUL
          BY <1>0, <2>1, OneLine
        <4> QED
          BY <4>1, <4>2, MatchesEmpty
      <3> QED
        BY <3>1, <3>2
    <2>5. ASSUME NEW s \in Terminals
          PROVE  /\ reader'[s] # "idle" => s = current_terminal'
                 /\ \/ reader'[s] \in {"copy", "unlock", "forget"}
                    \/ reader'[s] = "wait" /\ is_enter'[s] = 1
                    => typed'[s] = <<>>
                 /\ kbrd_buf_length'[s] = Len(typed'[s])
                 /\ Matches(Row(kbrd_buf', s), line_marker'[s], typed'[s])
      <3>1. CASE s = t
        BY <1>0, <2>1, <2>2, <2>4, <3>1 DEF LinePart
      <3>2. CASE s # t
        BY <1>0, <2>1, <2>2, <2>3, <3>2 DEF LinePart
      <3> QED
        BY <3>1, <3>2
    <2> QED
      BY <2>5 DEF LinePart
  <1>5. CASE press_backspace
    <2>1. PICK t, m : t = current_terminal /\ m = line_marker[t]
      OBVIOUS
    <2>2. /\ t \in Terminals /\ m - 1 \in Cells /\ Len(typed[t]) > 0
          /\ line_marker' = [line_marker EXCEPT ![t] = m - 1]
          /\ typed' = [typed EXCEPT ![t] = SubSeq(typed[t], 1, Len(typed[t]) - 1)]
          /\ kbrd_buf_length' = [kbrd_buf_length EXCEPT ![t] = kbrd_buf_length[t] - 1]
          /\ Row(kbrd_buf', t) = [j \in Cells |-> IF j = m - 1 THEN NUL ELSE Row(kbrd_buf, t)[j]]
          /\ \A s \in Terminals \ {t} : Row(kbrd_buf', s) = Row(kbrd_buf, s)
      BY <1>5, <2>1, EraseEffect
    <2>3. Prompt /\ UNCHANGED <<current_terminal, reader, is_enter>>
      BY <1>5 DEF press_backspace, readerVars
    <2>4. m \in Nat /\ typed[t] \in Seq(Chars) /\ Matches(Row(kbrd_buf, t), m, typed[t])
          /\ kbrd_buf_length[t] = Len(typed[t])
      BY <2>1, <2>2, OneLine
    <2>5. Matches(Row(kbrd_buf', t), m - 1, SubSeq(typed[t], 1, Len(typed[t]) - 1))
      BY <2>2, <2>4, MatchesErase
    <2>6. Len(SubSeq(typed[t], 1, Len(typed[t]) - 1)) = Len(typed[t]) - 1
      <3>1. Len(typed[t]) - 1 \in Nat
        BY <2>2, <2>4
      <3> QED
        BY <2>4, <3>1
    <2>7. ASSUME NEW s \in Terminals
          PROVE  /\ reader'[s] # "idle" => s = current_terminal'
                 /\ \/ reader'[s] \in {"copy", "unlock", "forget"}
                    \/ reader'[s] = "wait" /\ is_enter'[s] = 1
                    => typed'[s] = <<>>
                 /\ kbrd_buf_length'[s] = Len(typed'[s])
                 /\ Matches(Row(kbrd_buf', s), line_marker'[s], typed'[s])
      <3>1. reader[s] = "idle" \/ (reader[s] = "wait" /\ is_enter[s] = 0)
        BY <2>3, AtPrompt
      <3>2. CASE s = t
        <4>1. /\ line_marker'[t] = m - 1 /\ typed'[t] = SubSeq(typed[t], 1, Len(typed[t]) - 1)
              /\ kbrd_buf_length'[t] = kbrd_buf_length[t] - 1
          BY <1>0, <2>2
        <4>2. kbrd_buf_length'[s] = Len(typed'[s])
          BY <2>4, <2>6, <3>2, <4>1
        <4> QED
          BY <2>1, <2>3, <2>5, <3>1, <3>2, <4>1, <4>2
      <3>3. CASE s # t
        BY <1>0, <2>1, <2>2, <2>3, <3>1, <3>3 DEF LinePart
      <3> QED
        BY <3>2, <3>3
    <2> QED
      BY <2>7 DEF LinePart
  <1>6. ASSUME NEW key, press_key(key) PROVE LinePart'
    <2>1. PICK t, m, c : t = current_terminal /\ m = line_marker[t] /\ c = kbrdscancode(key, mods[t])
      OBVIOUS
    <2>2. /\ t \in Terminals /\ c \in Chars /\ m + 1 \in Cells
          /\ line_marker' = [line_marker EXCEPT ![t] = m + 1]
          /\ typed' = [typed EXCEPT ![t] = Append(typed[t], c)]
          /\ kbrd_buf_length' = [kbrd_buf_length EXCEPT ![t] = kbrd_buf_length[t] + 1]
          /\ Row(kbrd_buf', t) = [j \in Cells |-> IF j = m THEN c ELSE Row(kbrd_buf, t)[j]]
          /\ \A s \in Terminals \ {t} : Row(kbrd_buf', s) = Row(kbrd_buf, s)
      BY <1>6, <2>1, KeyEffect
    <2>3. Prompt /\ UNCHANGED <<current_terminal, reader, is_enter>>
      BY <1>6 DEF press_key, readerVars
    <2>4. m \in Nat /\ typed[t] \in Seq(Chars) /\ Matches(Row(kbrd_buf, t), m, typed[t])
          /\ kbrd_buf_length[t] = Len(typed[t]) /\ m + 1 < KBRD_BUF_LENGTH
      <3>1. /\ m \in Nat /\ typed[t] \in Seq(Chars) /\ Matches(Row(kbrd_buf, t), m, typed[t])
            /\ kbrd_buf_length[t] = Len(typed[t])
        BY <2>1, <2>2, OneLine
      <3> QED
        BY <1>0, <2>2, <3>1 DEF Cells
    <2>5. Matches(Row(kbrd_buf', t), m + 1, Append(typed[t], c))
      <3>1. c \in Chars
        BY <2>2
      <3>2. Matches([j \in Cells |-> IF j = m THEN c ELSE Row(kbrd_buf, t)[j]], m + 1,
                    Append(typed[t], c))
        BY <2>4, <3>1, MatchesAppend
      <3> QED
        BY <2>2, <3>2
    <2>6. Len(Append(typed[t], c)) = Len(typed[t]) + 1
      BY <2>2, <2>4
    <2>7. ASSUME NEW s \in Terminals
          PROVE  /\ reader'[s] # "idle" => s = current_terminal'
                 /\ \/ reader'[s] \in {"copy", "unlock", "forget"}
                    \/ reader'[s] = "wait" /\ is_enter'[s] = 1
                    => typed'[s] = <<>>
                 /\ kbrd_buf_length'[s] = Len(typed'[s])
                 /\ Matches(Row(kbrd_buf', s), line_marker'[s], typed'[s])
      <3>1. reader[s] = "idle" \/ (reader[s] = "wait" /\ is_enter[s] = 0)
        BY <2>3, AtPrompt
      <3>2. CASE s = t
        <4>1. /\ line_marker'[t] = m + 1 /\ typed'[t] = Append(typed[t], c)
              /\ kbrd_buf_length'[t] = kbrd_buf_length[t] + 1
          BY <1>0, <2>2
        <4>2. kbrd_buf_length'[s] = Len(typed'[s])
          BY <2>4, <2>6, <3>2, <4>1
        <4> QED
          BY <2>1, <2>3, <2>5, <3>1, <3>2, <4>1, <4>2
      <3>3. CASE s # t
        BY <1>0, <2>1, <2>2, <2>3, <3>1, <3>3 DEF LinePart
      <3> QED
        BY <3>2, <3>3
    <2> QED
      BY <2>7 DEF LinePart
  <1>7. ASSUME NEW t \in Terminals, NEW n \in ReadSizes, read_call(t, n) PROVE LinePart'
    <2>1. /\ UNCHANGED <<current_terminal, bufVars, is_enter>> /\ t = current_terminal
          /\ reader' = [reader EXCEPT ![t] = "lock"]
      BY <1>7 DEF read_call, step, Careful, bufVars
    <2> QED
      BY <1>0, <2>1, LineFrame DEF LinePart
  <1>8. ASSUME NEW t \in Terminals, take_lock(t) \/ clear_enter(t) \/ see_enter(t) \/ drop_lock(t)
                                    \/ forget_enter(t)
        PROVE  LinePart'
    <2>1. UNCHANGED <<current_terminal, bufVars>> /\ reader[t] # "idle"
      BY <1>8 DEF take_lock, clear_enter, see_enter, drop_lock, forget_enter, step, bufVars
    <2>2. t = current_terminal
      BY <2>1 DEF LinePart
    <2>3. \/ reader' = [reader EXCEPT ![t] = "clear"] /\ UNCHANGED is_enter
          \/ reader' = [reader EXCEPT ![t] = "wait"] /\ is_enter' = [is_enter EXCEPT ![t] = 0]
          \/ /\ reader[t] = "wait" /\ is_enter[t] = 1
             /\ reader' = [reader EXCEPT ![t] = "copy"] /\ UNCHANGED is_enter
          \/ /\ reader[t] = "unlock"
             /\ reader' = [reader EXCEPT ![t] = "forget"] /\ UNCHANGED is_enter
          \/ reader' = [reader EXCEPT ![t] = "idle"] /\ is_enter' = [is_enter EXCEPT ![t] = 0]
      BY <1>8, <2>2 DEF take_lock, clear_enter, see_enter, drop_lock, forget_enter, step
    <2>4. ASSUME NEW s \in Terminals
          PROVE  /\ reader'[s] # "idle" => s = current_terminal'
                 /\ \/ reader'[s] \in {"copy", "unlock", "forget"}
                    \/ reader'[s] = "wait" /\ is_enter'[s] = 1
                    => typed[s] = <<>>
      BY <1>0, <2>1, <2>2, <2>3 DEF LinePart
    <2> QED
      BY <2>1, <2>4, LineFrame
  <1>9. ASSUME NEW t \in Terminals, copy_line(t) PROVE LinePart'
    <2>1. PICK m, n, w : /\ m = line_marker[t] /\ w = write_bytes(m, nbytes[t])
                         /\ n = IF nbytes[t] < KBRD_BUF_LENGTH THEN nbytes[t] ELSE KBRD_BUF_LENGTH
      OBVIOUS
    <2>2. /\ t = current_terminal /\ typed[t] = <<>>
          /\ n \in 1 .. KBRD_BUF_LENGTH /\ w \in 0 .. m
          /\ w = IF m < n THEN 0 ELSE m - (n - 1)
          /\ line_marker' = [line_marker EXCEPT ![t] = w]
          /\ \A j \in Cells : Row(kbrd_buf', t)[j] =
                               IF j < w THEN Row(kbrd_buf, t)[j + (n - 1)]
                               ELSE IF j < w + n THEN NUL ELSE Row(kbrd_buf, t)[j]
          /\ \A s \in Terminals \ {t} : Row(kbrd_buf', s) = Row(kbrd_buf, s)
      BY <1>9, <2>1, CopyEffect
    <2>3. /\ reader[t] = "copy" /\ reader' = [reader EXCEPT ![t] = "unlock"]
          /\ UNCHANGED <<current_terminal, is_enter, kbrd_buf_length, typed>>
      BY <1>9 DEF copy_line, step
    <2>4. m \in Cells /\ m \in Nat /\ \A k \in m .. KBRD_BUF_LENGTH - 1 : Row(kbrd_buf, t)[k] = NUL
      BY <2>1, OneLine
    <2>5. Matches(Row(kbrd_buf', t), w, <<>>)
      <3>1. w \in Cells
        BY <1>0, <2>2, <2>4 DEF Cells
      <3>2. ASSUME NEW k \in w .. KBRD_BUF_LENGTH - 1 PROVE Row(kbrd_buf', t)[k] = NUL
        <4>1. k \in Cells /\ ~ (k < w) /\ (k < w + n \/ k \in m .. KBRD_BUF_LENGTH - 1)
          BY <1>0, <2>2, <2>4 DEF Cells
        <4> QED
          BY <2>2, <2>4, <4>1
      <3> QED
        BY <3>1, <3>2, MatchesEmpty
    <2>6. ASSUME NEW s \in Terminals
          PROVE  /\ reader'[s] # "idle" => s = current_terminal'
                 /\ \/ reader'[s] \in {"copy", "unlock", "forget"}
                    \/ reader'[s] = "wait" /\ is_enter'[s] = 1
                    => typed'[s] = <<>>
                 /\ kbrd_buf_length'[s] = Len(typed'[s])
                 /\ Matches(Row(kbrd_buf', s), line_marker'[s], typed'[s])
      <3>1. CASE s = t
        BY <1>0, <2>2, <2>3, <2>5, <3>1 DEF LinePart
      <3>2. CASE s # t
        BY <1>0, <2>2, <2>3, <3>2 DEF LinePart
      <3> QED
        BY <3>1, <3>2
    <2> QED
      BY <2>6 DEF LinePart
  <1>10. CASE UNCHANGED vars
    BY <1>10, LineFrame DEF vars, bufVars, readerVars, LinePart
  <1> QED
    BY <1>1, <1>2, <1>3, <1>4, <1>5, <1>6, <1>7, <1>8, <1>9, <1>10
       DEF Next, kbrd_int, terminal_read

\* The first state has empty lines.
LEMMA InitLine == Init => LinePart
  <1> SUFFICES ASSUME Init PROVE LinePart
    OBVIOUS
  <1>1. \A t \in Terminals : /\ reader[t] = "idle" /\ typed[t] = <<>>
                             /\ kbrd_buf_length[t] = 0 /\ line_marker[t] = 0
    BY DEF Init
  <1>2. 0 \in Cells /\ KBRD_BUF_LENGTH \in Nat
    BY TerminalAssumption DEF Cells
  <1>3. ASSUME NEW t \in Terminals PROVE Matches(Row(kbrd_buf, t), 0, <<>>)
    <2>1. ASSUME NEW k \in 0 .. KBRD_BUF_LENGTH - 1 PROVE Row(kbrd_buf, t)[k] = NUL
      <3>1. k \in Cells /\ kbrd_buf = [a \in Bytes |-> NUL]
        BY DEF Cells, Init
      <3> QED
        BY <3>1 DEF Row, fetch
    <2> QED
      BY <1>2, <2>1, MatchesEmpty
  <1> QED
    BY <1>1, <1>3 DEF LinePart

\* LinePart says what the user sees.
LEMMA LinePartShows ==
  ASSUME Types, LinePart
  PROVE  BufferEndsWithTyped
  <1> SUFFICES ASSUME NEW t \in Terminals
               PROVE  /\ kbrd_buf_length[t] = Len(typed[t])
                      /\ kbrd_buf_length[t] <= line_marker[t]
                      /\ \A k \in 1 .. Len(typed[t]) : typed[t][k] =
                            fetch(kbrd_buf, addr(t, line_marker[t] - Len(typed[t]) + k - 1))
                      /\ \A k \in line_marker[t] .. KBRD_BUF_LENGTH - 1 :
                            fetch(kbrd_buf, addr(t, k)) = NUL
    BY DEF BufferEndsWithTyped
  <1> DEFINE m == line_marker[t]
             s == typed[t]
  <1>1. /\ m \in Cells /\ m \in Nat /\ s \in Seq(Chars) /\ Len(s) <= m
        /\ kbrd_buf_length[t] = Len(s) /\ Matches(Row(kbrd_buf, t), m, s)
    BY OneLine
  <1>2. \A j \in Cells : Row(kbrd_buf, t)[j] = fetch(kbrd_buf, addr(t, j))
    BY DEF Row
  <1> HIDE DEF m, s
  <1>3. KBRD_BUF_LENGTH \in Nat /\ Len(s) \in Nat
    BY <1>1, TerminalAssumption
  <1>4. \A k \in 1 .. Len(s) : m - Len(s) + k - 1 \in Cells
    BY <1>1, <1>3 DEF Cells
  <1>5. \A k \in m .. KBRD_BUF_LENGTH - 1 : k \in Cells
    BY <1>1, <1>3 DEF Cells
  <1>6. /\ \A k \in 1 .. Len(s) : s[k] = fetch(kbrd_buf, addr(t, m - Len(s) + k - 1))
        /\ \A k \in m .. KBRD_BUF_LENGTH - 1 : fetch(kbrd_buf, addr(t, k)) = NUL
    BY <1>1, <1>2, <1>4, <1>5 DEF Matches
  <1> QED
    BY <1>1, <1>6 DEF m, s

\* For careful users and programs the end of the buffered text is the line on the
\* screen, for every number of terminals and every length of the buffer: the
\* readers that move the text down never touch a line that is being typed.
THEOREM LineCorrect ==
  ASSUME Careful
  PROVE  Spec => []BufferEndsWithTyped
  BY InitTypes, NextTypes, InitLine, NextLine, LinePartShows, PTL DEF Spec

-----------------------------------------------------------------------------
(* The line discipline.                                                    *)

\* The first m characters of a row.
Kept(r, m) == [k \in 1 .. m |-> r[k - 1]]

\* They are a text of length m.
LEMMA KeptText ==
  ASSUME NEW r \in [Cells -> Chars], NEW m \in 0 .. KBRD_BUF_LENGTH
  PROVE  /\ Kept(r, m) \in Seq(Chars) /\ Len(Kept(r, m)) = m
         /\ \A k \in 1 .. m : Kept(r, m)[k] = r[k - 1]
  <1>1. m \in Nat /\ \A k \in 1 .. m : r[k - 1] \in Chars
    BY TerminalAssumption DEF Cells
  <1>2. Kept(r, m) \in [1 .. m -> Chars]
    BY <1>1 DEF Kept
  <1>3. Kept(r, m) \in Seq(Chars) /\ Len(Kept(r, m)) = m
    BY <1>1, <1>2
  <1> QED
    BY <1>3 DEF Kept

\* A key adds a character at the end.
LEMMA KeptAppend ==
  ASSUME NEW r \in [Cells -> Chars], NEW m \in Cells, NEW c \in Chars
  PROVE  Kept([j \in Cells |-> IF j = m THEN c ELSE r[j]], m + 1) = Append(Kept(r, m), c)
  <1> DEFINE r1 == [j \in Cells |-> IF j = m THEN c ELSE r[j]]
             a  == Kept(r1, m + 1)
             b  == Append(Kept(r, m), c)
  <1>0. m \in Nat /\ m \in 0 .. KBRD_BUF_LENGTH /\ m + 1 \in 0 .. KBRD_BUF_LENGTH
        /\ \A k \in 1 .. m + 1 : k - 1 \in Cells
    BY TerminalAssumption DEF Cells
  <1>1. r1 \in [Cells -> Chars]
    OBVIOUS
  <1>2. a \in Seq(Chars) /\ Len(a) = m + 1 /\ \A k \in 1 .. m + 1 : a[k] = r1[k - 1]
    <2> HIDE DEF r1
    <2> QED
      BY <1>0, <1>1, KeptText
  <1>3. Kept(r, m) \in Seq(Chars) /\ Len(Kept(r, m)) = m
        /\ \A k \in 1 .. m : Kept(r, m)[k] = r[k - 1]
    BY <1>0, KeptText
  <1>4. b \in Seq(Chars) /\ Len(b) = m + 1 /\ b[m + 1] = c
        /\ \A k \in 1 .. m : b[k] = r[k - 1]
    BY <1>0, <1>3
  <1>5. ASSUME NEW k \in 1 .. m + 1 PROVE a[k] = b[k]
    <2>1. a[k] = r1[k - 1] /\ r1[k - 1] = IF k - 1 = m THEN c ELSE r[k - 1]
      BY <1>0, <1>2
    <2> HIDE DEF a, b, r1
    <2>2. CASE k = m + 1
      BY <1>0, <1>4, <2>1, <2>2
    <2>3. CASE k # m + 1
      BY <1>0, <1>4, <2>1, <2>3
    <2> QED
      BY <2>2, <2>3
  <1> HIDE DEF a, b
  <1>6. a = b
    BY <1>2, <1>4, <1>5, SeqEqual
  <1> QED
    BY <1>6 DEF a, b

\* Backspace takes one from the end.
LEMMA KeptErase ==
  ASSUME NEW r \in [Cells -> Chars], NEW m \in Cells, m > 0
  PROVE  /\ Kept([j \in Cells |-> IF j = m - 1 THEN NUL ELSE r[j]], m - 1)
              = SubSeq(Kept(r, m), 1, Len(Kept(r, m)) - 1)
         /\ Kept(r, m) # <<>>
  <1> DEFINE r1 == [j \in Cells |-> IF j = m - 1 THEN NUL ELSE r[j]]
             a  == Kept(r1, m - 1)
             s  == Kept(r, m)
             b  == SubSeq(s, 1, m - 1)
  <1>0. m \in Nat /\ m \in 0 .. KBRD_BUF_LENGTH /\ m - 1 \in 0 .. KBRD_BUF_LENGTH
        /\ m - 1 \in Nat /\ \A k \in 1 .. m - 1 : k - 1 \in Cells /\ k - 1 # m - 1 /\ k \in 1 .. m
    BY TerminalAssumption DEF Cells
  <1>1. r1 \in [Cells -> Chars]
    BY DEF Chars
  <1>2. a \in Seq(Chars) /\ Len(a) = m - 1 /\ \A k \in 1 .. m - 1 : a[k] = r1[k - 1]
    <2> HIDE DEF r1
    <2> QED
      BY <1>0, <1>1, KeptText
  <1>3. s \in Seq(Chars) /\ Len(s) = m /\ \A k \in 1 .. m : s[k] = r[k - 1]
    BY <1>0, KeptText
  <1>4. b \in Seq(Chars) /\ Len(b) = m - 1 /\ \A k \in 1 .. m - 1 : b[k] = s[k]
    <2> HIDE DEF s
    <2>1. \A k \in 1 .. m - 1 : s[k] \in Chars
      BY <1>0, <1>3
    <2> QED
      BY <1>0, <2>1, SubSeqProperties
  <1>5. ASSUME NEW k \in 1 .. m - 1 PROVE a[k] = b[k]
    <2>1. a[k] = r1[k - 1] /\ r1[k - 1] = r[k - 1]
      BY <1>0, <1>2
    <2> HIDE DEF a, b, s, r1
    <2> QED
      BY <1>0, <1>3, <1>4, <2>1
  <1> HIDE DEF a, b, s
  <1>6. a = b
    BY <1>2, <1>4, <1>5, SeqEqual
  <1>7. s # <<>>
    BY <1>3
  <1> QED
    BY <1>3, <1>6, <1>7 DEF a, b, s

\* A read takes n - 1 characters from the front.
LEMMA KeptDeliver ==
  ASSUME NEW r \in [Cells -> Chars], NEW r1 \in [Cells -> Chars], NEW m \in Cells,
         NEW n \in 1 .. KBRD_BUF_LENGTH, NEW w \in 0 .. m, w = IF m < n THEN 0 ELSE m - (n - 1),
         \A j \in Cells : j < w => r1[j] = r[j + (n - 1)]
  PROVE  Kept(r1, w) = SubSeq(Kept(r, m), n, Len(Kept(r, m)))
  <1> DEFINE a == Kept(r1, w)
             s == Kept(r, m)
             b == SubSeq(s, n, m)
  <1>0. /\ m \in Nat /\ m \in 0 .. KBRD_BUF_LENGTH /\ w \in 0 .. KBRD_BUF_LENGTH /\ w \in Nat
        /\ n \in Nat /\ n \in Int /\ m \in Int
    BY TerminalAssumption DEF Cells
  <1>1. a \in Seq(Chars) /\ Len(a) = w /\ \A k \in 1 .. w : a[k] = r1[k - 1]
    BY <1>0, KeptText
  <1>2. s \in Seq(Chars) /\ Len(s) = m /\ \A k \in 1 .. m : s[k] = r[k - 1]
    BY <1>0, KeptText
  <1> HIDE DEF a, s
  <1>3. \A k \in n .. m : s[k] \in Chars
    BY <1>0, <1>2
  <1>4. b \in Seq(Chars) /\ Len(b) = (IF n <= m THEN m - n + 1 ELSE 0)
        /\ \A k \in 1 .. m - n + 1 : b[k] = s[n + k - 1]
    BY <1>0, <1>3, SubSeqProperties
  <1> HIDE DEF b
  <1>5. Len(b) = w
    BY <1>0, <1>4
  <1>6. ASSUME NEW k \in 1 .. w PROVE a[k] = b[k]
    <2>1. /\ k - 1 \in Cells /\ k - 1 < w /\ (k - 1) + (n - 1) = (n + k - 1) - 1
          /\ n + k - 1 \in 1 .. m /\ k \in 1 .. m - n + 1
      BY <1>0, TerminalAssumption DEF Cells
    <2>2. a[k] = r1[k - 1] /\ r1[k - 1] = r[(k - 1) + (n - 1)]
      BY <1>1, <2>1
    <2>3. b[k] = s[n + k - 1] /\ s[n + k - 1] = r[(n + k - 1) - 1]
      BY <1>2, <1>4, <2>1
    <2> QED
      BY <2>1, <2>2, <2>3
  <1>7. a = b
    BY <1>1, <1>4, <1>5, <1>6, SeqEqual
  <1> QED
    BY <1>2, <1>7 DEF a, b, s

\* What it hands out is the front of the text, filled up with NUL, and a newline.
LEMMA KeptHandedOut ==
  ASSUME NEW r \in [Cells -> Chars], NEW m \in Cells, NEW n \in 1 .. KBRD_BUF_LENGTH,
         \A k \in m .. KBRD_BUF_LENGTH - 1 : r[k] = NUL
  PROVE  [k \in 1 .. n |-> IF k < n THEN r[k - 1] ELSE Newline]
           = Append(Line!Padded(Kept(r, m), n - 1), Newline)
  <1> DEFINE S == Chars \cup {Newline}
             a == [k \in 1 .. n |-> IF k < n THEN r[k - 1] ELSE Newline]
             s == Kept(r, m)
             p == [k \in 1 .. n - 1 |-> IF k <= Len(s) THEN s[k] ELSE NUL]
             b == Append(p, Newline)
  <1>0. /\ m \in Nat /\ m \in 0 .. KBRD_BUF_LENGTH /\ n \in Nat /\ n - 1 \in Nat
        /\ \A k \in 1 .. n : k - 1 \in Cells
    BY TerminalAssumption DEF Cells
  <1>1. s \in Seq(Chars) /\ Len(s) = m /\ \A k \in 1 .. m : s[k] = r[k - 1]
    BY <1>0, KeptText
  <1> HIDE DEF s
  <1>2. \A k \in 1 .. n - 1 : p[k] = r[k - 1]
    <2> SUFFICES ASSUME NEW k \in 1 .. n - 1 PROVE p[k] = r[k - 1]
      OBVIOUS
    <2>1. p[k] = IF k <= m THEN s[k] ELSE NUL
      BY <1>1
    <2> HIDE DEF p
    <2>2. CASE k <= m
      BY <1>0, <1>1, <2>1, <2>2
    <2>3. CASE ~ (k <= m)
      <3>1. k - 1 \in m .. KBRD_BUF_LENGTH - 1
        BY <1>0, <2>3, TerminalAssumption
      <3> QED
        BY <2>1, <2>3, <3>1
    <2> QED
      BY <2>2, <2>3
  <1>3. p \in Seq(S) /\ Len(p) = n - 1
    <2>1. \A k \in 1 .. n - 1 : p[k] \in S
      BY <1>0, <1>2
    <2>2. p = [k \in 1 .. n - 1 |-> p[k]]
      OBVIOUS
    <2> HIDE DEF p, S
    <2>3. p \in [1 .. n - 1 -> S]
      BY <2>1, <2>2
    <2> QED
      BY <1>0, <2>3
  <1>4. a \in Seq(S) /\ Len(a) = n
    <2>1. \A k \in 1 .. n : a[k] \in S
      BY <1>0
    <2>2. a = [k \in 1 .. n |-> a[k]]
      OBVIOUS
    <2> HIDE DEF a, S
    <2>3. a \in [1 .. n -> S]
      BY <2>1, <2>2
    <2> QED
      BY <1>0, <2>3
  <1>5. b \in Seq(S) /\ Len(b) = n /\ b[n] = Newline /\ \A k \in 1 .. n - 1 : b[k] = p[k]
    <2>1. Newline \in S
      OBVIOUS
    <2> HIDE DEF p, S
    <2> QED
      BY <1>0, <1>3, <2>1
  <1>6. ASSUME NEW k \in 1 .. n PROVE a[k] = b[k]
    <2>1. a[k] = IF k < n THEN r[k - 1] ELSE Newline
      OBVIOUS
    <2> HIDE DEF a, b, p, S
    <2>2. CASE k = n
      BY <1>0, <1>5, <2>1, <2>2
    <2>3. CASE k # n
      BY <1>0, <1>2, <1>5, <2>1, <2>3
    <2> QED
      BY <2>2, <2>3
  <1>7. a = b
    <2> HIDE DEF a, b, S
    <2> QED
      BY <1>4, <1>5, <1>6, SeqEqual
  <1>8. Line!Padded(s, n - 1) = p
    BY DEF Line!Padded
  <1> HIDE DEF p
  <1> QED
    BY <1>7, <1>8 DEF s

\* The text of the abstract line discipline.
BufText == [t \in Terminals |->
               [k \in 1 .. line_marker[t] |-> fetch(kbrd_buf, addr(t, k - 1))]]

\* It is what the rows keep.
LEMMA TextOfRows ==
  ASSUME NEW b \in [Bytes -> Chars], NEW lm, \A t \in Terminals : lm[t] \in Cells
  PROVE  /\ \A t \in Terminals : Row(b, t) \in [Cells -> Chars]
         /\ \A t \in Terminals : [k \in 1 .. lm[t] |-> fetch(b, addr(t, k - 1))]
                                   = Kept(Row(b, t), lm[t])
  <1>1. ASSUME NEW t \in Terminals PROVE Row(b, t) \in [Cells -> Chars]
    BY BufferTypes DEF Row
  <1>2. ASSUME NEW t \in Terminals, NEW k \in 1 .. lm[t]
        PROVE  fetch(b, addr(t, k - 1)) = Row(b, t)[k - 1]
    <2>1. k - 1 \in Cells
      BY TerminalAssumption DEF Cells
    <2> QED
      BY <2>1 DEF Row
  <1> QED
    BY <1>1, <1>2 DEF Kept

\* A step on terminal t changes the text of t and no other.
LEMMA TextStep ==
  ASSUME Types, LinePart, Types', LinePart', NEW t \in Terminals,
         \A s \in Terminals \ {t} : /\ Row(kbrd_buf', s) = Row(kbrd_buf, s)
                                    /\ line_marker'[s] = line_marker[s]
  PROVE  /\ BufText' = [BufText EXCEPT ![t] = Kept(Row(kbrd_buf', t), line_marker'[t])]
         /\ BufText[t] = Kept(Row(kbrd_buf, t), line_marker[t])
         /\ Row(kbrd_buf, t) \in [Cells -> Chars] /\ Row(kbrd_buf', t) \in [Cells -> Chars]
         /\ line_marker[t] \in Cells /\ line_marker'[t] \in Cells
  <1>1. kbrd_buf \in [Bytes -> Chars] /\ kbrd_buf' \in [Bytes -> Chars]
    BY DEF Types, TypeOK
  <1>2. \A s \in Terminals : line_marker[s] \in Cells
    BY OneLine
  <1>3. \A s \in Terminals : line_marker'[s] \in Cells
    BY DEF LinePart, Matches
  <1>4. \A s \in Terminals : /\ BufText[s] = Kept(Row(kbrd_buf, s), line_marker[s])
                             /\ Row(kbrd_buf, s) \in [Cells -> Chars]
    BY <1>1, <1>2, TextOfRows DEF BufText
  <1>5. \A s \in Terminals : /\ BufText'[s] = Kept(Row(kbrd_buf', s), line_marker'[s])
                             /\ Row(kbrd_buf', s) \in [Cells -> Chars]
    BY <1>1, <1>3, TextOfRows DEF BufText
  <1>6. BufText' = [s \in Terminals |-> BufText'[s]] /\ BufText = [s \in Terminals |-> BufText[s]]
    BY DEF BufText
  <1>7. \A s \in Terminals : BufText'[s] = IF s = t THEN Kept(Row(kbrd_buf', t), line_marker'[t])
                                           ELSE BufText[s]
    BY <1>4, <1>5
  <1>8. BufText' = [BufText EXCEPT ![t] = Kept(Row(kbrd_buf', t), line_marker'[t])]
    BY <1>6, <1>7
  <1> QED
    BY <1>2, <1>3, <1>4, <1>5, <1>8

\* The first state of the terminal is one of the line discipline.
LEMMA InitImplements == Init => Line!LineInit
  <1> SUFFICES ASSUME Init PROVE Line!LineInit
    OBVIOUS
  <1>1. \A t \in Terminals : line_marker[t] = 0
    BY DEF Init
  <1>2. \A t \in Terminals : [k \in 1 .. line_marker[t] |-> fetch(kbrd_buf, addr(t, k - 1))] = <<>>
    BY <1>1
  <1>3. BufText = [t \in Terminals |-> <<>>]
    BY <1>2 DEF BufText
  <1> QED
    BY <1>3 DEF Line!LineInit, BufText, Init

\* Every step of the terminal is a step of the line discipline or leaves it alone.
LEMMA NextImplements ==
  ASSUME Careful, Types, LinePart, Types', LinePart', [Next]_vars
  PROVE  [Line!LineNext]_(Line!lineVars)
  <1>0. current_terminal \in Terminals /\ DOMAIN line_marker = Terminals
    BY DEF Types, TypeOK
  <1>1. ASSUME UNCHANGED <<kbrd_buf, line_marker, got>> PROVE UNCHANGED Line!lineVars
    BY <1>1 DEF Line!lineVars
  <1>2. ASSUME NEW key \in ModKeys, press_modifier(key) \/ release_modifier(key)
        PROVE  UNCHANGED Line!lineVars
    BY <1>1, <1>2 DEF press_modifier, release_modifier, bufVars, readerVars
  <1>3. ASSUME press_caps \/ \E t \in Terminals : press_function(t)
        PROVE  UNCHANGED Line!lineVars
    BY <1>1, <1>3 DEF press_caps, press_function, bufVars, readerVars
  <1>4. ASSUME press_enter PROVE [Line!LineNext]_(Line!lineVars)
    <2>1. PICK t : t = current_terminal
      OBVIOUS
    <2>2. UNCHANGED got
      BY <1>4 DEF press_enter, readerVars
    <2>3. CASE read_lock[t] # 0
      BY <1>1, <1>4, <2>1, <2>2, <2>3 DEF press_enter, unread
    <2>4. CASE read_lock[t] = 0
      <3>1. /\ t \in Terminals /\ line_marker' = [line_marker EXCEPT ![t] = 0]
            /\ \A s \in Terminals \ {t} : Row(kbrd_buf', s) = Row(kbrd_buf, s)
        BY <1>4, <2>1, <2>4, EnterEffect
      <3>2. line_marker'[t] = 0 /\ \A s \in Terminals \ {t} : line_marker'[s] = line_marker[s]
        BY <1>0, <3>1
      <3>3. BufText' = [BufText EXCEPT ![t] = Kept(Row(kbrd_buf', t), 0)]
        BY <3>1, <3>2, TextStep
      <3>4. Kept(Row(kbrd_buf', t), 0) = <<>>
        BY DEF Kept
      <3>5. BufText' = [BufText EXCEPT ![t] = <<>>]
        BY <3>3, <3>4
      <3>6. Line!Discard(t)
        BY <2>2, <3>5 DEF Line!Discard, BufText
      <3> QED
        BY <3>1, <3>6 DEF Line!LineNext
    <2> QED
      BY <2>3, <2>4
  <1>5. ASSUME press_backspace PROVE Line!LineNext
    <2>1. PICK t, m : t = current_terminal /\ m = line_marker[t]
      OBVIOUS
    <2>2. /\ t \in Terminals /\ m - 1 \in Cells
          /\ line_marker' = [line_marker EXCEPT ![t] = m - 1]
          /\ Row(kbrd_buf', t) = [j \in Cells |-> IF j = m - 1 THEN NUL ELSE Row(kbrd_buf, t)[j]]
          /\ \A s \in Terminals \ {t} : Row(kbrd_buf', s) = Row(kbrd_buf, s)
      BY <1>5, <2>1, EraseEffect
    <2>3. UNCHANGED got
      BY <1>5 DEF press_backspace, readerVars
    <2>4. line_marker'[t] = m - 1 /\ \A s \in Terminals \ {t} : line_marker'[s] = line_marker[s]
      BY <1>0, <2>2
    <2>5. /\ BufText' = [BufText EXCEPT ![t] = Kept(Row(kbrd_buf', t), m - 1)]
          /\ BufText[t] = Kept(Row(kbrd_buf, t), m)
          /\ Row(kbrd_buf, t) \in [Cells -> Chars] /\ m \in Cells
      BY <2>1, <2>2, <2>4, TextStep
    <2>6. m > 0
      BY <2>2, <2>5, TerminalAssumption DEF Cells
    <2>7. /\ Kept(Row(kbrd_buf', t), m - 1) = SubSeq(BufText[t], 1, Len(BufText[t]) - 1)
          /\ BufText[t] # <<>>
      BY <2>2, <2>5, <2>6, KeptErase
    <2>8. BufText' = [BufText EXCEPT ![t] = SubSeq(BufText[t], 1, Len(BufText[t]) - 1)]
      BY <2>5, <2>7
    <2>9. Line!Erase(t)
      BY <2>3, <2>7, <2>8 DEF Line!Erase, Line!Front, BufText
    <2> QED
      BY <2>2, <2>9 DEF Line!LineNext
  <1>6. ASSUME NEW key, press_key(key) PROVE Line!LineNext
    <2>1. PICK t, m, c : t = current_terminal /\ m = line_marker[t] /\ c = kbrdscancode(key, mods[t])
      OBVIOUS
    <2>2. /\ t \in Terminals /\ c \in Chars
          /\ line_marker' = [line_marker EXCEPT ![t] = m + 1]
          /\ Row(kbrd_buf', t) = [j \in Cells |-> IF j = m THEN c ELSE Row(kbrd_buf, t)[j]]
          /\ \A s \in Terminals \ {t} : Row(kbrd_buf', s) = Row(kbrd_buf, s)
      BY <1>6, <2>1, KeyEffect
    <2>3. UNCHANGED got
      BY <1>6 DEF press_key, readerVars
    <2>4. line_marker'[t] = m + 1 /\ \A s \in Terminals \ {t} : line_marker'[s] = line_marker[s]
      BY <1>0, <2>2
    <2>5. /\ BufText' = [BufText EXCEPT ![t] = Kept(Row(kbrd_buf', t), m + 1)]
          /\ BufText[t] = Kept(Row(kbrd_buf, t), m)
          /\ Row(kbrd_buf, t) \in [Cells -> Chars] /\ m \in Cells
      BY <2>1, <2>2, <2>4, TextStep
    <2>6. Kept(Row(kbrd_buf', t), m + 1) = Append(BufText[t], c)
      BY <2>2, <2>5, KeptAppend
    <2>7. BufText' = [BufText EXCEPT ![t] = Append(BufText[t], c)]
      BY <2>5, <2>6
    <2>8. Line!Type(t)
      BY <2>2, <2>3, <2>7 DEF Line!Type, BufText
    <2> QED
      BY <2>2, <2>8 DEF Line!LineNext
  <1>7. ASSUME NEW t \in Terminals, take_lock(t) \/ clear_enter(t) \/ see_enter(t) \/ drop_lock(t)
                                    \/ \E n \in ReadSizes : read_call(t, n)
        PROVE  UNCHANGED Line!lineVars
    BY <1>1, <1>7 DEF take_lock, clear_enter, see_enter, drop_lock, read_call
  <1>8. ASSUME NEW t \in Terminals, forget_enter(t) PROVE Line!LineNext
    <2>1. got' = [got EXCEPT ![t] = <<>>] /\ UNCHANGED <<kbrd_buf, line_marker>>
      BY <1>8 DEF forget_enter
    <2>2. Line!Consume(t)
      BY <2>1 DEF Line!Consume
    <2> QED
      BY <2>2 DEF Line!LineNext
  <1>9. ASSUME NEW t \in Terminals, copy_line(t) PROVE Line!LineNext
    <2>1. PICK m, n, w : /\ m = line_marker[t] /\ w = write_bytes(m, nbytes[t])
                         /\ n = IF nbytes[t] < KBRD_BUF_LENGTH THEN nbytes[t] ELSE KBRD_BUF_LENGTH
      OBVIOUS
    <2>2. /\ nbytes[t] \in ReadSizes /\ n \in 1 .. KBRD_BUF_LENGTH /\ w \in 0 .. m
          /\ w = IF m < n THEN 0 ELSE m - (n - 1)
          /\ line_marker' = [line_marker EXCEPT ![t] = w]
          /\ got' = [got EXCEPT ![t] = [k \in 1 .. n |-> IF k < n THEN fetch(kbrd_buf, addr(t, k - 1))
                                                         ELSE Newline]]
          /\ \A j \in Cells : Row(kbrd_buf', t)[j] =
                                IF j < w THEN Row(kbrd_buf, t)[j + (n - 1)]
                                ELSE IF j < w + n THEN NUL ELSE Row(kbrd_buf, t)[j]
          /\ \A s \in Terminals \ {t} : Row(kbrd_buf', s) = Row(kbrd_buf, s)
      BY <1>9, <2>1, CopyEffect
    <2>3. line_marker'[t] = w /\ \A s \in Terminals \ {t} : line_marker'[s] = line_marker[s]
      BY <1>0, <2>2
    <2>4. /\ BufText' = [BufText EXCEPT ![t] = Kept(Row(kbrd_buf', t), w)]
          /\ BufText[t] = Kept(Row(kbrd_buf, t), m)
          /\ Row(kbrd_buf, t) \in [Cells -> Chars] /\ Row(kbrd_buf', t) \in [Cells -> Chars]
          /\ m \in Cells
      BY <2>1, <2>2, <2>3, TextStep
    <2>5. Kept(Row(kbrd_buf', t), w) = SubSeq(BufText[t], n, Len(BufText[t]))
      BY SMTT(60), <2>2, <2>4, KeptDeliver
    <2>6. \A k \in m .. KBRD_BUF_LENGTH - 1 : Row(kbrd_buf, t)[k] = NUL
      BY <2>1, OneLine
    <2>7. [k \in 1 .. n |-> IF k < n THEN fetch(kbrd_buf, addr(t, k - 1)) ELSE Newline]
            = Append(Line!Padded(BufText[t], n - 1), Newline)
      <3>1. \A k \in 1 .. n : fetch(kbrd_buf, addr(t, k - 1)) = Row(kbrd_buf, t)[k - 1]
        <4>1. \A k \in 1 .. n : k - 1 \in Cells
          BY <2>2, TerminalAssumption DEF Cells
        <4> QED
          BY <4>1 DEF Row
      <3>2. [k \in 1 .. n |-> IF k < n THEN fetch(kbrd_buf, addr(t, k - 1)) ELSE Newline]
              = [k \in 1 .. n |-> IF k < n THEN Row(kbrd_buf, t)[k - 1] ELSE Newline]
        BY <3>1
      <3>3. n \in 1 .. KBRD_BUF_LENGTH /\ m \in Cells /\ Row(kbrd_buf, t) \in [Cells -> Chars]
        BY <2>2, <2>4
      <3>4. [k \in 1 .. n |-> IF k < n THEN Row(kbrd_buf, t)[k - 1] ELSE Newline]
              = Append(Line!Padded(Kept(Row(kbrd_buf, t), m), n - 1), Newline)
        BY <2>6, <3>3, KeptHandedOut
      <3> QED
        BY <2>4, <3>2, <3>4
    <2>8. /\ got' = [got EXCEPT ![t] = Append(Line!Padded(BufText[t], n - 1), Newline)]
          /\ BufText' = [BufText EXCEPT ![t] = SubSeq(BufText[t], n, Len(BufText[t]))]
      BY <2>2, <2>4, <2>5, <2>7
    <2>9. Line!Deliver(t, n)
      BY <2>8 DEF Line!Deliver, BufText
    <2>10. n \in {IF k < KBRD_BUF_LENGTH THEN k ELSE KBRD_BUF_LENGTH : k \in ReadSizes}
      BY <2>1, <2>2
    <2> QED
      BY <2>9, <2>10 DEF Line!LineNext
  <1>10. ASSUME UNCHANGED vars PROVE UNCHANGED Line!lineVars
    BY <1>1, <1>10 DEF vars, bufVars, readerVars
  <1> QED
    BY <1>2, <1>3, <1>4, <1>5, <1>6, <1>7, <1>8, <1>9, <1>10
       DEF Next, kbrd_int, terminal_read

\* For careful users and programs the buffer, line_marker, memmove and memset
\* implement the line discipline: no byte is lost, given twice or given to
\* another terminal.
THEOREM LineImplemented ==
  ASSUME Careful
  PROVE  Spec => ImplementsLineInput
  <1>1. Spec => [](Types /\ LinePart)
    BY InitTypes, NextTypes, InitLine, NextLine, PTL DEF Spec
  <1> QED
    BY <1>1, InitImplements, NextImplements, PTL DEF Spec, ImplementsLineInput, Line!LineSpec
=============================================================================
