------------------------------- MODULE Screen -------------------------------
(***************************************************************************)
(* The text screens (lib.c): every terminal has a page of video memory and *)
(* a cursor, the video card shows VIDEO, a copy of the displayed terminal's*)
(* page.  Keys echo on the displayed terminal, programs write on their     *)
(* own, kernel messages go to the displayed one, and every tick of the RTC *)
(* copies the displayed page to VIDEO.  All of it runs with interrupts     *)
(* off, so that every key, write and tick is one step; programs draw on    *)
(* VIDEO through the page that vidmap hands out.                           *)
(***************************************************************************)
EXTENDS Integers, Sequences, SequencesExt

CONSTANTS
    Terminals,        \* 0 .. 2
    NUM_ROWS,         \* 25
    NUM_COLS,         \* 80
    LINE_MAX,         \* 127: KBRD_BUF_LENGTH - 1
    Keys,             \* what the scancode tables give for keys, NUL for many of them
    EraseVisible,     \* Backspace is pressed only while every key of the row shows
    Texts,            \* what programs write, sequences of characters
    Messages,         \* what printf writes, exception messages among them
    Drawing           \* what programs draw on VIDEO

Cells   == 0 .. NUM_ROWS * NUM_COLS - 1
Blank   == " "
Newline == "newline"
NUL     == "nul"

\* A line of input and the cursor behind it fit on the screen above the last
\* row: backspace_helper and Ctrl-L rely on it.
ASSUME ScreenAssumption ==
    /\ {NUM_ROWS, NUM_COLS} \subseteq Nat \ {0}
    /\ LINE_MAX \in 1 .. (NUM_ROWS - 1) * NUM_COLS
    /\ Newline \notin Keys /\ EraseVisible \in BOOLEAN
    /\ 0 \in Terminals
    /\ \A text \in Texts \cup Messages : text \in Seq({text[k] : k \in DOMAIN text})

VARIABLES
    screen,           \* of each terminal: the cells of its page, screen_x, screen_y
    curr_terminal,    \* the terminal displayed
    video,            \* the cells of VIDEO
    cursor,           \* the position in the cursor registers of the card
    kbrd_buf,         \* of each terminal: the bytes of its row before line_marker
    kbrd_buf_length,  \* how many of them Backspace may erase: those since Enter
    frozen,           \* a handler loops forever with interrupts off
    tail              \* what was put on each screen since its last newline

inputVars == <<kbrd_buf, kbrd_buf_length>>
vars == <<screen, curr_terminal, video, cursor, inputVars, frozen, tail>>

-----------------------------------------------------------------------------
(* One screen.                                                             *)

position(s) == NUM_COLS * s.y + s.x

\* Outside the page other memory lies.
store(s, k, c) == IF k \in Cells THEN [s EXCEPT !.cells[k] = c] ELSE s

\* C's remainder has the sign of the dividend.
rem(a, b) == IF a < 0 THEN -((-a) % b) ELSE a % b

vert_scroll(s) ==
    [s EXCEPT !.cells = [k \in Cells |-> IF k + NUM_COLS \in Cells THEN s.cells[k + NUM_COLS]
                                         ELSE Blank]]

\* Faulty: a newline on the last row does not scroll.
newline_off(s) == [s EXCEPT !.x = 0, !.y = @ + 1]

newline(s) ==
    IF s.y + 1 > NUM_ROWS - 1 THEN [vert_scroll(s) EXCEPT !.x = 0, !.y = NUM_ROWS - 1]
    ELSE [s EXCEPT !.x = 0, !.y = @ + 1]

\* The cursor goes on to the next cell, and the page up when that is below it.
print(c, s) ==
    LET put == store(s, position(s), c)
        row == s.y + (s.x + 1) \div NUM_COLS
    IN  IF row = NUM_ROWS
        THEN [vert_scroll(put) EXCEPT !.x = (s.x + 1) % NUM_COLS, !.y = NUM_ROWS - 1]
        ELSE [put EXCEPT !.x = (s.x + 1) % NUM_COLS, !.y = rem(row, NUM_ROWS)]

putc(c, s) == CASE c = Newline -> newline(s)
                [] c = NUL     -> s
                [] OTHER       -> print(c, s)

\* The loop of puts: the screen after k characters.
puts(text, s) ==
    LET after[k \in 0 .. Len(text)] == IF k = 0 THEN s ELSE putc(text[k], after[k - 1])
    IN  after[Len(text)]

\* putcforcenoscroll of a character: x is reduced before y is computed from it.
putcforcenoscroll(c, s) ==
    [store(s, position(s), c) EXCEPT !.x = (s.x + 1) % NUM_COLS,
                                     !.y = rem(s.y, NUM_ROWS)]

\* Faulty: the cursor is not taken back to the row above.
backspace_helper_row(s) ==
    IF s.x = 0
    THEN LET back == [s EXCEPT !.x = NUM_COLS - 1, !.y = @ - 1]
         IN  [putcforcenoscroll(Blank, back) EXCEPT !.x = NUM_COLS - 1, !.y = s.y]
    ELSE LET back == [s EXCEPT !.x = @ - 1]
         IN  [putc(Blank, back) EXCEPT !.x = @ - 1]

backspace_helper(s) ==
    IF s.x = 0
    THEN LET back == [s EXCEPT !.x = NUM_COLS - 1, !.y = @ - 1]
         IN  [putcforcenoscroll(Blank, back) EXCEPT !.x = NUM_COLS - 1, !.y = back.y]
    ELSE LET back == [s EXCEPT !.x = @ - 1]
         IN  [putc(Blank, back) EXCEPT !.x = @ - 1]

blank_cells == [k \in Cells |-> Blank]
reset       == [cells |-> blank_cells, x |-> 0, y |-> 0]

\* The text since the last newline, as far as it surely fits on the page: what
\* was there, and a character or a text more.
seen_char(t, c) == CASE c = Newline -> <<>>
                     [] c = NUL     -> t
                     [] OTHER       -> Append(IF Len(t) < (NUM_ROWS - 1) * NUM_COLS THEN t
                                              ELSE Tail(t), c)

seen(t, text) ==
    LET after[k \in 0 .. Len(text)] == IF k = 0 THEN t ELSE seen_char(after[k - 1], text[k])
    IN  after[Len(text)]

-----------------------------------------------------------------------------
(* Steps.                                                                  *)

\* Text goes to terminal t.  putc sets the card's cursor from the displayed
\* terminal, whichever it wrote to.
output(t, text) ==
    /\ screen' = [screen EXCEPT ![t] = puts(text, @)]
    /\ tail' = [tail EXCEPT ![t] = seen(@, text)]
    /\ cursor' = position(screen'[curr_terminal])

terminal_write(t, text) ==
    /\ ~ frozen
    /\ output(t, text)
    /\ UNCHANGED <<curr_terminal, video, inputVars, frozen>>

\* printf: halt of a base shell, or a handler of an exception.  The handler then
\* returns to a user program, and loops with interrupts off otherwise.
kernel_message(text, freeze) ==
    /\ ~ frozen
    /\ output(curr_terminal, text)
    /\ frozen' = freeze
    /\ UNCHANGED <<curr_terminal, video, inputVars>>

\* Rows with the rests of short reads fill up to LINE_MAX bytes here; the code
\* bounds kbrd_buf_length only (module Terminal has what happens beyond).  A key
\* without a character is stored and counted, and shows nothing.
press_key(c) ==
    /\ ~ frozen
    /\ kbrd_buf_length[curr_terminal] < LINE_MAX
    /\ Len(kbrd_buf[curr_terminal]) < LINE_MAX
    /\ output(curr_terminal, <<c>>)
    /\ kbrd_buf' = [kbrd_buf EXCEPT ![curr_terminal] = Append(@, c)]
    /\ kbrd_buf_length' = [kbrd_buf_length EXCEPT ![curr_terminal] = @ + 1]
    /\ UNCHANGED <<curr_terminal, video, frozen>>

\* The row is kept for a reader, if there is one, and cleared otherwise.
press_enter ==
    /\ ~ frozen
    /\ output(curr_terminal, <<Newline>>)
    /\ kbrd_buf_length' = [kbrd_buf_length EXCEPT ![curr_terminal] = 0]
    /\ \E row \in {<<>>, kbrd_buf[curr_terminal]} :
          kbrd_buf' = [kbrd_buf EXCEPT ![curr_terminal] = row]
    /\ UNCHANGED <<curr_terminal, video, frozen>>

\* terminal_read takes bytes from the row of the displayed terminal, before the
\* next key is pressed (the habit Prompt of module Terminal).
take_line(n) ==
    /\ ~ frozen
    /\ kbrd_buf_length[curr_terminal] = 0
    /\ n <= Len(kbrd_buf[curr_terminal])
    /\ kbrd_buf' = [kbrd_buf EXCEPT ![curr_terminal] = SubSeq(@, n + 1, Len(@))]
    /\ UNCHANGED <<screen, curr_terminal, video, cursor, kbrd_buf_length, frozen, tail>>

press_backspace ==
    /\ ~ frozen
    /\ kbrd_buf_length[curr_terminal] > 0
    /\ EraseVisible => NUL \notin ToSet(kbrd_buf[curr_terminal])
    /\ screen' = [screen EXCEPT ![curr_terminal] = backspace_helper(@)]
    /\ cursor' = position(screen'[curr_terminal])
    /\ kbrd_buf' = [kbrd_buf EXCEPT ![curr_terminal] = Front(@)]
    /\ kbrd_buf_length' = [kbrd_buf_length EXCEPT ![curr_terminal] = @ - 1]
    /\ tail' = [tail EXCEPT ![curr_terminal] = IF @ = <<>> THEN @ ELSE Front(@)]
    /\ UNCHANGED <<curr_terminal, video, frozen>>

\* What puts prints of a row: its bytes before the first NUL.
string(row) ==
    LET n == CHOOSE n \in 0 .. Len(row) : /\ n = Len(row) \/ row[n + 1] = NUL
                                          /\ \A k \in 1 .. n : row[k] # NUL
    IN  SubSeq(row, 1, n)

\* Ctrl-L: reset, then puts of the row.
press_ctrl_l ==
    /\ ~ frozen
    /\ kbrd_buf_length[curr_terminal] < LINE_MAX
    /\ LET text == string(kbrd_buf[curr_terminal])
       IN  /\ screen' = [screen EXCEPT ![curr_terminal] = puts(text, reset)]
           /\ tail' = [tail EXCEPT ![curr_terminal] = text]
    /\ video' = blank_cells
    /\ cursor' = position(screen'[curr_terminal])
    /\ UNCHANGED <<curr_terminal, inputVars, frozen>>

\* Faulty: the card keeps the cursor of the terminal left.
update_vidmem_page(t) == video' = screen[t].cells /\ UNCHANGED cursor

update_vidmem(t) == video' = screen[t].cells /\ cursor' = position(screen[t])

update_curr_term(t) == curr_terminal' = IF t \in Terminals THEN t ELSE curr_terminal

\* Alt and a function key.
press_function(t) ==
    /\ ~ frozen
    /\ t # curr_terminal
    /\ update_curr_term(t)
    /\ update_vidmem(t)
    /\ UNCHANGED <<screen, inputVars, frozen, tail>>

refresh_vidmem == video' = screen[curr_terminal].cells

rtc_int ==
    /\ ~ frozen
    /\ refresh_vidmem
    /\ UNCHANGED <<screen, curr_terminal, cursor, inputVars, frozen, tail>>

\* A program that called vidmap writes a cell of VIDEO.
draw(k, c) ==
    /\ ~ frozen
    /\ video' = [video EXCEPT ![k] = c]
    /\ UNCHANGED <<screen, curr_terminal, cursor, inputVars, frozen, tail>>

-----------------------------------------------------------------------------
(* Specification.                                                          *)

\* After clear.
Init ==
    /\ screen = [t \in Terminals |-> reset]
    /\ curr_terminal = 0
    /\ video = blank_cells
    /\ cursor = 0
    /\ kbrd_buf = [t \in Terminals |-> <<>>]
    /\ kbrd_buf_length = [t \in Terminals |-> 0]
    /\ frozen = FALSE
    /\ tail = [t \in Terminals |-> <<>>]

Next ==
    \/ \E t \in Terminals : press_function(t) \/ \E text \in Texts : terminal_write(t, text)
    \/ \E text \in Messages, freeze \in BOOLEAN : kernel_message(text, freeze)
    \/ \E c \in Keys : press_key(c)
    \/ press_enter
    \/ \E n \in 1 .. LINE_MAX : take_line(n)
    \/ press_backspace
    \/ press_ctrl_l
    \/ rtc_int
    \/ \E k \in Cells, c \in Drawing : draw(k, c)

Spec == Init /\ [][Next]_vars

-----------------------------------------------------------------------------
(* Properties.                                                             *)

\* Wrapping, scrolling and erasing never take the cursor off the page: every
\* character is stored in the page of its own terminal.  Backspace at the first
\* column relies on the cells that are its to erase being on the page, which holds
\* as long as the keys it counts have put one there each.
CursorOnPage ==
    \A t \in Terminals : screen[t].x \in 0 .. NUM_COLS - 1 /\ screen[t].y \in 0 .. NUM_ROWS - 1

\* The cells before the cursor hold the text put there since the last newline, or
\* since Ctrl-L printed the row again, over line ends, scrolling and erasing.
TextBeforeCursor ==
    \A t \in Terminals : \A k \in 1 .. Len(tail[t]) :
        /\ position(screen[t]) - Len(tail[t]) >= 0
        /\ screen[t].cells[position(screen[t]) - Len(tail[t]) + k - 1] = tail[t][k]

\* The card's cursor is the displayed terminal's, also after output to a
\* terminal in the background and after a change of terminals.
CursorShown == cursor = position(screen[curr_terminal])
=============================================================================
