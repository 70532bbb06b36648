---------------------------- MODULE ScreenProofs ----------------------------
(***************************************************************************)
(* Proofs about the text screens, for every size of the page.              *)
(***************************************************************************)
EXTENDS Screen, Induction, SequenceTheorems

-----------------------------------------------------------------------------
(* Positions on the page.                                                  *)

\* The products of numbers of rows and columns that the proofs need.
LEMMA Products ==
  ASSUME NEW r \in Nat \ {0}, NEW c \in Nat \ {0}, NEW y \in 0 .. r - 1
  PROVE  /\ c * y \in Nat /\ r * c \in Nat /\ (r - 1) * c \in Nat
         /\ r * c = (r - 1) * c + c
         /\ c * y <= (r - 1) * c
         /\ c * (y + 1) = c * y + c
         /\ c * (y - 1) = c * y - c
         /\ c * (r - 1) = (r - 1) * c
         /\ y < r - 1 => c * y + c <= (r - 1) * c
         /\ y > 0 => c * y >= c
  <1>1. \A a, b \in Nat : a * b \in Nat
    OBVIOUS
  <1>2. c * y \in Nat /\ r * c \in Nat /\ (r - 1) * c \in Nat /\ c * ((r - 1) - y) \in Nat
    BY <1>1
  <1>3. r * c = (r - 1) * c + c /\ c * (y + 1) = c * y + c /\ c * (y - 1) = c * y - c
        /\ c * (r - 1) = (r - 1) * c /\ c * ((r - 1) - y) = (r - 1) * c - c * y
    OBVIOUS
  <1>4. y < r - 1 => c * y + c <= (r - 1) * c
    <2> SUFFICES ASSUME y < r - 1 PROVE c * y + c <= (r - 1) * c
      OBVIOUS
    <2>1. (r - 1) - (y + 1) \in Nat
      OBVIOUS
    <2>2. c * ((r - 1) - (y + 1)) \in Nat
      BY <1>1, <2>1
    <2>3. c * ((r - 1) - (y + 1)) = (r - 1) * c - (c * y + c)
      OBVIOUS
    <2> QED
      BY <1>2, <2>2, <2>3
  <1>5. y > 0 => c * y >= c
    <2> SUFFICES ASSUME y > 0 PROVE c * y >= c
      OBVIOUS
    <2>1. c * (y - 1) \in Nat
      BY <1>1
    <2> QED
      BY <1>2, <1>3, <2>1
  <1> QED
    BY <1>2, <1>3, <1>4, <1>5

\* The next column, and the carry into the next row.
LEMMA NextColumn ==
  ASSUME NEW c \in Nat \ {0}, NEW x \in 0 .. c - 1
  PROVE  /\ x + 1 < c => (x + 1) \div c = 0 /\ (x + 1) % c = x + 1
         /\ x + 1 = c => (x + 1) \div c = 1 /\ (x + 1) % c = 0
  OBVIOUS

\* What can stand on a screen and what can be written.
Glyphs == {Blank} \cup Keys \cup Drawing
          \cup UNION {{text[k] : k \in DOMAIN text} : text \in Texts \cup Messages}
Chars  == Glyphs \cup {Newline, NUL}

\* A page with the cursor on it.
Pages == [cells : [Cells -> Chars], x : 0 .. NUM_COLS - 1, y : 0 .. NUM_ROWS - 1]

\* The rows above the last one.
Above == (NUM_ROWS - 1) * NUM_COLS

\* The cells, the cursor and the rows above the last one as numbers.
LEMMA PageFacts ==
  ASSUME NEW s \in Pages
  PROVE  /\ NUM_ROWS \in Nat \ {0} /\ NUM_COLS \in Nat \ {0}
         /\ s.x \in 0 .. NUM_COLS - 1 /\ s.y \in 0 .. NUM_ROWS - 1
         /\ s.cells \in [Cells -> Chars]
         /\ Above \in Nat /\ NUM_COLS * s.y \in Nat
         /\ Cells = 0 .. Above + NUM_COLS - 1
         /\ position(s) = NUM_COLS * s.y + s.x
         /\ position(s) \in Cells
         /\ NUM_COLS * s.y <= Above
         /\ s.y < NUM_ROWS - 1 => NUM_COLS * s.y + NUM_COLS <= Above
         /\ s.y = NUM_ROWS - 1 => NUM_COLS * s.y = Above
         /\ s.y > 0 => NUM_COLS * s.y >= NUM_COLS
  <1> DEFINE r == NUM_ROWS
             c == NUM_COLS
             y == s.y
             x == s.x
  <1>1. r \in Nat \ {0} /\ c \in Nat \ {0}
    BY ScreenAssumption
  <1>2. x \in 0 .. c - 1 /\ y \in 0 .. r - 1 /\ s.cells \in [Cells -> Chars]
    BY DEF Pages
  <1>3. /\ c * y \in Nat /\ r * c \in Nat /\ (r - 1) * c \in Nat
        /\ r * c = (r - 1) * c + c
        /\ c * y <= (r - 1) * c
        /\ c * (r - 1) = (r - 1) * c
        /\ y < r - 1 => c * y + c <= (r - 1) * c
        /\ y > 0 => c * y >= c
    BY <1>1, <1>2, Products
  <1>4. Cells = 0 .. Above + c - 1 /\ Above \in Nat /\ Above = (r - 1) * c
    <2>1. Cells = 0 .. r * c - 1 /\ Above = (r - 1) * c
      BY DEF Cells, Above
    <2>2. PICK m \in Nat : m = r * c
      BY <1>3
    <2>3. m = Above + c /\ Above \in Nat
      BY <1>3, <2>1, <2>2
    <2>4. m - 1 = Above + c - 1
      BY ONLY <1>1, <2>3
    <2> QED
      BY ONLY <2>1, <2>2, <2>3, <2>4
  <1>5. position(s) = c * y + x
    BY DEF position
  <1>6. y = r - 1 => c * y = Above
    BY <1>3, <1>4
  <1> HIDE DEF r, c, y, x
  <1>7. position(s) \in Cells
    BY <1>1, <1>2, <1>3, <1>4, <1>5
  <1> QED
    BY <1>1, <1>2, <1>3, <1>4, <1>5, <1>6, <1>7 DEF r, c, y, x

\* vert_scroll moves every row up.
LEMMA Scrolled ==
  ASSUME NEW s \in Pages
  PROVE  /\ vert_scroll(s) \in Pages
         /\ vert_scroll(s).x = s.x /\ vert_scroll(s).y = s.y
         /\ \A k \in Cells : k + NUM_COLS \in Cells =>
               vert_scroll(s).cells[k] = s.cells[k + NUM_COLS]
  <1> DEFINE up == [k \in Cells |-> IF k + NUM_COLS \in Cells THEN s.cells[k + NUM_COLS]
                                    ELSE Blank]
  <1>1. up \in [Cells -> Chars]
    BY DEF Pages, Chars, Glyphs
  <1>2. vert_scroll(s) = [s EXCEPT !.cells = up]
    BY DEF vert_scroll
  <1>3. \A k \in Cells : k + NUM_COLS \in Cells => up[k] = s.cells[k + NUM_COLS]
    OBVIOUS
  <1> HIDE DEF up
  <1> QED
    BY <1>1, <1>2, <1>3 DEF Pages

\* A store on the page.
LEMMA Stored ==
  ASSUME NEW s \in Pages, NEW k \in Cells, NEW c \in Chars
  PROVE  /\ store(s, k, c) \in Pages
         /\ store(s, k, c).x = s.x /\ store(s, k, c).y = s.y
         /\ \A j \in Cells : store(s, k, c).cells[j] = IF j = k THEN c ELSE s.cells[j]
  <1>1. store(s, k, c) = [s EXCEPT !.cells = [s.cells EXCEPT ![k] = c]]
    BY DEF store
  <1>2. s.cells \in [Cells -> Chars]
    BY DEF Pages
  <1>3. [s.cells EXCEPT ![k] = c] \in [Cells -> Chars]
    BY <1>2
  <1> QED
    BY <1>1, <1>2, <1>3 DEF Pages

\* The page with the cursor at another place.
MoveTo(s, x, y) == [s EXCEPT !.x = x, !.y = y]

\* Moving the cursor on the page.
LEMMA Moved ==
  ASSUME NEW s \in Pages, NEW x \in 0 .. NUM_COLS - 1, NEW y \in 0 .. NUM_ROWS - 1
  PROVE  LET t == MoveTo(s, x, y)
         IN  t \in Pages /\ t.x = x /\ t.y = y /\ t.cells = s.cells
  BY DEF Pages, MoveTo

\* A newline leaves the cursor on the page, and not higher than the last row
\* unless it goes on.
LEMMA NewlinePage ==
  ASSUME NEW s \in Pages
  PROVE  /\ newline(s) \in Pages
         /\ position(newline(s)) >= position(s) \/ position(newline(s)) = Above
  <1>1. NUM_COLS \in Nat \ {0} /\ NUM_ROWS \in Nat \ {0} /\ 0 \in 0 .. NUM_COLS - 1
    BY ScreenAssumption
  <1>2. s.y \in 0 .. NUM_ROWS - 1
    BY DEF Pages
  <1>3. CASE s.y + 1 > NUM_ROWS - 1
    <2> DEFINE t == MoveTo(vert_scroll(s), 0, NUM_ROWS - 1)
    <2>1. newline(s) = t
      BY <1>3 DEF newline, MoveTo
    <2>2. NUM_ROWS - 1 \in 0 .. NUM_ROWS - 1
      BY <1>1
    <2>3. t \in Pages /\ t.x = 0 /\ t.y = NUM_ROWS - 1
      BY <1>1, <2>2, Scrolled, Moved
    <2> HIDE DEF t
    <2>4. position(t) = Above
      BY SMTT(60), <2>3, PageFacts
    <2> QED
      BY <2>1, <2>3, <2>4
  <1>4. CASE ~ (s.y + 1 > NUM_ROWS - 1)
    <2> DEFINE t == MoveTo(s, 0, s.y + 1)
    <2>1. newline(s) = t
      BY <1>4 DEF newline, MoveTo
    <2>2. s.y + 1 \in 0 .. NUM_ROWS - 1
      BY <1>1, <1>2, <1>4
    <2>3. t \in Pages /\ t.x = 0 /\ t.y = s.y + 1
      BY <1>1, <2>2, Moved
    <2> HIDE DEF t
    <2>4. position(t) = NUM_COLS * (s.y + 1) /\ NUM_COLS * (s.y + 1) \in Nat
      BY SMTT(60), <2>3, PageFacts
    <2>5. NUM_COLS * (s.y + 1) = NUM_COLS * s.y + NUM_COLS
      BY <1>1, <1>2, Products
    <2>6. position(s) = NUM_COLS * s.y + s.x /\ s.x \in 0 .. NUM_COLS - 1 /\ NUM_COLS * s.y \in Nat
      BY PageFacts
    <2>7. position(t) >= position(s)
      BY <1>1, <2>4, <2>5, <2>6
    <2> QED
      BY <2>1, <2>3, <2>7
  <1> QED
    BY <1>3, <1>4

\* A row of the page is its own remainder.
LEMMA RowRem ==
  ASSUME NEW y \in 0 .. NUM_ROWS - 1
  PROVE  rem(y, NUM_ROWS) = y
  <1>1. NUM_ROWS \in Nat \ {0}
    BY ScreenAssumption
  <1>2. y % NUM_ROWS = y /\ ~ (y < 0)
    BY <1>1
  <1> QED
    BY <1>2 DEF rem

\* A character goes to the cursor's cell.  The cursor goes on, or the rows go up
\* when the page is full.
LEMMA PrintPage ==
  ASSUME NEW s \in Pages, NEW c \in Chars
  PROVE  /\ print(c, s) \in Pages
         /\ \/ /\ position(print(c, s)) = position(s) + 1
               /\ \A k \in Cells : print(c, s).cells[k] =
                                      IF k = position(s) THEN c ELSE s.cells[k]
            \/ /\ position(s) = Above + NUM_COLS - 1
               /\ position(print(c, s)) = Above
               /\ \A k \in Cells : k + NUM_COLS \in Cells =>
                     print(c, s).cells[k] =
                        IF k + NUM_COLS = position(s) THEN c ELSE s.cells[k + NUM_COLS]
  <1> DEFINE put == store(s, position(s), c)
             row == s.y + (s.x + 1) \div NUM_COLS
             x   == (s.x + 1) % NUM_COLS
             p   == print(c, s)
  <1>1. /\ NUM_COLS \in Nat \ {0} /\ NUM_ROWS \in Nat \ {0}
        /\ s.x \in 0 .. NUM_COLS - 1 /\ s.y \in 0 .. NUM_ROWS - 1
        /\ position(s) = NUM_COLS * s.y + s.x /\ position(s) \in Cells
        /\ NUM_COLS * s.y \in Nat
    BY PageFacts
  <1>2. /\ put \in Pages
        /\ \A j \in Cells : put.cells[j] = IF j = position(s) THEN c ELSE s.cells[j]
    BY <1>1, Stored
  <1>3. /\ s.x + 1 < NUM_COLS => row = s.y /\ x = s.x + 1
        /\ s.x + 1 = NUM_COLS => row = s.y + 1 /\ x = 0
    BY <1>1, NextColumn
  <1>4. x \in 0 .. NUM_COLS - 1
    BY <1>1, <1>3
  <1>5. p = IF row = NUM_ROWS THEN MoveTo(vert_scroll(put), x, NUM_ROWS - 1)
            ELSE MoveTo(put, x, rem(row, NUM_ROWS))
    BY DEF print, MoveTo
  <1> HIDE DEF put, row, x, p
  <1>6. CASE row = NUM_ROWS
    <2>1. s.x + 1 = NUM_COLS /\ s.y = NUM_ROWS - 1 /\ x = 0
      BY <1>1, <1>3, <1>6
    <2>2. NUM_ROWS - 1 \in 0 .. NUM_ROWS - 1
      BY <1>1
    <2>3. p = MoveTo(vert_scroll(put), 0, NUM_ROWS - 1)
      BY <1>5, <1>6, <2>1
    <2>4. vert_scroll(put) \in Pages /\ 0 \in 0 .. NUM_COLS - 1
      BY <1>1, <1>2, Scrolled
    <2>5. p \in Pages /\ p.x = 0 /\ p.y = NUM_ROWS - 1 /\ p.cells = vert_scroll(put).cells
      BY <2>2, <2>3, <2>4, Moved
    <2>6. position(p) = Above
      BY SMTT(60), <2>5, PageFacts
    <2>7. position(s) = Above + NUM_COLS - 1
      <3>1. NUM_COLS * s.y = Above /\ Above \in Nat
        BY <2>1, PageFacts
      <3>2. position(s) = Above + s.x /\ s.x = NUM_COLS - 1
        BY <1>1, <2>1, <3>1
      <3> QED
        BY ONLY <1>1, <3>1, <3>2
    <2>8. \A k \in Cells : k + NUM_COLS \in Cells => p.cells[k] = put.cells[k + NUM_COLS]
      BY <1>2, <2>5, Scrolled
    <2>9. \A k \in Cells : k + NUM_COLS \in Cells =>
             p.cells[k] = IF k + NUM_COLS = position(s) THEN c ELSE s.cells[k + NUM_COLS]
      BY <1>2, <2>8
    <2> QED
      BY <2>5, <2>6, <2>7, <2>9 DEF p
  <1>7. CASE row # NUM_ROWS
    <2>1. row \in 0 .. NUM_ROWS - 1
      BY <1>1, <1>3, <1>7
    <2>2. p = MoveTo(put, x, row)
      BY <1>5, <1>7, <2>1, RowRem
    <2>3. p \in Pages /\ p.x = x /\ p.y = row /\ p.cells = put.cells
      BY <1>2, <1>4, <2>1, <2>2, Moved
    <2>4. position(p) = NUM_COLS * row + x
      BY <2>3 DEF position
    <2>5. position(p) = position(s) + 1
      <3>1. CASE s.x + 1 < NUM_COLS
        BY <1>1, <1>3, <2>4, <3>1
      <3>2. CASE s.x + 1 = NUM_COLS
        <4>1. NUM_COLS * (s.y + 1) = NUM_COLS * s.y + NUM_COLS
          BY <1>1, Products
        <4> QED
          BY <1>1, <1>3, <2>4, <3>2, <4>1
      <3> QED
        BY <1>1, <3>1, <3>2
    <2> QED
      BY <1>2, <2>3, <2>5 DEF p
  <1> QED
    BY <1>6, <1>7

-----------------------------------------------------------------------------
(* The text before the cursor.                                             *)

\* The text t stands before the cursor of the page s.
Shows(s, t) ==
    /\ t \in Seq(Chars)
    /\ Len(t) <= Above
    /\ Len(t) <= position(s)
    /\ \A k \in 1 .. Len(t) : s.cells[position(s) - Len(t) + k - 1] = t[k]

\* A character more, or the first one less when the text fills the rows above.
LEMMA ShowsPrinted ==
  ASSUME NEW s \in Pages, NEW t, Shows(s, t), NEW c \in Chars, Above > 0
  PROVE  Shows(print(c, s), Append(IF Len(t) < Above THEN t ELSE Tail(t), c))
  <1> DEFINE p    == print(c, s)
             kept == IF Len(t) < Above THEN t ELSE Tail(t)
             u    == Append(kept, c)
             gone == IF Len(t) < Above THEN 0 ELSE 1
  <1>1. t \in Seq(Chars) /\ Len(t) \in Nat /\ Len(t) <= Above /\ Len(t) <= position(s)
    BY DEF Shows
  <1>2. Above \in Nat /\ position(s) \in Nat /\ NUM_COLS \in Nat \ {0}
        /\ Cells = 0 .. Above + NUM_COLS - 1 /\ position(s) \in Cells
    BY PageFacts
  <1>3. kept \in Seq(Chars) /\ Len(kept) = Len(t) - gone /\ Len(kept) < Above
        /\ \A k \in 1 .. Len(kept) : kept[k] = t[k + gone]
    <2>1. CASE Len(t) < Above
      BY <1>1, <2>1
    <2>2. CASE ~ (Len(t) < Above)
      <3>1. t # <<>> /\ Len(t) = Above
        BY <1>1, <1>2, <2>2
      <3>2. Tail(t) \in Seq(Chars) /\ Len(Tail(t)) = Len(t) - 1
            /\ \A k \in 1 .. Len(Tail(t)) : Tail(t)[k] = t[k + 1]
        BY <1>1, <3>1, HeadTailProperties
      <3> QED
        BY <1>1, <1>2, <2>2, <3>1, <3>2
    <2> QED
      BY <2>1, <2>2
  <1>4. gone \in {0, 1} /\ Len(kept) \in Nat
    BY <1>3
  <1> HIDE DEF kept, gone
  <1>5. /\ u \in Seq(Chars) /\ Len(u) = Len(kept) + 1
        /\ u[Len(kept) + 1] = c /\ \A k \in 1 .. Len(kept) : u[k] = kept[k]
    BY <1>3, <1>4
  <1> HIDE DEF u
  <1>6. p \in Pages
    BY PrintPage
  <1> DEFINE q == position(s)
  <1>7. ASSUME NEW k \in 1 .. Len(kept) + 1,
               NEW cells, \A j \in 0 .. q : cells[j] = IF j = q THEN c ELSE s.cells[j]
        PROVE  /\ q - Len(kept) + k - 1 \in 0 .. q
               /\ cells[q - Len(kept) + k - 1] = u[k]
    <2>1. q - Len(kept) + k - 1 \in 0 .. q
      BY SMTT(60), <1>1, <1>2, <1>3, <1>4
    <2>2. CASE k = Len(kept) + 1
      BY <1>2, <1>4, <1>5, <1>7, <2>1, <2>2
    <2>3. CASE k # Len(kept) + 1
      <3>1. k \in 1 .. Len(kept) /\ k + gone \in 1 .. Len(t)
        BY <1>1, <1>3, <1>4, <2>3
      <3>2. u[k] = t[k + gone]
        BY <1>3, <1>5, <3>1
      <3>3. s.cells[q - Len(t) + (k + gone) - 1] = t[k + gone]
        BY <3>1 DEF Shows
      <3>4. q - Len(t) + (k + gone) - 1 = q - Len(kept) + k - 1
        BY SMTT(60), <1>1, <1>2, <1>3, <1>4
      <3>5. q - Len(kept) + k - 1 # q
        BY <1>2, <1>4, <3>1
      <3> QED
        BY <1>7, <2>1, <3>2, <3>3, <3>4, <3>5
    <2> QED
      BY <2>1, <2>2, <2>3
  <1> HIDE DEF q
  <1>8. CASE /\ position(p) = q + 1
             /\ \A k \in Cells : p.cells[k] = IF k = q THEN c ELSE s.cells[k]
    <2>1. \A j \in 0 .. q : p.cells[j] = IF j = q THEN c ELSE s.cells[j]
      BY <1>2, <1>8 DEF q
    <2>2. ASSUME NEW k \in 1 .. Len(u) PROVE p.cells[position(p) - Len(u) + k - 1] = u[k]
      <3>1. position(p) - Len(u) + k - 1 = q - Len(kept) + k - 1
        BY <1>2, <1>4, <1>5, <1>8 DEF q
      <3>2. p.cells[q - Len(kept) + k - 1] = u[k]
        BY <1>5, <1>7, <2>1
      <3> QED
        BY <3>1, <3>2
    <2>3. Len(u) <= Above /\ Len(u) <= position(p)
      BY SMTT(60), <1>1, <1>2, <1>3, <1>4, <1>5, <1>8 DEF q
    <2> QED
      BY <1>5, <2>2, <2>3 DEF Shows, u, kept
  <1>9. CASE /\ q = Above + NUM_COLS - 1
             /\ position(p) = Above
             /\ \A k \in Cells : k + NUM_COLS \in Cells =>
                   p.cells[k] = IF k + NUM_COLS = q THEN c ELSE s.cells[k + NUM_COLS]
    <2> DEFINE cells == [j \in 0 .. q |-> IF j = q THEN c ELSE s.cells[j]]
    <2>1. ASSUME NEW k \in 1 .. Len(u) PROVE p.cells[position(p) - Len(u) + k - 1] = u[k]
      <3> DEFINE m == position(p) - Len(u) + k - 1
      <3>1. m \in Cells /\ m + NUM_COLS = q - Len(kept) + k - 1 /\ m + NUM_COLS \in 0 .. q
            /\ m + NUM_COLS \in Cells
        BY SMTT(60), <1>2, <1>3, <1>4, <1>5, <1>9
      <3>2. cells[q - Len(kept) + k - 1] = u[k]
        BY <1>5, <1>7
      <3> HIDE DEF m
      <3>3. p.cells[m] = cells[m + NUM_COLS]
        BY <1>9, <3>1
      <3> QED
        BY <3>1, <3>2, <3>3 DEF m
    <2>2. Len(u) <= Above /\ Len(u) <= position(p)
      BY <1>2, <1>3, <1>4, <1>5, <1>9
    <2> QED
      BY <1>5, <2>1, <2>2 DEF Shows, u, kept
  <1> QED
    BY <1>8, <1>9, PrintPage DEF q

\* There is a row above the last one.
LEMMA AboveFacts == Above \in Nat /\ Above > 0 /\ LINE_MAX \in Nat /\ LINE_MAX <= Above
  <1>1. NUM_ROWS \in Nat \ {0} /\ NUM_COLS \in Nat \ {0} /\ LINE_MAX \in 1 .. Above
    BY ScreenAssumption DEF Above
  <1>2. 0 \in 0 .. NUM_ROWS - 1
    BY <1>1
  <1>3. Above \in Nat
    BY <1>1, <1>2, Products DEF Above
  <1> QED
    BY <1>1, <1>3

\* putc keeps the cursor on the page and the text before it, and the room before
\* the cursor that a line of input may need.
LEMMA PutcPage ==
  ASSUME NEW s \in Pages, NEW t, Shows(s, t), NEW c \in Chars
  PROVE  /\ putc(c, s) \in Pages
         /\ Shows(putc(c, s), seen_char(t, c))
         /\ \A m \in 0 .. Above : m <= position(s) => m <= position(putc(c, s))
         /\ c \notin {Newline, NUL} =>
               \A m \in 0 .. Above - 1 : m <= position(s) => m + 1 <= position(putc(c, s))
  <1>1. Above \in Nat /\ Above > 0
    BY AboveFacts
  <1>2. position(s) \in Nat /\ NUM_COLS \in Nat \ {0}
    BY PageFacts
  <1>3. CASE c = Newline
    <2>1. putc(c, s) = newline(s) /\ seen_char(t, c) = <<>>
      BY <1>3 DEF putc, seen_char, Newline, NUL
    <2>2. newline(s) \in Pages
          /\ (position(newline(s)) >= position(s) \/ position(newline(s)) = Above)
      BY NewlinePage
    <2>3. position(newline(s)) \in Nat
      BY <2>2, PageFacts
    <2>4. Shows(newline(s), <<>>)
      BY <1>1, <2>3 DEF Shows
    <2>5. \A m \in 0 .. Above : m <= position(s) => m <= position(newline(s))
      BY <1>1, <1>2, <2>2, <2>3
    <2> QED
      BY <1>3, <2>1, <2>2, <2>4, <2>5
  <1>4. CASE c = NUL
    <2>1. putc(c, s) = s /\ seen_char(t, c) = t
      BY <1>4 DEF putc, seen_char, Newline, NUL
    <2> QED
      BY <1>4, <2>1
  <1>5. CASE c \notin {Newline, NUL}
    <2>1. putc(c, s) = print(c, s)
          /\ seen_char(t, c) = Append(IF Len(t) < Above THEN t ELSE Tail(t), c)
      BY <1>5 DEF putc, seen_char, Above
    <2>2. print(c, s) \in Pages
          /\ (position(print(c, s)) = position(s) + 1 \/ position(print(c, s)) = Above)
      BY PrintPage
    <2>3. Shows(print(c, s), Append(IF Len(t) < Above THEN t ELSE Tail(t), c))
      BY <1>1, ShowsPrinted
    <2>4. \A m \in 0 .. Above : m <= position(s) => m <= position(print(c, s))
      BY <1>1, <1>2, <2>2
    <2>5. \A m \in 0 .. Above - 1 : m <= position(s) => m + 1 <= position(print(c, s))
      BY <1>1, <1>2, <2>2
    <2> QED
      BY <2>1, <2>2, <2>3, <2>4, <2>5
  <1> QED
    BY <1>3, <1>4, <1>5

\* The first n + 1 values of the loop of puts.
IsPut(f, text, s, n) ==
    f = [k \in 0 .. n |-> IF k = 0 THEN s ELSE putc(text[k], f[k - 1])]
\* The same for the text that is seen.
IsSeen(f, text, t, n) ==
    f = [k \in 0 .. n |-> IF k = 0 THEN t ELSE seen_char(f[k - 1], text[k])]

\* The equation that defines puts has a solution.
LEMMA PutsLoop ==
  ASSUME NEW text, NEW s, Len(text) \in Nat
  PROVE  \E f : IsPut(f, text, s, Len(text)) /\ puts(text, s) = f[Len(text)]
  <1> DEFINE T == {n \in Nat : \E f : IsPut(f, text, s, n)}
  <1>1. 0 \in T
    <2>1. IsPut([k \in 0 .. 0 |-> s], text, s, 0)
      BY DEF IsPut
    <2> QED
      BY <2>1
  <1>2. ASSUME NEW n \in T PROVE n + 1 \in T
    <2>1. PICK f : IsPut(f, text, s, n)
      BY <1>2
    <2> DEFINE g == [k \in 0 .. n + 1 |-> IF k <= n THEN f[k] ELSE putc(text[n + 1], f[n])]
    <2>2. IsPut(g, text, s, n + 1)
      BY <2>1 DEF IsPut
    <2> QED
      BY <2>2
  <1>3. T = Nat
    <2> HIDE DEF T
    <2>1. T \in SUBSET Nat
      BY DEF T
    <2> QED
      BY <1>1, <1>2, <2>1, InductionStep
  <1>4. \E f : IsPut(f, text, s, Len(text))
    BY <1>3
  <1> DEFINE h == CHOOSE f : IsPut(f, text, s, Len(text))
  <1>5. IsPut(h, text, s, Len(text))
    BY <1>4
  <1>6. puts(text, s) = h[Len(text)]
    BY DEF puts, IsPut
  <1> HIDE DEF h
  <1> QED
    BY <1>5, <1>6

\* The equation that defines seen has a solution.
LEMMA SeenLoop ==
  ASSUME NEW text, NEW t, Len(text) \in Nat
  PROVE  \E f : IsSeen(f, text, t, Len(text)) /\ seen(t, text) = f[Len(text)]
  <1> DEFINE T == {n \in Nat : \E f : IsSeen(f, text, t, n)}
  <1>1. 0 \in T
    <2>1. IsSeen([k \in 0 .. 0 |-> t], text, t, 0)
      BY DEF IsSeen
    <2> QED
      BY <2>1
  <1>2. ASSUME NEW n \in T PROVE n + 1 \in T
    <2>1. PICK f : IsSeen(f, text, t, n)
      BY <1>2
    <2> DEFINE g == [k \in 0 .. n + 1 |-> IF k <= n THEN f[k] ELSE seen_char(f[n], text[n + 1])]
    <2>2. IsSeen(g, text, t, n + 1)
      BY <2>1 DEF IsSeen
    <2> QED
      BY <2>2
  <1>3. T = Nat
    <2> HIDE DEF T
    <2>1. T \in SUBSET Nat
      BY DEF T
    <2> QED
      BY <1>1, <1>2, <2>1, InductionStep
  <1>4. \E f : IsSeen(f, text, t, Len(text))
    BY <1>3
  <1> DEFINE h == CHOOSE f : IsSeen(f, text, t, Len(text))
  <1>5. IsSeen(h, text, t, Len(text))
    BY <1>4
  <1>6. seen(t, text) = h[Len(text)]
    BY DEF seen, IsSeen
  <1> HIDE DEF h
  <1> QED
    BY <1>5, <1>6

\* puts does for a text what putc does for a character.
LEMMA PutsPage ==
  ASSUME NEW s \in Pages, NEW t, Shows(s, t), NEW text \in Seq(Chars)
  PROVE  /\ puts(text, s) \in Pages
         /\ Shows(puts(text, s), seen(t, text))
         /\ \A m \in 0 .. Above : m <= position(s) => m <= position(puts(text, s))
  <1>1. Len(text) \in Nat /\ \A k \in 1 .. Len(text) : text[k] \in Chars
    OBVIOUS
  <1>2. PICK f : IsPut(f, text, s, Len(text)) /\ puts(text, s) = f[Len(text)]
    BY <1>1, PutsLoop
  <1>3. PICK g : IsSeen(g, text, t, Len(text)) /\ seen(t, text) = g[Len(text)]
    BY <1>1, SeenLoop
  <1> DEFINE P(k) == /\ f[k] \in Pages
                     /\ Shows(f[k], g[k])
                     /\ \A m \in 0 .. Above : m <= position(s) => m <= position(f[k])
             T == {k \in Nat : k <= Len(text) => P(k)}
  <1>4. f[0] = s /\ g[0] = t
    BY <1>1, <1>2, <1>3 DEF IsPut, IsSeen
  <1>5. ASSUME NEW k \in Nat, k + 1 <= Len(text)
        PROVE  f[k + 1] = putc(text[k + 1], f[k]) /\ g[k + 1] = seen_char(g[k], text[k + 1])
    <2>1. k + 1 \in 0 .. Len(text) /\ k + 1 # 0 /\ (k + 1) - 1 = k
      BY <1>1, <1>5
    <2> QED
      BY <1>2, <1>3, <2>1 DEF IsPut, IsSeen
  <1>6. 0 \in T
    BY <1>4
  <1>7. ASSUME NEW k \in T PROVE k + 1 \in T
    <2> SUFFICES ASSUME k + 1 <= Len(text) PROVE P(k + 1)
      OBVIOUS
    <2>1. k \in Nat /\ k <= Len(text) /\ k + 1 \in 1 .. Len(text)
      BY <1>1
    <2>2. P(k)
      BY <1>7, <2>1
    <2>3. text[k + 1] \in Chars
      BY <1>1, <2>1
    <2>4. f[k + 1] = putc(text[k + 1], f[k]) /\ g[k + 1] = seen_char(g[k], text[k + 1])
      BY <1>5, <2>1
    <2>5. /\ f[k + 1] \in Pages
          /\ Shows(f[k + 1], g[k + 1])
          /\ \A m \in 0 .. Above : m <= position(f[k]) => m <= position(f[k + 1])
      BY <2>2, <2>3, <2>4, PutcPage
    <2> QED
      BY <2>2, <2>5
  <1>8. T = Nat
    <2> HIDE DEF T
    <2>1. T \in SUBSET Nat
      BY DEF T
    <2> QED
      BY <1>6, <1>7, <2>1, InductionStep
  <1>9. P(Len(text))
    BY <1>1, <1>8
  <1> QED
    BY <1>2, <1>3, <1>9

\* What keys show.
Shown == Keys \ {NUL}

\* A text without newlines that fits above the last row is seen whole.
LEMMA SeenLine ==
  ASSUME NEW text \in Seq(Shown), Len(text) <= Above
  PROVE  seen(<<>>, text) = text
  <1>1. Len(text) \in Nat /\ \A k \in 1 .. Len(text) : text[k] \in Shown
    OBVIOUS
  <1>2. PICK g : IsSeen(g, text, <<>>, Len(text)) /\ seen(<<>>, text) = g[Len(text)]
    BY <1>1, SeenLoop
  <1>3. Newline \notin Shown /\ NUL \notin Shown /\ Above \in Nat
    BY ScreenAssumption, AboveFacts DEF Shown
  <1> DEFINE P(k) == /\ g[k] \in Seq(Shown) /\ Len(g[k]) = k
                     /\ \A j \in 1 .. k : g[k][j] = text[j]
             T == {k \in Nat : k <= Len(text) => P(k)}
  <1>4. 0 \in T
    <2>1. g[0] = <<>>
      BY <1>1, <1>2 DEF IsSeen
    <2>2. g[0] \in Seq(Shown) /\ Len(g[0]) = 0
      BY <2>1
    <2>3. P(0)
      BY <2>2
    <2> QED
      BY <2>3
  <1>5. ASSUME NEW k \in T PROVE k + 1 \in T
    <2> SUFFICES ASSUME k + 1 <= Len(text) PROVE P(k + 1)
      OBVIOUS
    <2>1. k \in Nat /\ k <= Len(text) /\ k + 1 \in 1 .. Len(text) /\ k < Above
          /\ k + 1 \in 0 .. Len(text) /\ k + 1 # 0 /\ (k + 1) - 1 = k
      BY <1>1, <1>3
    <2>2. P(k)
      BY <1>5, <2>1
    <2>3. text[k + 1] \in Shown
      BY <1>1, <2>1
    <2>4. g[k + 1] = seen_char(g[k], text[k + 1])
      BY <1>2, <2>1 DEF IsSeen
    <2>5. g[k + 1] = Append(g[k], text[k + 1])
      BY <1>3, <2>1, <2>2, <2>3, <2>4 DEF seen_char, Above
    <2>6. /\ g[k + 1] \in Seq(Shown) /\ Len(g[k + 1]) = k + 1
          /\ g[k + 1][k + 1] = text[k + 1] /\ \A j \in 1 .. k : g[k + 1][j] = g[k][j]
      BY <2>2, <2>3, <2>5
    <2>7. \A j \in 1 .. k + 1 : j = k + 1 \/ j \in 1 .. k
      BY <2>1
    <2> QED
      BY <2>2, <2>6, <2>7
  <1>6. T = Nat
    <2> HIDE DEF T
    <2>1. T \in SUBSET Nat
      BY DEF T
    <2> QED
      BY <1>4, <1>5, <2>1, InductionStep
  <1>7. P(Len(text))
    BY <1>1, <1>6
  <1>8. g[Len(text)] = text
    BY <1>7, SeqEqual
  <1> QED
    BY <1>2, <1>8

\* The page after reset.
LEMMA ResetPage == reset \in Pages /\ position(reset) = 0 /\ Shows(reset, <<>>)
  <1>1. NUM_COLS \in Nat \ {0} /\ NUM_ROWS \in Nat \ {0}
    BY ScreenAssumption
  <1>2. blank_cells \in [Cells -> Chars]
    BY DEF blank_cells, Chars, Glyphs
  <1>3. reset \in Pages /\ reset.x = 0 /\ reset.y = 0
    BY <1>1, <1>2 DEF reset, Pages
  <1>4. position(reset) = 0
    BY <1>1, <1>3 DEF position
  <1>5. Shows(reset, <<>>)
    BY <1>4, AboveFacts DEF Shows
  <1> QED
    BY <1>3, <1>4, <1>5

\* Backspace takes the cursor back by one cell, over the end of a row too, and
\* changes no cell before it.
LEMMA BackspacePage ==
  ASSUME NEW s \in Pages, position(s) > 0
  PROVE  LET b == backspace_helper(s)
         IN  /\ b \in Pages
             /\ position(b) = position(s) - 1
             /\ \A k \in Cells : k < position(s) - 1 => b.cells[k] = s.cells[k]
  <1> DEFINE b == backspace_helper(s)
  <1>1. /\ NUM_COLS \in Nat \ {0} /\ NUM_ROWS \in Nat \ {0}
        /\ s.x \in 0 .. NUM_COLS - 1 /\ s.y \in 0 .. NUM_ROWS - 1
        /\ position(s) = NUM_COLS * s.y + s.x /\ NUM_COLS * s.y \in Nat
    BY PageFacts
  <1>2. Blank \in Chars /\ Blank \notin {Newline, NUL}
    BY DEF Chars, Glyphs, Blank, Newline, NUL
  <1>3. CASE s.x = 0
    <2>1. s.y # 0
      BY <1>1, <1>3
    <2> DEFINE back == MoveTo(s, NUM_COLS - 1, s.y - 1)
    <2>2. NUM_COLS - 1 \in 0 .. NUM_COLS - 1 /\ s.y - 1 \in 0 .. NUM_ROWS - 1
      BY <1>1, <2>1
    <2>3. back \in Pages /\ back.x = NUM_COLS - 1 /\ back.y = s.y - 1 /\ back.cells = s.cells
      BY <2>2, Moved
    <2>4. position(back) = position(s) - 1
      <3>1. NUM_COLS * (s.y - 1) = NUM_COLS * s.y - NUM_COLS
        BY <1>1, Products
      <3>2. position(back) = NUM_COLS * (s.y - 1) + (NUM_COLS - 1)
        BY <2>3 DEF position
      <3> QED
        BY <1>1, <1>3, <3>1, <3>2
    <2>5. position(back) \in Cells
      BY <2>3, PageFacts
    <2> DEFINE put == store(back, position(back), Blank)
    <2>6. b = MoveTo(putcforcenoscroll(Blank, back), NUM_COLS - 1, back.y)
      BY <1>3 DEF backspace_helper, MoveTo
    <2>7. putcforcenoscroll(Blank, back) =
             MoveTo(put, (back.x + 1) % NUM_COLS, rem(back.y, NUM_ROWS))
      BY DEF putcforcenoscroll, MoveTo
    <2> HIDE DEF back, b
    <2>8. /\ put \in Pages
          /\ \A j \in Cells : put.cells[j] = IF j = position(back) THEN Blank ELSE back.cells[j]
      BY <1>2, <2>3, <2>5, Stored
    <2> HIDE DEF put
    <2>9. (back.x + 1) % NUM_COLS \in 0 .. NUM_COLS - 1 /\ rem(back.y, NUM_ROWS) \in 0 .. NUM_ROWS - 1
      BY <1>1, <2>2, <2>3, NextColumn, RowRem
    <2>10. putcforcenoscroll(Blank, back) \in Pages
           /\ putcforcenoscroll(Blank, back).cells = put.cells
      BY <2>7, <2>8, <2>9, Moved
    <2>11. b \in Pages /\ b.x = back.x /\ b.y = back.y /\ b.cells = put.cells
      BY <2>2, <2>3, <2>6, <2>10, Moved
    <2>12. position(b) = position(s) - 1
      BY <2>4, <2>11 DEF position
    <2>13. \A k \in Cells : k < position(s) - 1 => b.cells[k] = s.cells[k]
      BY <2>3, <2>4, <2>5, <2>8, <2>11 DEF Cells
    <2> QED
      BY <2>11, <2>12, <2>13 DEF b
  <1>4. CASE s.x # 0
    <2> DEFINE back == MoveTo(s, s.x - 1, s.y)
    <2>1. s.x - 1 \in 0 .. NUM_COLS - 1
      BY <1>1, <1>4
    <2>2. back \in Pages /\ back.x = s.x - 1 /\ back.y = s.y /\ back.cells = s.cells
      BY ZenonT(60), <1>1, <2>1, Moved
    <2>3. position(back) = position(s) - 1 /\ position(back) \in Cells
      <3>1. position(back) = NUM_COLS * s.y + (s.x - 1)
        BY <2>2 DEF position
      <3>2. position(back) = position(s) - 1
        <4> HIDE DEF back
        <4> QED
          BY ONLY <1>1, <3>1
      <3>3. position(back) \in Cells
        <4> HIDE DEF back
        <4> QED
          BY ONLY <2>2, PageFacts
      <3> QED
        BY <3>2, <3>3
    <2> DEFINE p == print(Blank, back)
               put == store(back, position(back), Blank)
    <2>4. back = [s EXCEPT !.x = s.x - 1]
      BY DEF MoveTo, Pages
    <2>5. b = [p EXCEPT !.x = p.x - 1]
      BY <1>2, <1>4, <2>4 DEF backspace_helper, putc
    <2>6. /\ put \in Pages
          /\ \A j \in Cells : put.cells[j] = IF j = position(back) THEN Blank ELSE back.cells[j]
      BY <1>2, <2>2, <2>3, Stored
    <2>7. back.x + 1 = s.x /\ s.x \div NUM_COLS = 0 /\ s.x % NUM_COLS = s.x
      BY <1>1, <1>4, <2>1, <2>2, NextColumn
    <2>8. p = MoveTo(put, s.x, s.y)
      <3>1. back.y + (back.x + 1) \div NUM_COLS = s.y /\ s.y # NUM_ROWS
        BY <1>1, <2>2, <2>7
      <3>2. rem(s.y, NUM_ROWS) = s.y
        BY <1>1, RowRem
      <3> HIDE DEF back
      <3> QED
        BY <2>7, <3>1, <3>2 DEF print, MoveTo
    <2> HIDE DEF back, p, put, b
    <2>9. p \in Pages /\ p.x = s.x /\ p.y = s.y /\ p.cells = put.cells
      BY <1>1, <2>6, <2>8, Moved
    <2>10. b = MoveTo(p, s.x - 1, s.y)
      BY <2>5, <2>9 DEF MoveTo, Pages
    <2>11. b \in Pages /\ b.x = s.x - 1 /\ b.y = s.y /\ b.cells = put.cells
      <3>1. MoveTo(p, s.x - 1, s.y) \in Pages /\ MoveTo(p, s.x - 1, s.y).x = s.x - 1
            /\ MoveTo(p, s.x - 1, s.y).y = s.y /\ MoveTo(p, s.x - 1, s.y).cells = p.cells
        BY ZenonT(60), <1>1, <2>1, <2>9, Moved
      <3> QED
        BY <2>9, <2>10, <3>1
    <2>12. position(b) = position(s) - 1
      BY <2>2, <2>3, <2>11 DEF position
    <2>13. \A k \in Cells : k < position(s) - 1 => b.cells[k] = s.cells[k]
      BY <2>2, <2>3, <2>6, <2>11 DEF Cells
    <2> QED
      BY <2>11, <2>12, <2>13 DEF b
  <1> QED
    BY <1>3, <1>4

\* The text before the cursor without its last character.
LEMMA ShowsErased ==
  ASSUME NEW s \in Pages, NEW t, Shows(s, t), position(s) > 0
  PROVE  Shows(backspace_helper(s), IF t = <<>> THEN t ELSE Front(t))
  <1> DEFINE b == backspace_helper(s)
  <1>1. /\ b \in Pages /\ position(b) = position(s) - 1
        /\ \A k \in Cells : k < position(s) - 1 => b.cells[k] = s.cells[k]
    BY BackspacePage
  <1>2. /\ Above \in Nat /\ position(s) \in Cells /\ position(s) \in Nat
        /\ NUM_COLS \in Nat /\ Cells = 0 .. Above + NUM_COLS - 1
    BY PageFacts
  <1>3. t \in Seq(Chars) /\ Len(t) \in Nat /\ Len(t) <= Above /\ Len(t) <= position(s)
    BY DEF Shows
  <1> HIDE DEF b
  <1>4. CASE t = <<>>
    <2>1. Len(t) = 0
      BY <1>4
    <2>2. Shows(b, t)
      BY <1>1, <1>2, <1>3, <2>1 DEF Shows
    <2> QED
      BY <1>4, <2>2 DEF b
  <1>5. CASE t # <<>>
    <2> DEFINE u == Front(t)
    <2>1. Len(t) > 0
      BY <1>3, <1>5, EmptySeq
    <2>2. u \in Seq(Chars) /\ Len(u) = Len(t) - 1 /\ \A k \in 1 .. Len(t) - 1 : u[k] = t[k]
      <3> DEFINE n == Len(t) - 1
      <3>1. n \in Nat /\ n \in Int /\ 1 \in Int /\ \A k \in 1 .. n : t[k] \in Chars
        BY <1>3, <2>1
      <3>2. u = SubSeq(t, 1, n)
        BY DEF Front
      <3> HIDE DEF n, u
      <3>3. /\ u \in Seq(Chars) /\ Len(u) = IF 1 <= n THEN n - 1 + 1 ELSE 0
            /\ \A k \in 1 .. n - 1 + 1 : u[k] = t[1 + k - 1]
        BY <3>1, <3>2, SubSeqProperties
      <3>4. Len(u) = n /\ \A k \in 1 .. n : u[k] = t[k]
        BY <3>1, <3>3
      <3> QED
        BY <3>3, <3>4 DEF n
    <2> HIDE DEF u
    <2>3. ASSUME NEW k \in 1 .. Len(u) PROVE b.cells[position(b) - Len(u) + k - 1] = u[k]
      <3>1. /\ k \in 1 .. Len(t) /\ u[k] = t[k]
            /\ position(b) - Len(u) + k - 1 = position(s) - Len(t) + k - 1
            /\ position(s) - Len(t) + k - 1 \in Cells
            /\ position(s) - Len(t) + k - 1 < position(s) - 1
        BY SMTT(60), <1>1, <1>2, <1>3, <2>1, <2>2
      <3>2. s.cells[position(s) - Len(t) + k - 1] = t[k]
        BY <3>1 DEF Shows
      <3> QED
        BY <1>1, <3>1, <3>2
    <2>4. Len(u) <= Above /\ Len(u) <= position(b)
      BY <1>1, <1>2, <1>3, <2>1, <2>2
    <2>5. Shows(b, u)
      BY <2>2, <2>3, <2>4 DEF Shows
    <2> QED
      BY <1>5, <2>5 DEF u, b
  <1> QED
    BY <1>4, <1>5

-----------------------------------------------------------------------------
(* The invariant.                                                          *)

\* The row holds the keys that Backspace may erase, and if all its keys show, they
\* have cells before the cursor of the screen.
Room(s, row, n) ==
    /\ row \in Seq(Keys) /\ n \in Nat
    /\ n <= Len(row) /\ Len(row) <= LINE_MAX
    /\ NUL \notin ToSet(row) => n <= position(s)

\* Every screen has its cursor on the page, shows the text put on it, and has
\* room to erase what was typed.
ScreenPart ==
    /\ curr_terminal \in Terminals
    /\ screen \in [Terminals -> Pages]
    /\ kbrd_buf \in [Terminals -> Seq(Keys)]
    /\ kbrd_buf_length \in [Terminals -> Nat]
    /\ tail \in [Terminals -> Seq(Chars)]
    /\ \A t \in Terminals : /\ Shows(screen[t], tail[t])
                            /\ Room(screen[t], kbrd_buf[t], kbrd_buf_length[t])

\* In a row there is a first place where it ends or has a NUL.
LEMMA FirstEnd ==
  ASSUME NEW len \in Nat, NEW Nuls
  PROVE  \E m \in 0 .. len : /\ m = len \/ m + 1 \in Nuls
                             /\ \A k \in 1 .. m : k \notin Nuls
  <1> DEFINE ends == {i \in 0 .. len : i = len \/ i + 1 \in Nuls}
  <1>1. ends \in SUBSET Nat /\ ends # {}
    <2>1. len \in ends
      OBVIOUS
    <2> QED
      BY <2>1
  <1>2. PICK m \in ends : \A j \in ends : m <= j
    <2> HIDE DEF ends
    <2> QED
      BY <1>1, LeastMember
  <1>3. m \in 0 .. len /\ (m = len \/ m + 1 \in Nuls)
    OBVIOUS
  <1>4. ASSUME NEW k \in 1 .. m PROVE k \notin Nuls
    <2>1. k - 1 \in 0 .. len /\ (k - 1) + 1 = k /\ ~ (m <= k - 1)
      BY <1>3
    <2> QED
      BY <1>2, <2>1
  <1> QED
    BY <1>3, <1>4

\* What puts prints of a row are keys that show, at most as many as the row has,
\* and all of them if there is no NUL among them.
LEMMA StringOfRow ==
  ASSUME NEW row \in Seq(Keys)
  PROVE  /\ string(row) \in Seq(Shown)
         /\ Len(string(row)) <= Len(row)
         /\ NUL \notin ToSet(row) => string(row) = row
  <1> DEFINE len  == Len(row)
             P(i) == /\ i = Len(row) \/ row[i + 1] = NUL
                     /\ \A k \in 1 .. i : row[k] # NUL
             Nuls == {k \in Nat : row[k] = NUL}
             last == CHOOSE i \in 0 .. Len(row) : P(i)
  <1>1. len \in Nat /\ DOMAIN row = 1 .. len /\ \A k \in 1 .. len : row[k] \in Keys
    OBVIOUS
  <1>2. PICK m \in 0 .. len : /\ m = len \/ m + 1 \in Nuls
                             /\ \A k \in 1 .. m : k \notin Nuls
    <2> HIDE DEF len, Nuls
    <2> QED
      BY <1>1, FirstEnd
  <1>3. m \in 0 .. Len(row) /\ P(m)
    <2>1. \A k \in 1 .. m : k \in Nat
      BY <1>1
    <2>2. \A k \in 1 .. m : row[k] # NUL
      BY <1>2, <2>1, Zenon
    <2> QED
      BY <1>2, <2>2, Zenon
  <1>4. last \in 0 .. Len(row) /\ P(last)
    <2> HIDE DEF P
    <2> QED
      BY <1>3
  <1>5. string(row) = SubSeq(row, 1, last)
    BY Zenon DEF string
  <1>6. /\ last \in 0 .. len /\ (last = len \/ row[last + 1] = NUL)
        /\ \A k \in 1 .. last : row[k] # NUL
    <2> HIDE DEF last
    <2> QED
      BY <1>4, Zenon
  <1> HIDE DEF last, P, Nuls
  <1>7. last \in Nat /\ last <= len
    <2> HIDE DEF len
    <2> QED
      BY <1>1, <1>6
  <1>8. /\ SubSeq(row, 1, last) \in Seq(Keys) /\ Len(SubSeq(row, 1, last)) = last
        /\ \A k \in 1 .. last : SubSeq(row, 1, last)[k] = row[k]
    BY <1>7
  <1>9. /\ string(row) \in Seq(Keys) /\ Len(string(row)) = last
        /\ \A k \in 1 .. last : string(row)[k] = row[k]
    BY <1>5, <1>8, Zenon
  <1>10. string(row) \in Seq(Shown)
    <2>1. string(row) = [k \in 1 .. last |-> string(row)[k]]
      BY <1>7, <1>9
    <2>2. \A k \in 1 .. last : k \in 1 .. len
      BY <1>1, <1>7
    <2>3. \A k \in 1 .. last : string(row)[k] \in Shown
      BY <1>1, <1>6, <1>9, <2>2, Zenon DEF Shown
    <2>4. string(row) \in [1 .. last -> Shown]
      BY <2>1, <2>3
    <2> QED
      BY <1>7, <2>4
  <1>11. ASSUME NUL \notin ToSet(row) PROVE string(row) = row
    <2>1. \A k \in 1 .. len : row[k] # NUL
      BY <1>1, <1>11 DEF ToSet
    <2>2. last = len
      <3>1. last # len => last + 1 \in 1 .. len
        <4> HIDE DEF len
        <4> QED
          BY <1>1, <1>7
      <3> QED
        BY <1>6, <2>1, <3>1, Zenon
    <2> QED
      BY <1>9, <2>2, SeqEqual
  <1> QED
    BY <1>7, <1>9, <1>10, <1>11

\* A row without its last byte, with one more byte, and without its first ones.
LEMMA RowChanges ==
  ASSUME NEW row \in Seq(Keys)
  PROVE  /\ Len(row) > 0 => /\ Front(row) \in Seq(Keys) /\ Len(Front(row)) = Len(row) - 1
                            /\ NUL \notin ToSet(row) => NUL \notin ToSet(Front(row))
         /\ \A c \in Keys : /\ Append(row, c) \in Seq(Keys)
                            /\ Len(Append(row, c)) = Len(row) + 1
                            /\ NUL \notin ToSet(Append(row, c)) =>
                                  NUL \notin ToSet(row) /\ c # NUL
         /\ \A n \in 1 .. Len(row) : /\ SubSeq(row, n + 1, Len(row)) \in Seq(Keys)
                                     /\ Len(SubSeq(row, n + 1, Len(row))) <= Len(row)
  <1>1. Len(row) \in Nat /\ DOMAIN row = 1 .. Len(row) /\ \A k \in 1 .. Len(row) : row[k] \in Keys
    OBVIOUS
  <1>2. ASSUME Len(row) > 0
        PROVE  /\ Front(row) \in Seq(Keys) /\ Len(Front(row)) = Len(row) - 1
               /\ NUL \notin ToSet(row) => NUL \notin ToSet(Front(row))
    <2>1. /\ Front(row) \in Seq(Keys) /\ Len(Front(row)) = Len(row) - 1
          /\ \A k \in 1 .. Len(row) - 1 : Front(row)[k] = row[k]
      BY <1>1, <1>2 DEF Front
    <2>2. DOMAIN Front(row) = 1 .. Len(row) - 1
      BY <2>1
    <2> QED
      BY <1>1, <2>1, <2>2 DEF ToSet
  <1>3. ASSUME NEW c \in Keys
        PROVE  /\ Append(row, c) \in Seq(Keys) /\ Len(Append(row, c)) = Len(row) + 1
               /\ NUL \notin ToSet(Append(row, c)) => NUL \notin ToSet(row) /\ c # NUL
    <2>1. /\ Append(row, c) \in Seq(Keys) /\ Len(Append(row, c)) = Len(row) + 1
          /\ DOMAIN Append(row, c) = 1 .. Len(row) + 1
          /\ \A k \in 1 .. Len(row) : Append(row, c)[k] = row[k]
          /\ Append(row, c)[Len(row) + 1] = c
      BY <1>1
    <2>2. Len(row) + 1 \in 1 .. Len(row) + 1 /\ \A k \in 1 .. Len(row) : k \in 1 .. Len(row) + 1
      BY <1>1
    <2> HIDE <1>1
    <2> QED
      BY <1>1, <2>1, <2>2 DEF ToSet
  <1>4. ASSUME NEW n \in 1 .. Len(row)
        PROVE  /\ SubSeq(row, n + 1, Len(row)) \in Seq(Keys)
               /\ Len(SubSeq(row, n + 1, Len(row))) <= Len(row)
    BY <1>1
  <1> QED
    BY <1>2, <1>3, <1>4

\* What programs and the kernel write are texts.
LEMMA TextsAreTexts ==
  /\ \A text \in Texts \cup Messages : text \in Seq(Chars)
  /\ \A c \in Keys : <<c>> \in Seq(Chars) /\ Len(<<c>>) = 1 /\ <<c>>[1] = c
  /\ <<Newline>> \in Seq(Chars)
  /\ Seq(Shown) \subseteq Seq(Chars)
  <1>1. ASSUME NEW text \in Texts \cup Messages PROVE text \in Seq(Chars)
    <2> DEFINE S == {text[k] : k \in DOMAIN text}
    <2>1. text \in Seq(S)
      BY ScreenAssumption
    <2>2. S \subseteq Chars
      BY DEF Chars, Glyphs
    <2> HIDE DEF S
    <2> QED
      BY <2>1, <2>2
  <1>2. Keys \subseteq Chars /\ Shown \subseteq Chars /\ Newline \in Chars
    BY DEF Chars, Glyphs, Shown
  <1> QED
    BY <1>1, <1>2

\* A step that changes one screen, its text and its row only keeps the invariant
\* if the new screen does.
LEMMA OneScreen ==
  ASSUME ScreenPart, NEW t \in Terminals, NEW s \in Pages, NEW u, NEW l, NEW n,
         Shows(s, u), Room(s, l, n), curr_terminal' \in Terminals,
         screen' = [screen EXCEPT ![t] = s],
         tail' = [tail EXCEPT ![t] = u],
         kbrd_buf' = [kbrd_buf EXCEPT ![t] = l],
         kbrd_buf_length' = [kbrd_buf_length EXCEPT ![t] = n]
  PROVE  ScreenPart'
  <1>1. u \in Seq(Chars) /\ l \in Seq(Keys) /\ n \in Nat
    BY DEF Shows, Room
  <1>2. screen' \in [Terminals -> Pages] /\ kbrd_buf' \in [Terminals -> Seq(Keys)]
        /\ kbrd_buf_length' \in [Terminals -> Nat] /\ tail' \in [Terminals -> Seq(Chars)]
    BY <1>1 DEF ScreenPart
  <1>3. ASSUME NEW v \in Terminals
        PROVE  Shows(screen'[v], tail'[v]) /\ Room(screen'[v], kbrd_buf'[v], kbrd_buf_length'[v])
    BY DEF ScreenPart
  <1> QED
    BY <1>2, <1>3 DEF ScreenPart

\* The state after clear satisfies the invariant.
LEMMA ScreenInit == Init => ScreenPart
  <1> SUFFICES ASSUME Init PROVE ScreenPart
    OBVIOUS
  <1>1. Room(reset, <<>>, 0)
    BY ResetPage, AboveFacts DEF Room
  <1>2. 0 \in Terminals
    BY ScreenAssumption
  <1> QED
    BY <1>1, <1>2, ResetPage DEF Init, ScreenPart

\* Text put on any screen keeps the invariant.
LEMMA OutputPart ==
  ASSUME ScreenPart, NEW t \in Terminals, NEW text \in Seq(Chars), output(t, text),
         UNCHANGED <<curr_terminal, inputVars>>
  PROVE  ScreenPart'
  <1> DEFINE s == puts(text, screen[t])
             u == seen(tail[t], text)
  <1>1. /\ screen[t] \in Pages /\ Shows(screen[t], tail[t])
        /\ Room(screen[t], kbrd_buf[t], kbrd_buf_length[t])
    BY DEF ScreenPart
  <1>2. /\ s \in Pages /\ Shows(s, u)
        /\ \A m \in 0 .. Above : m <= position(screen[t]) => m <= position(s)
    BY <1>1, PutsPage
  <1>3. Room(s, kbrd_buf[t], kbrd_buf_length[t])
    <2>1. Len(kbrd_buf[t]) \in Nat
      BY <1>1 DEF Room
    <2>2. kbrd_buf_length[t] \in 0 .. Above
      BY <1>1, <2>1, AboveFacts DEF Room
    <2> QED
      BY <1>1, <1>2, <2>2 DEF Room
  <1>4. screen' = [screen EXCEPT ![t] = s] /\ tail' = [tail EXCEPT ![t] = u]
    BY DEF output
  <1>5. /\ kbrd_buf' = [kbrd_buf EXCEPT ![t] = kbrd_buf[t]] /\ curr_terminal' \in Terminals
        /\ kbrd_buf_length' = [kbrd_buf_length EXCEPT ![t] = kbrd_buf_length[t]]
    BY DEF ScreenPart, inputVars
  <1> HIDE DEF s, u
  <1> QED
    BY <1>2, <1>3, <1>4, <1>5, OneScreen

\* puts of one character is putc.
LEMMA PutsOne ==
  ASSUME NEW c, NEW s
  PROVE  puts(<<c>>, s) = putc(c, s)
  <1>1. Len(<<c>>) = 1 /\ <<c>>[1] = c
    OBVIOUS
  <1>2. PICK f : IsPut(f, <<c>>, s, 1) /\ puts(<<c>>, s) = f[1]
    BY <1>1, PutsLoop
  <1> QED
    BY <1>1, <1>2 DEF IsPut

\* A key keeps the invariant: the cursor goes on if the key shows.
LEMMA KeyPart ==
  ASSUME ScreenPart, NEW c \in Keys, press_key(c)
  PROVE  ScreenPart'
  <1> DEFINE t == curr_terminal
             s == puts(<<c>>, screen[t])
             u == seen(tail[t], <<c>>)
             l == Append(kbrd_buf[t], c)
             n == kbrd_buf_length[t] + 1
  <1>1. t \in Terminals /\ screen[t] \in Pages /\ Shows(screen[t], tail[t])
        /\ Room(screen[t], kbrd_buf[t], kbrd_buf_length[t]) /\ Len(kbrd_buf[t]) < LINE_MAX
    BY DEF ScreenPart, press_key
  <1>2. <<c>> \in Seq(Chars) /\ c \in Chars /\ c # Newline
    BY TextsAreTexts, ScreenAssumption DEF Chars, Glyphs
  <1>3. s \in Pages /\ Shows(s, u)
    BY <1>1, <1>2, PutsPage
  <1>4. c # NUL => \A m \in 0 .. Above - 1 : m <= position(screen[t]) => m + 1 <= position(s)
    BY <1>1, <1>2, PutcPage, PutsOne
  <1>5. /\ kbrd_buf[t] \in Seq(Keys) /\ Len(kbrd_buf[t]) \in Nat /\ kbrd_buf_length[t] \in Nat
        /\ kbrd_buf_length[t] <= Len(kbrd_buf[t])
        /\ NUL \notin ToSet(kbrd_buf[t]) => kbrd_buf_length[t] <= position(screen[t])
    BY <1>1 DEF Room
  <1>6. l \in Seq(Keys) /\ Len(l) = Len(kbrd_buf[t]) + 1
        /\ (NUL \notin ToSet(l) => NUL \notin ToSet(kbrd_buf[t]) /\ c # NUL)
    BY <1>5, RowChanges
  <1>7. kbrd_buf_length[t] \in 0 .. Above - 1
    BY <1>1, <1>5, AboveFacts
  <1>8. Room(s, l, n)
    <2>1. n \in Nat /\ n <= Len(l) /\ Len(l) <= LINE_MAX
      BY <1>1, <1>5, <1>6, AboveFacts
    <2> QED
      BY <1>4, <1>5, <1>6, <1>7, <2>1 DEF Room
  <1>9. /\ screen' = [screen EXCEPT ![t] = s] /\ tail' = [tail EXCEPT ![t] = u]
        /\ kbrd_buf' = [kbrd_buf EXCEPT ![t] = l] /\ curr_terminal' \in Terminals
        /\ kbrd_buf_length' = [kbrd_buf_length EXCEPT ![t] = n]
    BY <1>1 DEF press_key, output
  <1> HIDE DEF s, u, l, n, t
  <1> QED
    BY <1>1, <1>3, <1>8, <1>9, OneScreen

\* Enter keeps the invariant.
LEMMA EnterPart ==
  ASSUME ScreenPart, press_enter
  PROVE  ScreenPart'
  <1> DEFINE t == curr_terminal
             s == puts(<<Newline>>, screen[t])
             u == seen(tail[t], <<Newline>>)
  <1>1. t \in Terminals /\ screen[t] \in Pages /\ Shows(screen[t], tail[t])
        /\ Room(screen[t], kbrd_buf[t], kbrd_buf_length[t])
    BY DEF ScreenPart
  <1>2. s \in Pages /\ Shows(s, u)
    BY <1>1, TextsAreTexts, PutsPage
  <1>3. position(s) \in Nat
    BY <1>2, PageFacts DEF Cells
  <1>4. PICK l \in {<<>>, kbrd_buf[t]} : kbrd_buf' = [kbrd_buf EXCEPT ![t] = l]
    BY DEF press_enter
  <1>5. Room(s, l, 0)
    <2>1. CASE l = <<>>
      <3>1. l \in Seq(Keys) /\ Len(l) = 0
        BY <2>1
      <3> QED
        BY <1>3, <3>1, AboveFacts DEF Room
    <2>2. CASE l = kbrd_buf[t]
      <3>1. l \in Seq(Keys) /\ Len(l) \in Nat /\ Len(l) <= LINE_MAX
        BY <1>1, <2>2 DEF Room
      <3> QED
        BY <1>3, <3>1 DEF Room
    <2> QED
      BY <1>4, <2>1, <2>2
  <1>6. /\ screen' = [screen EXCEPT ![t] = s] /\ tail' = [tail EXCEPT ![t] = u]
        /\ kbrd_buf_length' = [kbrd_buf_length EXCEPT ![t] = 0] /\ curr_terminal' \in Terminals
    BY <1>1 DEF press_enter, output
  <1> HIDE DEF s, u, t
  <1> QED
    BY <1>1, <1>2, <1>4, <1>5, <1>6, OneScreen

\* A read keeps the invariant: nothing that it takes is left to erase.
LEMMA TakePart ==
  ASSUME ScreenPart, NEW n \in 1 .. LINE_MAX, take_line(n)
  PROVE  ScreenPart'
  <1> DEFINE t == curr_terminal
             l == SubSeq(kbrd_buf[t], n + 1, Len(kbrd_buf[t]))
  <1>1. t \in Terminals /\ screen[t] \in Pages /\ Shows(screen[t], tail[t])
        /\ Room(screen[t], kbrd_buf[t], kbrd_buf_length[t]) /\ kbrd_buf_length[t] = 0
    BY DEF ScreenPart, take_line
  <1>2. kbrd_buf[t] \in Seq(Keys) /\ Len(kbrd_buf[t]) \in Nat /\ Len(kbrd_buf[t]) <= LINE_MAX
        /\ n \in 1 .. Len(kbrd_buf[t])
    BY <1>1, AboveFacts DEF Room, take_line
  <1>3. l \in Seq(Keys) /\ Len(l) <= Len(kbrd_buf[t])
    BY <1>2, RowChanges
  <1>4. position(screen[t]) \in Nat
    BY <1>1, PageFacts DEF Cells
  <1>5. Room(screen[t], l, 0)
    <2>1. Len(l) \in Nat
      BY <1>3
    <2> HIDE DEF l
    <2> QED
      BY <1>2, <1>3, <1>4, <2>1, AboveFacts DEF Room
  <1>6. /\ screen' = [screen EXCEPT ![t] = screen[t]] /\ tail' = [tail EXCEPT ![t] = tail[t]]
        /\ kbrd_buf' = [kbrd_buf EXCEPT ![t] = l] /\ curr_terminal' \in Terminals
        /\ kbrd_buf_length' = [kbrd_buf_length EXCEPT ![t] = 0]
    BY <1>1 DEF take_line, ScreenPart
  <1> HIDE DEF l, t
  <1> QED
    BY <1>1, <1>5, <1>6, OneScreen

\* Backspace keeps the invariant: it takes back no more than was typed and shown.
LEMMA BackspacePart ==
  ASSUME EraseVisible, ScreenPart, press_backspace
  PROVE  ScreenPart'
  <1> DEFINE t == curr_terminal
             s == backspace_helper(screen[t])
             u == IF tail[t] = <<>> THEN tail[t] ELSE Front(tail[t])
             l == Front(kbrd_buf[t])
             n == kbrd_buf_length[t] - 1
  <1>1. t \in Terminals /\ screen[t] \in Pages /\ Shows(screen[t], tail[t])
        /\ Room(screen[t], kbrd_buf[t], kbrd_buf_length[t]) /\ kbrd_buf_length[t] > 0
        /\ NUL \notin ToSet(kbrd_buf[t])
    BY DEF ScreenPart, press_backspace
  <1>2. /\ kbrd_buf[t] \in Seq(Keys) /\ Len(kbrd_buf[t]) \in Nat /\ kbrd_buf_length[t] \in Nat
        /\ kbrd_buf_length[t] <= Len(kbrd_buf[t]) /\ Len(kbrd_buf[t]) <= LINE_MAX
        /\ kbrd_buf_length[t] <= position(screen[t])
    BY <1>1 DEF Room
  <1>3. position(screen[t]) \in Nat /\ position(screen[t]) > 0
    BY <1>1, <1>2, PageFacts DEF Cells
  <1>4. s \in Pages /\ position(s) = position(screen[t]) - 1 /\ Shows(s, u)
    BY <1>1, <1>3, BackspacePage, ShowsErased
  <1>5. l \in Seq(Keys) /\ Len(l) = Len(kbrd_buf[t]) - 1
    BY <1>1, <1>2, RowChanges
  <1>6. Room(s, l, n)
    BY <1>1, <1>2, <1>3, <1>4, <1>5, AboveFacts DEF Room
  <1>7. /\ screen' = [screen EXCEPT ![t] = s] /\ tail' = [tail EXCEPT ![t] = u]
        /\ kbrd_buf' = [kbrd_buf EXCEPT ![t] = l] /\ curr_terminal' \in Terminals
        /\ kbrd_buf_length' = [kbrd_buf_length EXCEPT ![t] = n]
    BY <1>1 DEF press_backspace
  <1> HIDE DEF s, u, l, n, t
  <1> QED
    BY <1>1, <1>4, <1>6, <1>7, OneScreen

\* Ctrl-L keeps the invariant: what it prints fits on the empty page, and is the
\* whole row if all of it shows.
LEMMA CtrlLPart ==
  ASSUME ScreenPart, press_ctrl_l
  PROVE  ScreenPart'
  <1> DEFINE t == curr_terminal
             l == kbrd_buf[t]
             n == kbrd_buf_length[t]
             v == string(l)
             s == puts(v, reset)
  <1>1. t \in Terminals /\ Room(screen[t], l, n)
    BY DEF ScreenPart
  <1>2. /\ l \in Seq(Keys) /\ Len(l) \in Nat /\ n \in Nat /\ n <= Len(l) /\ Len(l) <= LINE_MAX
    BY <1>1 DEF Room
  <1>3. v \in Seq(Shown) /\ Len(v) <= Len(l) /\ (NUL \notin ToSet(l) => v = l)
    BY <1>2, StringOfRow
  <1> HIDE DEF v
  <1>4. v \in Seq(Chars) /\ Len(v) \in Nat /\ Len(v) <= Above
    BY <1>2, <1>3, TextsAreTexts, AboveFacts
  <1>5. s \in Pages /\ Shows(s, seen(<<>>, v))
    BY <1>4, ResetPage, PutsPage
  <1>6. seen(<<>>, v) = v
    BY <1>3, <1>4, SeenLine
  <1>7. Shows(s, v) /\ position(s) \in Nat
    BY <1>5, <1>6, PageFacts DEF Cells
  <1>8. Room(s, l, n)
    <2>1. ASSUME NUL \notin ToSet(l) PROVE n <= position(s)
      BY <1>2, <1>3, <1>7, <2>1 DEF Shows
    <2> QED
      BY <1>2, <2>1 DEF Room
  <1>9. /\ screen' = [screen EXCEPT ![t] = s] /\ tail' = [tail EXCEPT ![t] = v]
        /\ kbrd_buf' = [kbrd_buf EXCEPT ![t] = l] /\ curr_terminal' \in Terminals
        /\ kbrd_buf_length' = [kbrd_buf_length EXCEPT ![t] = n]
    BY <1>1 DEF press_ctrl_l, ScreenPart, inputVars, v
  <1> HIDE DEF s, l, n, t
  <1> QED
    BY <1>1, <1>5, <1>7, <1>8, <1>9, OneScreen

\* Every step keeps the invariant.
LEMMA ScreenStep ==
  ASSUME EraseVisible, ScreenPart, [Next]_vars
  PROVE  ScreenPart'
  <1>1. ASSUME NEW t \in Terminals, press_function(t) PROVE ScreenPart'
    BY <1>1 DEF press_function, update_curr_term, ScreenPart, inputVars
  <1>2. ASSUME NEW t \in Terminals, NEW text \in Texts, terminal_write(t, text) PROVE ScreenPart'
    BY <1>2, OutputPart, TextsAreTexts DEF terminal_write
  <1>3. ASSUME NEW text \in Messages, NEW freeze \in BOOLEAN, kernel_message(text, freeze)
        PROVE  ScreenPart'
    <2>1. curr_terminal \in Terminals
      BY DEF ScreenPart
    <2> QED
      BY <1>3, <2>1, OutputPart, TextsAreTexts DEF kernel_message
  <1>4. ASSUME \/ rtc_int
               \/ \E k \in Cells, c \in Drawing : draw(k, c)
               \/ UNCHANGED vars
        PROVE  ScreenPart'
    <2>1. UNCHANGED <<screen, curr_terminal, kbrd_buf, kbrd_buf_length, tail>>
      BY <1>4 DEF rtc_int, draw, vars, inputVars
    <2> QED
      BY <2>1 DEF ScreenPart
  <1> QED
    BY <1>1, <1>2, <1>3, <1>4, KeyPart, EnterPart, TakePart,
       BackspacePart, CtrlLPart DEF Next

-----------------------------------------------------------------------------
(* Theorems.                                                               *)

\* Wrapping, scrolling and erasing never take the cursor off the page of its
\* terminal, for every size of the page, every text and every set of keys, if
\* Backspace is not pressed while the row holds a key that shows nothing.
THEOREM CursorCorrect ==
  ASSUME EraseVisible
  PROVE  Spec => []CursorOnPage
  <1>1. ScreenPart => CursorOnPage
    BY DEF ScreenPart, Pages, CursorOnPage
  <1> QED
    BY <1>1, ScreenInit, ScreenStep, PTL DEF Spec

\* Under the same condition the cells before the cursor hold the text put there
\* since the last newline or the last Ctrl-L.
THEOREM TextCorrect ==
  ASSUME EraseVisible
  PROVE  Spec => []TextBeforeCursor
  <1>1. ScreenPart => TextBeforeCursor
    <2> SUFFICES ASSUME ScreenPart, NEW t \in Terminals, NEW k \in 1 .. Len(tail[t])
                 PROVE  /\ position(screen[t]) - Len(tail[t]) >= 0
                        /\ screen[t].cells[position(screen[t]) - Len(tail[t]) + k - 1] = tail[t][k]
      BY DEF TextBeforeCursor
    <2>1. Shows(screen[t], tail[t]) /\ screen[t] \in Pages
      BY DEF ScreenPart
    <2>2. position(screen[t]) \in Nat
      BY <2>1, PageFacts DEF Cells
    <2>3. Len(tail[t]) \in Nat /\ Len(tail[t]) <= position(screen[t])
      BY <2>1 DEF Shows
    <2> QED
      BY <2>1, <2>2, <2>3 DEF Shows
  <1> QED
    BY <1>1, ScreenInit, ScreenStep, PTL DEF Spec

\* The card's cursor is the displayed terminal's after every key, output and
\* change of terminals.
THEOREM CardCorrect == Spec => []CursorShown
  <1>1. Init => CursorShown
    <2> SUFFICES ASSUME Init PROVE CursorShown
      OBVIOUS
    <2>1. screen[curr_terminal] = reset /\ cursor = 0
      BY ScreenAssumption DEF Init
    <2> QED
      BY <2>1, ResetPage DEF CursorShown
  <1>2. ASSUME CursorShown, [Next]_vars PROVE CursorShown'
    <2>1. ASSUME NEW t \in Terminals, press_function(t) PROVE CursorShown'
      BY <2>1 DEF press_function, update_curr_term, update_vidmem, CursorShown
    <2>2. ASSUME cursor' = position(screen'[curr_terminal]), UNCHANGED curr_terminal
          PROVE  CursorShown'
      BY <2>2 DEF CursorShown, position
    <2>3. ASSUME \/ \E t \in Terminals, text \in Texts : terminal_write(t, text)
                 \/ \E text \in Messages, freeze \in BOOLEAN : kernel_message(text, freeze)
                 \/ \E c \in Keys : press_key(c)
                 \/ press_enter \/ press_backspace \/ press_ctrl_l
          PROVE  CursorShown'
      <3>1. cursor' = position(screen'[curr_terminal]) /\ UNCHANGED curr_terminal
        BY <2>3 DEF terminal_write, kernel_message, press_key, press_enter, press_backspace,
                    press_ctrl_l, output
      <3> QED
        BY <2>2, <3>1
    <2>4. ASSUME \/ rtc_int
                 \/ \E n \in 1 .. LINE_MAX : take_line(n)
                 \/ \E k \in Cells, c \in Drawing : draw(k, c)
                 \/ UNCHANGED vars
          PROVE  CursorShown'
      <3>1. UNCHANGED <<screen, curr_terminal, cursor>>
        BY <2>4 DEF rtc_int, take_line, draw, vars
      <3> QED
        BY <1>2, <3>1 DEF CursorShown, position
    <2> QED
      BY <1>2, <2>1, <2>3, <2>4 DEF Next
  <1> QED
    BY <1>1, <1>2, PTL DEF Spec
=============================================================================
