---------------------------- MODULE TerminalProofs ----------------------------
(***************************************************************************)
(* Theorems about Console and Terminal, for every screen, every number of  *)
(* printing processes and whatever is typed: types and the bounds of the   *)
(* line, the return of the cursor to the screen, the shift state, what the *)
(* screen shows of what was printed, and of the line that is being typed.  *)
(***************************************************************************)
EXTENDS Terminal, SequenceTheorems, TLAPS

\* The character set holds the control characters and what programs print.
LEMMA CharsAreThere ==
    /\ Glyph \subseteq Char /\ {NL, CR, HT, BS} \subseteq Char
    /\ PROMPT \in Seq(Char) /\ MESSAGE \in Seq(Char)
    /\ \A i \in 1 .. Len(MESSAGE) : MESSAGE[i] \in Char
<1>1. Glyph \subseteq Char /\ {NL, CR, HT, BS} \subseteq Char
    BY DEF Char
<1>2. NL \in Char /\ ">" \in Char /\ "t" \in Char
    BY <1>1, TerminalAssumption
<1> QED BY <1>1, <1>2 DEF PROMPT, MESSAGE

-----------------------------------------------------------------------------
\* A sheet: where the next character goes, and no ink below that line.
IsPage(s)  == s.line \in Nat /\ s.col \in Col
InkEnds(s) == \A l \in Nat, k \in Col : l > s.line => Ink(s, l, k) = Blank

\* What is inked on a sheet after one cell has been written.
LEMMA InkOfPut ==
    ASSUME NEW s, NEW l0, NEW col, NEW n, NEW x
    PROVE  LET t == Page(l0, col, Put(s, n, x)) IN
           /\ t.line = l0 /\ t.col = col
           /\ \A l, c : Ink(t, l, c) = IF <<l, c>> = <<s.line, n>> THEN x ELSE Ink(s, l, c)
BY DEF Page, Put, Ink

\* The sheet after vga_clear.
LEMMA BlankSheetIs ==
    IsPage(BlankSheet) /\ InkEnds(BlankSheet) /\ \A l, k : Ink(BlankSheet, l, k) = Blank
BY ConsoleAssumption DEF BlankSheet, Page, IsPage, InkEnds, Ink, Col

\* Division with remainder.
LEMMA Division ==
    ASSUME NEW n \in Int, NEW t \in Int, t > 0
    PROVE  n = (n \div t) * t + (n % t)
OBVIOUS

\* Quotients, remainders, and multiples of the same number.
LEMMA Multiples ==
    ASSUME NEW t \in Nat \ {0}
    PROVE  /\ \A n \in Nat : /\ n \div t \in Nat /\ (n \div t) * t <= n /\ n < (n \div t) * t + t
                             /\ n % t = 0 => n = (n \div t) * t
           /\ \A q \in Nat : q * t \in Nat /\ (q * t) % t = 0
           /\ \A q, r \in Nat : q * t < r * t => q * t + t <= r * t
<1>1. ASSUME NEW n \in Nat
      PROVE  /\ n \div t \in Nat /\ (n \div t) * t <= n
             /\ n % t = 0 => n = (n \div t) * t
  BY <1>1
<1>2. ASSUME NEW n \in Nat PROVE n < (n \div t) * t + t
  <2>1. n = (n \div t) * t + (n % t)
    BY <1>2, Division
  <2>2. n % t < t
    BY <1>2
  <2>3. (n \div t) * t \in Int /\ n % t \in Int
    BY <1>2
  <2> QED BY <2>1, <2>2, <2>3
<1>3. ASSUME NEW q \in Nat PROVE q * t \in Nat /\ (q * t) % t = 0
  BY <1>3
<1>4. ASSUME NEW q \in Nat, NEW r \in Nat, q * t < r * t PROVE q * t + t <= r * t
  <2>1. q < r
    BY <1>4
  <2>2. (q + 1) * t <= r * t
    BY <2>1
  <2> QED BY <2>2
<1> QED BY <1>1, <1>2, <1>3, <1>4

\* (col + TAB) & ~(TAB - 1) is the first tab stop behind col.
LEMMA TabStopIs ==
    ASSUME NEW col \in Col
    PROVE  TabStop(col) \in Nat /\ TabStop(col) > col /\ TabStop(col) = NextStop(col)
<1> DEFINE stop == TabStop(col)
<1>1. TAB \in Nat \ {0} /\ col \in Nat /\ col + TAB \in Nat
  BY ConsoleAssumption DEF Col
<1>2. stop \in Nat /\ stop <= col + TAB /\ col + TAB < stop + TAB /\ stop % TAB = 0
      /\ (col + TAB) \div TAB \in Nat /\ stop = ((col + TAB) \div TAB) * TAB
  BY <1>1, Multiples DEF TabStop
<1> HIDE DEF stop
<1>3. stop \in (col + 1) .. (col + TAB)
  BY <1>1, <1>2
<1>4. ASSUME NEW n \in (col + 1) .. (col + TAB), n % TAB = 0 PROVE n = stop
  <2>1. n \in Nat
    BY <1>1
  <2>2. n \div TAB \in Nat /\ n = (n \div TAB) * TAB
    BY <1>1, <1>4, <2>1, Multiples
  <2>3. \A q, r \in Nat : q * TAB < r * TAB => q * TAB + TAB <= r * TAB
    BY <1>1, Multiples
  <2>4. n < stop => n + TAB <= stop
    BY <1>2, <2>2, <2>3
  <2>5. stop < n => stop + TAB <= n
    BY <1>2, <2>2, <2>3
  <2> QED BY <1>1, <1>2, <2>1, <2>4, <2>5
<1>5. NextStop(col) = stop
  BY <1>2, <1>3, <1>4 DEF NextStop
<1> QED BY <1>1, <1>2, <1>3, <1>5 DEF stop

\* What each character does to the sheet.
SameInk(s, t) == \A l, k : Ink(t, l, k) = Ink(s, l, k)
OneInk(s, t, col, x) == \A l, k : Ink(t, l, k) = IF <<l, k>> = <<s.line, col>> THEN x ELSE Ink(s, l, k)
NewLineOn(s, t) == t.line = s.line + 1 /\ t.col = 0

LEMMA SheetOf ==
    ASSUME NEW s, IsPage(s), NEW c \in Char
    PROVE  LET t == Sheet(s, c)
               back == IF s.col = 0 THEN 0 ELSE s.col - 1 IN
           /\ IsPage(t) /\ (InkEnds(s) => InkEnds(t))
           /\ c = NL => NewLineOn(s, t) /\ SameInk(s, t)
           /\ c = CR => t.line = s.line /\ t.col = 0 /\ SameInk(s, t)
           /\ c = HT => /\ SameInk(s, t)
                        /\ IF TabStop(s.col) < COLS THEN t.line = s.line /\ t.col = TabStop(s.col)
                                                    ELSE NewLineOn(s, t)
           /\ c = BS => t.line = s.line /\ t.col = back /\ OneInk(s, t, back, Blank)
           /\ c \in Glyph => /\ OneInk(s, t, s.col, c)
                             /\ IF s.col + 1 < COLS THEN t.line = s.line /\ t.col = s.col + 1
                                                    ELSE NewLineOn(s, t)
<1> DEFINE t == Sheet(s, c)
           back == IF s.col = 0 THEN 0 ELSE s.col - 1
<1> HIDE DEF t
<1>1. /\ s.line \in Nat /\ s.col \in Col /\ s.col \in Nat /\ s.col < COLS /\ COLS \in Nat \ {0}
      /\ 0 \in Col /\ back \in Col /\ (s.col + 1 < COLS => s.col + 1 \in Col)
      /\ (s.col + 1 < COLS <=> s.col # COLS - 1)
  BY ConsoleAssumption DEF IsPage, Col
<1>2. ASSUME NEW l0 \in Nat, NEW col \in Col, t.line = l0, t.col = col PROVE IsPage(t)
  BY <1>2 DEF IsPage
<1>2p. ASSUME NEW l0, NEW col, t = Page(l0, col, s.ink)
       PROVE  t.line = l0 /\ t.col = col /\ SameInk(s, t)
  <2>1. \A l, k : Ink(t, l, k) = Ink(s, l, k)
    BY <1>2p DEF Page, Ink
  <2> QED BY <1>2p, <2>1 DEF SameInk, Page
<1>2i. ASSUME NEW l0, NEW col, NEW n, NEW x, t = Page(l0, col, Put(s, n, x))
       PROVE  t.line = l0 /\ t.col = col /\ OneInk(s, t, n, x)
  <2>1. \A l, k : Ink(t, l, k) = IF <<l, k>> = <<s.line, n>> THEN x ELSE Ink(s, l, k)
    BY <1>2i, InkOfPut
  <2> QED BY <1>2i, <2>1 DEF OneInk, Page
<1>3. ASSUME InkEnds(s), SameInk(s, t), t.line \in {s.line, s.line + 1} PROVE InkEnds(t)
  BY <1>1, <1>3 DEF InkEnds, SameInk
<1>4. ASSUME NEW col, NEW x, InkEnds(s), OneInk(s, t, col, x), t.line \in {s.line, s.line + 1} PROVE InkEnds(t)
  BY <1>1, <1>4 DEF InkEnds, OneInk
<1>5. NL \notin Glyph /\ CR \notin Glyph /\ HT \notin Glyph /\ BS \notin Glyph
      /\ NL # CR /\ NL # HT /\ NL # BS /\ CR # HT /\ CR # BS /\ HT # BS
  BY ConsoleAssumption DEF NL, CR, HT, BS
<1>6. c \in Glyph \/ c = NL \/ c = CR \/ c = HT \/ c = BS
  BY DEF Char
<1>7. CASE c = NL
  <2>1. t = Page(s.line + 1, 0, s.ink)
    BY <1>5, <1>7 DEF Sheet, t
  <2>2. NewLineOn(s, t) /\ SameInk(s, t) /\ IsPage(t)
    BY <1>1, <1>2, <1>2p, <2>1 DEF NewLineOn
  <2> QED BY <1>3, <1>5, <1>7, <2>2 DEF NewLineOn, t
<1>8. CASE c = CR
  <2>1. t = Page(s.line, 0, s.ink)
    BY <1>5, <1>8 DEF Sheet, t
  <2>2. t.line = s.line /\ t.col = 0 /\ SameInk(s, t) /\ IsPage(t)
    BY <1>1, <1>2, <1>2p, <2>1
  <2> QED BY <1>3, <1>5, <1>8, <2>2 DEF t
<1>9. CASE c = HT
  <2>1. t = IF TabStop(s.col) < COLS THEN Page(s.line, TabStop(s.col), s.ink)
                                     ELSE Page(s.line + 1, 0, s.ink)
    BY <1>1, <1>5, <1>9, TabStopIs DEF Sheet, t
  <2>2. TabStop(s.col) < COLS => TabStop(s.col) \in Col
    BY <1>1, TabStopIs DEF Col
  <2>3. /\ SameInk(s, t) /\ IsPage(t)
        /\ IF TabStop(s.col) < COLS THEN t.line = s.line /\ t.col = TabStop(s.col)
                                    ELSE NewLineOn(s, t)
    BY <1>1, <1>2, <1>2p, <2>1, <2>2 DEF NewLineOn
  <2> QED BY <1>3, <1>5, <1>9, <2>3 DEF NewLineOn, t
<1>10. CASE c = BS
  <2>1. t = Page(s.line, back, Put(s, back, Blank))
    BY <1>5, <1>10 DEF Sheet, t
  <2>2. t.line = s.line /\ t.col = back /\ OneInk(s, t, back, Blank) /\ IsPage(t)
    BY <1>1, <1>2, <1>2i, <2>1
  <2> QED BY <1>4, <1>5, <1>10, <2>2 DEF t
<1>11. CASE c \in Glyph
  <2>1. t = IF s.col + 1 < COLS THEN Page(s.line, s.col + 1, Put(s, s.col, c))
                                ELSE Page(s.line + 1, 0, Put(s, s.col, c))
    BY <1>1, <1>5, <1>11 DEF Sheet, t
  <2>2. /\ OneInk(s, t, s.col, c) /\ IsPage(t)
        /\ IF s.col + 1 < COLS THEN t.line = s.line /\ t.col = s.col + 1 ELSE NewLineOn(s, t)
    BY <1>1, <1>2, <1>2i, <2>1 DEF NewLineOn
  <2> QED BY <1>4, <1>5, <1>11, <2>2 DEF NewLineOn, t
<1> QED BY <1>6, <1>7, <1>8, <1>9, <1>10, <1>11 DEF t

-----------------------------------------------------------------------------
\* The registers of a call, and what is in them on the way to a cell.
Regs == [at : Place, ch : Char, row : Nat, col : Col]
GlyphsInCells == \A p \in Printer : io[p].at = "cell" => io[p].ch \in Glyph

(***************************************************************************)
(* vga_putchar and the steps of a call keep the console's types.           *)
(***************************************************************************)
LEMMA PutcharType ==
    ASSUME ConsoleTypeOK, NEW p \in Printer, NEW c \in Char, vga_putchar(p, c)
    PROVE  ConsoleTypeOK'
<1>1. io' \in [Printer -> [at : Place, ch : Char, row : Nat, col : Col]]
    BY ConsoleAssumption DEF ConsoleTypeOK, vga_putchar, Place, Col
<1>2. IsPage(paper') /\ mixed' \in BOOLEAN
    BY SheetOf, BlankSheetIs DEF ConsoleTypeOK, vga_putchar, AllOut, IsPage
<1> QED BY <1>1, <1>2 DEF ConsoleTypeOK, vga_putchar, IsPage

\* vga_clear keeps the types.
LEMMA ClearType ==
    ASSUME ConsoleTypeOK, NEW p \in Printer, vga_clear(p)
    PROVE  ConsoleTypeOK'
<1>1. io' \in [Printer -> [at : Place, ch : Char, row : Nat, col : Col]]
  <2>1. [Out EXCEPT !.at = "blank"] \in [at : Place, ch : Char, row : Nat, col : Col]
    BY ConsoleAssumption DEF Place, Col, Out, Char
  <2> QED BY <2>1 DEF ConsoleTypeOK, vga_clear
<1>2. IsPage(paper') /\ mixed' \in BOOLEAN
    BY BlankSheetIs DEF vga_clear, AllOut
<1> QED BY <1>1, <1>2 DEF ConsoleTypeOK, vga_clear, IsPage

\* So does every later access of a print in progress.
LEMMA ContinueType ==
    ASSUME ConsoleTypeOK, GlyphsInCells, NEW p \in Printer, Continue(p)
    PROVE  ConsoleTypeOK'
<1> USE ConsoleAssumption
<1>1. io[p] \in Regs /\ cursor_col \in Col /\ cursor_row \in Nat /\ 0 \in Col /\ ROWS - 1 \in Nat
    BY DEF ConsoleTypeOK, Regs, Col
<1>2. \A row \in Nat : After(row) \in {"scroll", "hw"}
    BY DEF After
<1>i. io \in [Printer -> Regs]
    BY DEF ConsoleTypeOK, Regs
<1>r. ASSUME NEW place \in Place, NEW row \in Nat, NEW col \in Col
      PROVE  /\ [io[p] EXCEPT !.at = place] \in Regs
             /\ [at |-> place, ch |-> io[p].ch, row |-> row, col |-> col] \in Regs
    BY <1>1 DEF Regs
<1>3. \A place \in Place : Goto(p, place) => io' \in [Printer -> Regs]
  <2>1. \A place \in Place : [io[p] EXCEPT !.at = place] \in Regs
    BY <1>1, <1>r DEF Regs
  <2> QED BY <1>i, <2>1 DEF Goto
<1>4. \A place \in Place, row \in Nat, col \in Col :
         Move(p, place, row, col) => io' \in [Printer -> Regs]
  <2>1. ASSUME NEW place \in Place, NEW row \in Nat, NEW col \in Col, Move(p, place, row, col)
        PROVE  io' \in [Printer -> Regs]
    <3> DEFINE regs == [at |-> place, ch |-> io[p].ch, row |-> row, col |-> col]
    <3>1. regs \in Regs
      BY <1>r
    <3>2. io' = [io EXCEPT ![p] = regs]
      BY <2>1 DEF Move
    <3> HIDE DEF regs
    <3> QED BY <1>i, <3>1, <3>2
  <2> QED BY <2>1
<1>5. \A x \in Glyph \cup {Blank} :
         vga_write_cell(p, x) => screen' \in [Row \X Col -> Glyph \cup {Blank}]
  <2>1. io[p].col \in Col /\ screen \in [Row \X Col -> Glyph \cup {Blank}]
    BY <1>1 DEF ConsoleTypeOK, Regs
  <2>2. ASSUME NEW x \in Glyph \cup {Blank}, vga_write_cell(p, x)
        PROVE  screen' \in [Row \X Col -> Glyph \cup {Blank}]
    <3>1. CASE io[p].row \in Row
      <4>1. screen' = [screen EXCEPT ![<<io[p].row, io[p].col>>] = x]
        BY <2>2, <3>1 DEF vga_write_cell
      <4> QED BY <2>1, <4>1
    <3>2. CASE io[p].row \notin Row
      BY <2>1, <2>2, <3>2 DEF vga_write_cell
    <3> QED BY <3>1, <3>2
  <2> QED BY <2>2
<1>6. CASE load_col(p)
  <2> DEFINE stop == TabStop(cursor_col)
  <2>1. stop \in Nat
      BY <1>1, TabStopIs
  <2>2. \E place \in {"cell", "keep", "erase", "carriage"}, col \in Col :
           Move(p, place, io[p].row, col)
    <3> HIDE DEF stop
    <3>1. stop < COLS => stop \in Col
        BY <2>1 DEF Col
    <3>2. cursor_col > 0 => cursor_col - 1 \in Col
        BY <1>1 DEF Col
    <3> QED BY <1>1, <1>6, <3>1, <3>2 DEF load_col, stop
  <2> QED BY <1>1, <1>4, <1>6, <2>2 DEF ConsoleTypeOK, load_col, Regs, Place
<1>7. CASE write(p)
  <2>1. io[p].col + 1 < COLS => io[p].col + 1 \in Col
      BY <1>1 DEF Regs, Col
  <2>2. io' \in [Printer -> Regs]
      BY <1>1, <1>4, <1>7, <2>1 DEF write, Regs, Place
  <2>3. screen' \in [Row \X Col -> Glyph \cup {Blank}]
      BY <1>5, <1>7 DEF write, GlyphsInCells, At
  <2> QED BY <1>7, <2>2, <2>3 DEF ConsoleTypeOK, write, Regs
<1>8. CASE keep(p)
    BY <1>1, <1>2, <1>3, <1>8 DEF ConsoleTypeOK, keep, Regs, Place
<1>9. CASE erase(p)
    BY <1>1, <1>2, <1>3, <1>5, <1>9 DEF ConsoleTypeOK, erase, Regs, Place
<1>10. CASE carriage(p)
    BY <1>1, <1>3, <1>10 DEF ConsoleTypeOK, carriage, Regs, Place
<1>11. CASE newrow(p)
    BY <1>1, <1>2, <1>4, <1>11 DEF ConsoleTypeOK, newrow, Regs, Place
<1>12. CASE scroll_up(p)
  <2>1. \A cell \in Row \X Col : cell[1] + 1 < ROWS => <<cell[1] + 1, cell[2]>> \in Row \X Col
      BY DEF Row
  <2>2. screen' \in [Row \X Col -> Glyph \cup {Blank}]
      BY <1>12, <2>1 DEF ConsoleTypeOK, scroll_up
  <2> QED BY <1>3, <1>12, <2>2 DEF ConsoleTypeOK, scroll_up, Regs, Place
<1>13. CASE reset(p)
    BY <1>1, <1>4, <1>13 DEF ConsoleTypeOK, reset, Regs, Place
<1>14. CASE update_hw_cursor(p)
  <2>1. hw' \in Nat
    <3>1. io[p].row \in Nat /\ io[p].col \in Nat /\ COLS \in Nat
        BY <1>1 DEF Regs, Col
    <3>2. io[p].row * COLS \in Nat
        BY <3>1
    <3> QED BY <1>14, <3>1, <3>2 DEF update_hw_cursor
  <2> QED BY <1>3, <1>14, <2>1 DEF ConsoleTypeOK, update_hw_cursor, Regs, Place
<1>15. CASE blank(p)
    BY <1>3, <1>15 DEF ConsoleTypeOK, blank, Empty, Regs, Place
<1>16. CASE top(p)
    BY <1>3, <1>16 DEF ConsoleTypeOK, top, Regs, Place
<1>17. CASE left(p)
    BY <1>1, <1>3, <1>17 DEF ConsoleTypeOK, left, Regs, Place
<1> QED BY <1>6, <1>7, <1>8, <1>9, <1>10, <1>11, <1>12, <1>13, <1>14, <1>15, <1>16, <1>17
       DEF Continue

\* Only load_col sends a process to a cell, and only with a glyph.
LEMMA GlyphsStay ==
    ASSUME ConsoleTypeOK, GlyphsInCells, [ConsoleNext]_cvars
    PROVE  GlyphsInCells'
<1>1. CASE UNCHANGED cvars
    BY <1>1 DEF GlyphsInCells, cvars
<1>2. ASSUME NEW p \in Printer, NEW c \in Char, vga_putchar(p, c) PROVE GlyphsInCells'
    BY <1>2 DEF GlyphsInCells, vga_putchar, ConsoleTypeOK
<1>3. ASSUME NEW p \in Printer, vga_clear(p) PROVE GlyphsInCells'
    BY <1>3 DEF GlyphsInCells, vga_clear, ConsoleTypeOK, Out
<1>4. ASSUME NEW p \in Printer, Continue(p) PROVE GlyphsInCells'
  <2>1. CASE load_col(p)
      BY <2>1 DEF GlyphsInCells, load_col, ConsoleTypeOK, Move
  <2>2. CASE ~load_col(p)
    <3>1. \A row : After(row) # "cell"
        BY DEF After
    <3>2. /\ \A q \in Printer \ {p} : io'[q] = io[q]
          /\ io'[p].at # "cell"
        BY <1>4, <2>2, <3>1 DEF ConsoleTypeOK, Continue, write, keep, erase, carriage,
           newrow, scroll_up, reset, update_hw_cursor, blank, top, left, Goto, Move
    <3> QED BY <3>2 DEF GlyphsInCells
  <2> QED BY <2>1, <2>2
<1> QED BY <1>1, <1>2, <1>3, <1>4 DEF ConsoleNext

\* The console keeps its types.
LEMMA ConsoleStepType ==
    ASSUME ConsoleTypeOK, GlyphsInCells, [ConsoleNext]_cvars
    PROVE  ConsoleTypeOK' /\ GlyphsInCells'
<1>1. CASE UNCHANGED cvars
    BY <1>1 DEF ConsoleTypeOK, GlyphsInCells, cvars
<1>2. CASE ConsoleNext
    BY <1>2, PutcharType, ClearType, ContinueType, GlyphsStay DEF ConsoleNext
<1> QED BY <1>1, <1>2

(***************************************************************************)
(* The one who put the cursor below the screen last has yet to scroll:     *)
(* every store to cursor_row is in range or is followed, in the same call, *)
(* by scroll_up.                                                           *)
(***************************************************************************)
LEMMA CursorStepReturns ==
    ASSUME ConsoleTypeOK, CursorComesBack, [ConsoleNext]_cvars
    PROVE  CursorComesBack'
<1> USE ConsoleAssumption
<1> DEFINE Late(p) == io[p].at \in {"scroll", "reset"}
<1>1. CASE UNCHANGED cvars
    BY <1>1 DEF CursorComesBack, cvars
<1>2. ASSUME NEW p \in Printer, NEW c \in Char, vga_putchar(p, c) PROVE CursorComesBack'
  <2>1. ~Late(p) /\ \A q \in Printer \ {p} : io'[q] = io[q]
      BY <1>2 DEF vga_putchar, At, ConsoleTypeOK
  <2> QED BY <1>2, <2>1 DEF CursorComesBack, vga_putchar
<1>3. ASSUME NEW p \in Printer, vga_clear(p) PROVE CursorComesBack'
  <2>1. ~Late(p) /\ \A q \in Printer \ {p} : io'[q] = io[q]
      BY <1>3 DEF vga_clear, At, ConsoleTypeOK
  <2> QED BY <1>3, <2>1 DEF CursorComesBack, vga_clear
<1>4. ASSUME NEW p \in Printer, Continue(p) PROVE CursorComesBack'
  <2>1. \A q \in Printer \ {p} : io'[q] = io[q]
      BY <1>4 DEF Continue, ConsoleTypeOK, load_col, write, keep, erase, carriage, newrow,
           scroll_up, reset, update_hw_cursor, blank, top, left, Goto, Move
  <2>2. CASE newrow(p)
    <3>1. io'[p].at = After(io[p].row + 1) /\ cursor_row' = io[p].row + 1
        BY <2>2 DEF newrow, Move, ConsoleTypeOK
    <3> QED BY <3>1 DEF After, CursorComesBack
  <2>3. CASE scroll_up(p)
      BY <2>3 DEF scroll_up, Goto, CursorComesBack, ConsoleTypeOK
  <2>4. CASE reset(p) \/ top(p)
    <3>1. cursor_row' \in {0, ROWS - 1}
        BY <2>4 DEF reset, top
    <3> QED BY <3>1 DEF CursorComesBack
  <2>5. CASE ~Late(p) /\ cursor_row' = cursor_row
      BY <2>1, <2>5 DEF CursorComesBack
  <2>6. ~(newrow(p) \/ scroll_up(p) \/ reset(p) \/ top(p)) => ~Late(p) /\ cursor_row' = cursor_row
      BY <1>4 DEF Continue, At, load_col, write, keep, erase, carriage,
           update_hw_cursor, blank, left
  <2> QED BY <2>2, <2>3, <2>4, <2>5, <2>6
<1> QED BY <1>1, <1>2, <1>3, <1>4 DEF ConsoleNext

-----------------------------------------------------------------------------
\* Every step of Terminal is a step of Console or leaves the console alone.
LEMMA TerminalStepsAreConsoleSteps ==
    ASSUME TerminalTypeOK, TerminalNext
    PROVE  [ConsoleNext]_cvars
<1> 0 \in Printer
    BY DEF Printer
<1>1. CASE \E key \in Key : press(key) \/ release(key)
    BY <1>1 DEF press, release
<1>2. CASE kb_readline
    BY <1>2, CharsAreThere DEF kb_readline, modifier, unmapped, enter, rub_out, full, store,
         ConsoleNext
<1>3. CASE shell_run
    BY <1>3 DEF shell_run, ConsoleNext
<1>4. CASE vga_puts
  <2>1. Head(out) \in Char
      BY <1>4 DEF vga_puts, TerminalTypeOK
  <2> QED BY <1>4, <2>1 DEF vga_puts, ConsoleNext
<1>5. CASE prompt_end
    BY <1>5 DEF prompt_end
<1>6. ASSUME NEW p \in Tasks, task(p) PROVE [ConsoleNext]_cvars
  <2>1. p \in Printer
      BY DEF Printer
  <2>2. MESSAGE[count[p] + 1] \in Char
      BY <1>6, <2>1, CharsAreThere DEF task, TerminalTypeOK
  <2> QED BY <1>6, <2>1, <2>2 DEF task, ConsoleNext
<1>7. CASE \E p \in Printer : Continue(p) /\ UNCHANGED tvars
    BY <1>7 DEF ConsoleNext
<1> QED BY <1>1, <1>2, <1>3, <1>4, <1>5, <1>6, <1>7 DEF TerminalNext

\* The part of TerminalTypeOK beyond the console is kept by every step.
LEMMA TerminalStepType ==
    ASSUME TerminalTypeOK, GlyphsInCells, [TerminalNext]_vars
    PROVE  TerminalTypeOK' /\ GlyphsInCells'
<1>0. ConsoleTypeOK' /\ GlyphsInCells'
  <2>1. CASE UNCHANGED vars
      BY <2>1 DEF vars, cvars, TerminalTypeOK, ConsoleTypeOK, GlyphsInCells
  <2>2. CASE TerminalNext
      BY <2>2, TerminalStepsAreConsoleSteps, ConsoleStepType DEF TerminalTypeOK
  <2> QED BY <2>1, <2>2
<1>1. CASE UNCHANGED vars
    BY <1>0, <1>1 DEF vars, tvars, TerminalTypeOK
<1>2. CASE TerminalNext
  <2> USE DEF TerminalTypeOK
  <2>1. ASSUME NEW key \in Key, press(key) \/ release(key) PROVE TerminalTypeOK'
    <3>1. port' \in Seq(Byte)
      <4>1. \A dir \in {"make", "break"} : [dir |-> dir, key |-> key] \in Byte
          BY DEF Byte
      <4>2. \A dir \in {"make", "break"} : Send(dir, key) => port' \in Seq(Byte)
          BY <4>1 DEF Send
      <4> QED BY <2>1, <4>2 DEF press, release
    <3> QED BY <1>0, <2>1, <3>1 DEF press, release, Printer
  <2>2. CASE kb_readline
    <3>1. Polling => Tail(port) \in Seq(Byte)
        BY DEF Polling
    <3>2. ASSUME NEW c \in Char, store(c) PROVE TerminalTypeOK'
      <4>1. line' \in Seq(Char) /\ Len(line') < LINE
          BY <3>2, TerminalAssumption DEF store, kb_getchar, Polling
      <4> QED BY <1>0, <3>1, <3>2, <4>1 DEF store, kb_getchar
    <3>3. CASE rub_out
      <4>1. line # <<>> => Front(line) \in Seq(Char) /\ Len(Front(line)) < LINE
          BY TerminalAssumption DEF Front
      <4> QED BY <1>0, <3>1, <3>3, <4>1 DEF rub_out, kb_getchar
    <3>4. CASE modifier \/ unmapped \/ enter \/ full
        BY <1>0, <3>1, <3>4 DEF modifier, unmapped, enter, full, kb_getchar
    <3> HIDE DEF TerminalTypeOK
    <3> QED BY <1>0, <2>2, <3>2, <3>3, <3>4 DEF kb_readline
  <2>3. CASE shell_run
    <3>1. out' \in Seq(Char)
      <4>1. <<NL>> \in Seq(Char) /\ PROMPT \in Seq(Char)
          BY CharsAreThere
      <4> QED BY <2>3, <4>1 DEF shell_run
    <3>2. line' \in Seq(Char) /\ Len(line') < LINE
        BY <2>3, TerminalAssumption DEF shell_run
    <3> QED BY <1>0, <2>3, <3>1, <3>2 DEF shell_run
  <2>4. CASE vga_puts
    <3>1. Tail(out) \in Seq(Char)
        BY <2>4 DEF vga_puts
    <3> QED BY <1>0, <2>4, <3>1 DEF vga_puts
  <2>5. CASE prompt_end
      BY <1>0, <2>5 DEF prompt_end, ConsoleTypeOK
  <2>6. ASSUME NEW p \in Tasks, task(p) PROVE TerminalTypeOK'
      BY <1>0, <2>6 DEF task, Printer
  <2>7. CASE \E p \in Printer : Continue(p) /\ UNCHANGED tvars
      BY <1>0, <2>7 DEF tvars
  <2> HIDE DEF TerminalTypeOK
  <2> QED BY <1>0, <1>2, <2>1, <2>2, <2>3, <2>4, <2>5, <2>6, <2>7 DEF TerminalNext
<1> QED BY <1>0, <1>1, <1>2

\* The machine at the first prompt.
LEMMA TerminalInitType == TerminalInit => TerminalTypeOK /\ GlyphsInCells /\ CursorComesBack
<1> SUFFICES ASSUME TerminalInit PROVE TerminalTypeOK /\ GlyphsInCells /\ CursorComesBack
    OBVIOUS
<1> USE DEF TerminalInit, ConsoleInit
<1>1. 0 \in Row /\ 0 \in Col /\ ~(0 >= ROWS)
    BY ConsoleAssumption DEF Row, Col
<1>2. ConsoleTypeOK
  <2>1. Out \in Regs
      BY <1>1, CharsAreThere DEF Regs, Out, Place
  <2>2. screen \in [Row \X Col -> Glyph \cup {Blank}] /\ io \in [Printer -> Regs]
      BY <2>1 DEF Empty
  <2>3. IsPage(paper) /\ hw \in Nat /\ cursor_row \in Nat /\ cursor_col \in Col
      BY <1>1, BlankSheetIs
  <2>4. mixed \in BOOLEAN
      BY Zenon
  <2> HIDE DEF TerminalInit, ConsoleInit
  <2> QED BY <2>2, <2>3, <2>4 DEF ConsoleTypeOK, Regs, IsPage
<1>3. TerminalTypeOK
  <2>1. line \in Seq(Char) /\ Len(line) < LINE /\ port \in Seq(Byte) /\ out \in Seq(Char)
      BY CharsAreThere, TerminalAssumption
  <2>2. count \in [Printer -> Nat]
      OBVIOUS
  <2> QED BY <1>2, <2>1, <2>2 DEF TerminalTypeOK
<1> QED BY <1>1, <1>3 DEF GlyphsInCells, CursorComesBack, Out

(***************************************************************************)
(* For every screen, every number of tasks and everything that is typed,   *)
(* the terminal keeps its types: the registers of vga_putchar hold a       *)
(* column of the screen, and the line never outgrows its buffer.           *)
(***************************************************************************)
THEOREM TerminalTypeCorrect == TerminalSpec => []TerminalTypeOK
<1>1. TerminalTypeOK /\ GlyphsInCells /\ [TerminalNext]_vars => (TerminalTypeOK /\ GlyphsInCells)'
    BY TerminalStepType
<1> QED BY TerminalInitType, <1>1, PTL DEF TerminalSpec

(***************************************************************************)
(* However many processes print at once, the cursor is below the screen    *)
(* only while one of them has yet to put it back.                          *)
(***************************************************************************)
THEOREM CursorReturns == TerminalSpec => []CursorComesBack
<1> DEFINE Inv == TerminalTypeOK /\ GlyphsInCells /\ CursorComesBack
<1>1. Inv /\ [TerminalNext]_vars => Inv'
  <2> SUFFICES ASSUME Inv, [TerminalNext]_vars PROVE Inv'
      OBVIOUS
  <2>1. [ConsoleNext]_cvars
      BY TerminalStepsAreConsoleSteps DEF vars, cvars
  <2> QED BY <2>1, TerminalStepType, CursorStepReturns DEF TerminalTypeOK
<1>2. TerminalInit => Inv
    BY TerminalInitType
<1> QED BY <1>1, <1>2, PTL DEF TerminalSpec

-----------------------------------------------------------------------------
(***************************************************************************)
(* When no shift key is down, the bytes that wait will tell kb_getchar so: *)
(* the last of them that belongs to a shift key is a release, and if there *)
(* is none shift_held is clear already.                                    *)
(***************************************************************************)
LastShift(i) == /\ i \in 1 .. Len(port) /\ port[i].key \in Shift
                /\ \A j \in (i + 1) .. Len(port) : port[j].key \notin Shift
NoShift == \A i \in 1 .. Len(port) : port[i].key \notin Shift
ReleaseWaits ==
    down = {} => /\ NoShift => ~shift_held
                 /\ \A i \in Nat : LastShift(i) => port[i].dir = "break"

\* The bytes behind the first one.
LEMMA AfterHead ==
    ASSUME port \in Seq(Byte), port # <<>>, port' = Tail(port)
    PROVE  /\ \A i \in Nat : LastShift(i)' => LastShift(i + 1) /\ port'[i] = port[i + 1]
           /\ NoShift' /\ Head(port).key \notin Shift => NoShift
           /\ NoShift' /\ Head(port).key \in Shift => LastShift(1)
           /\ Head(port) = port[1]
<1>1. /\ Len(port') = Len(port) - 1 /\ Len(port) \in Nat \ {0}
      /\ \A i \in 1 .. Len(port') : port'[i] = port[i + 1]
    OBVIOUS
<1>2. Head(port) = port[1]
    OBVIOUS
<1>3. \A i \in 2 .. Len(port) : port[i] = port'[i - 1] /\ i - 1 \in 1 .. Len(port')
    BY <1>1
<1>4. ASSUME NEW i \in Nat, LastShift(i)' PROVE LastShift(i + 1) /\ port'[i] = port[i + 1]
  <2>1. i \in 1 .. Len(port') /\ i + 1 \in 1 .. Len(port) /\ port'[i] = port[i + 1]
      BY <1>1, <1>4 DEF LastShift
  <2>2. ASSUME NEW j \in (i + 1 + 1) .. Len(port) PROVE port[j].key \notin Shift
    <3>1. j \in 2 .. Len(port) /\ j - 1 \in (i + 1) .. Len(port')
        BY <1>1, <2>1
    <3> QED BY <1>3, <1>4, <3>1 DEF LastShift
  <2> QED BY <1>4, <2>1, <2>2 DEF LastShift
<1>5. ASSUME NoShift' PROVE \A j \in 2 .. Len(port) : port[j].key \notin Shift
    BY <1>3, <1>5 DEF NoShift
<1>6. NoShift' /\ Head(port).key \notin Shift => NoShift
  <2>1. \A j \in 1 .. Len(port) : j = 1 \/ j \in 2 .. Len(port)
      BY <1>1
  <2> QED BY <1>2, <1>5, <2>1 DEF NoShift
<1>7. NoShift' /\ Head(port).key \in Shift => LastShift(1)
  <2>1. 1 \in 1 .. Len(port) /\ 1 + 1 = 2
      BY <1>1
  <2> QED BY <1>2, <1>5, <2>1 DEF LastShift
<1> QED BY <1>2, <1>4, <1>6, <1>7

\* Reading or sending a byte keeps a pending release of shift where it is.
LEMMA ShiftStep ==
    ASSUME TerminalTypeOK, ReleaseWaits, [TerminalNext]_vars
    PROVE  ReleaseWaits'
<1>1. CASE UNCHANGED <<port, down, shift_held>>
    BY <1>1 DEF ReleaseWaits, LastShift, NoShift
<1>2. ASSUME NEW dir \in {"make", "break"}, NEW key \in Key, Send(dir, key)
      PROVE  /\ key \notin Shift /\ NoShift' => NoShift
             /\ key \notin Shift => \A i \in Nat : LastShift(i)' => LastShift(i) /\ port'[i] = port[i]
             /\ key \in Shift => /\ ~NoShift'
                                 /\ \A i \in Nat : LastShift(i)' => port'[i].dir = dir
  <2>1. /\ Len(port') = Len(port) + 1 /\ Len(port) \in Nat
        /\ \A i \in 1 .. Len(port) : port'[i] = port[i]
        /\ port'[Len(port) + 1] = [dir |-> dir, key |-> key]
      BY <1>2 DEF Send, TerminalTypeOK
  <2>2. ASSUME NEW i \in Nat, LastShift(i)', key \notin Shift
        PROVE  LastShift(i) /\ port'[i] = port[i]
      BY <2>1, <2>2 DEF LastShift
  <2>3. ASSUME NEW i \in Nat, LastShift(i)', key \in Shift PROVE port'[i].dir = dir
      BY <2>1, <2>3 DEF LastShift
  <2>4. Len(port) + 1 \in 1 .. Len(port')
      BY <2>1
  <2> QED BY <2>1, <2>2, <2>3, <2>4 DEF NoShift
<1>3. ASSUME NEW key \in Key, press(key) PROVE ReleaseWaits'
  <2>1. CASE key \in Shift
      BY <1>3, <2>1 DEF press, ReleaseWaits
  <2>2. CASE key \notin Shift
    <3>1. down' = down /\ shift_held' = shift_held
        BY <1>3, <2>2 DEF press, TerminalTypeOK
    <3> QED BY <1>2, <1>3, <2>2, <3>1 DEF press, ReleaseWaits
  <2> QED BY <2>1, <2>2
<1>4. ASSUME NEW key \in Key, release(key) PROVE ReleaseWaits'
  <2>1. key \in Shift
      BY <1>4 DEF release, TerminalTypeOK
  <2> QED BY <1>2, <1>4, <2>1 DEF release, ReleaseWaits
<1>5. CASE modifier
  <2>1. /\ port # <<>> /\ port' = Tail(port) /\ port \in Seq(Byte) /\ down' = down
        /\ Head(port).key \in Shift /\ shift_held' = (Head(port).dir = "make")
      BY <1>5 DEF modifier, Polling, TerminalTypeOK
  <2>2. ASSUME down' = {}, NoShift' PROVE ~shift_held'
    <3>1. LastShift(1) /\ Head(port) = port[1]
        BY <2>1, <2>2, AfterHead
    <3>2. port[1].dir = "break"
        BY <2>1, <2>2, <3>1 DEF ReleaseWaits
    <3> QED BY <2>1, <3>1, <3>2
  <2>3. ASSUME down' = {}, NEW i \in Nat, LastShift(i)' PROVE port'[i].dir = "break"
    <3>1. LastShift(i + 1) /\ port'[i] = port[i + 1]
        BY <2>1, <2>3, AfterHead
    <3>2. i + 1 \in Nat
        OBVIOUS
    <3>3. port[i + 1].dir = "break"
        BY <2>1, <2>3, <3>1, <3>2 DEF ReleaseWaits
    <3> QED BY <3>1, <3>3
  <2> QED BY <2>2, <2>3 DEF ReleaseWaits
<1>6. ASSUME NEW c, kb_getchar(c) PROVE ReleaseWaits'
  <2>1. /\ port # <<>> /\ port' = Tail(port) /\ port \in Seq(Byte) /\ down' = down
        /\ Head(port).key \notin Shift /\ shift_held' = shift_held
      BY <1>6 DEF kb_getchar, Polling, TerminalTypeOK
  <2>2. ASSUME down' = {}, NoShift' PROVE ~shift_held'
      BY <2>1, <2>2, AfterHead DEF ReleaseWaits
  <2>3. ASSUME down' = {}, NEW i \in Nat, LastShift(i)' PROVE port'[i].dir = "break"
    <3>1. LastShift(i + 1) /\ port'[i] = port[i + 1]
        BY <2>1, <2>3, AfterHead
    <3>2. i + 1 \in Nat
        OBVIOUS
    <3>3. port[i + 1].dir = "break"
        BY <2>1, <2>3, <3>1, <3>2 DEF ReleaseWaits
    <3> QED BY <3>1, <3>3
  <2> QED BY <2>2, <2>3 DEF ReleaseWaits
<1>7. CASE TerminalNext
  <2>1. \/ UNCHANGED <<port, down, shift_held>>
        \/ \E key \in Key : press(key) \/ release(key)
        \/ modifier
        \/ \E c : kb_getchar(c)
      BY <1>7 DEF TerminalNext, kb_readline, unmapped, enter, rub_out, store, full, shell_run,
           vga_puts, prompt_end, task, tvars
  <2> QED BY <1>1, <1>3, <1>4, <1>5, <1>6, <2>1
<1> QED BY <1>1, <1>7 DEF vars, tvars

(***************************************************************************)
(* Shift never gets stuck, however many bytes the keyboard holds and in    *)
(* whatever order the two shift keys go down and come up.                  *)
(***************************************************************************)
THEOREM ShiftComesUp == TerminalSpec => []ShiftIsDown
<1> DEFINE Inv == TerminalTypeOK /\ GlyphsInCells /\ ReleaseWaits
<1>1. TerminalInit => Inv
  <2>1. TerminalInit => ReleaseWaits
      BY DEF TerminalInit, ReleaseWaits, LastShift
  <2> QED BY <2>1, TerminalInitType
<1>2. Inv /\ [TerminalNext]_vars => Inv'
    BY TerminalStepType, ShiftStep
<1>3. Inv => ShiftIsDown
  <2> SUFFICES ASSUME Inv, shift_held, port = <<>>, down \cap Shift = {} PROVE FALSE
      BY DEF ShiftIsDown
  <2>1. down = {} /\ NoShift
      BY DEF TerminalTypeOK, NoShift
  <2> QED BY <2>1 DEF ReleaseWaits
<1> QED BY <1>1, <1>2, <1>3, PTL DEF TerminalSpec
-----------------------------------------------------------------------------
(***************************************************************************)
(* The screen and the sheet.  While no two calls overlap, the sheet holds  *)
(* the character that is being printed already; the invariant says, place  *)
(* by place, what the call has still to do on the screen.                  *)
(***************************************************************************)
Busy(p)  == io[p].at # "out"
Alone    == \A p, q \in Printer : Busy(p) /\ Busy(q) => p = q

\* The cursor, and the registers of p, stand where the sheet says.
CursorAt(l, k) == cursor_row = l - First(l) /\ cursor_col = k
RowReady(p)   == cursor_row = paper.line - First(paper.line) /\ io[p].row = cursor_row
ColReady(p)   == cursor_col = paper.col /\ io[p].col = cursor_col

\* Nothing has been done to the screen since it showed the sheet s.
Begun(p, s) ==
    /\ IsPage(s) /\ InkEnds(s) /\ paper = Sheet(s, io[p].ch)
    /\ CursorAt(s.line, s.col) /\ io[p].row = cursor_row
    /\ \A r \in Row, c \in Col : screen[<<r, c>>] = Ink(s, First(s.line) + r, c)

\* A new line has begun on the sheet, and not on the screen yet.
NewLine(p) ==
    /\ paper.line > 0 /\ paper.col = 0 /\ io[p].col = 0
    /\ Window(First(paper.line - 1))
    /\ \A c \in Col : Ink(paper, paper.line, c) = Blank
OldRow(p) == cursor_row = paper.line - 1 - First(paper.line - 1) /\ io[p].row = cursor_row

\* The cell behind a backspace is still to be blanked.
AllButCell(p) ==
    /\ io[p].ch = BS
    /\ Ink(paper, paper.line, paper.col) = Blank
    /\ \A r \in Row, c \in Col : <<r, c>> # <<io[p].row, io[p].col>> =>
           screen[<<r, c>>] = Ink(paper, First(paper.line) + r, c)

\* vga_clear, with nothing in its registers.
Cleared(p) == paper = BlankSheet /\ io[p].row = 0 /\ io[p].col = 0

MidCall(p) ==
    CASE io[p].at = "col"  -> io[p].ch # NL /\ \E s : Begun(p, s)
      [] io[p].at = "cell" -> io[p].ch \in Glyph /\ \E s : Begun(p, s) /\ io[p].col = s.col
      [] io[p].at = "keep" -> /\ RowReady(p) /\ io[p].col = paper.col
                              /\ IF io[p].ch = BS THEN AllButCell(p) ELSE Window(First(paper.line))
      [] io[p].at = "erase" -> RowReady(p) /\ ColReady(p) /\ AllButCell(p)
      [] io[p].at = "carriage" -> NewLine(p) /\ OldRow(p)
      [] io[p].at = "newrow" -> NewLine(p) /\ OldRow(p) /\ cursor_col = 0
      [] io[p].at = "scroll" -> NewLine(p) /\ cursor_col = 0 /\ paper.line >= ROWS
      [] io[p].at = "reset" -> ColReady(p) /\ paper.line >= ROWS /\ Window(First(paper.line))
      [] io[p].at = "hw" -> RowReady(p) /\ ColReady(p) /\ Window(First(paper.line))
      [] io[p].at = "blank" -> Cleared(p)
      [] io[p].at = "top" -> Cleared(p) /\ screen = Empty
      [] io[p].at = "left" -> Cleared(p) /\ screen = Empty /\ cursor_row = 0
      [] OTHER -> TRUE

SheetInv ==
    ~mixed => /\ IsPage(paper) /\ InkEnds(paper) /\ Alone /\ ScreenIsSheet
              /\ \A p \in Printer : MidCall(p)

\* The kinds of characters are different.
LEMMA CharsDiffer ==
    /\ NL \notin Glyph /\ CR \notin Glyph /\ HT \notin Glyph /\ BS \notin Glyph
    /\ NL # CR /\ NL # HT /\ NL # BS /\ CR # HT /\ CR # BS /\ HT # BS
    /\ \A c \in Char : c \in Glyph \/ c \in {NL, CR, HT, BS}
BY ConsoleAssumption DEF NL, CR, HT, BS, Char

\* The line at the top of the screen, and the one after a new line.
LEMMA FirstIs ==
    ASSUME NEW l \in Nat
    PROVE  /\ ROWS \in Nat \ {0} /\ First(l) \in Nat /\ l - First(l) \in Row /\ l - First(l) \in Nat
           /\ l + 1 - First(l) < ROWS => First(l + 1) = First(l)
           /\ l + 1 - First(l) >= ROWS => l + 1 >= ROWS /\ l + 1 - First(l) = ROWS
           /\ l + 1 >= ROWS => /\ First(l + 1) = First(l) + 1
                               /\ l + 1 - First(l + 1) = ROWS - 1
BY ConsoleAssumption DEF First, Row

\* A cell on the screen is written, the others are not.
LEMMA CellWritten ==
    ASSUME ConsoleTypeOK, NEW p \in Printer, NEW x, vga_write_cell(p, x), io[p].row \in Row
    PROVE  \A r \in Row, c \in Col :
               screen'[<<r, c>>] = IF <<r, c>> = <<io[p].row, io[p].col>> THEN x ELSE screen[<<r, c>>]
<1>1. io[p].col \in Col /\ screen \in [Row \X Col -> Glyph \cup {Blank}]
  BY DEF ConsoleTypeOK
<1>2. screen' = [screen EXCEPT ![<<io[p].row, io[p].col>>] = x]
  BY DEF vga_write_cell
<1> QED BY <1>1, <1>2

\* A call that goes on alone: what its own step has to establish.
LEMMA CallGoesOn ==
    ASSUME ConsoleTypeOK, SheetInv, NEW p \in Printer, Continue(p),
           ~mixed => IF Busy(p)' THEN MidCall(p)' ELSE ScreenIsSheet'
    PROVE  SheetInv'
<1>1. /\ \A q \in Printer \ {p} : io'[q] = io[q]
      /\ UNCHANGED <<paper, mixed>> /\ Busy(p)
  BY DEF Continue, ConsoleTypeOK, load_col, write, keep, erase, carriage, newrow, scroll_up, reset,
         update_hw_cursor, blank, top, left, Goto, Move, At, Busy
<1>2. SUFFICES ASSUME ~mixed
               PROVE  IsPage(paper') /\ InkEnds(paper') /\ Alone' /\ ScreenIsSheet'
                      /\ \A q \in Printer : MidCall(q)'
  BY <1>1 DEF SheetInv, IsPage, InkEnds, Ink
<1>3. IsPage(paper) /\ InkEnds(paper) /\ \A q \in Printer \ {p} : ~Busy(q)
  BY <1>1, <1>2 DEF SheetInv, Alone
<1>4. \A q \in Printer \ {p} : io'[q].at = "out"
  BY <1>1, <1>3 DEF Busy
<1>5. Alone'
  BY <1>4 DEF Alone, Busy
<1>6. ScreenIsSheet'
  BY <1>2 DEF ScreenIsSheet, AllOut, Busy
<1>7. ASSUME NEW q \in Printer PROVE MidCall(q)'
  <2>1. io'[q].at = "out" => MidCall(q)'
    BY DEF MidCall
  <2> QED BY <1>2, <1>4, <2>1 DEF Busy
<1> QED BY <1>1, <1>3, <1>5, <1>6, <1>7

\* A call that begins, while nobody prints.
LEMMA CallBegins ==
    ASSUME ConsoleTypeOK, SheetInv, NEW p \in Printer, NEW c \in Char, vga_putchar(p, c)
    PROVE  SheetInv'
<1> SUFFICES ASSUME ~mixed' PROVE SheetInv'
  BY DEF SheetInv
<1>1. /\ ~mixed /\ AllOut /\ paper' = Sheet(paper, c)
      /\ UNCHANGED <<cursor_row, cursor_col, screen, hw>>
      /\ io' = [io EXCEPT ![p] = [at |-> IF c = NL THEN "carriage" ELSE "col",
                                  ch |-> c, row |-> cursor_row, col |-> 0]]
  BY DEF vga_putchar
<1>2. /\ \A q \in Printer \ {p} : io'[q].at = "out"
      /\ io'[p].ch = c /\ io'[p].row = cursor_row /\ io'[p].col = 0
      /\ io'[p].at = IF c = NL THEN "carriage" ELSE "col"
  BY <1>1 DEF ConsoleTypeOK, AllOut
<1>3. /\ IsPage(paper) /\ InkEnds(paper) /\ CursorAt(paper.line, paper.col)
      /\ Window(First(paper.line))
  BY <1>1 DEF SheetInv, ScreenIsSheet, CursorAt
<1>4. IsPage(paper') /\ InkEnds(paper')
  BY <1>1, <1>3, SheetOf
<1>5. Alone' /\ ~AllOut'
  BY <1>2 DEF Alone, Busy, AllOut
<1>6. MidCall(p)'
  <2>1. CASE c = NL
    <3>1. NewLineOn(paper, paper') /\ SameInk(paper, paper')
      BY <1>1, <1>3, <2>1, SheetOf
    <3>2. paper'.line \in Nat /\ paper'.line - 1 = paper.line /\ paper'.line > 0
      BY <1>3, <3>1 DEF NewLineOn, IsPage
    <3>3. Window(First(paper.line - 1))'
      <4>1. \A r \in Row, k \in Col : screen'[<<r, k>>] = Ink(paper', First(paper.line) + r, k)
        BY <1>1, <1>3, <3>1 DEF Window, SameInk
      <4>2. First(paper'.line - 1) = First(paper.line)
        BY <3>2
      <4> QED BY <4>1, <4>2 DEF Window
    <3>4. \A k \in Col : Ink(paper, paper'.line, k) = Blank
      BY <1>3, <3>2 DEF InkEnds, IsPage
    <3>5. NewLine(p)' /\ OldRow(p)'
      BY <1>1, <1>2, <1>3, <3>1, <3>2, <3>3, <3>4
         DEF NewLine, OldRow, NewLineOn, SameInk, CursorAt, First
    <3> QED BY <1>2, <2>1, <3>5 DEF MidCall
  <2>2. CASE c # NL
    <3>1. \A s : s = paper => Begun(p, s)'
      BY <1>1, <1>2, <1>3 DEF Begun, CursorAt, Window, First
    <3>2. \E s : Begun(p, s)'
      BY <3>1
    <3> QED BY <1>2, <2>2, <3>2 DEF MidCall
  <2> QED BY <2>1, <2>2
<1>7. \A q \in Printer : MidCall(q)'
  BY <1>2, <1>6 DEF MidCall
<1> QED BY <1>4, <1>5, <1>7 DEF SheetInv, ScreenIsSheet

\* vga_clear begins a blank sheet.
LEMMA ClearBegins ==
    ASSUME ConsoleTypeOK, NEW p \in Printer, vga_clear(p)
    PROVE  SheetInv'
<1> SUFFICES ASSUME ~mixed' PROVE SheetInv'
  BY DEF SheetInv
<1>1. AllOut /\ paper' = BlankSheet /\ io' = [io EXCEPT ![p] = [Out EXCEPT !.at = "blank"]]
  BY DEF vga_clear
<1>2. /\ \A q \in Printer \ {p} : io'[q].at = "out"
      /\ io'[p].at = "blank" /\ io'[p].row = 0 /\ io'[p].col = 0
  BY <1>1 DEF ConsoleTypeOK, AllOut, Out
<1>3. Alone' /\ ~AllOut'
  BY <1>2 DEF Alone, Busy, AllOut
<1>4. \A q \in Printer : MidCall(q)'
  BY <1>1, <1>2 DEF MidCall, Cleared, BlankSheet, Page
<1> QED BY <1>1, <1>3, <1>4, BlankSheetIs DEF SheetInv, ScreenIsSheet

\* What the invariant says of the one who is in a call.
LEMMA InCall ==
    ASSUME ConsoleTypeOK, SheetInv, ~mixed, NEW p \in Printer, Busy(p)
    PROVE  /\ IsPage(paper) /\ InkEnds(paper) /\ MidCall(p) /\ \A q \in Printer \ {p} : ~Busy(q)
           /\ cursor_row \in Nat /\ cursor_col \in Col /\ paper.line \in Nat
           /\ io[p].ch \in Char /\ io[p].row \in Nat /\ io[p].col \in Col
           /\ io \in [Printer -> Regs]
BY DEF SheetInv, Alone, ConsoleTypeOK, IsPage, Regs

\* The column is loaded.
LEMMA LoadCol ==
    ASSUME ConsoleTypeOK, SheetInv, ~mixed, NEW p \in Printer, load_col(p)
    PROVE  Busy(p)' /\ MidCall(p)'
<1>1. /\ io[p].at = "col" /\ Busy(p)
      /\ UNCHANGED <<cursor_row, cursor_col, screen, hw, paper, mixed>>
  BY DEF load_col, At, Busy
<1>2. io \in [Printer -> Regs] /\ io[p].ch \in Char /\ io[p].ch # NL /\ cursor_col \in Col
  BY <1>1, InCall DEF MidCall
<1>3. PICK s : Begun(p, s)
  BY <1>1, InCall DEF MidCall
<1>4. /\ IsPage(s) /\ cursor_row = s.line - First(s.line) /\ cursor_col = s.col
      /\ io[p].row = cursor_row /\ paper = Sheet(s, io[p].ch)
      /\ \A r \in Row, c \in Col : screen[<<r, c>>] = Ink(s, First(s.line) + r, c)
      /\ s.line \in Nat /\ s.col \in Col
  BY <1>3 DEF Begun, CursorAt, IsPage
<1>5. ASSUME NEW place, NEW col, Move(p, place, io[p].row, col)
      PROVE  /\ io'[p].at = place /\ io'[p].ch = io[p].ch /\ io'[p].row = io[p].row /\ io'[p].col = col
  BY <1>2, <1>5 DEF Move
<1>6. ASSUME SameInk(s, paper)
      PROVE  \A r \in Row, c \in Col : screen'[<<r, c>>] = Ink(paper', First(s.line) + r, c)
  BY <1>1, <1>4, <1>6 DEF SameInk
<1>7. CASE io[p].ch \in Glyph
  <2>1. io'[p].at = "cell" /\ io'[p].ch = io[p].ch /\ io'[p].row = io[p].row /\ io'[p].col = s.col
    BY <1>4, <1>5, <1>7, CharsDiffer DEF load_col
  <2>2. Begun(p, s)'
    BY <1>1, <1>3, <2>1 DEF Begun, CursorAt, First, IsPage, InkEnds
  <2> QED BY <1>7, <2>1, <2>2 DEF MidCall, Busy
<1>8. CASE io[p].ch = CR
  <2>1. io'[p].at = "keep" /\ io'[p].ch = CR /\ io'[p].row = io[p].row /\ io'[p].col = 0
    BY <1>5, <1>8, CharsDiffer DEF load_col
  <2>2. paper.line = s.line /\ paper.col = 0 /\ SameInk(s, paper)
    BY <1>2, <1>4, <1>8, SheetOf
  <2>3. RowReady(p)' /\ io'[p].col = paper'.col
    BY <1>1, <1>4, <2>1, <2>2 DEF RowReady, First
  <2>4. Window(First(paper.line))'
    BY <1>1, <1>6, <2>2 DEF Window, First
  <2> QED BY <2>1, <2>2, <2>3, <2>4, CharsDiffer DEF MidCall, Busy
<1>9. CASE io[p].ch = BS
  <2> DEFINE back == IF s.col = 0 THEN 0 ELSE s.col - 1
  <2>1. /\ io'[p].at = IF s.col = 0 THEN "erase" ELSE "keep"
        /\ io'[p].ch = BS /\ io'[p].row = io[p].row /\ io'[p].col = back
    <3>1. cursor_col > 0 <=> s.col # 0
      BY <1>4 DEF Col
    <3> QED BY <1>4, <1>5, <1>9, <3>1, CharsDiffer DEF load_col
  <2>2. paper.line = s.line /\ paper.col = back /\ OneInk(s, paper, back, Blank) /\ back \in Col
    <3>1. back \in Col
      BY <1>4, ConsoleAssumption DEF Col
    <3> QED BY <1>2, <1>4, <1>9, <3>1, SheetOf
  <2>3. RowReady(p)' /\ io'[p].col = paper'.col
    BY <1>1, <1>4, <2>1, <2>2 DEF RowReady, First
  <2>4. AllButCell(p)'
    <3>1. Ink(paper, paper.line, paper.col) = Blank
      BY <2>2 DEF OneInk
    <3>2. ASSUME NEW r \in Row, NEW c \in Col, <<r, c>> # <<io'[p].row, io'[p].col>>
          PROVE  screen[<<r, c>>] = Ink(paper, First(paper.line) + r, c)
      <4>1. First(s.line) \in Nat /\ r \in Nat /\ s.line \in Nat
        BY <1>4, ConsoleAssumption DEF Row, First
      <4>2. <<First(s.line) + r, c>> # <<s.line, back>>
        BY <1>4, <2>1, <3>2, <4>1
      <4> QED BY <1>4, <2>2, <4>2 DEF OneInk
    <3> QED BY <1>1, <2>1, <3>1, <3>2 DEF AllButCell, First
  <2>5. s.col = 0 => ColReady(p)'
    BY <1>1, <1>4, <2>1, <2>2 DEF ColReady
  <2> QED BY <2>1, <2>3, <2>4, <2>5 DEF MidCall, Busy
<1>10. CASE io[p].ch = HT
  <2> DEFINE stop == TabStop(s.col)
  <2>1. /\ io'[p].at = IF stop < COLS THEN "keep" ELSE "carriage"
        /\ io'[p].ch = HT /\ io'[p].row = io[p].row
        /\ io'[p].col = IF stop < COLS THEN stop ELSE 0
    BY <1>4, <1>5, <1>10, CharsDiffer DEF load_col
  <2>2. /\ SameInk(s, paper)
        /\ IF stop < COLS THEN paper.line = s.line /\ paper.col = stop ELSE NewLineOn(s, paper)
    BY <1>2, <1>4, <1>10, SheetOf
  <2> HIDE DEF stop
  <2>3. CASE stop < COLS
    <3>1. RowReady(p)' /\ io'[p].col = paper'.col
      BY <1>1, <1>4, <2>1, <2>2, <2>3 DEF RowReady, First
    <3>2. Window(First(paper.line))'
      BY <1>1, <1>6, <2>2, <2>3 DEF Window, First
    <3> QED BY <2>1, <2>2, <2>3, <3>1, <3>2, CharsDiffer DEF MidCall, Busy
  <2>4. CASE ~(stop < COLS)
    <3>1. paper.line - 1 = s.line /\ paper.line = s.line + 1 /\ paper.line > 0 /\ paper.col = 0
      BY <1>4, <2>2, <2>4 DEF NewLineOn
    <3>2. Window(First(paper.line - 1))'
      BY <1>1, <1>6, <2>2, <3>1 DEF Window, First
    <3>3. \A k \in Col : Ink(paper, paper.line, k) = Blank
      BY <1>3, <1>4, <2>2, <3>1 DEF Begun, InkEnds, SameInk
    <3>4. NewLine(p)' /\ OldRow(p)'
      BY <1>1, <1>4, <2>1, <2>4, <3>1, <3>2, <3>3 DEF NewLine, OldRow, First
    <3> QED BY <2>1, <2>4, <3>4 DEF MidCall, Busy
  <2> QED BY <2>3, <2>4
<1> QED BY <1>2, <1>7, <1>8, <1>9, <1>10, CharsDiffer

\* A glyph is written.
LEMMA WriteGlyph ==
    ASSUME ConsoleTypeOK, SheetInv, ~mixed, NEW p \in Printer, write(p)
    PROVE  Busy(p)' /\ MidCall(p)'
<1>1. /\ io[p].at = "cell" /\ Busy(p) /\ vga_write_cell(p, io[p].ch)
      /\ UNCHANGED <<cursor_row, cursor_col, hw, paper, mixed>>
  BY DEF write, At, Busy
<1>2. /\ io \in [Printer -> Regs] /\ io[p].ch \in Char /\ io[p].ch \in Glyph /\ InkEnds(paper)
  BY <1>1, InCall DEF MidCall
<1>3. PICK s : Begun(p, s) /\ io[p].col = s.col
  BY <1>1, InCall DEF MidCall
<1>4. /\ IsPage(s) /\ cursor_row = s.line - First(s.line) /\ cursor_col = s.col
      /\ io[p].row = cursor_row /\ paper = Sheet(s, io[p].ch) /\ io[p].col = s.col
      /\ \A r \in Row, c \in Col : screen[<<r, c>>] = Ink(s, First(s.line) + r, c)
      /\ s.line \in Nat /\ s.col \in Col
  BY <1>3 DEF Begun, CursorAt, IsPage
<1>5. /\ OneInk(s, paper, s.col, io[p].ch)
      /\ IF s.col + 1 < COLS THEN paper.line = s.line /\ paper.col = s.col + 1
                             ELSE NewLineOn(s, paper)
  BY <1>2, <1>4, SheetOf
<1>6. /\ io'[p].at = IF s.col + 1 < COLS THEN "keep" ELSE "carriage"
      /\ io'[p].ch = io[p].ch /\ io'[p].row = io[p].row
      /\ io'[p].col = IF s.col + 1 < COLS THEN s.col + 1 ELSE 0
  BY <1>2, <1>4 DEF write, Move
<1>7. First(s.line) \in Nat /\ io[p].row \in Row
  BY <1>4, FirstIs
<1>8. ASSUME NEW r \in Row, NEW c \in Col
      PROVE  screen'[<<r, c>>] = Ink(paper, First(s.line) + r, c)
  <2>1. r \in Nat /\ s.line \in Nat /\ s.line - First(s.line) \in Nat
    BY <1>4, ConsoleAssumption DEF Row, First
  <2>2. <<First(s.line) + r, c>> = <<s.line, s.col>> <=> <<r, c>> = <<io[p].row, io[p].col>>
    BY <1>4, <1>7, <2>1
  <2>3. screen'[<<r, c>>] = IF <<r, c>> = <<io[p].row, io[p].col>> THEN io[p].ch ELSE screen[<<r, c>>]
    BY <1>1, <1>7, CellWritten
  <2> QED BY <1>4, <1>5, <2>2, <2>3 DEF OneInk
<1>9. CASE s.col + 1 < COLS
  <2>1. RowReady(p)' /\ io'[p].col = paper'.col /\ Window(First(paper.line))'
    BY <1>1, <1>4, <1>5, <1>6, <1>8, <1>9 DEF RowReady, Window, First
  <2> QED BY <1>2, <1>6, <1>9, <2>1, CharsDiffer DEF MidCall, Busy
<1>10. CASE ~(s.col + 1 < COLS)
  <2>1. paper.line - 1 = s.line /\ paper.line = s.line + 1 /\ paper.line > 0 /\ paper.col = 0
    BY <1>4, <1>5, <1>10 DEF NewLineOn
  <2>2. \A k \in Col : Ink(paper, paper.line, k) = Blank
    BY <1>3, <1>4, <1>5, <2>1 DEF Begun, InkEnds, OneInk
  <2>3. Window(First(paper.line - 1))'
    BY <1>1, <1>8, <2>1 DEF Window, First
  <2>4. NewLine(p)' /\ OldRow(p)'
    BY <1>1, <1>4, <1>6, <1>10, <2>1, <2>2, <2>3 DEF NewLine, OldRow, First
  <2> QED BY <1>6, <1>10, <2>4 DEF MidCall, Busy
<1> QED BY <1>9, <1>10

\* The column is stored, the cell behind a backspace blanked.
LEMMA KeepOrErase ==
    ASSUME ConsoleTypeOK, SheetInv, ~mixed, NEW p \in Printer, keep(p) \/ erase(p)
    PROVE  Busy(p)' /\ MidCall(p)'
<1>1. /\ io[p].at \in {"keep", "erase"} /\ Busy(p)
      /\ UNCHANGED <<cursor_row, hw, paper, mixed>>
  BY DEF keep, erase, At, Busy
<1>2. /\ io \in [Printer -> Regs] /\ io[p].col = paper.col /\ RowReady(p)
      /\ paper.line \in Nat /\ io[p].col \in Col
  BY <1>1, InCall DEF MidCall, ColReady
<1>3. /\ io[p].row = paper.line - First(paper.line) /\ io[p].row \in Row /\ io[p].row \in Nat
      /\ After(io[p].row) = "hw"
  BY <1>2, FirstIs DEF RowReady, After, Row
<1>4. /\ io'[p].row = io[p].row /\ io'[p].col = io[p].col /\ io'[p].ch = io[p].ch
      /\ io'[p].at = IF io[p].at = "keep" /\ io[p].ch = BS THEN "erase" ELSE "hw"
  BY <1>1, <1>2, <1>3 DEF keep, erase, Goto, At, Regs
<1>5. RowReady(p)' /\ ColReady(p)'
  <2>1. cursor_col' = io[p].col
    BY <1>1, <1>2, InCall DEF keep, erase, At, MidCall, ColReady
  <2> QED BY <1>1, <1>2, <1>4, <2>1 DEF RowReady, ColReady, First
<1>6. CASE keep(p) /\ io[p].ch = BS
  <2>1. AllButCell(p) /\ screen' = screen /\ io[p].at = "keep"
    BY <1>1, <1>6, InCall DEF MidCall, keep, At
  <2>2. AllButCell(p)'
    BY <1>1, <1>4, <2>1 DEF AllButCell, First
  <2> QED BY <1>4, <1>5, <1>6, <2>1, <2>2 DEF MidCall, Busy
<1>7. CASE keep(p) /\ io[p].ch # BS
  <2>1. Window(First(paper.line)) /\ screen' = screen /\ io[p].at = "keep"
    BY <1>1, <1>7, InCall DEF MidCall, keep, At
  <2>2. Window(First(paper.line))'
    BY <1>1, <2>1 DEF Window, First
  <2> QED BY <1>4, <1>5, <1>7, <2>1, <2>2 DEF MidCall, Busy
<1>8. CASE erase(p)
  <2>1. AllButCell(p) /\ vga_write_cell(p, Blank) /\ io[p].at = "erase"
    BY <1>1, <1>8, InCall DEF MidCall, erase, At
  <2>2. ASSUME NEW r \in Row, NEW c \in Col
        PROVE  screen'[<<r, c>>] = Ink(paper, First(paper.line) + r, c)
    <3>1. screen'[<<r, c>>] = IF <<r, c>> = <<io[p].row, io[p].col>> THEN Blank ELSE screen[<<r, c>>]
      BY <1>3, <2>1, CellWritten
    <3>2. First(paper.line) + io[p].row = paper.line
      BY <1>2, <1>3, FirstIs
    <3> QED BY <1>2, <2>1, <3>1, <3>2 DEF AllButCell
  <2>3. Window(First(paper.line))'
    BY <1>1, <2>2 DEF Window, First
  <2> QED BY <1>4, <1>5, <2>1, <2>3 DEF MidCall, Busy
<1> QED BY <1>6, <1>7, <1>8

\* The column, and then the row, of a new line.
LEMMA BreakLine ==
    ASSUME ConsoleTypeOK, SheetInv, ~mixed, NEW p \in Printer, carriage(p) \/ newrow(p)
    PROVE  Busy(p)' /\ MidCall(p)'
<1>1. /\ io[p].at \in {"carriage", "newrow"} /\ Busy(p)
      /\ UNCHANGED <<screen, hw, paper, mixed>>
  BY DEF carriage, newrow, At, Busy
<1>2. /\ io \in [Printer -> Regs] /\ NewLine(p) /\ OldRow(p) /\ paper.line \in Nat /\ cursor_row \in Nat
  BY <1>1, InCall DEF MidCall
<1>3. CASE carriage(p)
  <2>1. /\ io'[p].at = "newrow" /\ io'[p].row = io[p].row /\ io'[p].col = io[p].col
        /\ cursor_col' = 0 /\ cursor_row' = cursor_row
    BY <1>2, <1>3 DEF carriage, Goto, Regs
  <2>2. NewLine(p)' /\ OldRow(p)'
    BY <1>1, <1>2, <2>1 DEF NewLine, OldRow, First, Window
  <2> QED BY <2>1, <2>2 DEF MidCall, Busy
<1>4. CASE newrow(p)
  <2>1. /\ io'[p].at = After(io[p].row + 1) /\ io'[p].row = io[p].row + 1 /\ io'[p].col = 0
        /\ cursor_row' = io[p].row + 1 /\ cursor_col' = 0
    <3>1. io[p].at = "newrow" /\ cursor_col = 0
      BY <1>1, <1>4, InCall DEF newrow, At, MidCall
    <3> QED BY <1>2, <1>4, <3>1 DEF newrow, Move, NewLine
  <2> DEFINE l == paper.line - 1
  <2>2. /\ l \in Nat /\ paper.line = l + 1 /\ io[p].row = l - First(l) /\ First(l) \in Nat
        /\ io[p].row + 1 = l + 1 - First(l) /\ ROWS \in Nat
    <3>1. l \in Nat /\ paper.line = l + 1
      BY <1>2 DEF NewLine
    <3> HIDE DEF l
    <3>2. io[p].row = l - First(l)
      BY <1>2 DEF OldRow, l
    <3> QED BY <3>1, <3>2, FirstIs
  <2> HIDE DEF l
  <2>3. CASE io[p].row + 1 < ROWS
    <3>1. io'[p].at = "hw" /\ First(paper.line) = First(l) /\ cursor_row' = paper.line - First(paper.line)
      BY <2>1, <2>2, <2>3, FirstIs DEF After
    <3>2. Window(First(paper.line))
      BY <1>2, <3>1 DEF NewLine, l
    <3>3. Window(First(paper.line))' /\ RowReady(p)' /\ ColReady(p)'
      BY <1>1, <1>2, <2>1, <3>1, <3>2 DEF RowReady, ColReady, NewLine, First, Window
    <3> QED BY <3>1, <3>3 DEF MidCall, Busy
  <2>4. CASE ~(io[p].row + 1 < ROWS)
    <3>1. io'[p].at = "scroll" /\ paper.line >= ROWS
      BY <1>2, <2>1, <2>2, <2>4, FirstIs DEF After
    <3>2. NewLine(p)'
      BY <1>1, <1>2, <2>1 DEF NewLine, First, Window
    <3> QED BY <1>1, <2>1, <3>1, <3>2 DEF MidCall, Busy
  <2> QED BY <2>3, <2>4
<1> QED BY <1>3, <1>4

\* The screen moves up by a line, and the cursor with it.
LEMMA Scroll ==
    ASSUME ConsoleTypeOK, SheetInv, ~mixed, NEW p \in Printer, scroll_up(p) \/ reset(p)
    PROVE  Busy(p)' /\ MidCall(p)'
<1>1. /\ io[p].at \in {"scroll", "reset"} /\ Busy(p)
      /\ UNCHANGED <<cursor_col, hw, paper, mixed>>
  BY DEF scroll_up, reset, At, Busy
<1>2. /\ io \in [Printer -> Regs] /\ paper.line \in Nat /\ paper.line >= ROWS
      /\ paper.line - 1 \in Nat /\ ROWS \in Nat \ {0}
  BY <1>1, InCall, ConsoleAssumption DEF MidCall
<1>3. First(paper.line) = First(paper.line - 1) + 1 /\ paper.line - First(paper.line) = ROWS - 1
      /\ First(paper.line - 1) \in Nat
  BY <1>2 DEF First
<1>4. CASE scroll_up(p)
  <2>1. /\ io[p].at = "scroll" /\ NewLine(p) /\ cursor_col = 0
    BY <1>1, <1>4, InCall DEF scroll_up, At, MidCall
  <2>2. io'[p].at = "reset" /\ io'[p].col = io[p].col
    BY <1>2, <1>4 DEF scroll_up, Goto, Regs
  <2>3. ASSUME NEW r \in Row, NEW c \in Col
        PROVE  screen'[<<r, c>>] = Ink(paper, First(paper.line) + r, c)
    <3>1. screen'[<<r, c>>] = IF r + 1 < ROWS THEN screen[<<r + 1, c>>] ELSE Blank
      BY <1>4 DEF scroll_up
    <3>2. CASE r + 1 < ROWS
      <4>1. r + 1 \in Row /\ First(paper.line - 1) + (r + 1) = First(paper.line) + r
        BY <1>2, <1>3, <3>2 DEF Row
      <4> QED BY <2>1, <3>1, <3>2, <4>1 DEF NewLine, Window
    <3>3. CASE ~(r + 1 < ROWS)
      <4>1. First(paper.line) + r = paper.line
        BY <1>2, <1>3, <3>3 DEF Row
      <4> QED BY <2>1, <3>1, <3>3, <4>1 DEF NewLine
    <3> QED BY <3>2, <3>3
  <2>4. Window(First(paper.line))' /\ ColReady(p)'
    BY <1>1, <2>1, <2>2, <2>3 DEF Window, ColReady, NewLine, First
  <2> QED BY <1>1, <1>2, <2>2, <2>4 DEF MidCall, Busy
<1>5. CASE reset(p)
  <2>1. io[p].at = "reset" /\ ColReady(p) /\ Window(First(paper.line)) /\ screen' = screen
    BY <1>1, <1>5, InCall DEF reset, At, MidCall
  <2>2. /\ io'[p].at = "hw" /\ io'[p].row = ROWS - 1 /\ io'[p].col = io[p].col
        /\ cursor_row' = ROWS - 1
    BY <1>2, <1>5 DEF reset, Move
  <2>3. RowReady(p)' /\ ColReady(p)' /\ Window(First(paper.line))'
    BY <1>1, <1>3, <2>1, <2>2 DEF RowReady, ColReady, Window, First
  <2> QED BY <2>2, <2>3 DEF MidCall, Busy
<1> QED BY <1>4, <1>5

\* The stores of vga_clear.
LEMMA ClearGoesOn ==
    ASSUME ConsoleTypeOK, SheetInv, ~mixed, NEW p \in Printer, blank(p) \/ top(p) \/ left(p)
    PROVE  Busy(p)' /\ MidCall(p)'
<1>1. io[p].at \in {"blank", "top", "left"} /\ Busy(p) /\ paper' = paper
  BY DEF blank, top, left, At, Busy
<1>2. io \in [Printer -> Regs] /\ Cleared(p)
  BY <1>1, InCall DEF MidCall
<1>3. /\ io'[p].row = io[p].row /\ io'[p].col = io[p].col
      /\ io'[p].at = IF io[p].at = "blank" THEN "top" ELSE IF io[p].at = "top" THEN "left" ELSE "hw"
  BY <1>1, <1>2 DEF blank, top, left, Goto, Regs, At
<1>4. Cleared(p)'
  BY <1>1, <1>2, <1>3 DEF Cleared, BlankSheet, Page
<1>5. CASE blank(p)
  <2>1. io'[p].at = "top" /\ screen' = Empty
    BY <1>3, <1>5 DEF blank, At
  <2> QED BY <1>4, <2>1 DEF MidCall, Busy, Empty
<1>6. CASE top(p)
  <2>1. io'[p].at = "left" /\ screen' = Empty /\ cursor_row' = 0
    BY <1>1, <1>3, <1>6, InCall DEF top, MidCall, At
  <2> QED BY <1>4, <2>1 DEF MidCall, Busy, Empty
<1>7. CASE left(p)
  <2>1. io'[p].at = "hw" /\ screen' = Empty /\ cursor_row' = 0 /\ cursor_col' = 0
    BY <1>1, <1>3, <1>7, InCall DEF left, MidCall, At
  <2>2. paper' = BlankSheet /\ BlankSheet.line = 0 /\ BlankSheet.col = 0
    BY <1>1, <1>2 DEF Cleared, BlankSheet, Page
  <2>3. First(0) = 0
    BY ConsoleAssumption DEF First
  <2>4. Window(First(paper.line))'
    BY <2>1, <2>2, BlankSheetIs DEF Window, Empty
  <2>5. RowReady(p)' /\ ColReady(p)'
    BY <1>2, <1>3, <2>1, <2>2, <2>3 DEF RowReady, ColReady, Cleared, First
  <2> QED BY <2>1, <2>4, <2>5 DEF MidCall, Busy
<1> QED BY <1>5, <1>6, <1>7

\* The hardware cursor follows, and the call is over.
LEMMA CallEnds ==
    ASSUME ConsoleTypeOK, SheetInv, ~mixed, NEW p \in Printer, update_hw_cursor(p)
    PROVE  ~Busy(p)' /\ ScreenIsSheet'
<1>1. /\ io[p].at = "hw" /\ Busy(p) /\ hw' = io[p].row * COLS + io[p].col
      /\ UNCHANGED <<cursor_row, cursor_col, screen, paper, mixed>>
  BY DEF update_hw_cursor, At, Busy
<1>2. io \in [Printer -> Regs] /\ RowReady(p) /\ ColReady(p) /\ Window(First(paper.line))
  BY <1>1, InCall DEF MidCall
<1>3. ~Busy(p)'
  BY <1>2 DEF update_hw_cursor, Goto, Busy
<1>4. ScreenIsSheet'
  BY <1>1, <1>2 DEF ScreenIsSheet, RowReady, ColReady, Window, First
<1> QED BY <1>3, <1>4

\* Every step keeps the invariant.
LEMMA SheetStep ==
    ASSUME ConsoleTypeOK, SheetInv, [ConsoleNext]_cvars
    PROVE  SheetInv'
<1>1. ASSUME NEW p \in Printer, NEW c \in Char, vga_putchar(p, c) PROVE SheetInv'
  BY <1>1, CallBegins
<1>2. ASSUME NEW p \in Printer, vga_clear(p) PROVE SheetInv'
  BY <1>2, ClearBegins
<1>3. ASSUME NEW p \in Printer, Continue(p) PROVE SheetInv'
  <2>1. ASSUME ~mixed PROVE IF Busy(p)' THEN MidCall(p)' ELSE ScreenIsSheet'
    BY <1>3, <2>1, LoadCol, WriteGlyph, KeepOrErase, BreakLine, Scroll, ClearGoesOn, CallEnds
       DEF Continue
  <2> QED BY <1>3, <2>1, CallGoesOn
<1>4. CASE UNCHANGED cvars
  <2>1. /\ Alone' = Alone /\ ScreenIsSheet' = ScreenIsSheet /\ InkEnds(paper)' = InkEnds(paper)
        /\ \A p \in Printer : MidCall(p)' = MidCall(p)
    BY <1>4 DEF cvars, Alone, Busy, ScreenIsSheet, AllOut, Window, First, InkEnds, Ink, MidCall,
       Begun, CursorAt, RowReady, ColReady, NewLine, OldRow, AllButCell, Cleared, IsPage
  <2> QED BY <1>4, <2>1 DEF SheetInv, cvars, IsPage
<1> QED BY <1>1, <1>2, <1>3, <1>4 DEF ConsoleNext

(***************************************************************************)
(* For every size of the screen and whatever is printed: as long as calls  *)
(* do not overlap, the screen shows the end of what was printed since it   *)
(* was cleared, and both cursors stand where the next character goes.      *)
(***************************************************************************)
THEOREM ScreenShowsSheet == TerminalSpec => []ScreenIsSheet
<1> DEFINE Inv == TerminalTypeOK /\ GlyphsInCells /\ SheetInv
<1>1. TerminalInit => Inv
  <2> SUFFICES ASSUME TerminalInit PROVE SheetInv
    BY TerminalInitType
  <2>1. /\ cursor_row = 0 /\ cursor_col = 0 /\ screen = Empty /\ hw = 0 /\ paper = BlankSheet
        /\ \A p \in Printer : io[p].at = "out"
    BY DEF TerminalInit, ConsoleInit, Out
  <2>2. BlankSheet.line = 0 /\ BlankSheet.col = 0 /\ First(0) = 0 /\ COLS \in Nat
    BY ConsoleAssumption DEF BlankSheet, Page, First
  <2>3. Window(First(paper.line))
    BY <2>1, BlankSheetIs DEF Window, Empty
  <2>4. Alone /\ \A p \in Printer : MidCall(p)
    BY <2>1 DEF Alone, Busy, MidCall
  <2> QED BY <2>1, <2>2, <2>3, <2>4, BlankSheetIs DEF SheetInv, ScreenIsSheet
<1>2. Inv /\ [TerminalNext]_vars => Inv'
  <2> SUFFICES ASSUME Inv, [TerminalNext]_vars PROVE Inv'
    OBVIOUS
  <2>1. [ConsoleNext]_cvars
    BY TerminalStepsAreConsoleSteps DEF vars, cvars
  <2> QED BY <2>1, TerminalStepType, SheetStep DEF TerminalTypeOK
<1>3. Inv => ScreenIsSheet
  BY DEF SheetInv, ScreenIsSheet
<1> QED BY <1>1, <1>2, <1>3, PTL DEF TerminalSpec

-----------------------------------------------------------------------------
(***************************************************************************)
(* The line and its echo.  While a line is being typed nobody else prints, *)
(* and process 0 never reaches the end of the row; place by place, the     *)
(* invariant says which characters of the line are on the screen.          *)
(***************************************************************************)
EchoTo(n) == \A i \in 1 .. n : screen[<<cursor_row, home + i - 1>>] = line[i]

\* The last character of the line is on its way to the screen.
Typed  == /\ io[0].ch \in Glyph /\ Len(line) > 0 /\ io[0].ch = line[Len(line)]
          /\ cursor_col = home + Len(line) - 1 /\ EchoTo(Len(line) - 1)

\* The character that was taken from the line is still there.
Rubbed == /\ io[0].ch = BS /\ cursor_col < COLS
          /\ cursor_col = home + Len(line) + 1 /\ EchoTo(Len(line))

EchoAt ==
    CASE io[0].at = "out"   -> cursor_col = home + Len(line) /\ EchoTo(Len(line))
      [] io[0].at = "col"   -> Typed \/ Rubbed
      [] io[0].at = "cell"  -> Typed /\ io[0].col = cursor_col
      [] io[0].at = "keep"  -> io[0].col = home + Len(line) /\ EchoTo(Len(line))
      [] io[0].at = "erase" -> /\ cursor_col = home + Len(line) /\ io[0].col = cursor_col
                               /\ EchoTo(Len(line))
      [] io[0].at = "hw"    -> cursor_col = home + Len(line) /\ EchoTo(Len(line))
      [] OTHER -> FALSE

EchoInv ==
    /\ shell = "puts" => line = <<>>
    /\ shell = "readline" /\ home # -1 =>
          /\ \A p \in Tasks : io[p].at = "out"
          /\ home + Len(line) < COLS
          /\ cursor_row \in Row /\ (io[0].at # "out" => io[0].row = cursor_row)
          /\ EchoAt

\* What stays on the screen when the cell behind the echo is written.
LEMMA EchoStays ==
    ASSUME TerminalTypeOK, home # -1, home + Len(line) < COLS, cursor_row \in Row,
           NEW n \in 0 .. Len(line), EchoTo(n), NEW x,
           vga_write_cell(0, x), io[0].row = cursor_row, io[0].col = home + n,
           UNCHANGED <<cursor_row, home, line>>
    PROVE  EchoTo(n)' /\ screen'[<<cursor_row, home + n>>] = x
<1>1. /\ 0 \in Printer /\ home \in Nat /\ COLS \in Nat /\ line \in Seq(Char) /\ n \in Nat
      /\ \A i \in 0 .. n : home + i \in Col
  BY ConsoleAssumption DEF Printer, TerminalTypeOK, Col
<1>0. ConsoleTypeOK
  BY DEF TerminalTypeOK
<1>2. \A r \in Row, c \in Col :
          screen'[<<r, c>>] = IF <<r, c>> = <<cursor_row, home + n>> THEN x ELSE screen[<<r, c>>]
  <2>1. io[0].row \in Row
    OBVIOUS
  <2>2. \A r \in Row, c \in Col :
          screen'[<<r, c>>] = IF <<r, c>> = <<io[0].row, io[0].col>> THEN x ELSE screen[<<r, c>>]
    <3>1. /\ io[0].col \in Col /\ screen \in [Row \X Col -> Glyph \cup {Blank}]
          /\ screen' = [screen EXCEPT ![<<io[0].row, io[0].col>>] = x]
      BY <1>0, <1>1 DEF ConsoleTypeOK, vga_write_cell
    <3> QED BY <2>1, <3>1
  <2> QED BY <2>2
<1>3. screen'[<<cursor_row, home + n>>] = x
  BY <1>1, <1>2
<1>4. ASSUME NEW i \in 1 .. n PROVE screen'[<<cursor_row, home + i - 1>>] = line[i]
  <2>1. i - 1 \in 0 .. n /\ home + i - 1 = home + (i - 1) /\ home + i - 1 # home + n
    BY <1>1
  <2>2. home + i - 1 \in Col
    BY <1>1, <2>1
  <2> QED BY <1>2, <2>1, <2>2 DEF EchoTo
<1> QED BY <1>3, <1>4 DEF EchoTo

\* All elements of a sequence but the last.
LEMMA FrontOf ==
    ASSUME NEW s \in Seq(Char), s # <<>>
    PROVE  /\ Len(Front(s)) = Len(s) - 1 /\ Len(Front(s)) \in Nat
           /\ \A i \in 1 .. Len(Front(s)) : Front(s)[i] = s[i]
<1>1. Len(s) \in Nat \ {0} /\ \A i \in 1 .. Len(s) : s[i] \in Char
  BY EmptySeq, LenProperties, ElementOfSeq
<1> DEFINE n == Len(s) - 1
<1>2. n \in Nat /\ n <= Len(s) /\ \A i \in 1 .. n : s[i] \in Char /\ i \in 1 .. Len(s)
  BY <1>1
<1> HIDE DEF n
<1>3. SubSeq(s, 1, n) = [i \in 1 .. n |-> s[i]] /\ [i \in 1 .. n |-> s[i]] \in Seq(Char)
  BY <1>1, <1>2
<1>4. Len(SubSeq(s, 1, n)) = n
  BY <1>1, <1>2, <1>3
<1> QED BY <1>2, <1>3, <1>4 DEF Front, n

\* Process 0 goes on with the echo of a character.
LEMMA EchoGoesOn ==
    ASSUME TerminalTypeOK, EchoInv, shell = "readline", home # -1, Continue(0), UNCHANGED tvars
    PROVE  EchoInv'
<1> USE DEF tvars
<1>1. /\ 0 \in Printer /\ io \in [Printer -> Regs] /\ home \in Nat /\ COLS \in Nat
      /\ Len(line) \in Nat /\ cursor_col \in Col
  BY ConsoleAssumption DEF Printer, TerminalTypeOK, ConsoleTypeOK, Regs, Col
<1>2. /\ \A p \in Tasks : io[p].at = "out" /\ p # 0 /\ p \in Printer
      /\ home + Len(line) < COLS /\ cursor_row \in Row /\ EchoAt
      /\ io[0].at # "out" /\ io[0].row = cursor_row
  BY ConsoleAssumption DEF EchoInv, Printer, Continue, load_col, write, keep, erase, carriage, newrow,
     scroll_up, reset, update_hw_cursor, blank, top, left, At
<1>3. io[0].at \in {"col", "cell", "keep", "erase", "hw"} /\ After(io[0].row) = "hw"
  BY <1>2, ConsoleAssumption DEF EchoAt, After, Row
<1>4. \A p \in Tasks : io'[p] = io[p]
  BY <1>1, <1>2 DEF Continue, load_col, write, keep, erase, carriage, newrow, scroll_up, reset,
     update_hw_cursor, blank, top, left, Goto, Move
<1>5. SUFFICES cursor_row' = cursor_row /\ (io'[0].at # "out" => io'[0].row = io[0].row) /\ EchoAt'
  BY <1>2, <1>4 DEF EchoInv
<1>6. CASE load_col(0)
  <2>1. /\ io[0].at = "col" /\ (Typed \/ Rubbed)
        /\ UNCHANGED <<cursor_row, cursor_col, screen>>
    BY <1>2, <1>6 DEF load_col, At, EchoAt
  <2>2. CASE Typed
    <3>1. io'[0] = [at |-> "cell", ch |-> io[0].ch, row |-> io[0].row, col |-> cursor_col]
      BY <1>1, <1>6, <2>2, CharsDiffer DEF load_col, Move, Typed
    <3> QED BY <2>1, <2>2, <3>1 DEF EchoAt, Typed, EchoTo
  <2>3. CASE Rubbed
    <3>1. cursor_col > 0 /\ cursor_col - 1 = home + Len(line)
      BY <1>1, <2>3 DEF Rubbed
    <3>2. io'[0] = [at |-> "keep", ch |-> BS, row |-> io[0].row, col |-> cursor_col - 1]
      BY <1>1, <1>6, <2>3, <3>1, CharsDiffer DEF load_col, Move, Rubbed
    <3> QED BY <2>1, <2>3, <3>1, <3>2 DEF EchoAt, Rubbed, EchoTo
  <2> QED BY <2>1, <2>2, <2>3
<1>7. CASE write(0)
  <2>1. /\ io[0].at = "cell" /\ Typed /\ io[0].col = cursor_col
        /\ UNCHANGED <<cursor_row, cursor_col>> /\ vga_write_cell(0, io[0].ch)
    BY <1>2, <1>7 DEF write, At, EchoAt
  <2>2. PICK n \in 0 .. Len(line) :
           /\ io[0].col = home + n /\ EchoTo(n) /\ n + 1 = Len(line)
           /\ io[0].col + 1 = home + Len(line)
    <3>1. Len(line) - 1 \in 0 .. Len(line)
      BY <1>1, <2>1 DEF Typed
    <3> QED BY <1>1, <2>1, <3>1 DEF Typed
  <2>3. EchoTo(n)' /\ screen'[<<cursor_row, home + n>>] = io[0].ch
    BY <1>2, <2>1, <2>2, EchoStays
  <2>4. EchoTo(Len(line))'
    <3>1. ASSUME NEW i \in 1 .. Len(line)
          PROVE  screen'[<<cursor_row, home + i - 1>>] = line[i]
      <4>1. CASE i \in 1 .. n
        BY <2>1, <2>3, <4>1 DEF EchoTo
      <4>2. CASE i = Len(line)
        <5>1. home + i - 1 = home + n
          BY <1>1, <2>2, <4>2
        <5> QED BY <2>1, <2>3, <4>2, <5>1 DEF Typed
      <4> QED BY <1>1, <2>2, <4>1, <4>2
    <3> QED BY <2>1, <3>1 DEF EchoTo
  <2>5. io'[0] = [at |-> "keep", ch |-> io[0].ch, row |-> io[0].row, col |-> io[0].col + 1]
    BY <1>1, <1>2, <1>7, <2>2 DEF write, Move
  <2> QED BY <2>1, <2>2, <2>4, <2>5 DEF EchoAt
<1>8. CASE keep(0)
  <2>1. /\ io[0].at = "keep" /\ cursor_col' = home + Len(line) /\ EchoTo(Len(line))
        /\ io[0].col = home + Len(line) /\ UNCHANGED <<cursor_row, screen>>
    BY <1>2, <1>8 DEF keep, At, EchoAt
  <2>2. /\ io'[0].at \in {"erase", "hw"} /\ io'[0].row = io[0].row /\ io'[0].col = io[0].col
    <3>1. Goto(0, "erase") \/ Goto(0, "hw")
      <4>1. CASE io[0].ch = BS
        BY <1>8, <4>1 DEF keep
      <4>2. CASE io[0].ch # BS
        BY <1>3, <1>8, <4>2 DEF keep
      <4> QED BY <4>1, <4>2
    <3> QED BY <1>1, <3>1 DEF Goto, Regs
  <2> QED BY <2>1, <2>2 DEF EchoAt, EchoTo
<1>9. CASE erase(0)
  <2>1. /\ io[0].at = "erase" /\ cursor_col = home + Len(line) /\ EchoTo(Len(line))
        /\ io[0].col = home + Len(line) /\ UNCHANGED <<cursor_row, cursor_col>>
        /\ vga_write_cell(0, Blank)
    BY <1>2, <1>9 DEF erase, At, EchoAt
  <2>2. EchoTo(Len(line))'
    <3>1. PICK n \in 0 .. Len(line) : n = Len(line)
      BY <1>1
    <3>2. EchoTo(n) /\ io[0].col = home + n
      BY <2>1, <3>1
    <3>3. EchoTo(n)'
      BY <1>2, <2>1, <3>2, EchoStays
    <3> QED BY <3>1, <3>3
  <2>3. io'[0].at = "hw" /\ io'[0].row = io[0].row
    <3>1. Goto(0, "hw")
      BY <1>3, <1>9 DEF erase
    <3> QED BY <1>1, <3>1 DEF Goto, Regs
  <2> QED BY <2>1, <2>2, <2>3 DEF EchoAt
<1>10. CASE update_hw_cursor(0)
  <2>1. /\ io[0].at = "hw" /\ cursor_col = home + Len(line) /\ EchoTo(Len(line))
        /\ UNCHANGED <<cursor_row, cursor_col, screen>>
    BY <1>2, <1>10 DEF update_hw_cursor, At, EchoAt
  <2>2. io'[0].at = "out"
    BY <1>1, <1>10 DEF update_hw_cursor, Goto, Regs
  <2> QED BY <2>1, <2>2 DEF EchoAt, EchoTo
<1> QED BY <1>3, <1>6, <1>7, <1>8, <1>9, <1>10
        DEF Continue, At, carriage, newrow, scroll_up, reset, blank, top, left

\* kb_readline takes a character: the line and the call of vga_putchar.
LEMMA EchoTaken ==
    ASSUME TerminalTypeOK, EchoInv, kb_readline
    PROVE  EchoInv'
<1>1. /\ shell = "readline" /\ io[0].at = "out" /\ line \in Seq(Char) /\ Len(line) \in Nat
      /\ io \in [Printer -> Regs] /\ 0 \in Printer /\ home \in Col \cup {-1} /\ COLS \in Nat
  BY ConsoleAssumption DEF kb_readline, modifier, unmapped, enter, rub_out, full, store, kb_getchar, Polling,
     At, TerminalTypeOK, ConsoleTypeOK, Regs, Printer
<1>2. shell' \in {"readline", "obey"}
  BY <1>1 DEF kb_readline, modifier, unmapped, enter, rub_out, full, store, kb_getchar
<1>3. SUFFICES ASSUME shell' = "readline", home' # -1 PROVE EchoInv'
  BY <1>2 DEF EchoInv
<1>4. CASE UNCHANGED <<cvars, line, home>>
  BY <1>1, <1>3, <1>4 DEF cvars, EchoInv, EchoAt, EchoTo, Typed, Rubbed
<1>5. ASSUME NEW c \in Char, vga_putchar(0, c), c # NL
      PROVE  /\ io'[0].at = "col" /\ io'[0].ch = c /\ io'[0].row = cursor_row
             /\ \A p \in Tasks : io'[p] = io[p]
             /\ UNCHANGED <<cursor_row, cursor_col, screen>>
  BY <1>1, <1>5, ConsoleAssumption DEF vga_putchar, Printer
<1>6. CASE rub_out /\ line # <<>>
  <2>1. vga_putchar(0, BS) /\ line' = Front(line) /\ home' = home /\ home # -1
    BY <1>3, <1>6 DEF rub_out
  <2>2. /\ \A p \in Tasks : io[p].at = "out"
        /\ home + Len(line) < COLS /\ cursor_row \in Row
        /\ cursor_col = home + Len(line) /\ EchoTo(Len(line))
    BY <1>1, <2>1 DEF EchoInv, EchoAt
  <2>3. /\ Len(line') = Len(line) - 1 /\ Len(line') \in Nat
        /\ \A i \in 1 .. Len(line') : line'[i] = line[i]
    BY <1>1, <1>6, <2>1, FrontOf
  <2>4. /\ io'[0].at = "col" /\ io'[0].ch = BS /\ io'[0].row = cursor_row
        /\ \A p \in Tasks : io'[p] = io[p]
        /\ UNCHANGED <<cursor_row, cursor_col, screen>>
    BY <1>5, <2>1, CharsAreThere, CharsDiffer
  <2>5. EchoTo(Len(line))'
    <3>1. ASSUME NEW i \in 1 .. Len(line')
          PROVE  screen'[<<cursor_row', home' + i - 1>>] = line'[i]
      <4>1. i \in 1 .. Len(line) /\ line'[i] = line[i]
        BY <1>1, <2>3
      <4> QED BY <2>1, <2>2, <2>4, <4>1 DEF EchoTo
    <3> QED BY <3>1 DEF EchoTo
  <2>6. Rubbed'
    <3>1. /\ cursor_col' = home' + Len(line') + 1 /\ cursor_col' < COLS
          /\ home' + Len(line') < COLS
      <4>1. home \in Int /\ COLS \in Int
        BY <1>1 DEF Col
      <4> QED BY <1>1, <2>1, <2>2, <2>3, <2>4, <4>1
    <3> QED BY <2>4, <2>5, <3>1 DEF Rubbed
  <2> QED BY <1>1, <1>3, <2>1, <2>2, <2>3, <2>4, <2>6 DEF EchoInv, EchoAt
<1>7. ASSUME NEW c \in Char, store(c) PROVE EchoInv'
  <2>1. /\ vga_putchar(0, c) /\ line' = Append(line, c) /\ home' = home /\ home # -1
        /\ c # HT /\ c # NL /\ c # BS /\ home + Len(line) + 1 < COLS
    BY <1>1, <1>3, <1>7, TerminalAssumption DEF store, Col
  <2>2. c \in Glyph
    <3>1. c = Ascii(Head(port).key, shift_held) /\ Head(port).key \in Key \ Shift
      <4>1. Head(port) \in Byte
        BY <1>7 DEF store, kb_getchar, Polling, TerminalTypeOK
      <4> QED BY <1>7, <4>1 DEF store, kb_getchar, Byte
    <3>2. c \in {"A", "a", NL, BS, HT, "none", "4"}
      BY <3>1 DEF Ascii, Key, Shift
    <3> QED BY <1>7, <2>1, <3>2, TerminalAssumption DEF store
  <2>3. /\ \A p \in Tasks : io[p].at = "out"
        /\ cursor_row \in Row
        /\ cursor_col = home + Len(line) /\ EchoTo(Len(line))
    BY <1>1, <2>1 DEF EchoInv, EchoAt
  <2>4. /\ Len(line') = Len(line) + 1 /\ line'[Len(line')] = c
        /\ \A i \in 1 .. Len(line) : line'[i] = line[i]
    BY <1>1, <2>1
  <2>5. /\ io'[0].at = "col" /\ io'[0].ch = c /\ io'[0].row = cursor_row
        /\ \A p \in Tasks : io'[p] = io[p]
        /\ UNCHANGED <<cursor_row, cursor_col, screen>>
    BY <1>5, <2>1
  <2>6. EchoTo(Len(line) - 1)'
    <3>1. ASSUME NEW i \in 1 .. (Len(line') - 1)
          PROVE  screen'[<<cursor_row', home' + i - 1>>] = line'[i]
      <4>1. i \in 1 .. Len(line) /\ line'[i] = line[i]
        BY <1>1, <2>4
      <4> QED BY <2>1, <2>3, <2>5, <4>1 DEF EchoTo
    <3> QED BY <3>1 DEF EchoTo
  <2>7. Typed'
    BY <1>1, <2>1, <2>2, <2>3, <2>4, <2>5, <2>6 DEF Typed
  <2>8. home' + Len(line') < COLS
    <3>1. home \in Int /\ COLS \in Int
      BY <1>1 DEF Col
    <3> QED BY <1>1, <2>1, <2>4, <3>1
  <2>9. EchoAt'
    BY <2>5, <2>7 DEF EchoAt
  <2> QED BY <1>3, <2>3, <2>5, <2>8, <2>9 DEF EchoInv
<1>8. CASE enter \/ full
  BY <1>3, <1>8 DEF enter, full
<1> QED BY <1>4, <1>6, <1>7, <1>8 DEF kb_readline, modifier, unmapped, rub_out

\* Every step keeps the invariant.
LEMMA EchoStep ==
    ASSUME TerminalTypeOK, CursorComesBack, EchoInv, [TerminalNext]_vars
    PROVE  EchoInv'
<1> DEFINE Seen == <<cursor_row, cursor_col, screen, io, line, home, shell>>
<1>1. CASE UNCHANGED Seen
  BY <1>1 DEF EchoInv, EchoAt, EchoTo, Typed, Rubbed
<1>2. ASSUME NEW key \in Key, press(key) \/ release(key) PROVE EchoInv'
  BY <1>1, <1>2 DEF press, release, cvars
<1>3. CASE kb_readline
  BY <1>3, EchoTaken
<1>4. CASE shell_run
  BY <1>4 DEF shell_run, EchoInv
<1>5. CASE vga_puts
  BY <1>5 DEF vga_puts, EchoInv
<1>6. CASE prompt_end
  <2>1. /\ line = <<>> /\ line' = line /\ shell' = "readline" /\ UNCHANGED cvars
        /\ home' = IF AllOut THEN cursor_col ELSE -1
    BY <1>6 DEF prompt_end, EchoInv
  <2>2. SUFFICES ASSUME home' # -1 PROVE EchoInv'
    BY <2>1 DEF EchoInv
  <2>3. AllOut /\ home' = cursor_col /\ cursor_col \in Col /\ cursor_row \in Nat /\ Len(line) = 0
    BY <2>1, <2>2 DEF TerminalTypeOK, ConsoleTypeOK
  <2>4. cursor_row \in Row
    BY <2>3, ConsoleAssumption DEF CursorComesBack, AllOut, Row
  <2>5. \A p \in Printer : io'[p].at = "out"
    BY <2>1, <2>3 DEF AllOut, cvars
  <2>6. EchoAt' /\ home' + Len(line') < COLS
    BY <2>1, <2>3, <2>5, ConsoleAssumption DEF EchoAt, EchoTo, cvars, Printer, Col
  <2> QED BY <2>1, <2>4, <2>5, <2>6 DEF EchoInv, cvars, Printer
<1>7. ASSUME NEW p \in Tasks, task(p) PROVE EchoInv'
  BY <1>7 DEF task, EchoInv
<1>8. ASSUME NEW p \in Printer, Continue(p), UNCHANGED tvars PROVE EchoInv'
  <2>1. CASE ~(shell = "readline" /\ home # -1)
    BY <1>8, <2>1 DEF EchoInv, tvars
  <2>2. CASE shell = "readline" /\ home # -1 /\ p \in Tasks
    <3>1. io[p].at = "out"
      BY <2>2 DEF EchoInv
    <3> QED BY <1>8, <3>1 DEF Continue, load_col, write, keep, erase, carriage, newrow,
            scroll_up, reset, update_hw_cursor, blank, top, left, At
  <2>3. CASE shell = "readline" /\ home # -1 /\ p = 0
    BY <1>8, <2>3, EchoGoesOn
  <2> QED BY <2>1, <2>2, <2>3 DEF Printer
<1>9. CASE UNCHANGED vars
  BY <1>1, <1>9 DEF vars, cvars, tvars
<1> QED BY <1>2, <1>3, <1>4, <1>5, <1>6, <1>7, <1>8, <1>9 DEF TerminalNext

(***************************************************************************)
(* However letters and backspaces follow each other, whatever the prompt   *)
(* and the sizes of screen and buffer: what stands behind the prompt is    *)
(* what kb_readline has in its buffer, and the cursor stands behind it.    *)
(***************************************************************************)
THEOREM EchoIsBuffer == TerminalSpec => []EchoMatchesBuffer
<1> DEFINE Inv == TerminalTypeOK /\ GlyphsInCells /\ CursorComesBack /\ EchoInv
<1>1. TerminalInit => Inv
  BY TerminalInitType DEF TerminalInit, EchoInv
<1>2. Inv /\ [TerminalNext]_vars => Inv'
  <2> SUFFICES ASSUME Inv, [TerminalNext]_vars PROVE Inv'
    OBVIOUS
  <2>1. [ConsoleNext]_cvars
    BY TerminalStepsAreConsoleSteps DEF vars, cvars
  <2> QED BY <2>1, TerminalStepType, CursorStepReturns, EchoStep DEF TerminalTypeOK
<1>3. Inv => EchoMatchesBuffer
  BY DEF EchoInv, EchoMatchesBuffer, EchoAt, EchoTo, At
<1> QED BY <1>1, <1>2, <1>3, PTL DEF TerminalSpec
=============================================================================
