------------------------------- MODULE Console -------------------------------
(***************************************************************************)
(* The text console of kernel/vga.c: one cursor and one screen, written by *)
(* every process without a lock.  A tick may come between any two accesses *)
(* to the shared variables, so vga_putchar and vga_clear are taken apart   *)
(* into theirs.  As gcc -O2 compiles it, vga_putchar loads cursor_row and  *)
(* then cursor_col into registers when it is entered and works on these;   *)
(* the test for scrolling and the hardware cursor use the registers too.   *)
(*                                                                         *)
(* Colours are left out.  The copying of scroll_up and the blanking of     *)
(* vga_clear are one step each: what is on the screen is spoken of only    *)
(* while no two calls overlap.                                             *)
(***************************************************************************)
EXTENDS Integers, SequencesExt

CONSTANTS ROWS,       \* VGA_ROWS
          COLS,       \* VGA_COLS
          TAB,        \* distance of the tab stops, 8
          Tasks,      \* the processes that print, besides process 0
          Glyph       \* printable characters

NL == "newline"
CR == "return"
HT == "tab"
BS == "backspace"
Blank == "blank"
Char == Glyph \cup {NL, CR, HT, BS}

ASSUME ConsoleAssumption ==
    /\ {ROWS, COLS, TAB} \subseteq Nat \ {0}
    /\ 0 \notin Tasks
    /\ Glyph \cap {NL, CR, HT, BS, Blank} = {}

Printer == Tasks \cup {0}
Row  == 0 .. (ROWS - 1)
Col  == 0 .. (COLS - 1)

VARIABLES cursor_row, cursor_col,
          screen,     \* the visible cells
          hw,         \* the hardware cursor
          io,         \* io[p]: where p is in vga_putchar or vga_clear, with its registers
          paper,      \* history: what was printed since the screen was cleared, on a sheet
          mixed       \* history: a call began while another one was under way

cvars == <<cursor_row, cursor_col, screen, hw, io, paper, mixed>>

Place == {"out", "col", "cell", "keep", "erase", "carriage", "newrow",
          "scroll", "reset", "blank", "top", "left", "hw"}
Out   == [at |-> "out", ch |-> NL, row |-> 0, col |-> 0]

(***************************************************************************)
(* What a user expects of a character: an endless sheet of paper with the  *)
(* line and the column the next one goes to, and ink in some of its cells. *)
(***************************************************************************)
Page(line, col, ink) == [line |-> line, col |-> col, ink |-> ink]
BlankSheet == Page(0, 0, <<>>)

Put(s, col, x) == [cell \in DOMAIN s.ink \cup {<<s.line, col>>} |->
                     IF cell = <<s.line, col>> THEN x ELSE s.ink[cell]]
Ink(s, line, col) == IF <<line, col>> \in DOMAIN s.ink THEN s.ink[<<line, col>>] ELSE Blank

NextStop(col) == CHOOSE n \in (col + 1) .. (col + TAB) : n % TAB = 0

Sheet(s, c) ==
    LET newline == Page(s.line + 1, 0, s.ink)
        back    == IF s.col = 0 THEN 0 ELSE s.col - 1
        stop    == NextStop(s.col)
    IN CASE c = NL -> newline
         [] c = CR -> Page(s.line, 0, s.ink)
         [] c = HT -> IF stop < COLS THEN Page(s.line, stop, s.ink) ELSE newline
         [] c = BS -> Page(s.line, back, Put(s, back, Blank))
         [] OTHER  -> IF s.col = COLS - 1
                        THEN Page(s.line + 1, 0, Put(s, s.col, c))
                        ELSE Page(s.line, s.col + 1, Put(s, s.col, c))

AllOut == \A p \in Printer : io[p].at = "out"
Empty  == [cell \in Row \X Col |-> Blank]

ConsoleInit ==
    /\ cursor_row = 0 /\ cursor_col = 0
    /\ screen = Empty /\ hw = 0
    /\ io = [p \in Printer |-> Out]
    /\ paper = BlankSheet /\ mixed = FALSE

-----------------------------------------------------------------------------
At(p, place) == io[p].at = place
Goto(p, place) == io' = [io EXCEPT ![p].at = place]
Move(p, place, row, col) ==
    io' = [io EXCEPT ![p] = [at |-> place, ch |-> @.ch, row |-> row, col |-> col]]

\* Where vga_putchar goes on with row in its register: scroll_up or not.
After(row) == IF row >= ROWS THEN "scroll" ELSE "hw"

\* The call of vga_putchar, which loads cursor_row.
vga_putchar(p, c) ==
    /\ At(p, "out")
    /\ io' = [io EXCEPT ![p] = [at |-> IF c = NL THEN "carriage" ELSE "col",
                                ch |-> c, row |-> cursor_row, col |-> 0]]
    /\ mixed' = (mixed \/ ~AllOut)
    /\ paper' = IF mixed' THEN BlankSheet ELSE Sheet(paper, c)
    /\ UNCHANGED <<cursor_row, cursor_col, screen, hw>>

\* The next tab stop: (col + TAB) & ~(TAB - 1).
TabStop(col) == ((col + TAB) \div TAB) * TAB

load_col(p) ==
    /\ At(p, "col")
    /\ LET Become(place, col) == Move(p, place, io[p].row, col)
           stop == TabStop(cursor_col) IN
       \/ io[p].ch \in Glyph /\ Become("cell", cursor_col)
       \/ io[p].ch = CR /\ Become("keep", 0)
       \/ io[p].ch = BS /\ IF cursor_col > 0 THEN Become("keep", cursor_col - 1)
                                            ELSE Become("erase", 0)
       \/ io[p].ch = HT /\ IF stop < COLS THEN Become("keep", stop)
                                         ELSE Become("carriage", 0)
    /\ UNCHANGED <<cursor_row, cursor_col, screen, hw, paper, mixed>>

\* A cell below the screen is memory that nobody looks at.
vga_write_cell(p, c) ==
    screen' = IF io[p].row \in Row THEN [screen EXCEPT ![<<io[p].row, io[p].col>>] = c] ELSE screen

\* Fault: the line is not broken at the end of the row.
WriteNoWrap(p) ==
    /\ At(p, "cell")
    /\ vga_write_cell(p, io[p].ch)
    /\ Move(p, "keep", io[p].row, (io[p].col + 1) % COLS)
    /\ UNCHANGED <<cursor_row, cursor_col, hw, paper, mixed>>

write(p) ==
    /\ At(p, "cell")
    /\ vga_write_cell(p, io[p].ch)
    /\ IF io[p].col + 1 < COLS THEN Move(p, "keep", io[p].row, io[p].col + 1)
                              ELSE Move(p, "carriage", io[p].row, 0)
    /\ UNCHANGED <<cursor_row, cursor_col, hw, paper, mixed>>

\* The column moves within the row.
keep(p) ==
    /\ At(p, "keep")
    /\ cursor_col' = io[p].col
    /\ Goto(p, IF io[p].ch = BS THEN "erase" ELSE After(io[p].row))
    /\ UNCHANGED <<cursor_row, screen, hw, paper, mixed>>

erase(p) ==
    /\ At(p, "erase")
    /\ vga_write_cell(p, Blank)
    /\ Goto(p, After(io[p].row))
    /\ UNCHANGED <<cursor_row, cursor_col, hw, paper, mixed>>

\* A new line: cursor_col = 0, then cursor_row++.
carriage(p) ==
    /\ At(p, "carriage")
    /\ cursor_col' = 0
    /\ Goto(p, "newrow")
    /\ UNCHANGED <<cursor_row, screen, hw, paper, mixed>>

newrow(p) ==
    /\ At(p, "newrow")
    /\ cursor_row' = io[p].row + 1
    /\ Move(p, After(io[p].row + 1), io[p].row + 1, io[p].col)
    /\ UNCHANGED <<cursor_col, screen, hw, paper, mixed>>

scroll_up(p) ==
    /\ At(p, "scroll")
    /\ screen' = [cell \in Row \X Col |->
                   IF cell[1] + 1 < ROWS THEN screen[<<cell[1] + 1, cell[2]>>] ELSE Blank]
    /\ Goto(p, "reset")
    /\ UNCHANGED <<cursor_row, cursor_col, hw, paper, mixed>>

\* Fault: scroll_up leaves the cursor below the screen.
NoReset(p) ==
    /\ At(p, "reset")
    /\ Move(p, "hw", ROWS - 1, io[p].col)
    /\ UNCHANGED <<cursor_row, cursor_col, screen, hw, paper, mixed>>

reset(p) ==
    /\ At(p, "reset")
    /\ cursor_row' = ROWS - 1
    /\ Move(p, "hw", ROWS - 1, io[p].col)
    /\ UNCHANGED <<cursor_col, screen, hw, paper, mixed>>

update_hw_cursor(p) ==
    /\ At(p, "hw")
    /\ hw' = io[p].row * COLS + io[p].col
    /\ Goto(p, "out")
    /\ UNCHANGED <<cursor_row, cursor_col, screen, paper, mixed>>

-----------------------------------------------------------------------------
\* The call of vga_clear.  When nobody else is printing it starts afresh.
vga_clear(p) ==
    /\ At(p, "out")
    /\ io' = [io EXCEPT ![p] = [Out EXCEPT !.at = "blank"]]
    /\ mixed' = ~AllOut
    /\ paper' = BlankSheet
    /\ UNCHANGED <<cursor_row, cursor_col, screen, hw>>

blank(p) == /\ At(p, "blank") /\ Goto(p, "top")
            /\ screen' = Empty
            /\ UNCHANGED <<cursor_row, cursor_col, hw, paper, mixed>>

top(p) == /\ At(p, "top") /\ Goto(p, "left")
          /\ cursor_row' = 0
          /\ UNCHANGED <<cursor_col, screen, hw, paper, mixed>>

left(p) == /\ At(p, "left") /\ Goto(p, "hw")
           /\ cursor_col' = 0
           /\ UNCHANGED <<cursor_row, screen, hw, paper, mixed>>

\* The rest of a call of p.
Continue(p) ==
    \/ load_col(p) \/ write(p) \/ keep(p) \/ erase(p) \/ carriage(p) \/ newrow(p)
    \/ scroll_up(p) \/ reset(p) \/ update_hw_cursor(p)
    \/ blank(p) \/ top(p) \/ left(p)

ConsoleNext ==
    \E p \in Printer : \/ \E c \in Char : vga_putchar(p, c)
                       \/ vga_clear(p)
                       \/ Continue(p)

ConsoleSpec == ConsoleInit /\ [][ConsoleNext]_cvars

-----------------------------------------------------------------------------
\* Cursor, screen and registers have their types.  cursor_row has no bound:
\* see CursorComesBack.
ConsoleTypeOK ==
    /\ cursor_row \in Nat /\ cursor_col \in Col
    /\ screen \in [Row \X Col -> Glyph \cup {Blank}]
    /\ hw \in Nat
    /\ io \in [Printer -> [at : Place, ch : Char, row : Nat, col : Col]]
    /\ paper.line \in Nat /\ paper.col \in Col /\ mixed \in BOOLEAN

(***************************************************************************)
(* However the printing of several processes is interleaved, the cursor is *)
(* below the screen only while some process has yet to scroll and to put   *)
(* it back: vga_write_cell goes astray for a moment, never for good.       *)
(***************************************************************************)
CursorComesBack ==
    cursor_row >= ROWS => \E p \in Printer : io[p].at \in {"scroll", "reset"}

(***************************************************************************)
(* As long as calls do not overlap, the screen is a window on the sheet:   *)
(* the lines that end with the one the cursor is in, as far as they fit.   *)
(***************************************************************************)
First(line)   == IF line < ROWS THEN 0 ELSE line - ROWS + 1
Window(first) == \A r \in Row, c \in Col : screen[<<r, c>>] = Ink(paper, first + r, c)

ScreenIsSheet ==
    ~mixed /\ AllOut =>
        /\ Window(First(paper.line))
        /\ cursor_row = paper.line - First(paper.line) /\ cursor_col = paper.col
        /\ hw = cursor_row * COLS + cursor_col
=============================================================================
