------------------------------- MODULE Terminal -------------------------------
(***************************************************************************)
(* The shell's terminal: kernel/keyboard.c on top of Console.  Process 0   *)
(* prints its prompt, reads a line with kb_readline, polling the keyboard  *)
(* and echoing what it takes, and obeys it; the other processes print when *)
(* they like.  The keyboard sends one byte when a key goes down and one    *)
(* when it comes up.  kb_getchar drops the bytes with bit 7 set, those of  *)
(* releases and the prefix 0xE0 of the extended keys, unless they are the  *)
(* releases of shift keys.  The byte behind a prefix it reads as that of   *)
(* the ordinary key with the same number; the shifts that some keyboards   *)
(* send around extended keys are left out.                                 *)
(***************************************************************************)
EXTENDS Console, FiniteSets

CONSTANTS LINE,        \* the size of shell_buf
          MAX_KEYS,    \* bound: keys pressed
          MAX_PORT     \* bound: bytes the keyboard holds until they are read

Shift == {"left shift", "right shift"}
Key   == Shift \cup {"letter", "enter", "erase", "tab", "keypad"}

\* sc_ascii and sc_ascii_shift.  The table with shift ends before the keypad;
\* "none" is the entry 0.
Ascii(key, shift) ==
    CASE key = "letter" -> IF shift THEN "A" ELSE "a"
      [] key = "enter"  -> NL
      [] key = "erase"  -> BS
      [] key = "tab"    -> HT
      [] key = "keypad" -> IF shift THEN "none" ELSE "4"

PROMPT  == <<NL, ">">>
MESSAGE == <<NL, "t">>   \* what each of the other processes prints

ASSUME TerminalAssumption ==
    /\ LINE \in Nat \ {0}
    /\ {"A", "a", "4", ">", "t"} \subseteq Glyph /\ "none" \notin Glyph

VARIABLES port,        \* the bytes waiting at port 0x60
          down,        \* the shift keys that are down
          shift_held,
          line,        \* the buf of kb_readline up to i
          shell,       \* where process 0 is
          out,         \* what vga_puts has yet to print for process 0
          count,       \* keys pressed (0), characters printed by each task
          home         \* history: the column the line starts in, or -1 when it
                       \* is no longer on the screen as typed

tvars == <<port, down, shift_held, line, shell, out, count, home>>
vars  == <<cvars, tvars>>

Byte == [dir : {"make", "break"}, key : Key]

\* vga_init, kb_init, and the first prompt about to be printed.
TerminalInit ==
    /\ ConsoleInit
    /\ port = <<>> /\ down = {} /\ shift_held = FALSE
    /\ line = <<>> /\ shell = "puts" /\ out = PROMPT
    /\ count = [p \in Printer |-> 0]
    /\ home = -1

-----------------------------------------------------------------------------
\* Keys go down and up while process 0 prints as well; only the moments between
\* two of its characters need be considered, for it does not poll in between.
Send(dir, key) == /\ Len(port) < MAX_PORT /\ At(0, "out")
                  /\ port' = Append(port, [dir |-> dir, key |-> key])

\* The user.  A key that is held repeats.
press(key) ==
    /\ count[0] < MAX_KEYS
    /\ Send("make", key)
    /\ down' = down \cup ({key} \cap Shift)
    /\ count' = [count EXCEPT ![0] = @ + 1]
    /\ UNCHANGED <<cvars, shift_held, line, shell, out, home>>

release(key) ==
    /\ key \in down
    /\ Send("break", key)
    /\ down' = down \ {key}
    /\ UNCHANGED <<cvars, shift_held, line, shell, out, count, home>>

-----------------------------------------------------------------------------
\* Fault: no room is kept for the NUL at the end of buf.
PollingToTheEnd == /\ shell = "readline" /\ At(0, "out")
                   /\ Len(line) < LINE
                   /\ port # <<>>

\* kb_readline polls the keyboard as long as there is room in buf.
Polling == /\ shell = "readline" /\ At(0, "out")
           /\ Len(line) < LINE - 1
           /\ port # <<>>

\* Fault: only the left shift key is seen to come up.
ReleaseLeftOnly ==
    /\ Polling
    /\ Head(port).key \in Shift
    /\ port' = Tail(port)
    /\ shift_held' = \/ Head(port).dir = "make"
                      \/ (Head(port).key = "right shift" /\ shift_held)
    /\ UNCHANGED <<cvars, down, line, shell, out, count, home>>

\* kb_getchar sees a shift key go down or come up.
modifier ==
    /\ Polling
    /\ Head(port).key \in Shift
    /\ port' = Tail(port)
    /\ shift_held' = (Head(port).dir = "make")
    /\ UNCHANGED <<cvars, down, line, shell, out, count, home>>

\* kb_getchar returns c.
kb_getchar(c) ==
    /\ Polling
    /\ Head(port).key \notin Shift
    /\ c = Ascii(Head(port).key, shift_held)
    /\ port' = Tail(port)
    /\ UNCHANGED <<down, shift_held, out, count>>

\* A key without a character.
unmapped == kb_getchar("none") /\ UNCHANGED <<cvars, line, shell, home>>

enter == /\ kb_getchar(NL)
         /\ vga_putchar(0, NL)
         /\ shell' = "obey"
         /\ UNCHANGED <<line, home>>

\* Fault: backspace does not stop at the beginning of the line.
RubOutPrompt ==
    /\ kb_getchar(BS)
    /\ line' = IF line = <<>> THEN <<>> ELSE Front(line)
    /\ vga_putchar(0, BS)
    /\ UNCHANGED <<shell, home>>

rub_out ==
    /\ kb_getchar(BS)
    /\ IF line = <<>> THEN UNCHANGED <<cvars, line>>
       ELSE line' = Front(line) /\ vga_putchar(0, BS)
    /\ UNCHANGED <<shell, home>>

store(c) ==
    /\ c \notin {NL, BS, "none"}
    /\ kb_getchar(c)
    /\ line' = Append(line, c)
    /\ vga_putchar(0, c)
    /\ home' = IF c = HT \/ home + Len(line) + 1 >= COLS THEN -1 ELSE home
    /\ UNCHANGED shell

\* The buffer is full: kb_readline returns without an Enter.
full ==
    /\ shell = "readline" /\ At(0, "out")
    /\ Len(line) >= LINE - 1
    /\ shell' = "obey"
    /\ UNCHANGED <<cvars, port, down, shift_held, line, out, count, home>>

kb_readline == modifier \/ unmapped \/ enter \/ rub_out \/ full \/ \E c \in Char : store(c)

-----------------------------------------------------------------------------
CLEAR == <<"A">>   \* stands for the command clear

\* shell_run with the line read: nothing, clear, or a command that prints, as
\* echo does, what it was given.
shell_run ==
    /\ shell = "obey" /\ At(0, "out")
    /\ IF line = CLEAR THEN vga_clear(0) ELSE UNCHANGED cvars
    /\ out' = (IF line \in {<<>>, CLEAR} THEN <<>> ELSE line \o <<NL>>) \o PROMPT
    /\ shell' = "puts" /\ line' = <<>> /\ home' = -1
    /\ UNCHANGED <<port, down, shift_held, count>>

vga_puts ==
    /\ shell = "puts" /\ out # <<>>
    /\ vga_putchar(0, Head(out))
    /\ out' = Tail(out)
    /\ UNCHANGED <<port, down, shift_held, line, shell, count, home>>

prompt_end ==
    /\ shell = "puts" /\ out = <<>> /\ At(0, "out")
    /\ shell' = "readline"
    /\ home' = IF AllOut THEN cursor_col ELSE -1
    /\ UNCHANGED <<cvars, port, down, shift_held, line, out, count>>

\* task_a, task_b and the threads of the demos.
task(p) ==
    /\ count[p] < Len(MESSAGE)
    /\ count' = [count EXCEPT ![p] = @ + 1]
    /\ vga_putchar(p, MESSAGE[count[p] + 1])
    /\ home' = -1
    /\ UNCHANGED <<port, down, shift_held, line, shell, out>>

TerminalNext ==
    \/ \E key \in Key : press(key) \/ release(key)
    \/ kb_readline
    \/ shell_run \/ vga_puts \/ prompt_end
    \/ \E p \in Tasks : task(p)
    \/ \E p \in Printer : Continue(p) /\ UNCHANGED tvars

TerminalSpec == TerminalInit /\ [][TerminalNext]_vars

-----------------------------------------------------------------------------
\* The keyboard's and the shell's variables have their types; the line stays
\* in its buffer.
TerminalTypeOK ==
    /\ ConsoleTypeOK
    /\ port \in Seq(Byte)
    /\ down \subseteq Shift /\ shift_held \in BOOLEAN
    /\ line \in Seq(Char) /\ Len(line) < LINE
    /\ shell \in {"puts", "readline", "obey"}
    /\ out \in Seq(Char)
    /\ count \in [Printer -> Nat]
    /\ home \in Col \cup {-1}

(***************************************************************************)
(* What the user sees behind the prompt is what the shell is going to get: *)
(* the echo and the buffer agree, and the cursor stands behind them,       *)
(* however letters and backspaces follow each other.  (The history home    *)
(* excludes lines with a tab, lines as long as the rest of the row, and    *)
(* lines into which another process prints.)                               *)
(***************************************************************************)
EchoMatchesBuffer ==
    shell = "readline" /\ home # -1 /\ At(0, "out") =>
        /\ cursor_col = home + Len(line)
        /\ \A i \in 1 .. Len(line) : screen[<<cursor_row, home + i - 1>>] = line[i]

(***************************************************************************)
(* Once the driver has seen every byte, capitals are typed only while a    *)
(* shift key is down: shift never gets stuck, in whatever order the two    *)
(* shift keys go down, repeat and come up.                                 *)
(***************************************************************************)
ShiftIsDown == shift_held /\ port = <<>> => down \cap Shift # {}
=============================================================================
