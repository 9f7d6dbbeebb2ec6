------------------------------ MODULE ShellStore ------------------------------
(***************************************************************************)
(* What the user of the shell is promised: named texts that change only    *)
(* when a command has been obeyed, each command as a whole.                *)
(***************************************************************************)
EXTENDS Integers, Sequences

CONSTANTS Name, Texts

VARIABLES files,     \* name -> text
          shown,     \* what the last cat has printed
          command    \* the command being obeyed

pvars == <<files, shown, command>>

NoCommand == [cmd |-> "none"]

PromptInit == files = <<>> /\ shown = <<>> /\ command = NoCommand

Type(cmd, name, text) ==
    /\ command = NoCommand
    /\ command' = [cmd |-> cmd, name |-> name, text |-> text]
    /\ shown' = <<>>
    /\ UNCHANGED files

Known == command.name \in DOMAIN files

\* The files with text under the name of the command.
Saved(text) == [n \in DOMAIN files \cup {command.name} |->
                  IF n = command.name THEN text ELSE files[n]]

\* touch makes an empty file; it may find no room for it.
Touch ==
    /\ command.cmd = "touch"
    /\ \/ ~Known /\ files' = Saved(<<>>)
       \/ UNCHANGED files
    /\ UNCHANGED shown

\* write puts the text, or as much of its beginning as there is room for, in
\* place of what the file held.  What was held before makes room: an existing
\* file is always replaced, and its length at least is there again.
Write ==
    /\ command.cmd = "write"
    /\ \/ \E n \in 0 .. Len(command.text) :
            /\ Known => n >= Len(command.text) \/ n >= Len(files[command.name])
            /\ files' = Saved(SubSeq(command.text, 1, n))
       \/ ~Known /\ UNCHANGED files
    /\ UNCHANGED shown

Remove ==
    /\ command.cmd = "rm"
    /\ files' = [n \in DOMAIN files \ {command.name} |-> files[n]]
    /\ UNCHANGED shown

\* cat prints the whole text.
Cat ==
    /\ command.cmd = "cat"
    /\ shown' = IF Known THEN files[command.name] ELSE <<>>
    /\ UNCHANGED files

Obey == command # NoCommand /\ (Touch \/ Write \/ Remove \/ Cat) /\ command' = NoCommand

PromptNext ==
    \/ \E cmd \in {"touch", "write", "rm", "cat"}, n \in Name, t \in Texts : Type(cmd, n, t)
    \/ Obey

PromptSpec == PromptInit /\ [][PromptNext]_pvars
=============================================================================
