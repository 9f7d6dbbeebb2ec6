-------------------------------- MODULE Shell --------------------------------
(***************************************************************************)
(* The shell's file commands (kernel/kernel.c) on top of FileSystem: the   *)
(* calls each of them makes, one at a time, and what it does when one of   *)
(* them fails.  Calls that fail change nothing in FileSystem; here their   *)
(* caller sees the failure and goes on.                                    *)
(*                                                                         *)
(* A command line is a command, a name and, for write, a text.  write cuts *)
(* a name after FS_MAX_NAME - 1 characters, and the characters cut off     *)
(* become the beginning of its text.                                       *)
(***************************************************************************)
EXTENDS FileSystem

CONSTANTS Texts,       \* what is typed behind the name in write
          Cut,         \* the name that a long name begins with
          Rest,        \* what is left of a long name, with the space behind it
          CAT_BYTES    \* what cat reads at once, 255

ASSUME ShellAssumption ==
    /\ Cut \in [LongName -> Name \ LongName]
    /\ Texts \cup {Rest \o text : text \in Texts} \subseteq Buffers
    /\ CAT_BYTES \in Counts \ {0}

VARIABLES job,      \* the command and where it is; at = "prompt" between commands
          shown,    \* what cat has printed
          before    \* history: the files when the command was typed

shvars == <<job, shown, before>>
vars   == <<fsvars, shvars>>

Request  == [cmd : {"touch", "rm", "cat"}, name : Name, text : {<< >>}]
              \cup [cmd : {"write"}, name : Name, text : Texts]
AtPrompt == job.at = "prompt"
Prompt   == [cmd |-> "none", name |-> NoName, text |-> << >>, at |-> "prompt", fd |-> 0]

ShellInit ==
    /\ fs_init
    /\ job = Prompt /\ shown = << >>
    /\ before = << >>

-----------------------------------------------------------------------------
\* Which calls succeed.
Creatable(name) == /\ name \notin LongName /\ find_dirent(name) = {}
                   /\ FreeInodes # {} /\ \E e \in Entry : ~root_dir[e].used
Openable(name)  == find_dirent(name) # {} /\ FreeFds # {}
Removable(name) == /\ find_dirent(name) # {}
                   /\ \A h \in Fd : fds[h].used => fds[h].inode # Named(name)

Go(place) == /\ job' = IF place = "prompt" THEN Prompt ELSE [job EXCEPT !.at = place]
             /\ UNCHANGED <<shown, before>>

\* A call, and where the command goes on when it succeeds or fails.
Call(from, able, Act, next, otherwise) ==
    /\ job.at = from
    /\ IF able THEN Act /\ Go(next) ELSE UNCHANGED fsvars /\ Go(otherwise)

\* fs_open, with the descriptor it returns.
Open(from, next, otherwise) ==
    /\ job.at = from
    /\ IF Openable(job.name)
         THEN /\ fs_open(job.name)
              /\ \E h \in Fd : First(h, FreeFds) /\ job' = [job EXCEPT !.at = next, !.fd = h]
              /\ UNCHANGED <<shown, before>>
         ELSE UNCHANGED fsvars /\ Go(otherwise)

-----------------------------------------------------------------------------
\* Where each command begins.
Start(cmd) == CASE cmd = "touch" -> "touch" [] cmd = "rm" -> "rm"
                [] cmd = "cat" -> "cat open" [] cmd = "write" -> "test"

\* Fault: write takes the name as it is.
ParsedUncut(r) == r

\* What a command makes of its line.
Parsed(r) == IF r.cmd = "write" /\ r.name \in LongName
               THEN [r EXCEPT !.name = Cut[r.name], !.text = Rest \o @] ELSE r

shell_run(r) ==
    /\ AtPrompt
    /\ LET line == Parsed(r) IN
         job' = [cmd |-> line.cmd, name |-> line.name, text |-> line.text,
                 at |-> Start(line.cmd), fd |-> 0]
    /\ shown' = << >>
    /\ before' = Stored
    /\ UNCHANGED fsvars

cmd_fs_touch == Call("touch", Creatable(job.name), fs_create(job.name), "prompt", "prompt")
cmd_fs_rm    == Call("rm", Removable(job.name), fs_unlink(job.name), "prompt", "prompt")

close == Call("close", TRUE, fs_close(job.fd), "prompt", "prompt")

-----------------------------------------------------------------------------
\* cat: reads until fs_read returns 0.
Readable == IsFile(job.fd) /\ fds[job.fd].offset < inodes[fds[job.fd].inode].size

\* Fault: cat goes on when fs_read has returned 0.
CatNeverEnds == Call("read", Readable, fs_read(job.fd, CAT_BYTES), "reading", "read")

cat_read == Call("read", Readable, fs_read(job.fd, CAT_BYTES), "reading", "close")

cat_reading ==
    /\ job.at = "reading"
    /\ \/ fs_read_block /\ UNCHANGED shvars
       \/ /\ fs_read_return
          /\ shown' = shown \o out
          /\ job' = [job EXCEPT !.at = IF out = << >> THEN "close" ELSE "read"]
          /\ UNCHANGED before

cmd_fs_cat == Open("cat open", "read", "prompt") \/ cat_read \/ cat_reading

-----------------------------------------------------------------------------
\* write: removes the file if it can be opened, creates it and writes it.
write_test == Open("test", "test close", "create")

\* Fault: the descriptor of the test is not closed.
TestKeptOpen == Call("test close", FALSE, fs_close(job.fd), "unlink", "unlink")

write_test_close == Call("test close", TRUE, fs_close(job.fd), "unlink", "unlink")

\* Fault: the old file is left in place.
UnlinkSkipped == Call("unlink", FALSE, fs_unlink(job.name), "create", "create")

write_unlink == Call("unlink", Removable(job.name), fs_unlink(job.name), "create", "create")
write_create == Call("create", Creatable(job.name), fs_create(job.name), "open", "prompt")
write_open   == Open("open", "write", "prompt")
write_start  == Call("write", IsFile(job.fd), fs_write(job.fd, job.text), "writing", "close")

write_writing ==
    /\ job.at = "writing"
    /\ \/ fs_write_block /\ UNCHANGED shvars
       \/ fs_write_return /\ Go("close")

cmd_fs_write ==
    \/ write_test \/ write_test_close \/ write_unlink
    \/ write_create \/ write_open \/ write_start \/ write_writing

Command == cmd_fs_touch \/ cmd_fs_rm \/ cmd_fs_cat \/ cmd_fs_write \/ close

ShellNext ==
    \/ \E r \in Request : shell_run(r)
    \/ Command

ShellSpec == ShellInit /\ [][ShellNext]_vars

\* The shell goes on with the command it obeys.
FairShellSpec == ShellSpec /\ WF_vars(Command)
-----------------------------------------------------------------------------
Places == {"prompt", "touch", "rm", "cat open", "read", "reading", "close", "test",
           "test close", "unlink", "create", "open", "write", "writing"}

\* The command line has its type: the name write works on fits its buffer.
ShellTypeOK ==
    /\ job.at \in Places /\ job.fd \in Fd
    /\ AtPrompt \/ (job.name \in Name /\ job.text \in Buffers \cup {<< >>})
    /\ job.cmd = "write" => job.name \notin LongName
    /\ shown \in Seq(Byte)

(***************************************************************************)
(* A command leaves no descriptor open, in whichever of its calls it       *)
(* fails, and while it runs it has one open at most: it never runs out.    *)
(***************************************************************************)
NothingLeftOpen ==
    LET open == {h \in Fd : fds[h].used} IN
    IF job.at \in {"read", "reading", "close", "test close", "write", "writing"}
      THEN open = {job.fd} ELSE open = {}

(***************************************************************************)
(* The user sees whole commands: write replaces a file by the text or its  *)
(* beginning, and by no less than was there; a write that fails half way   *)
(* loses no name; cat prints all of a file; nothing happens to the others. *)
(***************************************************************************)
Promise == INSTANCE ShellStore WITH
    Texts <- Buffers \cup {<< >>},
    files <- IF AtPrompt THEN Stored ELSE before,
    shown <- IF AtPrompt THEN shown ELSE << >>,
    command <- IF AtPrompt THEN [cmd |-> "none"]
               ELSE [cmd |-> job.cmd, name |-> job.name, text |-> job.text]

ImplementsShell == Promise!PromptSpec

\* Every command comes back to the prompt: the loops of cat and write end.
PromptReturns == ~AtPrompt ~> AtPrompt
=============================================================================
