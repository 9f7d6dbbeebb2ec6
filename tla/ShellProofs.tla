----------------------------- MODULE ShellProofs -----------------------------
(***************************************************************************)
(* Proofs about Shell, for every set of names and texts: a command is a    *)
(* sequence of calls of FileSystem, whose theorems therefore hold between  *)
(* and during commands; every command closes what it opens; and to its     *)
(* user the shell is ShellStore, where commands are obeyed as a whole.     *)
(***************************************************************************)
EXTENDS Shell, StoreProofs, FiniteSetTheorems

Commands == {"none", "touch", "rm", "cat", "write"}
Jobs     == [cmd : Commands, name : Name \cup {NoName}, text : Buffers \cup {<< >>},
             at : Places, fd : Fd]

WritePlaces == {"test", "test close", "unlink", "create", "open", "write", "writing"}
OpenPlaces  == {"read", "reading", "close", "test close", "write", "writing"}

\* The command line: outside the prompt there is a name, on the way through
\* write also a text, and write's name fits its buffer.
JobOK ==
    /\ job \in Jobs
    /\ job.at # "prompt" => job.name \in Name
    /\ job.at \in WritePlaces => job.text \in Buffers
    /\ job.cmd = "write" => job.name \notin LongName

OpenFds == {h \in Fd : fds[h].used}

\* NothingLeftOpen, by places.
OpenOK == OpenFds = IF job.at \in OpenPlaces THEN {job.fd} ELSE {}

\* The inductive invariant, without FsInv, which comes from FileSystem.
ShellInv == JobOK /\ shown \in Seq(Byte) /\ OpenOK

-----------------------------------------------------------------------------
\* The shell begins at its prompt with an empty disk.
LEMMA ShellInitInv == ShellInit => ShellInv
<1> SUFFICES ASSUME ShellInit PROVE ShellInv
  OBVIOUS
<1>1. JobOK
  BY FsConstants DEF ShellInit, Prompt, JobOK, Jobs, Commands, Places, WritePlaces
<1>2. shown \in Seq(Byte)
  BY DEF ShellInit
<1>3. OpenOK
  BY DEF ShellInit, fs_init, ZeroFd, OpenOK, OpenFds, Prompt, OpenPlaces
<1> QED BY <1>1, <1>2, <1>3 DEF ShellInv

\* Going on to another place of the same command, or back to the prompt.
LEMMA GoKeepsJob ==
    ASSUME JobOK, NEW place \in Places, Go(place),
           job.at # "prompt",
           place \in WritePlaces => job.at \in WritePlaces
    PROVE  /\ JobOK' /\ job'.at = place /\ shown' = shown
           /\ place # "prompt" => job'.fd = job.fd
<1>1. CASE place = "prompt"
  BY <1>1, FsConstants DEF Go, Prompt, JobOK, Jobs, Commands, Places, WritePlaces
<1>2. CASE place # "prompt"
  <2>1. job' = [job EXCEPT !.at = place] /\ shown' = shown
    BY <1>2 DEF Go
  <2>2. /\ job'.cmd = job.cmd /\ job'.name = job.name /\ job'.text = job.text
        /\ job'.at = place /\ job'.fd = job.fd /\ job' \in Jobs
    BY <2>1 DEF JobOK, Jobs
  <2> QED BY <1>2, <2>1, <2>2 DEF JobOK
<1> QED BY <1>1, <1>2

\* The command line typed, as the command takes it.
LEMMA RunKeepsInv ==
    ASSUME ShellInv, NEW r \in Request, shell_run(r)
    PROVE  ShellInv' /\ UNCHANGED fsvars
<1> DEFINE line == Parsed(r)
<1>1. /\ r.cmd \in {"touch", "rm", "cat", "write"} /\ r.name \in Name
      /\ r.text \in Texts \cup {<< >>} /\ (r.cmd = "write" => r.text \in Texts)
  BY DEF Request
<1>2. /\ line.cmd = r.cmd /\ line.name \in Name /\ line.text \in Buffers \cup {<< >>}
      /\ r.cmd = "write" => line.text \in Buffers /\ line.name \notin LongName
  <2>1. CASE r.cmd = "write" /\ r.name \in LongName
    <3>1. line = [r EXCEPT !.name = Cut[r.name], !.text = Rest \o @]
      BY <2>1 DEF Parsed
    <3>2. line.cmd = r.cmd /\ line.name = Cut[r.name] /\ line.text = Rest \o r.text
      BY <2>1, <3>1 DEF Request
    <3>3. Cut[r.name] \in Name \ LongName /\ Rest \o r.text \in Buffers
      BY <1>1, <2>1, ShellAssumption
    <3> QED BY <3>2, <3>3
  <2>2. CASE ~(r.cmd = "write" /\ r.name \in LongName)
    BY <1>1, <2>2, ShellAssumption DEF Parsed
  <2> QED BY <2>1, <2>2
<1>3. /\ job' = [cmd |-> line.cmd, name |-> line.name, text |-> line.text,
                 at |-> Start(line.cmd), fd |-> 0]
      /\ shown' = << >> /\ UNCHANGED fsvars /\ job.at = "prompt"
  BY DEF shell_run, AtPrompt
<1>4. /\ Start(line.cmd) \in {"touch", "rm", "cat open", "test"}
      /\ Start(line.cmd) = "test" => r.cmd = "write"
  BY <1>1, <1>2 DEF Start
<1> HIDE DEF line
<1>5. JobOK'
  BY <1>1, <1>2, <1>3, <1>4, FsConstants DEF JobOK, Jobs, Commands, Places, WritePlaces
<1>6. OpenOK'
  BY <1>3, <1>4 DEF ShellInv, OpenOK, OpenFds, OpenPlaces, fsvars
<1> QED BY <1>3, <1>5, <1>6 DEF ShellInv

\* A call that leaves the descriptors as they were, or fails, between places
\* that have the same one open.
LEMMA SameFdsKeepInv ==
    ASSUME ShellInv, NEW place \in Places, Go(place), job.at # "prompt",
           place \in WritePlaces => job.at \in WritePlaces,
           OpenFds' = OpenFds,
           job.at \in OpenPlaces <=> place \in OpenPlaces
    PROVE  ShellInv'
<1>1. JobOK' /\ job'.at = place /\ shown' = shown /\ (place # "prompt" => job'.fd = job.fd)
  BY GoKeepsJob DEF ShellInv
<1>2. OpenOK'
  BY <1>1 DEF ShellInv, OpenOK, OpenPlaces
<1> QED BY <1>1, <1>2 DEF ShellInv

\* fs_open returns the descriptor it opens, and none was open before.
LEMMA OpenKeepsInv ==
    ASSUME ShellInv, FsTypeOK, NEW from \in Places \ (OpenPlaces \cup {"prompt"}),
           NEW next \in OpenPlaces, NEW otherwise \in Places \ OpenPlaces,
           Open(from, next, otherwise),
           next \in WritePlaces => from \in WritePlaces,
           otherwise \in WritePlaces => from \in WritePlaces
    PROVE  ShellInv' /\ (UNCHANGED fsvars \/ fs_open(job.name))
<1>1. job.at = from /\ JobOK /\ OpenFds = {}
  BY DEF Open, ShellInv, OpenOK
<1>2. CASE Openable(job.name)
  <2>1. PICK h \in Fd : /\ First(h, FreeFds)
                        /\ job' = [job EXCEPT !.at = next, !.fd = h]
    BY <1>2 DEF Open
  <2>2. fs_open(job.name) /\ shown' = shown
    BY <1>2 DEF Open
  <2>3. PICK e \in Entry, g \in Fd :
           /\ First(g, FreeFds)
           /\ fds' = [fds EXCEPT ![g] = [used |-> TRUE, inode |-> root_dir[e].inode, offset |-> 0]]
    BY <2>2 DEF fs_open
  <2>4. g = h
    BY <2>1, <2>3 DEF First, Fd, FreeFds
  <2>5. fds \in [Fd -> FdRecs]
    BY TypeIs DEF Types
  <2>6. OpenFds' = {h}
    BY <1>1, <2>3, <2>4, <2>5 DEF OpenFds
  <2>7. /\ job'.cmd = job.cmd /\ job'.name = job.name /\ job'.text = job.text
        /\ job'.at = next /\ job'.fd = h /\ job' \in Jobs
    BY <1>1, <2>1 DEF JobOK, Jobs, OpenPlaces, Places
  <2>8. JobOK'
    BY <1>1, <2>7 DEF JobOK
  <2> QED BY <2>2, <2>6, <2>7, <2>8 DEF ShellInv, OpenOK
<1>3. CASE ~Openable(job.name)
  <2>1. UNCHANGED fsvars /\ Go(otherwise)
    BY <1>3 DEF Open
  <2>2. OpenFds' = OpenFds
    BY <2>1 DEF OpenFds, fsvars
  <2> QED BY <1>1, <2>1, <2>2, SameFdsKeepInv
<1> QED BY <1>2, <1>3

\* fs_close closes the descriptor the command has open, whichever place follows.
LEMMA CloseKeepsInv ==
    ASSUME ShellInv, FsTypeOK, NEW place \in Places \ OpenPlaces,
           job.at \in OpenPlaces, fs_close(job.fd), Go(place),
           place \in WritePlaces => job.at \in WritePlaces
    PROVE  ShellInv'
<1>1. JobOK /\ OpenFds = {job.fd} /\ job.at # "prompt" /\ job.fd \in Fd
  BY DEF ShellInv, OpenOK, JobOK, Jobs, OpenPlaces
<1>2. fds' = [fds EXCEPT ![job.fd] = ZeroFd]
  BY DEF fs_close
<1>3. fds \in [Fd -> FdRecs]
  BY TypeIs DEF Types
<1>4. OpenFds' = {}
  BY <1>1, <1>2, <1>3 DEF OpenFds, ZeroFd
<1>5. JobOK' /\ job'.at = place /\ shown' = shown
  BY <1>1, GoKeepsJob
<1> QED BY <1>4, <1>5 DEF ShellInv, OpenOK

\* Calls that do not touch descriptors' used bits.
LEMMA FdsStay ==
    ASSUME FsTypeOK,
           \/ UNCHANGED fsvars
           \/ fs_create(job.name) \/ fs_unlink(job.name)
           \/ fs_read(job.fd, CAT_BYTES) \/ fs_write(job.fd, job.text)
           \/ fs_read_block \/ fs_read_return \/ fs_write_block \/ fs_write_return
    PROVE  OpenFds' = OpenFds
<1>1. fds \in [Fd -> FdRecs] /\ call \in Calls
  BY TypeIs DEF Types
<1>2. CASE fds' = fds
  BY <1>2 DEF OpenFds
<1>3. CASE fds' = Advanced
  <2>1. call.fd \in Fd
    BY <1>1 DEF Calls
  <2>2. \A h \in Fd : fds'[h].used = fds[h].used
    BY <1>1, <1>3, <2>1 DEF Advanced, FdRecs
  <2> QED BY <2>2 DEF OpenFds
<1>4. fds' = fds \/ fds' = Advanced
  BY DEF fsvars, fs_create, fs_unlink, fs_read, fs_write, fs_read_block, fs_read_return,
     fs_write_block, fs_write_return
<1> QED BY <1>2, <1>3, <1>4

-----------------------------------------------------------------------------
\* touch and rm, a call each.
LEMMA TouchRmKeepInv ==
    ASSUME ShellInv, FsTypeOK, cmd_fs_touch \/ cmd_fs_rm
    PROVE  ShellInv' /\ [FsNext]_fsvars
<1>1. JobOK
  BY DEF ShellInv
<1>2. CASE cmd_fs_touch
  <2>1. /\ job.at = "touch" /\ Go("prompt")
        /\ UNCHANGED fsvars \/ fs_create(job.name)
    BY <1>2 DEF cmd_fs_touch, Call
  <2>2. "prompt" \in Places /\ "prompt" \notin WritePlaces /\ "prompt" \notin OpenPlaces
    BY DEF Places, WritePlaces, OpenPlaces
  <2>3. ShellInv'
    BY <2>1, <2>2, FdsStay, SameFdsKeepInv DEF OpenPlaces
  <2>4. job.name \in Name
    BY <1>1, <2>1 DEF JobOK
  <2> QED BY <2>1, <2>3, <2>4 DEF FsNext
<1>3. CASE cmd_fs_rm
  <2>1. /\ job.at = "rm" /\ Go("prompt")
        /\ UNCHANGED fsvars \/ fs_unlink(job.name)
    BY <1>3 DEF cmd_fs_rm, Call
  <2>2. "prompt" \in Places /\ "prompt" \notin WritePlaces /\ "prompt" \notin OpenPlaces
    BY DEF Places, WritePlaces, OpenPlaces
  <2>3. ShellInv'
    BY <2>1, <2>2, FdsStay, SameFdsKeepInv DEF OpenPlaces
  <2>4. job.name \in Name
    BY <1>1, <2>1 DEF JobOK
  <2> QED BY <2>1, <2>3, <2>4 DEF FsNext
<1> QED BY <1>2, <1>3

\* cat: open, read until nothing is left.
LEMMA CatKeepsInv ==
    ASSUME ShellInv, FsTypeOK, cmd_fs_cat
    PROVE  ShellInv' /\ [FsNext]_fsvars
<1>1. JobOK /\ shown \in Seq(Byte) /\ OpenOK
  BY DEF ShellInv
<1>2. CASE Open("cat open", "read", "prompt")
  <2>1. ShellInv' /\ (UNCHANGED fsvars \/ fs_open(job.name))
    BY <1>2, OpenKeepsInv DEF Places, OpenPlaces, WritePlaces
  <2>2. job.name \in Name
    BY <1>1, <1>2 DEF Open, JobOK
  <2> QED BY <2>1, <2>2 DEF FsNext
<1>3. CASE cat_read
  <2>1. PICK place \in {"reading", "close"} :
           /\ job.at = "read" /\ Go(place)
           /\ UNCHANGED fsvars \/ fs_read(job.fd, CAT_BYTES)
    BY <1>3 DEF cat_read, Call
  <2>2. place \in Places \cap OpenPlaces /\ place \notin WritePlaces
    BY DEF Places, WritePlaces, OpenPlaces
  <2>3. ShellInv'
    BY <2>1, <2>2, FdsStay, SameFdsKeepInv DEF OpenPlaces
  <2>4. job.fd \in Fd /\ CAT_BYTES \in Counts
    BY <1>1, ShellAssumption DEF JobOK, Jobs
  <2> QED BY <2>1, <2>3, <2>4 DEF FsNext
<1>4. CASE cat_reading
  <2>1. job.at = "reading" /\ (fs_read_block \/ fs_read_return)
    BY <1>4 DEF cat_reading
  <2>2. OpenFds' = OpenFds
    BY <2>1, FdsStay
  <2>3. CASE UNCHANGED shvars
    BY <1>1, <2>1, <2>2, <2>3 DEF shvars, ShellInv, JobOK, OpenOK, FsNext
  <2>4. CASE /\ shown' = shown \o out
             /\ job' = [job EXCEPT !.at = IF out = << >> THEN "close" ELSE "read"]
    <3>1. shown' \in Seq(Byte)
      BY <1>1, <2>4, TypeIs DEF Types
    <3>2. /\ job'.cmd = job.cmd /\ job'.name = job.name /\ job'.text = job.text
          /\ job'.at \in {"close", "read"} /\ job'.fd = job.fd /\ job' \in Jobs
      BY <1>1, <2>4 DEF JobOK, Jobs, Places
    <3>3. JobOK' /\ OpenOK'
      BY <1>1, <2>1, <2>2, <3>2 DEF JobOK, OpenOK, WritePlaces, OpenPlaces
    <3> QED BY <2>1, <3>1, <3>3 DEF ShellInv, FsNext
  <2> QED BY <1>4, <2>3, <2>4 DEF cat_reading
<1> QED BY <1>2, <1>3, <1>4 DEF cmd_fs_cat

\* The end of cat and of write.
LEMMA EndKeepsInv ==
    ASSUME ShellInv, FsTypeOK, close
    PROVE  ShellInv' /\ [FsNext]_fsvars
<1>1. job.at = "close" /\ fs_close(job.fd) /\ Go("prompt")
  BY DEF close, Call
<1>2. ShellInv'
  BY <1>1, CloseKeepsInv DEF Places, OpenPlaces, WritePlaces
<1>3. job.fd \in Fd
  BY DEF ShellInv, JobOK, Jobs
<1> QED BY <1>1, <1>2, <1>3 DEF FsNext

\* write: test, close, unlink, create, open and write.
LEMMA WriteKeepsInv ==
    ASSUME ShellInv, FsTypeOK, cmd_fs_write
    PROVE  ShellInv' /\ [FsNext]_fsvars
<1>1. JobOK /\ OpenOK /\ job.fd \in Fd
  BY DEF ShellInv, JobOK, Jobs
<1>2. /\ {"test close", "unlink", "create", "open", "write", "writing", "close", "prompt"} \subseteq Places
      /\ {"unlink", "create", "open", "prompt"} \cap OpenPlaces = {}
  BY DEF Places, OpenPlaces
<1>3. CASE write_test \/ write_open
  <2>1. ShellInv' /\ (UNCHANGED fsvars \/ fs_open(job.name)) /\ job.at # "prompt"
    BY <1>3, OpenKeepsInv DEF write_test, write_open, Open, Places, OpenPlaces, WritePlaces
  <2>2. job.name \in Name
    BY <1>1, <2>1 DEF JobOK
  <2> QED BY <2>1, <2>2 DEF FsNext
<1>4. CASE write_test_close
  <2>1. job.at = "test close" /\ fs_close(job.fd) /\ Go("unlink")
    BY <1>4 DEF write_test_close, Call
  <2>2. ShellInv'
    BY <2>1, CloseKeepsInv DEF Places, OpenPlaces, WritePlaces
  <2> QED BY <1>1, <2>1, <2>2 DEF FsNext
<1>5. CASE write_unlink \/ write_create
  <2>1. PICK place \in {"create", "open", "prompt"} :
           /\ job.at \in {"unlink", "create"} /\ Go(place)
           /\ UNCHANGED fsvars \/ fs_unlink(job.name) \/ fs_create(job.name)
    BY <1>5 DEF write_unlink, write_create, Call
  <2>2. ShellInv'
    BY <1>2, <2>1, FdsStay, SameFdsKeepInv DEF OpenPlaces, WritePlaces
  <2>3. job.name \in Name
    BY <1>1, <2>1 DEF JobOK
  <2> QED BY <2>1, <2>2, <2>3 DEF FsNext
<1>6. CASE write_start
  <2>1. PICK place \in {"writing", "close"} :
           /\ job.at = "write" /\ Go(place)
           /\ UNCHANGED fsvars \/ fs_write(job.fd, job.text)
    BY <1>6 DEF write_start, Call
  <2>2. ShellInv'
    BY <1>2, <2>1, FdsStay, SameFdsKeepInv DEF OpenPlaces, WritePlaces
  <2>3. job.text \in Buffers
    BY <1>1, <2>1 DEF JobOK, WritePlaces
  <2> QED BY <1>1, <2>1, <2>2, <2>3 DEF FsNext
<1>7. CASE write_writing
  <2>1. job.at = "writing" /\ (fs_write_block \/ fs_write_return)
    BY <1>7 DEF write_writing
  <2>2. OpenFds' = OpenFds
    BY <2>1, FdsStay
  <2>3. CASE UNCHANGED shvars
    BY <1>1, <2>1, <2>2, <2>3 DEF shvars, ShellInv, JobOK, OpenOK, FsNext
  <2>4. CASE Go("close")
    BY <1>2, <2>1, <2>2, <2>4, SameFdsKeepInv DEF OpenPlaces, WritePlaces, FsNext
  <2> QED BY <1>7, <2>3, <2>4 DEF write_writing
<1> QED BY <1>3, <1>4, <1>5, <1>6, <1>7 DEF cmd_fs_write

-----------------------------------------------------------------------------
\* Every step of the shell keeps the invariant and is one of FileSystem, or
\* does not touch it.
LEMMA ShellStep ==
    ASSUME ShellInv, FsTypeOK, [ShellNext]_vars
    PROVE  ShellInv' /\ [FsNext]_fsvars
<1>1. CASE UNCHANGED vars
  BY <1>1 DEF vars, shvars, fsvars, ShellInv, JobOK, OpenOK, OpenFds
<1>2. CASE \E r \in Request : shell_run(r)
  BY <1>2, RunKeepsInv
<1>3. CASE Command
  BY <1>3, TouchRmKeepInv, CatKeepsInv, EndKeepsInv, WriteKeepsInv DEF Command
<1> QED BY <1>1, <1>2, <1>3 DEF ShellNext

\* Both invariants together.
LEMMA ShellAlways == ShellSpec => [](ShellInv /\ FsInv)
<1>1. ShellInit => ShellInv /\ FsInv
  BY ShellInitInv, FsInitInv DEF ShellInit
<1>2. ShellInv /\ FsInv /\ [ShellNext]_vars => (ShellInv /\ FsInv)'
  BY ShellStep, FsNextInv DEF FsInv
<1> QED BY <1>1, <1>2, PTL DEF ShellSpec

\* The shell uses the file system as FileSystem has it: what is proved there
\* holds of every sequence of commands, those that fail half way included.
THEOREM ShellUsesFileSystem == ShellSpec => FsSpec
<1>1. ShellInit => fs_init
  BY DEF ShellInit
<1>2. ShellInv /\ FsInv /\ [ShellNext]_vars => [FsNext]_fsvars
  BY ShellStep DEF FsInv
<1> QED BY <1>1, <1>2, ShellAlways, PTL DEF ShellSpec, FsSpec

\* The command line keeps its type: in particular the name write works on,
\* cut out of a longer one or not, fits its buffer.
THEOREM ShellTypeCorrect == ShellSpec => []ShellTypeOK
<1>1. ShellInv => ShellTypeOK
  BY DEF ShellInv, JobOK, Jobs, ShellTypeOK, AtPrompt
<1> QED BY <1>1, ShellAlways, PTL

\* Whichever of its calls fails, a command closes the descriptor it opened, and
\* it never has two.
THEOREM CommandsClose == ShellSpec => []NothingLeftOpen
<1>1. ShellInv => NothingLeftOpen
  BY DEF ShellInv, OpenOK, OpenFds, OpenPlaces, NothingLeftOpen
<1> QED BY <1>1, ShellAlways, PTL

-----------------------------------------------------------------------------
(***************************************************************************)
(* Commands as a whole.  Tale says, at each place of a command, what has   *)
(* become of the files there were when it was typed.                       *)
(***************************************************************************)
CommandAt ==
    /\ job.at = "touch" => job.cmd = "touch"
    /\ job.at = "rm" => job.cmd = "rm"
    /\ job.at \in {"cat open", "read", "reading"} => job.cmd = "cat"
    /\ job.at \in WritePlaces => job.cmd = "write"
    /\ job.at = "close" => job.cmd \in {"cat", "write"}

\* Nothing is printed but by cat.
NothingShown ==
    (job.cmd # "cat" /\ job.at # "prompt") \/ job.at = "cat open" => shown = << >>

\* No call is under way, and what was read has been taken.
Quiet == Pending = Store!NoJob /\ out = << >>

Existed     == job.name \in DOMAIN before
Untouched   == Stored = before
Positioned(k) == Handles[job.fd].name = job.name /\ Handles[job.fd].offset = k

\* The file is there with the first k bytes of the text.
Told(k) == /\ k \in 0 .. Len(job.text)
           /\ Stored = Store!With(before, job.name, SubSeq(job.text, 1, k))

\* The file has its first q blocks, and what was there before had no more than
\* these and the free ones together can hold.
Blocks(q) == \A s \in Slot : inodes[Ino].blocks[s] # 0 <=> s < q
Room(q)   == Existed => /\ Len(before[job.name]) \in 0 .. MaxBytes
                        /\ Len(before[job.name]) <= (q + Cardinality(FreeBlocks)) * FS_BLOCK_SIZE

\* A file that was removed has left an inode and an entry for the new one.
Removed == /\ Stored = Store!Without(before, job.name) /\ Room(0)
           /\ ~Existed => Stored = before
           /\ Existed => FreeInodes # {} /\ \E e \in Entry : ~root_dir[e].used

Writing == /\ Told(Pos) /\ Positioned(Pos) /\ out = << >>
           /\ call.op = "write" /\ call.fd = job.fd /\ call.buf = job.text /\ call.done = Pos
           /\ call.count = Smaller(Len(job.text), MaxBytes)
           /\ \E q \in Nat : Blocks(q) /\ Room(q)

Written == \E k \in 0 .. Len(job.text) :
              Told(k) /\ (Existed => k >= Len(job.text) \/ k >= Len(before[job.name]))

\* cat has printed, or is about to print, the file up to the descriptor's position.
Reading(seen) ==
    /\ Untouched /\ Existed /\ Handles[job.fd].name = job.name
    /\ seen = SubSeq(before[job.name], 1, Handles[job.fd].offset)

Fetching == /\ Reading(shown \o out) /\ Pending.op = "read" /\ Pending.fd = job.fd
            /\ Len(out) + Pending.left > 0

Tale ==
    /\ CommandAt /\ NothingShown
    /\ job.at \notin {"reading", "writing"} => Quiet
    /\ job.at \in {"touch", "rm", "cat open", "test"} => Untouched
    /\ job.at \in {"test close", "unlink"} => Untouched /\ Existed
    /\ job.at = "create" => Removed
    /\ job.at = "open" => Told(0) /\ Room(0)
    /\ job.at = "write" => Told(0) /\ Room(0) /\ Positioned(0)
    /\ job.at = "writing" => Writing
    /\ job.at = "read" => Reading(shown)
    /\ job.at = "reading" => Fetching
    /\ job.at = "close" /\ job.cmd = "cat" => Untouched /\ Existed /\ shown = before[job.name]
    /\ job.at = "close" /\ job.cmd = "write" => Written

-----------------------------------------------------------------------------
\* The files, as the directory has them.
LEMMA FilesAre ==
    ASSUME StoreInv
    PROVE  /\ Stored = [n \in DOMAIN Stored |-> Stored[n]] /\ DOMAIN Stored \subseteq Name
           /\ \A n \in Name : n \in DOMAIN Stored <=> find_dirent(n) # {}
           /\ \A n \in DOMAIN Stored : Stored[n] \in Seq(Byte) /\ Len(Stored[n]) \in Nat
           /\ DOMAIN Handles = OpenFds
<1>1. DOMAIN Stored = {m \in Name : find_dirent(m) # {}} /\ Stored = [n \in DOMAIN Stored |-> Stored[n]]
  BY DEF Stored
<1>2. DOMAIN Handles = OpenFds
  BY DEF Handles, OpenFds
<1>3. ASSUME NEW n \in DOMAIN Stored PROVE Stored[n] \in Seq(Byte) /\ Len(Stored[n]) \in Nat
  <2>1. PICK e \in Entry : root_dir[e].used /\ root_dir[e].name = n
    BY <1>1, <1>3 DEF find_dirent
  <2>2. Stored[n] = Text[root_dir[e].inode] /\ root_dir[e].inode \in Files
    BY <2>1, View, FileAt
  <2> QED BY <2>2, TextIs
<1> QED BY <1>1, <1>2, <1>3

\* The descriptor of a command, where it has one.
LEMMA DescriptorIs ==
    ASSUME ShellInv, StoreInv
    PROVE  /\ job.at \in OpenPlaces =>
                 LET i == fds[job.fd].inode IN
                 /\ job.fd \in Fd /\ fds[job.fd].used /\ IsFile(job.fd) /\ i \in Files
                 /\ Handles[job.fd].offset = fds[job.fd].offset /\ fds[job.fd].offset \in Nat
                 /\ fds[job.fd].offset <= Length(i) /\ Length(i) \in Nat
                 /\ Handles[job.fd].name \in DOMAIN Stored
                 /\ Stored[Handles[job.fd].name] = Text[i] /\ Len(Text[i]) = Length(i)
           /\ job.at \notin OpenPlaces =>
                 DOMAIN Handles = {} /\ FreeFds # {} /\ \A h \in Fd : ~fds[h].used
<1>1. OpenFds = IF job.at \in OpenPlaces THEN {job.fd} ELSE {}
  BY DEF ShellInv, OpenOK
<1>2. CASE job.at \in OpenPlaces
  <2>1. job.fd \in Fd /\ fds[job.fd].used
    BY <1>1, <1>2 DEF OpenFds
  <2> DEFINE i == fds[job.fd].inode
  <2>2. /\ i \in Files /\ i \in Inode /\ Handles[job.fd].offset = fds[job.fd].offset
        /\ fds[job.fd].offset \in Nat /\ Handles[job.fd].name \in DOMAIN Stored
        /\ Stored[Handles[job.fd].name] = Text[i]
    BY <2>1, Opened
  <2>3. Length(i) \in Nat /\ Len(Text[i]) = Length(i) /\ fds[job.fd].offset <= Length(i)
    BY <2>1, <2>2, TextIs, SizesAre DEF StoreInv
  <2>4. inodes[i].used /\ inodes[i].type = "file"
    BY <2>2 DEF StoreInv, FsInv, Tables, BitmapsMatchTables, DirectoryMatchesInodes, Files
  <2> QED BY <1>2, <2>1, <2>2, <2>3, <2>4 DEF IsFile
<1>3. CASE job.at \notin OpenPlaces
  <2>1. \A h \in Fd : ~fds[h].used
    BY <1>1, <1>3 DEF OpenFds
  <2>2. 0 \in FreeFds
    BY <2>1, FsConstants DEF FreeFds
  <2> QED BY <1>1, <1>3, <2>1, <2>2, FilesAre
<1> QED BY <1>2, <1>3

\* What a command sees of the file system, when it is left alone.
LEMMA NothingDone ==
    ASSUME StoreInv, StoreInv', UNCHANGED fsvars
    PROVE  /\ Stored' = Stored /\ Handles' = Handles /\ Pending' = Pending /\ out' = out
           /\ FreeBlocks' = FreeBlocks
<1>1. \A i \in Files : Length(i)' = Length(i)
  BY DEF fsvars, Length, Pos, Ino
<1>2. Stored' = Stored
  BY <1>1, FilesUntouched DEF fsvars
<1> QED BY <1>2, HandlesIs DEF fsvars, Pending, FreeBlocks

\* To the user nothing happens before a command ends.
LEMMA StillObeying ==
    ASSUME job.at # "prompt", job'.at # "prompt", before' = before,
           job'.cmd = job.cmd, job'.name = job.name, job'.text = job.text
    PROVE  UNCHANGED Promise!pvars
BY DEF AtPrompt, Promise!pvars

\* What has to have happened when it ends.
LEMMA Obeyed ==
    ASSUME job.at # "prompt", job'.at = "prompt", job.cmd # "none",
           \/ /\ job.cmd = "touch" /\ shown' = << >>
              /\ \/ Stored' = before
                 \/ ~Existed /\ Stored' = Store!With(before, job.name, << >>)
           \/ /\ job.cmd = "write" /\ shown' = << >>
              /\ \/ ~Existed /\ Stored' = before
                 \/ \E k \in 0 .. Len(job.text) :
                       /\ Stored' = Store!With(before, job.name, SubSeq(job.text, 1, k))
                       /\ Existed => k >= Len(job.text) \/ k >= Len(before[job.name])
           \/ /\ job.cmd = "rm" /\ shown' = << >>
              /\ Stored' = [n \in DOMAIN before \ {job.name} |-> before[n]]
           \/ /\ job.cmd = "cat" /\ Stored' = before
              /\ shown' = IF Existed THEN before[job.name] ELSE << >>
    PROVE  Promise!Obey
<1> DEFINE command == [cmd |-> job.cmd, name |-> job.name, text |-> job.text]
<1>1. command.cmd = job.cmd /\ command.name = job.name /\ command.text = job.text
  OBVIOUS
<1>2. command # [cmd |-> "none"]
  BY <1>1
<1>3. ~AtPrompt /\ AtPrompt'
  BY DEF AtPrompt
<1> QED BY <1>1, <1>2, <1>3
        DEF Promise!Obey, Promise!NoCommand, Promise!Touch, Promise!Write, Promise!Remove, Promise!Cat,
            Promise!Known, Promise!Saved, Existed, Store!With

-----------------------------------------------------------------------------
\* The first k elements of a sequence.
LEMMA PrefixIs ==
    ASSUME NEW t \in Seq(Byte), NEW k \in Nat, k <= Len(t)
    PROVE  /\ SubSeq(t, 1, k) = [i \in 1 .. k |-> t[i]]
           /\ SubSeq(t, 1, k) \in Seq(Byte) /\ Len(SubSeq(t, 1, k)) = k
<1>1. \A i \in 1 .. k : t[i] \in Byte
  BY ElementOfSeq, LenProperties
<1>2. SubSeq(t, 0 + 1, 0 + k) = [i \in 1 .. k |-> t[0 + i]]
  <2>1. 0 \in Nat /\ 0 + k <= Len(t)
    OBVIOUS
  <2> QED BY <2>1, SubSeqIs
<1>3. SubSeq(t, 1, k) = [i \in 1 .. k |-> t[i]]
  BY <1>2
<1>4. [i \in 1 .. k |-> t[i]] \in Seq(Byte) /\ Len([i \in 1 .. k |-> t[i]]) = k
  BY <1>1
<1> QED BY <1>3, <1>4

\* None of them, and all.
LEMMA PrefixEnds ==
    ASSUME NEW t \in Seq(Byte)
    PROVE  SubSeq(t, 1, 0) = << >> /\ SubSeq(t, 1, Len(t)) = t
<1>1. Len(t) \in Nat /\ t = [i \in 1 .. Len(t) |-> t[i]]
  BY LenProperties
<1>2. SubSeq(t, 1, Len(t)) = t
  BY <1>1, PrefixIs
<1>3. SubSeq(t, 1, 0) \in Seq(Byte) /\ Len(SubSeq(t, 1, 0)) = 0
  BY <1>1, PrefixIs
<1> QED BY <1>2, <1>3, EmptySeq

\* The next n appended to the first k, or laid over the place behind them.
LEMMA PrefixGrows ==
    ASSUME NEW t \in Seq(Byte), NEW k \in Nat, NEW n \in Nat, k + n <= Len(t)
    PROVE  /\ SubSeq(t, 1, k) \o SubSeq(t, k + 1, k + n) = SubSeq(t, 1, k + n)
           /\ Store!Overlay(SubSeq(t, 1, k), k, [j \in 1 .. n |-> t[k + j]]) = SubSeq(t, 1, k + n)
<1>1. Len(t) \in Nat /\ \A i \in 1 .. Len(t) : t[i] \in Byte
  BY ElementOfSeq, LenProperties
<1> DEFINE u == [i \in 1 .. k |-> t[i]]
           v == [j \in 1 .. n |-> t[k + j]]
           w == [i \in 1 .. (k + n) |-> t[i]]
<1>2. SubSeq(t, 1, k) = u /\ SubSeq(t, 1, k + n) = w /\ SubSeq(t, k + 1, k + n) = v
  <2>1. k + n \in Nat /\ k <= Len(t)
    BY <1>1
  <2> QED BY <2>1, PrefixIs, SubSeqIs
<1>3. u \in Seq(Byte) /\ v \in Seq(Byte) /\ Len(u) = k /\ Len(v) = n
  BY <1>1
<1>4. \A i \in 1 .. (k + n) : (i \in 1 .. k => u[i] = t[i])
                              /\ (i \notin 1 .. k => i - k \in 1 .. n /\ v[i - k] = t[i])
  BY <1>1
<1> HIDE DEF u, v
<1>5. u \o v = w
  <2>1. /\ u \o v \in Seq(Byte) /\ Len(u \o v) = k + n
        /\ \A i \in 1 .. (k + n) : (u \o v)[i] = IF i <= k THEN u[i] ELSE v[i - k]
    BY <1>3, ConcatProperties
  <2>2. \A i \in 1 .. (k + n) : (u \o v)[i] = w[i]
    <3>1. ASSUME NEW i \in 1 .. (k + n) PROVE (u \o v)[i] = t[i]
      <4>1. CASE i <= k
        BY <1>4, <2>1, <4>1
      <4>2. CASE ~(i <= k)
        BY <1>4, <2>1, <4>2
      <4> QED BY <4>1, <4>2
    <3> QED BY <3>1
  <2>3. w \in Seq(Byte) /\ Len(w) = k + n
    BY <1>1
  <2> HIDE DEF w
  <2> QED BY <2>1, <2>2, <2>3, SeqEqual
<1>6. Store!Overlay(u, k, v) = w
  <2>1. Store!Overlay(u, k, v) =
          [i \in 1 .. (IF k + Len(v) > Len(u) THEN k + Len(v) ELSE Len(u)) |->
              IF i \in (k + 1) .. (k + Len(v)) THEN v[i - k] ELSE u[i]]
    BY DEF Store!Overlay
  <2>2. (IF k + Len(v) > Len(u) THEN k + Len(v) ELSE Len(u)) = k + n
    BY <1>3
  <2>3. \A i \in 1 .. (k + n) : (IF i \in (k + 1) .. (k + Len(v)) THEN v[i - k] ELSE u[i]) = t[i]
    BY <1>3, <1>4
  <2> HIDE DEF w
  <2>4. Store!Overlay(u, k, v) = [i \in 1 .. (k + n) |->
              IF i \in (k + 1) .. (k + Len(v)) THEN v[i - k] ELSE u[i]]
    BY <2>1, <2>2
  <2> QED BY <2>3, <2>4 DEF w
<1> QED BY <1>2, <1>5, <1>6 DEF v

\* These n are bytes too.
LEMMA NextOnes ==
    ASSUME NEW t \in Seq(Byte), NEW k \in Nat, NEW n \in Nat, k + n <= Len(t)
    PROVE  SubSeq(t, k + 1, k + n) \in Seq(Byte) /\ Len(SubSeq(t, k + 1, k + n)) = n
<1>1. Len(t) \in Nat /\ \A i \in 1 .. Len(t) : t[i] \in Byte
  BY ElementOfSeq, LenProperties
<1> DEFINE v == [j \in 1 .. n |-> t[k + j]]
<1>2. v \in Seq(Byte) /\ Len(v) = n
  BY <1>1
<1>3. SubSeq(t, k + 1, k + n) = v
  BY SubSeqIs
<1> QED BY <1>2, <1>3

\* Sequences of bytes, one behind the other.
LEMMA Behind ==
    ASSUME NEW u \in Seq(Byte), NEW v \in Seq(Byte), NEW w \in Seq(Byte)
    PROVE  (u \o v) \o w = u \o (v \o w)
BY ConcatAssociative, SMT

\* Saving a file that was removed, and removing one that is not there.
LEMMA SavingAnew ==
    /\ \A f, n, y : Store!With(Store!Without(f, n), n, y) = Store!With(f, n, y)
    /\ \A f, n : f = [z \in DOMAIN f |-> f[z]] /\ n \notin DOMAIN f => Store!Without(f, n) = f
BY DEF Store!With, Store!Without

-----------------------------------------------------------------------------
\* How many blocks of n bytes hold a number of bytes.
LEMMA Ceiling ==
    ASSUME NEW n \in Nat \ {0}, NEW bytes \in Nat
    PROVE  \E c \in Nat : bytes <= c * n /\ \A s \in 0 .. (c - 1) : s * n < bytes
<1>1. CASE bytes = 0
  <2>1. 0 * n = 0 /\ 0 .. (0 - 1) = {}
    OBVIOUS
  <2>2. bytes <= 0 * n /\ \A s \in 0 .. (0 - 1) : s * n < bytes
    BY <1>1, <2>1
  <2> QED BY <2>2
<1>2. CASE bytes # 0
  <2> DEFINE q == (bytes - 1) \div n
             r == (bytes - 1) % n
  <2>1. bytes - 1 \in Nat
    BY <1>2
  <2>2. q \in Nat /\ r \in 0 .. (n - 1) /\ bytes - 1 = q * n + r
    BY <2>1, Division
  <2> HIDE DEF q, r
  <2>3. q * n \in Nat /\ q + 1 \in Nat /\ q * n + n <= (q + 1) * n
    BY <2>2, BlockOrder
  <2>4. bytes <= (q + 1) * n
    BY <2>2, <2>3, BlockOrder
  <2>5. ASSUME NEW s \in 0 .. ((q + 1) - 1) PROVE s * n < bytes
    <3>1. s \in Nat /\ s <= q
      BY <2>2
    <3>2. s * n \in Nat /\ s * n <= q * n
      BY <2>2, <3>1, BlockOrder
    <3> QED BY <2>2, <2>3, <3>2
  <2> QED BY <2>3, <2>4, <2>5
<1> QED BY <1>1, <1>2

\* There are finitely many blocks.
LEMMA FreeBlocksFinite ==
    /\ IsFiniteSet(FreeBlocks) /\ Cardinality(FreeBlocks) \in Nat
    /\ IsFiniteSet(FreeBlocks') /\ Cardinality(FreeBlocks') \in Nat
<1>1. IsFiniteSet(Block)
  <2>1. 0 \in Int /\ FS_NUM_BLOCKS - 1 \in Int
    BY FsAssumption
  <2> QED BY <2>1, FS_Interval DEF Block
<1>2. FreeBlocks \in SUBSET Block /\ FreeBlocks' \in SUBSET Block
  BY DEF FreeBlocks
<1> QED BY <1>1, <1>2, FS_Subset, FS_CardinalityType

\* The blocks of a file that is removed are free: as many as its bytes need.
LEMMA UnlinkMakesRoom ==
    ASSUME StoreInv, StoreInv', NEW name \in Name, fs_unlink(name)
    PROVE  /\ Len(Stored[name]) \in 0 .. MaxBytes
           /\ Len(Stored[name]) <= Cardinality(FreeBlocks') * FS_BLOCK_SIZE
           /\ FreeInodes' # {} /\ \E e \in Entry : ~root_dir'[e].used
<1>1. PICK e \in Entry :
        /\ root_dir[e].used /\ root_dir[e].name = name
        /\ block_bitmap' = block_bitmap
             \ ({inodes[root_dir[e].inode].blocks[s] : s \in Slot} \ Metadata)
        /\ inode_bitmap' = inode_bitmap \ {root_dir[e].inode}
        /\ root_dir' = [root_dir EXCEPT ![e] = ZeroEntry]
        /\ call.op = "none"
  BY DEF fs_unlink, Idle, First, find_dirent
<1>2. PICK i \in Files : i = root_dir[e].inode
  BY <1>1, View
<1>3. /\ inodes[i] \in INodes /\ i \in Inode /\ i # FS_ROOT_INODE
      /\ root_dir \in [Entry -> Dirents]
  BY <1>2, View, TypeIs DEF StoreInv, FsInv, Types, Files
<1>4. Stored[name] = Text[i]
  BY <1>1, <1>2, View, FileAt
<1>5. Len(Stored[name]) = Length(i) /\ Length(i) \in 0 .. MaxBytes
  <2>1. Length(i) = inodes[i].size /\ inodes[i].size \in 0 .. MaxBytes
    BY <1>1, <1>3, IdleLength DEF INodes
  <2> QED BY <1>4, <2>1, TextIs
<1>6. FS_BLOCK_SIZE \in Nat \ {0} /\ FS_DIRECT \in Nat /\ MaxBytes = FS_DIRECT * FS_BLOCK_SIZE
      /\ MaxBytes \in Nat
  BY FsConstants DEF MaxBytes
<1>7. PICK c \in Nat : /\ Length(i) <= c * FS_BLOCK_SIZE
                       /\ \A s \in 0 .. (c - 1) : s * FS_BLOCK_SIZE < Length(i)
  <2>1. Length(i) \in Nat
    BY <1>5, <1>6
  <2> QED BY <1>6, <2>1, Ceiling
<1> DEFINE free == {b \in Block \ Metadata : b \notin block_bitmap'}
           f == [s \in 0 .. (c - 1) |-> inodes[i].blocks[s]]
<1>8. ASSUME NEW s \in 0 .. (c - 1)
      PROVE  s \in Slot /\ inodes[i].blocks[s] # 0 /\ inodes[i].blocks[s] \in free
  <2>1. s \in Nat /\ s * FS_BLOCK_SIZE \in Nat /\ s * FS_BLOCK_SIZE < MaxBytes
    BY <1>5, <1>6, <1>7, BlockOrder
  <2>2. s \in Slot
    <3>1. FS_DIRECT <= s => FS_DIRECT * FS_BLOCK_SIZE <= s * FS_BLOCK_SIZE
      BY <1>6, <2>1, BlockOrder
    <3> QED BY <1>6, <2>1, <3>1 DEF Slot
  <2>3. inodes[i].blocks[s] # 0
    BY <1>7, <2>2 DEF StoreInv, FsInv, SizeIsBacked
  <2>4. inodes[i].blocks[s] \in Block \ Metadata
    BY <1>3, <2>2, <2>3 DEF StoreInv, FsInv, Tables, BlocksNotShared, INodes
  <2> QED BY <1>1, <1>2, <2>2, <2>3, <2>4
<1>9. ASSUME NEW s \in 0 .. (c - 1), NEW t \in 0 .. (c - 1),
             inodes[i].blocks[s] = inodes[i].blocks[t]
      PROVE  s = t
  BY <1>8, <1>9 DEF StoreInv, FsInv, Tables, BlocksNotShared
<1>10. FreeBlocks' = free
  BY DEF FreeBlocks
<1>11. f \in Injection(0 .. (c - 1), FreeBlocks')
  <2> HIDE DEF free
  <2> QED BY <1>8, <1>9, <1>10 DEF Injection, IsInjective
<1>12. c <= Cardinality(FreeBlocks')
  <2>1. Cardinality(0 .. (c - 1)) <= Cardinality(FreeBlocks')
    BY <1>11, FreeBlocksFinite, FS_Injection
  <2>2. Cardinality(0 .. (c - 1)) = c
    BY FS_Interval
  <2> QED BY <2>1, <2>2
<1>13. Length(i) <= Cardinality(FreeBlocks') * FS_BLOCK_SIZE
  <2> DEFINE n == Cardinality(FreeBlocks')
  <2>1. n \in Nat /\ c <= n
    BY <1>12, FreeBlocksFinite
  <2> HIDE DEF n
  <2>2. c * FS_BLOCK_SIZE \in Nat /\ n * FS_BLOCK_SIZE \in Nat
        /\ c * FS_BLOCK_SIZE <= n * FS_BLOCK_SIZE
    BY <1>6, <2>1, BlockOrder
  <2>3. Length(i) \in Nat
    BY <1>5, <1>6
  <2> QED BY <1>7, <2>2, <2>3 DEF n
<1>14. i \in FreeInodes'
  BY <1>1, <1>2, <1>3 DEF FreeInodes
<1>15. ~root_dir'[e].used
  BY <1>1, <1>3 DEF ZeroEntry
<1> QED BY <1>5, <1>13, <1>14, <1>15

\* An iteration of fs_write takes a free block only for the next one of the file.
LEMMA WriteKeepsRoom ==
    ASSUME StoreInv, fs_write_block, NEW q \in Nat, Blocks(q)
    PROVE  \E p \in Nat : Blocks(p)' /\ p + Cardinality(FreeBlocks') = q + Cardinality(FreeBlocks)
<1>1. /\ Types /\ Index \in Slot /\ Index \in Nat /\ Ino \in Files /\ Ino \in Inode /\ Ino' = Ino
      /\ Pos \in Nat /\ Pos = Index * FS_BLOCK_SIZE + Within /\ Within \in Nat
  BY WritePosition DEF StoreInv
<1>2. PICK b \in Block \ Metadata, old \in [Cell -> Byte] :
        /\ Current # 0 => UNCHANGED <<block_bitmap, inodes>>
        /\ Current = 0 => b \notin block_bitmap /\ block_bitmap' = block_bitmap \cup {b}
        /\ \A i \in Inode, s \in Slot :
              inodes'[i].blocks[s] = IF i = Ino /\ s = Index THEN b ELSE inodes[i].blocks[s]
  BY WrittenBlock DEF StoreInv
<1>3. CASE Current # 0
  <2>1. Blocks(q)' /\ FreeBlocks' = FreeBlocks
    BY <1>1, <1>2, <1>3 DEF Blocks, FreeBlocks
  <2> QED BY <2>1
<1>4. CASE Current = 0
  <2>1. inodes[Ino].blocks[Index] = 0 /\ q <= Index
    BY <1>1, <1>4 DEF Current, Blocks
  <2>2. ASSUME q < Index PROVE FALSE
    <3>1. q \in Slot /\ inodes[Ino].blocks[q] = 0
      BY <1>1, <2>2, FsConstants DEF Slot, Blocks
    <3>2. ~(q * FS_BLOCK_SIZE < Length(Ino))
      BY <1>1, <3>1 DEF StoreInv, FsInv, SizeIsBacked
    <3>3. Length(Ino) \in Nat /\ Pos <= Length(Ino)
      <4>1. \A i \in Files : Length(i) \in Nat /\ (i = Ino => Pos <= Length(i))
        BY WrittenLength DEF StoreInv
      <4> QED BY <1>1, <4>1
    <3>4. FS_BLOCK_SIZE \in Nat \ {0}
      BY FsConstants
    <3>5. /\ q * FS_BLOCK_SIZE \in Nat /\ Index * FS_BLOCK_SIZE \in Nat
          /\ q * FS_BLOCK_SIZE + FS_BLOCK_SIZE <= Index * FS_BLOCK_SIZE
      BY <1>1, <2>2, <3>4, BlockOrder
    <3> QED BY <1>1, <3>2, <3>3, <3>4, <3>5
  <2>3. q = Index
    BY <1>1, <2>1, <2>2
  <2>4. Blocks(q + 1)'
    <3>1. ASSUME NEW s \in Slot PROVE inodes'[Ino].blocks[s] # 0 <=> s < q + 1
      <4>1. s \in Nat /\ b # 0
        BY FsConstants
      <4>2. CASE s = Index
        BY <1>1, <1>2, <2>3, <4>1, <4>2
      <4>3. CASE s # Index
        <5>1. inodes'[Ino].blocks[s] = inodes[Ino].blocks[s]
          BY <1>1, <1>2, <4>3
        <5>2. inodes[Ino].blocks[s] # 0 <=> s < q
          BY DEF Blocks
        <5> QED BY <2>3, <4>1, <4>3, <5>1, <5>2
      <4> QED BY <4>2, <4>3
    <3> QED BY <1>1, <3>1 DEF Blocks
  <2>5. FreeBlocks' = FreeBlocks \ {b} /\ b \in FreeBlocks
    BY <1>2, <1>4 DEF FreeBlocks
  <2>6. Cardinality(FreeBlocks') = Cardinality(FreeBlocks) - 1
    BY <2>5, FreeBlocksFinite, FS_RemoveElement
  <2>7. q + 1 \in Nat /\ (q + 1) + Cardinality(FreeBlocks') = q + Cardinality(FreeBlocks)
    BY <2>6, FreeBlocksFinite
  <2> QED BY <2>4, <2>7
<1> QED BY <1>3, <1>4

\* A write ends with all of the text, or with as much as was there before.
LEMMA WriteEndsLate ==
    ASSUME StoreInv, ShellInv, Writing, fs_write_return, job.at = "writing", Existed
    PROVE  Pos >= Len(job.text) \/ Pos >= Len(before[job.name])
<1>1. PICK q \in Nat : /\ Blocks(q) /\ Len(before[job.name]) \in 0 .. MaxBytes
                       /\ Len(before[job.name]) <= (q + Cardinality(FreeBlocks)) * FS_BLOCK_SIZE
  BY DEF Writing, Room
<1>2. /\ call.op = "write" /\ call.done = Pos /\ call.count = Smaller(Len(job.text), MaxBytes)
      /\ ~CanWrite /\ FsInv /\ Pos \in 0 .. Len(job.text)
  BY DEF Writing, Told, fs_write_return, StoreInv
<1>3. Len(job.text) \in Nat /\ MaxBytes \in Nat /\ FS_BLOCK_SIZE \in Nat \ {0} /\ FS_DIRECT \in Nat
      /\ MaxBytes = FS_DIRECT * FS_BLOCK_SIZE
  <2>1. job.text \in Seq(Byte)
    BY FsAssumption DEF ShellInv, JobOK, WritePlaces
  <2> QED BY <2>1, LenProperties, FsConstants DEF MaxBytes
<1>4. CASE ~(call.done < call.count)
  BY <1>1, <1>2, <1>3, <1>4 DEF Smaller
<1>5. CASE call.done < call.count
  <2>1. /\ Pos \in Nat /\ Index \in Nat /\ Within \in Nat
        /\ Pos = Index * FS_BLOCK_SIZE + Within /\ Index * FS_BLOCK_SIZE \in Nat
    BY <1>2, <1>5, PieceIs, FsConstants
  <2>2. CASE ~(Index < FS_DIRECT)
    <3>1. FS_DIRECT * FS_BLOCK_SIZE <= Index * FS_BLOCK_SIZE
      BY <1>3, <2>1, <2>2, BlockOrder
    <3> QED BY <1>1, <1>3, <2>1, <3>1
  <2>3. CASE Index < FS_DIRECT
    <3>1. Current = 0 /\ FreeBlocks = {} /\ Index \in Slot
      BY <1>2, <1>3, <1>5, <2>1, <2>3 DEF CanWrite, Slot
    <3>2. Cardinality(FreeBlocks) = 0
      BY <3>1, FS_EmptySet
    <3>3. q <= Index
      BY <1>1, <2>1, <3>1 DEF Current, Blocks
    <3>4. q * FS_BLOCK_SIZE \in Nat /\ q * FS_BLOCK_SIZE <= Index * FS_BLOCK_SIZE
      BY <1>3, <2>1, <3>3, BlockOrder
    <3>5. Len(before[job.name]) <= q * FS_BLOCK_SIZE
      BY <1>1, <3>2
    <3> QED BY <1>1, <1>3, <2>1, <3>4, <3>5
  <2> QED BY <2>2, <2>3
<1> QED BY <1>4, <1>5

-----------------------------------------------------------------------------
\* What the user sees of a step.
Visible == [Promise!PromptNext]_(Promise!pvars)

\* Going on to another place changes nothing the user sees.
LEMMA GoesOn ==
    ASSUME ShellInv, NEW place, Go(place), job.at # "prompt", place # "prompt"
    PROVE  /\ job'.at = place /\ job'.cmd = job.cmd /\ job'.name = job.name
           /\ job'.text = job.text /\ job'.fd = job.fd
           /\ shown' = shown /\ before' = before /\ Visible
<1>1. job' = [job EXCEPT !.at = place] /\ shown' = shown /\ before' = before
  BY DEF Go
<1>2. /\ job'.at = place /\ job'.cmd = job.cmd /\ job'.name = job.name
      /\ job'.text = job.text /\ job'.fd = job.fd
  BY <1>1 DEF ShellInv, JobOK, Jobs
<1>3. Visible
  BY <1>1, <1>2, StillObeying DEF Visible
<1> QED BY <1>1, <1>2, <1>3

\* Back at the prompt there is nothing to tell, and the command has been obeyed.
LEMMA ComesBack ==
    ASSUME Go("prompt"), Quiet', Promise!Obey
    PROVE  Tale' /\ Visible
<1>1. job'.at = "prompt" /\ job'.cmd = "none" /\ shown' = shown
  BY DEF Go, Prompt
<1>2. CommandAt' /\ NothingShown'
  BY <1>1 DEF CommandAt, NothingShown, WritePlaces
<1>3. Tale'
  BY <1>1, <1>2 DEF Tale
<1> QED BY <1>3 DEF Visible, Promise!PromptNext

\* Where nothing was read or is being read, fs.c is idle.
LEMMA QuietIsIdle == ASSUME StoreInv, Quiet PROVE call.op = "none" /\ Pending = Store!NoJob /\ out = << >>
<1>1. call.op \in {"none", "read", "write"}
  BY TypeIs DEF StoreInv, FsInv, Types, Calls
<1> QED BY <1>1 DEF Quiet, Pending, Store!NoJob

\* A line is typed.
LEMMA RunTold ==
    ASSUME ShellInv, StoreInv, StoreInv', Tale, NEW r \in Request, shell_run(r)
    PROVE  Tale' /\ Visible
<1> DEFINE line == Parsed(r)
<1>1. /\ AtPrompt /\ job.at = "prompt" /\ UNCHANGED fsvars
      /\ job' = [cmd |-> line.cmd, name |-> line.name, text |-> line.text,
                 at |-> Start(line.cmd), fd |-> 0]
      /\ shown' = << >> /\ before' = Stored
  BY DEF shell_run, AtPrompt
<1>2. /\ line.cmd \in {"touch", "rm", "cat", "write"}
      /\ line.name \in Name /\ line.text \in Buffers \cup {<< >>}
  <2>1. /\ r.cmd \in {"touch", "rm", "cat", "write"} /\ r.name \in Name
        /\ r.text \in Texts \cup {<< >>} /\ (r.cmd = "write" => r.text \in Texts)
    BY DEF Request
  <2>2. CASE r.cmd = "write" /\ r.name \in LongName
    <3>1. line.cmd = r.cmd /\ line.name = Cut[r.name] /\ line.text = Rest \o r.text
      BY <2>2 DEF Parsed, Request
    <3> QED BY <2>1, <2>2, <3>1, ShellAssumption
  <2>3. CASE ~(r.cmd = "write" /\ r.name \in LongName)
    BY <2>1, <2>3, ShellAssumption DEF Parsed
  <2> QED BY <2>2, <2>3
<1> HIDE DEF line
<1>3. /\ job'.cmd = line.cmd /\ job'.name = line.name /\ job'.text = line.text
      /\ job'.at = Start(line.cmd)
  BY <1>1
<1>4. /\ line.cmd = "touch" => job'.at = "touch"
      /\ line.cmd = "rm" => job'.at = "rm"
      /\ line.cmd = "cat" => job'.at = "cat open"
      /\ line.cmd = "write" => job'.at = "test"
  BY <1>3 DEF Start
<1>5. Stored' = Stored /\ Quiet'
  BY <1>1, NothingDone DEF Tale, Quiet
<1>6. CommandAt' /\ NothingShown'
  BY <1>1, <1>2, <1>3, <1>4 DEF CommandAt, NothingShown, WritePlaces
<1>7. Tale'
  BY <1>1, <1>2, <1>4, <1>5, <1>6 DEF Tale, Untouched
<1>8. ~AtPrompt'
  BY <1>2, <1>4 DEF AtPrompt
<1>9. Promise!Type(line.cmd, line.name, line.text)
  BY <1>1, <1>3, <1>8 DEF Promise!Type, Promise!NoCommand
<1> QED BY <1>2, <1>7, <1>9 DEF Visible, Promise!PromptNext

\* touch and rm are one call.
LEMMA TouchTold ==
    ASSUME ShellInv, StoreInv, StoreInv', Tale, cmd_fs_touch
    PROVE  Tale' /\ Visible
<1>1. /\ job.at = "touch" /\ job.cmd = "touch" /\ Go("prompt") /\ Stored = before /\ shown = << >>
      /\ Quiet /\ job.name \in Name /\ job'.at = "prompt" /\ shown' = shown
  BY DEF cmd_fs_touch, Call, Tale, CommandAt, NothingShown, Untouched, ShellInv, JobOK, Go, Prompt
<1>2. CASE Creatable(job.name)
  <2>1. Store!Manage /\ Store!Create(job.name)
    BY <1>1, <1>2, CreateStep DEF cmd_fs_touch, Call
  <2>2. Quiet' /\ ~Existed /\ Stored' = Store!With(before, job.name, << >>)
    BY <1>1, <2>1 DEF Store!Manage, Store!Create, Quiet, Existed
  <2> QED BY <1>1, <2>2, Obeyed, ComesBack
<1>3. CASE ~Creatable(job.name)
  <2>1. Quiet' /\ Stored' = before
    BY <1>1, <1>3, NothingDone DEF cmd_fs_touch, Call, Quiet
  <2> QED BY <1>1, <2>1, Obeyed, ComesBack
<1> QED BY <1>2, <1>3

\* rm finds nothing, or a file that nobody has open.
LEMMA RmTold ==
    ASSUME ShellInv, StoreInv, StoreInv', Tale, cmd_fs_rm
    PROVE  Tale' /\ Visible
<1>1. /\ job.at = "rm" /\ job.cmd = "rm" /\ Go("prompt") /\ Stored = before /\ shown = << >>
      /\ Quiet /\ job.name \in Name /\ job'.at = "prompt" /\ shown' = shown
  BY DEF cmd_fs_rm, Call, Tale, CommandAt, NothingShown, Untouched, ShellInv, JobOK, Go, Prompt
<1>2. CASE Removable(job.name)
  <2>1. Store!Manage /\ Store!Remove(job.name)
    BY <1>1, <1>2, UnlinkStep DEF cmd_fs_rm, Call
  <2>2. Quiet' /\ Stored' = [n \in DOMAIN before \ {job.name} |-> before[n]]
    BY <1>1, <2>1 DEF Store!Manage, Store!Remove, Store!Without, Quiet
  <2> QED BY <1>1, <2>2, Obeyed, ComesBack
<1>3. CASE ~Removable(job.name)
  <2>1. Quiet' /\ Stored' = before
    BY <1>1, <1>3, NothingDone DEF cmd_fs_rm, Call, Quiet
  <2>2. job.name \notin DOMAIN before
    <3>1. \A h \in Fd : ~fds[h].used
      BY <1>1, DescriptorIs DEF OpenPlaces
    <3>2. find_dirent(job.name) = {}
      BY <1>3, <3>1 DEF Removable
    <3> QED BY <1>1, <3>2, FilesAre
  <2>3. Stored' = [n \in DOMAIN before \ {job.name} |-> before[n]]
    <3>1. before = [n \in DOMAIN before |-> before[n]]
      BY <1>1, FilesAre
    <3>2. DOMAIN before \ {job.name} = DOMAIN before
      BY <2>2
    <3> QED BY <2>1, <3>1, <3>2
  <2> QED BY <1>1, <2>1, <2>3, Obeyed, ComesBack
<1> QED BY <1>2, <1>3

\* fs_open finds the file of that name, and a descriptor is always left.
LEMMA OpenResult ==
    ASSUME ShellInv, StoreInv, StoreInv', Tale,
           NEW from, NEW next, NEW otherwise, Open(from, next, otherwise),
           job.at \notin OpenPlaces \cup {"reading", "writing", "prompt"}, next # "prompt"
    PROVE  \/ /\ job.name \in DOMAIN Stored
              /\ job'.at = next /\ job'.cmd = job.cmd /\ job'.name = job.name
              /\ job'.text = job.text /\ shown' = shown /\ before' = before
              /\ Stored' = Stored /\ Quiet' /\ FreeBlocks' = FreeBlocks
              /\ Positioned(0)' /\ Visible
           \/ /\ job.name \notin DOMAIN Stored /\ Go(otherwise)
              /\ Stored' = Stored /\ Quiet'
<1>1. job.name \in Name /\ job \in Jobs /\ Quiet /\ job.at \notin OpenPlaces /\ job.at # "prompt"
  BY DEF ShellInv, JobOK, Tale
<1>2. Openable(job.name) <=> job.name \in DOMAIN Stored
  BY <1>1, DescriptorIs, FilesAre DEF Openable
<1>3. CASE Openable(job.name)
  <2>1. PICK h \in Fd : First(h, FreeFds) /\ job' = [job EXCEPT !.at = next, !.fd = h]
    BY <1>3 DEF Open
  <2>2. fs_open(job.name) /\ shown' = shown /\ before' = before
    BY <1>3 DEF Open
  <2>3. PICK g \in Fd : First(g, FreeFds) /\ Store!Open(job.name, g)
    BY <1>1, <2>2, OpenStep
  <2>4. g = h
    BY <2>1, <2>3 DEF First, Fd, FreeFds
  <2>5. /\ job'.at = next /\ job'.fd = h /\ job'.cmd = job.cmd /\ job'.name = job.name
        /\ job'.text = job.text
    BY <1>1, <2>1 DEF Jobs
  <2>6. Store!Manage
    BY <1>1, <2>2, OpenStep
  <2>7. Stored' = Stored /\ Quiet' /\ Handles' = Store!With(Handles, h, [name |-> job.name, offset |-> 0])
    BY <1>1, <2>3, <2>4, <2>6 DEF Store!Open, Store!Manage, Quiet
  <2>8. Positioned(0)'
    <3>1. Handles'[h] = [name |-> job.name, offset |-> 0]
      BY <2>7 DEF Store!With
    <3>2. Handles'[h].name = job.name /\ Handles'[h].offset = 0
      BY <3>1
    <3> QED BY <2>5, <3>2 DEF Positioned
  <2>9. FreeBlocks' = FreeBlocks
    BY <2>2 DEF fs_open, FreeBlocks
  <2>10. Visible
    BY <1>1, <2>2, <2>5, StillObeying DEF Visible
  <2> QED BY <1>2, <1>3, <2>2, <2>5, <2>7, <2>8, <2>9, <2>10
<1>4. CASE ~Openable(job.name)
  <2>1. Go(otherwise) /\ UNCHANGED fsvars
    BY <1>4 DEF Open
  <2> QED BY <1>1, <1>2, <1>4, <2>1, NothingDone DEF Quiet
<1> QED BY <1>3, <1>4

-----------------------------------------------------------------------------
\* An open file of the shell as the store sees it: its bytes, and how far the
\* descriptor is.
LEMMA OpenedIs ==
    ASSUME ShellInv, StoreInv, job.at \in OpenPlaces
    PROVE  LET name == Handles[job.fd].name
               o    == Handles[job.fd].offset IN
           /\ job.fd \in DOMAIN Handles /\ name \in DOMAIN Stored /\ Stored[name] \in Seq(Byte)
           /\ o \in Nat /\ o <= Len(Stored[name]) /\ Len(Stored[name]) \in Nat
           /\ o = fds[job.fd].offset /\ Len(Stored[name]) = Length(fds[job.fd].inode)
<1>1. job.fd \in Fd /\ fds[job.fd].used
  BY DescriptorIs
<1>2. job.fd \in DOMAIN Handles
  BY <1>1, Opened
<1> QED BY <1>2, DescriptorIs, FilesAre

\* A descriptor that moved on is still one of the same file.
LEMMA Advancing ==
    ASSUME NEW h \in DOMAIN Handles, NEW n, Handles' = Store!Advance(h, n)
    PROVE  Handles'[h].name = Handles[h].name /\ Handles'[h].offset = Handles[h].offset + n
<1>1. PICK name, offset : Handles[h] = [name |-> name, offset |-> offset]
  BY DEF Handles
<1>2. Handles'[h] = [Handles[h] EXCEPT !.offset = Handles[h].offset + n]
  BY DEF Store!Advance
<1> QED BY <1>1, <1>2

\* cat finds the file, or has nothing to print.
LEMMA CatOpenTold ==
    ASSUME ShellInv, StoreInv, StoreInv', Tale, Open("cat open", "read", "prompt")
    PROVE  Tale' /\ Visible
<1>1. /\ job.at = "cat open" /\ job.cmd = "cat" /\ Stored = before /\ shown = << >>
      /\ job.at \notin OpenPlaces \cup {"reading", "writing", "prompt"}
  BY DEF Open, Tale, CommandAt, NothingShown, Untouched, OpenPlaces
<1>2. CASE /\ job.name \in DOMAIN Stored
           /\ job'.at = "read" /\ job'.cmd = job.cmd /\ job'.name = job.name
           /\ job'.text = job.text /\ shown' = shown /\ before' = before
           /\ Stored' = Stored /\ Quiet' /\ Positioned(0)' /\ Visible
  <2>1. Handles'[job'.fd].name = job'.name /\ Handles'[job'.fd].offset = 0
    BY <1>2 DEF Positioned
  <2>2. SubSeq(before[job.name], 1, 0) = << >>
    <3>1. before[job.name] \in Seq(Byte)
      BY <1>1, <1>2, FilesAre
    <3> QED BY <3>1, PrefixEnds
  <2>3. Reading(shown)'
    BY <1>1, <1>2, <2>1, <2>2 DEF Reading, Untouched, Existed
  <2>4. CommandAt' /\ NothingShown'
    BY <1>1, <1>2 DEF CommandAt, NothingShown, WritePlaces
  <2>5. Tale'
    BY <1>2, <2>3, <2>4 DEF Tale
  <2> QED BY <1>2, <2>5
<1>3. CASE job.name \notin DOMAIN Stored /\ Go("prompt") /\ Stored' = Stored /\ Quiet'
  <2>1. job'.at = "prompt" /\ shown' = << >> /\ ~Existed
    BY <1>1, <1>3 DEF Go, Prompt, Existed
  <2> QED BY <1>1, <1>3, <2>1, Obeyed, ComesBack
<1> QED BY <1>1, <1>2, <1>3, OpenResult

\* cat reads on, or is at the end of the file: it has printed all of it.
LEMMA CatReadTold ==
    ASSUME ShellInv, StoreInv, StoreInv', Tale, cat_read
    PROVE  Tale' /\ Visible
<1>1. /\ job.at = "read" /\ job.cmd = "cat" /\ Quiet /\ Reading(shown)
      /\ job.at \in OpenPlaces /\ job.at # "prompt" /\ shown \in Seq(Byte)
  BY DEF cat_read, Call, Tale, CommandAt, OpenPlaces, ShellInv
<1> DEFINE text == before[job.name]
           o    == Handles[job.fd].offset
<1>2. /\ job.fd \in DOMAIN Handles /\ text \in Seq(Byte) /\ o \in Nat /\ o <= Len(text)
      /\ Len(text) \in Nat /\ o = fds[job.fd].offset /\ Len(text) = Length(fds[job.fd].inode)
      /\ text = Stored[Handles[job.fd].name] /\ shown = SubSeq(text, 1, o)
      /\ Stored = before /\ Existed /\ Handles[job.fd].name = job.name
  BY <1>1, OpenedIs DEF Reading, Untouched
<1>3. /\ Len(text) = inodes[fds[job.fd].inode].size /\ IsFile(job.fd) /\ job.fd \in Fd
      /\ Pending = Store!NoJob /\ out = << >>
  BY <1>1, <1>2, QuietIsIdle, IdleLength, DescriptorIs
<1> HIDE DEF text, o
<1>4. Readable <=> o < Len(text)
  BY <1>2, <1>3 DEF Readable
<1>5. CASE Readable
  <2>1. fs_read(job.fd, CAT_BYTES) /\ Go("reading")
    BY <1>5 DEF cat_read, Call
  <2>2. CAT_BYTES \in Counts /\ CAT_BYTES \in Nat \ {0}
    BY ShellAssumption, FsAssumption
  <2>3. Store!StartRead(job.fd, CAT_BYTES)
    BY <1>3, <2>1, <2>2, ReadStartStep
  <2>4. /\ Stored' = Stored /\ Handles' = Handles /\ out' = << >>
        /\ Pending' = [op |-> "read", fd |-> job.fd,
                       left |-> IF CAT_BYTES < Len(text) - o THEN CAT_BYTES ELSE Len(text) - o]
    BY <1>2, <1>3, <2>3 DEF Store!StartRead, o
  <2>5. /\ job'.at = "reading" /\ job'.cmd = job.cmd /\ job'.name = job.name /\ job'.fd = job.fd
        /\ shown' = shown /\ before' = before /\ Visible
    BY <1>1, <2>1, GoesOn
  <2>6. Reading(shown \o out)'
    <3>1. shown' \o out' = shown
      BY <1>1, <2>4, <2>5, ConcatEmptySeq
    <3> QED BY <1>1, <2>4, <2>5, <3>1 DEF Reading, Untouched, Existed
  <2>7. Len(out') + Pending'.left > 0
    <3>1. Len(out') = 0
      BY <2>4, EmptySeq
    <3>2. Pending'.left = IF CAT_BYTES < Len(text) - o THEN CAT_BYTES ELSE Len(text) - o
      BY <2>4
    <3> QED BY <1>2, <1>4, <1>5, <2>2, <3>1, <3>2
  <2>8. Fetching'
    BY <2>4, <2>5, <2>6, <2>7 DEF Fetching
  <2>9. CommandAt' /\ NothingShown'
    BY <1>1, <2>5 DEF CommandAt, NothingShown, WritePlaces
  <2>10. Tale'
    BY <2>5, <2>8, <2>9 DEF Tale
  <2> QED BY <2>5, <2>10
<1>6. CASE ~Readable
  <2>1. UNCHANGED fsvars /\ Go("close")
    BY <1>6 DEF cat_read, Call
  <2>2. /\ job'.at = "close" /\ job'.cmd = job.cmd /\ job'.name = job.name
        /\ shown' = shown /\ before' = before /\ Visible
    BY <1>1, <2>1, GoesOn
  <2>3. Stored' = before /\ Quiet'
    BY <1>1, <1>2, <2>1, NothingDone DEF Quiet
  <2>4. shown = text
    BY <1>2, <1>4, <1>6, PrefixEnds
  <2>5. CommandAt' /\ NothingShown'
    BY <1>1, <2>2 DEF CommandAt, NothingShown, WritePlaces
  <2>6. Tale'
    BY <1>1, <1>2, <2>2, <2>3, <2>4, <2>5 DEF Tale, Untouched, Existed, text
  <2> QED BY <2>2, <2>6
<1> QED BY <1>5, <1>6

\* fs_read fetches the next bytes, and cat prints them when it returns.
LEMMA CatReadingTold ==
    ASSUME ShellInv, StoreInv, StoreInv', Tale, cat_reading
    PROVE  Tale' /\ Visible
<1>1. /\ job.at = "reading" /\ job.cmd = "cat" /\ Fetching /\ job \in Jobs
      /\ job.at \in OpenPlaces /\ job.at # "prompt" /\ shown \in Seq(Byte) /\ out \in Seq(Byte)
  BY TypeIs DEF cat_reading, Tale, CommandAt, OpenPlaces, ShellInv, JobOK, StoreInv, FsInv, Types
<1> DEFINE text == before[job.name]
           o    == Handles[job.fd].offset
<1>2. /\ job.fd \in DOMAIN Handles /\ text \in Seq(Byte) /\ o \in Nat /\ o <= Len(text)
      /\ Len(text) \in Nat /\ o = fds[job.fd].offset /\ Len(text) = Length(fds[job.fd].inode)
      /\ text = Stored[Handles[job.fd].name] /\ shown \o out = SubSeq(text, 1, o)
      /\ Stored = before /\ Existed /\ Handles[job.fd].name = job.name
      /\ Pending.op = "read" /\ Pending.fd = job.fd /\ Len(out) + Pending.left > 0
  BY <1>1, OpenedIs DEF Fetching, Reading, Untouched
<1> HIDE DEF text, o
<1>3. CASE fs_read_block /\ UNCHANGED shvars
  <2>1. Store!Read(Piece) /\ Piece \in 1 .. Pending.left
    BY <1>3, ReadBlockStep
  <2>2. call.op = "read" /\ call.fd = job.fd /\ Pending.left = call.count - call.done
    BY <1>2, <1>3 DEF fs_read_block, Pending
  <2>3. Piece \in Nat /\ Piece >= 1 /\ o + Piece <= Len(text) /\ Pending.left \in Int
    <3>1. /\ call.done \in Nat /\ call.count \in Nat
          /\ Pos + (call.count - call.done) <= inodes[Ino].size
      BY <2>2, TypeIs DEF StoreInv, FsInv, Types, Calls, CallFits
    <3>2. Pos = o /\ inodes[Ino].size = Len(text)
      BY <1>2, <2>2, IdleLength DEF Pos, Ino
    <3>3. Piece \in Nat /\ Piece >= 1 /\ Piece <= call.count - call.done /\ Pending.left \in Int
      BY <2>1, <2>2, <3>1
    <3>4. o \in Nat /\ Len(text) \in Nat
      BY <1>2
    <3> QED BY <3>1, <3>2, <3>3, <3>4
  <2>4. /\ Stored' = Stored /\ Handles' = Store!Advance(job.fd, Piece)
        /\ out' = out \o SubSeq(text, o + 1, o + Piece)
        /\ Pending' = [Pending EXCEPT !.left = Pending.left - Piece]
    BY <1>2, <2>1 DEF Store!Read, o
  <2>5. Handles'[job.fd].name = job.name /\ Handles'[job.fd].offset = o + Piece
    BY <1>2, <2>4, Advancing DEF o
  <2>6. text \in Seq(Byte) /\ o \in Nat /\ Piece \in Nat /\ o + Piece <= Len(text)
    BY <1>2, <2>3
  <2>7. shown \o out' = SubSeq(text, 1, o + Piece)
    <3>1. shown \in Seq(Byte) /\ out \in Seq(Byte) /\ shown \o out = SubSeq(text, 1, o)
      BY <1>1, <1>2
    <3>2. PICK w : w = SubSeq(text, o + 1, o + Piece)
      OBVIOUS
    <3>3. w \in Seq(Byte)
      BY <2>6, <3>2, NextOnes
    <3>4. (shown \o out) \o w = shown \o (out \o w)
      BY <3>1, <3>3, Behind
    <3>5. SubSeq(text, 1, o) \o SubSeq(text, o + 1, o + Piece) = SubSeq(text, 1, o + Piece)
      BY <2>6, PrefixGrows
    <3> QED BY <2>4, <3>1, <3>2, <3>4, <3>5, Zenon
  <2>8. Len(out') = Len(out) + Piece /\ Len(out) \in Nat
    <3>1. Len(SubSeq(text, o + 1, o + Piece)) = Piece /\ SubSeq(text, o + 1, o + Piece) \in Seq(Byte)
      BY <2>6, NextOnes
    <3> QED BY <1>1, <2>4, <3>1, ConcatProperties, LenProperties
  <2>9. Pending'.op = "read" /\ Pending'.fd = job.fd /\ Pending'.left = Pending.left - Piece
    <3>1. Pending = [op |-> "read", fd |-> call.fd, left |-> call.count - call.done]
      BY <2>2 DEF Pending
    <3> QED BY <1>2, <2>4, <3>1
  <2>10. Len(out') + Pending'.left > 0
    BY <2>1, <2>3, <2>8, <2>9
  <2>11. job' = job /\ shown' = shown /\ before' = before
    BY <1>3 DEF shvars
  <2>12. Fetching'
    BY <1>2, <2>4, <2>5, <2>7, <2>9, <2>10, <2>11 DEF Fetching, Reading, Untouched, Existed, text
  <2>13. CommandAt' /\ NothingShown'
    BY <1>1, <2>11 DEF CommandAt, NothingShown, WritePlaces
  <2>14. Tale'
    BY <1>1, <2>11, <2>12, <2>13 DEF Tale
  <2>15. Visible
    BY <1>1, <2>11, StillObeying DEF Visible
  <2> QED BY <2>14, <2>15
<1>4. CASE fs_read_return /\ ~(fs_read_block /\ UNCHANGED shvars)
  <2>1. /\ shown' = shown \o out /\ before' = before
        /\ job' = [job EXCEPT !.at = IF out = << >> THEN "close" ELSE "read"]
    BY <1>4 DEF cat_reading
  <2>2. Store!EndRead
    BY <1>4, ReadReturnStep
  <2>3. Pending.left = 0 /\ out' = << >> /\ Pending' = Store!NoJob /\ Stored' = Stored /\ Handles' = Handles
    BY <2>2 DEF Store!EndRead
  <2>4. out # << >>
    BY <1>2, <2>3, EmptySeq
  <2>5. /\ job'.at = "read" /\ job'.cmd = job.cmd /\ job'.name = job.name /\ job'.text = job.text
        /\ job'.fd = job.fd
    BY <1>1, <2>1, <2>4 DEF Jobs
  <2>6. Reading(shown)' /\ Quiet'
    BY <1>2, <2>1, <2>3, <2>5 DEF Reading, Untouched, Existed, Quiet, text, o
  <2>7. CommandAt' /\ NothingShown'
    BY <1>1, <2>5 DEF CommandAt, NothingShown, WritePlaces
  <2>8. Tale'
    BY <2>5, <2>6, <2>7 DEF Tale
  <2>9. Visible
    BY <1>1, <2>1, <2>5, StillObeying DEF Visible
  <2> QED BY <2>8, <2>9
<1> QED BY <1>3, <1>4 DEF cat_reading

-----------------------------------------------------------------------------
\* The last call of cat and write.
LEMMA CloseTold ==
    ASSUME ShellInv, StoreInv, StoreInv', Tale, close
    PROVE  Tale' /\ Visible
<1>1. /\ job.at = "close" /\ job.at \in OpenPlaces /\ job.cmd \in {"cat", "write"} /\ Quiet
      /\ job.cmd = "cat" => Stored = before /\ Existed /\ shown = before[job.name]
      /\ job.cmd = "write" => Written /\ shown = << >>
      /\ fs_close(job.fd) /\ Go("prompt")
  BY DEF close, Call, Tale, CommandAt, NothingShown, Untouched, OpenPlaces
<1>2. Store!Manage /\ Store!Close(job.fd)
  BY <1>1, DescriptorIs, CloseStep
<1>3. Stored' = Stored /\ Quiet'
  BY <1>1, <1>2 DEF Store!Manage, Store!Close, Quiet
<1>4. job'.at = "prompt" /\ shown' = shown /\ job.at # "prompt" /\ job.cmd # "none"
  BY <1>1 DEF Go, Prompt
<1>5. CASE job.cmd = "cat"
  BY <1>1, <1>3, <1>4, <1>5, Obeyed, ComesBack
<1>6. CASE job.cmd = "write"
  <2>1. \E k \in 0 .. Len(job.text) :
           /\ Stored' = Store!With(before, job.name, SubSeq(job.text, 1, k))
           /\ Existed => k >= Len(job.text) \/ k >= Len(before[job.name])
    BY <1>1, <1>3, <1>6 DEF Written, Told
  <2> QED BY <1>1, <1>3, <1>4, <1>6, <2>1, Obeyed, ComesBack
<1> QED BY <1>1, <1>5, <1>6

\* write looks whether there is such a file.
LEMMA TestTold ==
    ASSUME ShellInv, StoreInv, StoreInv', Tale, write_test
    PROVE  Tale' /\ Visible
<1>1. /\ job.at = "test" /\ job.cmd = "write" /\ Stored = before /\ shown = << >>
      /\ job.at \notin OpenPlaces \cup {"reading", "writing", "prompt"}
      /\ Open("test", "test close", "create") /\ job.at # "prompt"
  BY DEF write_test, Open, Tale, CommandAt, NothingShown, Untouched, OpenPlaces, WritePlaces
<1>2. CASE /\ job.name \in DOMAIN Stored
           /\ job'.at = "test close" /\ job'.cmd = job.cmd /\ job'.name = job.name
           /\ shown' = shown /\ before' = before /\ Stored' = Stored /\ Quiet' /\ Visible
  <2>1. Untouched' /\ Existed'
    BY <1>1, <1>2 DEF Untouched, Existed
  <2>2. CommandAt' /\ NothingShown'
    BY <1>1, <1>2 DEF CommandAt, NothingShown, WritePlaces
  <2>3. Tale'
    BY <1>2, <2>1, <2>2 DEF Tale
  <2> QED BY <1>2, <2>3
<1>3. CASE job.name \notin DOMAIN Stored /\ Go("create") /\ Stored' = Stored /\ Quiet'
  <2>1. /\ job'.at = "create" /\ job'.cmd = job.cmd /\ job'.name = job.name
        /\ shown' = shown /\ before' = before /\ Visible
    BY <1>1, <1>3, GoesOn
  <2>2. ~Existed'
    BY <1>1, <1>3, <2>1 DEF Existed
  <2>3. Stored' = Store!Without(before, job.name)
    <3>1. Stored = [n \in DOMAIN Stored |-> Stored[n]]
      BY FilesAre
    <3>2. Store!Without(Stored, job.name) = Stored
      BY <1>3, <3>1, SavingAnew, Zenon
    <3> QED BY <1>1, <1>3, <3>2, Zenon
  <2>4. Removed'
    BY <1>1, <1>3, <2>1, <2>2, <2>3 DEF Removed, Room
  <2>5. CommandAt' /\ NothingShown'
    BY <1>1, <2>1 DEF CommandAt, NothingShown, WritePlaces
  <2>6. Tale'
    BY <1>3, <2>1, <2>4, <2>5 DEF Tale
  <2> QED BY <2>1, <2>6
<1> QED BY <1>1, <1>2, <1>3, OpenResult

\* It closes what it opened for that.
LEMMA TestCloseTold ==
    ASSUME ShellInv, StoreInv, StoreInv', Tale, write_test_close
    PROVE  Tale' /\ Visible
<1>1. /\ job.at = "test close" /\ job.at \in OpenPlaces /\ job.cmd = "write" /\ Quiet
      /\ Stored = before /\ Existed /\ shown = << >> /\ job.at # "prompt"
      /\ fs_close(job.fd) /\ Go("unlink")
  BY DEF write_test_close, Call, Tale, CommandAt, NothingShown, Untouched, OpenPlaces, WritePlaces
<1>2. Store!Manage /\ Store!Close(job.fd)
  BY <1>1, DescriptorIs, CloseStep
<1>3. Stored' = Stored /\ Quiet'
  BY <1>1, <1>2 DEF Store!Manage, Store!Close, Quiet
<1>4. /\ job'.at = "unlink" /\ job'.cmd = job.cmd /\ job'.name = job.name
      /\ shown' = shown /\ before' = before /\ Visible
  BY <1>1, GoesOn
<1>5. Untouched' /\ Existed'
  BY <1>1, <1>3, <1>4 DEF Untouched, Existed
<1>6. CommandAt' /\ NothingShown'
  BY <1>1, <1>4 DEF CommandAt, NothingShown, WritePlaces
<1>7. Tale'
  BY <1>3, <1>4, <1>5, <1>6 DEF Tale
<1> QED BY <1>4, <1>7

\* It removes the file that is there: nobody has it open.
LEMMA UnlinkTold ==
    ASSUME ShellInv, StoreInv, StoreInv', Tale, write_unlink
    PROVE  Tale' /\ Visible
<1>1. /\ job.at = "unlink" /\ job.at \notin OpenPlaces /\ job.cmd = "write" /\ Quiet
      /\ Stored = before /\ Existed /\ shown = << >> /\ job.at # "prompt" /\ job.name \in Name
  BY DEF write_unlink, Call, Tale, CommandAt, NothingShown, Untouched, OpenPlaces, WritePlaces,
         ShellInv, JobOK
<1>2. Removable(job.name)
  <2>1. find_dirent(job.name) # {}
    BY <1>1, FilesAre DEF Existed
  <2>2. \A h \in Fd : ~fds[h].used
    BY <1>1, DescriptorIs
  <2> QED BY <2>1, <2>2 DEF Removable
<1>3. fs_unlink(job.name) /\ Go("create")
  BY <1>2 DEF write_unlink, Call
<1>4. Store!Manage /\ Store!Remove(job.name)
  BY <1>1, <1>3, UnlinkStep
<1>5. Stored' = Store!Without(before, job.name) /\ Quiet'
  BY <1>1, <1>4 DEF Store!Manage, Store!Remove, Quiet
<1>6. /\ job'.at = "create" /\ job'.cmd = job.cmd /\ job'.name = job.name
      /\ shown' = shown /\ before' = before /\ Visible
  BY <1>1, <1>3, GoesOn
<1>7. /\ Len(before[job.name]) \in 0 .. MaxBytes
      /\ Len(before[job.name]) <= Cardinality(FreeBlocks') * FS_BLOCK_SIZE
      /\ FreeInodes' # {} /\ \E e \in Entry : ~root_dir'[e].used
  BY <1>1, <1>3, UnlinkMakesRoom
<1>8. 0 + Cardinality(FreeBlocks') = Cardinality(FreeBlocks')
  BY FreeBlocksFinite
<1>9. Room(0)'
  BY <1>6, <1>7, <1>8 DEF Room
<1>10. Removed'
  BY <1>1, <1>5, <1>6, <1>7, <1>9 DEF Removed, Existed
<1>11. CommandAt' /\ NothingShown'
  BY <1>1, <1>6 DEF CommandAt, NothingShown, WritePlaces
<1>12. Tale'
  BY <1>5, <1>6, <1>10, <1>11 DEF Tale
<1> QED BY <1>6, <1>12

\* It creates the file anew. Only where there was none before can that fail.
LEMMA CreateTold ==
    ASSUME ShellInv, StoreInv, StoreInv', Tale, write_create
    PROVE  Tale' /\ Visible
<1>1. /\ job.at = "create" /\ job.at # "prompt" /\ job.cmd = "write" /\ Quiet /\ Removed
      /\ shown = << >> /\ job.name \in Name /\ job.name \notin LongName /\ job.text \in Seq(Byte)
  BY FsAssumption DEF write_create, Call, Tale, CommandAt, NothingShown, WritePlaces, ShellInv, JobOK
<1>2. /\ Stored = Store!Without(before, job.name) /\ Room(0) /\ job.name \notin DOMAIN Stored
      /\ Existed => FreeInodes # {} /\ \E e \in Entry : ~root_dir[e].used
  BY <1>1 DEF Removed, Store!Without
<1>3. CASE Creatable(job.name)
  <2>1. fs_create(job.name) /\ Go("open")
    BY <1>3 DEF write_create, Call
  <2>2. Store!Manage /\ Store!Create(job.name)
    BY <1>1, <2>1, CreateStep
  <2>3. Stored' = Store!With(Stored, job.name, << >>) /\ Quiet'
    BY <1>1, <2>2 DEF Store!Manage, Store!Create, Quiet
  <2>4. /\ job'.at = "open" /\ job'.cmd = job.cmd /\ job'.name = job.name /\ job'.text = job.text
        /\ shown' = shown /\ before' = before /\ Visible
    BY <1>1, <2>1, GoesOn
  <2>5. Stored' = Store!With(before, job.name, SubSeq(job.text, 1, 0)) /\ 0 \in 0 .. Len(job.text)
    <3>1. SubSeq(job.text, 1, 0) = << >> /\ Len(job.text) \in Nat
      BY <1>1, PrefixEnds, LenProperties
    <3>2. Stored' = Store!With(before, job.name, << >>)
      BY <1>2, <2>3, SavingAnew, Zenon
    <3>3. 0 \in 0 .. Len(job.text)
      BY <3>1
    <3> QED BY <3>1, <3>2, <3>3, Zenon
  <2>6. Told(0)'
    BY <2>4, <2>5 DEF Told
  <2>7. Room(0)'
    BY <1>2, <2>1, <2>4 DEF Room, Existed, fs_create, FreeBlocks
  <2>8. CommandAt' /\ NothingShown'
    BY <1>1, <2>4 DEF CommandAt, NothingShown, WritePlaces
  <2>9. Tale'
    BY <2>3, <2>4, <2>6, <2>7, <2>8 DEF Tale
  <2> QED BY <2>4, <2>9
<1>4. CASE ~Creatable(job.name)
  <2>1. UNCHANGED fsvars /\ Go("prompt")
    BY <1>4 DEF write_create, Call
  <2>2. ~Existed
    <3>1. find_dirent(job.name) = {}
      BY <1>1, <1>2, FilesAre
    <3> QED BY <1>1, <1>2, <1>4, <3>1 DEF Creatable
  <2>3. Stored' = Stored /\ Quiet'
    BY <1>1, <2>1, NothingDone DEF Quiet
  <2>4. Stored = before
    BY <1>1, <2>2 DEF Removed
  <2>5. job'.at = "prompt" /\ shown' = << >> /\ job.cmd # "none"
    BY <1>1, <2>1 DEF Go, Prompt
  <2> QED BY <1>1, <2>1, <2>2, <2>3, <2>4, <2>5, Obeyed, ComesBack
<1> QED BY <1>3, <1>4

\* It can always open what it has created.
LEMMA OpenTold ==
    ASSUME ShellInv, StoreInv, StoreInv', Tale, write_open
    PROVE  Tale' /\ Visible
<1>1. /\ job.at = "open" /\ job.at # "prompt" /\ job.cmd = "write" /\ Told(0) /\ Room(0)
      /\ job.at \notin OpenPlaces \cup {"reading", "writing", "prompt"} /\ shown = << >>
      /\ Open("open", "write", "prompt")
  BY DEF write_open, Open, Tale, CommandAt, NothingShown, OpenPlaces, WritePlaces
<1>2. job.name \in DOMAIN Stored
  BY <1>1 DEF Told, Store!With
<1>3. /\ job'.at = "write" /\ job'.cmd = job.cmd /\ job'.name = job.name
      /\ job'.text = job.text /\ shown' = shown /\ before' = before
      /\ Stored' = Stored /\ Quiet' /\ FreeBlocks' = FreeBlocks /\ Positioned(0)' /\ Visible
  BY <1>1, <1>2, OpenResult
<1>4. Told(0)' /\ Room(0)'
  BY <1>1, <1>3 DEF Told, Room, Existed
<1>5. CommandAt' /\ NothingShown'
  BY <1>1, <1>3 DEF CommandAt, NothingShown, WritePlaces
<1>6. Tale'
  BY <1>3, <1>4, <1>5 DEF Tale
<1> QED BY <1>3, <1>6

\* fs_write begins with an empty file that has no blocks.
LEMMA StartTold ==
    ASSUME ShellInv, StoreInv, StoreInv', Tale, write_start
    PROVE  Tale' /\ Visible
<1>1. /\ job.at = "write" /\ job.at \in OpenPlaces /\ job.at # "prompt" /\ job.cmd = "write"
      /\ Quiet /\ Told(0) /\ Room(0) /\ Positioned(0) /\ shown = << >> /\ job.text \in Buffers
  BY DEF write_start, Call, Tale, CommandAt, NothingShown, OpenPlaces, WritePlaces, ShellInv, JobOK
<1> DEFINE i == fds[job.fd].inode
<1>2. /\ IsFile(job.fd) /\ job.fd \in Fd /\ i \in Files /\ fds[job.fd].offset = 0
  BY <1>1, DescriptorIs DEF Positioned
<1>3. Length(i) = 0
  <2>1. Length(i) = Len(Stored[job.name]) /\ job.text \in Seq(Byte)
    BY <1>1, OpenedIs, FsAssumption DEF Positioned
  <2>2. Stored[job.name] = SubSeq(job.text, 1, 0)
    BY <1>1 DEF Told, Store!With
  <2>3. SubSeq(job.text, 1, 0) = << >>
    BY <2>1, PrefixEnds
  <2> QED BY <2>1, <2>2, <2>3, EmptySeq
<1>4. fs_write(job.fd, job.text) /\ Go("writing")
  BY <1>2 DEF write_start, Call
<1>5. /\ call' = [op |-> "write", fd |-> job.fd, buf |-> job.text, done |-> 0,
                  count |-> Smaller(Len(job.text), MaxBytes - fds[job.fd].offset)]
      /\ UNCHANGED <<block_bitmap, inodes, fds, out>>
  BY <1>4 DEF fs_write
<1>6. /\ call'.op = "write" /\ call'.fd = job.fd /\ call'.buf = job.text /\ call'.done = 0
      /\ call'.count = Smaller(Len(job.text), MaxBytes)
  BY <1>2, <1>5, FsConstants
<1>7. Stored' = Stored /\ Handles' = Handles
  BY <1>1, <1>2, <1>4, WriteStartStep DEF Store!StartWrite
<1>8. /\ job'.at = "writing" /\ job'.cmd = job.cmd /\ job'.name = job.name /\ job'.fd = job.fd
      /\ job'.text = job.text /\ shown' = shown /\ before' = before /\ Visible
  BY <1>1, <1>4, GoesOn
<1>9. Pos' = 0 /\ Ino' = i
  BY <1>2, <1>5, <1>6 DEF Pos, Ino
<1>10. Blocks(0)'
  <2>1. ASSUME NEW s \in Slot PROVE inodes'[Ino'].blocks[s] # 0 <=> s < 0
    <3>1. s \in Nat /\ FS_BLOCK_SIZE \in Nat \ {0}
      BY FsConstants
    <3>2. s * FS_BLOCK_SIZE \in Nat
      BY <3>1, BlockOrder
    <3>3. inodes[i].blocks[s] # 0 <=> s * FS_BLOCK_SIZE < 0
      BY <1>2, <1>3 DEF StoreInv, FsInv, SizeIsBacked
    <3> QED BY <1>5, <1>9, <3>1, <3>2, <3>3
  <2> QED BY <2>1 DEF Blocks
<1>11. Room(0)' /\ Told(0)' /\ Positioned(0)'
  BY <1>1, <1>5, <1>7, <1>8 DEF Room, Existed, FreeBlocks, Told, Positioned
<1>12. Writing'
  <2>1. Told(Pos)' /\ Positioned(Pos)'
    BY <1>9, <1>11 DEF Told, Positioned
  <2>2. out' = << >>
    BY <1>1, <1>5 DEF Quiet
  <2>3. 0 \in Nat
    OBVIOUS
  <2> QED BY <1>6, <1>8, <1>9, <1>10, <1>11, <2>1, <2>2, <2>3 DEF Writing
<1>13. CommandAt' /\ NothingShown'
  BY <1>1, <1>8 DEF CommandAt, NothingShown, WritePlaces
<1>14. Tale'
  BY <1>8, <1>12, <1>13 DEF Tale
<1> QED BY <1>8, <1>14

\* An iteration of fs_write adds the next bytes of the text to the file.
LEMMA WriteBlockTold ==
    ASSUME ShellInv, StoreInv, StoreInv', Tale, job.at = "writing",
           fs_write_block, UNCHANGED shvars
    PROVE  Tale' /\ Visible
<1>1. /\ job.at # "prompt" /\ job.cmd = "write" /\ Writing /\ shown = << >>
      /\ job.text \in Seq(Byte) /\ job' = job /\ shown' = shown /\ before' = before
  BY FsAssumption DEF Tale, CommandAt, NothingShown, WritePlaces, ShellInv, JobOK, shvars
<1>2. /\ Told(Pos) /\ Positioned(Pos) /\ out = << >> /\ call.op = "write" /\ call.fd = job.fd
      /\ call.buf = job.text /\ call.done = Pos
      /\ call.count = Smaller(Len(job.text), MaxBytes) /\ \E q \in Nat : Blocks(q) /\ Room(q)
  BY <1>1 DEF Writing
<1>3. /\ Pos \in Nat /\ Piece \in Nat /\ Pos' = Pos + Piece /\ Piece <= call.count - call.done
      /\ call.done \in Nat /\ call.count \in Nat /\ call.count <= Len(call.buf)
      /\ call'.op = call.op /\ call'.fd = call.fd /\ call'.buf = call.buf
      /\ call'.count = call.count /\ call'.done = call.done + Piece
      /\ call.fd \in Fd /\ fds[call.fd].used
  BY WritePosition DEF StoreInv
<1>4. Len(job.text) \in Nat /\ Pos + Piece \in 0 .. Len(job.text) /\ Pos + Piece <= Len(job.text)
  <2>1. Len(job.text) \in Nat
    BY <1>1, LenProperties
  <2> QED BY <1>2, <1>3, <2>1
<1>5. Store!Write(Piece)
  BY WriteBlockStep
<1>6. Pending = [op |-> "write", fd |-> job.fd, rest |-> SubSeq(job.text, Pos + 1, Len(job.text))]
  BY <1>2 DEF Pending
<1> DEFINE rest == SubSeq(job.text, Pos + 1, Len(job.text))
           new  == SubSeq(job.text, 1, Pos + Piece)
<1>7. Pending.fd = job.fd /\ Pending.rest = rest
  BY <1>6
<1>8. SubSeq(rest, 1, Piece) = [j \in 1 .. Piece |-> job.text[Pos + j]]
  <2>1. /\ job.text \in Seq(Byte) /\ Pos \in Nat /\ Piece \in Nat /\ Pos + Piece <= Len(job.text)
        /\ rest = SubSeq(job.text, Pos + 1, Len(job.text))
    BY <1>1, <1>3, <1>4
  <2> HIDE DEF rest
  <2> QED BY <2>1, RestIs, SMTT(40)
<1> HIDE DEF rest
<1>9. Stored[job.name] = SubSeq(job.text, 1, Pos)
  <2>1. Stored = Store!With(before, job.name, SubSeq(job.text, 1, Pos))
    BY <1>2 DEF Told
  <2> QED BY <2>1 DEF Store!With
<1>10. Store!Overlay(Stored[job.name], Pos, SubSeq(rest, 1, Piece)) = new
  <2>1. Store!Overlay(SubSeq(job.text, 1, Pos), Pos, [j \in 1 .. Piece |-> job.text[Pos + j]]) = new
    BY <1>1, <1>3, <1>4, PrefixGrows
  <2> QED BY <1>8, <1>9, <2>1, Zenon
<1> HIDE DEF new
<1>11. /\ Stored' = [Stored EXCEPT ![job.name] = new]
       /\ Handles' = Store!Advance(job.fd, Piece) /\ out' = << >>
  <2>1. /\ Stored' = [Stored EXCEPT ![Handles[Pending.fd].name] =
                        Store!Overlay(Stored[Handles[Pending.fd].name], Handles[Pending.fd].offset,
                                      SubSeq(Pending.rest, 1, Piece))]
        /\ Handles' = Store!Advance(Pending.fd, Piece) /\ out' = out
    BY <1>5, Zenon DEF Store!Write
  <2>2. Handles[Pending.fd].name = job.name /\ Handles[Pending.fd].offset = Pos
    BY <1>2, <1>7 DEF Positioned
  <2> QED BY <1>2, <1>7, <1>10, <2>1, <2>2, Zenon
<1>12. Told(Pos)'
  <2>1. Stored' = Store!With(before, job.name, new)
    <3>1. Stored = Store!With(before, job.name, SubSeq(job.text, 1, Pos))
      BY <1>2 DEF Told
    <3>2. [Store!With(before, job.name, SubSeq(job.text, 1, Pos)) EXCEPT ![job.name] = new]
            = Store!With(before, job.name, new)
      BY DEF Store!With
    <3> QED BY <1>11, <3>1, <3>2
  <2>2. new = SubSeq(job'.text, 1, Pos')
    BY <1>1, <1>3 DEF new
  <2>3. Pos' \in 0 .. Len(job'.text)
    BY <1>1, <1>3, <1>4
  <2> QED BY <1>1, <2>1, <2>2, <2>3 DEF Told
<1>13. Positioned(Pos)'
  <2>1. job.fd \in DOMAIN Handles
    BY <1>2, <1>3, Opened
  <2>2. Handles'[job.fd].name = Handles[job.fd].name
        /\ Handles'[job.fd].offset = Handles[job.fd].offset + Piece
    BY <1>11, <2>1, Advancing
  <2> QED BY <1>1, <1>2, <1>3, <2>2 DEF Positioned
<1>14. \E q \in Nat : Blocks(q)' /\ Room(q)'
  <2>1. PICK q \in Nat : Blocks(q) /\ Room(q)
    BY <1>2
  <2>2. PICK p \in Nat : Blocks(p)' /\ p + Cardinality(FreeBlocks') = q + Cardinality(FreeBlocks)
    BY <2>1, WriteKeepsRoom
  <2>3. Room(p)'
    BY <1>1, <2>1, <2>2 DEF Room, Existed
  <2> QED BY <2>2, <2>3
<1>15. Writing'
  BY <1>1, <1>2, <1>3, <1>11, <1>12, <1>13, <1>14 DEF Writing
<1>16. CommandAt' /\ NothingShown'
  BY <1>1 DEF CommandAt, NothingShown, WritePlaces
<1>17. Tale'
  BY <1>1, <1>15, <1>16 DEF Tale
<1>18. Visible
  BY <1>1, StillObeying DEF Visible
<1> QED BY <1>17, <1>18

\* fs_write returns: all of the text is there, or as much as there was before.
LEMMA WriteReturnTold ==
    ASSUME ShellInv, StoreInv, StoreInv', Tale, job.at = "writing",
           fs_write_return, Go("close")
    PROVE  Tale' /\ Visible
<1>1. job.at # "prompt" /\ job.cmd = "write" /\ Writing /\ shown = << >>
  BY DEF Tale, CommandAt, NothingShown, WritePlaces
<1>2. Told(Pos) /\ out = << >> /\ Pos \in 0 .. Len(job.text)
  BY <1>1 DEF Writing, Told
<1>3. Stored' = Stored /\ out' = out /\ Pending' = Store!NoJob
  BY WriteReturnStep DEF Store!EndWrite
<1>4. /\ job'.at = "close" /\ job'.cmd = job.cmd /\ job'.name = job.name
      /\ job'.text = job.text /\ shown' = shown /\ before' = before /\ Visible
  BY <1>1, GoesOn
<1>5. Existed => Pos >= Len(job.text) \/ Pos >= Len(before[job.name])
  BY <1>1, WriteEndsLate
<1>6. Written
  BY <1>2, <1>5 DEF Written
<1>7. Written' /\ Quiet'
  BY <1>2, <1>3, <1>4, <1>6 DEF Written, Told, Existed, Quiet
<1>8. CommandAt' /\ NothingShown'
  BY <1>1, <1>4 DEF CommandAt, NothingShown, WritePlaces
<1>9. Tale'
  BY <1>1, <1>4, <1>7, <1>8 DEF Tale
<1> QED BY <1>4, <1>9

-----------------------------------------------------------------------------
\* Every step of the shell.
LEMMA TaleStep ==
    ASSUME ShellInv, StoreInv, StoreInv', Tale, [ShellNext]_vars
    PROVE  Tale' /\ Visible
<1>1. CASE UNCHANGED vars
  <2>1. job' = job /\ shown' = shown /\ before' = before /\ UNCHANGED fsvars
    BY <1>1 DEF vars, shvars
  <2>2. /\ Stored' = Stored /\ Handles' = Handles /\ Pending' = Pending /\ out' = out
        /\ FreeBlocks' = FreeBlocks
    BY <2>1, NothingDone
  <2>3. UNCHANGED <<inodes, fds, call, root_dir, inode_bitmap>>
    BY <2>1 DEF fsvars
  <2>4. Visible
    BY <2>1, <2>2 DEF Visible, Promise!pvars, AtPrompt
  <2>5. Pos' = Pos /\ Ino' = Ino /\ FreeInodes' = FreeInodes
    BY <2>3 DEF Pos, Ino, FreeInodes
  <2>6. CommandAt' /\ NothingShown' /\ (Quiet' <=> Quiet)
    BY <2>1, <2>2 DEF Tale, CommandAt, NothingShown, Quiet
  <2>7. /\ Untouched' <=> Untouched
        /\ Existed' <=> Existed
        /\ Removed' <=> Removed
        /\ Reading(shown)' <=> Reading(shown)
        /\ Fetching' <=> Fetching
        /\ Written' <=> Written
        /\ Told(0)' <=> Told(0)
        /\ Room(0)' <=> Room(0)
        /\ Positioned(0)' <=> Positioned(0)
    BY <2>1, <2>2, <2>3, <2>5 DEF Untouched, Existed, Removed, Reading, Fetching, Written, Told, Room, Positioned
  <2>8. Writing' <=> Writing
    BY <2>1, <2>2, <2>3, <2>5 DEF Writing, Told, Positioned, Blocks, Room, Existed
  <2>9. Tale'
    <3>1. job'.at = job.at /\ job'.cmd = job.cmd
      BY <2>1
    <3>2. job.name = job'.name /\ shown' = shown /\ before' = before
      BY <2>1
    <3> QED BY <2>6, <2>7, <2>8, <3>1, <3>2, ZenonT(40) DEF Tale
  <2> QED BY <2>4, <2>9
<1>2. CASE \E r \in Request : shell_run(r)
  BY <1>2, RunTold
<1>3. CASE Command
  <2>1. CASE cmd_fs_touch \/ cmd_fs_rm \/ close
    BY <2>1, TouchTold, RmTold, CloseTold
  <2>2. CASE cmd_fs_cat
    BY <2>2, CatOpenTold, CatReadTold, CatReadingTold DEF cmd_fs_cat
  <2>3. CASE write_writing
    BY <2>3, WriteBlockTold, WriteReturnTold DEF write_writing
  <2>4. CASE cmd_fs_write /\ ~write_writing
    BY <2>4, TestTold, TestCloseTold, UnlinkTold, CreateTold, OpenTold, StartTold DEF cmd_fs_write
  <2> QED BY <1>3, <2>1, <2>2, <2>3, <2>4 DEF Command
<1> QED BY <1>1, <1>2, <1>3 DEF ShellNext

\* The user of the shell sees whole commands: write replaces a file by its text
\* or the beginning of it, and by no less than the file held before; a write that
\* fails half way loses no name; cat prints all of a file; no other file changes.
THEOREM ShellKeepsPromise == ShellSpec => ImplementsShell
<1>1. ShellInit => ShellInv /\ StoreInv /\ Tale /\ Promise!PromptInit
  <2> SUFFICES ASSUME ShellInit PROVE ShellInv /\ StoreInv /\ Tale /\ Promise!PromptInit
    OBVIOUS
  <2>1. fs_init /\ job = Prompt /\ shown = << >> /\ job.at = "prompt" /\ job.cmd = "none"
    BY DEF ShellInit, Prompt
  <2>2. StoreInv /\ Stored = << >> /\ Pending = Store!NoJob /\ out = << >>
    BY <2>1, InitStore, FsInitInv DEF StoreInv, Store!StoreInit
  <2>3. Tale
    BY <2>1, <2>2 DEF Tale, CommandAt, NothingShown, Quiet, WritePlaces
  <2>4. Promise!PromptInit
    BY <2>1, <2>2 DEF Promise!PromptInit, Promise!NoCommand, AtPrompt
  <2> QED BY <2>2, <2>3, <2>4, ShellInitInv
<1>2. ShellInv /\ StoreInv /\ [ShellNext]_vars => ShellInv' /\ StoreInv'
  <2> SUFFICES ASSUME ShellInv, StoreInv, [ShellNext]_vars PROVE ShellInv' /\ StoreInv'
    OBVIOUS
  <2>1. ShellInv' /\ [FsNext]_fsvars
    BY ShellStep DEF StoreInv, FsInv
  <2>2. NamesGiven /\ UNCHANGED fsvars => NamesGiven'
    BY DEF NamesGiven, fsvars
  <2> QED BY <2>1, <2>2, FsNextInv, NamesStay DEF StoreInv
<1>3. ShellInv /\ StoreInv /\ StoreInv' /\ Tale /\ [ShellNext]_vars => Tale' /\ Visible
  BY TaleStep
<1> QED BY <1>1, <1>2, <1>3, PTL DEF ShellSpec, ImplementsShell, Promise!PromptSpec, Visible
=============================================================================
