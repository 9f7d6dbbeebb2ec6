# SENG21213-OS in TLA+

SENG21213-OS is a teaching kernel for 32-bit x86: a boot sector, a
single-address-space kernel with a preemptive round-robin scheduler, threads and
a mutex, a physical frame allocator, a RAM-disk file system and a shell.  This
directory holds TLA+ models of its parts, TLC configurations that check them on
small instances, and TLAPS proofs of the results that hold for every size.

All paths below are relative to the repository (`src/`).

## 1. Inventory

| Part | State | Operations | Hard part | What makes it correct |
|---|---|---|---|---|
| process table (`kernel/process.c`) | `process_table[16]` (state, esp), `current_pid` | `process_init`, `process_create`, `process_terminate` | `process_create` runs in the shell with interrupts on and publishes `state` before `esp` | a READY slot can be resumed; slots follow one life cycle |
| scheduler (`kernel/scheduler.c`, `kernel/switch.asm`) | the same | `scheduler_tick`, `scheduler_yield`, `scheduler_unblock` | ticks between any two instructions; test-then-store in `scheduler_unblock` | one RUNNING process; the CPU never executes a process that gave it up; nobody starves |
| threads (`kernel/thread.c`) | none of their own | `thread_create`, `thread_exit` | a failed create goes unnoticed | as for processes |
| mutex (`kernel/mutex.c`) | `locked`, `owner`, `waiters[]`, `nwaiters` | `mutex_init`, `mutex_lock`, `mutex_unlock` | the waiter list is used without protection; a window between the failed `xchg` and being listed | exclusion; no sleeper forgotten; list in bounds |
| demos (`kernel/kernel.c`) | `myglobal`, `race_done`, `race_mutex` | `task_a/b`, `race`, `racem`, `kill` | lost updates; a second `racem`; killing a holder | `racem` counts exactly, `race` loses a bounded number |
| interrupts (`kernel/idt.c`, `pic.c`, `pit.c`, `isr_stub.asm`) | IDT gates, interrupt flag, the 8259's requests, in-service bits and mask | `idt_init`, `pic_init`, `irq0_handler`, `irq1_handler`, `pic_send_eoi` | a second end-of-interrupt, sent late and perhaps for another interrupt; handlers that nest in the tail of `irq0_handler` | the switch looks indivisible; an interrupt in service is ended by its own handler; the timer never falls silent |
| frame allocator (`kernel/pmm.c`) | frame bitmap, `free_frames`, `total_frames` | `pmm_init`, `pmm_alloc_frame`, `pmm_free_frame` | an arbitrary memory map: overlap, 32-bit wrap, unaligned bounds | the count matches the bitmap; all that the map offers is freed and nothing else; no frame handed out twice; reserved memory stays reserved |
| file system (`kernel/fs.c`) | two bitmaps, inode table, root directory, descriptor table, RAM disk | `fs_init/create/open/read/write/close/unlink` | running out of blocks inside a write; pieces that cross blocks; inode reuse | tables agree; blocks not shared; reading returns what was written |
| shell (`kernel/kernel.c`) | the command line | `touch`, `cat`, `write`, `rm` and about ten more | a command is several calls, any of which may fail | a command does what it says as a whole, and closes what it opened |
| console (`kernel/vga.c`) | cursor, attribute, screen | `vga_putchar`, `vga_puts`, `vga_clear` | several processes print through one cursor without a lock | the cursor comes back onto the screen; the screen is what was printed |
| keyboard (`kernel/keyboard.c`) | `shift_held`, the line buffer | `kb_getchar`, `kb_readline` | two shift keys; line editing at the limits of buffer and row | the line stays in its buffer and is what the user sees; shift does not stick |
| boot (`boot/boot.asm`, `kernel/kernel_entry.asm`) | - | load, mode switch | hardware only | not modelled |

How they interact.  `kernel_main` initialises everything with interrupts off,
creates the two demo tasks and executes `sti`; from then on process 0 is the
shell.  The timer calls `scheduler_tick`, which may switch to another process in
the middle of anything not bracketed by `cli`/`sti`.  Threads share `myglobal` and
`race_mutex`; the mutex uses `process_table` and the scheduler directly.  The
file system is called by the shell only, the keyboard is polled by it, and the
console is used by everybody.  Nothing calls the frame allocator yet except
`meminfo`.  `kernel/shell.c`, `boot/switch.asm` and some headers of `include/` are
older versions that the Makefile does not build.

The things that are hard to test in this code are listed, line by line, under
`hazards` in `PROJECT.json`.

## 2. Modules

| Module | Models |
|---|---|
| `Scheduler` | process table, scheduler, context switch; programs left open |
| `Interrupts` (extends `Scheduler` and implements it) | the 8259, gates, handlers, and the context switch store by store |
| `RaceDemo` (extends `Scheduler`) | mutex, demo threads and tasks, the shell's `race`, `racem`, `kill` |
| `AtomicCounter` | abstract: threads with an indivisible increment |
| `FileSystem` | the RAM-disk file system |
| `FileStore` | abstract: named byte sequences and forward-moving handles |
| `Shell` (extends `FileSystem`) | the commands `touch`, `cat`, `write`, `rm` |
| `ShellStore` | abstract: named texts that whole commands change |
| `Console` | the screen and its cursor, used by several processes |
| `Terminal` (extends `Console`) | the keyboard, the line, the shell's prompt |
| `Pmm` | the frame allocator |
| `SchedulerProofs`, `InterruptProofs`, `RaceDemoProofs`, `FileSystemProofs`, `StoreProofs`, `ShellProofs`, `TerminalProofs`, `PmmProofs` | theorems and proofs |
| `MCFileSystem`, `MCShell`, `MCPmm` | constants for TLC (the other modules need none) |
| `MCOverflow` (extends `RaceDemo`) | restricts the timer, to reach a long behaviour |

Actions carry the names of the C functions.  An operator introduced by a comment
"Fault: ..." is a deliberately wrong variant of the definition after it, used to
confirm that the properties can fail; no specification refers to it.

### Scheduler

A step is what no tick can split: one access to shared memory, or a stretch
under `cli`.  `state`, `esp` and `current_pid` are the C variables; `esp` keeps
only whether there is a frame and of which kind.  `ctl` and `arg` say where a
preempted process is inside kernel code (between the two stores of
`process_create`, between the test and the store of `scheduler_unblock`, between
blocking and yielding, in the `hlt` loop).  `pick_and_switch` is one step because
both its callers run with interrupts off; `Interrupts` shows that this is so.
Resuming a process with `esp = 0` puts it in `ctl = "wild"`: the machine has
crashed and nothing is said about what follows, except that its table can still
be inspected.  `tick_count`, names and the `pid` field of the PCB are not read by
the logic and are left out.

### Interrupts

`pic` is the master 8259 (latched requests, in-service bits, mask, vector
offset), `gates` the vectors with a present IDT entry, `iflag` the interrupt
flag.  `pos` is where the CPU is: a step of the boot sequence, the code of a
process, or a place in a handler or in `pick_and_switch`.  `stack` is the process
whose stack is in use, which differs from `current_pid` between the store and the
switch, and `ret[p]` holds the places at which `p` was interrupted, the innermost
last.  A process that is suspended by a tick resumes in the tail of
`irq0_handler`, with interrupts on again: it sends its second end-of-interrupt
there, and may itself be interrupted there.  `raise`, `accept`, `Offered` and
the effect of the end-of-interrupt are the hardware's, modelled from how the code
programs it; the BIOS leaves the controller at vector 8 with everything unmasked,
which is why the order of the boot steps matters.  `Undisturbed` lets the CPU
take an offered interrupt before the next instruction.  For the refinement,
`Undone` takes back the stores of a switch that is in progress: the switch
happens, for `Scheduler`, when the stacks are exchanged.

### RaceDemo

Adds the mutex (`mutex`, a record with the fields of `mutex_t`), `myglobal`, and
per process its program (`entry`), position (`pc`), remaining iterations (`left`)
and one register (`reg`).  `myglobal` is volatile, so `myglobal++` is a load and a
store.  `nwaiters` is not volatile: the compiler may hoist its read in
`mutex_unlock` above the stores to `owner` and `locked` (gcc -O2 does), and
`read_nwaiters` may happen at any point up to the test.  `waiters` has
`MAX_PROCESSES` entries and is followed in memory by `nwaiters`, which `park`
models.  `race_mutex` is static and starts zeroed.  `race_done` is written and
never read.  `typed` is the history of the commands given, each from `Commands`,
`MAX_COMMANDS` at most.

### FileSystem

The structures of `fs.c` with block contents.  Calls do not overlap, but each
iteration of the loops of `fs_read` and `fs_write` is a step.  Calls that return
an error change nothing and are stuttering steps.  The inode's own copy of the
name is never read.  `fs_list` and `fs_size` only read.  The refinement maps a file
to the bytes its blocks hold below its length (`Stored`), a descriptor to the
file's name and an offset (`Handles`), and the loop counters to what the call has
yet to transfer (`Pending`).  `FileStore` then says that a read returns all that
was asked for and is there, and that a write that stops early has stored the
beginning of its buffer.

### Shell

`job` is the command being obeyed, with its name, its text, its descriptor and
the place in the command's code; `Call` and `Open` are the calls it makes, with
the place it goes on from on success and on failure.  Here calls that fail
matter, because their caller goes on.  `shown` is what `cat` has printed.
`write` copies the name into a buffer of `FS_MAX_NAME` = 24 bytes: `Parsed` maps a long name to
its beginning (`Cut`) and puts the characters left over (`Rest`) in front of the
text.  The history `before` holds the files as they were when the command was
typed, so that, for `ShellStore`, a command happens at once when it ends.

### Console

`vga_putchar` loads the cursor into registers on entry and goes on working with
these (as gcc -O2 compiles it), so each access to `cursor_row`, `cursor_col` and
the screen is a step, and `io[p]` holds the place and the registers of each
process that prints.  Copying rows in `scroll_up` and blanking in `vga_clear` are
one step each: what is on the screen is spoken of only while no two calls overlap
(the history `mixed` remembers that they did).  The history `paper` is what a user expects: an
endless sheet on which the same characters are printed, with the place the next
one goes to; `Sheet` says what a character does to it.

### Terminal

`port` holds the bytes the keyboard has sent and the driver has not read, `down`
the shift keys that are down, `line` the buffer of `kb_readline`, `out` what
process 0 has yet to print.  `Key` has one member for each case the translation
tables distinguish.  Keys are pressed and released between any two characters of
process 0, which is when a difference could be seen.  The other processes print a
short message each.  The history `home` is the column the line begins in, as
long as the line is on the screen as it was typed.

### Pmm

The bitmap is the set of used frames.  `map` is what `pmm_init` finds at 0x8000,
any member of the constant `Maps`, and `scan` is where its loops are: the entry
`i`, the address `a` and the address `end` the inner loop runs up to.  Each
iteration is a step (`next_entry`, `next_frame`, and `low_frame` for the second
loop): it tests the bit, clears it and counts, as `Clear` says.  Addresses are cut
to `WORD` values as `uint32_t` does, the loop variable included.  The other
operations begin when `pmm_init` has returned (`Ready`).  `Offered` is what a map
says without any loop: the frames of its usable entries, for comparison.  Since no
caller exists, the model's callers follow the interface: they free addresses they
were given, once.

## 3. What is checked

Passing runs:

| Run | Instance | States | Shows |
|---|---|---|---|
| `scheduler` | 4 slots, 2 boot tasks | 40,678 | type; blocked and terminated processes run no code (`CodeRunsOnlyWhenRunning`); frames (`ReadyHasFrame`); `LifeCycle`; no starvation (`ReadyRuns`) |
| `interrupts` | 3 slots, 1 boot task, up to 2 handlers of one process interrupted | 53,708 | no interrupt without a gate (`EveryVectorHasAGate`); the second end-of-interrupt ends nobody else's interrupt (`InServiceIsMasked`); the table is consistent whenever an interrupt can come (`ConsistentWhenEnabled`); refinement of `Scheduler` (`ImplementsScheduler`); `TimerNeverSilent` |
| `demos` | 5 slots, 2 boot tasks, one `race` or `racem` of 2 iterations, thread 3 may be killed | 63,264 | `MutualExclusion`, `SleeperIsListed`, the waiter list stays in its array (`WaitersInBounds`), refinement of `AtomicCounter` (`CountsAtomically`), `HolderReleases`; without the mutex the count ends between 2 and the full count (`RaceBounds`) and the threads end (`RaceEnds`) |
| `overlap` | 4 slots, `racem` typed twice: the fourth thread finds the table full | 281,701 | refinement of `Scheduler` (`UsesScheduler`), also by a mutex that pops stale pids |
| `file_system` | blocks of 2 bytes, 3 data blocks, 2 files of up to 3 blocks, 2 descriptors, writes of 3 bytes, reads of 2 or 3 | 151,029 | bitmaps, inodes, directory and descriptors agree (`BitmapsMatchTables`, `BlocksNotShared`, `DirectoryMatchesInodes`, `OpenFilesExist`, `SizeIsBacked`); refinement of `FileStore` (`ImplementsStore`) |
| `shell` | blocks of 2 bytes, 3 data blocks, 2 files of up to 2 blocks, 2 descriptors, three short names and a long one, texts of 1 and 3 bytes | 148,877 | `NothingLeftOpen`; refinement of `ShellStore` (`ImplementsShell`); every command ends (`PromptReturns`) |
| `terminal` | screen of 2 x 4, one printing task, a buffer of 3, 3 keys, 1 byte waiting | 3,080,052 | the line stays in its buffer; `CursorComesBack`, `ScreenIsSheet`, `EchoMatchesBuffer`, `ShiftIsDown` |
| `pmm` | 12 frames of 2 bytes, 5-bit addresses, an unaligned kernel end, every map of up to two entries from a set with overlapping, unaligned and wrapping ones | 106,641 | each frame counted once at every iteration (`CountMatchesBitmap`); `pmm_init` frees what the map offers, and no frame is handed out twice or lost (`FramesAccountedFor`); RAM disk and kernel, but for its last frame, reserved (`ReservedStaysReserved`) |

Runs in which TLC refutes what the source says of itself:

| Run | Statement | What happens |
|---|---|---|
| `lost_wakeup` | `kernel.c:287` "Expect exactly myglobal = 200000, every single run." | a thread that lost the `xchg` is unlocked past before it is listed, then sleeps for ever |
| `overflow` | `mutex.h:10` `waiters[MAX_PROCESSES]` is the "blocked pid queue" | with the four threads of two `racem`s the list grows, one round at a time, until a `mutex_lock` writes past its end, over `nwaiters` |
| `resurrection` | `process.c:103` "The scheduler will skip TERMINATED slots" | `scheduler_unblock` stores READY over a TERMINATED stored by `kill` after its test |
| `half_created` | `process.c:44` the frame "starts the process correctly" | a tick between the stores of `state` and `esp` resumes a process that has no frame |

`overflow` needs a long behaviour (159 states).  An unlock that a tick interrupts
between its read of `nwaiters` and its write stores the old count minus one over a
list that others have popped meanwhile, so that entries come back; two unlocks
that take turns at this make the list longer by one every round.  `Guide` in
`MCOverflow` lets the timer strike only where it matters for this, and `Place`
leaves out of the comparison of states what cannot influence it; both only leave
behaviours out, and what TLC finds is a behaviour of `RaceSpec`.

Noticed while modelling, without a run of their own:

- A second `racem` reinitialises a mutex that is held, so two threads get into the
  critical section, although `kernel.c:755` says the increment is "protected by a
  mutex".  TLC finds it at once when `MutualExclusion` is checked with two `racem`
  commands, and `RaceMutualExclusion` is proved for one.

- `process.c:104` says that stack memory is reclaimed "when the slot is reused";
  no slot is ever reused.
- `pmm.c:8` says of the kernel's end that no frame "at or below this" is handed
  out; an unaligned `_kernel_end` is rounded down, and the frame with the kernel's
  last bytes is free.  `ReservedStaysReserved` therefore excepts that frame.
- `pmm.c:44` says "Skip the first 1 MB"; the code skips only up to the end of the
  kernel, which is lower.
- `pmm.c:29` says only frames are freed that the map "says are usable RAM"; the base
  of an entry above 4 GB is cut to 32 bits, and the frames it then names are freed.
  `Offered` follows the code.
- `pmm.h:6` and `kernel.c` say `boot.asm` leaves an E820 map at 0x8000;
  `boot.asm` writes none.
- `mutex.h:10` calls the waiter list a FIFO; `mutex_unlock` pops its end.
- `cursor_row` has no bound: processes that break lines at the bottom of the
  screen in turn can push it further and further down before one of them scrolls
  (`CursorComesBack` says that one of them will).
- The timer has priority over the keyboard on the 8259, so nothing but the speed
  of the handlers keeps the keyboard's request from waiting.
- Backspace at column 0, after the line has wrapped, leaves the character of the
  row above on the screen though it is gone from the buffer.
- A line that fills the buffer becomes a command without Enter.
- The keypad is dead while shift is held: the table of shifted characters ends
  before it.
- `ps` prints its "%-10s" as it stands, because `vga_printf` has no field widths.
- `write` with a name of more than 23 characters replaces the file named by the
  first 23; `touch` refuses such a name.

Bounds.  Four or five process slots give the kernel, the boot tasks and the two
threads of a demo; the scan of `pick_and_switch` wraps and skips slots in every
state.  Two iterations let each thread meet the mutex free, held and contended,
and let it come back for it after having been woken; they also make 2, 3 and 4
possible in `race`.  `RaceSpec` is bounded by `Commands` and `MAX_COMMANDS`.
`overlap` has three threads, enough for two waiters and for two unlocks at once;
`overflow` has the four that it takes to keep two unlocks stalled in turn.
In `interrupts`, `MAX_NEST` stops new requests once a process has two handlers
interrupted: that is enough for a tick and a key in the tail of a tick, in each
order, on the stack of each of three processes.  In `file_system` the three data
blocks are fewer than two full files need, so writes end early, before or after
they have taken a block; three bytes are one and a half blocks, so pieces start
inside a block, cross its end, and are cut at the end of the file and at the
largest file size.  The number of inodes, descriptors and directory entries is
small enough to run out of each.  `shell` has texts of less than a file and, with
the rest of a long name before them, of a whole file; two of the longest do not
fit on the disk, so that writes end early.  (A line of the shell is shorter than
the largest file, so no text is too long for one.)  In `pmm`, entries begin below
the kernel's end, behind it at an odd address, at the top of the address space and
above it; they end inside and behind RAM and wrap to an end before their
beginning; pairs of them overlap at the same and at different offsets within a
frame, and two are already a count that is not believed.  In `terminal` the
screen scrolls, lines wrap and the tab stop is reached within a few characters;
`MAX_KEYS` presses fill the buffer and rub it out again, and `MAX_PORT` is what a
keyboard controller holds.

Deadlock is checked in `file_system`, `shell` and `pmm`.  Elsewhere the system may
stop: a crashed machine takes no more steps, and the bounds on keys and commands
end the other runs.

Fairness.  `scheduler_tick` is weakly fair: the PIT raises IRQ0 a hundred times a
second and no code keeps interrupts off for longer than a few instructions.  The
steps of each process are strongly fair in `RaceFairness`: a process is enabled
only while it is on the CPU, and a time slice of 10 ms is thousands of its
instructions, so one that is scheduled again and again makes progress.
`FairIntSpec` assumes what lies under that: the CPU executes its instructions
(weak fairness of the boot steps and of the handlers) and the PIT does not stop
(`raise(TIMER)`, strongly fair because `MAX_NEST` may hold a request back again
and again).  Nothing is assumed of keys or of the user.  `FairShellSpec` lets the
shell go on with the command it obeys.

## 4. What is proved

Eight modules of proofs, 36 theorems listed in `PROJECT.json`.  The assumptions
are the named `ASSUME`s on the constants, no more.

`SchedulerProofs`, for every `MAX_PROCESSES` and `BOOT_TASKS < MAX_PROCESSES`:
`SchedTypeCorrect`, `CpuOwnership`, `FrameAvailable`, `LifeCycleHolds`.
`ReadyHasFrame` is not inductive: a wake-up turns a BLOCKED or TERMINATED process
READY.  The inductive invariant `SchedInv` therefore owes a frame to every process
off the CPU (`OffCpuHasFrame`), says that a wake-up in flight aims at another
process, neither the kernel nor a free slot (`WakeAimsAtOther`), and that the
kernel process is in its own code or in `process_create` (`KernelPlace`).  The
central lemma, `PickEffect`, is arithmetic: the cyclic scan reaches process 0 from
every other slot, and process 0 is READY whenever it is not running, so a process
that blocks always finds somebody to switch to.

`InterruptProofs`, for every number of processes and however deep handlers nest:
`GatesInPlace`, `EoiEndsOwn`, `ConsistentAlways`, `MachineImplementsScheduler`,
`InterruptTypes`.
`IntInv` gives the boot order, the interrupt flag and the in-service bits by
place, the frames on the stacks, and what `current_pid`, `stack` and `to` are at
each store of a switch.  The simulation needs `Scheduler`'s own invariant in the
abstract state, so `IntInv` carries `SchedInv` under the refinement mapping, and
the lemmas of `SchedulerProofs` are used through an instance.  `InterruptTypes`
needs a second one, `NestInv`, for the length of the stacks of frames: a request is
raised only while the stack in use is shallow, one that is latched is taken before
more code runs, and the timer's goes first, so of the two lines only a key's
can still come in on top of a full stack, and with interrupts off until its `iret`.

`RaceDemoProofs`, for every number of slots, iterations and commands:

- `RaceTypeCorrect`, with `ProgInv` (which program a slot may be in, which values
  its register may hold at each place);
- `RaceUsesScheduler`: the demo implements `Scheduler`, so its theorems carry
  over.  The one delicate step is a `mutex_unlock` that pops a stale 0 from
  `waiters`; it wakes nobody because process 0 is never BLOCKED;
- `RaceMutualExclusion`, as long as `racem` has been typed at most once.
  `ExclusionInv` says that
  `locked` is 1 while a thread is inside, and that `mutex_init` runs before there
  is a thread;
- `RacemCountsAtomically`, for at most one command: `CountInv` adds that the value
  a thread has loaded is the value of `myglobal` until it stores;
- `NobodyForgotten` and `WaiterListBounded`, as long as `racem` has been typed at
  most once (`overflow` shows that the condition is needed).  The waiter list is
  worked on without protection, and yet the two threads of one `racem` never meet
  there.  `WaitInv` says why: the `xchg` fails only while the other thread is
  inside (`HeldWhenLocked`), so at most one thread waits (`OneParks`); whoever is
  listed, fetched or being woken is asleep (`WaiterSleeps`, `FetchedSleeps`,
  `WokenSleeps`), so an `nwaiters` that was read early is still right when it is
  used (`ReadIsCurrent`); and there is no third thread (`Pair`).  It also takes
  from the scheduler that a sleeper runs no code and that a switch never loses a
  wake-up in progress (`WakerHasFrame`);
- `RaceWithinBounds`, for at most one command.  `BoundInv`: nothing is counted
  twice (`NoneCountedTwice`); whoever has made one addition never again loads the
  0 both began with (`FirstSurvives`); so once both have made two, all they store
  is at least 2 (`SecondSurvives`).

`FileSystemProofs`, for every geometry of the disk: `FsTypeCorrect`,
`BitmapsCorrect`, `BlocksExclusive`, `DirectoryCorrect`, `HandlesCorrect`,
`SizesCorrect`.  The invariants need each other (that a fresh block is nobody's
needs the bitmaps, that a size is backed needs unshared blocks), and all need to
know that a call under way keeps within what it was given (`CallFits`); `FsInv` is
their conjunction.

`StoreProofs`: `FileSystemImplementsStore`, the refinement for every geometry and
every buffer.  `StoreInv` adds to `FsInv` that the directory holds only names that a caller passed.  `Stored`
and `Handles` are functions of the directory and the blocks; each call has a lemma
that says what it makes of them.  Reading needs `SizeIsBacked`, and writing
`BlocksNotShared`: a byte put into one file is in no other.  Which byte of which
block an offset names rests on the uniqueness of quotient and remainder.

`ShellProofs`: `ShellUsesFileSystem` (every step of a command is a step of
`FileSystem` or leaves it alone, so that its theorems hold of the shell),
`ShellTypeCorrect`, `CommandsClose`, and `ShellKeepsPromise`: the refinement of
`ShellStore`, for every disk and every text.  Its invariant, `Tale`, says at each
place of a command what has become of the files there were when it was typed:
what `cat` has printed is the file up to the descriptor's position (`Reading`,
`Fetching`); `write` has the file back with a first part of the text (`Told`).
Three facts need the disk underneath.  `fs_create` cannot fail after `fs_unlink`,
which leaves an inode and an entry (`Removed`).  `fs_write` stops early only
without a free block, and by then has stored as much as the file held before: the
blocks `fs_unlink` freed were enough for that (`UnlinkMakesRoom`), and an iteration
takes one only for the next block of the file, so that the blocks it has and the
free ones add up to the same number (`Room`, `WriteKeepsRoom`).  And `fs_read`
returns 0 only at the end of a file.  The steps themselves are the lemmas of
`StoreProofs`.

`TerminalProofs`, for every size of screen and line and any number of printing
processes:

- `TerminalTypeCorrect`, `CursorReturns`;
- `ShiftComesUp` needs that the release of a key that is no longer down is still
  waiting at the port (`ReleaseWaits`);
- `ScreenShowsSheet`.  `SheetInv` says of the one call that is under way how far it
  is from the sheet `paper`, which holds its character from the start: which rows
  the screen shows, what the registers and `cursor_col` hold, and that a row below
  the last line is blank.  The sheet has no end and no rows that scroll, so the
  window moves by one line exactly when `scroll_up` runs.  The tab stop is found by
  the uniqueness of quotient and remainder;
- `EchoIsBuffer`.  While a line stands on the screen as it was typed nobody else
  prints, and `EchoInv` says for each place of `vga_putchar` which characters of
  `line` are on the screen; `home + Len(line) < COLS` keeps the echo in one row.

`PmmProofs`, for every frame size, RAM size and memory map: `PmmTypeCorrect`,
`CountCorrect`, `ReservedIsSafe`, `FramesNeverLost`.  `PmmInv` says where the loops
of `pmm_init` may be (above the kernel, and in the second one below the end of RAM,
so that its address does not wrap), that what is free or owned is usable and that
owned addresses are aligned.  `CountCorrect` then rests on the test in `Clear`: one
bit more or less changes the cardinality by one (`OneBit`).  `FramesNeverLost`
needs to know how far a loop has come: `OfferInv` says that the free frames are
those of the entries before (`Found`) and of the first `n` addresses of this one
(`Upto`).  A loop that stops has done all of its entry (`UptoAll`), because each
later address is behind the entry's end or outside RAM.

Only model-checked: everything under fairness (`ReadyRuns`, `HolderReleases`,
`RaceEnds`, `TimerNeverSilent`, `PromptReturns`), which is outside the prover.

## 5. What is not modelled

- The stack depth that nested ticks use: how deep they nest depends on timing.
- Colours, and `vga_set_cursor` and `vga_draw_box`, which only the splash screen
  uses, before interrupts are enabled.
- What `help`, `about`, `ps`, `ls`, `mem` and `meminfo` print, and the digits of
  `kill`'s argument.
- Keys with the prefix 0xE0 as such: the driver drops the prefix and reads the byte
  behind it as that of an ordinary key, one of the keypad for most of them.  The
  shifts that some keyboards send around them are left out.
- Killing a process that prints: `kill` is in `RaceDemo` and not in `Terminal`, so
  nothing is said of a cursor below the screen whose printer is killed before it
  scrolls.
- What a demo does whose `thread_create` failed, beyond its use of the scheduler, and
  a mutex whose holder was killed.
- Misuse of `pmm_free_frame`: it has no caller, and checks no ownership.
- The boot sector: BIOS calls and the mode switch.
- Processes that are resumed without a frame: what the CPU does then is unknown.
- Sources that the Makefile does not build.

## 6. What could come next

`Pmm` with the first real caller of the frame allocator.
