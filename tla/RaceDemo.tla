------------------------------- MODULE RaceDemo -------------------------------
(***************************************************************************)
(* The programs the kernel runs on top of the scheduler: the shell with    *)
(* its race, racem and kill commands, the demo tasks, the threads of the   *)
(* two counting demos, and the mutex of kernel/mutex.c they share.         *)
(*                                                                         *)
(* A step is one access to shared memory or one stretch under cli, as in   *)
(* Scheduler.  myglobal++ is a load and a store; mutex_unlock is the       *)
(* sequence of its accesses.  mutex.nwaiters is not volatile and the       *)
(* compiler may read it before the stores to owner and locked (gcc -O2     *)
(* does), so the read may happen at any point of mutex_unlock up to the    *)
(* test that needs it.                                                     *)
(***************************************************************************)
EXTENDS Scheduler, Sequences

CONSTANTS ITERS,        \* RACE_ITERS (100000 in the code)
          Commands,     \* the demo commands the user may type
          MAX_COMMANDS, \* bound: how many of them are typed
          KillTargets   \* pids the user may kill

ASSUME RaceAssumption ==
    /\ ITERS \in Nat \ {0}
    /\ Commands \subseteq {"race", "racem"}
    /\ MAX_COMMANDS \in Nat
    /\ KillTargets \subseteq Pid

VARIABLES mutex,     \* race_mutex
          myglobal,
          entry,     \* the program process_create was given for the slot
          pc,        \* the next step of that program
          left,      \* iterations of the thread's loop still to do
          reg,       \* the register a value was loaded into, -1 if none
          typed      \* the demo commands typed so far

locals == <<entry, left, reg, typed>>
dvars == <<mutex, myglobal, entry, pc, left, reg, typed>>
vars == <<svars, dvars>>

Entry == {"shell", "none", "task", "race", "racem"}

ShellPC  == {"prompt", "init_locked", "init_owner", "init_nwaiters", "create_a", "create_b"}
ThreadPC == {"lock", "park", "own", "load", "store", "unlock", "release",
             "check", "fetch", "wake", "exit"}

\* nwaiters ranges over 0 .. MAX_PROCESSES, one past the last index.
Mutex == [locked : {0, 1}, owner : Pid \cup {-1}, waiters : [Pid -> Pid],
          nwaiters : 0 .. MAX_PROCESSES]

\* race_mutex and myglobal start as zeroed memory; task_a and task_b only
\* print, so all that is left of them is their end.
RaceInit ==
    /\ SchedInit
    /\ mutex = [locked |-> 0, owner |-> 0, waiters |-> [p \in Pid |-> 0], nwaiters |-> 0]
    /\ myglobal = 0
    /\ entry = [p \in Pid |-> IF p = 0 THEN "shell"
                              ELSE IF p <= BOOT_TASKS THEN "task" ELSE "none"]
    /\ pc = [p \in Pid |-> IF p = 0 THEN "prompt" ELSE "exit"]
    /\ left = [p \in Pid |-> 0]
    /\ reg = [p \in Pid |-> -1]
    /\ typed = <<>>

\* Process p, in its own code, goes from one place of its program to another.
Step(p, from, to) ==
    /\ At(p, "run")
    /\ pc[p] = from
    /\ pc' = [pc EXCEPT ![p] = to]

-----------------------------------------------------------------------------
(***************************************************************************)
(* The shell.  A demo command resets the counter, racem also the mutex;    *)
(* then both threads are created, and a full process table goes unnoticed. *)
(***************************************************************************)
command(demo) ==
    /\ Len(typed) < MAX_COMMANDS
    /\ Step(0, "prompt", IF demo = "racem" THEN "init_locked" ELSE "create_a")
    /\ typed' = Append(typed, demo)
    /\ myglobal' = 0
    /\ UNCHANGED <<svars, mutex, entry, left, reg>>

mutex_init ==
    /\ \/ /\ Step(0, "init_locked", "init_owner")
          /\ mutex' = [mutex EXCEPT !.locked = 0]
       \/ /\ Step(0, "init_owner", "init_nwaiters")
          /\ mutex' = [mutex EXCEPT !.owner = -1]
       \/ /\ Step(0, "init_nwaiters", "create_a")
          /\ mutex' = [mutex EXCEPT !.nwaiters = 0]
    /\ UNCHANGED <<svars, myglobal, locals>>

Latest == typed[Len(typed)]

AfterCreate == IF pc[0] = "create_a" THEN "create_b" ELSE "prompt"

thread_create(slot) ==
    /\ pc[0] \in {"create_a", "create_b"}
    /\ process_create(slot)
    /\ entry' = [entry EXCEPT ![slot] = Latest]
    /\ left' = [left EXCEPT ![slot] = ITERS]
    /\ pc' = [pc EXCEPT ![0] = AfterCreate,
                        ![slot] = IF Latest = "racem" THEN "lock" ELSE "load"]
    /\ UNCHANGED <<mutex, myglobal, reg, typed>>

thread_create_full ==
    /\ At(0, "run")
    /\ pc[0] \in {"create_a", "create_b"}
    /\ \A slot \in User : state[slot] # "FREE"
    /\ pc' = [pc EXCEPT ![0] = AfterCreate]
    /\ UNCHANGED <<svars, mutex, myglobal, locals>>

kill_command(pid) ==
    /\ pc[0] = "prompt"
    /\ kill(pid)
    /\ UNCHANGED dvars

-----------------------------------------------------------------------------
\* myglobal++ of all four demo threads.
load(p) ==
    /\ Step(p, "load", "store")
    /\ reg' = [reg EXCEPT ![p] = myglobal]
    /\ UNCHANGED <<svars, mutex, myglobal, entry, left, typed>>

\* Fault: the value loaded is stored back without the addition.
StoreOld(p) ==
    /\ Step(p, "store", IF entry[p] = "racem" THEN "unlock"
                        ELSE IF left[p] = 1 THEN "exit" ELSE "load")
    /\ myglobal' = reg[p]
    /\ left' = [left EXCEPT ![p] = @ - 1]
    /\ reg' = [reg EXCEPT ![p] = -1]
    /\ UNCHANGED <<svars, mutex, entry, typed>>

store(p) ==
    /\ Step(p, "store", IF entry[p] = "racem" THEN "unlock"
                        ELSE IF left[p] = 1 THEN "exit" ELSE "load")
    /\ myglobal' = reg[p] + 1
    /\ left' = [left EXCEPT ![p] = @ - 1]
    /\ reg' = [reg EXCEPT ![p] = -1]
    /\ UNCHANGED <<svars, mutex, entry, typed>>

\* Fault: the slot is given back while its owner still runs on its stack.
ExitFrees(p) ==
    /\ pc[p] = "exit"
    /\ At(p, "run")
    /\ state' = [state EXCEPT ![p] = "FREE"]
    /\ ctl' = [ctl EXCEPT ![p] = "halt"]
    /\ UNCHANGED <<esp, current_pid, arg, dvars>>

\* race_done++ is never read; what is left is thread_exit.
exit(p) ==
    /\ pc[p] = "exit"
    /\ thread_exit(p)
    /\ UNCHANGED dvars

-----------------------------------------------------------------------------
(***************************************************************************)
(* mutex_lock.  The xchg decides; a loser appends itself to waiters and    *)
(* blocks under cli, yields (scheduler_yield) and then tries again.        *)
(* waiters has no bound check: index MAX_PROCESSES is nwaiters itself.     *)
(***************************************************************************)
\* Fault: the test does not set.
LockTestOnly(p) ==
    /\ Step(p, "lock", IF mutex.locked = 1 THEN "park" ELSE "own")
    /\ UNCHANGED <<svars, mutex, myglobal, locals>>

lock(p) ==
    /\ Step(p, "lock", IF mutex.locked = 1 THEN "park" ELSE "own")
    /\ mutex' = [mutex EXCEPT !.locked = 1]
    /\ UNCHANGED <<svars, myglobal, locals>>

\* Fault: nwaiters is not incremented.
ParkUncounted(p) ==
    /\ Step(p, "park", "lock")
    /\ block(p)
    /\ mutex' = [mutex EXCEPT !.waiters = [@ EXCEPT ![mutex.nwaiters] = p]]
    /\ UNCHANGED <<myglobal, locals>>

\* Fault: the caller is listed but not marked BLOCKED, and tries again.
ParkAwake(p) ==
    /\ Step(p, "park", "lock")
    /\ mutex' = IF mutex.nwaiters \in Pid
                  THEN [mutex EXCEPT !.waiters = [@ EXCEPT ![mutex.nwaiters] = p],
                                      !.nwaiters = @ + 1]
                  ELSE [mutex EXCEPT !.nwaiters = p]
    /\ UNCHANGED <<svars, myglobal, locals>>

park(p) ==
    /\ Step(p, "park", "lock")
    /\ block(p)
    /\ mutex' = IF mutex.nwaiters \in Pid
                  THEN [mutex EXCEPT !.waiters = [@ EXCEPT ![mutex.nwaiters] = p],
                                      !.nwaiters = @ + 1]
                  ELSE [mutex EXCEPT !.nwaiters = p]
    /\ UNCHANGED <<myglobal, locals>>

own(p) ==
    /\ Step(p, "own", "load")
    /\ mutex' = [mutex EXCEPT !.owner = p]
    /\ UNCHANGED <<svars, myglobal, locals>>

-----------------------------------------------------------------------------
(***************************************************************************)
(* mutex_unlock: owner = -1, locked = 0, then, if nwaiters > 0, the last   *)
(* waiter is popped (nwaiters is stored before waiters is read) and handed *)
(* to scheduler_unblock.                                                   *)
(***************************************************************************)
disown(p) ==
    /\ Step(p, "unlock", "release")
    /\ mutex' = [mutex EXCEPT !.owner = -1]
    /\ UNCHANGED <<svars, myglobal, locals>>

\* Fault: the mutex is released only once nobody waits for it.
ReleaseWaits(p) ==
    /\ mutex.nwaiters = 0
    /\ Step(p, "release", "check")
    /\ mutex' = [mutex EXCEPT !.locked = 0]
    /\ UNCHANGED <<svars, myglobal, locals>>

release(p) ==
    /\ Step(p, "release", "check")
    /\ mutex' = [mutex EXCEPT !.locked = 0]
    /\ UNCHANGED <<svars, myglobal, locals>>

read_nwaiters(p) ==
    /\ At(p, "run")
    /\ pc[p] \in {"unlock", "release", "check"}
    /\ reg[p] = -1
    /\ reg' = [reg EXCEPT ![p] = mutex.nwaiters]
    /\ UNCHANGED <<svars, mutex, myglobal, pc, entry, left, typed>>

AfterUnlock(p) == IF left[p] = 0 THEN "exit" ELSE "lock"

no_waiters(p) ==
    /\ reg[p] = 0
    /\ Step(p, "check", AfterUnlock(p))
    /\ reg' = [reg EXCEPT ![p] = -1]
    /\ UNCHANGED <<svars, mutex, myglobal, entry, left, typed>>

\* Fault: an empty list is popped too.
PopEmpty(p) ==
    /\ reg[p] >= 0
    /\ Step(p, "check", "fetch")
    /\ mutex' = [mutex EXCEPT !.nwaiters = reg[p] - 1]
    /\ reg' = [reg EXCEPT ![p] = @ - 1]
    /\ UNCHANGED <<svars, myglobal, entry, left, typed>>

pop(p) ==
    /\ reg[p] > 0
    /\ Step(p, "check", "fetch")
    /\ mutex' = [mutex EXCEPT !.nwaiters = reg[p] - 1]
    /\ reg' = [reg EXCEPT ![p] = @ - 1]
    /\ UNCHANGED <<svars, myglobal, entry, left, typed>>

fetch(p) ==
    /\ Step(p, "fetch", "wake")
    /\ reg' = [reg EXCEPT ![p] = mutex.waiters[@]]
    /\ UNCHANGED <<svars, mutex, myglobal, entry, left, typed>>

wake(p) ==
    /\ Step(p, "wake", AfterUnlock(p))
    /\ scheduler_unblock(p, reg[p])
    /\ reg' = [reg EXCEPT ![p] = -1]
    /\ UNCHANGED <<mutex, myglobal, entry, left, typed>>

mutex_lock(p) == lock(p) \/ park(p) \/ own(p)
mutex_unlock(p) == \/ disown(p) \/ release(p) \/ read_nwaiters(p)
                   \/ no_waiters(p) \/ pop(p) \/ fetch(p) \/ wake(p)

-----------------------------------------------------------------------------
\* The scheduler's own steps touch nothing of the programs.
Kernel(A) == A /\ UNCHANGED dvars

User_step == \/ \E demo \in Commands : command(demo)
             \/ \E pid \in KillTargets : kill_command(pid)

Shell_step ==
    \/ mutex_init
    \/ \E slot \in User : thread_create(slot)
    \/ thread_create_full
    \/ Kernel(process_create_esp)

Thread_step(p) ==
    \/ load(p) \/ store(p) \/ exit(p)
    \/ mutex_lock(p)
    \/ mutex_unlock(p)
    \/ Kernel(scheduler_yield(p))
    \/ Kernel(scheduler_unblock_store(p))

RaceNext ==
    \/ User_step
    \/ Shell_step
    \/ \E p \in User : Thread_step(p)
    \/ Kernel(scheduler_tick)

RaceSpec == RaceInit /\ [][RaceNext]_vars

(***************************************************************************)
(* The timer ticks for ever, and thousands of instructions are executed    *)
(* between two ticks: a process that is on the CPU again and again makes   *)
(* progress again and again.  Nothing is assumed of what the user types.   *)
(***************************************************************************)
RaceFairness ==
    /\ WF_vars(Kernel(scheduler_tick))
    /\ SF_vars(Shell_step)
    /\ \A p \in User : SF_vars(Thread_step(p))

FairRaceSpec == RaceSpec /\ RaceFairness

-----------------------------------------------------------------------------
\* Every variable of the demo programs and of race_mutex has its type.
RaceTypeOK ==
    /\ SchedTypeOK
    /\ mutex \in Mutex
    /\ myglobal \in Nat
    /\ entry \in [Pid -> Entry]
    /\ pc \in [Pid -> ShellPC \cup ThreadPC]
    /\ left \in [Pid -> 0 .. ITERS]
    /\ reg \in [Pid -> Nat \cup {-1}]
    /\ typed \in Seq(Commands)
    /\ Len(typed) <= MAX_COMMANDS

\* p is between the xchg that found the mutex free and the store locked = 0.
InCriticalSection(p) ==
    /\ entry[p] = "racem"
    /\ pc[p] \in {"own", "load", "store", "unlock", "release"}

\* race_mutex admits one thread at a time to myglobal++, killed ones included.
MutualExclusion ==
    \A p, q \in User : InCriticalSection(p) /\ InCriticalSection(q) => p = q

(***************************************************************************)
(* A thread that mutex_lock put to sleep is never forgotten by the mutex:  *)
(* it is in waiters, or a mutex_unlock that popped it has still to wake it.*)
(***************************************************************************)
SleeperIsListed ==
    \A p \in User : state[p] = "BLOCKED" =>
        \/ \E i \in 0 .. (mutex.nwaiters - 1) : mutex.waiters[i] = p
        \/ \E q \in User : \/ pc[q] = "fetch" /\ mutex.waiters[reg[q]] = p
                           \/ pc[q] = "wake" /\ reg[q] = p
                           \/ ctl[q] = "wake" /\ arg[q] = p

(***************************************************************************)
(* waiters is indexed without a bound check, yet no mutex_lock writes past *)
(* its end.  That is so for the two threads of one racem; with more, an    *)
(* unlock that is interrupted writes a stale nwaiters back, what was       *)
(* popped counts again, and the list grows without bound (MCOverflow).     *)
(***************************************************************************)
WaitersInBounds ==
    \A p \in User : At(p, "run") /\ pc[p] = "park" => mutex.nwaiters \in Pid

\* Both counting threads of the given demo have left their loops.
Finished(demo) ==
    \E p, q \in User : /\ p # q /\ entry[p] = demo /\ entry[q] = demo
                       /\ pc[p] = "exit" /\ pc[q] = "exit"

(***************************************************************************)
(* Without the mutex some increments are lost, as the threads interleave:  *)
(* at least two survive (when each thread makes at least two), and none is *)
(* counted twice.                                                          *)
(***************************************************************************)
RaceBounds ==
    Finished("race") =>
        (IF ITERS > 1 THEN 2 ELSE 1) <= myglobal /\ myglobal <= 2 * ITERS

\* A lone racem does what threads with an indivisible increment would do.
Counter == INSTANCE AtomicCounter WITH
    Thread <- User,
    count <- IF typed = <<"racem">> THEN myglobal ELSE 0,
    todo <- [p \in User |-> IF entry[p] = "racem" THEN left[p] ELSE 0],
    started <- {p \in User : entry[p] = "racem"}

CountsAtomically == Counter!CounterSpec

\* The demo programs use the scheduler only in the ways Scheduler allows.
UsesScheduler == SchedSpec

\* A thread that takes the mutex gives it back, unless it is killed or the
\* machine has crashed.
HolderReleases ==
    \A p \in User : InCriticalSection(p) ~>
        (~InCriticalSection(p) \/ state[p] = "TERMINATED" \/ Crashed)

\* Both threads of a lone race run to their end, whatever the shell does
\* meanwhile, unless they are killed or the machine has crashed.
RaceEnds ==
    typed = <<"race">> ~>
        \/ Crashed
        \/ \E p, q \in User : /\ p # q /\ entry[p] = "race" /\ entry[q] = "race"
                              /\ state[p] = "TERMINATED" /\ state[q] = "TERMINATED"

-----------------------------------------------------------------------------
(***************************************************************************)
(* What comments of the code say and the code does not do.                 *)
(***************************************************************************)
\* "Expect exactly myglobal = 200000, every single run": racem gets there.
RacemEnds == typed = <<"racem">> ~> (myglobal = 2 * ITERS \/ Crashed)

\* "scheduler_tick() will never pick us again", "The scheduler will skip
\* TERMINATED slots": a terminated process stays terminated.
TerminatedIsFinal ==
    [][\A p \in User : state[p] = "TERMINATED" => state'[p] = "TERMINATED"]_vars

\* "The initial stack frame is crafted so context_switch()'s POPAD + RET
\* sequence starts the process correctly": no process is started without one.
NeverStartedWithoutFrame == ~Crashed
=============================================================================
