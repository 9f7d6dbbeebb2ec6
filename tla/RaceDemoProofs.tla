---------------------------- MODULE RaceDemoProofs ----------------------------
(***************************************************************************)
(* Proofs about RaceDemo, for every number of slots and iterations.        *)
(***************************************************************************)
EXTENDS RaceDemo, SchedulerProofs, SequenceTheorems

(***************************************************************************)
(* Where a program may be, and what its register then holds.  Only racem   *)
(* threads are inside the mutex code; a thread before its increment has    *)
(* one left to make; the value pop and fetch use is an index of waiters.   *)
(***************************************************************************)
ThreadPlaces ==
    \A p \in User :
        /\ pc[p] \in ThreadPC
        /\ pc[p] \notin {"load", "store", "exit"} => entry[p] = "racem"
        /\ pc[p] \in {"lock", "park", "own", "load", "store"} => left[p] > 0

RegisterRange ==
    \A p \in User :
        /\ pc[p] = "store" => reg[p] \in Nat
        /\ pc[p] \in {"unlock", "release", "check"} => reg[p] \in -1 .. MAX_PROCESSES
        /\ pc[p] \in {"fetch", "wake"} => reg[p] \in Pid

ShellPlaces ==
    /\ pc[0] \in ShellPC
    /\ pc[0] # "prompt" => typed # <<>>

ProgInv == RaceTypeOK /\ ThreadPlaces /\ RegisterRange /\ ShellPlaces

-----------------------------------------------------------------------------
\* Process 0 and the user slots together are the slots of process_table.
LEMMA PidFacts ==
    0 \in Pid /\ User \subseteq Pid /\ 0 \notin User /\ Pid = User \cup {0} /\ Pid \subseteq Nat
  BY SchedulerAssumption DEF Pid, User

\* The thread at the end of a queue is one of its threads.
LEMMA LastElement ==
    ASSUME NEW S, NEW s \in Seq(S), s # <<>>
    PROVE  Len(s) \in 1 .. Len(s) /\ s[Len(s)] \in S
  OBVIOUS

\* A queue of length at most one is empty or holds one thread.
LEMMA AtMostOneElement ==
    ASSUME NEW S, NEW s \in Seq(S), Len(s) <= 1
    PROVE  s = <<>> \/ \E e \in S : s = <<e>>
<1>1. CASE s = <<>>
  BY <1>1
<1>2. CASE s # <<>>
  <2>0. Len(s) # 0
    BY <1>2, EmptySeq
  <2>1. Len(s) = 1
    BY <2>0, LenProperties
  <2>2. s[1] \in S
    BY <2>1, ElementOfSeq
  <2>3. /\ Append(<<>>, s[1]) \in Seq(S) /\ Len(Append(<<>>, s[1])) = 1
        /\ Append(<<>>, s[1])[1] = s[1] /\ Append(<<>>, s[1]) = <<s[1]>>
    BY <2>2
  <2>4. s = <<s[1]>>
    BY <2>1, <2>3, SeqEqual
  <2> QED BY <2>2, <2>4
<1> QED BY <1>1, <1>2

\* Each step of the demo programs is a step of Scheduler, or none: popping a
\* stale 0 from waiters wakes nobody, because process 0 is never BLOCKED.
LEMMA StepUsesScheduler ==
    ASSUME SchedInv, ProgInv, RaceNext PROVE [SchedNext]_svars
<1>1. CASE User_step
  BY <1>1, RaceAssumption DEF User_step, command, kill_command, SchedNext
<1>2. CASE Shell_step
  BY <1>2 DEF Shell_step, mutex_init, thread_create, thread_create_full, Kernel, SchedNext
<1>3. ASSUME NEW p \in User, Thread_step(p) PROVE [SchedNext]_svars
  <2>1. CASE load(p) \/ store(p) \/ lock(p) \/ own(p)
    BY <2>1 DEF load, store, lock, own
  <2>2. CASE exit(p) \/ park(p)
    BY <2>2 DEF exit, park, SchedNext
  <2>3. CASE disown(p) \/ release(p) \/ read_nwaiters(p) \/ no_waiters(p) \/ pop(p) \/ fetch(p)
    BY <2>3 DEF disown, release, read_nwaiters, no_waiters, pop, fetch
  <2>4. CASE wake(p)
    <3>1. reg[p] \in Pid
      BY <2>4, PidFacts DEF wake, Step, ProgInv, RegisterRange
    <3>2. CASE reg[p] \in User
      BY <2>4, <3>2 DEF wake, SchedNext
    <3>3. CASE reg[p] = 0
      <4>1. state[0] # "BLOCKED"
        BY DEF SchedInv, KernelRunnable
      <4> QED BY <2>4, <3>3, <4>1 DEF wake, scheduler_unblock, svars
    <3> QED BY <3>1, <3>2, <3>3, PidFacts
  <2>5. CASE Kernel(scheduler_yield(p)) \/ Kernel(scheduler_unblock_store(p))
    BY <2>5 DEF Kernel, SchedNext
  <2> QED BY <1>3, <2>1, <2>2, <2>3, <2>4, <2>5 DEF Thread_step, mutex_lock, mutex_unlock
<1>4. CASE Kernel(scheduler_tick)
  BY <1>4 DEF Kernel, SchedNext
<1> QED BY <1>1, <1>2, <1>3, <1>4 DEF RaceNext

-----------------------------------------------------------------------------
\* The demo programs start inside both inductive invariants.
LEMMA ProgInit == RaceInit => SchedInv /\ ProgInv
<1> SUFFICES ASSUME RaceInit PROVE SchedInv /\ ProgInv
  OBVIOUS
<1>1. SchedInv
  BY InitInv DEF RaceInit
<1>2. mutex \in Mutex
  BY PidFacts, SchedulerAssumption DEF RaceInit, Mutex
<1>3. RaceTypeOK
  BY <1>1, <1>2, RaceAssumption, PidFacts
     DEF RaceInit, RaceTypeOK, SchedInv, Entry, ShellPC, ThreadPC
<1>4. ThreadPlaces /\ RegisterRange /\ ShellPlaces
  BY PidFacts DEF RaceInit, ThreadPlaces, RegisterRange, ShellPlaces, ThreadPC, ShellPC
<1> QED BY <1>1, <1>3, <1>4 DEF ProgInv

\* What mutex_lock and mutex_unlock store keeps race_mutex well typed.
LEMMA MutexType ==
    ASSUME mutex \in Mutex
    PROVE  /\ \A v \in {0, 1} : [mutex EXCEPT !.locked = v] \in Mutex
           /\ \A v \in Pid \cup {-1} : [mutex EXCEPT !.owner = v] \in Mutex
           /\ \A v \in 0 .. MAX_PROCESSES : [mutex EXCEPT !.nwaiters = v] \in Mutex
           /\ \A v \in Pid : mutex.nwaiters \in Pid =>
                [mutex EXCEPT !.waiters = [@ EXCEPT ![mutex.nwaiters] = v],
                              !.nwaiters = @ + 1] \in Mutex
<1>1. \A v \in {0, 1} : [mutex EXCEPT !.locked = v] \in Mutex
  BY DEF Mutex
<1>2. \A v \in Pid \cup {-1} : [mutex EXCEPT !.owner = v] \in Mutex
  BY DEF Mutex
<1>3. \A v \in 0 .. MAX_PROCESSES : [mutex EXCEPT !.nwaiters = v] \in Mutex
  BY DEF Mutex
<1>4. ASSUME NEW v \in Pid, mutex.nwaiters \in Pid
      PROVE  [mutex EXCEPT !.waiters = [@ EXCEPT ![mutex.nwaiters] = v],
                           !.nwaiters = @ + 1] \in Mutex
  <2>1. mutex.nwaiters + 1 \in 0 .. MAX_PROCESSES
    BY <1>4, SchedulerAssumption DEF Pid
  <2>2. [mutex.waiters EXCEPT ![mutex.nwaiters] = v] \in [Pid -> Pid]
    BY <1>4 DEF Mutex
  <2> QED BY <2>1, <2>2 DEF Mutex
<1> QED BY <1>1, <1>2, <1>3, <1>4

\* The stores of mutex_init, and those of mutex_lock and mutex_unlock to locked
\* and owner, keep the type of the mutex.
LEMMA MutexStores ==
    ASSUME mutex \in Mutex,
           mutex_init \/ \E p \in User : own(p) \/ disown(p) \/ release(p)
    PROVE  mutex' \in Mutex
<1>1. \/ \E v \in {0, 1} : mutex' = [mutex EXCEPT !.locked = v]
      \/ \E v \in Pid \cup {-1} : mutex' = [mutex EXCEPT !.owner = v]
      \/ \E v \in 0 .. MAX_PROCESSES : mutex' = [mutex EXCEPT !.nwaiters = v]
  <2>1. CASE mutex_init
    <3>1. 0 \in 0 .. MAX_PROCESSES
      BY SchedulerAssumption
    <3> QED BY <2>1, <3>1 DEF mutex_init
  <2>2. ASSUME NEW p \in User, own(p) \/ disown(p) \/ release(p)
        PROVE  \/ mutex' = [mutex EXCEPT !.locked = 0]
               \/ mutex' = [mutex EXCEPT !.owner = p]
               \/ mutex' = [mutex EXCEPT !.owner = -1]
    BY <2>2 DEF own, disown, release
  <2> QED BY <2>1, <2>2, PidFacts
<1> QED BY <1>1, MutexType

\* A step of a demo program, of the shell or of the timer keeps the part of the
\* invariant that is about the programs.
LEMMA ProgStep == ASSUME SchedInv, SchedInv', ProgInv, RaceNext PROVE ProgInv'
<1> USE PidFacts
<1>t. /\ mutex \in Mutex /\ myglobal \in Nat
      /\ entry \in [Pid -> Entry] /\ pc \in [Pid -> ShellPC \cup ThreadPC]
      /\ left \in [Pid -> 0 .. ITERS] /\ reg \in [Pid -> Nat \cup {-1}]
      /\ typed \in Seq(Commands) /\ Len(typed) <= MAX_COMMANDS
      /\ ITERS \in Nat \ {0} /\ Commands \subseteq {"race", "racem"}
  BY RaceAssumption DEF ProgInv, RaceTypeOK
<1>s. SchedTypeOK'
  BY DEF SchedInv
<1>m. mutex \in Mutex
  BY <1>t
<1> USE DEF ProgInv, RaceTypeOK, ThreadPlaces, RegisterRange, ShellPlaces, locals
<1>1. ASSUME NEW demo \in Commands, command(demo) PROVE ProgInv'
  <2>1. typed' \in Seq(Commands) /\ typed' # <<>> /\ Len(typed') <= MAX_COMMANDS
    BY <1>1, <1>t, RaceAssumption DEF command
  <2> QED BY <1>1, <2>1, <1>t, <1>s DEF command, Step, Entry, ShellPC, ThreadPC
<1>2. CASE mutex_init
  <2>1. mutex' \in Mutex
    BY <1>2, <1>m, MutexStores
  <2> QED BY <1>2, <2>1, <1>t, <1>s DEF mutex_init, Step, ShellPC, ThreadPC
<1>3. ASSUME NEW slot \in User, thread_create(slot) PROVE ProgInv'
  <2>0. typed # <<>>
    BY <1>3 DEF thread_create
  <2>1. Latest \in {"race", "racem"}
    BY <2>0, <1>t, LastElement DEF Latest
  <2>2. pc' \in [Pid -> ShellPC \cup ThreadPC]
    BY <1>3, <2>1, <1>t DEF thread_create, AfterCreate, ShellPC, ThreadPC
  <2>4. entry' \in [Pid -> Entry] /\ left' \in [Pid -> 0 .. ITERS]
    BY <1>3, <2>1, <1>t DEF thread_create, Entry
  <2>3. /\ ITERS > 0 /\ typed' = typed /\ reg' = reg
        /\ pc'[slot] = (IF Latest = "racem" THEN "lock" ELSE "load")
        /\ entry'[slot] = Latest /\ left'[slot] = ITERS
        /\ \A p \in User \ {slot} : pc'[p] = pc[p] /\ entry'[p] = entry[p] /\ left'[p] = left[p]
        /\ pc'[0] \in {"create_b", "prompt"}
    BY <1>3, <1>t DEF thread_create, AfterCreate
  <2>5. ThreadPlaces'
    BY <2>1, <2>3 DEF ThreadPC
  <2>6. RegisterRange' /\ ShellPlaces'
    BY <2>0, <2>3 DEF ShellPC
  <2> QED BY <1>3, <2>2, <2>4, <2>5, <2>6, <1>t, <1>s DEF thread_create
<1>4. CASE thread_create_full
  BY <1>4, <1>t, <1>s DEF thread_create_full, AfterCreate, ShellPC, ThreadPC
<1>5. CASE UNCHANGED dvars
  BY <1>5, <1>t, <1>s DEF dvars
<1>6. ASSUME NEW p \in User, load(p) PROVE ProgInv'
  BY <1>6, <1>t, <1>s DEF load, Step, ShellPC, ThreadPC
<1>7. ASSUME NEW p \in User, store(p) PROVE ProgInv'
  <2>1. /\ pc[p] = "store" /\ reg[p] + 1 \in Nat /\ left[p] - 1 \in 0 .. ITERS
        /\ left[p] # 1 => left[p] - 1 > 0
        /\ -1 \in -1 .. MAX_PROCESSES
    BY <1>7, <1>t, SchedulerAssumption DEF store, Step
  <2>2. RaceTypeOK'
    BY <1>7, <2>1, <1>t, <1>s DEF store, Step, ThreadPC
  <2>3. ThreadPlaces' /\ RegisterRange' /\ ShellPlaces'
    BY <1>7, <2>1, <1>t DEF store, Step, ShellPC, ThreadPC
  <2> QED BY <2>2, <2>3
<1>8. ASSUME NEW p \in User, lock(p) PROVE ProgInv'
  BY <1>8, <1>t, <1>s, MutexType DEF lock, Step, ShellPC, ThreadPC
<1>9. ASSUME NEW p \in User, park(p) PROVE ProgInv'
  <2>1. mutex' \in Mutex
    <3>1. p \in 0 .. MAX_PROCESSES
      BY SchedulerAssumption DEF User
    <3> QED BY <1>9, <1>t, <3>1, MutexType DEF park
  <2> QED BY <2>1, <1>9, <1>t, <1>s DEF park, Step, ShellPC, ThreadPC
<1>10. ASSUME NEW p \in User, own(p) \/ disown(p) \/ release(p) PROVE ProgInv'
  <2>1. mutex' \in Mutex
    BY <1>10, <1>m, MutexStores
  <2>2. CASE own(p)
    BY <2>2, <2>1, <1>t, <1>s DEF own, Step, ShellPC, ThreadPC
  <2>3. CASE disown(p)
    BY <2>3, <2>1, <1>t, <1>s DEF disown, Step, ShellPC, ThreadPC
  <2>4. CASE release(p)
    BY <2>4, <2>1, <1>t, <1>s DEF release, Step, ShellPC, ThreadPC
  <2> QED BY <1>10, <2>2, <2>3, <2>4
<1>11. ASSUME NEW p \in User, read_nwaiters(p) PROVE ProgInv'
  <2>1. mutex.nwaiters \in 0 .. MAX_PROCESSES /\ MAX_PROCESSES \in Nat
    BY <1>t, SchedulerAssumption DEF Mutex
  <2>2. /\ pc[p] \in {"unlock", "release", "check"} /\ pc' = pc
        /\ reg' = [reg EXCEPT ![p] = mutex.nwaiters]
        /\ UNCHANGED <<svars, mutex, myglobal, typed, entry, left>>
    BY <1>11 DEF read_nwaiters
  <2>3. RaceTypeOK'
    BY <2>1, <2>2, <1>t, <1>s
  <2>4. RegisterRange'
    BY <2>1, <2>2, <1>t
  <2> QED BY <2>2, <2>3, <2>4, <1>t
<1>12. ASSUME NEW p \in User, no_waiters(p) PROVE ProgInv'
  BY <1>12, <1>t, <1>s DEF no_waiters, AfterUnlock, Step, ShellPC, ThreadPC
<1>13. ASSUME NEW p \in User, pop(p) PROVE ProgInv'
  <2>1. reg[p] - 1 \in 0 .. MAX_PROCESSES /\ reg[p] - 1 \in Pid /\ reg[p] - 1 \in Nat
    BY <1>13, SchedulerAssumption, <1>t DEF pop, Step, Pid
  <2> QED BY <1>13, <2>1, <1>t, <1>s, MutexType DEF pop, Step, ShellPC, ThreadPC
<1>14. ASSUME NEW p \in User, fetch(p) PROVE ProgInv'
  <2>0. mutex.waiters \in [Pid -> Pid]
    BY <1>t DEF Mutex
  <2>1. reg[p] \in Pid
    BY <1>14 DEF fetch, Step
  <2>2. mutex.waiters[reg[p]] \in Pid /\ mutex.waiters[reg[p]] \in Nat
    BY <2>0, <2>1
  <2> QED BY <1>14, <2>2, <1>t, <1>s DEF fetch, Step, ShellPC, ThreadPC
<1>15. ASSUME NEW p \in User, wake(p) PROVE ProgInv'
  BY <1>15, <1>t, <1>s DEF wake, AfterUnlock, Step, ShellPC, ThreadPC
<1> QED
  BY <1>1, <1>2, <1>3, <1>4, <1>5, <1>6, <1>7, <1>8, <1>9, <1>10, <1>11, <1>12,
     <1>13, <1>14, <1>15
  DEF RaceNext, User_step, Shell_step, Thread_step, mutex_lock, mutex_unlock, Kernel,
      kill_command, exit

\* The scheduler's and the programs' invariants are inductive together.
LEMMA BothStep == SchedInv /\ ProgInv /\ [RaceNext]_vars => SchedInv' /\ ProgInv'
<1> SUFFICES ASSUME SchedInv, ProgInv, [RaceNext]_vars PROVE SchedInv' /\ ProgInv'
  OBVIOUS
<1>1. CASE RaceNext
  BY <1>1, StepUsesScheduler, NextInv, ProgStep
<1>2. CASE UNCHANGED vars
  <2>1. SchedInv'
    BY <1>2, NextInv DEF vars
  <2>2. UNCHANGED dvars
    BY <1>2 DEF vars
  <2> QED BY <2>1, <2>2
          DEF dvars, ProgInv, RaceTypeOK, ThreadPlaces, RegisterRange, ShellPlaces, SchedInv
<1> QED BY <1>1, <1>2

\* Both invariants hold in every reachable state of the demo.
LEMMA BothAlways == RaceSpec => [](SchedInv /\ ProgInv)
  BY ProgInit, BothStep, PTL DEF RaceSpec

\* The demo programs and the mutex keep their types; nwaiters stays within one
\* of the array it indexes.
THEOREM RaceTypeCorrect == RaceSpec => []RaceTypeOK
<1>1. ProgInv => RaceTypeOK
  BY DEF ProgInv
<1> QED BY <1>1, BothAlways, PTL

\* The demo programs implement Scheduler, so what SchedulerProofs establishes
\* of it holds of them.
THEOREM RaceUsesScheduler == RaceSpec => UsesScheduler
<1>1. RaceInit => SchedInit
  BY DEF RaceInit
<1>2. SchedInv /\ ProgInv /\ [RaceNext]_vars => [SchedNext]_svars
  BY StepUsesScheduler DEF vars
<1> QED BY <1>1, <1>2, BothAlways, PTL DEF RaceSpec, UsesScheduler, SchedSpec

-----------------------------------------------------------------------------
(***************************************************************************)
(* A demo command that is typed at most once creates at most two threads:  *)
(* none before create_a, one before create_b, two for good.                *)
(***************************************************************************)
AtMostOnce(demo) ==
    \A i, j \in 1 .. Len(typed) : typed[i] = demo /\ typed[j] = demo => i = j

BeforeCreates == {"init_locked", "init_owner", "init_nwaiters", "create_a"}

Pair(demo) ==
    /\ \A p \in User : entry[p] = demo => \E i \in 1 .. Len(typed) : typed[i] = demo
    /\ pc[0] \in BeforeCreates /\ Latest = demo => \A p \in User : entry[p] # demo
    /\ pc[0] = "create_b" /\ Latest = demo =>
         \A p, q \in User : entry[p] = demo /\ entry[q] = demo => p = q
    /\ \A p, q, r \in User : entry[p] = demo /\ entry[q] = demo /\ entry[r] = demo =>
         p = q \/ q = r \/ p = r

FreeHasNoProgram == \A p \in User : state[p] = "FREE" => entry[p] = "none"

\* No step makes a slot FREE.
LEMMA FreeStaysFree ==
    ASSUME SchedInv, ProgInv, RaceNext, NEW p \in User, state'[p] = "FREE"
    PROVE  state[p] = "FREE"
<1>1. CASE SchedNext
  BY <1>1, LifeCycleOfStep, PidFacts DEF LifeCycleStep
<1>2. CASE UNCHANGED svars
  BY <1>2 DEF svars
<1> QED BY <1>1, <1>2, StepUsesScheduler

\* Only a command appends to what has been typed, only thread_create gives a slot
\* its program, and only the shell moves the shell.
LEMMA ProgramEffect ==
    ASSUME ProgInv, [RaceNext]_vars
    PROVE  \/ \E demo \in Commands : command(demo)
           \/ \E slot \in User : thread_create(slot)
           \/ /\ UNCHANGED <<typed, entry>>
              /\ \/ pc'[0] = pc[0]
                 \/ pc[0] \in BeforeCreates /\ pc'[0] \in BeforeCreates /\ mutex_init
                 \/ pc[0] = "create_a" /\ pc'[0] = "create_b"
                 \/ pc[0] = "create_b" /\ pc'[0] = "prompt"
<1> USE PidFacts
<1>t. pc \in [Pid -> ShellPC \cup ThreadPC]
  BY DEF ProgInv, RaceTypeOK
<1>1. CASE mutex_init \/ thread_create_full
  BY <1>1, <1>t DEF mutex_init, thread_create_full, Step, AfterCreate, locals, BeforeCreates
<1>2. CASE UNCHANGED dvars
  BY <1>2 DEF dvars
<1>3. ASSUME NEW p \in User, load(p) \/ store(p) \/ mutex_lock(p) \/ mutex_unlock(p)
      PROVE  UNCHANGED <<typed, entry>> /\ pc'[0] = pc[0]
  BY <1>3, <1>t DEF load, store, mutex_lock, mutex_unlock, lock, park, own, disown, release,
     read_nwaiters, no_waiters, pop, fetch, wake, Step, locals
<1> QED
  BY <1>1, <1>2, <1>3 DEF RaceNext, User_step, Shell_step, Thread_step, Kernel,
     kill_command, exit, vars

\* Counting the threads of a command is inductive while it is typed at most once.
LEMMA PairStep ==
    ASSUME NEW demo \in {"race", "racem"}, AtMostOnce(demo)', ProgInv, [RaceNext]_vars,
           Pair(demo)
    PROVE  Pair(demo)'
<1> USE PidFacts DEF Pair, Latest
<1>t. /\ entry \in [Pid -> Entry] /\ pc \in [Pid -> ShellPC \cup ThreadPC]
      /\ typed \in Seq(Commands)
  BY DEF ProgInv, RaceTypeOK
<1>1. ASSUME NEW d \in Commands, command(d) PROVE Pair(demo)'
  <2>1. /\ typed' = Append(typed, d) /\ Len(typed') = Len(typed) + 1
        /\ typed'[Len(typed')] = d /\ entry' = entry /\ pc'[0] \in BeforeCreates
        /\ \A i \in 1 .. Len(typed) : i \in 1 .. Len(typed') /\ typed'[i] = typed[i]
    BY <1>1, <1>t DEF command, Step, BeforeCreates
  <2>2. ASSUME d = demo, NEW p \in User PROVE entry[p] # demo
    <3>1. \A i \in 1 .. Len(typed) : typed[i] # demo
      BY <2>1, <2>2, <1>t DEF AtMostOnce
    <3> QED BY <3>1
  <2> QED BY <2>1, <2>2 DEF BeforeCreates
<1>2. ASSUME NEW slot \in User, thread_create(slot) PROVE Pair(demo)'
  <2>1. /\ pc[0] # "prompt" /\ typed # <<>> /\ typed[Len(typed)] = Latest
        /\ Len(typed) \in 1 .. Len(typed) /\ typed' = typed
    BY <1>2, <1>t DEF thread_create, ProgInv, ShellPlaces
  <2>2. /\ entry' = [entry EXCEPT ![slot] = Latest]
        /\ \/ pc[0] = "create_a" /\ pc'[0] = "create_b"
           \/ pc[0] = "create_b" /\ pc'[0] = "prompt"
    BY <1>2, <1>t DEF thread_create, AfterCreate
  <2>3. \A p \in User : entry'[p] = IF p = slot THEN Latest ELSE entry[p]
    BY <2>2, <1>t
  <2> QED BY <2>1, <2>2, <2>3 DEF BeforeCreates
<1>3. CASE /\ UNCHANGED <<typed, entry>>
           /\ \/ pc'[0] = pc[0]
              \/ pc[0] \in BeforeCreates /\ pc'[0] \in BeforeCreates
              \/ pc[0] = "create_a" /\ pc'[0] = "create_b"
              \/ pc[0] = "create_b" /\ pc'[0] = "prompt"
  BY <1>3 DEF BeforeCreates
<1> QED BY <1>1, <1>2, <1>3, ProgramEffect

\* A slot that has never been taken has no program.
LEMMA FreeStep ==
    ASSUME SchedInv, ProgInv, [RaceNext]_vars, FreeHasNoProgram
    PROVE  FreeHasNoProgram'
<1> USE PidFacts DEF FreeHasNoProgram
<1>0. CASE UNCHANGED vars
  BY <1>0 DEF vars, svars, dvars
<1>1. ASSUME NEW slot \in User, thread_create(slot) PROVE FreeHasNoProgram'
  <2>1. entry \in [Pid -> Entry] /\ state \in [Pid -> State]
    BY DEF ProgInv, RaceTypeOK, SchedInv, SchedTypeOK
  <2> QED BY <1>1, <2>1 DEF thread_create, process_create
<1>2. ASSUME RaceNext, entry' = entry PROVE FreeHasNoProgram'
  BY <1>2, FreeStaysFree
<1>3. ASSUME NEW demo \in Commands, command(demo) PROVE entry' = entry
  BY <1>3 DEF command
<1> QED BY <1>0, <1>1, <1>2, <1>3, ProgramEffect

-----------------------------------------------------------------------------
(***************************************************************************)
(* Mutual exclusion, for a user who has typed racem at most once: then     *)
(* mutex_init ran before there was a thread it could disturb.              *)
(***************************************************************************)
RacemAtMostOnce ==
    \A i, j \in 1 .. Len(typed) : typed[i] = "racem" /\ typed[j] = "racem" => i = j

LockedWhenHeld == mutex.locked = 0 => \A p \in User : ~InCriticalSection(p)

RacemWasTyped ==
    \A p \in User : entry[p] = "racem" => \E i \in 1 .. Len(typed) : typed[i] = "racem"

InitPrecedesThreads ==
    pc[0] \in {"init_locked", "init_owner", "init_nwaiters"} =>
        Latest = "racem" /\ \A p \in User : entry[p] # "racem"

ExclusionInv == MutualExclusion /\ LockedWhenHeld /\ RacemWasTyped /\ InitPrecedesThreads

\* What has been typed stays typed: if racem was typed at most once after a step,
\* it was before it.
LEMMA OnceBefore ==
    ASSUME ProgInv, [RaceNext]_vars, RacemAtMostOnce' PROVE RacemAtMostOnce
<1>1. CASE \E demo \in Commands : command(demo)
  <2>1. PICK demo \in Commands : command(demo)
    BY <1>1
  <2>2. typed \in Seq(Commands) /\ typed' = Append(typed, demo)
    BY <2>1 DEF command, ProgInv, RaceTypeOK
  <2>3. \A i \in 1 .. Len(typed) : i \in 1 .. Len(typed') /\ typed'[i] = typed[i]
    BY <2>2
  <2> QED BY <2>3 DEF RacemAtMostOnce
<1>2. CASE typed' = typed
  BY <1>2 DEF RacemAtMostOnce
<1> QED
  BY <1>1, <1>2 DEF RaceNext, User_step, Shell_step, Thread_step, mutex_lock, mutex_unlock,
     Kernel, kill_command, exit, dvars, vars, locals, mutex_init, thread_create,
     thread_create_full, load, store, lock, park, own, disown, release, read_nwaiters,
     no_waiters, pop, fetch, wake

\* With racem typed at most once, no step lets a second thread past the xchg of
\* mutex_lock while a first is inside, or clears locked under its feet.
LEMMA ExclusionStep ==
    ASSUME RacemAtMostOnce', SchedInv, ProgInv, ExclusionInv, RaceNext PROVE ExclusionInv'
<1> USE PidFacts
<1>t. /\ mutex \in Mutex /\ entry \in [Pid -> Entry]
      /\ pc \in [Pid -> ShellPC \cup ThreadPC]
      /\ typed \in Seq(Commands)
  BY RaceAssumption DEF ProgInv, RaceTypeOK
<1>p. ThreadPlaces /\ ShellPlaces
  BY DEF ProgInv
<1> USE DEF ExclusionInv, MutualExclusion, LockedWhenHeld, RacemWasTyped,
            InitPrecedesThreads, InCriticalSection, Latest, locals
<1>1. ASSUME NEW demo \in Commands, command(demo) PROVE ExclusionInv'
  <2>1. /\ typed' = Append(typed, demo) /\ Len(typed') = Len(typed) + 1
        /\ typed'[Len(typed')] = demo
        /\ \A i \in 1 .. Len(typed) : i \in 1 .. Len(typed') /\ typed'[i] = typed[i]
    BY <1>1, <1>t DEF command
  <2>2. ASSUME demo = "racem", NEW p \in User PROVE entry[p] # "racem"
    <3>1. \A i \in 1 .. Len(typed) : typed[i] # "racem"
      BY <2>1, <2>2, <1>t DEF RacemAtMostOnce
    <3> QED BY <3>1
  <2>3. RacemWasTyped'
    BY <2>1, <1>1, <1>t DEF command
  <2> QED BY <1>1, <2>1, <2>2, <2>3, <1>t, <1>p DEF command, Step
<1>2. CASE mutex_init
  <2>1. \A p \in User : entry[p] # "racem"
    BY <1>2 DEF mutex_init, Step
  <2>2. /\ UNCHANGED <<entry, typed>> /\ \A p \in User : pc'[p] = pc[p]
        /\ pc'[0] \in {"init_owner", "init_nwaiters", "create_a"}
        /\ pc[0] \in {"init_locked", "init_owner", "init_nwaiters"}
    BY <1>2, <1>t DEF mutex_init, Step
  <2> QED BY <2>1, <2>2
<1>3. ASSUME NEW slot \in User, thread_create(slot) PROVE ExclusionInv'
  <2>1. /\ pc[0] # "prompt" /\ typed # <<>> /\ typed[Len(typed)] = Latest
        /\ Len(typed) \in 1 .. Len(typed)
    BY <1>3, <1>t, <1>p DEF thread_create, ShellPlaces
  <2> QED BY <1>3, <2>1, <1>t, <1>p DEF thread_create, AfterCreate
<1>4. CASE thread_create_full
  BY <1>4, <1>t DEF thread_create_full, AfterCreate
<1>5. CASE UNCHANGED dvars
  BY <1>5 DEF dvars
<1>6. ASSUME NEW p \in User, load(p) \/ store(p) PROVE ExclusionInv'
  BY <1>6, <1>t DEF load, store, Step
<1>7. ASSUME NEW p \in User, lock(p) PROVE ExclusionInv'
  BY <1>7, <1>t DEF lock, Step, Mutex
<1>8. ASSUME NEW p \in User, park(p) PROVE ExclusionInv'
  <2>1. mutex'.locked = mutex.locked
    BY <1>8, <1>t DEF park, Mutex
  <2> QED BY <1>8, <2>1, <1>t DEF park, Step
<1>9. ASSUME NEW p \in User, own(p) \/ disown(p) PROVE ExclusionInv'
  <2>1. mutex'.locked = mutex.locked
    BY <1>9, <1>t DEF own, disown, Mutex
  <2> QED BY <1>9, <2>1, <1>t DEF own, disown, Step
<1>10. ASSUME NEW p \in User, release(p) PROVE ExclusionInv'
  BY <1>10, <1>t, <1>p DEF release, Step, ThreadPlaces, ThreadPC
<1>11. ASSUME NEW p \in User, read_nwaiters(p) \/ no_waiters(p) \/ fetch(p) \/ wake(p)
       PROVE  ExclusionInv'
  BY <1>11, <1>t DEF read_nwaiters, no_waiters, fetch, wake, AfterUnlock, Step
<1>12. ASSUME NEW p \in User, pop(p) PROVE ExclusionInv'
  <2>1. mutex'.locked = mutex.locked
    BY <1>12, <1>t DEF pop, Mutex
  <2> QED BY <1>12, <2>1, <1>t DEF pop, Step
<1> QED
  BY <1>1, <1>2, <1>3, <1>4, <1>5, <1>6, <1>7, <1>8, <1>9, <1>10, <1>11, <1>12
  DEF RaceNext, User_step, Shell_step, Thread_step, mutex_lock, mutex_unlock, Kernel,
      kill_command, exit

\* mutex_lock and mutex_unlock admit one thread at a time to myglobal++, however
\* many slots and iterations there are and whatever is killed, for as long as
\* racem has been typed at most once.
THEOREM RaceMutualExclusion ==
    RaceSpec => [](RacemAtMostOnce => MutualExclusion)
<1> DEFINE Inv == RacemAtMostOnce => ExclusionInv
<1>1. RaceInit => Inv
  BY PidFacts DEF RaceInit, ExclusionInv, MutualExclusion, LockedWhenHeld, RacemWasTyped,
         InitPrecedesThreads, InCriticalSection
<1>2. SchedInv /\ ProgInv /\ Inv /\ [RaceNext]_vars => Inv'
  <2> SUFFICES ASSUME SchedInv, ProgInv, Inv, [RaceNext]_vars, RacemAtMostOnce'
               PROVE  ExclusionInv'
    OBVIOUS
  <2>1. ExclusionInv
    BY OnceBefore
  <2>2. ASSUME UNCHANGED vars PROVE ExclusionInv'
    BY <2>1, <2>2 DEF vars, dvars, ExclusionInv, MutualExclusion, LockedWhenHeld,
              RacemWasTyped, InitPrecedesThreads, InCriticalSection, Latest
  <2> QED BY <2>1, <2>2, ExclusionStep
<1>3. Inv => (RacemAtMostOnce => MutualExclusion)
  BY DEF ExclusionInv
<1> QED BY <1>1, <1>2, <1>3, BothAlways, PTL DEF RaceSpec

-----------------------------------------------------------------------------
(***************************************************************************)
(* The waiter list of a mutex that only the two threads of one racem use.  *)
(* At most one of them waits: the xchg fails only while the other is       *)
(* inside.  The thread that is listed sleeps until the other one, which    *)
(* alone can run, has popped it and stored READY; so the two never meet    *)
(* in the code that works on the list.                                     *)
(***************************************************************************)
Asleep(p) ==
    /\ p \in User /\ entry[p] = "racem" /\ pc[p] = "lock"
    /\ state[p] \in {"BLOCKED", "TERMINATED"}

HeldWhenLocked == mutex.locked = 1 => \E p \in User : InCriticalSection(p)

WaiterSleeps ==
    /\ mutex.nwaiters \in {0, 1}
    /\ mutex.nwaiters = 1 => Asleep(mutex.waiters[0])

ReadIsCurrent ==
    \A p \in User : pc[p] \in {"unlock", "release", "check"} /\ reg[p] > 0 =>
        reg[p] = 1 /\ mutex.nwaiters = 1

FetchedSleeps ==
    \A p \in User :
        /\ pc[p] \in {"fetch", "wake"} => mutex.nwaiters = 0
        /\ pc[p] = "fetch" => reg[p] = 0 /\ Asleep(mutex.waiters[0])
        /\ pc[p] = "wake" => Asleep(reg[p])

WokenSleeps ==
    \A p \in User : ctl[p] = "wake" =>
        /\ entry[p] = "racem" /\ pc[p] \in {"lock", "exit"}
        /\ mutex.nwaiters = 0 /\ Asleep(arg[p]) /\ arg[p] # p

OneParks ==
    \A p \in User : pc[p] = "park" =>
        /\ mutex.nwaiters = 0
        /\ \A q \in User : pc[q] = "park" => p = q

ListInv == WaiterSleeps /\ ReadIsCurrent /\ FetchedSleeps /\ WokenSleeps /\ OneParks
           /\ SleeperIsListed

WaitInv == /\ ExclusionInv /\ Pair("racem") /\ FreeHasNoProgram
           /\ HeldWhenLocked /\ ListInv

\* Whoever executes a step of its own program, or is about to store READY, is
\* RUNNING.
LEMMA RunnerRuns ==
    ASSUME SchedInv, NEW p \in User, At(p, "run") \/ At(p, "wake")
    PROVE  state[p] = "RUNNING"
  BY PidFacts DEF At, SchedInv, CodeRunsOnlyWhenRunning

\* A BLOCKED process is a thread of racem that waits in mutex_lock.
LEMMA BlockedSleeps ==
    ASSUME ListInv, NEW p \in User, state[p] = "BLOCKED" PROVE Asleep(p)
<1>1. CASE \E i \in 0 .. (mutex.nwaiters - 1) : mutex.waiters[i] = p
  <2>1. mutex.nwaiters = 1 /\ mutex.waiters[0] = p
    BY <1>1 DEF ListInv, WaiterSleeps
  <2> QED BY <2>1 DEF ListInv, WaiterSleeps
<1>2. CASE \E q \in User : \/ pc[q] = "fetch" /\ mutex.waiters[reg[q]] = p
                           \/ pc[q] = "wake" /\ reg[q] = p
                           \/ ctl[q] = "wake" /\ arg[q] = p
  BY <1>2 DEF ListInv, FetchedSleeps, WokenSleeps
<1> QED BY <1>1, <1>2 DEF ListInv, SleeperIsListed

\* What two threads share: a third thread of racem is one of them.
LEMMA NoThird ==
    ASSUME Pair("racem"), NEW p \in User, NEW q \in User, NEW r \in User, p # q,
           entry[p] = "racem", entry[q] = "racem", entry[r] = "racem"
    PROVE  r \in {p, q}
  BY DEF Pair

\* A step that leaves the list and the threads' programs alone keeps the list
\* right if it makes nobody but terminated threads of the sleepers, starts or
\* ends no wake-up, and blocks nobody.
LEMMA ListFrame ==
    ASSUME ListInv, mutex'.nwaiters = mutex.nwaiters, mutex'.waiters = mutex.waiters,
           \A p \in User :
              /\ pc'[p] = pc[p] /\ reg'[p] = reg[p] /\ entry'[p] = entry[p]
              /\ ctl'[p] = "wake" <=> ctl[p] = "wake"
              /\ ctl[p] = "wake" => arg'[p] = arg[p]
              /\ state'[p] = "BLOCKED" => state[p] = "BLOCKED"
              /\ state[p] \in {"BLOCKED", "TERMINATED"} =>
                   state'[p] \in {"BLOCKED", "TERMINATED"}
    PROVE  ListInv'
<1>1. \A p : Asleep(p) => Asleep(p)'
  BY DEF Asleep
<1>2. WaiterSleeps' /\ ReadIsCurrent' /\ OneParks'
  BY <1>1 DEF ListInv, WaiterSleeps, ReadIsCurrent, OneParks
<1>3. FetchedSleeps' /\ WokenSleeps'
  BY <1>1 DEF ListInv, FetchedSleeps, WokenSleeps
<1>4. SleeperIsListed'
  BY DEF ListInv, SleeperIsListed
<1> QED BY <1>2, <1>3, <1>4 DEF ListInv

\* What the timer and scheduler_yield do to the processes: nobody is blocked or
\* woken by them, and no wake-up in progress is lost.
LEMMA SwitchFrame ==
    ASSUME SchedInv, WakerHasFrame, NEW control \in [Pid -> Ctl], pick_and_switch(control),
           \A p \in Pid : control[p] = "wake" <=> ctl[p] = "wake", NEW p \in Pid
    PROVE  /\ ctl'[p] = "wake" <=> ctl[p] = "wake"
           /\ state'[p] = "BLOCKED" => state[p] = "BLOCKED"
           /\ state[p] \in {"BLOCKED", "TERMINATED"} => state'[p] \in {"BLOCKED", "TERMINATED"}
<1>t. /\ SchedTypeOK /\ KernelRunnable /\ state \in [Pid -> State]
      /\ esp \in [Pid -> Esp] /\ ctl \in [Pid -> Ctl] /\ current_pid \in Pid
  BY DEF SchedInv, SchedTypeOK
<1>1. ASSUME NEW next \in Pid, next # current_pid, state[next] = "READY", SwitchTo(next),
             ctl' = IF esp[next] = "none" THEN [control EXCEPT ![next] = "wild"] ELSE control
      PROVE  /\ ctl'[p] = "wake" <=> ctl[p] = "wake"
             /\ state'[p] = "BLOCKED" => state[p] = "BLOCKED"
             /\ state[p] \in {"BLOCKED", "TERMINATED"} =>
                  state'[p] \in {"BLOCKED", "TERMINATED"}
  BY <1>1, <1>t DEF SwitchTo, WakerHasFrame
<1> QED BY <1>1, <1>t, PickEffect

\* The steps of the shell and of the scheduler keep the waiter list right.
LEMMA ListKernelStep ==
    ASSUME SchedInv, WakerHasFrame, ProgInv, WaitInv,
           \/ \E demo \in Commands : command(demo)
           \/ \E pid \in KillTargets : kill_command(pid)
           \/ Shell_step
           \/ Kernel(scheduler_tick)
           \/ \E p \in User : \/ Kernel(scheduler_yield(p))
                              \/ Kernel(scheduler_unblock_store(p))
    PROVE  ListInv'
<1> USE PidFacts
<1>t. /\ mutex \in Mutex /\ entry \in [Pid -> Entry] /\ pc \in [Pid -> ShellPC \cup ThreadPC]
      /\ state \in [Pid -> State] /\ ctl \in [Pid -> Ctl] /\ arg \in [Pid -> Pid]
  BY DEF ProgInv, RaceTypeOK, SchedInv, SchedTypeOK
<1>l. ListInv /\ Pair("racem") /\ FreeHasNoProgram /\ InitPrecedesThreads /\ ThreadPlaces
  BY DEF WaitInv, ExclusionInv, ProgInv
<1> DEFINE Frame ==
      /\ mutex'.nwaiters = mutex.nwaiters /\ mutex'.waiters = mutex.waiters
      /\ \A p \in User :
            /\ pc'[p] = pc[p] /\ reg'[p] = reg[p] /\ entry'[p] = entry[p]
            /\ ctl'[p] = "wake" <=> ctl[p] = "wake"
            /\ ctl[p] = "wake" => arg'[p] = arg[p]
            /\ state'[p] = "BLOCKED" => state[p] = "BLOCKED"
            /\ state[p] \in {"BLOCKED", "TERMINATED"} =>
                 state'[p] \in {"BLOCKED", "TERMINATED"}
<1>f. Frame => ListInv'
  BY <1>l, ListFrame
<1> HIDE DEF Frame
<1>1. ASSUME NEW demo \in Commands, command(demo) PROVE ListInv'
  <2>1. Frame
    BY <1>1, <1>t DEF command, Step, svars, Frame
  <2> QED BY <2>1, <1>f
<1>2. ASSUME NEW pid \in KillTargets, kill_command(pid) PROVE ListInv'
  <2>1. Frame
    BY <1>2, <1>t DEF kill_command, kill, dvars, Frame
  <2> QED BY <2>1, <1>f
<1>3. CASE thread_create_full \/ Kernel(process_create_esp)
  <2>1. Frame
    BY <1>3, <1>t DEF thread_create_full, Kernel, process_create_esp, dvars, svars, locals, Frame
  <2> QED BY <2>1, <1>f
<1>4. CASE mutex_init
  <2>1. \A p \in User : entry[p] # "racem"
    BY <1>4, <1>l DEF InitPrecedesThreads, mutex_init, Step
  <2>2. mutex.nwaiters = 0
    BY <2>1, <1>l DEF ListInv, WaiterSleeps, Asleep
  <2>3. mutex'.nwaiters = mutex.nwaiters /\ mutex'.waiters = mutex.waiters
    BY <1>4, <2>2, <1>t DEF mutex_init, Mutex
  <2>4. Frame
    BY <1>4, <2>3, <1>t DEF mutex_init, Step, svars, locals, Frame
  <2> QED BY <2>4, <1>f
<1>5. ASSUME NEW slot \in User, thread_create(slot) PROVE ListInv'
  <2>1. /\ entry[slot] = "none" /\ state[slot] = "FREE" /\ ~ Asleep(slot)
    BY <1>5, <1>l DEF FreeHasNoProgram, thread_create, process_create, FirstFree, Asleep
  <2>2. /\ UNCHANGED <<mutex, reg>>
        /\ \A p \in User : ctl'[p] = ctl[p] /\ arg'[p] = arg[p]
        /\ \A p \in User \ {slot} :
             pc'[p] = pc[p] /\ entry'[p] = entry[p] /\ state'[p] = state[p]
        /\ pc'[slot] \in {"lock", "load"} /\ state'[slot] = "READY"
    BY <1>5, <1>t DEF thread_create, process_create
  <2>3. \A p : Asleep(p) => Asleep(p)'
    BY <2>1, <2>2 DEF Asleep
  <2>4. ctl[slot] # "wake" /\ pc[slot] \notin {"fetch", "wake"}
    BY <2>1, <1>l DEF ListInv, WokenSleeps, ThreadPlaces
  <2>5. WaiterSleeps' /\ ReadIsCurrent' /\ OneParks'
    BY <2>2, <2>3, <1>l DEF ListInv, WaiterSleeps, ReadIsCurrent, OneParks
  <2>6. FetchedSleeps' /\ WokenSleeps'
    BY <2>2, <2>3, <2>4, <1>l DEF ListInv, FetchedSleeps, WokenSleeps
  <2>7. SleeperIsListed'
    BY <2>2, <2>4, <1>l DEF ListInv, SleeperIsListed
  <2> QED BY <2>5, <2>6, <2>7 DEF ListInv
<1>6. CASE Kernel(scheduler_tick)
  <2>1. Frame
    BY <1>6, <1>t, SwitchFrame DEF Kernel, scheduler_tick, dvars, Frame
  <2> QED BY <2>1, <1>f
<1>7. ASSUME NEW p \in User, Kernel(scheduler_yield(p)) PROVE ListInv'
  <2>1. /\ ctl[p] = "yield" /\ pick_and_switch([ctl EXCEPT ![p] = "run"])
        /\ UNCHANGED <<arg, dvars>>
    BY <1>7 DEF Kernel, scheduler_yield, At
  <2>2. /\ [ctl EXCEPT ![p] = "run"] \in [Pid -> Ctl]
        /\ \A q \in Pid : [ctl EXCEPT ![p] = "run"][q] = "wake" <=> ctl[q] = "wake"
    BY <2>1, <1>t DEF Ctl
  <2>3. Frame
    BY <2>1, <2>2, SwitchFrame DEF dvars, Frame
  <2> QED BY <2>3, <1>f
<1>8. ASSUME NEW p \in User, Kernel(scheduler_unblock_store(p)) PROVE ListInv'
  <2>1. /\ ctl[p] = "wake" /\ state[p] = "RUNNING" /\ UNCHANGED <<arg, dvars>>
        /\ state' = [state EXCEPT ![arg[p]] = "READY"] /\ ctl' = [ctl EXCEPT ![p] = "run"]
    BY <1>8, RunnerRuns DEF Kernel, scheduler_unblock_store, At
  <2>2. /\ entry[p] = "racem" /\ mutex.nwaiters = 0 /\ Asleep(arg[p]) /\ arg[p] # p
        /\ pc[p] \in {"lock", "exit"} /\ ~ Asleep(p)
    BY <2>1, <1>l DEF ListInv, WokenSleeps, Asleep
  <2>3. \A q \in User : entry[q] = "racem" => q \in {p, arg[p]}
    BY <2>2, <1>l, NoThird DEF Asleep
  <2>4. \A q : Asleep(q) => q = arg[p]
    BY <2>2, <2>3 DEF Asleep
  <2>5. \A q \in User : ctl[q] = "wake" => q = p
    BY <2>3, <2>4, <1>l DEF ListInv, WokenSleeps
  <2>6. \A q \in User : pc[q] \notin {"fetch", "wake"}
    BY <2>2, <2>3, <1>l DEF ThreadPlaces, Asleep
  <2>7. \A q \in User : state'[q] # "BLOCKED" /\ ctl'[q] # "wake"
    <3>1. \A q \in User : q # arg[p] => state[q] # "BLOCKED"
      BY <2>4, <1>l, BlockedSleeps
    <3>2. \A q \in User : state'[q] # "BLOCKED"
      BY <2>1, <3>1, <1>t
    <3> QED BY <2>1, <2>5, <3>2, <1>t
  <2>8. WaiterSleeps' /\ ReadIsCurrent' /\ OneParks'
    BY <2>1, <2>2, <1>l DEF ListInv, WaiterSleeps, ReadIsCurrent, OneParks, dvars
  <2>9. FetchedSleeps' /\ WokenSleeps' /\ SleeperIsListed'
    BY <2>1, <2>6, <2>7 DEF FetchedSleeps, WokenSleeps, SleeperIsListed, dvars
  <2> QED BY <2>8, <2>9 DEF ListInv
<1> QED BY <1>1, <1>2, <1>3, <1>4, <1>5, <1>6, <1>7, <1>8 DEF Shell_step

\* The steps of the threads keep the waiter list right.
LEMMA ListThreadStep ==
    ASSUME SchedInv, ProgInv, WaitInv, NEW p \in User,
           load(p) \/ store(p) \/ exit(p) \/ mutex_lock(p) \/ mutex_unlock(p)
    PROVE  ListInv'
<1> USE PidFacts
<1>t. /\ mutex \in Mutex /\ entry \in [Pid -> Entry] /\ pc \in [Pid -> ShellPC \cup ThreadPC]
      /\ state \in [Pid -> State] /\ ctl \in [Pid -> Ctl] /\ arg \in [Pid -> Pid]
      /\ reg \in [Pid -> Nat \cup {-1}]
  BY DEF ProgInv, RaceTypeOK, SchedInv, SchedTypeOK
<1>m. /\ mutex.nwaiters \in 0 .. MAX_PROCESSES /\ mutex.waiters \in [Pid -> Pid]
  BY <1>t DEF Mutex
<1>l. /\ ListInv /\ Pair("racem") /\ ThreadPlaces /\ HeldWhenLocked
      /\ WaiterSleeps /\ ReadIsCurrent /\ FetchedSleeps /\ WokenSleeps /\ OneParks
      /\ SleeperIsListed
  BY DEF WaitInv, ListInv, ProgInv
<1>r. state[p] = "RUNNING" /\ ctl[p] = "run" /\ ~ Asleep(p)
  BY RunnerRuns DEF load, store, exit, thread_exit, mutex_lock, mutex_unlock, lock, park,
     own, disown, release, read_nwaiters, no_waiters, pop, fetch, wake, Step, At, Asleep
<1>1. ASSUME UNCHANGED <<svars, entry>>,
             mutex'.nwaiters = mutex.nwaiters, mutex'.waiters = mutex.waiters,
             \A q \in User \ {p} : pc'[q] = pc[q] /\ reg'[q] = reg[q],
             pc[p] \notin {"fetch", "wake"}, pc'[p] \notin {"park", "fetch", "wake"},
             pc'[p] \in {"unlock", "release", "check"} =>
                 \/ reg'[p] = -1 \/ reg'[p] = mutex.nwaiters
                 \/ reg'[p] = reg[p] /\ pc[p] \in {"unlock", "release", "check"}
      PROVE  ListInv'
  <2>1. /\ \A q : Asleep(q) => Asleep(q)'
        /\ UNCHANGED <<state, ctl, arg>>
    BY <1>1, <1>r DEF Asleep, svars
  <2>2. WaiterSleeps' /\ OneParks'
    BY <1>1, <2>1, <1>l DEF WaiterSleeps, OneParks
  <2>3. ReadIsCurrent'
    BY <1>1, <1>l, <1>m DEF ReadIsCurrent, WaiterSleeps
  <2>4. FetchedSleeps' /\ WokenSleeps'
    BY <1>1, <2>1, <1>r, <1>l DEF FetchedSleeps, WokenSleeps
  <2>5. SleeperIsListed'
    BY <1>1, <2>1, <1>l DEF SleeperIsListed
  <2> QED BY <2>2, <2>3, <2>4, <2>5 DEF ListInv
<1>2. CASE load(p) \/ store(p)
  BY <1>1, <1>2, <1>t DEF load, store, Step
<1>3. CASE own(p) \/ disown(p) \/ release(p)
  BY <1>1, <1>3, <1>t DEF own, disown, release, Step, Mutex, locals
<1>4. CASE read_nwaiters(p) \/ no_waiters(p)
  BY <1>1, <1>4, <1>t DEF read_nwaiters, no_waiters, Step, AfterUnlock
<1>5. CASE exit(p)
  <2>1. /\ UNCHANGED <<mutex, pc, reg, entry, arg>> /\ pc[p] = "exit"
        /\ state' = [state EXCEPT ![p] = "TERMINATED"] /\ ctl' = [ctl EXCEPT ![p] = "halt"]
    BY <1>5 DEF exit, thread_exit, dvars
  <2> QED BY <2>1, <1>t, <1>r, <1>l, ListFrame
<1>6. CASE lock(p)
  <2>1. /\ UNCHANGED <<svars, entry, reg>> /\ pc[p] = "lock" /\ entry[p] = "racem"
        /\ pc' = [pc EXCEPT ![p] = IF mutex.locked = 1 THEN "park" ELSE "own"]
        /\ mutex'.nwaiters = mutex.nwaiters /\ mutex'.waiters = mutex.waiters
    BY <1>6, <1>t, <1>l DEF lock, Step, Mutex, locals, ThreadPlaces
  <2>2. CASE mutex.locked = 0
    BY <1>1, <2>1, <2>2, <1>t
  <2>3. CASE mutex.locked = 1
    <3>1. PICK h \in User : InCriticalSection(h)
      BY <2>3, <1>l DEF HeldWhenLocked
    <3>2. h # p /\ ~ Asleep(h) /\ pc[h] # "park" /\ pc[h] \notin {"fetch", "wake"}
          /\ entry[h] = "racem"
      BY <3>1, <2>1 DEF InCriticalSection, Asleep
    <3>3. \A q \in User : entry[q] = "racem" => q \in {p, h}
      BY <2>1, <3>2, <1>l, NoThird
    <3>4. \A q : ~ Asleep(q)
      BY <3>2, <3>3, <1>r DEF Asleep
    <3>5. mutex.nwaiters = 0
      BY <3>4, <1>l DEF WaiterSleeps
    <3>6. \A q \in User : pc[q] # "park"
      BY <2>1, <3>2, <3>3, <1>l DEF ThreadPlaces
    <3>7. \A q \in User : pc[q] \notin {"fetch", "wake"} /\ ctl[q] # "wake"
      BY <3>4, <1>l DEF FetchedSleeps, WokenSleeps
    <3>8. WaiterSleeps' /\ OneParks'
      BY <2>1, <2>3, <3>5, <3>6, <1>t DEF WaiterSleeps, OneParks
    <3>9. ReadIsCurrent' /\ FetchedSleeps' /\ WokenSleeps'
      BY <2>1, <2>3, <3>7, <1>t, <1>l DEF ReadIsCurrent, FetchedSleeps, WokenSleeps, svars
    <3>10. SleeperIsListed'
      <4>1. \A q \in User : state'[q] # "BLOCKED"
        BY <2>1, <3>4, <1>l, BlockedSleeps DEF svars
      <4> QED BY <4>1 DEF SleeperIsListed
    <3> QED BY <3>8, <3>9, <3>10 DEF ListInv
  <2> QED BY <2>2, <2>3, <1>t DEF Mutex
<1>7. CASE park(p)
  <2>1. /\ UNCHANGED <<entry, reg, arg>> /\ pc[p] = "park" /\ entry[p] = "racem"
        /\ pc' = [pc EXCEPT ![p] = "lock"] /\ mutex.nwaiters = 0
        /\ state' = [state EXCEPT ![p] = "BLOCKED"] /\ ctl' = [ctl EXCEPT ![p] = "yield"]
        /\ \A q \in User : q # p => pc[q] # "park"
    BY <1>7, <1>t, <1>l DEF park, block, Step, locals, OneParks, ThreadPlaces
  <2>2. mutex'.nwaiters = 1 /\ mutex'.waiters[0] = p
    BY <1>7, <2>1, <1>t, <1>m DEF park, Mutex
  <2>3. \A q : ~ Asleep(q) \/ ~ \E r \in User : r # q /\ r # p /\ entry[r] = "racem"
    BY <2>1, <1>l, <1>r, NoThird DEF Asleep
  <2>4. \A q \in User : pc[q] \notin {"fetch", "wake"} /\ ctl[q] # "wake"
    <3> SUFFICES ASSUME NEW q \in User, pc[q] \in {"fetch", "wake"} \/ ctl[q] = "wake"
                 PROVE  FALSE
      OBVIOUS
    <3>1. /\ entry[q] = "racem" /\ q # p
      BY <2>1, <1>r, <1>l DEF WokenSleeps, ThreadPlaces
    <3>2. ASSUME NEW s, Asleep(s), s # q PROVE FALSE
      BY <3>1, <3>2, <2>3
    <3>3. CASE pc[q] = "fetch"
      BY <3>2, <3>3, <1>l DEF FetchedSleeps, Asleep
    <3>4. CASE pc[q] = "wake"
      BY <3>2, <3>4, <1>l DEF FetchedSleeps, Asleep
    <3>5. CASE ctl[q] = "wake"
      BY <3>2, <3>5, <1>l DEF WokenSleeps
    <3> QED BY <3>3, <3>4, <3>5
  <2>5. \A q \in User : state[q] # "BLOCKED"
    BY <2>1, <2>4, <1>l DEF SleeperIsListed
  <2>6. Asleep(p)'
    BY <2>1, <1>t DEF Asleep
  <2>7. \A q \in User \ {p} : pc'[q] = pc[q] /\ ctl'[q] = ctl[q] /\ state'[q] = state[q]
    BY <2>1, <1>t
  <2>8. pc'[p] = "lock" /\ ctl'[p] = "yield"
    BY <2>1, <1>t
  <2>9. WaiterSleeps' /\ OneParks'
    BY <2>1, <2>2, <2>6, <2>7, <2>8 DEF WaiterSleeps, OneParks
  <2>10. ReadIsCurrent' /\ FetchedSleeps' /\ WokenSleeps'
    BY <2>1, <2>2, <2>4, <2>7, <2>8, <1>l DEF ReadIsCurrent, FetchedSleeps, WokenSleeps
  <2>11. SleeperIsListed'
    BY <2>2, <2>5, <2>7 DEF SleeperIsListed
  <2> QED BY <2>9, <2>10, <2>11 DEF ListInv
<1>8. CASE pop(p)
  <2>1. /\ UNCHANGED <<svars, entry>> /\ pc[p] = "check" /\ entry[p] = "racem"
        /\ pc' = [pc EXCEPT ![p] = "fetch"] /\ reg' = [reg EXCEPT ![p] = 0]
        /\ mutex.nwaiters = 1 /\ mutex'.nwaiters = 0 /\ mutex'.waiters = mutex.waiters
    <3>1. /\ UNCHANGED <<svars, entry>> /\ pc[p] = "check" /\ reg[p] > 0
          /\ pc' = [pc EXCEPT ![p] = "fetch"] /\ reg' = [reg EXCEPT ![p] = reg[p] - 1]
          /\ mutex' = [mutex EXCEPT !.nwaiters = reg[p] - 1]
      BY <1>8 DEF pop, Step
    <3>2. reg[p] = 1 /\ mutex.nwaiters = 1 /\ entry[p] = "racem"
      BY <3>1, <1>l DEF ReadIsCurrent, ThreadPlaces
    <3> QED BY <3>1, <3>2, <1>t DEF Mutex
  <2>2. Asleep(mutex.waiters[0]) /\ \A q : Asleep(q) => Asleep(q)'
    <3>1. Asleep(mutex.waiters[0])
      BY <2>1, <1>l DEF WaiterSleeps
    <3>2. ASSUME NEW q, Asleep(q) PROVE Asleep(q)'
      BY <2>1, <3>2, <1>r, <1>t DEF Asleep, svars
    <3> QED BY <3>1, <3>2
  <2>3. \A q \in User : entry[q] = "racem" => q \in {p, mutex.waiters[0]}
    <3> DEFINE w == mutex.waiters[0]
    <3>1. w \in User /\ entry[w] = "racem" /\ w # p
      BY <2>1, <2>2 DEF Asleep
    <3> QED BY <2>1, <3>1, <1>l, NoThird
  <2>4. \A q \in User \ {p} : pc[q] \notin {"unlock", "release", "check", "park"}
    BY <2>2, <2>3, <1>l DEF ThreadPlaces, Asleep
  <2>5. \A q \in User : pc[q] \notin {"fetch", "wake"} /\ ctl[q] # "wake"
    BY <2>1, <1>l DEF FetchedSleeps, WokenSleeps
  <2>6. WaiterSleeps' /\ OneParks' /\ ReadIsCurrent'
    BY <2>1, <2>4, <1>t DEF WaiterSleeps, OneParks, ReadIsCurrent
  <2>7. FetchedSleeps' /\ WokenSleeps'
    BY <2>1, <2>2, <2>5, <1>t DEF FetchedSleeps, WokenSleeps, svars
  <2>8. SleeperIsListed'
    <3>1. \A q \in User : state'[q] = "BLOCKED" => q = mutex.waiters[0]
      BY <2>1, <2>5, <1>l DEF SleeperIsListed, svars
    <3>2. pc'[p] = "fetch" /\ reg'[p] = 0
      BY <2>1, <1>t
    <3> QED BY <3>1, <3>2, <2>1 DEF SleeperIsListed
  <2> QED BY <2>6, <2>7, <2>8 DEF ListInv
<1>9. CASE fetch(p)
  <2>1. /\ UNCHANGED <<svars, entry, mutex>> /\ pc[p] = "fetch" /\ reg[p] = 0
        /\ pc' = [pc EXCEPT ![p] = "wake"] /\ reg' = [reg EXCEPT ![p] = mutex.waiters[0]]
    BY <1>9, <1>l DEF fetch, Step, FetchedSleeps
  <2>2. Asleep(mutex.waiters[0]) /\ \A q : Asleep(q) => Asleep(q)'
    BY <2>1, <1>l, <1>r, <1>t DEF FetchedSleeps, Asleep, svars
  <2>3. /\ pc'[p] = "wake" /\ reg'[p] = mutex.waiters[0]
        /\ \A q \in User \ {p} : pc'[q] = pc[q] /\ reg'[q] = reg[q]
    BY <2>1, <1>t
  <2>4. WaiterSleeps' /\ OneParks' /\ ReadIsCurrent'
    BY <2>1, <2>2, <2>3, <1>l DEF WaiterSleeps, OneParks, ReadIsCurrent
  <2>5. FetchedSleeps' /\ WokenSleeps'
    BY <2>1, <2>2, <2>3, <1>l, <1>r DEF FetchedSleeps, WokenSleeps, svars
  <2>6. SleeperIsListed'
    BY <2>1, <2>3, <1>l DEF SleeperIsListed, svars
  <2> QED BY <2>4, <2>5, <2>6 DEF ListInv
<1>10. CASE wake(p)
  <2>1. /\ UNCHANGED <<entry, mutex, state>> /\ pc[p] = "wake" /\ entry[p] = "racem"
        /\ pc' = [pc EXCEPT ![p] = AfterUnlock(p)] /\ reg' = [reg EXCEPT ![p] = -1]
        /\ mutex.nwaiters = 0 /\ Asleep(reg[p]) /\ reg[p] # p
    BY <1>10, <1>l, <1>r DEF wake, scheduler_unblock, Step, FetchedSleeps, ThreadPlaces
  <2>2. /\ pc'[p] \in {"lock", "exit"}
        /\ \A q \in User \ {p} : pc'[q] = pc[q] /\ reg'[q] = reg[q]
        /\ \A q : Asleep(q) => Asleep(q)'
    BY <2>1, <1>t, <1>r DEF AfterUnlock, Asleep
  <2>3. /\ \A q \in User \ {p} : ctl'[q] = ctl[q] /\ arg'[q] = arg[q]
        /\ ctl'[p] = "wake" => arg'[p] = reg[p]
        /\ state[reg[p]] = "BLOCKED" => ctl'[p] = "wake" /\ arg'[p] = reg[p]
    <3>1. reg[p] \in Pid
      BY <2>1 DEF Asleep
    <3>2. CASE state[reg[p]] = "BLOCKED"
      BY <1>10, <3>1, <3>2, <1>t DEF wake, scheduler_unblock
    <3>3. CASE state[reg[p]] # "BLOCKED"
      BY <1>10, <3>1, <3>3, <1>t, <1>r DEF wake, scheduler_unblock
    <3> QED BY <3>2, <3>3
  <2>4. WaiterSleeps' /\ OneParks' /\ ReadIsCurrent'
    BY <2>1, <2>2, <1>l DEF WaiterSleeps, OneParks, ReadIsCurrent
  <2>5. FetchedSleeps' /\ WokenSleeps'
    BY <2>1, <2>2, <2>3, <1>l DEF FetchedSleeps, WokenSleeps
  <2>6. SleeperIsListed'
    BY <2>1, <2>2, <2>3, <1>l, <1>r DEF SleeperIsListed
  <2> QED BY <2>4, <2>5, <2>6 DEF ListInv
<1> QED
  BY <1>2, <1>3, <1>4, <1>5, <1>6, <1>7, <1>8, <1>9, <1>10 DEF mutex_lock, mutex_unlock

\* With racem typed at most once, a mutex that is locked has a thread inside: the
\* xchg of a thread that has to wait does not lock an unlocked mutex.
LEMMA HeldStep ==
    ASSUME ProgInv, ProgInv', WaitInv, RaceNext PROVE HeldWhenLocked'
<1> USE PidFacts DEF HeldWhenLocked, InCriticalSection
<1>t. /\ mutex \in Mutex /\ entry \in [Pid -> Entry] /\ pc \in [Pid -> ShellPC \cup ThreadPC]
      /\ state \in [Pid -> State]
  BY DEF ProgInv, RaceTypeOK, SchedTypeOK
<1>l. HeldWhenLocked /\ ThreadPlaces /\ InitPrecedesThreads /\ FreeHasNoProgram
  BY DEF WaitInv, ExclusionInv, ProgInv
<1>1. ASSUME mutex'.locked = mutex.locked,
             \A q \in User : InCriticalSection(q) => InCriticalSection(q)'
      PROVE  HeldWhenLocked'
  BY <1>1, <1>l
<1>2. ASSUME NEW p \in User, lock(p) PROVE HeldWhenLocked'
  <2>1. CASE mutex.locked = 1
    <3>1. mutex'.locked = 1 /\ \A q \in User : InCriticalSection(q) => InCriticalSection(q)'
      BY <1>2, <2>1, <1>t DEF lock, Step, Mutex, locals
    <3> QED BY <3>1, <2>1, <1>1
  <2>2. CASE mutex.locked # 1
    BY <1>2, <2>2, <1>t, <1>l DEF lock, Step, locals, ThreadPlaces
  <2> QED BY <2>1, <2>2
<1>3. ASSUME NEW p \in User, release(p) PROVE HeldWhenLocked'
  BY <1>3, <1>t DEF release, Mutex
<1>4. CASE mutex_init
  <2>1. mutex'.locked = 0 \/ mutex'.locked = mutex.locked
    BY <1>4, <1>t DEF mutex_init, Mutex
  <2>2. \A q \in User : InCriticalSection(q) => InCriticalSection(q)'
    BY <1>4, <1>t DEF mutex_init, Step, locals
  <2> QED BY <2>1, <2>2, <1>1
<1>5. ASSUME NEW slot \in User, thread_create(slot) PROVE HeldWhenLocked'
  <2>1. entry[slot] = "none"
    BY <1>5, <1>l DEF FreeHasNoProgram, thread_create, process_create, FirstFree
  <2>2. mutex' = mutex /\ \A q \in User : InCriticalSection(q) => InCriticalSection(q)'
    BY <1>5, <2>1, <1>t DEF thread_create
  <2> QED BY <2>2, <1>1
<1>6. CASE UNCHANGED dvars
  BY <1>6, <1>1 DEF dvars
<1>7. ASSUME NEW demo \in Commands, command(demo) PROVE HeldWhenLocked'
  BY <1>7, <1>1, <1>t DEF command, Step
<1>8. CASE thread_create_full
  BY <1>8, <1>1, <1>t DEF thread_create_full, locals
<1>9. ASSUME NEW p \in User, load(p) \/ store(p) PROVE HeldWhenLocked'
  BY <1>9, <1>1, <1>t DEF load, store, Step
<1>10. ASSUME NEW p \in User, park(p) \/ own(p) \/ disown(p) PROVE HeldWhenLocked'
  <2>1. mutex'.locked = mutex.locked
    BY <1>10, <1>t DEF park, own, disown, Mutex
  <2>2. \A q \in User : InCriticalSection(q) => InCriticalSection(q)'
    BY <1>10, <1>t DEF park, own, disown, Step, locals
  <2> QED BY <2>1, <2>2, <1>1
<1>11. ASSUME NEW p \in User,
              read_nwaiters(p) \/ no_waiters(p) \/ pop(p) \/ fetch(p) \/ wake(p)
       PROVE  HeldWhenLocked'
  <2>1. mutex'.locked = mutex.locked
    BY <1>11, <1>t DEF read_nwaiters, no_waiters, pop, fetch, wake, Mutex
  <2>2. \A q \in User : InCriticalSection(q) => InCriticalSection(q)'
    BY <1>11, <1>t DEF read_nwaiters, no_waiters, pop, fetch, wake, Step
  <2> QED BY <2>1, <2>2, <1>1
<1> QED
  BY <1>2, <1>3, <1>4, <1>5, <1>6, <1>7, <1>8, <1>9, <1>10, <1>11
  DEF RaceNext, User_step, Shell_step, Thread_step, mutex_lock, mutex_unlock, Kernel,
      kill_command, exit

\* The invariant of the waiter list is inductive while racem is typed at most once.
LEMMA WaitAlways ==
    RaceSpec => []((RacemAtMostOnce => WaitInv) /\ FreeHasNoProgram /\ WakerHasFrame)
<1> DEFINE Inv == (RacemAtMostOnce => WaitInv) /\ FreeHasNoProgram /\ WakerHasFrame
<1>1. RaceInit => Inv
  <2> SUFFICES ASSUME RaceInit PROVE Inv
    OBVIOUS
  <2>1. \A p \in User : /\ entry[p] \in {"task", "none"} /\ pc[p] = "exit" /\ ctl[p] = "run"
                        /\ state[p] \in {"READY", "FREE"}
                        /\ state[p] = "FREE" => entry[p] = "none"
    BY PidFacts, SchedulerAssumption DEF RaceInit, SchedInit, User
  <2>2. /\ mutex.nwaiters = 0 /\ mutex.locked = 0 /\ pc[0] = "prompt"
    BY PidFacts DEF RaceInit
  <2>3. ExclusionInv /\ Pair("racem") /\ FreeHasNoProgram /\ HeldWhenLocked
    BY <2>1, <2>2, PidFacts DEF ExclusionInv, MutualExclusion, LockedWhenHeld, RacemWasTyped,
       InitPrecedesThreads, InCriticalSection, Pair, BeforeCreates, FreeHasNoProgram,
       HeldWhenLocked
  <2>4. ListInv
    BY <2>1, <2>2 DEF ListInv, WaiterSleeps, ReadIsCurrent, FetchedSleeps, WokenSleeps,
       OneParks, SleeperIsListed
  <2>5. WakerHasFrame
    BY WakerInit DEF RaceInit
  <2> QED BY <2>3, <2>4, <2>5 DEF WaitInv
<1>2. SchedInv /\ ProgInv /\ (SchedInv /\ ProgInv)' /\ Inv /\ [RaceNext]_vars => Inv'
  <2> SUFFICES ASSUME SchedInv, ProgInv, ProgInv', Inv, [RaceNext]_vars PROVE Inv'
    OBVIOUS
  <2>1. WakerHasFrame'
    BY StepUsesScheduler, WakerStep DEF vars
  <2>2. FreeHasNoProgram'
    BY FreeStep
  <2>3. ASSUME RacemAtMostOnce' PROVE WaitInv'
    <3>1. WaitInv /\ ExclusionInv
      BY <2>3, OnceBefore DEF WaitInv
    <3>2. Pair("racem")'
      <4>1. AtMostOnce("racem")' /\ Pair("racem")
        BY <2>3, <3>1 DEF RacemAtMostOnce, AtMostOnce, WaitInv
      <4> QED BY <4>1, PairStep
    <3>3. CASE UNCHANGED vars
      BY <3>1, <3>3 DEF vars, svars, dvars, WaitInv, ExclusionInv, MutualExclusion,
         LockedWhenHeld, RacemWasTyped, InitPrecedesThreads, InCriticalSection, Latest, Pair,
         FreeHasNoProgram, HeldWhenLocked, ListInv, WaiterSleeps, ReadIsCurrent,
         FetchedSleeps, WokenSleeps, OneParks, SleeperIsListed, Asleep
    <3>4. CASE RaceNext
      <4>1. ExclusionInv'
        BY <2>3, <3>1, <3>4, ExclusionStep
      <4>2. HeldWhenLocked'
        BY <3>1, <3>4, HeldStep
      <4>3. ListInv'
        BY <3>1, <3>4, ListKernelStep, ListThreadStep
        DEF RaceNext, User_step, Thread_step
      <4> QED BY <2>2, <3>2, <4>1, <4>2, <4>3 DEF WaitInv
    <3> QED BY <3>3, <3>4
  <2> QED BY <2>1, <2>2, <2>3
<1> QED BY <1>1, <1>2, BothAlways, PTL DEF RaceSpec

\* mutex_unlock forgets nobody: with racem typed at most once, every thread that
\* mutex_lock has put to sleep is in waiters, or was popped by a thread that has
\* still to wake it.
THEOREM NobodyForgotten ==
    RaceSpec => [](RacemAtMostOnce => SleeperIsListed)
<1>1. (RacemAtMostOnce => WaitInv) => (RacemAtMostOnce => SleeperIsListed)
  BY DEF WaitInv, ListInv
<1> QED BY <1>1, WaitAlways, PTL

\* mutex_lock writes inside waiters, although it does not check: with racem typed
\* at most once, the list is empty whenever a thread appends itself.
THEOREM WaiterListBounded ==
    RaceSpec => [](RacemAtMostOnce => WaitersInBounds)
<1>1. (RacemAtMostOnce => WaitInv) => (RacemAtMostOnce => WaitersInBounds)
  BY PidFacts DEF WaitInv, ListInv, OneParks, WaitersInBounds
<1> QED BY <1>1, WaitAlways, PTL

-----------------------------------------------------------------------------
(***************************************************************************)
(* A lone racem implements AtomicCounter.  Exclusion makes the value a     *)
(* thread loaded still current when it stores its successor.               *)
(***************************************************************************)
OneCommand == MAX_COMMANDS <= 1

LoadedIsCurrent ==
    \A p \in User : pc[p] = "store" /\ entry[p] = "racem" => reg[p] = myglobal

ProgramsWereTyped ==
    \A p \in User : /\ pc[p] # "exit" => entry[p] \in {"race", "racem"}
                    /\ entry[p] \in {"race", "racem"} => typed = <<entry[p]>>

CountInv == ExclusionInv /\ LoadedIsCurrent /\ ProgramsWereTyped /\ FreeHasNoProgram

\* A user who types at most one command has typed nothing, race or racem.
LEMMA TypedOnce ==
    ASSUME OneCommand, ProgInv
    PROVE  /\ RacemAtMostOnce
           /\ typed = <<>> \/ \E demo \in Commands : typed = <<demo>> /\ Latest = demo
<1>1. typed \in Seq(Commands) /\ Len(typed) <= 1
  BY RaceAssumption DEF OneCommand, ProgInv, RaceTypeOK
<1>2. RacemAtMostOnce
  BY <1>1 DEF RacemAtMostOnce
<1>3. typed = <<>> \/ \E demo \in Commands : typed = <<demo>>
  BY <1>1, AtMostOneElement
<1> QED BY <1>2, <1>3 DEF Latest

\* Every step after a single command is a step of AtomicCounter or changes
\* nothing of it, and the value a racem thread loaded stays the value of
\* myglobal until it stores.
LEMMA CountStep ==
    ASSUME OneCommand, SchedInv, ProgInv, ProgInv', CountInv, RaceNext
    PROVE  CountInv' /\ [Counter!CounterNext]_(Counter!cvars)
<1> USE PidFacts
<1>o. typed = <<>> \/ \E demo \in Commands : typed = <<demo>> /\ Latest = demo
  BY TypedOnce
<1>e. ExclusionInv'
  <2>1. RacemAtMostOnce'
    <3>1. typed' \in Seq(Commands) /\ Len(typed') <= 1
      BY RaceAssumption DEF OneCommand, ProgInv, RaceTypeOK
    <3> QED BY <3>1 DEF RacemAtMostOnce
  <2>2. RacemAtMostOnce
    BY <1>o DEF RacemAtMostOnce
  <2> QED BY <2>1, ExclusionStep DEF CountInv
<1>f. \A p \in User : state'[p] = "FREE" => state[p] = "FREE"
  BY FreeStaysFree
<1>t. /\ myglobal \in Nat /\ entry \in [Pid -> Entry]
      /\ pc \in [Pid -> ShellPC \cup ThreadPC]
      /\ left \in [Pid -> 0 .. ITERS] /\ reg \in [Pid -> Nat \cup {-1}]
      /\ typed \in Seq(Commands) /\ ITERS \in Nat \ {0}
      /\ Commands \subseteq {"race", "racem"}
  BY RaceAssumption DEF ProgInv, RaceTypeOK
<1>p. ThreadPlaces /\ ShellPlaces /\ MutualExclusion
  BY DEF ProgInv, CountInv, ExclusionInv
<1> USE DEF LoadedIsCurrent, ProgramsWereTyped, FreeHasNoProgram, locals, Counter!cvars
<1>i. LoadedIsCurrent /\ ProgramsWereTyped /\ FreeHasNoProgram
  BY DEF CountInv
<1> DEFINE Goal == /\ LoadedIsCurrent' /\ ProgramsWereTyped' /\ FreeHasNoProgram'
                   /\ [Counter!CounterNext]_(Counter!cvars)
<1>1. ASSUME NEW demo \in Commands, command(demo) PROVE Goal
  <2>1. typed = <<>> /\ typed' = <<demo>>
    <3>1. Len(typed) = 0
      BY <1>1, <1>t, RaceAssumption DEF command, OneCommand
    <3> QED BY <3>1, <1>1, <1>t DEF command
  <2>2. \A p \in User : entry[p] \notin {"race", "racem"} /\ pc[p] = "exit"
    BY <2>1, <1>i
  <2>3. /\ UNCHANGED <<entry, left, state>> /\ \A p \in User : pc'[p] = pc[p]
        /\ myglobal' = 0
    BY <1>1, <1>t DEF command, Step, svars
  <2> QED BY <2>1, <2>2, <2>3, <1>i
<1>2. ASSUME UNCHANGED <<myglobal, entry, left, typed>>,
             \A p \in User : pc'[p] = "store" => pc[p] = "store" /\ reg'[p] = reg[p],
             \A p \in User : pc'[p] # "exit" => pc[p] # "exit"
      PROVE  Goal
  BY <1>2, <1>i, <1>f
<1>3. ASSUME mutex_init \/ thread_create_full PROVE Goal
  <2>1. /\ UNCHANGED <<myglobal, entry, left, typed, reg>>
        /\ \A p \in User : pc'[p] = pc[p]
    BY <1>3, <1>t DEF mutex_init, Step, thread_create_full
  <2> QED BY <2>1, <1>2
<1>4. ASSUME NEW slot \in User, thread_create(slot) PROVE Goal
  <2>0. pc[0] # "prompt"
    BY <1>4 DEF thread_create
  <2>1. /\ Latest \in {"race", "racem"} /\ typed = <<Latest>>
        /\ state[slot] = "FREE" /\ entry[slot] = "none"
    BY <1>4, <2>0, <1>i, <1>p, <1>t, <1>o
    DEF thread_create, process_create, FirstFree, ShellPlaces
  <2>2. LoadedIsCurrent' /\ ProgramsWereTyped'
    BY <1>4, <2>1, <1>i, <1>t DEF thread_create
  <2>3. FreeHasNoProgram'
    <3>1. state'[slot] = "READY"
      BY <1>4 DEF thread_create, process_create, SchedInv, SchedTypeOK
    <3>2. \A p \in User \ {slot} : state'[p] = state[p]
      BY <1>4 DEF thread_create, process_create, SchedInv, SchedTypeOK
    <3>3. \A p \in User \ {slot} : entry'[p] = entry[p]
      BY <1>4, <1>t DEF thread_create
    <3> QED BY <3>1, <3>2, <3>3, <1>i
  <2>4. CASE Latest = "racem"
    <3>2. /\ entry'[slot] = "racem" /\ left'[slot] = ITERS /\ entry[slot] # "racem"
          /\ typed' = typed /\ myglobal' = myglobal
          /\ \A p \in User \ {slot} : entry'[p] = entry[p] /\ left'[p] = left[p]
      BY <1>4, <2>1, <2>4, <1>t DEF thread_create
    <3>1. Counter!Start(slot)
      <4>1. \A p \in User : (IF entry'[p] = "racem" THEN left'[p] ELSE 0)
                           = (IF p = slot THEN ITERS ELSE IF entry[p] = "racem" THEN left[p] ELSE 0)
        BY <3>2
      <4>2. {p \in User : entry'[p] = "racem"} = {p \in User : entry[p] = "racem"} \cup {slot}
        BY <3>2
      <4>3. slot \notin {p \in User : entry[p] = "racem"}
        BY <3>2
      <4>4. [p \in User |-> IF entry'[p] = "racem" THEN left'[p] ELSE 0]
              = [[p \in User |-> IF entry[p] = "racem" THEN left[p] ELSE 0] EXCEPT ![slot] = ITERS]
        BY <4>1
      <4> QED BY <3>2, <4>2, <4>3, <4>4 DEF Counter!Start
    <3> QED BY <2>2, <2>3, <3>1 DEF Counter!CounterNext
  <2>5. CASE Latest = "race"
    <3>1. UNCHANGED Counter!cvars
      BY <1>4, <2>1, <2>5, <1>t DEF thread_create
    <3> QED BY <2>2, <2>3, <3>1
  <2> QED BY <2>1, <2>4, <2>5
<1>5. ASSUME UNCHANGED dvars PROVE Goal
  BY <1>5, <1>2 DEF dvars
<1>6. ASSUME NEW p \in User, load(p) PROVE Goal
  BY <1>6, <1>i, <1>f, <1>t DEF load, Step
<1>7. ASSUME NEW p \in User, store(p) PROVE Goal
  <2>1. /\ pc[p] = "store" /\ left[p] > 0 /\ entry[p] \in {"race", "racem"}
        /\ typed = <<entry[p]>>
    BY <1>7, <1>i, <1>p DEF store, Step, ThreadPlaces
  <2>2. ProgramsWereTyped' /\ FreeHasNoProgram'
    BY <1>7, <2>1, <1>i, <1>f, <1>t DEF store, Step
  <2>3. CASE entry[p] = "racem"
    <3>1. myglobal' = myglobal + 1
      BY <1>7, <2>1, <2>3, <1>i DEF store
    <3>2. \A q \in User \ {p} : entry[q] = "racem" => pc[q] # "store"
      BY <2>1, <2>3, <1>p DEF MutualExclusion, InCriticalSection
    <3>3. LoadedIsCurrent'
      BY <1>7, <2>1, <3>2, <1>t DEF store, Step
    <3>4. Counter!Increment(p)
      BY <1>7, <2>1, <2>3, <3>1, <1>t DEF store, Counter!Increment
    <3> QED BY <2>2, <3>3, <3>4 DEF Counter!CounterNext
  <2>4. CASE entry[p] = "race"
    <3>1. \A q \in User : entry[q] # "racem"
      BY <2>1, <2>4, <1>i
    <3>2. /\ UNCHANGED <<entry, typed>> /\ typed # <<"racem">>
      BY <1>7, <2>1, <2>4 DEF store
    <3>3. LoadedIsCurrent' /\ UNCHANGED Counter!cvars
      BY <3>1, <3>2
    <3> QED BY <2>2, <3>3
  <2> QED BY <2>1, <2>3, <2>4
<1>8. ASSUME NEW p \in User, mutex_lock(p) PROVE Goal
  <2>1. /\ UNCHANGED <<myglobal, entry, left, typed, reg>> /\ pc[p] # "exit"
        /\ pc'[p] # "store" /\ \A q \in User \ {p} : pc'[q] = pc[q]
    BY <1>8, <1>t DEF mutex_lock, lock, park, own, Step
  <2> QED BY <2>1, <1>2
<1>9. ASSUME NEW p \in User, mutex_unlock(p) PROVE Goal
  <2>1. /\ UNCHANGED <<myglobal, entry, left, typed>> /\ pc[p] # "exit"
        /\ pc'[p] # "store"
        /\ \A q \in User \ {p} : pc'[q] = pc[q] /\ reg'[q] = reg[q]
    BY <1>9, <1>t DEF mutex_unlock, disown, release, read_nwaiters, no_waiters, pop, fetch,
                      wake, AfterUnlock, Step
  <2> QED BY <2>1, <1>2
<1>10. Goal
  BY <1>1, <1>3, <1>4, <1>5, <1>6, <1>7, <1>8, <1>9
  DEF RaceNext, User_step, Shell_step, Thread_step, Kernel, kill_command, exit
<1> QED BY <1>e, <1>10 DEF CountInv

\* A lone racem adds to myglobal exactly as threads with an indivisible
\* increment would: no update is lost, however the timer interleaves them.
THEOREM RacemCountsAtomically ==
    ASSUME OneCommand PROVE RaceSpec => CountsAtomically
<1>1. RaceInit => CountInv /\ Counter!CounterInit
  BY PidFacts DEF RaceInit, SchedInit, CountInv, ExclusionInv, MutualExclusion,
         LockedWhenHeld, RacemWasTyped, InitPrecedesThreads, InCriticalSection,
         LoadedIsCurrent, ProgramsWereTyped, FreeHasNoProgram, Counter!CounterInit
<1>2. SchedInv /\ ProgInv /\ (SchedInv /\ ProgInv)' /\ CountInv /\ [RaceNext]_vars
        => CountInv' /\ [Counter!CounterNext]_(Counter!cvars)
  <2>1. ASSUME CountInv, UNCHANGED vars PROVE CountInv' /\ UNCHANGED Counter!cvars
    BY <2>1 DEF vars, svars, dvars, CountInv, ExclusionInv, MutualExclusion, LockedWhenHeld,
                RacemWasTyped, InitPrecedesThreads, InCriticalSection, LoadedIsCurrent,
                ProgramsWereTyped, FreeHasNoProgram, Latest, Counter!cvars
  <2> QED BY <2>1, CountStep, OneCommand
<1> QED BY <1>1, <1>2, BothAlways, PTL DEF RaceSpec, CountsAtomically, Counter!CounterSpec

-----------------------------------------------------------------------------
(***************************************************************************)
(* Without the mutex.  What is lost of a lone race, and what is not: the   *)
(* counter never exceeds the additions made so far; a thread that has made *)
(* one addition never again loads the 0 both began with; so once both have *)
(* made two, whatever either of them stores is at least 2.                 *)
(***************************************************************************)
Done(p) == IF entry[p] = "race" THEN ITERS - left[p] ELSE 0

OnlyRacers(p, q) == p # q /\ \A r \in User : entry[r] = "race" => r \in {p, q}

NoneCountedTwice ==
    \A p, q \in User : OnlyRacers(p, q) =>
        /\ myglobal <= Done(p) + Done(q)
        /\ \A r \in {p, q} : pc[r] = "store" /\ entry[r] = "race" =>
              reg[r] <= Done(p) + Done(q)

FirstSurvives ==
    \A p \in User : Done(p) >= 1 => myglobal >= 1 /\ (pc[p] = "store" => reg[p] >= 1)

SecondSurvives ==
    \A p, q \in User : p # q /\ Done(p) >= 2 /\ Done(q) >= 2 => myglobal >= 2

ExitWhenDone == \A p \in User : entry[p] = "race" /\ pc[p] = "exit" => left[p] = 0

BoundInv == NoneCountedTwice /\ FirstSurvives /\ SecondSurvives /\ ExitWhenDone

LoneInv == CountInv /\ Pair("race") /\ (typed # <<"racem">> => BoundInv)

\* While a lone race runs there is no thread of racem.
LEMMA OnlyRace ==
    ASSUME ProgInv, CountInv, typed # <<"racem">>, NEW p \in User
    PROVE  /\ entry[p] # "racem"
           /\ pc[p] \in {"load", "store", "exit"}
           /\ pc[p] # "exit" => entry[p] = "race"
  BY DEF ProgInv, ThreadPlaces, CountInv, ProgramsWereTyped

\* Every step keeps the bounds of a lone race.
LEMMA BoundStep ==
    ASSUME OneCommand, SchedInv, ProgInv, ProgInv', LoneInv, RaceNext,
           typed' # <<"racem">>
    PROVE  BoundInv'
<1> USE PidFacts
<1>t. /\ myglobal \in Nat /\ entry \in [Pid -> Entry] /\ pc \in [Pid -> ShellPC \cup ThreadPC]
      /\ left \in [Pid -> 0 .. ITERS] /\ reg \in [Pid -> Nat \cup {-1}]
      /\ typed \in Seq(Commands) /\ ITERS \in Nat \ {0}
      /\ typed = <<>> \/ \E demo \in Commands : typed = <<demo>> /\ Latest = demo
  BY RaceAssumption, TypedOnce DEF ProgInv, RaceTypeOK
<1>d. \A p \in User : Done(p) \in Nat
  BY <1>t DEF Done
<1>c. CountInv /\ ProgramsWereTyped /\ FreeHasNoProgram /\ ThreadPlaces /\ ShellPlaces
  BY DEF LoneInv, CountInv, ProgInv
<1>1. ASSUME UNCHANGED <<myglobal, entry, left>>,
             \A p \in User : pc'[p] = pc[p] /\ reg'[p] = reg[p],
             typed # <<"racem">>
      PROVE  BoundInv'
  <2>1. BoundInv /\ \A p : Done(p)' = Done(p)
    BY <1>1 DEF LoneInv, Done
  <2>2. NoneCountedTwice'
    BY <1>1, <2>1 DEF BoundInv, NoneCountedTwice, OnlyRacers
  <2>3. FirstSurvives' /\ SecondSurvives' /\ ExitWhenDone'
    BY <1>1, <2>1 DEF BoundInv, FirstSurvives, SecondSurvives, ExitWhenDone
  <2> QED BY <2>2, <2>3 DEF BoundInv
<1>2. ASSUME NEW demo \in Commands, command(demo) PROVE BoundInv'
  <2>1. typed = <<>>
    <3>1. Len(typed) = 0
      BY <1>2, <1>t, RaceAssumption DEF command, OneCommand
    <3> QED BY <3>1, <1>t
  <2>2. \A p \in User : entry[p] # "race" /\ pc[p] = "exit"
    BY <2>1, <1>c DEF ProgramsWereTyped
  <2>3. /\ UNCHANGED <<entry, left>> /\ myglobal' = 0
        /\ \A p \in User : pc'[p] = pc[p]
    BY <1>2, <1>t DEF command, Step
  <2>4. \A p \in User : Done(p)' = 0
    BY <2>2, <2>3 DEF Done
  <2> QED BY <2>2, <2>3, <2>4 DEF BoundInv, NoneCountedTwice, FirstSurvives, SecondSurvives,
             ExitWhenDone
<1>3. CASE mutex_init \/ thread_create_full
  BY <1>1, <1>3, <1>t DEF mutex_init, thread_create_full, Step, locals
<1>4. CASE UNCHANGED dvars
  BY <1>1, <1>4 DEF dvars
<1>5. ASSUME NEW slot \in User, thread_create(slot) PROVE BoundInv'
  <2>1. /\ entry[slot] = "none" /\ typed' = typed /\ Latest = "race"
    <3>1. entry[slot] = "none" /\ typed' = typed /\ pc[0] # "prompt"
      BY <1>5, <1>c DEF FreeHasNoProgram, thread_create, process_create, FirstFree
    <3>2. PICK demo \in Commands : typed = <<demo>> /\ Latest = demo
      BY <3>1, <1>c, <1>t DEF ShellPlaces
    <3>3. demo \in {"race", "racem"} /\ demo # "racem"
      BY <3>1, <3>2, RaceAssumption
    <3> QED BY <3>1, <3>2, <3>3
  <2>2. /\ UNCHANGED <<myglobal, reg>>
        /\ entry'[slot] = "race" /\ left'[slot] = ITERS /\ pc'[slot] = "load"
        /\ \A p \in User \ {slot} :
             entry'[p] = entry[p] /\ left'[p] = left[p] /\ pc'[p] = pc[p]
    BY <1>5, <2>1, <1>t DEF thread_create
  <2>3. \A p \in User : Done(p)' = Done(p)
    BY <2>1, <2>2, <1>t DEF Done
  <2>4. BoundInv
    BY <2>1 DEF LoneInv
  <2>5. \A p, q \in User : OnlyRacers(p, q)' => OnlyRacers(p, q)
    BY <2>1, <2>2 DEF OnlyRacers
  <2>6. NoneCountedTwice'
    BY <2>2, <2>3, <2>4, <2>5 DEF BoundInv, NoneCountedTwice
  <2>7. FirstSurvives' /\ SecondSurvives' /\ ExitWhenDone'
    BY <2>2, <2>3, <2>4 DEF BoundInv, FirstSurvives, SecondSurvives, ExitWhenDone
  <2> QED BY <2>6, <2>7 DEF BoundInv
<1>6. ASSUME NEW p \in User, load(p) PROVE BoundInv'
  <2>1. /\ UNCHANGED <<myglobal, entry, left, typed>>
        /\ pc'[p] = "store" /\ reg'[p] = myglobal
        /\ \A q \in User \ {p} : pc'[q] = pc[q] /\ reg'[q] = reg[q]
    BY <1>6, <1>t DEF load, Step
  <2>2. BoundInv /\ \A q : Done(q)' = Done(q)
    BY <2>1 DEF LoneInv, Done
  <2>3. NoneCountedTwice'
    BY <2>1, <2>2 DEF BoundInv, NoneCountedTwice, OnlyRacers
  <2>4. FirstSurvives' /\ SecondSurvives' /\ ExitWhenDone'
    BY <2>1, <2>2 DEF BoundInv, FirstSurvives, SecondSurvives, ExitWhenDone
  <2> QED BY <2>3, <2>4 DEF BoundInv
<1>7. ASSUME NEW p \in User, store(p) PROVE BoundInv'
  <2>1. /\ UNCHANGED <<entry, typed>> /\ pc[p] = "store" /\ left[p] > 0
        /\ myglobal' = reg[p] + 1 /\ left'[p] = left[p] - 1
        /\ pc'[p] = (IF entry[p] = "racem" THEN "unlock"
                     ELSE IF left[p] = 1 THEN "exit" ELSE "load")
        /\ \A q \in User \ {p} : pc'[q] = pc[q] /\ reg'[q] = reg[q] /\ left'[q] = left[q]
    BY <1>7, <1>t, <1>c DEF store, Step, ThreadPlaces
  <2>2. entry[p] = "race" /\ reg[p] \in Nat /\ BoundInv
    BY <2>1, <1>c, OnlyRace DEF LoneInv, ProgInv, RegisterRange
  <2>3. /\ Done(p)' = Done(p) + 1
        /\ \A q \in User \ {p} : Done(q)' = Done(q)
    BY <2>1, <2>2, <1>t DEF Done
  <2>4. NoneCountedTwice'
    <3> SUFFICES ASSUME NEW a \in User, NEW b \in User, OnlyRacers(a, b)'
                 PROVE  /\ myglobal' <= (Done(a) + Done(b))'
                        /\ \A r \in {a, b} : pc'[r] = "store" /\ entry'[r] = "race" =>
                              reg'[r] <= (Done(a) + Done(b))'
      BY DEF NoneCountedTwice
    <3>1. OnlyRacers(a, b) /\ p \in {a, b} /\ a # b
      BY <2>1, <2>2 DEF OnlyRacers
    <3>2. (Done(a) + Done(b))' = Done(a) + Done(b) + 1
      BY <3>1, <2>3, <1>d
    <3>3. reg[p] <= Done(a) + Done(b)
      BY <3>1, <2>1, <2>2 DEF BoundInv, NoneCountedTwice
    <3>4. ASSUME NEW r \in {a, b}, pc'[r] = "store", entry'[r] = "race"
          PROVE  reg'[r] <= (Done(a) + Done(b))'
      <4>1. r # p /\ r \in User
        BY <3>4, <2>1
      <4>2. pc[r] = "store" /\ entry[r] = "race" /\ reg'[r] = reg[r]
        BY <3>4, <4>1, <2>1
      <4>3. reg[r] <= Done(a) + Done(b) /\ reg[r] \in Int
        BY <3>1, <4>1, <4>2, <2>2, <1>t DEF BoundInv, NoneCountedTwice
      <4> QED BY <4>2, <4>3, <3>2, <1>d
    <3> QED BY <3>2, <3>3, <3>4, <2>1, <2>2, <1>d
  <2>5. FirstSurvives'
    BY <2>1, <2>2, <2>3, <1>d DEF BoundInv, FirstSurvives
  <2>6. SecondSurvives'
    <3> SUFFICES ASSUME NEW a \in User, NEW b \in User, a # b, Done(a)' >= 2, Done(b)' >= 2
                 PROVE  myglobal' >= 2
      BY DEF SecondSurvives
    <3>1. CASE p \in {a, b}
      BY <3>1, <2>1, <2>2, <2>3, <1>d DEF BoundInv, FirstSurvives
    <3>2. CASE p \notin {a, b}
      <4>1. entry[a] = "race" /\ entry[b] = "race"
        BY <3>2, <2>1, <2>3 DEF Done
      <4> QED BY <4>1, <3>2, <2>2 DEF LoneInv, Pair
    <3> QED BY <3>1, <3>2
  <2>7. ExitWhenDone'
    BY <2>1, <2>2 DEF BoundInv, ExitWhenDone
  <2> QED BY <2>4, <2>5, <2>6, <2>7 DEF BoundInv
<1>8. ASSUME NEW p \in User, exit(p) PROVE BoundInv'
  BY <1>8, <1>4 DEF exit
<1>9. ASSUME NEW p \in User, mutex_lock(p) \/ mutex_unlock(p) PROVE BoundInv'
  <2>1. typed' = typed /\ pc[p] \notin {"load", "store", "exit"}
    BY <1>9 DEF mutex_lock, mutex_unlock, lock, park, own, disown, release, read_nwaiters,
       no_waiters, pop, fetch, wake, Step, locals
  <2> QED BY <2>1, <1>c, OnlyRace
<1> QED
  BY <1>2, <1>3, <1>4, <1>5, <1>6, <1>7, <1>8, <1>9
  DEF RaceNext, User_step, Shell_step, Thread_step, Kernel, kill_command

\* race loses updates, but not more than all but two of them, and makes none
\* up: with both threads out of their loops the counter is between 2 and the full
\* count, for every number of iterations and whatever the timer does.
THEOREM RaceWithinBounds ==
    ASSUME OneCommand PROVE RaceSpec => []RaceBounds
<1>1. RaceInit => LoneInv
  <2> SUFFICES ASSUME RaceInit PROVE LoneInv
    OBVIOUS
  <2>1. \A p \in User : entry[p] \in {"task", "none"} /\ pc[p] = "exit"
    BY PidFacts DEF RaceInit
  <2>2. pc[0] = "prompt" /\ typed = <<>> /\ myglobal = 0
    BY PidFacts DEF RaceInit
  <2>3. CountInv
    BY PidFacts DEF RaceInit, SchedInit, CountInv, ExclusionInv, MutualExclusion,
       LockedWhenHeld, RacemWasTyped, InitPrecedesThreads, InCriticalSection,
       LoadedIsCurrent, ProgramsWereTyped, FreeHasNoProgram
  <2>4. Pair("race")
    BY <2>1, <2>2 DEF Pair, BeforeCreates
  <2>5. BoundInv
    BY <2>1, <2>2 DEF BoundInv, NoneCountedTwice, FirstSurvives, SecondSurvives,
       ExitWhenDone, Done
  <2> QED BY <2>3, <2>4, <2>5 DEF LoneInv
<1>2. SchedInv /\ ProgInv /\ (SchedInv /\ ProgInv)' /\ LoneInv /\ [RaceNext]_vars => LoneInv'
  <2> SUFFICES ASSUME SchedInv, ProgInv, ProgInv', LoneInv, [RaceNext]_vars PROVE LoneInv'
    OBVIOUS
  <2>1. AtMostOnce("race")'
    <3>1. typed' \in Seq(Commands) /\ Len(typed') <= 1
      BY RaceAssumption, OneCommand DEF OneCommand, ProgInv, RaceTypeOK
    <3> QED BY <3>1 DEF AtMostOnce
  <2>2. Pair("race")'
    BY <2>1, PairStep DEF LoneInv
  <2>3. CASE UNCHANGED vars
    <3>1. CountInv' /\ UNCHANGED <<typed, entry, left, pc, myglobal, reg>>
      BY <2>3 DEF vars, svars, dvars, LoneInv, CountInv, ExclusionInv, MutualExclusion,
         LockedWhenHeld, RacemWasTyped, InitPrecedesThreads, InCriticalSection,
         LoadedIsCurrent, ProgramsWereTyped, FreeHasNoProgram, Latest
    <3>2. (typed # <<"racem">> => BoundInv)'
      BY <3>1 DEF LoneInv, BoundInv, NoneCountedTwice, OnlyRacers, FirstSurvives,
         SecondSurvives, ExitWhenDone, Done
    <3> QED BY <2>2, <3>1, <3>2 DEF LoneInv
  <2>4. CASE RaceNext
    <3>1. CountInv'
      BY <2>4, CountStep, OneCommand DEF LoneInv
    <3>2. typed' # <<"racem">> => BoundInv'
      BY <2>4, BoundStep, OneCommand
    <3> QED BY <2>2, <3>1, <3>2 DEF LoneInv
  <2> QED BY <2>3, <2>4
<1>3. SchedInv /\ ProgInv /\ LoneInv => RaceBounds
  <2> SUFFICES ASSUME ProgInv, LoneInv, NEW p \in User, NEW q \in User, p # q,
                      entry[p] = "race", entry[q] = "race", pc[p] = "exit", pc[q] = "exit"
               PROVE  /\ (IF ITERS > 1 THEN 2 ELSE 1) <= myglobal
                      /\ myglobal <= 2 * ITERS
    BY DEF RaceBounds, Finished
  <2>1. ITERS \in Nat \ {0} /\ myglobal \in Nat
    BY RaceAssumption DEF ProgInv, RaceTypeOK
  <2>2. BoundInv
    BY DEF LoneInv, CountInv, ProgramsWereTyped
  <2>3. Done(p) = ITERS /\ Done(q) = ITERS
    BY <2>1, <2>2 DEF BoundInv, ExitWhenDone, Done
  <2>4. OnlyRacers(p, q)
    BY DEF OnlyRacers, LoneInv, Pair
  <2>5. myglobal <= ITERS + ITERS
    BY <2>2, <2>3, <2>4 DEF BoundInv, NoneCountedTwice
  <2>6. (IF ITERS > 1 THEN 2 ELSE 1) <= myglobal
    BY <2>1, <2>2, <2>3 DEF BoundInv, FirstSurvives, SecondSurvives
  <2> QED BY <2>1, <2>5, <2>6
<1> QED BY <1>1, <1>2, <1>3, BothAlways, PTL DEF RaceSpec
=============================================================================
