--------------------------- MODULE SchedulerProofs ---------------------------
(***************************************************************************)
(* Proofs about Scheduler, for every number of slots and of boot tasks.    *)
(***************************************************************************)
EXTENDS Scheduler, TLAPS

(***************************************************************************)
(* What the invariants of Scheduler rest on.  A frame is owed to every     *)
(* process that is off the CPU, READY or not, because a wake-up can make   *)
(* it READY; a wake-up in flight aims at another process, never at the     *)
(* kernel and never at a free slot.                                        *)
(***************************************************************************)
OffCpuHasFrame ==
    \A p \in Pid : p # current_pid /\ state[p] # "FREE" =>
        \/ esp[p] \in {"fresh", "saved"}
        \/ ctl[0] = "create" /\ arg[0] = p

WakeAimsAtOther ==
    \A p \in Pid : ctl[p] = "wake" =>
        /\ arg[p] \in User
        /\ arg[p] # p
        /\ state[arg[p]] # "FREE"

KernelPlace ==
    /\ ctl[0] \in {"run", "create"}
    /\ ctl[0] = "create" => arg[0] \in User

SchedInv ==
    /\ SchedTypeOK
    /\ KernelRunnable
    /\ OnlyCurrentRuns
    /\ CodeRunsOnlyWhenRunning
    /\ OffCpuHasFrame
    /\ WakeAimsAtOther
    /\ KernelPlace

-----------------------------------------------------------------------------
\* Remainder of a sum that wraps at most once.
LEMMA ModOnce ==
    ASSUME NEW n \in Nat, NEW x \in Nat, x < 2 * n
    PROVE  x % n = IF x < n THEN x ELSE x - n
<1>1. CASE x < n
  BY <1>1
<1>2. CASE ~(x < n)
  BY <1>2
<1> QED BY <1>1, <1>2

\* The scan of pick_and_switch stays inside process_table and never returns
\* to the slot it started from.
LEMMA CandidateInRange ==
    ASSUME SchedTypeOK, NEW i \in 1 .. (MAX_PROCESSES - 1)
    PROVE  Candidate(i) \in Pid /\ Candidate(i) # current_pid
<1>1. /\ MAX_PROCESSES \in Nat
      /\ current_pid \in 0 .. (MAX_PROCESSES - 1)
      /\ current_pid + i \in Nat
      /\ current_pid + i < 2 * MAX_PROCESSES
  BY SchedulerAssumption DEF SchedTypeOK, Pid
<1>2. Candidate(i) = IF current_pid + i < MAX_PROCESSES THEN current_pid + i
                     ELSE (current_pid + i) - MAX_PROCESSES
  BY <1>1, ModOnce DEF Candidate
<1> QED BY <1>1, <1>2 DEF Pid

\* The scan from any other slot reaches process 0.
LEMMA CandidateReachesKernel ==
    ASSUME SchedTypeOK, current_pid # 0
    PROVE  \E i \in 1 .. (MAX_PROCESSES - 1) : Candidate(i) = 0
<1>1. MAX_PROCESSES - current_pid \in 1 .. (MAX_PROCESSES - 1)
  BY SchedulerAssumption DEF SchedTypeOK, Pid
<1>2. Candidate(MAX_PROCESSES - current_pid) = 0
  <2>1. current_pid + (MAX_PROCESSES - current_pid) = MAX_PROCESSES
    BY SchedulerAssumption DEF SchedTypeOK, Pid
  <2>2. MAX_PROCESSES % MAX_PROCESSES = 0
    BY SchedulerAssumption
  <2> QED BY <2>1, <2>2 DEF Candidate
<1> QED BY <1>1, <1>2

-----------------------------------------------------------------------------
\* pick_and_switch as the invariant proofs use it: a switch to another READY
\* process, or no change, and the latter only when the kernel has the CPU.
LEMMA PickEffect ==
    ASSUME SchedTypeOK, KernelRunnable, NEW control, pick_and_switch(control)
    PROVE  \/ \E next \in Pid :
                /\ next # current_pid
                /\ state[next] = "READY"
                /\ SwitchTo(next)
                /\ ctl' = IF esp[next] = "none"
                            THEN [control EXCEPT ![next] = "wild"] ELSE control
           \/ /\ current_pid = 0
              /\ ctl' = control
              /\ UNCHANGED <<state, esp, current_pid>>
<1>1. ASSUME NEW i \in 1 .. (MAX_PROCESSES - 1),
             state[Candidate(i)] = "READY",
             SwitchTo(Candidate(i)),
             ctl' = IF esp[Candidate(i)] = "none"
                      THEN [control EXCEPT ![Candidate(i)] = "wild"] ELSE control
      PROVE  \E next \in Pid :
                /\ next # current_pid
                /\ state[next] = "READY"
                /\ SwitchTo(next)
                /\ ctl' = IF esp[next] = "none"
                            THEN [control EXCEPT ![next] = "wild"] ELSE control
  BY <1>1, CandidateInRange
<1>2. ASSUME NoneReady
      PROVE  current_pid = 0
  BY <1>2, CandidateReachesKernel DEF NoneReady, KernelRunnable
<1> QED BY <1>1, <1>2 DEF pick_and_switch

\* A switch keeps the invariant, whatever the outgoing process is doing.
LEMMA SwitchKeepsInv ==
    ASSUME SchedInv, NEW next \in Pid, next # current_pid, state[next] = "READY",
           NEW control \in [Pid -> Ctl],
           \A p \in Pid : control[p] = ctl[p] \/ (control[p] = "run" /\ p # 0),
           SwitchTo(next),
           ctl' = IF esp[next] = "none"
                    THEN [control EXCEPT ![next] = "wild"] ELSE control,
           UNCHANGED arg
    PROVE  SchedInv'
<1>k. 0 \in Pid
  BY SchedulerAssumption DEF Pid
<1> USE DEF SchedInv, SwitchTo
<1>0. /\ 0 \in Pid /\ current_pid \in Pid /\ current_pid' = next
      /\ state \in [Pid -> State] /\ esp \in [Pid -> Esp]
      /\ ctl \in [Pid -> Ctl] /\ arg \in [Pid -> Pid]
  BY <1>k DEF SchedTypeOK
<1>1. /\ state'[next] = "RUNNING"
      /\ state'[current_pid] = IF state[current_pid] = "RUNNING" THEN "READY"
                               ELSE state[current_pid]
      /\ \A p \in Pid \ {next, current_pid} : state'[p] = state[p]
      /\ esp'[current_pid] = "saved"
      /\ \A p \in Pid \ {next, current_pid} : esp'[p] = esp[p]
  BY <1>0
<1>2. \A p \in Pid : \/ ctl'[p] = ctl[p]
                     \/ ctl'[p] = "run" /\ p # 0
                     \/ ctl'[p] = "wild" /\ p = next /\ esp[next] = "none"
  BY <1>0
<1>3. esp[next] = "none" => ctl[0] = "create" /\ arg[0] = next
  BY <1>0 DEF OffCpuHasFrame
<1>4. next = 0 => esp[next] # "none"
  BY <1>3 DEF KernelPlace, User
<1>5. SchedTypeOK'
  BY <1>0 DEF SchedTypeOK, State, Esp, Ctl
<1>6. KernelRunnable'
  BY <1>0, <1>1 DEF KernelRunnable
<1>7. OnlyCurrentRuns'
  BY <1>0, <1>1 DEF OnlyCurrentRuns
<1>8. CodeRunsOnlyWhenRunning'
  BY <1>0, <1>1 DEF CodeRunsOnlyWhenRunning
<1>9. KernelPlace'
  BY <1>0, <1>2, <1>4 DEF KernelPlace
<1>10. OffCpuHasFrame'
  BY <1>0, <1>1, <1>2, <1>4 DEF OffCpuHasFrame
<1>11. WakeAimsAtOther'
  BY <1>0, <1>1, <1>2 DEF WakeAimsAtOther, User, Pid
<1> QED BY <1>5, <1>6, <1>7, <1>8, <1>9, <1>10, <1>11

\* The same for pick_and_switch itself, which tick and yield share.
LEMMA PickKeepsInv ==
    ASSUME SchedInv, NEW control \in [Pid -> Ctl],
           \A p \in Pid : control[p] = ctl[p] \/ (control[p] = "run" /\ p # 0),
           current_pid = 0 => control = ctl,
           pick_and_switch(control), UNCHANGED arg
    PROVE  SchedInv'
<1>1. CASE \E next \in Pid :
             /\ next # current_pid
             /\ state[next] = "READY"
             /\ SwitchTo(next)
             /\ ctl' = IF esp[next] = "none"
                         THEN [control EXCEPT ![next] = "wild"] ELSE control
  BY <1>1, SwitchKeepsInv
<1>2. CASE /\ current_pid = 0
           /\ ctl' = control
           /\ UNCHANGED <<state, esp, current_pid>>
  BY <1>2 DEF SchedInv, SchedTypeOK, KernelRunnable, OnlyCurrentRuns,
              CodeRunsOnlyWhenRunning, OffCpuHasFrame, WakeAimsAtOther, KernelPlace
<1> QED BY <1>1, <1>2, PickEffect DEF SchedInv

-----------------------------------------------------------------------------
\* The table kernel_main leaves behind when it enables interrupts satisfies
\* the inductive invariant.
LEMMA InitInv == SchedInit => SchedInv
<1> SUFFICES ASSUME SchedInit PROVE SchedInv
  OBVIOUS
<1>k. 0 \in Pid
  BY SchedulerAssumption DEF Pid
<1>1. SchedTypeOK
  BY <1>k DEF SchedInit, SchedTypeOK, State, Esp, Ctl
<1>2. KernelRunnable /\ CodeRunsOnlyWhenRunning /\ KernelPlace
  BY <1>k DEF SchedInit, KernelRunnable, CodeRunsOnlyWhenRunning, KernelPlace
<1>3. OnlyCurrentRuns /\ OffCpuHasFrame /\ WakeAimsAtOther
  BY <1>k DEF SchedInit, OnlyCurrentRuns, OffCpuHasFrame, WakeAimsAtOther
<1> QED BY <1>1, <1>2, <1>3 DEF SchedInv

\* Every step of a process and every tick keeps the inductive invariant.
LEMMA NextInv == SchedInv /\ [SchedNext]_svars => SchedInv'
<1> SUFFICES ASSUME SchedInv, [SchedNext]_svars PROVE SchedInv'
  OBVIOUS
<1>k. 0 \in Pid /\ User \subseteq Pid /\ 0 \notin User /\ Pid = User \cup {0}
  BY SchedulerAssumption DEF Pid, User
<1>t. /\ state \in [Pid -> State] /\ esp \in [Pid -> Esp] /\ current_pid \in Pid
      /\ ctl \in [Pid -> Ctl] /\ arg \in [Pid -> Pid]
  BY DEF SchedInv, SchedTypeOK
<1> USE DEF SchedInv, SchedTypeOK, KernelRunnable, OnlyCurrentRuns,
            CodeRunsOnlyWhenRunning, OffCpuHasFrame, WakeAimsAtOther, KernelPlace,
            At, State, Esp, Ctl
<1>1. ASSUME NEW slot \in User, process_create(slot) PROVE SchedInv'
  BY <1>1, <1>k, <1>t DEF process_create, FirstFree
<1>2. CASE process_create_esp
  BY <1>2, <1>k, <1>t DEF process_create_esp
<1>3. ASSUME NEW pid \in Pid, kill(pid) PROVE SchedInv'
  BY <1>3, <1>k, <1>t DEF kill
<1>4. CASE scheduler_tick
  <2>1. SchedInv /\ pick_and_switch(ctl) /\ UNCHANGED arg
    BY <1>4 DEF scheduler_tick
  <2> QED BY <2>1, <1>t, PickKeepsInv
<1>5. ASSUME NEW p \in User, thread_exit(p) PROVE SchedInv'
  BY <1>5, <1>k, <1>t DEF thread_exit
<1>6. ASSUME NEW p \in User, block(p) PROVE SchedInv'
  BY <1>6, <1>k, <1>t DEF block
<1>7. ASSUME NEW p \in User, scheduler_yield(p) PROVE SchedInv'
  <2> DEFINE control == [ctl EXCEPT ![p] = "run"]
  <2>1. control \in [Pid -> Ctl] /\ current_pid # 0
    BY <1>7, <1>k, <1>t DEF scheduler_yield
  <2>2. \A q \in Pid : control[q] = ctl[q] \/ (control[q] = "run" /\ q # 0)
    BY <1>7, <1>k, <1>t
  <2>3. SchedInv /\ pick_and_switch(control) /\ UNCHANGED arg
    BY <1>7 DEF scheduler_yield
  <2> HIDE DEF control
  <2> QED BY <2>1, <2>2, <2>3, PickKeepsInv
<1>8. ASSUME NEW p \in User, scheduler_unblock_store(p) PROVE SchedInv'
  BY <1>8, <1>k, <1>t DEF scheduler_unblock_store
<1>9. ASSUME NEW p \in User, NEW pid \in User, scheduler_unblock(p, pid) PROVE SchedInv'
  BY <1>9, <1>k, <1>t DEF scheduler_unblock
<1>10. CASE UNCHANGED svars
  BY <1>10 DEF svars
<1> QED BY <1>1, <1>2, <1>3, <1>4, <1>5, <1>6, <1>7, <1>8, <1>9, <1>10 DEF SchedNext

-----------------------------------------------------------------------------
\* The inductive invariant holds in every reachable state.
LEMMA InvAlways == SchedSpec => []SchedInv
  BY InitInv, NextInv, PTL DEF SchedSpec

\* The process table and the scheduler's own state keep their types: in
\* particular current_pid never leaves process_table.
THEOREM SchedTypeCorrect == SchedSpec => []SchedTypeOK
<1>1. SchedInv => SchedTypeOK
  BY DEF SchedInv
<1> QED BY <1>1, InvAlways, PTL

\* Process 0 is always the fallback pick_and_switch needs, at most one process
\* is RUNNING, and a process that gave up the CPU in mutex_lock or thread_exit
\* runs none of its own code until it is RUNNING again.
THEOREM CpuOwnership ==
    SchedSpec => [](KernelRunnable /\ OnlyCurrentRuns /\ CodeRunsOnlyWhenRunning)
<1>1. SchedInv => KernelRunnable /\ OnlyCurrentRuns /\ CodeRunsOnlyWhenRunning
  BY DEF SchedInv
<1> QED BY <1>1, InvAlways, PTL

\* context_switch is handed a frame for every READY process but the one whose
\* PCB is half filled.
THEOREM FrameAvailable == SchedSpec => []ReadyHasFrame
<1>1. SchedInv => ReadyHasFrame
  BY DEF SchedInv, OffCpuHasFrame, ReadyHasFrame, KernelRunnable,
         CodeRunsOnlyWhenRunning, SchedTypeOK
<1> QED BY <1>1, InvAlways, PTL

\* One step keeps to the life cycle.
LEMMA LifeCycleOfStep == ASSUME SchedInv, SchedNext PROVE LifeCycleStep
<1>k. 0 \in Pid /\ User \subseteq Pid /\ 0 \notin User
  BY SchedulerAssumption DEF Pid, User
<1>t. /\ state \in [Pid -> State] /\ current_pid \in Pid
      /\ ctl \in [Pid -> Ctl] /\ arg \in [Pid -> Pid]
  BY DEF SchedInv, SchedTypeOK
<1>i. KernelRunnable /\ OnlyCurrentRuns /\ CodeRunsOnlyWhenRunning /\ WakeAimsAtOther
  BY DEF SchedInv
<1> USE DEF LifeCycleStep, At, State, KernelRunnable, OnlyCurrentRuns,
            CodeRunsOnlyWhenRunning
<1>1. ASSUME NEW slot \in User, process_create(slot) PROVE LifeCycleStep
  BY <1>1, <1>k, <1>t, <1>i DEF process_create, FirstFree
<1>2. ASSUME NEW pid \in Pid, kill(pid) PROVE LifeCycleStep
  BY <1>2, <1>k, <1>t, <1>i DEF kill
<1>3. ASSUME NEW control, pick_and_switch(control) PROVE LifeCycleStep
  <2>1. ASSUME NEW next \in Pid, next # current_pid, state[next] = "READY",
               SwitchTo(next)
        PROVE  LifeCycleStep
    BY <2>1, <1>t DEF SwitchTo
  <2>2. CASE UNCHANGED <<state, esp, current_pid>>
    BY <2>2
  <2> QED BY <1>3, <2>1, <2>2, PickEffect DEF SchedInv
<1>4. ASSUME NEW p \in User, thread_exit(p) \/ block(p) PROVE LifeCycleStep
  BY <1>4, <1>k, <1>t, <1>i DEF thread_exit, block
<1>5. ASSUME NEW p \in User, scheduler_unblock_store(p) PROVE LifeCycleStep
  BY <1>5, <1>k, <1>t, <1>i DEF scheduler_unblock_store, WakeAimsAtOther
<1>6. ASSUME state' = state PROVE LifeCycleStep
  BY <1>6
<1> QED BY <1>1, <1>2, <1>3, <1>4, <1>5, <1>6
        DEF SchedNext, process_create_esp, scheduler_tick, scheduler_yield,
            scheduler_unblock

\* Every change of a process's state is one of the six of LifeCycleStep.
THEOREM LifeCycleHolds == SchedSpec => LifeCycle
  BY LifeCycleOfStep, InvAlways, PTL DEF SchedSpec, LifeCycle

-----------------------------------------------------------------------------
(***************************************************************************)
(* A process in the middle of scheduler_unblock has run, so it has a frame *)
(* when it is switched back in: a crash never swallows a wake-up.          *)
(***************************************************************************)
WakerHasFrame ==
    /\ esp[current_pid] = "live"
    /\ \A p \in Pid : ctl[p] = "wake" => esp[p] # "none"

LEMMA WakerInit == SchedInit => WakerHasFrame
  BY SchedulerAssumption DEF SchedInit, WakerHasFrame, Pid

LEMMA WakerStep == SchedInv /\ WakerHasFrame /\ [SchedNext]_svars => WakerHasFrame'
<1> SUFFICES ASSUME SchedInv, WakerHasFrame, [SchedNext]_svars PROVE WakerHasFrame'
  OBVIOUS
<1> USE DEF WakerHasFrame
<1>t. SchedTypeOK /\ KernelRunnable /\ KernelPlace
  BY DEF SchedInv
<1>u. User \subseteq Pid /\ 0 \in Pid /\ 0 \notin User
  BY SchedulerAssumption DEF Pid, User
<1>1. ASSUME NEW control, pick_and_switch(control), control \in [Pid -> Ctl],
             \A p \in Pid : control[p] = "wake" => ctl[p] = "wake"
      PROVE  WakerHasFrame'
  BY <1>1, <1>t, PickEffect DEF SwitchTo, SchedTypeOK
<1>2. CASE process_create_esp
  BY <1>2, <1>t, <1>u DEF process_create_esp, At, KernelPlace, SchedTypeOK
<1>3. ASSUME NEW p \in User, NEW q \in User, scheduler_unblock(p, q) PROVE WakerHasFrame'
  BY <1>3, <1>t, <1>u DEF scheduler_unblock, At, SchedTypeOK
<1>4. ASSUME NEW p \in User, scheduler_yield(p) PROVE WakerHasFrame'
  <2>1. [ctl EXCEPT ![p] = "run"] \in [Pid -> Ctl]
    BY <1>t, <1>u DEF SchedTypeOK, Ctl
  <2> QED BY <1>4, <1>1, <2>1, <1>t, <1>u DEF scheduler_yield, SchedTypeOK
<1>5. CASE scheduler_tick
  BY <1>5, <1>1, <1>t DEF scheduler_tick, SchedTypeOK
<1>6. CASE \/ UNCHANGED svars
           \/ \E slot \in User : process_create(slot)
           \/ \E pid \in Pid : kill(pid)
           \/ \E p \in User : thread_exit(p) \/ block(p) \/ scheduler_unblock_store(p)
  BY <1>6, <1>t, <1>u DEF svars, process_create, kill, thread_exit, block,
     scheduler_unblock_store, At, SchedTypeOK
<1> QED BY <1>2, <1>3, <1>4, <1>5, <1>6 DEF SchedNext
=============================================================================
