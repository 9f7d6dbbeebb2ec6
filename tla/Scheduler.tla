------------------------------ MODULE Scheduler ------------------------------
(***************************************************************************)
(* The process table and the round-robin scheduler: kernel/process.c,      *)
(* kernel/scheduler.c, kernel/thread.c, kernel/switch.asm and the parts of *)
(* kernel_main and of the shell that create and kill processes.            *)
(*                                                                         *)
(* One CPU executes the current process; the timer interrupt may strike    *)
(* between any two of its steps.  A step is what no tick can split: one    *)
(* machine access to shared memory, or a stretch of code bracketed by      *)
(* cli/sti.  The module leaves open what a process computes; it may at any *)
(* moment block, wake another process or exit, and process 0 (the shell)   *)
(* may create and kill.  RaceDemo gives the processes their programs.      *)
(***************************************************************************)
EXTENDS Integers

CONSTANTS MAX_PROCESSES,  \* slots of process_table (16 in the code)
          BOOT_TASKS      \* processes kernel_main creates before sti (2)

ASSUME SchedulerAssumption ==
    /\ MAX_PROCESSES \in Nat
    /\ BOOT_TASKS \in Nat
    /\ BOOT_TASKS < MAX_PROCESSES

Pid  == 0 .. (MAX_PROCESSES - 1)
User == 1 .. (MAX_PROCESSES - 1)   \* every slot but the kernel's own

State == {"FREE", "READY", "RUNNING", "BLOCKED", "TERMINATED"}

(***************************************************************************)
(* What process_table[p].esp points at: nothing (0, as process_init left   *)
(* it), the frame process_create built, a frame context_switch saved, or a *)
(* frame already consumed because p is on the CPU.                         *)
(***************************************************************************)
Esp == {"none", "fresh", "saved", "live"}

(***************************************************************************)
(* Where a process is inside the kernel code:                              *)
(*   "run"     in its own code;                                            *)
(*   "yield"   marked BLOCKED, about to call scheduler_yield;              *)
(*   "wake"    in scheduler_unblock, between the test and the store;       *)
(*   "create"  in process_create, between the stores of state and esp;     *)
(*   "halt"    in the hlt loop after terminating itself;                   *)
(*   "wild"    resumed by context_switch without a frame.                  *)
(***************************************************************************)
Ctl == {"run", "yield", "wake", "create", "halt", "wild"}

VARIABLES state,        \* process_table[p].state
          esp,          \* process_table[p].esp
          current_pid,
          ctl,          \* position of p in the kernel code
          arg           \* the pid p is waking, or the slot it is creating

svars == <<state, esp, current_pid, ctl, arg>>

-----------------------------------------------------------------------------
(***************************************************************************)
(* kernel_main runs process_init and the two process_create calls with     *)
(* interrupts off, so the first state the timer can see has PID 0 RUNNING  *)
(* and the boot tasks READY, each with the frame process_create built.     *)
(***************************************************************************)
SchedInit ==
    /\ state = [p \in Pid |-> IF p = 0 THEN "RUNNING"
                              ELSE IF p <= BOOT_TASKS THEN "READY" ELSE "FREE"]
    /\ esp = [p \in Pid |-> IF p = 0 THEN "live"
                            ELSE IF p <= BOOT_TASKS THEN "fresh" ELSE "none"]
    /\ current_pid = 0
    /\ ctl = [p \in Pid |-> "run"]
    /\ arg = [p \in Pid |-> 0]

\* p has the CPU and is at the given place of the kernel code.
At(p, place) == p = current_pid /\ ctl[p] = place

-----------------------------------------------------------------------------
(***************************************************************************)
(* process_create, called by the shell with interrupts on.  The first free *)
(* slot is taken; the frame is built in a stack nobody looks at yet; then  *)
(* the PCB is filled, state first and esp afterwards, in two stores that a *)
(* tick may separate.                                                      *)
(***************************************************************************)
FirstFree(slot) ==
    /\ state[slot] = "FREE"
    /\ \A i \in 1 .. (slot - 1) : state[i] # "FREE"

process_create(slot) ==
    /\ At(0, "run")
    /\ FirstFree(slot)
    /\ state' = [state EXCEPT ![slot] = "READY"]
    /\ ctl' = [ctl EXCEPT ![0] = "create"]
    /\ arg' = [arg EXCEPT ![0] = slot]
    /\ UNCHANGED <<esp, current_pid>>

process_create_esp ==
    /\ At(0, "create")
    /\ esp' = [esp EXCEPT ![arg[0]] = "fresh"]
    /\ ctl' = [ctl EXCEPT ![0] = "run"]
    /\ UNCHANGED <<state, current_pid, arg>>

\* The shell's kill command: process_terminate on a slot that is not FREE.
kill(pid) ==
    /\ At(0, "run")
    /\ pid # 0
    /\ state[pid] # "FREE"
    /\ state' = [state EXCEPT ![pid] = "TERMINATED"]
    /\ UNCHANGED <<esp, current_pid, ctl, arg>>

\* thread_exit, and the end of task_a and task_b: terminate oneself, then hlt.
thread_exit(p) ==
    /\ At(p, "run")
    /\ p # 0
    /\ state' = [state EXCEPT ![p] = "TERMINATED"]
    /\ ctl' = [ctl EXCEPT ![p] = "halt"]
    /\ UNCHANGED <<esp, current_pid, arg>>

-----------------------------------------------------------------------------
(***************************************************************************)
(* pick_and_switch: scan the slots after the current one, cyclically, for  *)
(* the first READY one.  If there is one the outgoing process goes from    *)
(* RUNNING to READY (any other state is kept) and context_switch saves its *)
(* frame and consumes the incoming one's; if not, nothing changes.         *)
(***************************************************************************)
\* Fault: every scan starts at slot 1.
CandidateFromOne(i) == i

Candidate(i) == (current_pid + i) % MAX_PROCESSES

NoneReady == \A i \in 1 .. (MAX_PROCESSES - 1) : state[Candidate(i)] # "READY"

\* Faults: the outgoing process becomes READY even when it is BLOCKED; its
\* frame is not saved; the next pid is computed without %.
SwitchAlwaysReady(next) ==
    /\ state' = [state EXCEPT ![current_pid] = "READY", ![next] = "RUNNING"]
    /\ esp' = [esp EXCEPT ![current_pid] = "saved", ![next] = "live"]
    /\ current_pid' = next

SwitchNoSave(next) ==
    /\ state' = [state EXCEPT ![current_pid] = IF @ = "RUNNING" THEN "READY" ELSE @,
                              ![next] = "RUNNING"]
    /\ esp' = [esp EXCEPT ![next] = "live"]
    /\ current_pid' = next

SwitchNoWrap(next) ==
    /\ state' = [state EXCEPT ![current_pid] = IF @ = "RUNNING" THEN "READY" ELSE @,
                              ![next] = "RUNNING"]
    /\ esp' = [esp EXCEPT ![current_pid] = "saved", ![next] = "live"]
    /\ current_pid' = current_pid + 1

SwitchTo(next) ==
    /\ state' = [state EXCEPT ![current_pid] = IF @ = "RUNNING" THEN "READY" ELSE @,
                              ![next] = "RUNNING"]
    /\ esp' = [esp EXCEPT ![current_pid] = "saved", ![next] = "live"]
    /\ current_pid' = next

pick_and_switch(control) ==
    \/ \E i \in 1 .. (MAX_PROCESSES - 1) :
          LET next == Candidate(i) IN
          /\ state[next] = "READY"
          /\ \A j \in 1 .. (i - 1) : state[Candidate(j)] # "READY"
          /\ SwitchTo(next)
          /\ ctl' = IF esp[next] = "none"
                      THEN [control EXCEPT ![next] = "wild"] ELSE control
    \/ /\ NoneReady
       /\ ctl' = control
       /\ UNCHANGED <<state, esp, current_pid>>

\* A CPU that was resumed without a frame executes no more kernel code.
Crashed == ctl[current_pid] = "wild"

\* The timer interrupt: irq0_handler calls scheduler_tick.
scheduler_tick ==
    /\ ~Crashed
    /\ pick_and_switch(ctl)
    /\ UNCHANGED arg

\* What mutex_lock does under cli before it yields: mark the caller BLOCKED.
block(p) ==
    /\ At(p, "run")
    /\ p # 0
    /\ state' = [state EXCEPT ![p] = "BLOCKED"]
    /\ ctl' = [ctl EXCEPT ![p] = "yield"]
    /\ UNCHANGED <<esp, current_pid, arg>>

\* Fault: the yield returns at once.
YieldReturns(p) ==
    /\ At(p, "yield")
    /\ ctl' = [ctl EXCEPT ![p] = "run"]
    /\ UNCHANGED <<state, esp, current_pid, arg>>

scheduler_yield(p) ==
    /\ At(p, "yield")
    /\ pick_and_switch([ctl EXCEPT ![p] = "run"])
    /\ UNCHANGED arg

(***************************************************************************)
(* scheduler_unblock runs with interrupts on: it tests the state of pid in *)
(* one step and stores READY in a later one.                               *)
(***************************************************************************)
scheduler_unblock(p, pid) ==
    /\ At(p, "run")
    /\ p # 0
    /\ IF pid \in Pid /\ state[pid] = "BLOCKED"
         THEN /\ ctl' = [ctl EXCEPT ![p] = "wake"]
              /\ arg' = [arg EXCEPT ![p] = pid]
         ELSE UNCHANGED <<ctl, arg>>
    /\ UNCHANGED <<state, esp, current_pid>>

scheduler_unblock_store(p) ==
    /\ At(p, "wake")
    /\ state' = [state EXCEPT ![arg[p]] = "READY"]
    /\ ctl' = [ctl EXCEPT ![p] = "run"]
    /\ UNCHANGED <<esp, current_pid, arg>>

-----------------------------------------------------------------------------
SchedNext ==
    \/ \E slot \in User : process_create(slot)
    \/ process_create_esp
    \/ \E pid \in Pid : kill(pid)
    \/ scheduler_tick
    \/ \E p \in User : \/ thread_exit(p)
                       \/ block(p)
                       \/ scheduler_yield(p)
                       \/ scheduler_unblock_store(p)
                       \/ \E pid \in User : scheduler_unblock(p, pid)

SchedSpec == SchedInit /\ [][SchedNext]_svars

(***************************************************************************)
(* The PIT raises IRQ0 a hundred times a second and no stretch of code     *)
(* keeps interrupts off, so a tick that can strike eventually does.        *)
(***************************************************************************)
FairSchedSpec == SchedSpec /\ WF_svars(scheduler_tick)

-----------------------------------------------------------------------------
\* Every variable of the process table and the scheduler has its type.
SchedTypeOK ==
    /\ state \in [Pid -> State]
    /\ esp \in [Pid -> Esp]
    /\ current_pid \in Pid
    /\ ctl \in [Pid -> Ctl]
    /\ arg \in [Pid -> Pid]

(***************************************************************************)
(* process_terminate, kill and mutex_lock never take the kernel process    *)
(* out of the rotation: process 0 is RUNNING when it has the CPU and READY *)
(* when it has not, so pick_and_switch always finds somebody to switch to  *)
(* when another process gives up the CPU.                                  *)
(***************************************************************************)
KernelRunnable == state[0] = IF current_pid = 0 THEN "RUNNING" ELSE "READY"

\* pick_and_switch leaves no process marked RUNNING but the one on the CPU.
OnlyCurrentRuns == \A p \in Pid : state[p] = "RUNNING" => p = current_pid

(***************************************************************************)
(* A process that blocked in mutex_lock or terminated itself executes none *)
(* of its own code until it is RUNNING again: "doesn't return until we're  *)
(* READY again" of scheduler_yield, and the hlt loop of thread_exit.       *)
(***************************************************************************)
CodeRunsOnlyWhenRunning ==
    \/ state[current_pid] = "RUNNING"
    \/ state[current_pid] = "BLOCKED" /\ ctl[current_pid] = "yield"
    \/ state[current_pid] = "TERMINATED" /\ ctl[current_pid] = "halt"

(***************************************************************************)
(* Every READY process has a frame for context_switch to pop, except the   *)
(* one whose PCB process_create is filling at this moment.                 *)
(***************************************************************************)
ReadyHasFrame ==
    \A p \in Pid : state[p] = "READY" =>
        \/ esp[p] \in {"fresh", "saved"}
        \/ ctl[0] = "create" /\ arg[0] = p

(***************************************************************************)
(* The life cycle of a slot.  It is created once and never FREE again; it  *)
(* gets the CPU only from READY and loses it to READY; and the one way     *)
(* back from TERMINATED is a scheduler_unblock that tested the state       *)
(* before the process was killed and stores READY after it.                *)
(***************************************************************************)
LifeCycleStep ==
    \A p \in Pid : state'[p] # state[p] =>
        \/ state[p] = "FREE" /\ state'[p] = "READY" /\ current_pid = 0
        \/ state[p] = "READY" /\ state'[p] = "RUNNING" /\ current_pid' = p
        \/ state[p] = "RUNNING" /\ state'[p] = "READY" /\ current_pid' # p
        \/ state[p] = "RUNNING" /\ state'[p] = "BLOCKED" /\ current_pid = p
        \/ state[p] # "FREE" /\ state'[p] = "TERMINATED" /\ p # 0
        \/ /\ state[p] \in {"BLOCKED", "TERMINATED"} /\ state'[p] = "READY"
           /\ ctl[current_pid] = "wake" /\ arg[current_pid] = p

\* Every step of the processes and of the timer keeps to that life cycle.
LifeCycle == [][LifeCycleStep]_svars

(***************************************************************************)
(* Round robin starves nobody: a READY process leaves that state, by being *)
(* switched to or killed, unless the machine has crashed.                  *)
(***************************************************************************)
ReadyRuns == \A p \in Pid : state[p] = "READY" ~> (state[p] # "READY" \/ Crashed)
=============================================================================
