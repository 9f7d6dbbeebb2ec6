------------------------------ MODULE Interrupts ------------------------------
(***************************************************************************)
(* The machinery under Scheduler's indivisible steps: the 8259 interrupt   *)
(* controller, the interrupt flag, the handlers of isr_stub.asm and the    *)
(* context switch taken apart into its stores.  Scheduler assumes that     *)
(* pick_and_switch cannot be interrupted and that the timer goes on        *)
(* ticking; here both follow from cli, the interrupt gates and the         *)
(* end-of-interrupt commands, and the module implements Scheduler.         *)
(*                                                                         *)
(* An interrupt gate clears the interrupt flag.  scheduler_tick sends its  *)
(* end-of-interrupt first; context_switch sets the flag again; a process   *)
(* suspended by a tick wakes up in the tail of irq0_handler                *)
(* (irq0_post_switch), sends a second end-of-interrupt and returns.  That  *)
(* tail runs with interrupts on and may be interrupted itself.             *)
(***************************************************************************)
EXTENDS Scheduler, Sequences, FiniteSets

CONSTANT MAX_NEST   \* bound on the handlers of a process interrupted at once

ASSUME InterruptAssumption == MAX_NEST \in Nat \ {0}

TIMER == 0
KEYS  == 1
IRQ   == {TIMER, KEYS}
Lines == 0 .. 7

VARIABLES pic,      \* the master 8259: requests, in service, unmasked, offset
          gates,    \* vectors with a present IDT entry
          iflag,    \* the CPU's interrupt flag
          pos,      \* where the CPU is
          stack,    \* the process whose stack the CPU runs on
          to,       \* next_pid, while pick_and_switch uses it
          ret       \* ret[p]: the places where p was interrupted, innermost last

ivars == <<pic, gates, iflag, pos, stack, to, ret>>
vars  == <<svars, ivars>>

(***************************************************************************)
(* pos: the steps of kernel_main before its sti; the process's own code;   *)
(* irq0_handler before its end-of-interrupt; the stores of pick_and_switch *)
(* and context_switch; the tail of irq0_handler; iret; irq1_handler; a     *)
(* process resumed without a frame; an interrupt without a gate.           *)
(***************************************************************************)
Boot    == {"idt_init", "pic_init", "set_gate", "sti"}
Masked  == {"irq0", "pick", "promote", "assign", "switch", "irq1"}
Place   == Boot \cup Masked \cup {"code", "post", "iret", "wild", "fault"}

\* The BIOS leaves the controller at vector 8 with everything unmasked.
\* Nothing of the process table is looked at before process_init.
IntInit ==
    /\ SchedInit
    /\ pic = [irr |-> {}, isr |-> {}, unmasked |-> Lines, offset |-> 8]
    /\ gates = {} /\ iflag = FALSE /\ pos = "idt_init"
    /\ stack = 0 /\ to = 0
    /\ ret = [p \in Pid |-> <<>>]

Goto(from, place) == pos = from /\ pos' = place

-----------------------------------------------------------------------------
(***************************************************************************)
(* Booting.  ICW1 drops latched requests; ICW2 moves IRQ0 to vector 32.    *)
(***************************************************************************)
idt_init ==
    /\ Goto("idt_init", "pic_init")
    /\ gates' = {32, 33}
    /\ UNCHANGED <<svars, pic, iflag, stack, to, ret>>

\* Fault: the controller is not moved.
PicNotMoved ==
    /\ Goto("pic_init", "set_gate")
    /\ pic' = [pic EXCEPT !.irr = {}, !.unmasked = IRQ]
    /\ UNCHANGED <<svars, gates, iflag, stack, to, ret>>

pic_init ==
    /\ Goto("pic_init", "set_gate")
    /\ pic' = [pic EXCEPT !.irr = {}, !.unmasked = IRQ, !.offset = 32]
    /\ UNCHANGED <<svars, gates, iflag, stack, to, ret>>

idt_set_gate ==
    /\ Goto("set_gate", "sti")
    /\ gates' = gates \cup {32}
    /\ UNCHANGED <<svars, pic, iflag, stack, to, ret>>

boot_sti ==
    /\ Goto("sti", "code")
    /\ iflag' = TRUE
    /\ UNCHANGED <<svars, pic, gates, stack, to, ret>>

-----------------------------------------------------------------------------
(***************************************************************************)
(* The devices.  A request stays latched until the CPU takes it.  Requests *)
(* that arrive while a handler runs nest; MAX_NEST bounds how deep.        *)
(***************************************************************************)
raise(irq) ==
    /\ irq \notin pic.irr
    /\ pos \in {"code"} \cup Boot \/ \A p \in Pid : Len(ret[p]) < MAX_NEST
    /\ pos \notin {"wild", "fault"}
    /\ pic' = [pic EXCEPT !.irr = @ \cup {irq}]
    /\ UNCHANGED <<svars, gates, iflag, pos, stack, to, ret>>

\* The controller offers the first request that no interrupt in service blocks.
Offered(irq) ==
    /\ irq \in pic.irr \cap pic.unmasked
    /\ \A other \in pic.irr \cap pic.unmasked : irq <= other
    /\ \A other \in pic.isr : irq < other

Undisturbed == iflag => \A irq \in IRQ : ~Offered(irq)

\* The CPU takes an interrupt between two instructions, through a gate that
\* clears the interrupt flag.
accept(irq) ==
    /\ iflag /\ Offered(irq) /\ pos \notin {"wild", "fault"}
    /\ pic' = [pic EXCEPT !.irr = @ \ {irq}, !.isr = @ \cup {irq}]
    /\ iflag' = FALSE
    /\ pos' = IF pic.offset + irq \notin gates THEN "fault"
              ELSE IF irq = TIMER THEN "irq0" ELSE "irq1"
    /\ ret' = [ret EXCEPT ![stack] = Append(@, pos)]
    /\ UNCHANGED <<svars, gates, stack, to>>

\* A non-specific end-of-interrupt ends the most urgent interrupt in service.
pic_send_eoi == [pic EXCEPT !.isr = {i \in @ : \E j \in @ : j < i}]

-----------------------------------------------------------------------------
\* Fault: the end-of-interrupt is left to the tail of irq0_handler.
TickWithoutEoi ==
    /\ Undisturbed
    /\ Goto("irq0", "pick")
    /\ UNCHANGED <<svars, pic, gates, iflag, stack, to, ret>>

\* scheduler_tick: "EOI must always be sent, whether or not we switch".
tick_eoi ==
    /\ Undisturbed
    /\ Goto("irq0", "pick")
    /\ pic' = pic_send_eoi
    /\ UNCHANGED <<svars, gates, iflag, stack, to, ret>>

\* Fault: scheduler_yield does not disable interrupts.
YieldUnmasked(p) ==
    /\ At(p, "yield")
    /\ Undisturbed
    /\ Goto("code", "pick")
    /\ UNCHANGED <<svars, pic, gates, iflag, stack, to, ret>>

yield_cli(p) ==
    /\ At(p, "yield")
    /\ Undisturbed
    /\ Goto("code", "pick")
    /\ iflag' = FALSE
    /\ UNCHANGED <<svars, pic, gates, stack, to, ret>>

\* pick_and_switch was called by scheduler_tick, not by scheduler_yield.
ByTick == ret[stack] # <<>>

\* Back in scheduler_yield the caller is done with it.
Yielded == IF ByTick THEN ctl ELSE [ctl EXCEPT ![stack] = "run"]

\* pick_and_switch, store by store: the choice with the store that demotes the
\* outgoing process, the incoming one's state, current_pid, and the switch.
pick ==
    /\ Undisturbed
    /\ \/ \E i \in 1 .. (MAX_PROCESSES - 1) :
             /\ state[Candidate(i)] = "READY"
             /\ \A j \in 1 .. (i - 1) : state[Candidate(j)] # "READY"
             /\ to' = Candidate(i)
             /\ Goto("pick", "promote")
             /\ state' = [state EXCEPT ![current_pid] = IF @ = "RUNNING" THEN "READY" ELSE @]
             /\ UNCHANGED <<iflag, ctl>>
       \/ /\ NoneReady
          /\ Goto("pick", IF ByTick THEN "post" ELSE "code")
          /\ iflag' = IF ByTick THEN iflag ELSE TRUE
          /\ ctl' = Yielded
          /\ UNCHANGED <<state, to>>
    /\ UNCHANGED <<esp, current_pid, arg, pic, gates, stack, ret>>

promote ==
    /\ Undisturbed
    /\ Goto("promote", "assign")
    /\ state' = [state EXCEPT ![to] = "RUNNING"]
    /\ UNCHANGED <<esp, current_pid, ctl, arg, pic, gates, iflag, stack, to, ret>>

assign ==
    /\ Undisturbed
    /\ Goto("assign", "switch")
    /\ current_pid' = to
    /\ UNCHANGED <<state, esp, ctl, arg, pic, gates, iflag, stack, to, ret>>

\* A process suspended by a tick resumes in the tail of irq0_handler; one that
\* yielded, or is new, in its own code.
context_switch ==
    /\ Undisturbed
    /\ Goto("switch", IF esp[to] = "none" THEN "wild"
                      ELSE IF ret[to] = <<>> THEN "code" ELSE "post")
    /\ esp' = [esp EXCEPT ![stack] = "saved", ![to] = "live"]
    /\ ctl' = IF esp[to] = "none" THEN [Yielded EXCEPT ![to] = "wild"] ELSE Yielded
    /\ stack' = to
    /\ iflag' = TRUE
    /\ UNCHANGED <<state, current_pid, arg, pic, gates, to, ret>>

\* irq0_post_switch: the second end-of-interrupt of irq0_handler.
post_eoi ==
    /\ Undisturbed
    /\ Goto("post", "iret")
    /\ pic' = pic_send_eoi
    /\ UNCHANGED <<svars, gates, iflag, stack, to, ret>>

irq1_handler ==
    /\ Undisturbed
    /\ Goto("irq1", "iret")
    /\ pic' = pic_send_eoi
    /\ UNCHANGED <<svars, gates, iflag, stack, to, ret>>

\* Fault: the frame of the interrupted code stays on the stack.
IretKeepsFrame ==
    /\ Undisturbed
    /\ Goto("iret", ret[stack][Len(ret[stack])])
    /\ iflag' = TRUE
    /\ UNCHANGED <<svars, pic, gates, stack, to, ret>>

\* iret restores the interrupt flag the interrupted code had: it was set.
iret ==
    /\ Undisturbed
    /\ Goto("iret", ret[stack][Len(ret[stack])])
    /\ ret' = [ret EXCEPT ![stack] = SubSeq(@, 1, Len(@) - 1)]
    /\ iflag' = TRUE
    /\ UNCHANGED <<svars, pic, gates, stack, to>>

-----------------------------------------------------------------------------
\* What a process does in its own code, as Scheduler has it.
Code(A) == pos = "code" /\ Undisturbed /\ A /\ UNCHANGED ivars

Process_step ==
    \/ \E slot \in User : Code(process_create(slot))
    \/ Code(process_create_esp)
    \/ \E pid \in Pid : Code(kill(pid))
    \/ \E p \in User : \/ Code(thread_exit(p))
                       \/ Code(block(p))
                       \/ Code(scheduler_unblock_store(p))
                       \/ \E pid \in User : Code(scheduler_unblock(p, pid))

Handler_step ==
    \/ \E irq \in IRQ : accept(irq)
    \/ tick_eoi \/ pick \/ promote \/ assign \/ context_switch
    \/ post_eoi \/ irq1_handler \/ iret

Boot_step == idt_init \/ pic_init \/ idt_set_gate \/ boot_sti

IntNext ==
    \/ Boot_step
    \/ \E irq \in IRQ : raise(irq)
    \/ Handler_step
    \/ \E p \in User : yield_cli(p)
    \/ Process_step

IntSpec == IntInit /\ [][IntNext]_vars

(***************************************************************************)
(* The CPU executes its instructions and the PIT does not stop (strong     *)
(* fairness because the bound MAX_NEST may hold a request back).           *)
(***************************************************************************)
FairIntSpec ==
    /\ IntSpec
    /\ WF_vars(Boot_step)
    /\ WF_vars(Handler_step)
    /\ SF_vars(raise(TIMER))

-----------------------------------------------------------------------------
\* Every variable of the controller and of the CPU has its type.
IntTypeOK ==
    /\ pic \in [irr : SUBSET IRQ, isr : SUBSET IRQ, unmasked : SUBSET Lines, offset : {8, 32}]
    /\ gates \subseteq {32, 33}
    /\ iflag \in BOOLEAN
    /\ pos \in Place
    /\ stack \in Pid /\ to \in Pid
    /\ ret \in [Pid -> Seq(Place)]
    /\ \A p \in Pid : Len(ret[p]) <= MAX_NEST + 1

\* kernel_main sets the gates and moves the controller before its sti: no
\* request ever meets an empty gate, however early it comes.
EveryVectorHasAGate == pos # "fault"

(***************************************************************************)
(* An interrupt in service is being handled with interrupts off, so the    *)
(* second end-of-interrupt of irq0_handler, which a process may send long  *)
(* after its tick and between other interrupts, never ends one of those.   *)
(***************************************************************************)
InServiceIsMasked == pic.isr # {} => ~iflag /\ pos \in {"irq0", "irq1"}

(***************************************************************************)
(* Whenever an interrupt could be taken, the process table is consistent:  *)
(* current_pid names the process whose stack is in use, nobody else is     *)
(* RUNNING, and the kernel process can be picked.                          *)
(***************************************************************************)
ConsistentWhenEnabled ==
    iflag => current_pid = stack /\ OnlyCurrentRuns /\ KernelRunnable

(***************************************************************************)
(* The stores of pick_and_switch look like one step to everybody: seen     *)
(* with the switch in progress undone, every behaviour is one of Scheduler.*)
(***************************************************************************)
Undone ==
    [p \in Pid |->
        IF pos \in {"promote", "assign", "switch"} /\ p = stack /\ state[p] = "READY"
          THEN "RUNNING"
        ELSE IF pos \in {"assign", "switch"} /\ p = to THEN "READY"
        ELSE state[p]]

Abstract == INSTANCE Scheduler WITH state <- Undone, current_pid <- stack

ImplementsScheduler == Abstract!SchedSpec

(***************************************************************************)
(* "The timer would go silent for good" if an end-of-interrupt were missed *)
(* or interrupts stayed off: every tick is taken.  With it ReadyRuns holds *)
(* without Scheduler's assumption about ticks.                             *)
(***************************************************************************)
TimerNeverSilent == TIMER \in pic.irr ~> (TIMER \notin pic.irr \/ Crashed)
=============================================================================
