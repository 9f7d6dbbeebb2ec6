---------------------------- MODULE InterruptProofs ----------------------------
(***************************************************************************)
(* Interrupts implements Scheduler, and with it keeps the interrupts in    *)
(* order, for every number of processes and however deep handlers nest.    *)
(***************************************************************************)
EXTENDS Interrupts, SequenceTheorems, TLAPS

\* The scheduler that is implemented, with what is proved of it.
Upper == INSTANCE SchedulerProofs WITH state <- Undone, current_pid <- stack

\* Between the choice of pick_and_switch and the switch.
Switching == {"promote", "assign", "switch"}

-----------------------------------------------------------------------------
\* The master 8259.
Controller == [irr : SUBSET IRQ, isr : SUBSET IRQ, unmasked : SUBSET Lines, offset : {8, 32}]

\* Types, without the bound MAX_NEST.
IntTypes ==
    /\ SchedTypeOK
    /\ pic \in Controller
    /\ gates \subseteq {32, 33}
    /\ iflag \in BOOLEAN
    /\ pos \in Place
    /\ stack \in Pid /\ to \in Pid
    /\ ret \in [Pid -> Seq(Place)]

\* What kernel_main has done before its sti.
BootOrder ==
    /\ pos # "idt_init" => gates = {32, 33}
    /\ pos \notin {"idt_init", "pic_init"} => pic.offset = 32

\* Where interrupts are enabled, and that one at most is in service.
FlagAndService ==
    /\ iflag = TRUE => pos \in {"code", "post", "iret", "wild"}
    /\ pos = "code" => iflag = TRUE
    /\ pic.isr # {} => pos \in {"irq0", "irq1"}
    /\ \A i, j \in pic.isr : i = j

\* Handlers nest in the tail of irq0_handler only.
OnlyTailsNest ==
    \A p \in Pid : \A i \in 1 .. Len(ret[p]) :
        IF i = 1 THEN ret[p][i] = "code" ELSE ret[p][i] \in {"post", "iret"}

\* Code is not interrupted twice over, a handler always has code below it.
Frames ==
    /\ pos \in Boot \cup {"code"} => ret[stack] = <<>>
    /\ pos \in {"irq0", "irq1", "post", "iret"} => ret[stack] # <<>>
    /\ OnlyTailsNest

\* How far a switch has got, and who is switched to.
Switch ==
    /\ current_pid = IF pos = "switch" THEN to ELSE stack
    /\ pos \in Switching => /\ to # stack /\ state[stack] # "RUNNING"
                            /\ state[to] = IF pos = "promote" THEN "READY" ELSE "RUNNING"
                            /\ \E i \in 1 .. (MAX_PROCESSES - 1) :
                                  /\ to = Upper!Candidate(i)
                                  /\ \A j \in 1 .. (i - 1) : Undone[Upper!Candidate(j)] # "READY"
    /\ pos \in {"pick"} \cup Switching /\ ret[stack] = <<>> =>
                            stack \in User /\ ctl[stack] = "yield"

\* A process resumed without a frame has the CPU.
NobodyWild == pos # "wild" => \A p \in Pid : ctl[p] # "wild"

\* The inductive invariant; with Upper!SchedInv it is kept by every step.
IntInv ==
    /\ IntTypes /\ BootOrder /\ EveryVectorHasAGate /\ FlagAndService
    /\ Frames /\ Switch /\ NobodyWild

-----------------------------------------------------------------------------
\* Outside a switch nothing is undone; in one, the two processes concerned.
LEMMA UndoneIs ==
    ASSUME IntTypes
    PROVE  /\ pos \notin Switching => Undone = state
           /\ Undone \in [Pid -> State]
           /\ pos \in Switching =>
                \A p \in Pid : Undone[p] =
                    IF p = stack /\ state[p] = "READY" THEN "RUNNING"
                    ELSE IF pos # "promote" /\ p = to THEN "READY" ELSE state[p]
<1>1. state \in [Pid -> State]
  BY DEF IntTypes, SchedTypeOK
<1>2. pos \notin Switching => Undone = state
  BY <1>1 DEF Undone, Switching
<1>3. Undone \in [Pid -> State]
  BY <1>1 DEF Undone, State
<1>4. ASSUME pos \in Switching, NEW p \in Pid
      PROVE  Undone[p] = IF p = stack /\ state[p] = "READY" THEN "RUNNING"
                         ELSE IF pos # "promote" /\ p = to THEN "READY" ELSE state[p]
  BY <1>1, <1>4 DEF Undone, Switching
<1> QED BY <1>2, <1>3, <1>4

\* The sets of the scheduler seen from above are those of this module.
LEMMA Names ==
    /\ Upper!Pid = Pid /\ Upper!User = User /\ Upper!State = State
    /\ Upper!Esp = Esp /\ Upper!Ctl = Ctl
    /\ User \subseteq Pid /\ 0 \in Pid /\ 0 \notin User
  BY SchedulerAssumption DEF Pid, User, State, Esp, Ctl,
     Upper!Pid, Upper!User, Upper!State, Upper!Esp, Upper!Ctl

\* What scheduler's invariant says of the process on the CPU when it gives it up.
LEMMA StackNotReady ==
    ASSUME IntTypes, Upper!SchedInv, pos \notin Switching
    PROVE  state[stack] # "READY"
<1>1. Undone = state
  BY UndoneIs
<1> QED BY <1>1 DEF Upper!SchedInv, Upper!CodeRunsOnlyWhenRunning
-----------------------------------------------------------------------------
\* A step that leaves the process table alone, outside a switch.
LEMMA QuietStep ==
    ASSUME IntInv, UNCHANGED <<svars, stack, to>>, pos' \in Place,
           pos \notin Switching \cup {"wild"}, pos' \notin Switching
    PROVE  UNCHANGED Upper!svars /\ SchedTypeOK' /\ NobodyWild' /\ stack' \in Pid /\ to' \in Pid
<1>1. Undone = state
  BY UndoneIs DEF IntInv
<1>2. Undone' = state'
  BY DEF Undone, Switching, IntInv, IntTypes, SchedTypeOK, svars
<1>3. UNCHANGED Upper!svars
  BY <1>1, <1>2 DEF svars, Upper!svars
<1>4. SchedTypeOK'
  BY DEF svars, IntInv, IntTypes, SchedTypeOK
<1>5. NobodyWild'
  BY DEF svars, IntInv, NobodyWild
<1> QED BY <1>3, <1>4, <1>5 DEF IntInv, IntTypes

\* Booting.
LEMMA BootKeepsInv ==
    ASSUME IntInv, Boot_step
    PROVE  IntInv' /\ UNCHANGED Upper!svars
<1>1. UNCHANGED Upper!svars /\ SchedTypeOK' /\ NobodyWild' /\ stack' \in Pid /\ to' \in Pid
  BY QuietStep DEF Boot_step, idt_init, pic_init, idt_set_gate, boot_sti, Goto, Switching, Place, Boot, Masked
<1>2. IntTypes'
  <2>1. pic' \in Controller
    <3>1. pic \in Controller /\ IRQ \in SUBSET Lines
      BY DEF IntInv, IntTypes, IRQ, Lines, TIMER, KEYS
    <3>2. CASE pic' = pic
      BY <3>1, <3>2
    <3>3. CASE pic_init
      BY <3>1, <3>3 DEF pic_init, Controller
    <3> QED BY <3>2, <3>3 DEF Boot_step, idt_init, idt_set_gate, boot_sti
  <2>2. pos' \in Place
    BY DEF Boot_step, idt_init, pic_init, idt_set_gate, boot_sti, Goto, Place, Boot
  <2> QED BY <1>1, <2>1, <2>2 DEF IntInv, IntTypes, Boot_step, idt_init, pic_init, idt_set_gate, boot_sti
<1>3. BootOrder' /\ EveryVectorHasAGate'
  <2> USE DEF IntInv, BootOrder, EveryVectorHasAGate, Goto
  <2>1. CASE idt_init
    BY <2>1 DEF idt_init
  <2>2. CASE pic_init
    BY <2>2 DEF pic_init, IntTypes, Controller
  <2>3. CASE idt_set_gate
    BY <2>3 DEF idt_set_gate
  <2>4. CASE boot_sti
    BY <2>4 DEF boot_sti
  <2> QED BY <2>1, <2>2, <2>3, <2>4 DEF Boot_step
<1>4. FlagAndService'
  BY DEF IntInv, FlagAndService, Boot_step, idt_init, pic_init, idt_set_gate, boot_sti, Goto, IntTypes, Controller
<1>5. Frames'
  BY DEF IntInv, Frames, OnlyTailsNest, Boot_step, idt_init, pic_init, idt_set_gate, boot_sti, Goto, Boot
<1>6. Switch'
  BY DEF IntInv, Switch, Switching, Boot_step, idt_init, pic_init, idt_set_gate, boot_sti, Goto, svars
<1> QED BY <1>1, <1>2, <1>3, <1>4, <1>5, <1>6 DEF IntInv

\* A request is latched.
LEMMA RaiseKeepsInv ==
    ASSUME IntInv, NEW irq \in IRQ, raise(irq)
    PROVE  IntInv' /\ UNCHANGED Upper!svars
<1>1. /\ UNCHANGED <<state, esp, current_pid, ctl, arg, gates, iflag, pos, stack, to, ret>>
      /\ pic' = [pic EXCEPT !.irr = @ \cup {irq}]
  BY DEF raise, svars
<1>2. pic \in Controller /\ pic' \in Controller /\ pic'.isr = pic.isr /\ pic'.offset = pic.offset
  BY <1>1 DEF IntInv, IntTypes, Controller
<1>3. Undone' = Undone
  BY <1>1 DEF Undone
<1>4. IntTypes' /\ BootOrder' /\ EveryVectorHasAGate' /\ NobodyWild'
  BY <1>1, <1>2 DEF IntInv, IntTypes, BootOrder, EveryVectorHasAGate, NobodyWild, SchedTypeOK
<1>5. FlagAndService' /\ Frames'
  BY <1>1, <1>2 DEF IntInv, FlagAndService, Frames, OnlyTailsNest
<1>6. Switch'
  BY <1>1, <1>3 DEF IntInv, Switch, Upper!Candidate
<1> QED BY <1>1, <1>3, <1>4, <1>5, <1>6 DEF IntInv, Upper!svars

\* A frame pushed on a stack of frames leaves those below it as they are.
LEMMA Pushed ==
    ASSUME NEW s \in Seq(Place), NEW x \in Place
    PROVE  /\ Append(s, x) \in Seq(Place) /\ Append(s, x) # <<>>
           /\ Len(Append(s, x)) = Len(s) + 1
           /\ Append(s, x)[Len(s) + 1] = x
           /\ \A i \in 1 .. Len(s) : Append(s, x)[i] = s[i]
OBVIOUS

\* The same for the frame that iret takes off the stack.
LEMMA Popped ==
    ASSUME NEW s \in Seq(Place), s # <<>>
    PROVE  LET t == SubSeq(s, 1, Len(s) - 1) IN
           /\ t \in Seq(Place) /\ Len(t) = Len(s) - 1
           /\ \A i \in 1 .. Len(t) : t[i] = s[i]
           /\ Len(s) \in Nat \ {0}
           /\ s[Len(s)] \in Place
           /\ Len(s) = 1 => t = <<>>
           /\ Len(s) > 1 => t # <<>>
<1>1. Len(s) \in Nat \ {0} /\ \A i \in 1 .. Len(s) : s[i] \in Place
  BY EmptySeq, LenProperties, ElementOfSeq
<1> DEFINE n == Len(s)
<1>2. /\ n \in Nat /\ n - 1 \in Nat /\ 1 \in Int /\ n - 1 \in Int /\ 1 \in 1 .. n
      /\ 1 - 1 = 0 /\ (n - 1) - 1 + 1 = n - 1
  BY <1>1
<1> HIDE DEF n
<1>3. /\ SubSeq(s, 1, n - 1) \in Seq(Place)
      /\ Len(SubSeq(s, 1, n - 1)) = n - 1
      /\ \A i \in 1 .. n - 1 : SubSeq(s, 1, n - 1)[i] = s[i]
  <2>1. \A i \in 1 .. n - 1 : s[i] \in Place /\ i \in 1 .. Len(s)
    BY <1>1, <1>2 DEF n
  <2>2. SubSeq(s, 1, n - 1) = [i \in 1 .. n - 1 |-> s[i]]
    BY <1>1, <1>2, <2>1 DEF n
  <2> QED BY <1>1, <1>2, <2>1, <2>2 DEF n
<1>4. n = 1 => SubSeq(s, 1, n - 1) = <<>>
  BY <1>2, <1>3, EmptySeq
<1>5. n > 1 => SubSeq(s, 1, n - 1) # <<>>
  BY <1>2, <1>3, EmptySeq
<1> QED BY <1>1, <1>2, <1>3, <1>4, <1>5 DEF n

\* The CPU takes an interrupt: never without a gate, never with another one in
\* service, never inside a switch.
LEMMA AcceptKeepsInv ==
    ASSUME IntInv, NEW irq \in IRQ, accept(irq)
    PROVE  IntInv' /\ UNCHANGED Upper!svars
<1>1. /\ pos \in {"code", "post", "iret"} /\ pic.isr = {}
      /\ pic.offset = 32 /\ gates = {32, 33}
  BY DEF accept, IntInv, FlagAndService, BootOrder
<1>2. pos' \in {"irq0", "irq1"}
  BY <1>1 DEF accept, IRQ, TIMER, KEYS
<1>3. UNCHANGED Upper!svars /\ SchedTypeOK' /\ NobodyWild' /\ stack' \in Pid /\ to' \in Pid
  BY <1>1, <1>2, QuietStep DEF accept, Switching, Place, Masked
<1>4. /\ pic' \in Controller /\ pic'.isr = {irq} /\ pic'.offset = 32
  BY <1>1 DEF accept, IntInv, IntTypes, Controller
<1>5. /\ ret \in [Pid -> Seq(Place)] /\ stack \in Pid /\ pos \in Place
      /\ ret' = [ret EXCEPT ![stack] = Append(@, pos)] /\ stack' = stack
  BY DEF accept, IntInv, IntTypes
<1>6. /\ ret' \in [Pid -> Seq(Place)] /\ ret'[stack] # <<>>
      /\ \A p \in Pid \ {stack} : ret'[p] = ret[p]
      /\ ret'[stack] = Append(ret[stack], pos)
  BY <1>5, Pushed
<1>7. IntTypes'
  BY <1>2, <1>3, <1>4, <1>6 DEF IntInv, IntTypes, accept, Place, Masked
<1>8. BootOrder' /\ EveryVectorHasAGate' /\ FlagAndService'
  BY <1>1, <1>2, <1>4 DEF IntInv, BootOrder, EveryVectorHasAGate, FlagAndService, accept
<1>9. Frames'
  <2>1. ASSUME NEW i \in 1 .. Len(ret'[stack])
        PROVE  IF i = 1 THEN ret'[stack][i] = "code" ELSE ret'[stack][i] \in {"post", "iret"}
    <3>1. Len(ret[stack]) \in Nat /\ Len(ret'[stack]) = Len(ret[stack]) + 1
      BY <1>5, <1>6, Pushed, LenProperties
    <3>2. CASE i \in 1 .. Len(ret[stack])
      BY <1>5, <1>6, <3>2, Pushed DEF IntInv, Frames, OnlyTailsNest
    <3>3. CASE i = Len(ret[stack]) + 1
      <4>1. ret'[stack][i] = pos
        BY <1>5, <1>6, <3>3, Pushed
      <4>2. pos = "code" <=> Len(ret[stack]) = 0
        BY <1>1, <1>5, EmptySeq DEF IntInv, Frames
      <4> QED BY <1>1, <3>1, <3>3, <4>1, <4>2
    <3> QED BY <3>1, <3>2, <3>3
  <2>2. OnlyTailsNest'
    BY <1>5, <1>6, <2>1 DEF IntInv, Frames, OnlyTailsNest
  <2> QED BY <1>2, <1>5, <1>6, <2>2 DEF Frames, Boot
<1>10. Switch'
  BY <1>1, <1>2 DEF IntInv, Switch, Switching, accept, svars
<1> QED BY <1>3, <1>7, <1>8, <1>9, <1>10 DEF IntInv

\* The end of the one interrupt in service.
LEMMA EoiEndsService ==
    ASSUME IntInv
    PROVE  /\ pic_send_eoi \in Controller /\ pic_send_eoi.isr = {}
           /\ pic_send_eoi.offset = pic.offset
<1>1. pic \in Controller /\ \A i, j \in pic.isr : i = j
  BY DEF IntInv, IntTypes, FlagAndService
<1>2. pic.isr \subseteq {0, 1}
  BY <1>1 DEF Controller, IRQ, TIMER, KEYS
<1>3. {i \in pic.isr : \E j \in pic.isr : j < i} = {}
  BY <1>1, <1>2
<1> QED BY <1>1, <1>3 DEF pic_send_eoi, Controller

\* The steps of the handlers outside pick_and_switch.
LEMMA HandlerKeepsInv ==
    ASSUME IntInv, tick_eoi \/ post_eoi \/ irq1_handler
    PROVE  IntInv' /\ UNCHANGED Upper!svars
<1>1. /\ pos \in {"irq0", "post", "irq1"} /\ pos' \in {"pick", "iret"}
      /\ pos' = "pick" <=> pos = "irq0"
      /\ UNCHANGED <<svars, gates, iflag, stack, to, ret>>
      /\ pic' = pic_send_eoi
  BY DEF tick_eoi, post_eoi, irq1_handler, Goto
<1>2. UNCHANGED Upper!svars /\ SchedTypeOK' /\ NobodyWild' /\ stack' \in Pid /\ to' \in Pid
  BY <1>1, QuietStep DEF Switching, Place, Masked
<1>3. pic' \in Controller /\ pic'.isr = {} /\ pic'.offset = pic.offset
  BY <1>1, EoiEndsService
<1>4. IntTypes' /\ BootOrder' /\ EveryVectorHasAGate'
  BY <1>1, <1>2, <1>3 DEF IntInv, IntTypes, BootOrder, EveryVectorHasAGate, Place, Masked
<1>5. FlagAndService'
  BY <1>1, <1>3 DEF IntInv, FlagAndService
<1>6. Frames' /\ Switch'
  BY <1>1 DEF IntInv, Frames, OnlyTailsNest, Boot, Switch, Switching, svars
<1> QED BY <1>2, <1>4, <1>5, <1>6 DEF IntInv

\* iret goes back to where the innermost frame says.
LEMMA IretKeepsInv ==
    ASSUME IntInv, iret
    PROVE  IntInv' /\ UNCHANGED Upper!svars
<1> DEFINE frames == ret[stack]
           n == Len(frames)
<1>1. /\ frames \in Seq(Place) /\ frames # <<>> /\ stack \in Pid
      /\ ret \in [Pid -> Seq(Place)] /\ pic.isr = {}
  BY DEF iret, Goto, IntInv, IntTypes, Frames, FlagAndService
<1>2. /\ n \in Nat \ {0}
      /\ pos' = IF n = 1 THEN "code" ELSE frames[n]
      /\ n # 1 => frames[n] \in {"post", "iret"}
  BY <1>1, Popped DEF iret, Goto, IntInv, Frames, OnlyTailsNest
<1>3. pos' \in {"code", "post", "iret"}
  BY <1>2
<1>4. UNCHANGED Upper!svars /\ SchedTypeOK' /\ NobodyWild' /\ stack' \in Pid /\ to' \in Pid
  BY <1>3, QuietStep DEF iret, Goto, Switching, Place
<1>5. /\ UNCHANGED <<svars, pic, gates, stack, to>> /\ iflag' = TRUE
      /\ ret' = [ret EXCEPT ![stack] = SubSeq(frames, 1, n - 1)] /\ pos = "iret"
  BY DEF iret, Goto
<1>6. /\ ret' \in [Pid -> Seq(Place)]
      /\ \A p \in Pid \ {stack} : ret'[p] = ret[p]
      /\ ret'[stack] = SubSeq(frames, 1, n - 1)
  BY <1>1, <1>5, Popped
<1>7. IntTypes' /\ BootOrder' /\ EveryVectorHasAGate' /\ FlagAndService'
  BY <1>1, <1>3, <1>4, <1>5, <1>6 DEF IntInv, IntTypes, BootOrder, EveryVectorHasAGate, FlagAndService, Place
<1>8. Frames'
  <2>1. (pos' = "code" => ret'[stack] = <<>>) /\ (pos' # "code" => ret'[stack] # <<>>)
    BY <1>1, <1>2, <1>6, Popped
  <2>2. ASSUME NEW i \in 1 .. Len(ret'[stack])
        PROVE  IF i = 1 THEN ret'[stack][i] = "code" ELSE ret'[stack][i] \in {"post", "iret"}
    <3>1. i \in 1 .. n /\ ret'[stack][i] = frames[i]
      BY <1>1, <1>6, Popped
    <3> QED BY <1>1, <3>1 DEF IntInv, Frames, OnlyTailsNest
  <2>3. OnlyTailsNest'
    BY <1>5, <1>6, <2>2 DEF IntInv, Frames, OnlyTailsNest
  <2> QED BY <1>3, <1>5, <2>1, <2>3 DEF Frames, Boot
<1>9. Switch'
  BY <1>3, <1>5 DEF IntInv, Switch, Switching, svars
<1> QED BY <1>4, <1>7, <1>8, <1>9 DEF IntInv

\* scheduler_yield disables interrupts before anything else.
LEMMA YieldCliKeepsInv ==
    ASSUME IntInv, NEW p \in User, yield_cli(p)
    PROVE  IntInv' /\ UNCHANGED Upper!svars
<1>1. /\ pos = "code" /\ pos' = "pick" /\ iflag' = FALSE
      /\ UNCHANGED <<svars, pic, gates, stack, to, ret>>
      /\ p = current_pid /\ ctl[p] = "yield"
  BY DEF yield_cli, Goto, At
<1>2. UNCHANGED Upper!svars /\ SchedTypeOK' /\ NobodyWild' /\ stack' \in Pid /\ to' \in Pid
  BY <1>1, QuietStep DEF Switching, Place, Masked
<1>3. IntTypes' /\ BootOrder' /\ EveryVectorHasAGate'
  BY <1>1, <1>2 DEF IntInv, IntTypes, BootOrder, EveryVectorHasAGate, Place, Masked
<1>4. FlagAndService' /\ Frames'
  BY <1>1 DEF IntInv, FlagAndService, Frames, OnlyTailsNest, Boot
<1>5. Switch'
  BY <1>1 DEF IntInv, Switch, Switching, svars
<1> QED BY <1>2, <1>3, <1>4, <1>5 DEF IntInv

-----------------------------------------------------------------------------
\* The candidates of a scan, seen from above.
LEMMA CandidateIs ==
    ASSUME IntInv, Upper!SchedTypeOK, NEW i \in 1 .. (MAX_PROCESSES - 1)
    PROVE  /\ Upper!Candidate(i) \in Pid /\ Upper!Candidate(i) # stack
           /\ current_pid = stack => Candidate(i) = Upper!Candidate(i)
<1>1. Upper!Candidate(i) \in Upper!Pid /\ Upper!Candidate(i) # stack
  BY SchedulerAssumption, Upper!CandidateInRange
<1>2. current_pid = stack => Candidate(i) = Upper!Candidate(i)
  BY DEF Candidate, Upper!Candidate
<1> QED BY <1>1, <1>2, Names

\* pick_and_switch finds somebody: the store that demotes the outgoing process
\* is not to be seen from above.
LEMMA PickSomebody ==
    ASSUME IntInv, Upper!SchedInv, pick, NEW i \in 1 .. (MAX_PROCESSES - 1),
           state[Candidate(i)] = "READY",
           \A j \in 1 .. (i - 1) : state[Candidate(j)] # "READY",
           to' = Candidate(i), Goto("pick", "promote"),
           state' = [state EXCEPT ![current_pid] = IF @ = "RUNNING" THEN "READY" ELSE @],
           UNCHANGED <<iflag, ctl>>
    PROVE  IntInv' /\ UNCHANGED Upper!svars
<1>1. /\ pos = "pick" /\ pos' = "promote"
      /\ UNCHANGED <<esp, current_pid, ctl, arg, pic, gates, iflag, stack, ret>>
  BY DEF pick, Goto
<1>2. /\ state \in [Pid -> State] /\ stack \in Pid /\ current_pid = stack
      /\ Undone = state /\ state[stack] # "READY"
  BY <1>1, UndoneIs, StackNotReady DEF IntInv, IntTypes, SchedTypeOK, Switch, Switching
<1>3. \A j \in 1 .. (MAX_PROCESSES - 1) :
          Upper!Candidate(j) \in Pid /\ Upper!Candidate(j) # stack
          /\ Candidate(j) = Upper!Candidate(j)
  BY <1>2, CandidateIs DEF Upper!SchedInv
<1>4. to' \in Pid /\ to' # stack /\ state[to'] = "READY"
  BY <1>3
<1>5. /\ state' \in [Pid -> State]
      /\ state'[stack] = IF state[stack] = "RUNNING" THEN "READY" ELSE state[stack]
      /\ \A p \in Pid \ {stack} : state'[p] = state[p]
  BY <1>2 DEF State
<1>6. SchedTypeOK'
  BY <1>1, <1>5 DEF IntInv, IntTypes, SchedTypeOK
<1>7. IntTypes'
  BY <1>1, <1>4, <1>6 DEF IntInv, IntTypes, Place, Masked
<1>8. Undone' = Undone
  <2>1. \A p \in Pid : Undone'[p] =
             IF p = stack /\ state'[p] = "READY" THEN "RUNNING" ELSE state'[p]
    BY <1>1 DEF Undone
  <2>2. \A p \in Pid : Undone'[p] = Undone[p]
    BY <1>2, <1>5, <2>1
  <2>3. Undone = [p \in Pid |-> Undone[p]] /\ Undone' = [p \in Pid |-> Undone'[p]]
    BY DEF Undone
  <2> QED BY <2>2, <2>3
<1>9. UNCHANGED Upper!svars
  BY <1>1, <1>8 DEF Upper!svars
<1>10. BootOrder' /\ EveryVectorHasAGate' /\ NobodyWild'
  BY <1>1 DEF IntInv, BootOrder, EveryVectorHasAGate, NobodyWild
<1>11. FlagAndService' /\ Frames'
  BY <1>1 DEF IntInv, FlagAndService, Frames, OnlyTailsNest, Boot
<1>12. Switch'
  <2>1. to' = Upper!Candidate(i)' /\ \A j \in 1 .. (i - 1) : Undone'[Upper!Candidate(j)'] # "READY"
    <3>1. \A j \in 1 .. (MAX_PROCESSES - 1) : Upper!Candidate(j)' = Upper!Candidate(j)
      BY <1>1 DEF Upper!Candidate
    <3>2. 1 .. (i - 1) \subseteq 1 .. (MAX_PROCESSES - 1)
      BY SchedulerAssumption
    <3> QED BY <1>2, <1>3, <1>8, <3>1, <3>2
  <2>2. state'[stack] # "RUNNING" /\ state'[to'] = "READY"
    BY <1>4, <1>5
  <2> QED BY <1>1, <1>2, <1>4, <2>1, <2>2 DEF IntInv, Switch, Switching
<1> QED BY <1>7, <1>9, <1>10, <1>11, <1>12 DEF IntInv

\* Nobody is READY: a tick returns, a yield ends.
LEMMA PickNobody ==
    ASSUME IntInv, Upper!SchedInv, pick, NoneReady,
           Goto("pick", IF ByTick THEN "post" ELSE "code"),
           iflag' = IF ByTick THEN iflag ELSE TRUE,
           ctl' = Yielded, UNCHANGED <<state, to>>
    PROVE  IntInv' /\ (Upper!SchedNext \/ UNCHANGED Upper!svars)
<1>1. /\ pos = "pick" /\ pos' = IF ByTick THEN "post" ELSE "code"
      /\ UNCHANGED <<state, esp, current_pid, arg, pic, gates, stack, to, ret>>
  BY DEF pick, Goto
<1>2. /\ state \in [Pid -> State] /\ stack \in Pid /\ current_pid = stack
      /\ ctl \in [Pid -> Ctl] /\ iflag = FALSE /\ pic.isr = {}
      /\ Undone = state
  BY <1>1, UndoneIs DEF IntInv, IntTypes, SchedTypeOK, Switch, Switching, FlagAndService
<1>3. Undone' = Undone
  BY <1>1, <1>2 DEF Undone
<1>4. /\ ctl' \in [Pid -> Ctl]
      /\ \A p \in Pid : ctl'[p] = ctl[p] \/ ctl'[p] = "run"
  BY <1>2 DEF Yielded, Ctl
<1>5. SchedTypeOK'
  BY <1>1, <1>4 DEF IntInv, IntTypes, SchedTypeOK
<1>6. IntTypes' /\ BootOrder' /\ EveryVectorHasAGate'
  BY <1>1, <1>2, <1>5 DEF IntInv, IntTypes, BootOrder, EveryVectorHasAGate, Place
<1>7. NobodyWild'
  BY <1>1, <1>4 DEF IntInv, NobodyWild
<1>8. FlagAndService' /\ Frames'
  BY <1>1, <1>2 DEF IntInv, FlagAndService, Frames, OnlyTailsNest, Boot, ByTick
<1>9. Switch'
  BY <1>1, <1>2 DEF Switch, Switching
<1>10. ASSUME ByTick PROVE UNCHANGED Upper!svars
  BY <1>1, <1>3, <1>10 DEF Yielded, Upper!svars
<1>11. ASSUME ~ByTick PROVE Upper!SchedNext
  <2>1. stack \in User /\ ctl[stack] = "yield" /\ ctl' = [ctl EXCEPT ![stack] = "run"]
    BY <1>1, <1>11 DEF IntInv, Switch, ByTick, Yielded
  <2>2. Upper!NoneReady
    BY <1>2, CandidateIs DEF NoneReady, Upper!NoneReady, Upper!SchedInv
  <2>3. Upper!scheduler_yield(stack)
    BY <1>1, <1>3, <2>1, <2>2 DEF Upper!scheduler_yield, Upper!pick_and_switch, Upper!At
  <2> QED BY <2>1, <2>3, Names DEF Upper!SchedNext
<1> QED BY <1>6, <1>7, <1>8, <1>9, <1>10, <1>11 DEF IntInv

\* The two stores between the choice and the switch are not to be seen either.
LEMMA StoreKeepsInv ==
    ASSUME IntInv, Upper!SchedInv, promote \/ assign
    PROVE  IntInv' /\ UNCHANGED Upper!svars
<1>1. /\ pos \in {"promote", "assign"}
      /\ pos' = IF pos = "promote" THEN "assign" ELSE "switch"
      /\ state' = IF pos = "promote" THEN [state EXCEPT ![to] = "RUNNING"] ELSE state
      /\ current_pid' = IF pos = "promote" THEN current_pid ELSE to
      /\ UNCHANGED <<esp, ctl, arg, pic, gates, iflag, stack, to, ret>>
  BY DEF promote, assign, Goto
<1>2. /\ state \in [Pid -> State] /\ stack \in Pid /\ to \in Pid
      /\ to # stack /\ state[stack] # "RUNNING"
      /\ state[to] = IF pos = "promote" THEN "READY" ELSE "RUNNING"
      /\ current_pid = stack
  BY <1>1 DEF IntInv, IntTypes, SchedTypeOK, Switch, Switching
<1>3. /\ state' \in [Pid -> State] /\ state'[to] = "RUNNING"
      /\ \A p \in Pid \ {to} : state'[p] = state[p]
  BY <1>1, <1>2 DEF State
<1>4. IntTypes'
  BY <1>1, <1>2, <1>3 DEF IntInv, IntTypes, SchedTypeOK, Place, Masked
<1>5. Undone' = Undone
  <2>1. \A p \in Pid : Undone'[p] =
             IF p = stack /\ state'[p] = "READY" THEN "RUNNING"
             ELSE IF p = to THEN "READY" ELSE state'[p]
    BY <1>1 DEF Undone
  <2>2. \A p \in Pid : Undone[p] =
             IF p = stack /\ state[p] = "READY" THEN "RUNNING"
             ELSE IF p = to THEN "READY" ELSE state[p]
    BY <1>1, <1>2, UndoneIs DEF IntInv, Switching
  <2>3. \A p \in Pid : Undone'[p] = Undone[p]
    BY <1>2, <1>3, <2>1, <2>2
  <2>4. Undone = [p \in Pid |-> Undone[p]] /\ Undone' = [p \in Pid |-> Undone'[p]]
    BY DEF Undone
  <2> QED BY <2>3, <2>4
<1>6. UNCHANGED Upper!svars
  BY <1>1, <1>5 DEF Upper!svars
<1>7. BootOrder' /\ EveryVectorHasAGate' /\ NobodyWild'
  BY <1>1 DEF IntInv, BootOrder, EveryVectorHasAGate, NobodyWild
<1>8. FlagAndService' /\ Frames'
  BY <1>1 DEF IntInv, FlagAndService, Frames, OnlyTailsNest, Boot
<1>9. Switch'
  <2>1. PICK i \in 1 .. (MAX_PROCESSES - 1) :
           /\ to = Upper!Candidate(i)
           /\ \A j \in 1 .. (i - 1) : Undone[Upper!Candidate(j)] # "READY"
    BY <1>1 DEF IntInv, Switch, Switching
  <2>2. \A j \in 1 .. (MAX_PROCESSES - 1) : Upper!Candidate(j)' = Upper!Candidate(j)
    BY <1>1 DEF Upper!Candidate
  <2>3. 1 .. (i - 1) \subseteq 1 .. (MAX_PROCESSES - 1)
    BY SchedulerAssumption
  <2>4. /\ to' = Upper!Candidate(i)'
        /\ \A j \in 1 .. (i - 1) : Undone'[Upper!Candidate(j)'] # "READY"
    BY <1>1, <1>5, <2>1, <2>2, <2>3
  <2>5. pos' \in {"pick"} \cup Switching /\ ret'[stack'] = <<>>
           => stack' \in User /\ ctl'[stack'] = "yield"
    BY <1>1 DEF IntInv, Switch, Switching
  <2> QED BY <1>1, <1>2, <1>3, <2>4, <2>5 DEF Switch, Switching
<1> QED BY <1>4, <1>6, <1>7, <1>8, <1>9 DEF IntInv

\* context_switch completes the step that is to be seen: a tick, or the yield
\* of the process whose stack the CPU leaves.
LEMMA SwitchIsAStep ==
    ASSUME IntInv, Upper!SchedInv, context_switch
    PROVE  IntInv' /\ Upper!SchedNext
<1>1. /\ pos = "switch"
      /\ pos' = IF esp[to] = "none" THEN "wild" ELSE IF ret[to] = <<>> THEN "code" ELSE "post"
      /\ esp' = [esp EXCEPT ![stack] = "saved", ![to] = "live"]
      /\ ctl' = IF esp[to] = "none" THEN [Yielded EXCEPT ![to] = "wild"] ELSE Yielded
      /\ stack' = to /\ iflag' = TRUE
      /\ UNCHANGED <<state, current_pid, arg, pic, gates, to, ret>>
  BY DEF context_switch, Goto
<1>2. /\ state \in [Pid -> State] /\ esp \in [Pid -> Esp] /\ ctl \in [Pid -> Ctl]
      /\ stack \in Pid /\ to \in Pid /\ to # stack /\ current_pid = to
      /\ state[stack] # "RUNNING" /\ state[to] = "RUNNING"
      /\ pic.isr = {}
  BY <1>1 DEF IntInv, IntTypes, SchedTypeOK, Switch, Switching, FlagAndService
<1>3. Undone' = state
  BY <1>1, <1>2 DEF Undone
<1>4. \A p \in Pid : Undone[p] = IF p = stack /\ state[p] = "READY" THEN "RUNNING"
                                 ELSE IF p = to THEN "READY" ELSE state[p]
  BY <1>1, UndoneIs DEF IntInv, Switching
<1>5. Undone \in [Pid -> State]
  BY UndoneIs DEF IntInv
<1>6. Undone' = [Undone EXCEPT ![stack] = IF @ = "RUNNING" THEN "READY" ELSE @, ![to] = "RUNNING"]
  <2> DEFINE next == [Undone EXCEPT ![stack] = IF @ = "RUNNING" THEN "READY" ELSE @, ![to] = "RUNNING"]
  <2>1. next \in [Pid -> State]
    BY <1>2, <1>5 DEF State
  <2>2. \A p \in Pid : next[p] = state[p]
    BY <1>2, <1>4, <1>5
  <2> HIDE DEF next
  <2>3. next = state
    BY <1>2, <2>1, <2>2
  <2> QED BY <1>3, <2>3 DEF next
<1>7. Upper!SwitchTo(to)
  BY <1>1, <1>6 DEF Upper!SwitchTo
<1>8. Upper!pick_and_switch(Yielded)
  <2>1. PICK i \in 1 .. (MAX_PROCESSES - 1) :
           /\ to = Upper!Candidate(i)
           /\ \A j \in 1 .. (i - 1) : Undone[Upper!Candidate(j)] # "READY"
    BY <1>1 DEF IntInv, Switch, Switching
  <2>2. Undone[to] = "READY"
    BY <1>2, <1>4
  <2> QED BY <1>1, <1>7, <2>1, <2>2 DEF Upper!pick_and_switch
<1>9. Upper!SchedNext
  <2>1. CASE ByTick
    <3>1. Upper!scheduler_tick
      BY <1>1, <1>2, <1>8, <2>1 DEF Upper!scheduler_tick, Upper!Crashed, Yielded, IntInv, NobodyWild
    <3> QED BY <3>1 DEF Upper!SchedNext
  <2>2. CASE ~ByTick
    <3>1. stack \in User /\ ctl[stack] = "yield" /\ Yielded = [ctl EXCEPT ![stack] = "run"]
      BY <1>1, <2>2 DEF IntInv, Switch, Switching, ByTick, Yielded
    <3>2. Upper!scheduler_yield(stack)
      BY <1>1, <1>8, <3>1 DEF Upper!scheduler_yield, Upper!At
    <3> QED BY <3>1, <3>2, Names DEF Upper!SchedNext
  <2> QED BY <2>1, <2>2
<1>10. /\ Yielded \in [Pid -> Ctl]
       /\ \A p \in Pid : Yielded[p] = ctl[p] \/ Yielded[p] = "run"
  BY <1>2 DEF Yielded, Ctl
<1>11. SchedTypeOK'
  BY <1>1, <1>2, <1>10 DEF IntInv, IntTypes, SchedTypeOK, Esp, Ctl
<1>12. IntTypes' /\ BootOrder' /\ EveryVectorHasAGate'
  BY <1>1, <1>2, <1>11 DEF IntInv, IntTypes, BootOrder, EveryVectorHasAGate, Place
<1>13. NobodyWild'
  BY <1>1, <1>2, <1>10 DEF IntInv, NobodyWild
<1>14. FlagAndService' /\ Frames' /\ Switch'
  BY <1>1, <1>2 DEF IntInv, FlagAndService, Frames, OnlyTailsNest, Boot, Switch, Switching
<1> QED BY <1>9, <1>12, <1>13, <1>14 DEF IntInv

-----------------------------------------------------------------------------
\* What a process does in its own code is the same step seen from above.
LEMMA CodeIsAStep ==
    ASSUME IntInv, Process_step
    PROVE  /\ Upper!SchedNext
           /\ SchedTypeOK' /\ current_pid' = current_pid
           /\ \A p \in Pid : ctl'[p] = "wild" => ctl[p] = "wild"
<1> DEFINE Goal == /\ Upper!SchedNext
                   /\ SchedTypeOK' /\ current_pid' = current_pid
                   /\ \A p \in Pid : ctl'[p] = "wild" => ctl[p] = "wild"
<1>1. pos = "code" /\ UNCHANGED ivars
  BY DEF Process_step, Code
<1>2. /\ state \in [Pid -> State] /\ esp \in [Pid -> Esp] /\ current_pid \in Pid
      /\ ctl \in [Pid -> Ctl] /\ arg \in [Pid -> Pid]
      /\ current_pid = stack /\ Undone = state
  BY <1>1, UndoneIs DEF IntInv, IntTypes, SchedTypeOK, Switch, Switching
<1>3. ASSUME state' \in [Pid -> State] PROVE Undone' = state'
  <2>1. Undone' = [p \in Pid |-> state'[p]]
    BY <1>1 DEF Undone, ivars
  <2> QED BY <1>3, <2>1
<1>n. User \subseteq Pid /\ 0 \in Pid
  BY Names
<1> USE DEF SchedTypeOK, State, Esp, Ctl, At, Upper!At
<1>4. ASSUME NEW slot \in User, process_create(slot) PROVE Goal
  <2>1. SchedTypeOK' /\ current_pid' = current_pid /\ \A p \in Pid : ctl'[p] = "wild" => ctl[p] = "wild"
    BY <1>2, <1>4, <1>n DEF process_create
  <2>2. Undone' = state' /\ UNCHANGED stack
    BY <1>1, <1>3, <2>1 DEF ivars
  <2>3. Upper!process_create(slot)
    BY <1>2, <1>4, <2>2 DEF process_create, Upper!process_create, FirstFree, Upper!FirstFree
  <2> QED BY <2>1, <2>3, Names DEF Upper!SchedNext
<1>5. ASSUME process_create_esp PROVE Goal
  <2>1. SchedTypeOK' /\ current_pid' = current_pid /\ \A p \in Pid : ctl'[p] = "wild" => ctl[p] = "wild"
    BY <1>2, <1>5, <1>n DEF process_create_esp
  <2>2. Undone' = state' /\ UNCHANGED stack
    BY <1>1, <1>3, <2>1 DEF ivars
  <2>3. Upper!process_create_esp
    BY <1>2, <1>5, <2>2 DEF process_create_esp, Upper!process_create_esp
  <2> QED BY <2>1, <2>3 DEF Upper!SchedNext
<1>6. ASSUME NEW pid \in Pid, kill(pid) PROVE Goal
  <2>1. SchedTypeOK' /\ current_pid' = current_pid /\ \A p \in Pid : ctl'[p] = "wild" => ctl[p] = "wild"
    BY <1>2, <1>6, <1>n DEF kill
  <2>2. Undone' = state' /\ UNCHANGED stack
    BY <1>1, <1>3, <2>1 DEF ivars
  <2>3. Upper!kill(pid)
    BY <1>2, <1>6, <2>2 DEF kill, Upper!kill
  <2> QED BY <2>1, <2>3, Names DEF Upper!SchedNext
<1>7. ASSUME NEW p \in User, thread_exit(p) \/ block(p) PROVE Goal
  <2>1. SchedTypeOK' /\ current_pid' = current_pid /\ \A q \in Pid : ctl'[q] = "wild" => ctl[q] = "wild"
    BY <1>2, <1>7, <1>n DEF thread_exit, block
  <2>2. Undone' = state' /\ UNCHANGED stack
    BY <1>1, <1>3, <2>1 DEF ivars
  <2>3. Upper!thread_exit(p) \/ Upper!block(p)
    BY <1>2, <1>7, <2>2 DEF thread_exit, block, Upper!thread_exit, Upper!block
  <2> QED BY <2>1, <2>3, Names DEF Upper!SchedNext
<1>8. ASSUME NEW p \in User, scheduler_unblock_store(p) PROVE Goal
  <2>1. SchedTypeOK' /\ current_pid' = current_pid /\ \A q \in Pid : ctl'[q] = "wild" => ctl[q] = "wild"
    BY <1>2, <1>8, <1>n DEF scheduler_unblock_store
  <2>2. Undone' = state' /\ UNCHANGED stack
    BY <1>1, <1>3, <2>1 DEF ivars
  <2>3. Upper!scheduler_unblock_store(p)
    BY <1>2, <1>8, <2>2 DEF scheduler_unblock_store, Upper!scheduler_unblock_store
  <2> QED BY <2>1, <2>3, Names DEF Upper!SchedNext
<1>9. ASSUME NEW p \in User, NEW pid \in User, scheduler_unblock(p, pid) PROVE Goal
  <2>1. SchedTypeOK' /\ current_pid' = current_pid /\ \A q \in Pid : ctl'[q] = "wild" => ctl[q] = "wild"
    BY <1>2, <1>9, <1>n DEF scheduler_unblock
  <2>2. Undone' = state' /\ UNCHANGED stack
    BY <1>1, <1>3, <2>1 DEF ivars
  <2>3. Upper!scheduler_unblock(p, pid)
    BY <1>2, <1>9, <2>2, Names DEF scheduler_unblock, Upper!scheduler_unblock
  <2> QED BY <2>1, <2>3, Names DEF Upper!SchedNext
<1> QED BY <1>4, <1>5, <1>6, <1>7, <1>8, <1>9 DEF Process_step, Code

\* It keeps the controller, the flag and the frames as they are.
LEMMA CodeKeepsInv ==
    ASSUME IntInv, Process_step
    PROVE  IntInv' /\ Upper!SchedNext
<1>1. pos = "code" /\ UNCHANGED <<pic, gates, iflag, pos, stack, to, ret>>
  BY DEF Process_step, Code, ivars
<1>2. /\ Upper!SchedNext
      /\ SchedTypeOK' /\ current_pid' = current_pid
      /\ \A p \in Pid : ctl'[p] = "wild" => ctl[p] = "wild"
  BY CodeIsAStep
<1>3. IntTypes' /\ BootOrder' /\ EveryVectorHasAGate' /\ NobodyWild'
  BY <1>1, <1>2 DEF IntInv, IntTypes, BootOrder, EveryVectorHasAGate, NobodyWild
<1>4. FlagAndService' /\ Frames' /\ Switch'
  BY <1>1, <1>2 DEF IntInv, FlagAndService, Frames, OnlyTailsNest, Boot, Switch, Switching
<1> QED BY <1>2, <1>3, <1>4 DEF IntInv

-----------------------------------------------------------------------------
\* The machine as the BIOS leaves it.
LEMMA IntInitInv == IntInit => IntInv /\ Upper!SchedInit
<1> SUFFICES ASSUME IntInit PROVE IntInv /\ Upper!SchedInit
  OBVIOUS
<1>1. /\ SchedInit /\ pos = "idt_init" /\ stack = 0 /\ to = 0 /\ gates = {} /\ iflag = FALSE
      /\ pic = [irr |-> {}, isr |-> {}, unmasked |-> Lines, offset |-> 8]
      /\ ret = [p \in Pid |-> <<>>]
  BY DEF IntInit
<1>2. SchedTypeOK
  BY <1>1, Names DEF SchedInit, SchedTypeOK, State, Esp, Ctl
<1>3. IntTypes
  BY <1>1, <1>2, Names, EmptySeq DEF IntTypes, Controller, Place, Boot
<1>4. \A p \in Pid : Len(ret[p]) = 0
  BY <1>1, EmptySeq
<1>5. BootOrder /\ EveryVectorHasAGate /\ FlagAndService /\ NobodyWild
  BY <1>1 DEF BootOrder, EveryVectorHasAGate, FlagAndService, NobodyWild, SchedInit
<1>6. Frames
  BY <1>1, <1>4, Names DEF Frames, OnlyTailsNest
<1>7. Switch
  BY <1>1 DEF Switch, Switching, SchedInit
<1>8. Undone = state
  BY <1>1, <1>3, UndoneIs DEF Switching
<1>9. Upper!SchedInit
  BY <1>1, <1>8, Names DEF SchedInit, Upper!SchedInit
<1> QED BY <1>3, <1>5, <1>6, <1>7, <1>9 DEF IntInv

\* Every step of the machine is a step of the scheduler or one it does not see.
LEMMA IntStep ==
    ASSUME IntInv, Upper!SchedInv, [IntNext]_vars
    PROVE  IntInv' /\ [Upper!SchedNext]_(Upper!svars)
<1>1. CASE Boot_step
  BY <1>1, BootKeepsInv
<1>2. ASSUME NEW irq \in IRQ, raise(irq) PROVE IntInv' /\ UNCHANGED Upper!svars
  BY <1>2, RaiseKeepsInv
<1>3. ASSUME NEW irq \in IRQ, accept(irq) PROVE IntInv' /\ UNCHANGED Upper!svars
  BY <1>3, AcceptKeepsInv
<1>4. CASE tick_eoi \/ post_eoi \/ irq1_handler
  BY <1>4, HandlerKeepsInv
<1>5. CASE pick
  BY <1>5, PickSomebody, PickNobody DEF pick
<1>6. CASE promote \/ assign
  BY <1>6, StoreKeepsInv
<1>7. CASE context_switch
  BY <1>7, SwitchIsAStep
<1>8. CASE iret
  BY <1>8, IretKeepsInv
<1>9. ASSUME NEW p \in User, yield_cli(p) PROVE IntInv' /\ UNCHANGED Upper!svars
  BY <1>9, YieldCliKeepsInv
<1>10. CASE Process_step
  BY <1>10, CodeKeepsInv
<1>11. CASE UNCHANGED vars
  <2>1. UNCHANGED <<state, esp, current_pid, ctl, arg, pic, gates, iflag, pos, stack, to, ret>>
    BY <1>11 DEF vars, svars, ivars
  <2>2. Undone' = Undone
    BY <2>1 DEF Undone
  <2>3. Switch'
    BY <2>1, <2>2 DEF IntInv, Switch, Upper!Candidate
  <2>4. IntTypes' /\ BootOrder' /\ EveryVectorHasAGate' /\ FlagAndService' /\ Frames' /\ NobodyWild'
    BY <2>1 DEF IntInv, IntTypes, SchedTypeOK, BootOrder, EveryVectorHasAGate,
                FlagAndService, Frames, OnlyTailsNest, NobodyWild
  <2> QED BY <2>1, <2>2, <2>3, <2>4 DEF IntInv, Upper!svars
<1> QED BY <1>1, <1>2, <1>3, <1>4, <1>5, <1>6, <1>7, <1>8, <1>9, <1>10, <1>11
        DEF IntNext, Handler_step

\* What is proved of the scheduler carries over.
LEMMA IntAlways == IntSpec => []IntInv /\ []Upper!SchedInv /\ Upper!SchedSpec
<1>1. IntInit => IntInv /\ Upper!SchedInit /\ Upper!SchedInv
  BY IntInitInv, Upper!InitInv, SchedulerAssumption
<1>2. IntInv /\ Upper!SchedInv /\ [IntNext]_vars
        => IntInv' /\ [Upper!SchedNext]_(Upper!svars) /\ Upper!SchedInv'
  BY IntStep, Upper!NextInv, SchedulerAssumption
<1> QED BY <1>1, <1>2, PTL DEF IntSpec, Upper!SchedSpec

-----------------------------------------------------------------------------
(***************************************************************************)
(* How deep handlers nest.  One request may be latched when the bound is   *)
(* reached; the timer's is then taken before the CPU leaves the code it    *)
(* was raised in, so that only a key can come on top.                      *)
(***************************************************************************)
Shallow == \A p \in Pid : Len(ret[p]) < MAX_NEST

NestInv ==
    /\ IRQ \subseteq pic.unmasked
    /\ TIMER \in pic.irr => Shallow \/ pos \in {"code"} \cup Boot
    /\ \A p \in Pid : \/ Len(ret[p]) <= MAX_NEST
                      \/ /\ Len(ret[p]) = MAX_NEST + 1
                         /\ p = stack /\ pos \in {"irq1", "iret"} /\ iflag = FALSE

\* The numbers in it are integers.
LEMMA Depths ==
    ASSUME IntTypes
    PROVE  MAX_NEST \in Nat \ {0} /\ \A p \in Pid : ret[p] \in Seq(Place) /\ Len(ret[p]) \in Nat
BY InterruptAssumption, LenProperties DEF IntTypes

\* The CPU takes the timer's request before a key's.
LEMMA TimerFirst ==
    ASSUME IntInv, NestInv, iflag = TRUE
    PROVE  /\ Undisturbed => pic.irr \cap IRQ = {}
           /\ \A irq \in IRQ : Offered(irq) /\ TIMER \in pic.irr => irq = TIMER
<1>1. /\ pic.isr = {} /\ IRQ \subseteq pic.unmasked /\ pic.irr \subseteq IRQ
      /\ IRQ = {0, 1} /\ TIMER = 0
  BY DEF IntInv, IntTypes, Controller, FlagAndService, NestInv, IRQ, TIMER, KEYS
<1>2. ASSUME NEW irq \in IRQ, Offered(irq), TIMER \in pic.irr PROVE irq = TIMER
  BY <1>1, <1>2 DEF Offered
<1>3. ASSUME Undisturbed PROVE pic.irr \cap IRQ = {}
  <2>1. 0 \notin pic.irr
    BY <1>1, <1>3 DEF Undisturbed, Offered
  <2>2. 1 \notin pic.irr
    BY <1>1, <1>3, <2>1 DEF Undisturbed, Offered
  <2> QED BY <1>1, <2>1, <2>2
<1> QED BY <1>2, <1>3

\* Every step keeps it.
LEMMA NestStep ==
    ASSUME IntInv, IntInv', NestInv, [IntNext]_vars
    PROVE  NestInv'
<1> USE DEF Goto
<1>1. IntTypes /\ IntTypes' /\ FlagAndService /\ Frames
  BY DEF IntInv
<1>2. MAX_NEST \in Nat \ {0} /\ \A p \in Pid : Len(ret[p]) \in Nat
  BY <1>1, Depths
<1>3. pic \in Controller /\ stack \in Pid /\ ret \in [Pid -> Seq(Place)]
  BY <1>1 DEF IntTypes
<1>4. CASE Boot_step
  BY <1>3, <1>4 DEF Boot_step, idt_init, pic_init, idt_set_gate, boot_sti, NestInv, Shallow, Controller, Boot
<1>5. ASSUME NEW irq \in IRQ, raise(irq) PROVE NestInv'
  BY <1>3, <1>5 DEF raise, NestInv, Shallow, Controller, IRQ, TIMER, KEYS
<1>6. ASSUME NEW irq \in IRQ, accept(irq) PROVE NestInv'
  <2>1. /\ iflag = TRUE /\ iflag' = FALSE /\ stack' = stack
        /\ pic'.irr = pic.irr \ {irq} /\ pic'.unmasked = pic.unmasked
        /\ ret' = [ret EXCEPT ![stack] = Append(@, pos)] /\ pos \in Place
        /\ TIMER \in pic.irr => irq = TIMER
    BY <1>1, <1>3, <1>6, TimerFirst DEF accept, Controller, IntTypes
  <2>2. /\ Len(ret'[stack]) = Len(ret[stack]) + 1
        /\ \A p \in Pid \ {stack} : ret'[p] = ret[p]
    BY <1>3, <2>1, Pushed
  <2>3. pos \in {"code", "post", "iret"} /\ pic.isr = {} /\ pic.offset = 32 /\ gates = {32, 33}
    BY <1>6 DEF accept, IntInv, FlagAndService, BootOrder
  <2>4. CASE pos = "code"
    <3>1. Len(ret[stack]) = 0
      BY <1>1, <1>3, <2>4, EmptySeq DEF Frames
    <3> QED BY <1>2, <2>1, <2>2, <3>1 DEF NestInv
  <2>5. CASE pos # "code"
    <3>1. \A p \in Pid : Len(ret[p]) <= MAX_NEST
      BY <2>1 DEF NestInv
    <3>2. CASE Len(ret[stack]) < MAX_NEST
      BY <1>2, <2>1, <2>2, <3>1, <3>2 DEF NestInv
    <3>3. CASE Len(ret[stack]) = MAX_NEST
      <4>1. irq # TIMER
        BY <1>2, <1>3, <1>6, <2>3, <2>5, <3>3 DEF NestInv, Shallow, Boot, accept, Offered
      <4>2. pos' = "irq1"
        BY <1>6, <2>3, <4>1 DEF accept, IRQ, TIMER, KEYS
      <4> QED BY <1>2, <2>1, <2>2, <3>1, <3>3, <4>2 DEF NestInv
    <3> QED BY <1>2, <1>3, <3>1, <3>2, <3>3
  <2> QED BY <2>4, <2>5
<1>7. CASE tick_eoi \/ post_eoi \/ irq1_handler
  <2>1. pic'.irr = pic.irr /\ pic'.unmasked = pic.unmasked
    BY <1>3, <1>7 DEF tick_eoi, post_eoi, irq1_handler, pic_send_eoi, Controller
  <2> QED BY <1>7, <2>1 DEF tick_eoi, post_eoi, irq1_handler, NestInv, Shallow, Boot
<1>8. CASE pick \/ promote \/ assign
  BY <1>8 DEF pick, promote, assign, NestInv, Shallow, Boot
<1>9. CASE context_switch
  BY <1>9 DEF context_switch, NestInv, Shallow, Boot
<1>10. CASE iret
  <2>1. /\ pos = "iret" /\ UNCHANGED <<pic, stack>>
        /\ ret[stack] # <<>> /\ ret[stack] \in Seq(Place)
        /\ ret' = [ret EXCEPT ![stack] = SubSeq(@, 1, Len(@) - 1)]
    BY <1>1, <1>3, <1>10 DEF iret, Frames
  <2>2. /\ Len(ret'[stack]) = Len(ret[stack]) - 1
        /\ \A p \in Pid \ {stack} : ret'[p] = ret[p]
    BY <1>3, <2>1, Popped
  <2>3. \A p \in Pid : Len(ret'[p]) <= MAX_NEST /\ Len(ret'[p]) <= Len(ret[p])
    BY <1>2, <1>3, <2>1, <2>2 DEF NestInv
  <2> QED BY <1>2, <1>3, <2>1, <2>2, <2>3 DEF NestInv, Shallow, Boot
<1>11. ASSUME NEW p \in User, yield_cli(p) PROVE NestInv'
  <2>1. iflag = TRUE /\ Undisturbed /\ UNCHANGED <<pic, stack, ret>> /\ pos = "code"
    BY <1>1, <1>11 DEF yield_cli, FlagAndService
  <2>2. TIMER \notin pic.irr
    BY <2>1, TimerFirst DEF IRQ
  <2> QED BY <2>1, <2>2 DEF NestInv
<1>12. CASE Process_step \/ UNCHANGED vars
  BY <1>12 DEF Process_step, Code, ivars, vars, NestInv, Shallow
<1> QED BY <1>4, <1>5, <1>6, <1>7, <1>8, <1>9, <1>10, <1>11, <1>12 DEF IntNext, Handler_step

\* The controller, the flag and the place keep their types, and no stack of
\* frames grows beyond the bound: one request latched at the limit, the key's,
\* is all that can come on top of it.
THEOREM InterruptTypes == IntSpec => []IntTypeOK
<1>1. IntInit => NestInv
  <2> SUFFICES ASSUME IntInit PROVE NestInv
    OBVIOUS
  <2>1. \A p \in Pid : Len(ret[p]) = 0
    BY EmptySeq DEF IntInit
  <2> QED BY <2>1, InterruptAssumption DEF IntInit, NestInv, IRQ, TIMER, KEYS, Lines
<1>2. IntInv /\ IntInv' /\ NestInv /\ [IntNext]_vars => NestInv'
  BY NestStep
<1>3. ASSUME IntInv, NestInv PROVE IntTypeOK
  <2>1. IntTypes
    BY <1>3 DEF IntInv
  <2>2. \A p \in Pid : Len(ret[p]) <= MAX_NEST + 1
    BY <1>3, <2>1, Depths DEF NestInv
  <2> QED BY <2>1, <2>2 DEF IntTypes, IntTypeOK, Controller
<1> QED BY <1>1, <1>2, <1>3, IntAlways, PTL DEF IntSpec

\* No request ever meets an IDT entry that is not present, whenever the devices
\* raise it after idt_init: kernel_main's order of idt_init, pic_init and sti.
THEOREM GatesInPlace == IntSpec => []EveryVectorHasAGate
<1>1. IntInv => EveryVectorHasAGate
  BY DEF IntInv
<1> QED BY <1>1, IntAlways, PTL

\* The second end-of-interrupt of irq0_handler never ends an interrupt that
\* somebody else is handling.
THEOREM EoiEndsOwn == IntSpec => []InServiceIsMasked
<1>1. IntInv => InServiceIsMasked
  BY DEF IntInv, InServiceIsMasked, FlagAndService, IntTypes
<1> QED BY <1>1, IntAlways, PTL

\* Whenever an interrupt can be taken the process table is consistent.
THEOREM ConsistentAlways == IntSpec => []ConsistentWhenEnabled
<1>1. ASSUME IntInv, Upper!SchedInv PROVE ConsistentWhenEnabled
  <2> SUFFICES ASSUME iflag = TRUE PROVE current_pid = stack /\ OnlyCurrentRuns /\ KernelRunnable
    BY DEF ConsistentWhenEnabled, IntInv, IntTypes
  <2>1. pos \notin Switching
    BY <1>1 DEF IntInv, FlagAndService, Switching
  <2>2. Undone = state /\ current_pid = stack
    BY <1>1, <2>1, UndoneIs DEF IntInv, Switch, Switching
  <2> QED BY <1>1, <2>2, Names DEF Upper!SchedInv, Upper!OnlyCurrentRuns, OnlyCurrentRuns,
                          Upper!KernelRunnable, KernelRunnable
<1> QED BY <1>1, IntAlways, PTL

\* The machine implements the scheduler: pick_and_switch and context_switch,
\* store by store between cli and sti, are one step to everybody else.
THEOREM MachineImplementsScheduler == IntSpec => ImplementsScheduler
<1> USE DEF Upper!Pid, Upper!User, Upper!At, Upper!Candidate, Upper!FirstFree,
            Abstract!Pid, Abstract!User, Abstract!At, Abstract!Candidate, Abstract!FirstFree
<1>1. Upper!SchedInit => Abstract!SchedInit
  BY DEF Upper!SchedInit, Abstract!SchedInit
<1>2. Upper!SchedNext => Abstract!SchedNext
  <2>1. Upper!scheduler_tick => Abstract!scheduler_tick
    BY DEF Upper!scheduler_tick, Upper!pick_and_switch, Upper!SwitchTo, Upper!NoneReady, Upper!Crashed,
           Abstract!scheduler_tick, Abstract!pick_and_switch, Abstract!SwitchTo, Abstract!NoneReady, Abstract!Crashed
  <2>2. ASSUME NEW p PROVE Upper!scheduler_yield(p) => Abstract!scheduler_yield(p)
    BY DEF Upper!scheduler_yield, Upper!pick_and_switch, Upper!SwitchTo, Upper!NoneReady,
           Abstract!scheduler_yield, Abstract!pick_and_switch, Abstract!SwitchTo, Abstract!NoneReady
  <2>3. ASSUME NEW p, NEW q
        PROVE  /\ Upper!process_create(q) => Abstract!process_create(q)
               /\ Upper!process_create_esp => Abstract!process_create_esp
               /\ Upper!kill(q) => Abstract!kill(q)
               /\ Upper!thread_exit(p) => Abstract!thread_exit(p)
               /\ Upper!block(p) => Abstract!block(p)
               /\ Upper!scheduler_unblock_store(p) => Abstract!scheduler_unblock_store(p)
               /\ Upper!scheduler_unblock(p, q) => Abstract!scheduler_unblock(p, q)
    BY DEF Upper!process_create, Upper!process_create_esp, Upper!kill, Upper!thread_exit, Upper!block,
           Upper!scheduler_unblock_store, Upper!scheduler_unblock,
           Abstract!process_create, Abstract!process_create_esp, Abstract!kill, Abstract!thread_exit,
           Abstract!block, Abstract!scheduler_unblock_store, Abstract!scheduler_unblock
  <2> QED BY <2>1, <2>2, <2>3 DEF Upper!SchedNext, Abstract!SchedNext
<1>3. [Upper!SchedNext]_(Upper!svars) => [Abstract!SchedNext]_(Abstract!svars)
  BY <1>2 DEF Upper!svars, Abstract!svars
<1> QED BY <1>1, <1>3, IntAlways, PTL
        DEF ImplementsScheduler, Upper!SchedSpec, Abstract!SchedSpec
=============================================================================
