------------------------------ MODULE MCOverflow ------------------------------
(***************************************************************************)
(* Instance of RaceDemo for TLC in which four threads of two racem's share *)
(* the mutex.  The behaviours of interest are long, so they are restricted *)
(* to those where the timer strikes when it matters: at a thread that has  *)
(* just taken the mutex while others are about to try, or that has read    *)
(* nwaiters in mutex_unlock and has not written it back.  A behaviour that *)
(* is left is still one of RaceDemo.                                       *)
(***************************************************************************)
EXTENDS RaceDemo

Ready(p) == state[p] = "READY"

\* p has taken the mutex, and another thread is ready to run into it.
Contended(p) == pc[p] = "own" /\ \E q \in User : Ready(q) /\ pc[q] = "lock"

\* p is in mutex_unlock, between its read of nwaiters and its write.
Stalled(p) == pc[p] = "check" /\ reg[p] > 1

TimerMatters(p) ==
    IF p = 0 THEN pc[0] = "prompt" /\ Len(typed) = MAX_COMMANDS
    ELSE \/ Contended(p) /\ (mutex.nwaiters = 0 \/ \E q \in User : Stalled(q))
         \/ Stalled(p) /\ \E q \in User : Ready(q)

\* nwaiters is read after the store to locked, as the source has it.
Guide ==
    /\ current_pid' # current_pid =>
         ctl[current_pid] = "yield" \/ TimerMatters(current_pid)
    /\ \A p \in User : pc[p] \in {"unlock", "release"} => reg'[p] = reg[p]

\* What decides how a behaviour goes on: neither the value that is counted nor
\* how many iterations are left.
Place ==
    <<state, ctl, arg, current_pid, mutex.locked, mutex.nwaiters, mutex.waiters, pc,
      [p \in Pid |-> IF pc[p] = "store" THEN 0 ELSE reg[p]], Len(typed)>>
=============================================================================
