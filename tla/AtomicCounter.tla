---------------------------- MODULE AtomicCounter ----------------------------
(***************************************************************************)
(* What "racem" promises: threads that each add 1 to a shared counter a    *)
(* fixed number of times, every addition indivisible.  There is no mutex,  *)
(* no scheduler and no lost update.                                        *)
(***************************************************************************)
EXTENDS Integers

CONSTANTS Thread,   \* the processes that may become counting threads
          ITERS     \* additions per thread

VARIABLES count,
          todo,     \* todo[t]: additions t has still to make
          started   \* the threads created so far

cvars == <<count, todo, started>>

CounterInit ==
    /\ count = 0
    /\ todo = [t \in Thread |-> 0]
    /\ started = {}

Start(t) ==
    /\ t \notin started
    /\ started' = started \cup {t}
    /\ todo' = [todo EXCEPT ![t] = ITERS]
    /\ UNCHANGED count

Increment(t) ==
    /\ todo[t] > 0
    /\ count' = count + 1
    /\ todo' = [todo EXCEPT ![t] = @ - 1]
    /\ UNCHANGED started

CounterNext == \E t \in Thread : Start(t) \/ Increment(t)

CounterSpec == CounterInit /\ [][CounterNext]_cvars
=============================================================================
