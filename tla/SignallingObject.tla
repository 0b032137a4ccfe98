-------------------------- MODULE SignallingObject --------------------------
(***************************************************************************)
(* `SignallingObject` of system/src/sync/signal.rs, on which every blocking*)
(* primitive of the kernel is built: one slot that holds the handle of at  *)
(* most one waiting thread, and the loop `wait_for(f)` around it.          *)
(*                                                                         *)
(* The primitives extend this module and supply `f` and the release.  What *)
(* the scheduler does for sleeping and waking is abstracted to the         *)
(* sleep_counter, which module Scheduler shows to be sound.                *)
(***************************************************************************)
EXTENDS Integers, FiniteSets

CONSTANTS Thread, NoThread

ASSUME SignalAssumption == NoThread \notin Thread

VARIABLES
    slot,     \* `data`: the thread that is registered, if any
    counter,  \* counter[t]: the `sleep_counter` of a thread
    pc,       \* where each thread is in wait_for or signal
    taken     \* taken[t]: the handle that t has taken out and will wake

signalVars == <<slot, counter, pc, taken>>

\* try, retry: about to call f; reg: about to register; sleep: registered;
\* asleep: in sleep_thread; timer: in Timer::sleep; take, wake: in signal.
WaitPC == {"try", "retry", "reg", "sleep", "asleep", "timer"}
SignalPC == {"take", "wake"}

SignalTypeOK(otherPC) ==
    /\ slot \in Thread \cup {NoThread}
    /\ counter \in [Thread -> -1 .. 1]
    /\ pc \in [Thread -> WaitPC \cup SignalPC \cup otherPC]
    /\ taken \in [Thread -> Thread \cup {NoThread}]

SignalInit(startPC) ==
    /\ slot = NoThread
    /\ counter = [t \in Thread |-> 0]
    /\ pc = [t \in Thread |-> startPC]
    /\ taken = [t \in Thread |-> NoThread]

Goto(t, from, to) == pc[t] = from /\ pc' = [pc EXCEPT ![t] = to]

-----------------------------------------------------------------------------
(* wait_for *)

\* f() was called, at the head of the loop or after a wake, with this result.
Tried(t, ok, held) ==
    \/ Goto(t, "try", IF ok THEN held ELSE "reg")
    \/ Goto(t, "retry", IF ok THEN held ELSE "try")

\* sleep(): the compare_and_swap of the slot.
Register(t) ==
    /\ IF slot = NoThread
       THEN slot' = t /\ Goto(t, "reg", "sleep")
       ELSE UNCHANGED slot /\ Goto(t, "reg", "timer")
    /\ UNCHANGED <<counter, taken>>

\* Timer::sleep is over, after a time that grows from try to try.
TimerEnds(t) == Goto(t, "timer", "reg") /\ UNCHANGED <<slot, counter, taken>>

SleepThread(t) ==
    /\ Goto(t, "sleep", "asleep")
    /\ counter' = [counter EXCEPT ![t] = @ + 1]
    /\ UNCHANGED <<slot, taken>>

Woken(t) ==
    /\ counter[t] <= 0
    /\ Goto(t, "asleep", "retry")
    /\ UNCHANGED <<slot, counter, taken>>

-----------------------------------------------------------------------------
(* signal, after which the thread goes on at next. *)

\* Mutant: the handle is left in the slot.
TakeNoSwap(t, next) ==
    /\ Goto(t, "take", IF slot = NoThread THEN next ELSE "wake")
    /\ taken' = [taken EXCEPT ![t] = slot]
    /\ UNCHANGED <<slot, counter>>

Take(t, next) ==
    /\ Goto(t, "take", IF slot = NoThread THEN next ELSE "wake")
    /\ taken' = [taken EXCEPT ![t] = slot]
    /\ slot' = NoThread
    /\ UNCHANGED counter

Wake(t, next) ==
    /\ Goto(t, "wake", next)
    /\ counter' = [counter EXCEPT ![taken[t]] = @ - 1]
    /\ taken' = [taken EXCEPT ![t] = NoThread]
    /\ UNCHANGED slot

WaitStep(t) == Register(t) \/ TimerEnds(t) \/ SleepThread(t) \/ Woken(t)

-----------------------------------------------------------------------------
(* Properties of every user of the object *)

Wakers(t) == {u \in Thread : taken[u] = t}

\* Thread t has left its handle behind and has not been woken since.
Owed(t) == slot = t \/ Wakers(t) # {}

(* A registration and a wake correspond one to one.  The handle of a thread *)
(* that sleeps, or is about to, is in the slot or in the hand of exactly    *)
(* one waker, never in both; a thread that has been woken, or never slept,  *)
(* is in neither.  So no sleeper is out of every waker's reach, and no wake *)
(* is left over to end some later sleep of the thread (signal.rs, `sleep`,  *)
(* `take`, `signal`).                                                       *)
OneWakePerSleep == \A t \in Thread :
    /\ Owed(t) => /\ pc[t] \in {"sleep", "asleep"}
                  /\ Cardinality(Wakers(t)) = IF slot = t THEN 0 ELSE 1
    /\ counter[t] = (IF pc[t] = "asleep" THEN 1 ELSE 0)
                      - (IF pc[t] \in {"sleep", "asleep"} /\ ~Owed(t) THEN 1 ELSE 0)
=============================================================================
