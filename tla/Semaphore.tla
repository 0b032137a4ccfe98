----------------------------- MODULE Semaphore -----------------------------
(***************************************************************************)
(* The counting semaphores of system/src/sync/semaphore.rs: `Semaphore`,   *)
(* on which threads wait through a SignallingObject, and `AsyncSemaphore`, *)
(* on which tasks wait through a queue of wakers.  One action per access   *)
(* to shared state.                                                        *)
(***************************************************************************)
EXTENDS SignallingObject, Sequences

CONSTANTS SemTask,      \* tasks that wait on the AsyncSemaphore
          SemWakers,    \* capacity of its queue of wakers
          MaxSignals    \* signals that are sent to each of the two

\* What the constants must satisfy.
SemAssumption == IsFiniteSet(SemTask) /\ SemWakers \in Nat

VARIABLES
    value,      \* `Semaphore::value`
    signals,    \* signals so far
    passes,     \* waits that have ended
    raced,      \* threads a signal has missed since they last tried
    avalue, asignals, apasses,   \* the same of the AsyncSemaphore
    owed,       \* its signals that have not looked into the queue yet
    fifo,       \* its wakers
    apc         \* apc[k]: where task k is in poll

asyncVars == <<avalue, asignals, apasses, owed, fifo, apc>>
semVars == <<signalVars, value, signals, passes, raced, asyncVars>>

SemInit ==
    /\ SignalInit("idle") /\ value = 0 /\ signals = 0 /\ passes = 0 /\ raced = {}
    /\ avalue = 0 /\ asignals = 0 /\ apasses = 0 /\ owed = 0 /\ fifo = <<>> /\ apc = [k \in SemTask |-> "poll"]

-----------------------------------------------------------------------------
(* Semaphore *)

wait(t) == Goto(t, "idle", "try") /\ UNCHANGED <<slot, counter, taken, value, signals, passes, raced, asyncVars>>

\* Mutant: the permit is not taken.
TryPermitFree(t) ==
    /\ Tried(t, value >= 1, "idle") /\ passes' = passes + (IF value >= 1 THEN 1 ELSE 0)
    /\ raced' = raced \ {t} /\ UNCHANGED <<slot, counter, taken, value, signals, asyncVars>>

\* try_lock, called by wait_for.
TryPermit(t) ==
    /\ Tried(t, value >= 1, "idle")
    /\ IF value >= 1 THEN value' = value - 1 /\ passes' = passes + 1 ELSE UNCHANGED <<value, passes>>
    /\ raced' = raced \ {t} /\ UNCHANGED <<slot, counter, taken, signals, asyncVars>>

\* signal: a permit more, and then whoever is in the slot is woken.
Signal(t) ==
    /\ signals < MaxSignals /\ Goto(t, "idle", "take")
    /\ value' = value + 1 /\ signals' = signals + 1
    /\ UNCHANGED <<slot, counter, taken, passes, raced, asyncVars>>
SignalTake(t) ==
    /\ Take(t, "idle") /\ raced' = raced \cup {u \in Thread : pc[u] \in {"reg", "timer"}}
    /\ UNCHANGED <<value, signals, passes, asyncVars>>
SemRest(t) == (WaitStep(t) \/ Wake(t, "idle")) /\ UNCHANGED <<value, signals, passes, raced, asyncVars>>

SemStep(t) == TryPermit(t) \/ SignalTake(t) \/ SemRest(t)

-----------------------------------------------------------------------------
(* AsyncSemaphore *)

SyncVars == <<signalVars, value, signals, passes, raced>>

\* poll: try_lock, and if it fails the waker is put into the queue.  The task
\* is not polled again before it has been woken.
Poll(k) ==
    /\ apc[k] = "poll"
    /\ IF avalue >= 1 THEN avalue' = avalue - 1 /\ apasses' = apasses + 1 /\ apc' = [apc EXCEPT ![k] = "ready"]
                      ELSE apc' = [apc EXCEPT ![k] = "enqueue"] /\ UNCHANGED <<avalue, apasses>>
    /\ UNCHANGED <<asignals, owed, fifo, SyncVars>>
EnqueueWaker(k) ==
    /\ apc[k] \in {"enqueue", "missed"}
    /\ IF Len(fifo) < SemWakers
       THEN fifo' = Append(fifo, k) /\ apc' = [apc EXCEPT ![k] = IF @ = "missed" THEN "lost" ELSE "pending"]
       ELSE apc' = [apc EXCEPT ![k] = "panic"] /\ UNCHANGED fifo
    /\ UNCHANGED <<avalue, asignals, apasses, owed, SyncVars>>

\* signal: a permit more, and then the first waker is woken; "missed" and
\* "lost" record that there was none.
ASignal ==
    /\ asignals < MaxSignals /\ avalue' = avalue + 1 /\ asignals' = asignals + 1 /\ owed' = owed + 1
    /\ UNCHANGED <<apasses, fifo, apc, SyncVars>>
WakeFirst ==
    /\ owed > 0 /\ owed' = owed - 1
    /\ IF fifo = <<>> THEN UNCHANGED fifo /\ apc' = [k \in SemTask |-> IF apc[k] = "enqueue" THEN "missed" ELSE apc[k]]
                      ELSE fifo' = Tail(fifo) /\ apc' = [apc EXCEPT ![Head(fifo)] = "poll"]
    /\ UNCHANGED <<avalue, asignals, apasses, SyncVars>>

\* The two semaphores have nothing in common: they are exercised apart.
ThreadsNext == \E t \in Thread : wait(t) \/ Signal(t) \/ SemStep(t)
TasksNext == (\E k \in SemTask : Poll(k) \/ EnqueueWaker(k)) \/ ASignal \/ WakeFirst
SemSpec == SemInit /\ [][ThreadsNext \/ TasksNext]_semVars

-----------------------------------------------------------------------------
(* Permits are neither made nor lost: what was signalled is either still in *)
(* the counter or has let one wait through (`fetch_update` of try_lock).    *)
PermitsKept == value + passes = signals /\ avalue + apasses = asignals

(* A thread is registered and asleep next to a free permit, with no signal  *)
(* under way, only if a signal came while it was between its last try and   *)
(* its registration: wait_for does not try again after it has registered,   *)
(* nor after a sleep on the timer (signal.rs:51).                           *)
StrandedOnlyByRace ==
    \A t \in Thread : slot = t /\ pc[t] = "asleep" /\ value > 0 /\ (\A u \in Thread : pc[u] # "take") => t \in raced

(* In the same way a task whose waker is in the queue next to a free permit *)
(* is one that a signal has missed, or is behind one of these; every waker  *)
(* is in the queue once, and the queue panics only when it is full.         *)
TasksInQueue ==
    /\ \A k \in SemTask : (apc[k] \in {"pending", "lost"}) <=> \E i \in 1..Len(fifo) : fifo[i] = k
    /\ \A i, j \in 1..Len(fifo) : fifo[i] = fifo[j] => i = j
    /\ fifo # <<>> /\ avalue > 0 /\ owed = 0 => \E k \in SemTask : apc[k] \in {"lost", "poll"}
    /\ (\E k \in SemTask : apc[k] = "panic") => Cardinality(SemTask) > SemWakers

(* Everything the semaphores keep.                                          *)
SemaphoreInv ==
    /\ SignalTypeOK({"idle"})
    /\ PermitsKept /\ StrandedOnlyByRace /\ TasksInQueue
=============================================================================
