------------------------------- MODULE Mutex -------------------------------
(***************************************************************************)
(* `Mutex` of system/src/sync/mutex.rs and the `BinarySemaphore` of        *)
(* semaphore.rs under it, one action per atomic access.  On the target of  *)
(* the build, x86_64, compare_exchange_weak does not fail spuriously.      *)
(***************************************************************************)
EXTENDS SignallingObject

VARIABLE value   \* `BinarySemaphore::value`: the lock is taken

vars == <<signalVars, value>>

TypeOK == SignalTypeOK({"idle", "held"}) /\ value \in BOOLEAN

Init == SignalInit("idle") /\ value = FALSE

lock(t) == Goto(t, "idle", "try") /\ UNCHANGED <<slot, counter, taken, value>>

\* Mutant: the lock is taken whether it is free or not.
TryLockBlind(t) ==
    /\ Tried(t, TRUE, "held")
    /\ value' = TRUE
    /\ UNCHANGED <<slot, counter, taken>>

\* BinarySemaphore::try_lock, called by wait_for.
TryLock(t) ==
    /\ Tried(t, ~value, "held")
    /\ value' = TRUE
    /\ UNCHANGED <<slot, counter, taken>>

\* Mutex::try_lock.
try_lock(t) ==
    /\ Goto(t, "idle", IF value THEN "idle" ELSE "held")
    /\ value' = TRUE
    /\ UNCHANGED <<slot, counter, taken>>

\* Mutant: nobody is signalled.
force_unlockNoSignal(t) ==
    /\ Goto(t, "held", "idle")
    /\ value' = FALSE
    /\ UNCHANGED <<slot, counter, taken>>

\* The guard is dropped: the lock is free, then the waiter is signalled.
force_unlock(t) ==
    /\ Goto(t, "held", IF value THEN "take" ELSE "idle")
    /\ value' = FALSE
    /\ UNCHANGED <<slot, counter, taken>>

\* The steps of a thread in lock or unlock; a thread does not keep the lock.
Step(t) == \/ TryLock(t)
           \/ (WaitStep(t) \/ Take(t, "idle") \/ Wake(t, "idle")) /\ UNCHANGED value
           \/ force_unlock(t)

Next == \E t \in Thread : lock(t) \/ try_lock(t) \/ Step(t)

Spec == Init /\ [][Next]_vars

\* The scheduler runs every thread that is awake (AwakeRuns of Scheduler).
FairSpec == Spec /\ \A t \in Thread : WF_vars(Step(t))
-----------------------------------------------------------------------------
\* The threads between the acquisition and the release of the lock.
Holders == {t \in Thread : pc[t] = "held"}

(* At most one thread has a MutexGuard, and `value` says whether one has:   *)
(* neither a thread woken late nor one that was never asleep breaks in.     *)
MutualExclusion == /\ \A t, u \in Holders : t = u
                   /\ value <=> Holders # {}

(* lock() does not sleep for ever next to a lock that nobody holds: `A      *)
(* mutual exclusion primitive like std::sync::Mutex` (mutex.rs:10).         *)
FreeLockIsTaken == \A t \in Thread : []<>(value \/ pc[t] # "asleep")
=============================================================================
