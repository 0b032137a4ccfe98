------------------------------- MODULE RwLock -------------------------------
(***************************************************************************)
(* `RwLock` of system/src/sync/rwlock.rs, one action per atomic access.    *)
(* Readers and writers wait on the same SignallingObject.                  *)
(***************************************************************************)
EXTENDS SignallingObject

VARIABLES
    data,    \* `RwLockInner::data`: LOCK_WRITE, or LOCK_COUNT per reader
    writes   \* writes[t]: the call t is in, or the guard it has, is a writer's

vars == <<signalVars, data, writes>>

LOCK_WRITE == 1
LOCK_COUNT == 2

\* check: released, about to load data and decide whether to signal.
TypeOK == /\ SignalTypeOK({"idle", "held", "check"})
          /\ data \in Nat
          /\ writes \in [Thread -> BOOLEAN]

Init == /\ SignalInit("idle")
        /\ data = 0
        /\ writes = [t \in Thread |-> FALSE]

\* read() and write() begin.
lock(t, w) ==
    /\ Goto(t, "idle", "try")
    /\ writes' = [writes EXCEPT ![t] = w]
    /\ UNCHANGED <<slot, counter, taken, data>>

\* The fetch_update of try_read and of try_write.
CanRead == data % LOCK_COUNT = 0
CanWrite == data = 0

Acquire(w) == data' = IF w THEN IF CanWrite THEN LOCK_WRITE ELSE data
                           ELSE IF CanRead THEN data + LOCK_COUNT ELSE data

Can(w) == IF w THEN CanWrite ELSE CanRead

\* Mutant: a writer only looks for other writers.
TryLockReadersIgnored(t) ==
    /\ Tried(t, CanRead, "held")
    /\ IF writes[t] /\ CanRead THEN data' = LOCK_WRITE ELSE Acquire(writes[t])
    /\ UNCHANGED <<slot, counter, taken, writes>>

\* try_read or try_write, called by wait_for.
TryLock(t) ==
    /\ Tried(t, Can(writes[t]), "held")
    /\ Acquire(writes[t])
    /\ UNCHANGED <<slot, counter, taken, writes>>

\* RwLock::try_read and RwLock::try_write.
try_lock(t, w) ==
    /\ Goto(t, "idle", IF Can(w) THEN "held" ELSE "idle")
    /\ Acquire(w)
    /\ writes' = [writes EXCEPT ![t] = w]
    /\ UNCHANGED <<slot, counter, taken>>

\* The guard is dropped.
read_unlock(t) ==
    /\ ~writes[t]
    /\ Goto(t, "held", "check")
    /\ data' = data - LOCK_COUNT
    /\ UNCHANGED <<slot, counter, taken, writes>>

write_unlock(t) ==
    /\ writes[t]
    /\ Goto(t, "held", "check")
    /\ data' = 0
    /\ UNCHANGED <<slot, counter, taken, writes>>

\* Nobody is signalled while somebody else has the lock.
Check(t) ==
    /\ Goto(t, "check", IF data = 0 THEN "take" ELSE "idle")
    /\ UNCHANGED <<slot, counter, taken, data, writes>>

Step(t) == \/ TryLock(t) \/ read_unlock(t) \/ write_unlock(t) \/ Check(t)
           \/ WaitStep(t) /\ UNCHANGED <<data, writes>>
           \/ Take(t, "idle") /\ UNCHANGED <<data, writes>>
           \/ Wake(t, "idle") /\ UNCHANGED <<data, writes>>

Next == \E t \in Thread : \/ \E w \in BOOLEAN : lock(t, w) \/ try_lock(t, w)
                          \/ Step(t)

Spec == Init /\ [][Next]_vars

-----------------------------------------------------------------------------
Readers == {t \in Thread : pc[t] = "held" /\ ~writes[t]}
Writers == {t \in Thread : pc[t] = "held" /\ writes[t]}

(* A writer is alone; otherwise `data` counts the readers.  The store(0) of *)
(* write_unlock therefore wipes out nobody's lock, and the fetch_sub of     *)
(* read_unlock never wraps around.                                          *)
WriterIsAlone ==
    /\ \A t, u \in Writers : t = u
    /\ Writers # {} => Readers = {}
    /\ data = IF Writers # {} THEN LOCK_WRITE ELSE LOCK_COUNT * Cardinality(Readers)
=============================================================================
