------------------------------ MODULE Spinlock ------------------------------
(***************************************************************************)
(* `SpinMutex` of system/src/sync/spinlock.rs on the `Spinlock` and the    *)
(* `InterruptGuard` of arch/x64/hal_x64.rs.                                *)
(*                                                                         *)
(* A processor runs a thread, and when its interrupt flag is set a handler *)
(* may come in between any two steps; the thread goes on when the handler  *)
(* has returned.  Both take the same locks.  A guard saves the flag before *)
(* it clears it, and sets it again when it is dropped if it was set.       *)
(***************************************************************************)
EXTENDS Integers, Sequences, FiniteSets, SequencesExt

CONSTANTS SpCpu,        \* processors
          SpPlans,      \* for each processor, what its thread does with locks
          SpHandler     \* what an interrupt handler does with locks

VARIABLES spValue,      \* spValue[l]: `Spinlock::value`
          spIf,         \* spIf[p]: the interrupt flag
          spRun,        \* spRun[p]: the contexts, the running one last
          spLeft        \* interrupts still to come
spVars == <<spValue, spIf, spRun, spLeft>>

SpLocks == {"A", "B"}
SpOps == [t : {"lock", "try", "drop"}, lock : SpLocks]

\* A guard is dropped at the end of its scope at the latest.
DropsAll(plan) ==
    \A i \in 1..Len(plan) : plan[i].t # "drop" =>
        \E j \in (i + 1)..Len(plan) : plan[j].t = "drop" /\ plan[j].lock = plan[i].lock

ASSUME SpinAssumption ==
    /\ IsFiniteSet(SpCpu)
    /\ SpPlans \subseteq [SpCpu -> Seq(SpOps)]
    /\ SpHandler \in Seq(SpOps) /\ DropsAll(SpHandler)

\* A context: the steps it has left, where it is in the current one, the flag
\* saved for it, and the guards it holds with the flags they have saved.
Context(plan) == [plan |-> plan, at |-> "next", flag |-> FALSE, guards |-> <<>>]

SpInit ==
    /\ spValue = [l \in SpLocks |-> FALSE] /\ spIf = [p \in SpCpu |-> TRUE] /\ spLeft = Cardinality(SpCpu)
    /\ \E plan \in SpPlans : spRun = [p \in SpCpu |-> <<Context(plan[p])>>]

Now(p) == Last(spRun[p])
Becomes(p, c) == spRun' = [spRun EXCEPT ![p] = Append(Front(@), c)]
Holds(c, l) == \E i \in 1..Len(c.guards) : c.guards[i].lock = l

\* lock and try_lock: the guard is made first.
InterruptGuard(p) ==
    /\ Now(p).at = "next" /\ Now(p).plan # <<>> /\ Head(Now(p).plan).t \in {"lock", "try"}
    /\ Becomes(p, [Now(p) EXCEPT !.at = "cas", !.flag = spIf[p]])
    /\ spIf' = [spIf EXCEPT ![p] = FALSE] /\ UNCHANGED <<spValue, spLeft>>

\* compare_exchange; lock goes on until it succeeds, try_lock drops its guard.
Cas(p) ==
    /\ Now(p).at = "cas"
    /\ LET l == Head(Now(p).plan).lock
           now == Now(p)
       IN IF ~spValue[l]
          THEN /\ spValue' = [spValue EXCEPT ![l] = TRUE] /\ UNCHANGED spIf
               /\ Becomes(p, [now EXCEPT !.plan = Tail(@), !.at = "next",
                                       !.guards = Append(@, [lock |-> l, flag |-> now.flag])])
          ELSE /\ Head(now.plan).t = "try" /\ UNCHANGED spValue
               /\ Becomes(p, [now EXCEPT !.plan = Tail(@), !.at = "next"])
               /\ spIf' = [spIf EXCEPT ![p] = @ \/ now.flag]
    /\ UNCHANGED spLeft

\* SpinMutexGuard::drop unlocks, and then its field interrupt_guard is
\* dropped.  A lock that try_lock did not get is not dropped.
Unlocks(p) == Now(p).at = "next" /\ Now(p).plan # <<>> /\ Head(Now(p).plan).t = "drop"
ForceUnlock(p) ==
    /\ Unlocks(p) /\ UNCHANGED <<spIf, spLeft>>
    /\ LET l == Head(Now(p).plan).lock
       IN IF Holds(Now(p), l) THEN spValue' = [spValue EXCEPT ![l] = FALSE] /\ Becomes(p, [Now(p) EXCEPT !.at = "restore"])
          ELSE UNCHANGED spValue /\ Becomes(p, [Now(p) EXCEPT !.plan = Tail(@)])
RestoreFlag(p) ==
    /\ Now(p).at = "restore" /\ UNCHANGED <<spValue, spLeft>>
    /\ LET i == CHOOSE k \in 1..Len(Now(p).guards) : Now(p).guards[k].lock = Head(Now(p).plan).lock
       IN /\ spIf' = [spIf EXCEPT ![p] = @ \/ Now(p).guards[i].flag]
          /\ Becomes(p, [Now(p) EXCEPT !.plan = Tail(@), !.at = "next", !.guards = RemoveAt(@, i)])

\* An interrupt clears the flag; the return of the handler sets it again.
Interrupted(p) ==
    /\ spIf[p] /\ spLeft > 0 /\ spLeft' = spLeft - 1 /\ Len(spRun[p]) = 1
    /\ spIf' = [spIf EXCEPT ![p] = FALSE] /\ spRun' = [spRun EXCEPT ![p] = Append(@, Context(SpHandler))]
    /\ UNCHANGED spValue
HandlerReturns(p) ==
    /\ Len(spRun[p]) = 2 /\ Now(p).plan = <<>> /\ spRun' = [spRun EXCEPT ![p] = Front(@)]
    /\ spIf' = [spIf EXCEPT ![p] = TRUE] /\ UNCHANGED <<spValue, spLeft>>

SpStep(p) == InterruptGuard(p) \/ Cas(p) \/ ForceUnlock(p) \/ RestoreFlag(p) \/ HandlerReturns(p)
SpinNext == \E p \in SpCpu : SpStep(p) \/ Interrupted(p)
SpinSpec == SpInit /\ [][SpinNext]_spVars

-----------------------------------------------------------------------------
(* Properties *)

Contexts == UNION {{<<p, i>> : i \in 1..Len(spRun[p])} : p \in SpCpu}
ContextOf(c) == spRun[c[1]][c[2]]

\* A lock has one guard, and is locked while it has one; the guard whose lock
\* has been released and whose flag has not been restored does not count
\* (SpinMutexGuard).
OneGuard ==
    \A l \in SpLocks : LET held == {c \in Contexts : Holds(ContextOf(c), l)
                                      /\ ~(ContextOf(c).at = "restore" /\ Head(ContextOf(c).plan).lock = l)}
                       IN Cardinality(held) = IF spValue[l] THEN 1 ELSE 0

\* Guards that are dropped in another order than they were made set the flag
\* while a lock is still held.
InOrder(c) == \A i \in 2..Len(c.guards) : ~c.guards[i].flag
\* A thread with a lock is not interrupted as long as its guards nest, so a
\* handler never spins on a lock of the thread below it; and without guards
\* the flag is what it was before (InterruptGuard::drop).
NotInterrupted ==
    \A p \in SpCpu : InOrder(spRun[p][1]) /\ (spRun[p][1].guards # <<>> => spRun[p][1].guards[1].flag) =>
        /\ spRun[p][1].guards # <<>> => ~spIf[p] /\ Len(spRun[p]) = 1
        /\ Len(spRun[p]) = 1 /\ spRun[p][1].at = "next" /\ spRun[p][1].guards = <<>> => spIf[p]

SpinInv == OneGuard /\ NotInterrupted
\* Every lock has been taken and dropped; or guards were not dropped in the
\* reverse order and a thread was interrupted with a lock, for which another
\* processor may wait that holds the lock the handler wants.
SpinOver ==
    \/ \A p \in SpCpu : Len(spRun[p]) = 1 /\ spRun[p][1].plan = <<>>
    \/ \E p \in SpCpu : Len(spRun[p]) = 2 /\ spRun[p][1].guards # <<>>
=============================================================================
