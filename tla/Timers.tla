------------------------------- MODULE Timers -------------------------------
(***************************************************************************)
(* The timer events of system/src/task/scheduler.rs.  They are kept sorted *)
(* under a spinlock; the earliest deadline is cached in `next_timer`, which*)
(* reschedule reads without the lock on every processor.                   *)
(*                                                                         *)
(* Plans say for how long each thread sleeps and in which way; the clock   *)
(* runs up to TmEnd.                                                       *)
(***************************************************************************)
EXTENDS Integers, Sequences, FiniteSets

CONSTANTS TmThread, TmCpu, TmPlans,
          TmStart, TmEnd, \* bounds of the clock: threads make their timers by TmStart
          TmQueue       \* messages that fit into the queue of a window

JUST == 0
FOREVER == 99
Free == "free"

ASSUME TimersAssumption ==
    /\ IsFiniteSet(TmThread) /\ Free \notin TmThread \cup TmCpu
    /\ TmPlans \subseteq [TmThread -> [kind : {"OneShot", "Async", "Window"}, for : Nat]]
    /\ TmStart \in Nat /\ TmEnd \in Nat /\ TmQueue \in Nat

VARIABLES
    tmPlan, tmNow,
    tmEvents,   \* `timer_events`: deadline, kind and owner
    tmNext,     \* `next_timer`
    tmLock,     \* who holds the lock of the events
    tmPc,       \* where each thread is in Timer::sleep
    tmCpuPc,    \* where each processor is in reschedule
    tmDue,      \* deadline of the timer a thread has made
    tmSleep,    \* `sleep_counter` of the threads
    tmMsgs,     \* timer messages in the queue of the window
    tmEnded     \* when the sleep of a thread was over
tmVars == <<tmPlan, tmNow, tmEvents, tmNext, tmLock, tmPc, tmCpuPc, tmDue, tmSleep, tmMsgs, tmEnded>>

TmInit ==
    /\ tmPlan \in TmPlans /\ tmNow = 1 /\ tmEvents = <<>> /\ tmNext = JUST /\ tmLock = Free
    /\ tmPc = [t \in TmThread |-> "start"] /\ tmCpuPc = [c \in TmCpu |-> "run"]
    /\ tmSleep = [t \in TmThread |-> 0] /\ tmDue = [t \in TmThread |-> 0] /\ tmMsgs = 0 /\ tmEnded = [t \in TmThread |-> 0]

\* Timer::is_alive.
IsAlive(deadline) == deadline # JUST /\ (deadline = FOREVER \/ deadline > tmNow)

Tick ==
    /\ tmNow < TmEnd /\ tmNow' = tmNow + 1
    /\ tmNow < TmStart \/ \A t \in TmThread : tmPc[t] # "start"
    /\ UNCHANGED <<tmPlan, tmEvents, tmNext, tmLock, tmPc, tmCpuPc, tmDue, tmSleep, tmMsgs, tmEnded>>

-----------------------------------------------------------------------------
(* Threads *)

Event(t) == [at |-> tmDue[t], kind |-> tmPlan[t].kind, who |-> t]
TmGo(t, from, to) == tmPc[t] = from /\ tmPc' = [tmPc EXCEPT ![t] = to]

\* Timer::new; a time that is over yields, or schedules all the same in
\* sleep_async.
NewTimer(t) ==
    /\ tmPc[t] = "start"
    /\ tmDue' = [tmDue EXCEPT ![t] = tmNow + tmPlan[t].for]
    /\ tmPc' = [tmPc EXCEPT ![t] = "alive"]
    /\ UNCHANGED <<tmPlan, tmNow, tmEvents, tmNext, tmLock, tmCpuPc, tmSleep, tmMsgs, tmEnded>>
StillAlive(t) ==
    /\ TmGo(t, "alive", IF IsAlive(tmDue[t]) \/ tmPlan[t].kind # "OneShot" THEN "schedule" ELSE "over")
    /\ tmEnded' = [tmEnded EXCEPT ![t] = IF tmPc'[t] = "over" THEN tmNow ELSE @]
    /\ UNCHANGED <<tmPlan, tmNow, tmEvents, tmNext, tmLock, tmCpuPc, tmDue, tmSleep, tmMsgs>>

\* sort_by_key is stable: an event comes after those that are due earlier, or
\* at the same time and were in front of it.
Rank(events, i) ==
    Cardinality({j \in 1..Len(events) :
        events[j].at < events[i].at \/ (events[j].at = events[i].at /\ j <= i)})
Sorted(events) == [k \in 1..Len(events) |-> events[CHOOSE i \in 1..Len(events) : Rank(events, i) = k]]

\* Mutant: the cache is only set if nothing is waiting.
EarlierIfEmpty(events, next) == IF events # <<>> /\ Len(events) = 1 /\ next > events[1].at THEN events[1].at ELSE next

Earlier(events, next) == IF events # <<>> /\ next > events[1].at THEN events[1].at ELSE next

\* _schedule_timer, under the lock.
ScheduleTimer(t) ==
    /\ tmLock = Free /\ TmGo(t, "schedule", "cache") /\ tmLock' = t
    /\ tmEvents' = Sorted(Append(tmEvents, Event(t)))
    /\ UNCHANGED <<tmPlan, tmNow, tmNext, tmCpuPc, tmDue, tmSleep, tmMsgs, tmEnded>>
CacheTimer(t) ==
    /\ tmLock = t /\ TmGo(t, "cache", IF tmPlan[t].kind = "Window" THEN "over" ELSE "sleep") /\ tmLock' = Free
    /\ tmNext' = Earlier(tmEvents, tmNext)
    /\ UNCHANGED <<tmPlan, tmNow, tmEvents, tmCpuPc, tmDue, tmSleep, tmMsgs, tmEnded>>

\* sleep_thread, or the first poll of the semaphore.
SleepTimer(t) ==
    /\ TmGo(t, "sleep", "asleep") /\ tmSleep' = [tmSleep EXCEPT ![t] = @ + 1]
    /\ UNCHANGED <<tmPlan, tmNow, tmEvents, tmNext, tmLock, tmCpuPc, tmDue, tmMsgs, tmEnded>>
Resume(t) ==
    /\ tmSleep[t] <= 0 /\ TmGo(t, "asleep", "over") /\ tmEnded' = [tmEnded EXCEPT ![t] = tmNow]
    /\ UNCHANGED <<tmPlan, tmNow, tmEvents, tmNext, tmLock, tmCpuPc, tmDue, tmSleep, tmMsgs>>
\* The window reads its messages at any time.
TakesMessage == tmMsgs > 0 /\ tmMsgs' = tmMsgs - 1 /\ UNCHANGED <<tmPlan, tmNow, tmEvents, tmNext, tmLock, tmPc, tmCpuPc, tmDue, tmSleep, tmEnded>>

-----------------------------------------------------------------------------
(* Processors *)

TmCpuGo(c, from, to) == tmCpuPc[c] = from /\ tmCpuPc' = [tmCpuPc EXCEPT ![c] = to]

NothingDue == IF tmEvents = <<>> THEN TRUE ELSE IsAlive(tmEvents[1].at)

\* reschedule reads the cache, takes the lock and fires what is due, one
\* event after the other; the queue of a window that is full panics.
ReadsCache(c) ==
    /\ ~IsAlive(tmNext) /\ TmCpuGo(c, "run", "lock")
    /\ UNCHANGED <<tmPlan, tmNow, tmEvents, tmNext, tmLock, tmPc, tmDue, tmSleep, tmMsgs, tmEnded>>
TakesLock(c) ==
    /\ tmLock = Free /\ TmCpuGo(c, "lock", "fire") /\ tmLock' = c
    /\ UNCHANGED <<tmPlan, tmNow, tmEvents, tmNext, tmPc, tmDue, tmSleep, tmMsgs, tmEnded>>
Fires(c) ==
    /\ tmLock = c /\ ~NothingDue /\ tmEvents' = Tail(tmEvents)
    /\ LET e == tmEvents[1]
       IN IF e.kind = "Window"
          THEN /\ TmCpuGo(c, "fire", IF tmMsgs < TmQueue THEN "fire" ELSE "panic")
               /\ tmMsgs' = (IF tmMsgs < TmQueue THEN tmMsgs + 1 ELSE tmMsgs) /\ UNCHANGED tmSleep
               /\ tmEnded' = [tmEnded EXCEPT ![e.who] = tmNow]
          ELSE /\ TmCpuGo(c, "fire", "fire") /\ tmSleep' = [tmSleep EXCEPT ![e.who] = @ - 1] /\ UNCHANGED <<tmMsgs, tmEnded>>
    /\ UNCHANGED <<tmPlan, tmNow, tmNext, tmLock, tmPc, tmDue>>
StoresNext(c) ==
    /\ tmLock = c /\ NothingDue /\ TmCpuGo(c, "fire", "run") /\ tmLock' = Free
    /\ tmNext' = (IF tmEvents = <<>> THEN FOREVER ELSE tmEvents[1].at)
    /\ UNCHANGED <<tmPlan, tmNow, tmEvents, tmPc, tmDue, tmSleep, tmMsgs, tmEnded>>

TmThreadStep(t) == NewTimer(t) \/ StillAlive(t) \/ ScheduleTimer(t) \/ CacheTimer(t) \/ SleepTimer(t) \/ Resume(t)
TmCpuStep(c) == ReadsCache(c) \/ TakesLock(c) \/ Fires(c) \/ StoresNext(c)
TimersNext == Tick \/ TakesMessage \/ (\E t \in TmThread : TmThreadStep(t)) \/ (\E c \in TmCpu : TmCpuStep(c))
TimersSpec == TmInit /\ [][TimersNext]_tmVars

-----------------------------------------------------------------------------
(* The cache is never later than the earliest event that is waiting, except *)
(* while the one who holds the lock is about to set it, so reschedule never *)
(* overlooks an event; and events are sorted.                               *)
CacheNotLate ==
    /\ \A i, j \in 1..Len(tmEvents) : i < j => tmEvents[i].at <= tmEvents[j].at
    /\ tmEvents # <<>> /\ tmLock = Free => tmNext <= tmEvents[1].at

(* A sleep never ends before its time, and each wake belongs to one sleep:  *)
(* what is owed to a thread is in the list exactly once.                    *)
SleepsInFull ==
    \A t \in TmThread :
        LET mine == {i \in 1..Len(tmEvents) : tmEvents[i].who = t}
        IN /\ tmEnded[t] # 0 => tmEnded[t] > tmPlan[t].for
           /\ Cardinality(mine) <= 1
           /\ tmPlan[t].kind # "Window" /\ tmPc[t] \in {"cache", "sleep"} => tmSleep[t] = Cardinality(mine) - 1
           /\ tmPlan[t].kind # "Window" /\ tmPc[t] = "asleep" => tmSleep[t] = Cardinality(mine)

(* A processor stops only at a window that has not read its messages.       *)
TmStops == \A c \in TmCpu : tmCpuPc[c] = "panic" => TmQueue < Cardinality({t \in TmThread : tmPlan[t].kind = "Window"})

(* Everything the timers keep.                                              *)
TimersInv == CacheNotLate /\ SleepsInFull /\ TmStops

(* Every sleep is over, unless a processor has stopped with the lock.       *)
TmStopped == \E c \in TmCpu : tmCpuPc[c] = "panic"
TimersOver == TmStopped \/ \A t \in TmThread : tmPc[t] = "over" /\ tmEnded[t] # 0
=============================================================================
