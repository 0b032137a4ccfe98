------------------------------- MODULE MCSync -------------------------------
(***************************************************************************)
(* The blocking primitives, event queues, spin locks, the executor, timers *)
(* and processes on small instances.  Each behaviour exercises one of them;*)
(* the others rest.  The primitives but the Mutex share the state of one   *)
(* SignallingObject.                                                       *)
(***************************************************************************)
EXTENDS Mutex, Timers, Processes, Spinlock, TLC

CONSTANTS t1, a, b, c,          \* a thread, and tasks
          MaxSignals, SemWakers, MaxPermits, MaxValue

VARIABLES
    unit,               \* the component that is exercised
    slot2, counter2, pc2, taken2,       \* the SignallingObject
    data, writes,       \* the RwLock
    count, fifo,        \* the value of a Semaphore; the wakers of an AsyncSemaphore
    signals, passes, raced, avalue, asignals, apasses, owed, apc,
    events, posting, passed, aevents, aposting, apassed,
    spawn_queue, task_queue, tasks, permits, hand, again

Rw == INSTANCE RwLock WITH slot <- slot2, counter <- counter2, pc <- pc2, taken <- taken2
Sem == INSTANCE Semaphore WITH slot <- slot2, counter <- counter2, pc <- pc2, taken <- taken2,
           SemTask <- {a, b, c}, value <- count
Exe == INSTANCE Executor WITH slot <- slot2, counter <- counter2, pc <- pc2, taken <- taken2,
           Ex <- t1, Task <- {a, b, c}, FirstTasks <- <<a, b>>, NoTask <- "none", value <- count

Ev == INSTANCE EventQueue WITH slot <- slot2, counter <- counter2, pc <- pc2, taken <- taken2,
          SemTask <- {a, b, c}, value <- count, EvReader <- t1, EvTask <- a, EvLimit <- 2

ASSUME Exe!ExecutorAssumption /\ Ev!EvAssumption

signal2 == <<slot2, counter2, pc2, taken2>>
rwVars == <<data, writes>>
countVars == <<count, fifo>>
onlySem == <<signals, passes, raced, avalue, asignals, apasses, owed, apc>>
onlyEv == <<events, posting, passed, aevents, aposting, apassed>>
evVars == <<signal2, countVars, onlySem, onlyEv>>
onlyExe == <<spawn_queue, task_queue, tasks, permits, hand, again>>
allVars == <<unit, vars, signal2, rwVars, countVars, onlySem, onlyEv, onlyExe, tmVars, prVars, spVars>>

-----------------------------------------------------------------------------
(* Two threads with a timer each, and two that join threads or the process  *)

Timed(kind, for) == [kind |-> kind, for |-> for]
Both(p, q) == "s1" :> p @@ "s2" :> q
TimerPlans ==
    {Both(Timed("OneShot", 2), Timed("OneShot", 1)), Both(Timed("OneShot", 0), Timed("Async", 1)),
     Both(Timed("Async", 0), Timed("OneShot", 2)), Both(Timed("Window", 1), Timed("Window", 1)),
     Both(Timed("Window", 2), Timed("OneShot", 1))}
JoinPlans == {("j1" :> p) @@ ("j2" :> q) : p \in {"c1", "c2"}, q \in {"c1", "proc"}}

\* Locks are taken in one order; the last plan drops them in the order it has
\* taken them.
OfLock(t, l) == [t |-> t, lock |-> l]
Nested == <<OfLock("lock", "A"), OfLock("lock", "B"), OfLock("drop", "B"), OfLock("drop", "A")>>
Tries == <<OfLock("try", "A"), OfLock("lock", "B"), OfLock("drop", "B"), OfLock("drop", "A")>>
Crossed == <<OfLock("lock", "A"), OfLock("lock", "B"), OfLock("drop", "A"), OfLock("drop", "B")>>
LockPlans == {("c1" :> p) @@ ("c2" :> q) : p \in {Nested, Tries}, q \in {Nested, Tries, Crossed}}
HandlerPlan == <<OfLock("lock", "A"), OfLock("drop", "A")>>

-----------------------------------------------------------------------------
Rests(name, same) == unit = name \/ same
RestsRw == data = 0 /\ writes = <<>>
RestsCount == count = 0 /\ fifo = <<>>
RestsSem ==
    /\ signals = 0 /\ passes = 0 /\ raced = {} /\ avalue = 0 /\ asignals = 0 /\ apasses = 0 /\ owed = 0
    /\ apc = <<>>
RestsEv == events = <<>> /\ posting = {} /\ passed = FALSE /\ aevents = <<>> /\ aposting = 0 /\ apassed = FALSE
RestsExe ==
    /\ spawn_queue = <<>> /\ task_queue = <<>> /\ tasks = {} /\ permits = 0 /\ hand = <<>> /\ again = FALSE

MCInit ==
    /\ unit \in {"mutex", "rwlock", "semaphore", "async", "events", "async events", "executor", "timers",
                "processes", "spin"}
    /\ TmInit /\ Rests("timers", tmPlan["s1"].for = 2 /\ tmPlan["s2"].kind = "OneShot" /\ tmPlan["s1"].kind = "OneShot")
    /\ PrInit /\ Rests("processes", prPlan["j1"] = "c1" /\ prPlan["j2"] = "c1")
    /\ SpInit /\ Rests("spin", spRun["c1"] = <<Context(Nested)>> /\ spRun["c2"] = <<Context(Nested)>>)
    /\ Init
    /\ CASE unit = "rwlock" -> Rw!Init /\ RestsCount /\ RestsSem /\ RestsEv /\ RestsExe
         [] unit \in {"semaphore", "async"} -> Sem!SemInit /\ RestsRw /\ RestsEv /\ RestsExe
         [] unit = "executor" -> Exe!Init /\ RestsRw /\ RestsSem /\ RestsEv
         [] unit \in {"events", "async events"} -> Ev!EvInit /\ RestsRw /\ RestsExe
         [] OTHER -> Rw!SignalInit("idle") /\ RestsRw /\ RestsCount /\ RestsSem /\ RestsEv /\ RestsExe

MCNext ==
    \/ unit = "mutex" /\ Next /\ UNCHANGED <<unit, signal2, rwVars, countVars, onlySem, onlyEv, onlyExe, tmVars, prVars, spVars>>
    \/ unit = "rwlock" /\ Rw!Next /\ UNCHANGED <<unit, vars, countVars, onlySem, onlyEv, onlyExe, tmVars, prVars, spVars>>
    \/ unit = "semaphore" /\ Sem!ThreadsNext /\ UNCHANGED <<unit, vars, rwVars, onlyEv, onlyExe, tmVars, prVars, spVars>>
    \/ unit = "async" /\ Sem!TasksNext /\ UNCHANGED <<unit, vars, rwVars, onlyEv, onlyExe, tmVars, prVars, spVars>>
    \/ unit = "events" /\ Ev!EventsNext /\ UNCHANGED <<unit, vars, rwVars, onlyExe, tmVars, prVars, spVars>>
    \/ unit = "async events" /\ Ev!AsyncEventsNext /\ UNCHANGED <<unit, vars, rwVars, onlyExe, tmVars, prVars, spVars>>
    \/ unit = "executor" /\ Exe!Next /\ UNCHANGED <<unit, vars, rwVars, onlySem, onlyEv, tmVars, prVars, spVars>>
    \/ unit = "timers" /\ TimersNext /\ UNCHANGED <<unit, vars, signal2, rwVars, countVars, onlySem, onlyEv, onlyExe, prVars, spVars>>
    \/ unit = "processes" /\ ProcessesNext
       /\ UNCHANGED <<unit, vars, signal2, rwVars, countVars, onlySem, onlyEv, onlyExe, tmVars, spVars>>
    \/ unit = "spin" /\ SpinNext
       /\ UNCHANGED <<unit, vars, signal2, rwVars, countVars, onlySem, onlyEv, onlyExe, tmVars, prVars>>

\* The scheduler runs every thread that is awake (AwakeRuns of Scheduler), and
\* no guard is kept for ever; time goes on and every processor is interrupted
\* by its timer.
MCFairness ==
    /\ \A t \in Thread : WF_vars(unit = "mutex" /\ Step(t))
    /\ \A t \in Thread : WF_<<signal2, rwVars>>(unit = "rwlock" /\ Rw!Step(t))
    /\ WF_evVars(unit = "events" /\ Ev!Reader)
    /\ \A t \in Thread : WF_evVars(unit = "events" /\ (Ev!PostSignal(t) \/ Ev!PostRest(t)))
    /\ WF_evVars(unit = "async events" /\ Ev!APostSignal) /\ WF_evVars(unit = "async events" /\ Ev!AReader)
    /\ \A p \in SpCpu : WF_spVars(unit = "spin" /\ SpStep(p))
    /\ WF_tmVars(unit = "timers" /\ Tick)
    /\ \A t \in TmThread : WF_tmVars(unit = "timers" /\ TmThreadStep(t))
    /\ \A p \in TmCpu : WF_tmVars(unit = "timers" /\ TmCpuStep(p))
    /\ WF_prVars(unit = "processes" /\ (LockPool \/ AddProcess \/ Spawn(PrFirst)))
    /\ \A t \in PrThread : WF_prVars(unit = "processes" /\ PrThreadStep(t))
    /\ \A j \in PrJoiner : WF_prVars(unit = "processes" /\ PrJoinStep(j))
    /\ WF_prVars(unit = "processes" /\ StatStep)

MCSpec == MCInit /\ [][MCNext]_allVars /\ MCFairness

-----------------------------------------------------------------------------
(* Properties *)

\* What the words of the locks say: the types of Mutex; for a RwLock its
\* types, WriterIsAlone and the wakes of its SignallingObject; for a SpinMutex
\* that it has one guard and that its holder is not interrupted.
LocksInv ==
    /\ TypeOK /\ SpinInv
    /\ unit = "rwlock" => Rw!TypeOK /\ Rw!WriterIsAlone /\ Rw!OneWakePerSleep

\* What a Semaphore and an AsyncSemaphore keep, which threads and tasks race
\* for, and the event queues on top of them: see modules Semaphore, EventQueue.
SemaphoresInv ==
    /\ unit \in {"semaphore", "async"} => Sem!SemaphoreInv /\ Sem!OneWakePerSleep
    /\ unit \in {"events", "async events"} => Ev!EventsInv /\ Sem!SemaphoreInv /\ Sem!OneWakePerSleep

\* What the executor and those who signal its tasks keep: see module Executor.
ExecutorsInv == unit = "executor" => Exe!ExecutorInv /\ Exe!OneWakePerSleep

\* What must come: a waiter registered while a lock is held is woken by the
\* release (of a RwLock, once threads stop taking it), which frees the lock
\* before it looks into the slot; every event reaches the reader, unless a
\* signal has missed it; every sleep on a timer, every join and every spin
\* ends.  Threads are alike, so one stands for all.
SyncProgress ==
    /\ (unit = "mutex" /\ slot = t1 /\ value) ~> slot # t1
    /\ <>[](data = 0) => ((unit = "rwlock" /\ slot2 = t1 /\ data # 0) ~> slot2 # t1)
    /\ []<>(unit \in {"events", "async events"} => Ev!EventsServed)
    /\ <>((unit = "timers" => TimersOver) /\ (unit = "processes" => JoinsOver) /\ (unit = "spin" => SpinOver))
=============================================================================
