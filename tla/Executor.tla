------------------------------ MODULE Executor ------------------------------
(***************************************************************************)
(* The cooperative executor of system/src/task/executor.rs: one thread     *)
(* that runs `Executor::run`, the tasks it polls, the `AsyncSemaphore`     *)
(* (semaphore.rs) on which they wait, and the threads and interrupt        *)
(* handlers that signal it, for example through `AsyncEventQueue::post`.   *)
(* The executor itself blocks on the counting `Semaphore` of its TaskQueue.*)
(*                                                                         *)
(* One action per atomic access; ConcurrentFifos are atomic queues.  There *)
(* are no more tasks than the shortest of them holds, the 16 wakers of an  *)
(* AsyncSemaphore, so TaskHeldOnce implies that no enqueue fails.          *)
(***************************************************************************)
EXTENDS SignallingObject, Sequences, Functions

CONSTANTS
    Ex,          \* the thread of the executor
    Task,        \* tasks
    FirstTasks,  \* those spawned before the executor runs, in order
    NoTask,
    MaxPermits,  \* bound: signals are given only below these values of the
    MaxValue     \*   AsyncSemaphore and of the executor's own semaphore

\* What the constants must satisfy.
ExecutorAssumption ==
    /\ IsFiniteSet(Thread) /\ Ex \in Thread /\ NoTask \notin Task
    /\ IsFiniteSet(Task) /\ Cardinality(Task) <= 16
    /\ FirstTasks \in Seq(Task) /\ IsInjective(FirstTasks)
    /\ MaxPermits \in Nat /\ MaxValue \in Nat

VARIABLES
    spawn_queue, task_queue,  \* Seq(Task)
    tasks,     \* the tasks the executor owns
    value,     \* the Semaphore of the TaskQueue
    permits,   \* the value of the AsyncSemaphore
    fifo,      \* its queue of wakers: the tasks they belong to
    hand,      \* hand[t]: the task that thread t is polling, inserting or waking
    again      \* the executor is in its second run_ready_task

queueVars == <<spawn_queue, task_queue, tasks>>
semVars == <<value, permits, fifo>>
vars == <<signalVars, queueVars, semVars, hand, again>>

\* pop, poll, defer: run_ready_task; drain, insert: spawn_internal;
\* wake_by_ref: an AsyncSemaphore::signal with a waker; inc: TaskQueue::push.
ExecutorPC == {"idle", "pop", "poll", "acquired", "defer", "drain", "insert",
               "dequeue", "wake_by_ref", "inc"}

TypeOK == /\ SignalTypeOK(ExecutorPC)
          /\ spawn_queue \in Seq(Task) /\ task_queue \in Seq(Task)
          /\ tasks \subseteq Task
          /\ value \in Nat
          /\ permits \in 0 .. MaxPermits
          /\ fifo \in Seq(Task)
          /\ hand \in [Thread -> Task \cup {NoTask}]
          /\ again \in BOOLEAN

Init ==
    /\ slot = NoThread
    /\ counter = [t \in Thread |-> 0]
    /\ pc = [t \in Thread |-> IF t = Ex THEN "pop" ELSE "idle"]
    /\ taken = [t \in Thread |-> NoThread]
    /\ spawn_queue = FirstTasks /\ task_queue = << >>
    /\ tasks = {}
    /\ value = 0 /\ permits = 0 /\ fifo = << >>
    /\ hand = [t \in Thread |-> NoTask]
    /\ again = FALSE

Hold(t, x) == hand' = [hand EXCEPT ![t] = x]

-----------------------------------------------------------------------------
(* run_ready_task *)

\* A task that is gone is skipped; without tasks the caller goes on.
Pop ==
    \/ /\ task_queue # << >>
       /\ LET x == Head(task_queue) IN
            /\ Goto(Ex, "pop", IF x \in tasks THEN "poll" ELSE "pop")
            /\ Hold(Ex, IF x \in tasks THEN x ELSE NoTask)
       /\ task_queue' = Tail(task_queue)
       /\ UNCHANGED again
    \/ /\ task_queue = << >>
       /\ Goto(Ex, "pop", IF again THEN "try" ELSE "drain")
       /\ again' = ~again
       /\ UNCHANGED <<hand, task_queue>>

PopTask == Pop /\ UNCHANGED <<slot, counter, taken, spawn_queue, tasks, semVars>>

\* AsyncSemaphore::poll: try_lock, and if it fails the waker is queued.
Poll ==
    /\ Goto(Ex, "poll", IF permits > 0 THEN "acquired" ELSE "defer")
    /\ permits' = IF permits > 0 THEN permits - 1 ELSE permits
    /\ UNCHANGED <<slot, counter, taken, queueVars, value, fifo, hand, again>>

\* Poll::Pending.
Defer ==
    /\ Goto(Ex, "defer", "pop")
    /\ fifo' = Append(fifo, hand[Ex])
    /\ Hold(Ex, NoTask)
    /\ UNCHANGED <<slot, counter, taken, queueVars, value, permits, again>>

\* The task may call Executor::spawn of its own executor, ...
Spawn(x) ==
    /\ pc[Ex] = "acquired"
    /\ x \notin tasks \cup Range(spawn_queue) \cup Range(task_queue)
    /\ spawn_queue' = Append(spawn_queue, x)
    /\ UNCHANGED <<signalVars, task_queue, tasks, semVars, hand, again>>

\* ... await the semaphore again, or be done: Poll::Ready.
Continue ==
    /\ Goto(Ex, "acquired", "poll")
    /\ UNCHANGED <<slot, counter, taken, queueVars, semVars, hand, again>>

Finish ==
    /\ Goto(Ex, "acquired", "pop")
    /\ tasks' = tasks \ {hand[Ex]}
    /\ Hold(Ex, NoTask)
    /\ UNCHANGED <<slot, counter, taken, spawn_queue, task_queue, semVars, again>>

-----------------------------------------------------------------------------
(* run: spawn_internal for every task in the spawn queue, then wait. *)

Drain ==
    /\ IF spawn_queue = << >>
       THEN Goto(Ex, "drain", "pop") /\ UNCHANGED <<spawn_queue, hand>>
       ELSE /\ Goto(Ex, "drain", "insert")
            /\ Hold(Ex, Head(spawn_queue))
            /\ spawn_queue' = Tail(spawn_queue)
    /\ UNCHANGED <<slot, counter, taken, task_queue, tasks, semVars, again>>

Insert ==
    /\ Goto(Ex, "insert", "inc")
    /\ tasks' = tasks \cup {hand[Ex]}
    /\ task_queue' = Append(task_queue, hand[Ex])
    /\ Hold(Ex, NoTask)
    /\ UNCHANGED <<slot, counter, taken, spawn_queue, semVars, again>>

\* Semaphore::try_lock, called by wait_for.
TryLock ==
    /\ Tried(Ex, value > 0, "pop")
    /\ value' = IF value > 0 THEN value - 1 ELSE value
    /\ UNCHANGED <<slot, counter, taken, queueVars, permits, fifo, hand, again>>

-----------------------------------------------------------------------------
(* AsyncSemaphore::signal by any other thread, and the TaskQueue::push of   *)
(* a waker and of spawn_internal.                                           *)

signal(t) ==
    /\ t # Ex
    /\ permits < MaxPermits /\ value < MaxValue
    /\ Goto(t, "idle", "dequeue")
    /\ permits' = permits + 1
    /\ UNCHANGED <<slot, counter, taken, queueVars, value, fifo, hand, again>>

\* Mutant: the waker stays in the queue.
DequeueWakerPeek(t) ==
    /\ IF fifo = << >>
       THEN Goto(t, "dequeue", "idle") /\ UNCHANGED hand
       ELSE Goto(t, "dequeue", "wake_by_ref") /\ Hold(t, Head(fifo))
    /\ UNCHANGED <<slot, counter, taken, queueVars, value, permits, fifo, again>>

DequeueWaker(t) ==
    /\ IF fifo = << >>
       THEN Goto(t, "dequeue", "idle") /\ UNCHANGED <<fifo, hand>>
       ELSE /\ Goto(t, "dequeue", "wake_by_ref")
            /\ Hold(t, Head(fifo))
            /\ fifo' = Tail(fifo)
    /\ UNCHANGED <<slot, counter, taken, queueVars, value, permits, again>>

wake_by_ref(t) ==
    /\ Goto(t, "wake_by_ref", "inc")
    /\ task_queue' = Append(task_queue, hand[t])
    /\ Hold(t, NoTask)
    /\ UNCHANGED <<slot, counter, taken, spawn_queue, tasks, semVars, again>>

\* Semaphore::signal.
Inc(t) ==
    /\ Goto(t, "inc", "take")
    /\ value' = value + 1
    /\ UNCHANGED <<slot, counter, taken, queueVars, permits, fifo, hand, again>>

\* Where a thread goes on after its push.
After(t) == IF t = Ex THEN "drain" ELSE "idle"

Signal(t) == \/ signal(t) \/ DequeueWaker(t) \/ wake_by_ref(t) \/ Inc(t)

SemStep(t) == \/ t = Ex /\ WaitStep(t)
              \/ Take(t, After(t))
              \/ Wake(t, After(t))

Next == \/ PopTask \/ Poll \/ Defer \/ Continue \/ Finish \/ Drain \/ Insert \/ TryLock
        \/ \E x \in Task : Spawn(x)
        \/ \E t \in Thread : Signal(t)
        \/ \E t \in Thread : SemStep(t) /\ UNCHANGED <<queueVars, semVars, hand, again>>

Spec == Init /\ [][Next]_vars
-----------------------------------------------------------------------------
(* Properties *)

Occurrences(s, x) == Cardinality({i \in DOMAIN s : s[i] = x})

\* The places from which task x will be polled, or polled again.
Holds(x) == Occurrences(spawn_queue, x) + Occurrences(task_queue, x)
              + Occurrences(fifo, x) + Cardinality({t \in Thread : hand[t] = x})

(* A task that is not done is in exactly one place: waiting to be inserted, *)
(* ready, being polled, represented by one waker, or in the hand of one     *)
(* signaller.  So no task drops out of sight, none is polled twice for one  *)
(* signal, and the ready queue never holds more entries than there are      *)
(* tasks: the `expect("task_queue full")` of wake_task cannot fail because  *)
(* of repeated wakes (executor.rs, `run_ready_task`, `wake_task`).          *)
TaskHeldOnce == \A x \in Task :
    Holds(x) = IF x \in tasks \cup Range(spawn_queue) \/ (pc[Ex] = "insert" /\ hand[Ex] = x)
               THEN 1 ELSE 0

\* The executor is in TaskQueue::wait.
Waiting == pc[Ex] \in WaitPC

(* The executor does not wait with work to do: whenever it is in wait and a *)
(* task is ready or was spawned, the semaphore is up or about to be.  spawn *)
(* does not signal, and run_ready_task takes tasks without taking permits:  *)
(* a task that spawns another while it runs the second time around still    *)
(* leaves the permit of its own wake behind (executor.rs, `run`).           *)
NothingStranded ==
    Waiting /\ (task_queue # << >> \/ spawn_queue # << >>) =>
        value > 0 \/ \E t \in Thread : pc[t] = "inc"

(* All that the executor keeps: its types, TaskHeldOnce, NothingStranded.   *)
ExecutorInv == TypeOK /\ TaskHeldOnce /\ NothingStranded
=============================================================================
