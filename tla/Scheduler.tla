----------------------------- MODULE Scheduler -----------------------------
(***************************************************************************)
(* The SMP thread scheduler of system/src/task/scheduler.rs: per-CPU       *)
(* dispatching (`LocalScheduler`), the shared ready queues, the life of a  *)
(* thread from `spawn_thread` to `exit`, and the protocol between a thread *)
(* that goes to sleep and the one that wakes it.                           *)
(*                                                                         *)
(* One action per access to the state of a thread that other CPUs share.   *)
(* What a CPU does with interrupts disabled and out of sight of the others *)
(* is one step, and so is its choice of the next thread from the queues.   *)
(* The ready queues are the atomic queues of module FifoQueue.  IRQLs,     *)
(* statistics and thread names are left out.                               *)
(***************************************************************************)
EXTENDS Integers, Sequences, FiniteSets

CONSTANTS
    CPU, Thread,
    Idle,        \* stands for the idle thread of whichever CPU runs it
    Root,        \* the first thread, spawned by Scheduler::start
    Priority,    \* Priority[t], the `priority` of a thread
    QuantumOf,   \* QuantumOf[t], the default of its `quantum`
    CoreType,    \* CoreType[c], the `processor_type` of a CPU
    Hybrid,      \* is this a hybrid processor system?
    Exits,       \* the threads that call Scheduler::exit
    Modes,       \* the states that _statistics_thread chooses from
    MayFreeze,   \* is the system ever shut down?
    MaxArmed     \* bound: wake sources a thread has outstanding at a time

ASSUME SchedulerAssumption ==
    /\ Root \in Thread
    /\ Idle \notin Thread
    /\ CPU \cap Thread = {}
    /\ Priority \in [Thread -> {"Low", "Normal", "High", "Realtime"}]
    /\ QuantumOf \in [Thread -> Nat \ {0}]
    /\ CoreType \in [CPU -> {"Normal", "Sub", "Efficient", "EfficientSub"}]
    /\ Hybrid \in BOOLEAN
    /\ Exits \subseteq Thread
    /\ Modes \subseteq {"Normal", "Saving", "FullThrottle"}
    /\ MayFreeze \in BOOLEAN
    /\ MaxArmed \in Nat

VARIABLES
    pool,     \* the handles in THREAD_POOL
    queue,    \* queue_realtime and queue_normal (queue_urgent is never fed)
    queued,   \* queued[t]: ThreadAttribute::QUEUED
    counter,  \* counter[t]: `sleep_counter`
    quantum,  \* quantum[t]: what is left of its quantum
    stage,    \* stage[t]: how far t has come in its own code
    armed,    \* armed[t]: timer events and signalling objects that hold t
    current,  \* current[c]: `LocalScheduler::current`
    retired,  \* retired[c]: `LocalScheduler::retired`, Idle if it is None
    cpc,      \* cpc[c]: what CPU c is doing
    jpc, jt,  \* jpc[a], jt[a]: step and subject of the wake, add or retire
              \*   that actor a is in the middle of
    sstate,   \* SCHEDULER_STATE
    frozen    \* `is_frozen`

threadVars == <<queued, counter, quantum, stage, armed>>
cpuVars == <<current, retired, cpc>>
modeVars == <<sstate, frozen>>
vars == <<pool, queue, threadVars, cpuVars, jpc, jt, modeVars>>

\* A wake runs in a thread or in an interrupt handler, a retire in a CPU.
Actor == CPU \cup Thread

Class == {"realtime", "normal"}
Stage == {"none", "body", "armed", "exit", "zombie", "ended"}
CpuPC == {"run", "irq", "pick", "sw", "ret", "panic"}
JobPC == {"none", "w_get", "w_dec", "add", "set", "enq",
          "r_clear", "r_zombie", "r_asleep"}

TypeOK ==
    /\ pool \subseteq Thread
    /\ queue \in [Class -> Seq(Thread)]
    /\ queued \in [Thread -> BOOLEAN]
    /\ counter \in [Thread -> Int]
    /\ quantum \in [Thread -> Nat]
    /\ stage \in [Thread -> Stage]
    /\ armed \in [Thread -> 0 .. MaxArmed]
    /\ current \in [CPU -> Thread \cup {Idle}]
    /\ retired \in [CPU -> Thread \cup {Idle}]
    /\ cpc \in [CPU -> CpuPC]
    /\ jpc \in [Actor -> JobPC]
    /\ jt \in [Actor -> Thread \cup {Idle}]
    /\ sstate \in {"Normal", "Saving", "FullThrottle"}
    /\ frozen \in BOOLEAN

\* The priority of whatever a CPU runs.
PriorityOf(x) == IF x = Idle THEN "Idle" ELSE Priority[x]

\* The queue that `_enqueue` chooses for a thread.
ClassOf(t) == IF Priority[t] = "Realtime" THEN "realtime" ELSE "normal"

\* attribute.contains(ZOMBIE): set by exit and never cleared.
IsZombie(t) == stage[t] \in {"zombie", "ended"}

is_normal_processor(c) == CoreType[c] \in {"Normal", "Efficient"}
is_efficient_processor(c) == CoreType[c] \in {"Efficient", "EfficientSub"}

\* Mutant: in the saving state only efficient cores run, hybrid or not.
is_stalled_processorNoHybrid(c) ==
    \/ frozen
    \/ sstate = "Saving" /\ ~(is_normal_processor(c) /\ is_efficient_processor(c))
    \/ sstate = "Normal" /\ ~is_normal_processor(c)

is_stalled_processor(c) ==
    \/ frozen
    \/ /\ sstate = "Saving"
       /\ ~(is_normal_processor(c) /\ (Hybrid => is_efficient_processor(c)))
    \/ sstate = "Normal" /\ ~is_normal_processor(c)

-----------------------------------------------------------------------------
\* Scheduler::start has created the idle threads and spawned the first thread.
Init ==
    /\ pool = {Root}
    /\ queue = [k \in Class |-> IF k = ClassOf(Root) THEN <<Root>> ELSE << >>]
    /\ queued = [t \in Thread |-> t = Root]
    /\ counter = [t \in Thread |-> 0]
    /\ quantum = QuantumOf
    /\ stage = [t \in Thread |-> IF t = Root THEN "body" ELSE "none"]
    /\ armed = [t \in Thread |-> 0]
    /\ current = [c \in CPU |-> Idle]
    /\ retired = [c \in CPU |-> Idle]
    /\ cpc = [c \in CPU |-> "run"]
    /\ jpc = [a \in Actor |-> "none"]
    /\ jt = [a \in Actor |-> Idle]
    /\ sstate = "FullThrottle"
    /\ frozen = FALSE

-----------------------------------------------------------------------------
(* What a running thread does.  t runs on c with interrupts enabled and is *)
(* not in the middle of waking another thread.                             *)

Runs(c, t) == cpc[c] = "run" /\ current[c] = t /\ jpc[t] = "none"

SetStage(t, from, to) == stage[t] = from /\ stage' = [stage EXCEPT ![t] = to]

\* The thread leaves its handle where a waker will find it: a timer event
\* (Timer::sleep) or a signalling object (SignallingObject::sleep).  The next
\* thing it does is Scheduler::sleep_thread.
Arm(c, t) ==
    /\ Runs(c, t)
    /\ SetStage(t, "body", "armed")
    /\ armed[t] < MaxArmed
    /\ armed' = [armed EXCEPT ![t] = @ + 1]
    /\ UNCHANGED <<pool, queue, queued, counter, quantum, cpuVars, jpc, jt, modeVars>>

sleep_thread(c, t) ==
    /\ Runs(c, t)
    /\ t \in pool
    /\ \/ SetStage(t, "armed", "body")
       \/ SetStage(t, "zombie", "ended")
    /\ counter' = [counter EXCEPT ![t] = @ + 1]
    /\ cpc' = [cpc EXCEPT ![c] = "pick"]
    /\ UNCHANGED <<pool, queue, queued, quantum, armed, current, retired, jpc, jt, modeVars>>

\* Timer::sleep of a duration that is already over only yields.
yield_thread(c, t) ==
    /\ Runs(c, t)
    /\ stage[t] = "body"
    /\ cpc' = [cpc EXCEPT ![c] = "pick"]
    /\ UNCHANGED <<pool, queue, threadVars, current, retired, jpc, jt, modeVars>>

\* exit() yields first; when it runs again it signals whoever joins the thread
\* (WakeBegin), marks the thread and sleeps for good.
ExitBegin(c, t) ==
    /\ Runs(c, t)
    /\ t \in Exits
    /\ SetStage(t, "body", "exit")
    /\ cpc' = [cpc EXCEPT ![c] = "pick"]
    /\ UNCHANGED <<pool, queue, queued, counter, quantum, armed, current, retired,
                   jpc, jt, modeVars>>

ExitZombie(c, t) ==
    /\ Runs(c, t)
    /\ SetStage(t, "exit", "zombie")
    /\ UNCHANGED <<pool, queue, queued, counter, quantum, armed, cpuVars, jpc, jt, modeVars>>

Begin(a, pc, u) == /\ jpc' = [jpc EXCEPT ![a] = pc]
                   /\ jt' = [jt EXCEPT ![a] = u]

\* spawn_thread: the context enters the pool, then Scheduler::add.
spawn_thread(c, t, u) ==
    /\ Runs(c, t)
    /\ stage[t] = "body"
    /\ SetStage(u, "none", "body")
    /\ pool' = pool \cup {u}
    /\ Begin(t, "add", u)
    /\ UNCHANGED <<queue, queued, counter, quantum, armed, cpuVars, modeVars>>

-----------------------------------------------------------------------------
(* ThreadHandle::wake and Scheduler::add, in a thread or in an interrupt   *)
(* handler.  A thread can be preempted between any two of these steps.     *)

MayWake(a) ==
    \/ \E c \in CPU : a = c /\ cpc[c] = "irq" /\ jpc[c] = "none"
    \/ \E c \in CPU : a \in Thread /\ Runs(c, a) /\ stage[a] \in {"body", "exit"}

\* A timer event is removed and fired, or a signalling object is taken.
WakeBegin(a, u) ==
    /\ MayWake(a)
    /\ armed[u] > 0
    /\ armed' = [armed EXCEPT ![u] = @ - 1]
    /\ Begin(a, "w_get", u)
    /\ UNCHANGED <<pool, queue, queued, counter, quantum, stage, cpuVars, modeVars>>

\* Actor a is executing the job it has begun.
Executing(a) ==
    \/ \E c \in CPU : a = c /\ cpc[c] \in {"irq", "ret"}
    \/ \E c \in CPU : a \in Thread /\ cpc[c] = "run" /\ current[c] = a

JobStep(a, from, to) ==
    /\ Executing(a)
    /\ jpc[a] = from
    /\ jpc' = [jpc EXCEPT ![a] = to]
    /\ jt' = [jt EXCEPT ![a] = IF to = "none" THEN Idle ELSE @]

\* Mutant: a thread that is QUEUED is taken to be awake already.
WakeGetIfNotQueued(a) ==
    /\ JobStep(a, "w_get", IF jt[a] \in pool /\ ~queued[jt[a]] THEN "w_dec" ELSE "none")
    /\ UNCHANGED <<pool, queue, threadVars, cpuVars, modeVars>>

WakeGet(a) ==
    /\ JobStep(a, "w_get", IF jt[a] \in pool THEN "w_dec" ELSE "none")
    /\ UNCHANGED <<pool, queue, threadVars, cpuVars, modeVars>>

WakeDec(a) ==
    /\ JobStep(a, "w_dec", "add")
    /\ counter' = [counter EXCEPT ![jt[a]] = @ - 1]
    /\ UNCHANGED <<pool, queue, queued, quantum, stage, armed, cpuVars, modeVars>>

\* Mutant: the thread is queued without a look at QUEUED.
AddCheckNoFetchSet(a) ==
    /\ jt[a] \in pool
    /\ JobStep(a, "add", IF IsZombie(jt[a]) THEN "none" ELSE "enq")
    /\ UNCHANGED <<pool, queue, threadVars, cpuVars, modeVars>>

AddCheck(a) ==
    /\ jt[a] \in pool
    /\ JobStep(a, "add", IF IsZombie(jt[a]) THEN "none" ELSE "set")
    /\ UNCHANGED <<pool, queue, threadVars, cpuVars, modeVars>>

\* Mutant: the result of fetch_set is ignored.
FetchSetIgnored(a) ==
    /\ JobStep(a, "set", "enq")
    /\ queued' = [queued EXCEPT ![jt[a]] = TRUE]
    /\ UNCHANGED <<pool, queue, counter, quantum, stage, armed, cpuVars, modeVars>>

\* attribute.fetch_set(QUEUED), of add and of retire: whoever sets the bit
\* puts the thread in its queue.
FetchSet(a) ==
    /\ JobStep(a, "set", IF queued[jt[a]] THEN "none" ELSE "enq")
    /\ queued' = [queued EXCEPT ![jt[a]] = TRUE]
    /\ UNCHANGED <<pool, queue, counter, quantum, stage, armed, cpuVars, modeVars>>

_enqueue(a) ==
    /\ jt[a] \in pool
    /\ JobStep(a, "enq", "none")
    /\ queue' = [queue EXCEPT ![ClassOf(jt[a])] = Append(@, jt[a])]
    /\ UNCHANGED <<pool, threadVars, cpuVars, modeVars>>

-----------------------------------------------------------------------------
(* Dispatching *)

\* A timer tick or a reschedule IPI: interrupts are now disabled.
Interrupt(c) ==
    /\ cpc[c] = "run"
    /\ cpc' = [cpc EXCEPT ![c] = "irq"]
    /\ UNCHANGED <<pool, queue, threadVars, current, retired, jpc, jt, modeVars>>

\* switch_context up to the store of `current`.
SwitchTo(c, n) ==
    IF n = current[c]
    THEN cpc' = [cpc EXCEPT ![c] = "run"] /\ UNCHANGED <<current, retired>>
    ELSE /\ retired' = [retired EXCEPT ![c] = current[c]]
         /\ current' = [current EXCEPT ![c] = n]
         /\ cpc' = [cpc EXCEPT ![c] = "sw"]

SwitchToHead(c, k) == /\ queue[k] # << >>
                      /\ queue' = [queue EXCEPT ![k] = Tail(@)]
                      /\ SwitchTo(c, Head(queue[k]))

\* _next_thread and the switch to what it returns.
SwitchToNext(c, default) ==
    \/ is_stalled_processor(c) /\ SwitchTo(c, Idle) /\ UNCHANGED queue
    \/ ~is_stalled_processor(c) /\ SwitchToHead(c, "realtime")
    \/ /\ ~is_stalled_processor(c)
       /\ queue["realtime"] = << >>
       /\ SwitchToHead(c, "normal")
    \/ /\ ~is_stalled_processor(c)
       /\ queue["realtime"] = << >> /\ queue["normal"] = << >>
       /\ SwitchTo(c, default)
       /\ UNCHANGED queue

\* The rest of sleep_thread and yield_thread.
PickNext(c) ==
    /\ cpc[c] = "pick"
    /\ current[c] \in pool
    /\ SwitchToNext(c, Idle)
    /\ UNCHANGED <<pool, threadVars, jpc, jt, modeVars>>

\* The rest of Scheduler::reschedule, once the expired timers have fired.
InReschedule(c) == cpc[c] = "irq" /\ jpc[c] = "none" /\ current[c] \in pool \cup {Idle}

ReschedFrozen(c) ==
    /\ InReschedule(c)
    /\ \/ frozen
       \/ /\ PriorityOf(current[c]) # "Realtime"
          /\ is_stalled_processor(c)
    /\ SwitchTo(c, Idle)
    /\ UNCHANGED <<pool, queue, threadVars, jpc, jt, modeVars>>

\* Mutant: the test for a realtime thread comes before the test for a freeze.
ReschedRealtimeFirst(c) ==
    /\ InReschedule(c)
    /\ PriorityOf(current[c]) = "Realtime"
    /\ cpc' = [cpc EXCEPT ![c] = "run"]
    /\ UNCHANGED <<pool, queue, threadVars, current, retired, jpc, jt, modeVars>>

\* A realtime thread is never preempted.
ReschedRealtime(c) ==
    /\ InReschedule(c)
    /\ ~frozen
    /\ PriorityOf(current[c]) = "Realtime"
    /\ cpc' = [cpc EXCEPT ![c] = "run"]
    /\ UNCHANGED <<pool, queue, threadVars, current, retired, jpc, jt, modeVars>>

Preemptible(c) == /\ InReschedule(c)
                  /\ ~is_stalled_processor(c)
                  /\ PriorityOf(current[c]) # "Realtime"

BelowNormal(c) == PriorityOf(current[c]) \in {"Idle", "Low"}

ReschedPreempt(c) ==
    /\ Preemptible(c)
    /\ \/ SwitchToHead(c, "realtime")
       \/ /\ queue["realtime"] = << >>
          /\ BelowNormal(c)
          /\ SwitchToHead(c, "normal")
    /\ UNCHANGED <<pool, threadVars, jpc, jt, modeVars>>

\* Mutant: a quantum that is used up is not reset.
ReschedQuantumNoReset(c) ==
    /\ Preemptible(c)
    /\ queue["realtime"] = << >>
    /\ BelowNormal(c) => queue["normal"] = << >>
    /\ quantum' = [t \in Thread |-> IF t = current[c] THEN quantum[t] - 1 ELSE quantum[t]]
    /\ SwitchToNext(c, current[c])
    /\ UNCHANGED <<pool, queued, counter, stage, armed, jpc, jt, modeVars>>

\* Nothing urgent is ready: the thread uses up its quantum.  The quantum of
\* an idle thread is 1, so it is used up at every tick.
ReschedQuantum(c) ==
    /\ Preemptible(c)
    /\ queue["realtime"] = << >>
    /\ BelowNormal(c) => queue["normal"] = << >>
    /\ IF current[c] \in Thread /\ quantum[current[c]] > 1
       THEN /\ quantum' = [quantum EXCEPT ![current[c]] = @ - 1]
            /\ cpc' = [cpc EXCEPT ![c] = "run"]
            /\ UNCHANGED <<queue, current, retired>>
       ELSE /\ quantum' = [t \in Thread |-> IF t = current[c] THEN QuantumOf[t]
                                                              ELSE quantum[t]]
            /\ SwitchToNext(c, current[c])
    /\ UNCHANGED <<pool, queued, counter, stage, armed, jpc, jt, modeVars>>

\* The registers are saved and loaded; CPU c now runs on the stack of its new
\* current thread and, in _switch_context_after, retires the old one.
ContextSwitch(c) ==
    /\ cpc[c] = "sw"
    /\ {current[c], retired[c]} \subseteq pool \cup {Idle}
    /\ cpc' = [cpc EXCEPT ![c] = "ret"]
    /\ Begin(c, "r_clear", retired[c])
    /\ retired' = [retired EXCEPT ![c] = Idle]
    /\ UNCHANGED <<pool, queue, threadVars, current, modeVars>>

-----------------------------------------------------------------------------
(* Scheduler::retire *)

RetireClear(c) ==
    /\ jt[c] \in pool \cup {Idle}
    /\ JobStep(c, "r_clear", IF jt[c] = Idle THEN "none" ELSE "r_zombie")
    /\ queued' = [t \in Thread |-> queued[t] /\ t # jt[c]]
    /\ UNCHANGED <<pool, queue, counter, quantum, stage, armed, cpuVars, modeVars>>

RetireZombie(c) ==
    /\ JobStep(c, "r_zombie", IF IsZombie(jt[c]) THEN "none" ELSE "r_asleep")
    /\ pool' = IF IsZombie(jt[c]) THEN pool \ {jt[c]} ELSE pool
    /\ UNCHANGED <<queue, threadVars, cpuVars, modeVars>>

\* Mutant: is_asleep() tests for a counter other than zero.
RetireAsleepNotZero(c) ==
    /\ JobStep(c, "r_asleep", IF counter[jt[c]] # 0 THEN "none" ELSE "set")
    /\ UNCHANGED <<pool, queue, threadVars, cpuVars, modeVars>>

RetireAsleep(c) ==
    /\ JobStep(c, "r_asleep", IF counter[jt[c]] > 0 THEN "none" ELSE "set")
    /\ UNCHANGED <<pool, queue, threadVars, cpuVars, modeVars>>

\* lower_irql, and the new current thread goes on where it had left off.
Resume(c) ==
    /\ cpc[c] = "ret" /\ jpc[c] = "none"
    /\ cpc' = [cpc EXCEPT ![c] = "run"]
    /\ UNCHANGED <<pool, queue, threadVars, current, retired, jpc, jt, modeVars>>

-----------------------------------------------------------------------------
(* Modes and faults *)

\* _statistics_thread moves between the states by load; it leaves full
\* throttle through Normal only.
set_current_state(s) ==
    /\ s # sstate
    /\ sstate = "FullThrottle" => s # "Saving"
    /\ sstate' = s
    /\ UNCHANGED <<pool, queue, threadVars, cpuVars, jpc, jt, frozen>>

\* Called on shutdown.
freeze ==
    /\ MayFreeze /\ ~frozen
    /\ frozen' = TRUE
    /\ UNCHANGED <<pool, queue, threadVars, cpuVars, jpc, jt, sstate>>

\* The handles that the next step of CPU c resolves with as_ref().unwrap().
Resolves(c) ==
    CASE cpc[c] = "irq" ->
            {current[c]} \cup IF jpc[c] \in {"add", "enq"} THEN {jt[c]} ELSE {}
      [] cpc[c] = "pick" -> {current[c]}
      [] cpc[c] = "sw" -> {current[c], retired[c]}
      [] cpc[c] = "ret" -> IF jpc[c] \in {"r_clear", "enq"} THEN {jt[c]} ELSE {}
      [] cpc[c] = "run" /\ current[c] \in Thread ->
            (IF jpc[current[c]] \in {"add", "enq"} THEN {jt[current[c]]} ELSE {})
              \cup (IF stage[current[c]] \in {"armed", "zombie"} THEN {current[c]} ELSE {})
      [] OTHER -> {}

\* unreachable!() after the last sleep_thread of exit.
Unreachable(c) == /\ cpc[c] = "run" /\ current[c] \in Thread
                  /\ stage[current[c]] = "ended"

\* The panic handler freezes the scheduler and stops the CPU.
Panic(c) ==
    /\ Unreachable(c) \/ ~(Resolves(c) \subseteq pool \cup {Idle})
    /\ cpc' = [cpc EXCEPT ![c] = "panic"]
    /\ frozen' = TRUE
    /\ UNCHANGED <<pool, queue, threadVars, current, retired, jpc, jt, sstate>>

-----------------------------------------------------------------------------
ThreadStep(c, t) == \/ Arm(c, t) \/ sleep_thread(c, t) \/ yield_thread(c, t)
                    \/ ExitBegin(c, t) \/ ExitZombie(c, t)
                    \/ \E u \in Thread : spawn_thread(c, t, u)

JobAction(a) == \/ WakeGet(a) \/ WakeDec(a) \/ AddCheck(a) \/ FetchSet(a) \/ _enqueue(a)

Dispatch(c) == \/ PickNext(c) \/ ReschedFrozen(c) \/ ReschedRealtime(c)
               \/ ReschedPreempt(c) \/ ReschedQuantum(c) \/ ContextSwitch(c)
               \/ RetireClear(c) \/ RetireZombie(c) \/ RetireAsleep(c) \/ Resume(c)

Next == \/ \E c \in CPU, t \in Thread : ThreadStep(c, t)
        \/ \E a \in Actor, u \in Thread : WakeBegin(a, u)
        \/ \E a \in Actor : JobAction(a)
        \/ \E c \in CPU : Interrupt(c) \/ Dispatch(c) \/ Panic(c)
        \/ \E s \in Modes : set_current_state(s)
        \/ freeze

Spec == Init /\ [][Next]_vars

\* A timer interrupt that is due is latched and taken as soon as interrupts
\* are enabled again; between two interrupts a thread executes instructions;
\* _process_timer_events holds the lock that adding an event takes, so it
\* fires finitely many.  Nothing is assumed of what threads choose to do.
Fairness == /\ \A c \in CPU : SF_vars(Interrupt(c)) /\ SF_vars(Dispatch(c))
            /\ \A a \in Actor : SF_vars(JobAction(a))

FairSpec == Spec /\ Fairness
-----------------------------------------------------------------------------
(* Properties *)

Retiring(c, t) == retired[c] = t \/ (jpc[c] = "r_clear" /\ jt[c] = t)

Enqueuing(a, t) == jpc[a] = "enq" /\ jt[a] = t

Queued(t) == \E k \in Class : \E i \in DOMAIN queue[k] : queue[k][i] = t

\* Thread t is running, being retired, or on its way into a queue.
InTransit(t) == \/ \E c \in CPU : current[c] = t \/ Retiring(c, t)
                \/ \E a \in Actor : Enqueuing(a, t)

CurrentOnce == \A c, d \in CPU : current[c] = current[d] => c = d \/ current[c] = Idle

RetiringOnce == \A t \in Thread : \A c, d \in CPU :
    Retiring(c, t) => /\ Retiring(d, t) => c = d
                      /\ current[d] # t

EnqueuingOnce == \A t \in Thread : \A a \in Actor : Enqueuing(a, t) =>
    /\ \A b \in Actor : Enqueuing(b, t) => a = b
    /\ \A c \in CPU : current[c] # t /\ ~Retiring(c, t)

QueueOnce == \A k \in Class : \A i \in DOMAIN queue[k] :
    /\ \A l \in Class : \A j \in DOMAIN queue[l] :
          queue[k][i] = queue[l][j] => k = l /\ i = j
    /\ ~InTransit(queue[k][i])

QueuedIffHeld == \A t \in Thread : queued[t] <=> InTransit(t) \/ Queued(t)

\* What a CPU is doing determines which of its registers are in use.
CpuDiscipline == \A c \in CPU :
    /\ cpc[c] \notin {"sw", "panic"} => retired[c] = Idle
    /\ cpc[c] \in {"run", "pick", "sw"} => jpc[c] = "none"

JobHasSubject == \A a \in Actor : jpc[a] \notin {"none", "r_clear"} => jt[a] \in Thread

(* QUEUED is a token.  A thread is in at most one place at a time: running  *)
(* on one CPU, being retired by one CPU, on its way into a queue by the     *)
(* hand of one waker or retirer, or at one position of one queue; and the   *)
(* bit is set exactly while it is in such a place.  So whatever wakers on   *)
(* other CPUs do meanwhile, `retire` and `add` never queue a thread that    *)
(* runs or is queued already (scheduler.rs, `retire`, `add`, `_enqueue`).   *)
ReadyOnce == /\ CurrentOnce /\ RetiringOnce /\ EnqueuingOnce /\ QueueOnce
             /\ QueuedIffHeld

\* The thread whose stack CPU c is executing on: until the registers are
\* switched that is the thread being retired.
StackOf(c) == IF cpc[c] = "sw" THEN retired[c] ELSE current[c]

(* No thread executes on two CPUs, not even while one of them is still      *)
(* saving its registers (`switch_context` retires a thread only after       *)
(* `context.switch`).                                                       *)
OneCpuPerStack == \A c, d \in CPU :
    c # d /\ StackOf(c) = StackOf(d) => StackOf(c) = Idle

\* Some actor is between the step that makes t awake, or that clears its QUEUED
\* bit, and the fetch_set that queues it.
BeingReadied(t) == \E a \in Actor :
    jt[a] = t /\ jpc[a] \in {"add", "set", "r_zombie", "r_asleep"}

(* A wake is not lost: a thread whose sleep_counter says that it is awake   *)
(* is ready, or somebody is about to make it so.  `retire` clears QUEUED    *)
(* before it looks at the counter, `wake` decrements the counter before it  *)
(* looks at QUEUED: either order of the two leaves one of them to queue it. *)
AwakeIsReady == \A t \in pool :
    ~IsZombie(t) /\ counter[t] <= 0 /\ ~queued[t] => BeingReadied(t)

PendingWakes(t) == {a \in Actor : jpc[a] \in {"w_get", "w_dec"} /\ jt[a] = t}

(* Sleeps and wakes balance: the counter of a thread is the number of wake  *)
(* sources and wakes still to come, less the sleep it has yet to begin.  So *)
(* no thread that is asleep has been forgotten by every waker.              *)
SleepsBalanceWakes == \A t \in pool : ~IsZombie(t) =>
    counter[t] = armed[t] + Cardinality(PendingWakes(t))
                    - (IF stage[t] = "armed" THEN 1 ELSE 0)

(* Every handle the scheduler resolves with `as_ref()`, that is             *)
(* `self.get().unwrap()`, is still in the thread pool, and `exit` does not  *)
(* get past its last sleep_thread.                                          *)
NoPanic == \A c \in CPU : cpc[c] # "panic"

(* A thread that is awake gets a CPU sooner or later, unless the system is  *)
(* shut down or a realtime thread, which is never preempted, takes a CPU:   *)
(* the queues are served in turn, quanta run out, a thread on a processor   *)
(* that a change of state stalls is given up to another, and every state    *)
(* leaves CPUs that serve the queues (`reschedule`, `_next_thread`).        *)
AwakeRuns == \A t \in Thread :
    (t \in pool /\ ~IsZombie(t) /\ counter[t] <= 0) ~>
        \/ frozen
        \/ \E c \in CPU : current[c] = t \/ PriorityOf(current[c]) = "Realtime"

(* freeze() stops every thread: `All threads will stop` (scheduler.rs:206). *)
(* A CPU that was dispatching when the flag was set gives the thread up at  *)
(* its next tick, a realtime thread included, and stays idle.               *)
FreezeStopsAll == frozen ~> [](\A c \in CPU : current[c] = Idle)
=============================================================================
