----------------------------- MODULE Processes -----------------------------
(***************************************************************************)
(* Threads of one process from their start to their removal, those who     *)
(* join them, and the thread that gathers statistics (scheduler.rs).       *)
(*                                                                         *)
(* The thread pool is under a spinlock, the process pool under an RwLock.  *)
(* Semaphores are what module Semaphore shows of them: a number of permits.*)
(***************************************************************************)
EXTENDS Integers, Sequences, FiniteSets

CONSTANTS PrThread,     \* threads of the process; the first one starts it
          PrFirst, PrJoiner,
          PrPlans,      \* whom each joiner joins: a thread or PrProcess
          PrProcess, NoOne,
          PrRounds      \* rounds of the statistics

ASSUME ProcessesAssumption ==
    /\ IsFiniteSet(PrThread) /\ PrFirst \in PrThread
    /\ PrProcess \notin PrThread /\ NoOne \notin PrThread
    /\ PrPlans \subseteq [PrJoiner -> PrThread \cup {PrProcess}]
    /\ PrRounds \in Nat

VARIABLES
    prPlan,
    prPc,       \* where each thread is
    prHere,     \* the process is in the pool
    prCount,    \* its `n_threads`
    prWriter,   \* who holds the lock of the process pool for writing
    prResult,   \* threads whose result has been stored
    prShared,   \* threads that still have a reference to it
    prSem,      \* permits of the semaphores
    prJoin,     \* where each joiner is
    prStat,     \* where the statistics are
    prTodo,     \* threads they have not looked at
    prRound
prVars == <<prPlan, prPc, prHere, prCount, prWriter, prResult, prShared, prSem, prJoin, prStat, prTodo, prRound>>

PrInit ==
    /\ prPlan \in PrPlans /\ prPc = [c \in PrThread |-> "none"] /\ prHere = FALSE /\ prCount = 0 /\ prWriter = NoOne
    /\ prResult = {} /\ prShared = {} /\ prSem = [s \in PrThread \cup {PrProcess} |-> 0]
    /\ prJoin = [j \in PrJoiner |-> "start"] /\ prStat = "idle" /\ prTodo = {} /\ prRound = 0

Pooled(c) == prPc[c] \notin {"none", "gone"}
Unlocked == prStat # "look" /\ prStat # "hung" /\ prStat # "panic"      \* the spinlock of the thread pool
PrGo(c, from, to) == prPc[c] = from /\ prPc' = [prPc EXCEPT ![c] = to]

-----------------------------------------------------------------------------
(* Threads *)

\* spawn_thread: a new process is put into the pool, the thread is counted and
\* put into its pool, and may run at once.  Other threads are spawned by one
\* that is running.
LockPool == prPc[PrFirst] = "none" /\ ~prHere /\ prWriter = NoOne /\ prWriter' = PrFirst
            /\ UNCHANGED <<prPlan, prPc, prHere, prCount, prResult, prShared, prSem, prJoin, prStat, prTodo, prRound>>
AddProcess == prWriter = PrFirst /\ prPc[PrFirst] = "none" /\ prWriter' = NoOne /\ prHere' = TRUE
              /\ UNCHANGED <<prPlan, prPc, prCount, prResult, prShared, prSem, prJoin, prStat, prTodo, prRound>>
Spawn(c) ==
    /\ Unlocked /\ prHere /\ prWriter = NoOne
    /\ IF c = PrFirst THEN TRUE ELSE \E d \in PrThread : prPc[d] = "run"
    /\ PrGo(c, "none", "run") /\ prCount' = prCount + 1 /\ prShared' = prShared \cup {c}
    /\ UNCHANGED <<prPlan, prHere, prWriter, prResult, prSem, prJoin, prStat, prTodo, prRound>>

\* _start_thread: the result is stored and the box dropped before exit.
Stores(c) ==
    /\ PrGo(c, "run", "stored") /\ prResult' = prResult \cup {c}
    /\ UNCHANGED <<prPlan, prHere, prCount, prWriter, prShared, prSem, prJoin, prStat, prTodo, prRound>>
Drops(c) ==
    /\ PrGo(c, "stored", "exit") /\ prShared' = prShared \ {c}
    /\ UNCHANGED <<prPlan, prHere, prCount, prWriter, prResult, prSem, prJoin, prStat, prTodo, prRound>>

\* ThreadContextData::exit, in its order: those who join are signalled, the
\* process is left by the last thread, the thread waits for its removal.
Signals(c) ==
    /\ PrGo(c, "exit", "signalled") /\ prSem' = [prSem EXCEPT ![c] = @ + 1]
    /\ UNCHANGED <<prPlan, prHere, prCount, prWriter, prResult, prShared, prJoin, prStat, prTodo, prRound>>

\* Mutant: the number from before is taken for the number from after.
IsLastSoon(count) == count - 1 = 1

IsLast(count) == count = 1

Leaves(c) ==
    /\ prHere /\ prWriter = NoOne /\ PrGo(c, "signalled", IF IsLast(prCount) THEN "last" ELSE "left") /\ prCount' = prCount - 1
    /\ UNCHANGED <<prPlan, prHere, prWriter, prResult, prShared, prSem, prJoin, prStat, prTodo, prRound>>
Ends(c) ==
    /\ PrGo(c, "last", "remove") /\ prSem' = [prSem EXCEPT ![PrProcess] = @ + 1]
    /\ UNCHANGED <<prPlan, prHere, prCount, prWriter, prResult, prShared, prJoin, prStat, prTodo, prRound>>
LocksPool(c) ==
    /\ prWriter = NoOne /\ PrGo(c, "remove", "removing") /\ prWriter' = c
    /\ UNCHANGED <<prPlan, prHere, prCount, prResult, prShared, prSem, prJoin, prStat, prTodo, prRound>>
RemovesProcess(c) ==
    /\ PrGo(c, "removing", "left") /\ prWriter' = NoOne /\ prHere' = FALSE
    /\ UNCHANGED <<prPlan, prCount, prResult, prShared, prSem, prJoin, prStat, prTodo, prRound>>
Zombie(c) ==
    /\ PrGo(c, "left", "zombie")
    /\ UNCHANGED <<prPlan, prHere, prCount, prWriter, prResult, prShared, prSem, prJoin, prStat, prTodo, prRound>>
\* retire, on whichever processor has switched away from it.
Retire(c) ==
    /\ Unlocked /\ PrGo(c, "zombie", "gone")
    /\ UNCHANGED <<prPlan, prHere, prCount, prWriter, prResult, prShared, prSem, prJoin, prStat, prTodo, prRound>>

PrThreadStep(c) == Stores(c) \/ Drops(c) \/ Signals(c) \/ Leaves(c) \/ Ends(c) \/ LocksPool(c) \/ RemovesProcess(c) \/ Zombie(c) \/ Retire(c)

-----------------------------------------------------------------------------
(* Joining *)

JoinGo(j, from, to) == prJoin[j] = from /\ prJoin' = [prJoin EXCEPT ![j] = to]
Known(s) == IF s = PrProcess THEN prHere ELSE Pooled(s)

\* ThreadHandle::join, ProcessId::join: who is gone is not waited for.
Looks(j) ==
    /\ (prPlan[j] # PrProcess => Unlocked) /\ prPc[PrFirst] # "none" /\ (prPlan[j] # PrProcess => prPc[prPlan[j]] # "none")
    /\ JoinGo(j, "start", IF Known(prPlan[j]) THEN "wait" ELSE "joined")
    /\ UNCHANGED <<prPlan, prPc, prHere, prCount, prWriter, prResult, prShared, prSem, prStat, prTodo, prRound>>
Joins(j) ==
    /\ prSem[prPlan[j]] > 0 /\ JoinGo(j, "wait", "joined") /\ prSem' = [prSem EXCEPT ![prPlan[j]] = @ - 1]
    /\ UNCHANGED <<prPlan, prPc, prHere, prCount, prWriter, prResult, prShared, prStat, prTodo, prRound>>
\* JoinHandle::join takes the result out of the box it now has to itself.
Unwraps(j) ==
    /\ JoinGo(j, "joined", "done")
    /\ UNCHANGED <<prPlan, prPc, prHere, prCount, prWriter, prResult, prShared, prSem, prStat, prTodo, prRound>>
PrJoinStep(j) == Looks(j) \/ Joins(j) \/ Unwraps(j)

-----------------------------------------------------------------------------
(* _statistics_thread: under the spinlock of the threads it looks up the    *)
(* process of each of them.  A lock that is held makes it sleep, for which  *)
(* it needs the spinlock it already has; a process that is gone panics.     *)

StatBegins ==
    /\ prStat = "idle" /\ prRound < PrRounds /\ prStat' = "look" /\ prTodo' = {c \in PrThread : Pooled(c)} /\ prRound' = prRound + 1
    /\ UNCHANGED <<prPlan, prPc, prHere, prCount, prWriter, prResult, prShared, prSem, prJoin>>
StatLooks(c) ==
    /\ prStat = "look" /\ c \in prTodo /\ prTodo' = prTodo \ {c}
    /\ prStat' = (IF prWriter # NoOne THEN "hung" ELSE IF prHere THEN "look" ELSE "panic")
    /\ UNCHANGED <<prPlan, prPc, prHere, prCount, prWriter, prResult, prShared, prSem, prJoin, prRound>>
StatEnds ==
    /\ prStat = "look" /\ prTodo = {} /\ prStat' = "idle"
    /\ UNCHANGED <<prPlan, prPc, prHere, prCount, prWriter, prResult, prShared, prSem, prJoin, prTodo, prRound>>
StatStep == StatBegins \/ StatEnds \/ (\E c \in PrThread : StatLooks(c))

ProcessesNext ==
    \/ LockPool \/ AddProcess \/ (\E c \in PrThread : Spawn(c) \/ PrThreadStep(c))
    \/ (\E j \in PrJoiner : PrJoinStep(j)) \/ StatStep

ProcessesSpec == PrInit /\ [][ProcessesNext]_prVars

-----------------------------------------------------------------------------
Living == {c \in PrThread : prPc[c] \in {"run", "stored", "exit", "signalled"}}

(* The process stays in the pool as long as one of its threads will still   *)
(* look for it, whatever threads are spawned meanwhile, and its count is    *)
(* that of the threads that have not left it.                               *)
ProcessOutlives == prCount = Cardinality(Living) /\ (Living # {} => prHere)

(* Whoever has joined a thread finds its result and is the only one to have *)
(* a reference to it, and whoever has joined the process finds that all its *)
(* threads have left it.                                                    *)
JoinedIsOver ==
    \A j \in PrJoiner :
        prJoin[j] \in {"joined", "done"} =>
            IF prPlan[j] = PrProcess THEN prCount = 0
            ELSE prPlan[j] \in prResult /\ prPlan[j] \notin prShared

(* The statistics stop the system only where the process is being added or  *)
(* removed, or has been left by a last thread that is not yet removed.      *)
StatStops == prStat \in {"hung", "panic"} => Living = {} /\ (\E c \in PrThread : Pooled(c))

(* Everything that threads and those who join them rely on.                 *)
ProcessesInv == ProcessOutlives /\ JoinedIsOver /\ StatStops

(* Every join is over, unless the statistics have stopped or another has taken *)
(* the only permit there is.                                                *)
Shared2(j) == \E k \in PrJoiner \ {j} : prPlan[k] = prPlan[j] /\ prJoin[k] = "done"
JoinsOver ==
    \/ prStat \in {"hung", "panic"}
    \/ \A j \in PrJoiner :
         \/ prJoin[j] = "done"
         \/ Shared2(j)
         \/ prJoin[j] = "start" /\ prPlan[j] # PrProcess /\ prPc[prPlan[j]] = "none"
=============================================================================
