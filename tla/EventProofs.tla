---------------------------- MODULE EventProofs ----------------------------
(***************************************************************************)
(* The two semaphores of module Semaphore for any set of threads, any      *)
(* finite set of tasks and any capacity of the queue of wakers; and, on    *)
(* top of them, the event queues for any number of posters, events and     *)
(* signals: every event in a queue is covered by a permit, and what the    *)
(* semaphores keep then says which reader can wait next to an event.       *)
(* RwLock, which waits on the same object, comes next.  The last part is   *)
(* about who the events are for, the WebAssembly programs (MyosRuntime):   *)
(* their windows, files, keys and memory, for any calls of the program and *)
(* any messages of the user.                                               *)
(***************************************************************************)
EXTENDS EventQueue, RwLock, MyosRuntime, SignalProofs, FunctionTheorems, SequenceTheorems, NaturalsInduction,
        WellFoundedInduction

SemPC == WaitPC \cup SignalPC \cup {"idle"}

\* A thread whose last try has failed: it is going to register, or it has.
Failed(t) == pc[t] \in {"reg", "timer"} \/ slot = t

\* Next to a permit, when no signal is about to look into the slot, it is one
\* that a signal has missed.
FailedBeforeSignal ==
    value > 0 /\ (\A u \in Thread : pc[u] # "take") => \A t \in Thread : Failed(t) => t \in raced

SyncInv ==
    /\ WakeInv
    /\ pc \in [Thread -> SemPC]
    /\ value \in Nat /\ signals \in Nat /\ passes \in Nat
    /\ value + passes = signals
    /\ FailedBeforeSignal

-----------------------------------------------------------------------------
(* The Semaphore of threads *)

LEMMA WaitKeeps ==
    ASSUME SyncInv, NEW t \in Thread, wait(t)
    PROVE  SyncInv'
<1>1. /\ pc[t] = "idle" /\ pc' = [pc EXCEPT ![t] = "try"]
      /\ UNCHANGED <<slot, counter, taken, value, signals, passes, raced>>
  BY DEF wait, Goto
<1>2. WakeInv'
  BY <1>1, Elsewhere DEF SyncInv, SignalPlaces
<1>3. pc' \in [Thread -> SemPC]
  BY <1>1 DEF SyncInv, SemPC, WaitPC
<1>4. FailedBeforeSignal'
  BY <1>1 DEF SyncInv, FailedBeforeSignal, Failed
<1>5. QED
  BY <1>1, <1>2, <1>3, <1>4 DEF SyncInv

\* A try takes a permit away or finds none; a thread that tries again is no
\* longer one that was missed.
LEMMA TryPermitKeeps ==
    ASSUME SyncInv, NEW t \in Thread, TryPermit(t)
    PROVE  SyncInv'
<1>1. PICK ok \in BOOLEAN : ok <=> value >= 1
  BY DEF SyncInv
<1>2. /\ Tried(t, ok, "idle") /\ UNCHANGED <<slot, counter, taken, signals>>
      /\ raced' = raced \ {t}
  BY <1>1 DEF TryPermit
<1>3. WakeInv'
  <2>1. "idle" \notin SignalPlaces
    BY DEF SignalPlaces
  <2>2. QED
    BY <1>2, <2>1, TriedKeeps DEF SyncInv
<1>4. PICK to : /\ pc' = [pc EXCEPT ![t] = to] /\ pc[t] \in {"try", "retry"}
                /\ to \in {"idle", "reg", "try"} /\ (ok => to = "idle")
  BY <1>2 DEF Tried, Goto
<1>5. pc' \in [Thread -> SemPC]
  BY <1>4 DEF SyncInv, SemPC, WaitPC
<1>6. slot # t
  BY <1>4 DEF SyncInv, WakeInv, DueSleep, Due
<1>7. CASE ok
  <2>1. value >= 1 /\ value' = value - 1 /\ passes' = passes + 1
    BY <1>1, <1>7 DEF TryPermit
  <2>2. /\ value' \in Nat /\ signals' \in Nat /\ passes' \in Nat
        /\ value' + passes' = signals'
    BY <1>2, <2>1 DEF SyncInv
  <2>3. FailedBeforeSignal'
    BY <1>2, <1>4, <1>6, <1>7, <2>1 DEF SyncInv, FailedBeforeSignal, Failed
  <2>4. QED
    BY <1>3, <1>5, <2>2, <2>3 DEF SyncInv
<1>8. CASE ~ok
  <2>1. value = 0 /\ value' = value /\ passes' = passes
    BY <1>1, <1>8 DEF TryPermit, SyncInv
  <2>2. FailedBeforeSignal'
    BY <2>1 DEF FailedBeforeSignal
  <2>3. QED
    BY <1>2, <1>3, <1>5, <2>1, <2>2 DEF SyncInv
<1>9. QED
  BY <1>7, <1>8

LEMMA SignalKeeps ==
    ASSUME SyncInv, NEW t \in Thread, Signal(t)
    PROVE  SyncInv'
<1>1. /\ pc[t] = "idle" /\ pc' = [pc EXCEPT ![t] = "take"]
      /\ value' = value + 1 /\ signals' = signals + 1
      /\ UNCHANGED <<slot, counter, taken, passes, raced>>
  BY DEF Signal, Goto
<1>2. WakeInv'
  BY <1>1, Elsewhere DEF SyncInv, SignalPlaces
<1>3. pc' \in [Thread -> SemPC] /\ pc'[t] = "take"
  BY <1>1 DEF SyncInv, SemPC, SignalPC
<1>4. FailedBeforeSignal'
  BY <1>3 DEF FailedBeforeSignal
<1>5. QED
  BY <1>1, <1>2, <1>3, <1>4 DEF SyncInv

\* The signal finds the slot empty afterwards, and marks whoever had failed
\* and was not in it.
LEMMA SignalTakeKeeps ==
    ASSUME SyncInv, NEW t \in Thread, SignalTake(t)
    PROVE  SyncInv'
<1>1. /\ pc[t] = "take" /\ Take(t, "idle") /\ slot' = NoThread
      /\ pc' = [pc EXCEPT ![t] = IF slot = NoThread THEN "idle" ELSE "wake"]
      /\ raced' = raced \cup {u \in Thread : pc[u] \in {"reg", "timer"}}
      /\ UNCHANGED <<value, signals, passes>>
  BY DEF SignalTake, Take, Goto
<1>2. WakeInv'
  <2>1. "idle" \notin SignalPlaces
    BY DEF SignalPlaces
  <2>2. QED
    BY <1>1, <2>1, TakeKeeps DEF SyncInv
<1>3. pc' \in [Thread -> SemPC]
  BY <1>1 DEF SyncInv, SemPC, SignalPC
<1>4. \A u \in Thread : Failed(u)' => u \in raced'
  BY <1>1, SignalAssumption DEF SyncInv, Failed
<1>5. FailedBeforeSignal'
  BY <1>4 DEF FailedBeforeSignal
<1>6. QED
  BY <1>1, <1>2, <1>3, <1>5 DEF SyncInv

\* The rest of wait_for and signal: who has failed has failed before.
LEMMA SemRestKeeps ==
    ASSUME SyncInv, NEW t \in Thread, SemRest(t)
    PROVE  SyncInv'
<1>1. UNCHANGED <<value, signals, passes, raced>>
  BY DEF SemRest
<1>2. WakeInv'
  <2>1. "idle" \notin SignalPlaces
    BY DEF SignalPlaces
  <2>2. QED
    BY <2>1, WaitStepKeeps, WakeKeeps DEF SyncInv, SemRest
<1>3. PICK to : /\ pc' = [pc EXCEPT ![t] = to] /\ pc[t] # "take" /\ to # "take"
                /\ to \in SemPC
                /\ to \in {"reg", "timer"} => pc[t] \in {"reg", "timer"}
                /\ slot' # slot => slot' = t /\ pc[t] = "reg"
  BY DEF SemRest, WaitStep, Register, TimerEnds, SleepThread, Woken, Wake, Goto, SemPC, WaitPC
<1>4. pc' \in [Thread -> SemPC]
  BY <1>3 DEF SyncInv
<1>5. \A u \in Thread : Failed(u)' => Failed(u)
  BY <1>3 DEF SyncInv, Failed
<1>6. \A u \in Thread : pc'[u] = "take" <=> pc[u] = "take"
  BY <1>3 DEF SyncInv
<1>7. FailedBeforeSignal'
  BY <1>1, <1>5, <1>6 DEF SyncInv, FailedBeforeSignal
<1>8. QED
  BY <1>1, <1>2, <1>4, <1>7 DEF SyncInv

LEMMA SyncRests ==
    ASSUME SyncInv, UNCHANGED SyncVars
    PROVE  SyncInv'
<1>1. UNCHANGED <<signalVars, value, signals, passes, raced>>
  BY DEF SyncVars
<1>2. WakeInv'
  BY <1>1, ObjectRests DEF SyncInv
<1>3. UNCHANGED <<slot, pc>>
  BY <1>1 DEF signalVars
<1>4. QED
  BY <1>1, <1>2, <1>3 DEF SyncInv, FailedBeforeSignal, Failed

LEMMA ThreadsKeep ==
    ASSUME SyncInv, ThreadsNext
    PROVE  SyncInv'
BY WaitKeeps, TryPermitKeeps, SignalKeeps, SignalTakeKeeps, SemRestKeeps DEF ThreadsNext, SemStep

-----------------------------------------------------------------------------
(* The AsyncSemaphore of tasks *)

AsyncPC == {"ready", "poll", "enqueue", "missed", "pending", "lost", "panic"}

\* The tasks that are going to try.
Pollers == {k \in SemTask : apc[k] = "poll"}

InQueue(k) == \E i \in 1 .. Len(fifo) : fifo[i] = k
QueuedOnce ==
    /\ \A k \in SemTask : apc[k] \in {"pending", "lost"} <=> InQueue(k)
    /\ \A i, j \in 1 .. Len(fifo) : fifo[i] = fifo[j] => i = j

\* As long as some task waits that no signal has missed, every free permit is
\* one that a signal has yet to announce or that a task is on its way to.
PermitsAnnounced ==
    (\E k \in SemTask : apc[k] \in {"enqueue", "pending"}) => avalue <= owed + Cardinality(Pollers)

PanicWhenFull == (\E k \in SemTask : apc[k] = "panic") => Cardinality(SemTask) > SemWakers

AsyncInv ==
    /\ avalue \in Nat /\ asignals \in Nat /\ apasses \in Nat /\ owed \in Nat
    /\ avalue + apasses = asignals
    /\ apc \in [SemTask -> AsyncPC]
    /\ fifo \in Seq(SemTask)
    /\ QueuedOnce /\ PermitsAnnounced /\ PanicWhenFull

\* A queue of different tasks that lacks one is shorter than their number.
LEMMA QueueShort ==
    ASSUME NEW S, IsFiniteSet(S), NEW s \in Seq(S), NEW k \in S,
           \A i, j \in 1 .. Len(s) : s[i] = s[j] => i = j,
           \A i \in 1 .. Len(s) : s[i] # k
    PROVE  Len(s) < Cardinality(S)
<1>1. IsFiniteSet(S \ {k}) /\ Cardinality(S \ {k}) = Cardinality(S) - 1
  BY FS_RemoveElement
<1>2. Cardinality(S) \in Nat /\ Cardinality(S \ {k}) \in Nat
  BY <1>1, FS_CardinalityType
<1>3. Len(s) \in Nat
  OBVIOUS
<1>4. IsFiniteSet(1 .. Len(s)) /\ Cardinality(1 .. Len(s)) = Len(s)
  <2>1. Len(s) \in Int /\ 1 \in Int
    BY <1>3
  <2>2. Cardinality(1 .. Len(s)) = IF 1 > Len(s) THEN 0 ELSE Len(s) - 1 + 1
    BY <2>1, FS_Interval
  <2>3. QED
    BY <1>3, <2>1, <2>2, FS_Interval
<1>5. s \in [1 .. Len(s) -> S \ {k}]
  OBVIOUS
<1>6. ~(Cardinality(S \ {k}) < Cardinality(1 .. Len(s)))
  BY <1>1, <1>4, <1>5, FS_PigeonHole
<1>7. QED
  BY <1>1, <1>2, <1>3, <1>4, <1>6

LEMMA PollersFinite ==
    ASSUME SemAssumption
    PROVE  IsFiniteSet(Pollers) /\ Cardinality(Pollers) \in Nat
<1>1. Pollers \in SUBSET SemTask
  BY DEF Pollers
<1>2. QED
  BY <1>1, FS_Subset, FS_CardinalityType DEF SemAssumption

\* One task goes to "poll".
LEMMA PollerComes ==
    ASSUME SemAssumption, apc \in [SemTask -> AsyncPC], NEW k \in SemTask,
           apc[k] # "poll", apc' = [apc EXCEPT ![k] = "poll"]
    PROVE  Cardinality(Pollers') = Cardinality(Pollers) + 1
<1>1. Pollers' = Pollers \cup {k} /\ k \notin Pollers
  BY DEF Pollers
<1>2. QED
  BY <1>1, PollersFinite, FS_AddElement

\* One task leaves it.
LEMMA PollerGoes ==
    ASSUME SemAssumption, apc \in [SemTask -> AsyncPC], NEW k \in SemTask, NEW to,
           apc[k] = "poll", to # "poll", apc' = [apc EXCEPT ![k] = to]
    PROVE  Cardinality(Pollers') = Cardinality(Pollers) - 1
<1>1. Pollers' = Pollers \ {k} /\ k \in Pollers
  BY DEF Pollers
<1>2. QED
  BY <1>1, PollersFinite, FS_RemoveElement

LEMMA PollKeeps ==
    ASSUME SemAssumption, AsyncInv, NEW k \in SemTask, Poll(k)
    PROVE  AsyncInv'
<1>0. apc[k] = "poll" /\ UNCHANGED <<asignals, owed, fifo>> /\ Cardinality(Pollers) \in Nat
  BY PollersFinite DEF Poll
<1>1. CASE avalue >= 1
  <2>1. avalue' = avalue - 1 /\ apasses' = apasses + 1 /\ apc' = [apc EXCEPT ![k] = "ready"]
    BY <1>1 DEF Poll
  <2>2. Cardinality(Pollers') = Cardinality(Pollers) - 1
    BY <1>0, <2>1, PollerGoes DEF AsyncInv
  <2>3. QueuedOnce'
    BY <1>0, <2>1 DEF AsyncInv, QueuedOnce, InQueue
  <2>4. PermitsAnnounced'
    <3>1. (\E j \in SemTask : apc'[j] \in {"enqueue", "pending"}) => \E j \in SemTask : apc[j] \in {"enqueue", "pending"}
      BY <2>1 DEF AsyncInv
    <3>2. QED
      BY <1>0, <2>1, <2>2, <3>1 DEF AsyncInv, PermitsAnnounced
  <2>5. PanicWhenFull'
    BY <2>1 DEF AsyncInv, PanicWhenFull
  <2>6. QED
    BY <1>0, <1>1, <2>1, <2>3, <2>4, <2>5 DEF AsyncInv, AsyncPC
<1>2. CASE ~(avalue >= 1)
  <2>1. avalue = 0 /\ avalue' = 0 /\ apasses' = apasses /\ apc' = [apc EXCEPT ![k] = "enqueue"]
    BY <1>2 DEF Poll, AsyncInv
  <2>2. Cardinality(Pollers') \in Nat
    <3>1. Pollers' \in SUBSET SemTask
      BY DEF Pollers
    <3>2. QED
      BY <3>1, FS_Subset, FS_CardinalityType DEF SemAssumption
  <2>3. QueuedOnce'
    BY <1>0, <2>1 DEF AsyncInv, QueuedOnce, InQueue
  <2>4. PermitsAnnounced'
    BY <1>0, <2>1, <2>2 DEF AsyncInv, PermitsAnnounced
  <2>5. PanicWhenFull'
    BY <2>1 DEF AsyncInv, PanicWhenFull
  <2>6. QED
    BY <1>0, <2>1, <2>3, <2>4, <2>5 DEF AsyncInv, AsyncPC
<1>3. QED
  BY <1>1, <1>2

\* A waker is put into the queue, once; without room there are more tasks than
\* the queue has room for.
LEMMA EnqueueWakerKeeps ==
    ASSUME SemAssumption, AsyncInv, NEW k \in SemTask, EnqueueWaker(k)
    PROVE  AsyncInv'
<1>0. apc[k] \in {"enqueue", "missed"} /\ UNCHANGED <<avalue, asignals, apasses, owed>>
  BY DEF EnqueueWaker
<1>1. ~InQueue(k) /\ Len(fifo) \in Nat
  BY <1>0 DEF AsyncInv, QueuedOnce
<1>2. CASE Len(fifo) < SemWakers
  <2>1. PICK to : /\ apc' = [apc EXCEPT ![k] = to] /\ to \in {"pending", "lost"}
                  /\ (to = "pending" => apc[k] = "enqueue")
    BY <1>0, <1>2 DEF EnqueueWaker
  <2>2. fifo' = Append(fifo, k)
    BY <1>2 DEF EnqueueWaker
  <2>3. /\ fifo' \in Seq(SemTask) /\ Len(fifo') = Len(fifo) + 1 /\ fifo'[Len(fifo) + 1] = k
        /\ \A i \in 1 .. Len(fifo) : fifo'[i] = fifo[i]
    BY <2>2 DEF AsyncInv
  <2>4. \A j \in SemTask : InQueue(j)' <=> InQueue(j) \/ j = k
    BY <1>1, <2>3 DEF InQueue
  <2>5. \A i, j \in 1 .. Len(fifo') : fifo'[i] = fifo'[j] => i = j
    BY <1>1, <2>3 DEF InQueue, AsyncInv, QueuedOnce
  <2>6. QueuedOnce'
    BY <2>1, <2>4, <2>5 DEF AsyncInv, QueuedOnce
  <2>7. Pollers' = Pollers
    BY <1>0, <2>1 DEF AsyncInv, Pollers
  <2>8. PermitsAnnounced' /\ PanicWhenFull'
    <3>1. (\E j \in SemTask : apc'[j] \in {"enqueue", "pending"}) => \E j \in SemTask : apc[j] \in {"enqueue", "pending"}
      BY <2>1 DEF AsyncInv
    <3>2. (\E j \in SemTask : apc'[j] = "panic") => \E j \in SemTask : apc[j] = "panic"
      BY <2>1 DEF AsyncInv
    <3>3. QED
      BY <1>0, <2>7, <3>1, <3>2 DEF AsyncInv, PermitsAnnounced, PanicWhenFull
  <2>9. QED
    BY <1>0, <2>1, <2>3, <2>6, <2>8 DEF AsyncInv, AsyncPC
<1>3. CASE ~(Len(fifo) < SemWakers)
  <2>1. apc' = [apc EXCEPT ![k] = "panic"] /\ fifo' = fifo
    BY <1>3 DEF EnqueueWaker
  <2>2. Len(fifo) < Cardinality(SemTask)
    <3>1. \A i \in 1 .. Len(fifo) : fifo[i] # k
      BY <1>1 DEF InQueue
    <3>2. QED
      BY <3>1, QueueShort DEF AsyncInv, QueuedOnce, SemAssumption
  <2>3. Cardinality(SemTask) > SemWakers
    <3>1. Cardinality(SemTask) \in Nat /\ SemWakers \in Nat
      BY FS_CardinalityType DEF SemAssumption
    <3>2. QED
      BY <1>1, <1>3, <2>2, <3>1
  <2>4. Pollers' = Pollers
    BY <1>0, <2>1 DEF AsyncInv, Pollers
  <2>5. PermitsAnnounced'
    <3>1. (\E j \in SemTask : apc'[j] \in {"enqueue", "pending"}) => \E j \in SemTask : apc[j] \in {"enqueue", "pending"}
      BY <2>1 DEF AsyncInv
    <3>2. QED
      BY <1>0, <2>4, <3>1 DEF AsyncInv, PermitsAnnounced
  <2>6. QueuedOnce' /\ PanicWhenFull'
    BY <1>0, <2>1, <2>3 DEF AsyncInv, QueuedOnce, InQueue, PanicWhenFull
  <2>7. QED
    BY <1>0, <2>1, <2>5, <2>6 DEF AsyncInv, AsyncPC
<1>4. QED
  BY <1>2, <1>3

LEMMA ASignalKeeps ==
    ASSUME SemAssumption, AsyncInv, ASignal
    PROVE  AsyncInv'
<1>1. avalue' = avalue + 1 /\ asignals' = asignals + 1 /\ owed' = owed + 1 /\ UNCHANGED <<apasses, fifo, apc>>
  BY DEF ASignal
<1>2. Pollers' = Pollers /\ Cardinality(Pollers) \in Nat
  BY <1>1, PollersFinite DEF Pollers
<1>3. PermitsAnnounced'
  BY <1>1, <1>2 DEF AsyncInv, PermitsAnnounced
<1>4. QED
  BY <1>1, <1>3 DEF AsyncInv, QueuedOnce, InQueue, PanicWhenFull

\* The first task in the queue goes to the permit; if there is none, those who
\* are about to enter have been missed, and nobody waits that was not.
LEMMA WakeFirstKeeps ==
    ASSUME SemAssumption, AsyncInv, WakeFirst
    PROVE  AsyncInv'
<1>0. owed > 0 /\ owed' = owed - 1 /\ UNCHANGED <<avalue, asignals, apasses>> /\ Cardinality(Pollers) \in Nat
  BY PollersFinite DEF WakeFirst
<1>1. CASE fifo = <<>>
  <2>1. fifo' = fifo /\ apc' = [k \in SemTask |-> IF apc[k] = "enqueue" THEN "missed" ELSE apc[k]]
    BY <1>1 DEF WakeFirst
  <2>2. \A k \in SemTask : apc[k] \notin {"pending", "lost"}
    BY <1>1 DEF AsyncInv, QueuedOnce, InQueue
  <2>3. \A k \in SemTask : apc'[k] \notin {"enqueue", "pending"}
    BY <2>1, <2>2
  <2>4. PermitsAnnounced'
    BY <2>3 DEF PermitsAnnounced
  <2>5. QueuedOnce' /\ PanicWhenFull'
    BY <2>1 DEF AsyncInv, QueuedOnce, InQueue, PanicWhenFull
  <2>6. apc' \in [SemTask -> AsyncPC]
    BY <2>1 DEF AsyncInv, AsyncPC
  <2>7. QED
    BY <1>0, <2>1, <2>4, <2>5, <2>6 DEF AsyncInv
<1>2. CASE fifo # <<>>
  <2>1. PICK k \in SemTask : k = Head(fifo) /\ k = fifo[1] /\ Len(fifo) \in Nat \ {0}
    BY <1>2 DEF AsyncInv
  <2>2. fifo' = Tail(fifo) /\ apc' = [apc EXCEPT ![k] = "poll"]
    BY <1>2, <2>1 DEF WakeFirst
  <2>3. /\ fifo' \in Seq(SemTask) /\ Len(fifo') = Len(fifo) - 1
        /\ \A i \in 1 .. Len(fifo') : fifo'[i] = fifo[i + 1]
    BY <2>1, <2>2 DEF AsyncInv
  <2>4. apc[k] \in {"pending", "lost"}
    BY <2>1 DEF AsyncInv, QueuedOnce, InQueue
  <2>5. \A j \in SemTask : InQueue(j)' <=> InQueue(j) /\ j # k
    <3>1. ASSUME NEW j \in SemTask, InQueue(j), j # k PROVE InQueue(j)'
      <4>1. PICK i \in 1 .. Len(fifo) : fifo[i] = j
        BY <3>1 DEF InQueue
      <4>2. i # 1 /\ i - 1 \in 1 .. Len(fifo') /\ fifo'[i - 1] = j
        BY <2>1, <2>3, <3>1, <4>1
      <4>3. QED
        BY <4>2 DEF InQueue
    <3>2. ASSUME NEW j \in SemTask, InQueue(j)' PROVE InQueue(j) /\ j # k
      <4>1. PICK i \in 1 .. Len(fifo') : fifo'[i] = j
        BY <3>2 DEF InQueue
      <4>2. i + 1 \in 1 .. Len(fifo) /\ fifo[i + 1] = j /\ i + 1 # 1
        BY <2>1, <2>3, <4>1
      <4>3. j # k
        BY <2>1, <4>2 DEF AsyncInv, QueuedOnce
      <4>4. QED
        BY <4>2, <4>3 DEF InQueue
    <3>3. QED
      BY <3>1, <3>2
  <2>6. \A i, j \in 1 .. Len(fifo') : fifo'[i] = fifo'[j] => i = j
    <3> SUFFICES ASSUME NEW i \in 1 .. Len(fifo'), NEW j \in 1 .. Len(fifo'), fifo'[i] = fifo'[j] PROVE i = j
      OBVIOUS
    <3>1. i + 1 \in 1 .. Len(fifo) /\ j + 1 \in 1 .. Len(fifo) /\ fifo[i + 1] = fifo[j + 1]
      BY <2>1, <2>3
    <3>2. i + 1 = j + 1
      BY <3>1 DEF AsyncInv, QueuedOnce
    <3>3. QED
      BY <3>2
  <2>7. QueuedOnce'
    BY <2>2, <2>5, <2>6 DEF AsyncInv, QueuedOnce
  <2>8. Cardinality(Pollers') = Cardinality(Pollers) + 1
    BY <2>2, <2>4, PollerComes DEF AsyncInv
  <2>9. PermitsAnnounced'
    <3>1. (\E j \in SemTask : apc'[j] \in {"enqueue", "pending"}) => \E j \in SemTask : apc[j] \in {"enqueue", "pending"}
      BY <2>2 DEF AsyncInv
    <3>2. QED
      BY <1>0, <2>8, <3>1 DEF AsyncInv, PermitsAnnounced
  <2>10. PanicWhenFull'
    BY <2>2 DEF AsyncInv, PanicWhenFull
  <2>11. QED
    BY <1>0, <2>2, <2>3, <2>7, <2>9, <2>10 DEF AsyncInv, AsyncPC
<1>3. QED
  BY <1>1, <1>2

LEMMA AsyncRests ==
    ASSUME AsyncInv, UNCHANGED asyncVars
    PROVE  AsyncInv'
BY DEF asyncVars, AsyncInv, QueuedOnce, InQueue, PermitsAnnounced, Pollers, PanicWhenFull

LEMMA TasksKeep ==
    ASSUME SemAssumption, AsyncInv, TasksNext
    PROVE  AsyncInv'
BY PollKeeps, EnqueueWakerKeeps, ASignalKeeps, WakeFirstKeeps DEF TasksNext

-----------------------------------------------------------------------------
\* The parts of the invariant that the runs check.
LEMMA SemaphoresKeep ==
    ASSUME SemAssumption, SyncInv, AsyncInv
    PROVE  SemaphoreInv
<1>1. SignalTypeOK({"idle"})
  BY DEF SyncInv, WakeInv, SignalTypeOK, SemPC
<1>2. PermitsKept
  BY DEF SyncInv, AsyncInv, PermitsKept
<1>3. StrandedOnlyByRace
  BY DEF SyncInv, FailedBeforeSignal, Failed, StrandedOnlyByRace
<1>4. ASSUME fifo # <<>>, avalue > 0, owed = 0
      PROVE  \E k \in SemTask : apc[k] \in {"lost", "poll"}
  <2>1. PICK k \in SemTask : k = fifo[1] /\ Len(fifo) \in Nat \ {0}
    BY <1>4 DEF AsyncInv
  <2>2. CASE apc[k] = "lost"
    BY <2>2
  <2>3. CASE apc[k] = "pending"
    <3>1. Cardinality(Pollers) \in Nat /\ IsFiniteSet(Pollers)
      BY PollersFinite
    <3>2. Cardinality(Pollers) # 0
      BY <1>4, <2>3, <3>1 DEF AsyncInv, PermitsAnnounced
    <3>3. Pollers # {}
      BY <3>2, FS_EmptySet
    <3>4. QED
      BY <3>3 DEF Pollers
  <2>4. QED
    BY <2>1, <2>2, <2>3 DEF AsyncInv, QueuedOnce, InQueue
<1>5. TasksInQueue
  BY <1>4 DEF AsyncInv, QueuedOnce, InQueue, PanicWhenFull, TasksInQueue
<1>6. QED
  BY <1>1, <1>2, <1>3, <1>5 DEF SemaphoreInv

LEMMA SyncStarts ==
    ASSUME SignalInit("idle"), value = 0, signals = 0, passes = 0
    PROVE  SyncInv
<1>1. WakeInv
  <2>1. "idle" \notin SignalPlaces
    BY DEF SignalPlaces
  <2>2. QED
    BY <2>1, SignalStarts
<1>2. QED
  BY <1>1 DEF SyncInv, SignalInit, SemPC, FailedBeforeSignal

LEMMA AsyncStarts ==
    ASSUME SemAssumption, NEW start \in {"poll", "ready"},
           avalue = 0, asignals = 0, apasses = 0, owed = 0, fifo = <<>>, apc = [k \in SemTask |-> start]
    PROVE  AsyncInv
<1>1. \A k \in SemTask : apc[k] \in {"poll", "ready"} /\ ~InQueue(k)
  BY DEF InQueue
<1>2. QED
  BY <1>1 DEF AsyncInv, AsyncPC, QueuedOnce, PermitsAnnounced, PanicWhenFull

(* For any number of threads and tasks and any capacity of the queue of     *)
(* wakers: permits are neither made nor lost; a thread or a task that waits *)
(* next to a free permit with no signal under way was missed by a signal    *)
(* between its try and its registration, and no other waits so; every waker *)
(* is in the queue once, and the queue is full only when there are more     *)
(* tasks than it has room for (`Semaphore`, `AsyncSemaphore`).  The threads'*)
(* sleeps and wakes balance.                                                *)
THEOREM SemaphoresHold ==
    ASSUME SemAssumption
    PROVE  SemSpec => [](SemaphoreInv /\ OneWakePerSleep)
<1>1. SemInit => SyncInv /\ AsyncInv
  BY SyncStarts, AsyncStarts DEF SemInit
<1>2. SyncInv /\ AsyncInv /\ [ThreadsNext \/ TasksNext]_semVars => SyncInv' /\ AsyncInv'
  <2> SUFFICES ASSUME SyncInv, AsyncInv, [ThreadsNext \/ TasksNext]_semVars PROVE SyncInv' /\ AsyncInv'
    OBVIOUS
  <2>1. CASE ThreadsNext
    <3>1. UNCHANGED asyncVars
      BY <2>1 DEF ThreadsNext, wait, Signal, SemStep, TryPermit, SignalTake, SemRest
    <3>2. QED
      BY <2>1, <3>1, ThreadsKeep, AsyncRests
  <2>2. CASE TasksNext
    <3>1. UNCHANGED SyncVars
      BY <2>2 DEF TasksNext, Poll, EnqueueWaker, ASignal, WakeFirst
    <3>2. QED
      BY <2>2, <3>1, TasksKeep, SyncRests
  <2>3. CASE UNCHANGED semVars
    BY <2>3, SyncRests, AsyncRests DEF semVars, SyncVars
  <2>4. QED
    BY <2>1, <2>2, <2>3
<1>3. SyncInv /\ AsyncInv => SemaphoreInv /\ OneWakePerSleep
  BY SemaphoresKeep, WakesBalance DEF SyncInv
<1>4. QED
  BY <1>1, <1>2, <1>3, PTL DEF SemSpec

-----------------------------------------------------------------------------
(* The event queues *)

\* What the invariant needs of the types of the variables it counts.
EventTypeOK ==
    /\ events \in Seq(Thread) /\ posting \in SUBSET (Thread \ {EvReader}) /\ passed \in BOOLEAN /\ value \in Nat
    /\ aevents \in Seq({EvTask}) /\ aposting \in Nat /\ apassed \in BOOLEAN /\ avalue \in Nat
PcTypeOK ==
    /\ pc \in [Thread -> WaitPC \cup SignalPC \cup {"idle"}]
    /\ apc \in [SemTask -> {"ready", "poll", "enqueue", "missed", "pending", "lost", "panic"}]
\* The right to dequeue is not lost in another wait: it is used at the head of
\* the loop.
PassedAtHead == (passed => pc[EvReader] = "idle") /\ (apassed => apc[EvTask] = "ready")
\* Nobody else waits on the AsyncSemaphore.
OneWaker == fifo \in {<<>>, <<EvTask>>} /\ (fifo # <<>> => apc[EvTask] \in {"pending", "lost"})
Covered == Len(events) <= value + Cardinality(posting) + One(passed)
ACovered == Len(aevents) <= avalue + aposting + One(apassed)
EventIInv == EventTypeOK /\ PcTypeOK /\ PassedAtHead /\ OneWaker /\ Covered /\ ACovered

\* Posters are counted by numbers, and one more or less is one more or less.
LEMMA PostersCount ==
    ASSUME EvAssumption, posting \in SUBSET (Thread \ {EvReader})
    PROVE  /\ Cardinality(posting) \in Nat
           /\ \A t \in Thread \ posting : Cardinality(posting \cup {t}) = Cardinality(posting) + 1
           /\ \A t \in posting : Cardinality(posting \ {t}) = Cardinality(posting) - 1
<1>1. IsFiniteSet(posting)
  BY FS_Subset DEF EvAssumption
<1>2. Cardinality(posting) \in Nat
  BY <1>1, FS_CardinalityType
<1>3. ASSUME NEW t \in Thread \ posting
      PROVE  Cardinality(posting \cup {t}) = Cardinality(posting) + 1
  BY <1>1, <1>3, FS_AddElement
<1>4. ASSUME NEW t \in posting
      PROVE  Cardinality(posting \ {t}) = Cardinality(posting) - 1
  BY <1>1, <1>4, FS_RemoveElement
<1>5. QED
  BY <1>2, <1>3, <1>4

\* A step of the thread that waits: an event goes, or a permit becomes the
\* right to dequeue, or the queue is empty.
LEMMA ReaderKeeps ==
    ASSUME EvAssumption, EventIInv, Reader
    PROVE  EventIInv'
<1> USE DEF EventIInv, EventTypeOK, PcTypeOK, PassedAtHead, OneWaker, Covered, ACovered
<1>0. Cardinality(posting) \in Nat /\ Len(events) \in Nat /\ EvReader \in Thread
  BY PostersCount DEF EvAssumption
<1>a. One(TRUE) = 1 /\ One(FALSE) = 0 /\ One(passed) \in 0..1
  BY DEF One
<1>1. CASE GetEvent
  <2>1. /\ events # <<>> /\ events' = Tail(events) /\ passed' = FALSE
        /\ UNCHANGED <<posting, pc, value, avalue, apc, fifo, aevents, aposting, apassed>>
    BY <1>1 DEF GetEvent, semVars, signalVars, asyncVars, onlyAEv
  <2>2. events' \in Seq(Thread) /\ Len(events') = Len(events) - 1
    BY <2>1
  <2>3. One(passed') = 0
    BY <1>a, <2>1
  <2>4. Len(events') <= value' + Cardinality(posting') + One(passed')
    BY <1>0, <1>a, <2>1, <2>2, <2>3
  <2>5. QED
    BY <2>1, <2>2, <2>4
<1>2. CASE WaitEvent
  <2>1. /\ events = <<>> /\ passed' = FALSE /\ pc' = [pc EXCEPT ![EvReader] = "try"]
        /\ UNCHANGED <<events, posting, value, avalue, apc, fifo, aevents, aposting, apassed>>
    BY <1>2 DEF WaitEvent, wait, Goto, asyncVars, onlyAEv
  <2>2. Len(events) = 0
    BY <2>1
  <2>3. pc' \in [Thread -> WaitPC \cup SignalPC \cup {"idle"}]
    BY <2>1 DEF WaitPC
  <2>4. One(passed') = 0
    BY <1>a, <2>1
  <2>5. Len(events') <= value' + Cardinality(posting') + One(passed')
    BY <1>0, <2>1, <2>2, <2>4
  <2>6. QED
    BY <2>1, <2>3, <2>5
<1>3. CASE ReaderTries
  <2>1. /\ value >= 1 => value' = value - 1
        /\ ~(value >= 1) => value' = value
        /\ passed' = (value >= 1)
        /\ pc[EvReader] # "idle"
        /\ \E to \in WaitPC : pc' = [pc EXCEPT ![EvReader] = IF value >= 1 THEN "idle" ELSE to]
        /\ UNCHANGED <<events, posting, avalue, apc, fifo, aevents, aposting, apassed>>
    BY <1>3 DEF ReaderTries, TryPermit, Tried, Goto, WaitPC, asyncVars, onlyAEv
  <2>2. One(passed) = 0
    BY <1>a, <2>1 DEF One
  <2>3. pc' \in [Thread -> WaitPC \cup SignalPC \cup {"idle"}]
    BY <2>1
  <2>4. CASE value >= 1
    <3>a. passed' = TRUE
      BY <2>1, <2>4, Zenon
    <3>1. pc'[EvReader] = "idle" /\ passed' = TRUE /\ value' = value - 1 /\ value' \in Nat
      BY <1>0, <2>1, <2>4, <3>a
    <3>2. One(passed') = 1
      BY <1>a, <3>1
    <3>3. Len(events') <= value' + Cardinality(posting') + One(passed')
      BY <1>0, <2>1, <2>2, <3>1, <3>2
    <3>4. EventTypeOK' /\ PcTypeOK'
      BY <2>1, <2>3, <3>1
    <3>5. PassedAtHead'
      BY <2>1, <3>1
    <3>6. QED
      BY <2>1, <3>3, <3>4, <3>5
  <2>5. CASE ~(value >= 1)
    <3>1. passed' = FALSE /\ value' = value
      BY <2>1, <2>5
    <3>2. Len(events') <= value' + Cardinality(posting') + One(passed')
      BY <1>0, <1>a, <2>1, <2>2, <3>1
    <3>3. QED
      BY <2>1, <2>3, <3>1, <3>2
  <2>6. QED
    BY <2>4, <2>5
<1>4. CASE ReaderRest
  <2>1. /\ pc[EvReader] # "idle" /\ UNCHANGED <<events, posting, passed, value, avalue, apc, fifo, aevents, aposting, apassed>>
        /\ \E to \in WaitPC \cup SignalPC \cup {"idle"} : pc' = [pc EXCEPT ![EvReader] = to]
    BY <1>4 DEF ReaderRest, SemRest, WaitStep, Register, TimerEnds, SleepThread, Woken, Wake, Goto, WaitPC, SignalPC,
                asyncVars, onlyEv, onlyAEv
  <2>2. QED
    BY <1>0, <2>1
<1>5. QED
  BY <1>1, <1>2, <1>3, <1>4 DEF Reader

\* A step of a poster: one event more and one poster more, or one permit more
\* and one poster less.
LEMMA PostersKeep ==
    ASSUME EvAssumption, EventIInv, NEW t \in Thread, PostEvent(t) \/ PostSignal(t) \/ PostRest(t)
    PROVE  EventIInv'
<1> USE DEF EventIInv, EventTypeOK, PcTypeOK, PassedAtHead, OneWaker, Covered, ACovered
<1>0. Cardinality(posting) \in Nat /\ Len(events) \in Nat /\ EvReader \in Thread
  BY PostersCount DEF EvAssumption
<1>a. One(passed) \in 0..1
  BY DEF One
<1>1. CASE PostEvent(t)
  <2>1. /\ t \notin posting
        /\ t # EvReader
        /\ \/ events' = Append(events, t) /\ posting' = posting \cup {t}
           \/ UNCHANGED <<events, posting>>
        /\ UNCHANGED <<passed, pc, value, avalue, apc, fifo, aevents, aposting, apassed>>
    BY <1>1 DEF PostEvent, semVars, signalVars, asyncVars, onlyAEv
  <2>2. CASE events' = Append(events, t) /\ posting' = posting \cup {t}
    <3>1. Cardinality(posting') = Cardinality(posting) + 1
      BY <2>1, <2>2, PostersCount
    <3>2. events' \in Seq(Thread) /\ Len(events') = Len(events) + 1
      BY <2>2
    <3>3. Len(events') <= value' + Cardinality(posting') + One(passed')
      BY <1>0, <1>a, <2>1, <3>1, <3>2
    <3>4. QED
      BY <2>1, <2>2, <3>2, <3>3
  <2>3. CASE UNCHANGED <<events, posting>>
    BY <2>1, <2>3
  <2>4. QED
    BY <2>1, <2>2, <2>3
<1>2. CASE PostSignal(t)
  <2>1. /\ t \in posting /\ posting' = posting \ {t} /\ value' = value + 1
        /\ pc[t] = "idle" /\ pc' = [pc EXCEPT ![t] = "take"]
        /\ UNCHANGED <<events, passed, avalue, apc, fifo, aevents, aposting, apassed>>
    BY <1>2 DEF PostSignal, Signal, Goto, asyncVars, onlyAEv
  <2>2. Cardinality(posting') = Cardinality(posting) - 1
    BY <2>1, PostersCount
  <2>3. Len(events') <= value' + Cardinality(posting') + One(passed')
    BY <1>0, <1>a, <2>1, <2>2
  <2>4. QED
    BY <1>0, <2>1, <2>3 DEF SignalPC
<1>3. CASE PostRest(t)
  <2>1. /\ t # EvReader
        /\ UNCHANGED <<events, posting, passed, value, avalue, apc, fifo, aevents, aposting, apassed>>
        /\ \E to \in WaitPC \cup SignalPC \cup {"idle"} : pc' = [pc EXCEPT ![t] = to]
    BY <1>3 DEF PostRest, SignalTake, Take, SemRest, WaitStep, Register, TimerEnds, SleepThread, Woken, Wake, Goto,
                WaitPC, SignalPC, asyncVars, onlyEv, onlyAEv
  <2>2. QED
    BY <1>0, <2>1
<1>4. QED
  BY <1>1, <1>2, <1>3

\* A step around the AsyncEventQueue: the same sums, with numbers.
LEMMA AsyncKeeps ==
    ASSUME EvAssumption, EventIInv, AsyncEventsNext
    PROVE  EventIInv'
<1> USE DEF EventIInv, EventTypeOK, PcTypeOK, PassedAtHead, OneWaker, Covered, ACovered
<1>0. Len(aevents) \in Nat /\ EvTask \in SemTask
  BY DEF EvAssumption
<1>a. One(TRUE) = 1 /\ One(FALSE) = 0 /\ One(apassed) \in 0..1
  BY DEF One
<1>1. CASE APostEvent
  <2>1. /\ \/ aevents' = Append(aevents, EvTask) /\ aposting' = aposting + 1
           \/ UNCHANGED <<aevents, aposting>>
        /\ UNCHANGED <<apassed, pc, value, avalue, apc, fifo, events, posting, passed>>
    BY <1>1 DEF APostEvent, semVars, signalVars, asyncVars, onlyEv
  <2>2. CASE aevents' = Append(aevents, EvTask) /\ aposting' = aposting + 1
    <3>1. aevents' \in Seq({EvTask}) /\ Len(aevents') = Len(aevents) + 1
      BY <2>2
    <3>2. Len(aevents') <= avalue' + aposting' + One(apassed')
      BY <1>0, <1>a, <2>1, <2>2, <3>1
    <3>3. QED
      BY <2>1, <2>2, <3>1, <3>2
  <2>3. CASE UNCHANGED <<aevents, aposting>>
    BY <2>1, <2>3
  <2>4. QED
    BY <2>1, <2>2, <2>3
<1>2. CASE APostSignal
  <2>1. /\ aposting > 0 /\ aposting' = aposting - 1 /\ avalue' = avalue + 1
        /\ UNCHANGED <<aevents, apassed, pc, value, apc, fifo, events, posting, passed>>
    BY <1>2 DEF APostSignal, ASignal, SyncVars, signalVars, onlyEv
  <2>2. Len(aevents') <= avalue' + aposting' + One(apassed')
    BY <1>0, <1>a, <2>1
  <2>3. QED
    BY <2>1, <2>2
<1>3. CASE AGetEvent
  <2>1. /\ apc[EvTask] = "ready" /\ apassed' = FALSE
        /\ \/ aevents # <<>> /\ aevents' = Tail(aevents) /\ UNCHANGED apc
           \/ aevents = <<>> /\ UNCHANGED aevents /\ apc' = [apc EXCEPT ![EvTask] = "poll"]
        /\ UNCHANGED <<aposting, pc, value, avalue, fifo, events, posting, passed>>
    BY <1>3 DEF AGetEvent, semVars, SyncVars, signalVars, asyncVars, onlyEv
  <2>2. aevents' \in Seq({EvTask}) /\ (Len(aevents') = Len(aevents) - 1 \/ Len(aevents') = 0)
    <3>1. CASE aevents # <<>> /\ aevents' = Tail(aevents)
      BY <3>1
    <3>2. CASE aevents = <<>> /\ aevents' = aevents
      BY <3>2
    <3>3. QED
      BY <2>1, <3>1, <3>2
  <2>3. One(apassed') = 0
    BY <1>a, <2>1
  <2>4. Len(aevents') <= avalue' + aposting' + One(apassed')
    BY <1>0, <1>a, <2>1, <2>2, <2>3
  <2>5. QED
    BY <2>1, <2>2, <2>4
<1>4. CASE APoll
  <2>1. /\ avalue >= 1 => avalue' = avalue - 1 /\ apc' = [apc EXCEPT ![EvTask] = "ready"]
        /\ ~(avalue >= 1) => avalue' = avalue /\ apc' = [apc EXCEPT ![EvTask] = "enqueue"]
        /\ apassed' = (avalue >= 1)
        /\ apc[EvTask] = "poll"
        /\ UNCHANGED <<aevents, aposting, pc, value, fifo, events, posting, passed>>
    BY <1>4 DEF APoll, Poll, SyncVars, signalVars, onlyEv
  <2>2. One(apassed) = 0
    BY <1>a, <2>1 DEF One
  <2>3. CASE avalue >= 1
    <3>1. apassed' = TRUE
      BY <2>1, <2>3, Zenon
    <3>2. apc'[EvTask] = "ready" /\ avalue' \in Nat
      BY <1>0, <2>1, <2>3
    <3>a. One(apassed') = 1
      BY <1>a, <3>1
    <3>3. Len(aevents') <= avalue' + aposting' + One(apassed')
      BY <1>0, <2>1, <2>2, <2>3, <3>a
    <3>4. EventTypeOK' /\ PcTypeOK'
      BY <2>1, <2>3, <3>1, <3>2
    <3>5. PassedAtHead'
      BY <2>1, <3>1, <3>2
    <3>6. QED
      BY <2>1, <3>3, <3>4, <3>5
  <2>4. CASE ~(avalue >= 1)
    <3>1. apassed' = FALSE
      BY <2>1, <2>4
    <3>2. Len(aevents') <= avalue' + aposting' + One(apassed')
      BY <1>0, <1>a, <2>1, <2>2, <2>4, <3>1
    <3>3. QED
      BY <2>1, <2>4, <3>1, <3>2
  <2>5. QED
    BY <2>3, <2>4
<1>5. CASE AEnqueue
  <2>1. /\ apc[EvTask] \in {"enqueue", "missed"}
        /\ \/ fifo' = Append(fifo, EvTask) /\ \E to \in {"lost", "pending"} : apc' = [apc EXCEPT ![EvTask] = to]
           \/ UNCHANGED fifo /\ apc' = [apc EXCEPT ![EvTask] = "panic"]
        /\ UNCHANGED <<aevents, aposting, apassed, avalue, pc, value, events, posting, passed>>
    BY <1>5 DEF AEnqueue, EnqueueWaker, SyncVars, signalVars, onlyEv, onlyAEv
  <2>2. fifo = <<>>
    BY <2>1
  <2>3. Append(<<>>, EvTask) = <<EvTask>>
    OBVIOUS
  <2>4. QED
    BY <1>0, <2>1, <2>2, <2>3
<1>6. CASE AWake
  <2>1. UNCHANGED <<aevents, aposting, apassed, avalue, pc, value, events, posting, passed>>
    BY <1>6 DEF AWake, WakeFirst, SyncVars, signalVars, onlyEv, onlyAEv
  <2>2. CASE fifo = <<>>
    <3>1. UNCHANGED fifo /\ apc' = [k \in SemTask |-> IF apc[k] = "enqueue" THEN "missed" ELSE apc[k]]
      BY <1>6, <2>2 DEF AWake, WakeFirst
    <3>2. QED
      BY <1>0, <2>1, <2>2, <3>1
  <2>3. CASE fifo = <<EvTask>>
    <3>1. Head(fifo) = EvTask /\ Tail(fifo) = <<>> /\ fifo # <<>>
      BY <2>3
    <3>2. fifo' = <<>> /\ apc' = [apc EXCEPT ![EvTask] = "poll"]
      BY <1>6, <3>1 DEF AWake, WakeFirst
    <3>3. ~apassed
      BY <3>1
    <3>4. QED
      BY <1>0, <2>1, <3>2, <3>3
  <2>4. QED
    BY <2>2, <2>3
<1>7. QED
  BY <1>1, <1>2, <1>3, <1>4, <1>5, <1>6 DEF AsyncEventsNext, AReader

LEMMA EventIStarts ==
    ASSUME EvAssumption
    PROVE  EvInit => EventIInv
<1> SUFFICES ASSUME EvInit PROVE EventIInv
  OBVIOUS
<1>1. Cardinality(posting) = 0
  BY FS_EmptySet DEF EvInit
<1>2. One(passed) = 0 /\ One(apassed) = 0
  BY DEF EvInit, One
<1>3. EventTypeOK
  <2>1. passed \in BOOLEAN /\ apassed \in BOOLEAN
    BY Zenon DEF EvInit
  <2>2. /\ events \in Seq(Thread) /\ posting \in SUBSET (Thread \ {EvReader}) /\ value \in Nat
        /\ aevents \in Seq({EvTask}) /\ aposting \in Nat /\ avalue \in Nat
    BY DEF EvInit
  <2>3. QED
    BY <2>1, <2>2 DEF EventTypeOK
<1>4. PcTypeOK /\ PassedAtHead /\ OneWaker
  BY DEF EvInit, SignalInit, PcTypeOK, PassedAtHead, OneWaker
<1>5. Len(events) = 0 /\ Len(aevents) = 0 /\ value = 0 /\ avalue = 0 /\ aposting = 0
  BY DEF EvInit
<1>6. Covered /\ ACovered
  BY <1>1, <1>2, <1>5 DEF Covered, ACovered
<1>7. QED
  BY <1>3, <1>4, <1>6 DEF EventIInv

LEMMA EventIKeeps ==
    ASSUME EvAssumption
    PROVE  EventIInv /\ [EvNext]_evVars => EventIInv'
<1> SUFFICES ASSUME EventIInv, [EvNext]_evVars PROVE EventIInv'
  OBVIOUS
<1>1. CASE Reader
  BY <1>1, ReaderKeeps
<1>2. CASE \E t \in Thread : PostEvent(t) \/ PostSignal(t) \/ PostRest(t)
  BY <1>2, PostersKeep
<1>3. CASE AsyncEventsNext
  BY <1>3, AsyncKeeps
<1>4. CASE UNCHANGED evVars
  BY <1>4 DEF evVars, semVars, signalVars, asyncVars, onlyEv, onlyAEv, EventIInv, EventTypeOK, PcTypeOK, PassedAtHead,
              OneWaker, Covered, ACovered
<1>5. QED
  BY <1>1, <1>2, <1>3, <1>4 DEF EvNext, EventsNext

\* For any number of posters, of events and of signals: whenever there is an
\* event in the queue there is a permit for it, a poster that is about to give
\* one, or a reader that has taken one and is about to dequeue
\* (EventQueue::post, wait_event).
THEOREM EventsAreCovered ==
    ASSUME EvAssumption
    PROVE  EvSpec => []EventsCovered
<1>1. EventIInv => EventsCovered
  BY DEF EventIInv, Covered, ACovered, EventsCovered
<1>2. QED
  BY <1>1, EventIStarts, EventIKeeps, PTL DEF EvSpec

-----------------------------------------------------------------------------
(* The semaphores under the queues *)

\* Nobody but the reader of the AsyncEventQueue waits on its semaphore.
OthersReady == \A k \in SemTask : k # EvTask => apc[k] = "ready"

\* The reader has found no event and creates a future that it polls at once.
LEMMA RepollKeeps ==
    ASSUME SemAssumption, AsyncInv, NEW k \in SemTask, apc[k] = "ready",
           apc' = [apc EXCEPT ![k] = "poll"], UNCHANGED <<avalue, asignals, apasses, owed, fifo>>
    PROVE  AsyncInv'
<1>1. Cardinality(Pollers') = Cardinality(Pollers) + 1 /\ Cardinality(Pollers) \in Nat
  BY PollerComes, PollersFinite DEF AsyncInv
<1>2. QueuedOnce' /\ PanicWhenFull'
  BY DEF AsyncInv, QueuedOnce, InQueue, PanicWhenFull
<1>3. PermitsAnnounced'
  <2>1. (\E j \in SemTask : apc'[j] \in {"enqueue", "pending"}) => \E j \in SemTask : apc[j] \in {"enqueue", "pending"}
    BY DEF AsyncInv
  <2>2. QED
    BY <1>1, <2>1 DEF AsyncInv, PermitsAnnounced
<1>4. QED
  BY <1>2, <1>3 DEF AsyncInv, AsyncPC

\* The reader and the posters use the Semaphore as threads do.
LEMMA EventsUseSemaphore ==
    ASSUME EvAssumption, SyncInv, EventsNext
    PROVE  SyncInv' /\ UNCHANGED asyncVars
<1>1. CASE GetEvent \/ \E t \in Thread : PostEvent(t)
  <2>1. UNCHANGED semVars
    BY <1>1 DEF GetEvent, PostEvent
  <2>2. QED
    BY <2>1, SyncRests DEF semVars, SyncVars
<1>2. CASE WaitEvent
  BY <1>2, WaitKeeps DEF WaitEvent, wait, EvAssumption
<1>3. CASE ReaderTries
  BY <1>3, TryPermitKeeps DEF ReaderTries, TryPermit, EvAssumption
<1>4. CASE ReaderRest
  BY <1>4, SemRestKeeps DEF ReaderRest, SemRest, EvAssumption
<1>5. ASSUME NEW t \in Thread, PostSignal(t) PROVE SyncInv' /\ UNCHANGED asyncVars
  BY <1>5, SignalKeeps DEF PostSignal, Signal
<1>6. ASSUME NEW t \in Thread, PostRest(t) PROVE SyncInv' /\ UNCHANGED asyncVars
  BY <1>6, SignalTakeKeeps, SemRestKeeps DEF PostRest, SignalTake, SemRest
<1>7. QED
  BY <1>1, <1>2, <1>3, <1>4, <1>5, <1>6 DEF EventsNext, Reader

LEMMA AsyncEventsUseSemaphore ==
    ASSUME EvAssumption, AsyncInv, EventIInv, OthersReady, AsyncEventsNext
    PROVE  AsyncInv' /\ OthersReady' /\ UNCHANGED SyncVars
<1>0. EvTask \in SemTask /\ SemAssumption /\ apc \in [SemTask -> AsyncPC]
  BY DEF EvAssumption, AsyncInv
<1>1. CASE APostEvent
  <2>1. UNCHANGED semVars
    BY <1>1 DEF APostEvent
  <2>2. UNCHANGED asyncVars /\ UNCHANGED SyncVars /\ UNCHANGED apc
    BY <2>1 DEF semVars, asyncVars, SyncVars
  <2>3. QED
    BY <2>2, AsyncRests DEF OthersReady
<1>2. CASE APostSignal
  <2>1. ASignal
    BY <1>2 DEF APostSignal
  <2>2. QED
    BY <1>0, <2>1, ASignalKeeps DEF ASignal, OthersReady
<1>3. CASE AGetEvent
  <2>1. CASE aevents # <<>>
    <3>1. UNCHANGED semVars
      BY <1>3, <2>1 DEF AGetEvent
    <3>2. UNCHANGED asyncVars /\ UNCHANGED SyncVars /\ UNCHANGED apc
      BY <3>1 DEF semVars, asyncVars, SyncVars
    <3>3. QED
      BY <3>2, AsyncRests DEF OthersReady
  <2>2. CASE aevents = <<>>
    <3>1. /\ apc[EvTask] = "ready" /\ apc' = [apc EXCEPT ![EvTask] = "poll"]
          /\ UNCHANGED <<avalue, asignals, apasses, owed, fifo, SyncVars>>
      BY <1>3, <2>2 DEF AGetEvent
    <3>2. AsyncInv'
      BY <1>0, <3>1, RepollKeeps
    <3>3. OthersReady'
      BY <1>0, <3>1 DEF OthersReady
    <3>4. QED
      BY <3>1, <3>2, <3>3
  <2>3. QED
    BY <2>1, <2>2
<1>4. CASE APoll
  <2>1. Poll(EvTask)
    BY <1>4 DEF APoll
  <2>2. \E to : apc' = [apc EXCEPT ![EvTask] = to]
    BY <2>1 DEF Poll
  <2>3. OthersReady'
    BY <1>0, <2>2 DEF OthersReady
  <2>4. QED
    BY <1>0, <2>1, <2>3, PollKeeps DEF Poll
<1>5. CASE AEnqueue
  <2>1. EnqueueWaker(EvTask)
    BY <1>5 DEF AEnqueue
  <2>2. \E to : apc' = [apc EXCEPT ![EvTask] = to]
    BY <2>1 DEF EnqueueWaker
  <2>3. OthersReady'
    BY <1>0, <2>2 DEF OthersReady
  <2>4. QED
    BY <1>0, <2>1, <2>3, EnqueueWakerKeeps DEF EnqueueWaker
<1>6. CASE AWake
  <2>1. WakeFirst
    BY <1>6 DEF AWake
  <2>2. CASE fifo = <<>>
    <3>1. apc' = [k \in SemTask |-> IF apc[k] = "enqueue" THEN "missed" ELSE apc[k]]
      BY <2>1, <2>2 DEF WakeFirst
    <3>2. OthersReady'
      BY <1>0, <3>1 DEF OthersReady
    <3>3. QED
      BY <1>0, <2>1, <3>2, WakeFirstKeeps DEF WakeFirst
  <2>3. CASE fifo = <<EvTask>>
    <3>1. Head(fifo) = EvTask /\ fifo # <<>>
      BY <2>3
    <3>2. apc' = [apc EXCEPT ![EvTask] = "poll"]
      BY <2>1, <3>1 DEF WakeFirst
    <3>3. OthersReady'
      BY <1>0, <3>2 DEF OthersReady
    <3>4. QED
      BY <1>0, <2>1, <3>3, WakeFirstKeeps DEF WakeFirst
  <2>4. QED
    BY <2>2, <2>3 DEF EventIInv, OneWaker
<1>7. QED
  BY <1>1, <1>2, <1>3, <1>4, <1>5, <1>6 DEF AsyncEventsNext, AReader

\* A reader that waits next to an event waits next to a permit.
LEMMA MissedOnlyByRace ==
    ASSUME EvAssumption, EventIInv, SyncInv, AsyncInv, OthersReady
    PROVE  EventMissedOnlyByRace
<1>1. ASSUME events # <<>>, posting = {}, pc[EvReader] = "asleep", slot = EvReader,
             \A t \in Thread : pc[t] # "take"
      PROVE  EvReader \in raced
  <2>1. Len(events) \in Nat \ {0} /\ value \in Nat
    BY <1>1 DEF EventIInv, EventTypeOK
  <2>2. Cardinality(posting) = 0
    BY <1>1, FS_EmptySet
  <2>3. One(passed) = 0
    BY <1>1 DEF EventIInv, PassedAtHead, One
  <2>4. value > 0
    BY <2>1, <2>2, <2>3 DEF EventIInv, Covered
  <2>5. QED
    BY <1>1, <2>4 DEF SyncInv, FailedBeforeSignal, Failed, EvAssumption
<1>2. ASSUME aevents # <<>>, aposting = 0, owed = 0, apc[EvTask] = "pending"
      PROVE  FALSE
  <2>1. Len(aevents) \in Nat \ {0} /\ avalue \in Nat
    BY <1>2 DEF EventIInv, EventTypeOK
  <2>2. One(apassed) = 0
    BY <1>2 DEF EventIInv, PassedAtHead, One
  <2>3. avalue > 0
    BY <1>2, <2>1, <2>2 DEF EventIInv, ACovered
  <2>4. Pollers = {}
    BY <1>2 DEF Pollers, OthersReady
  <2>5. Cardinality(Pollers) = 0
    BY <2>4, FS_EmptySet
  <2>6. avalue <= 0
    BY <1>2, <2>1, <2>5 DEF AsyncInv, PermitsAnnounced, EvAssumption
  <2>7. QED
    BY <2>1, <2>3, <2>6
<1>3. QED
  BY <1>1, <1>2 DEF EventMissedOnlyByRace

LEMMA EventsStart == ASSUME EvAssumption, EvInit PROVE SyncInv /\ AsyncInv /\ OthersReady
<1>1. SyncInv
  BY SyncStarts DEF EvInit
<1>2. AsyncInv
  BY AsyncStarts DEF EvInit, EvAssumption
<1>3. OthersReady
  BY DEF EvInit, OthersReady
<1>4. QED
  BY <1>1, <1>2, <1>3

(* What the event queues and the semaphores under them keep, for any number *)
(* of posters, events and signals: a reader sleeps next to an event with    *)
(* nobody posting only if a signal came between its last try and its        *)
(* registration (signal.rs, `wait_for`), and a task waits so only if a      *)
(* signal found the queue of wakers empty (semaphore.rs, `poll`).           *)
THEOREM EventsAreServed ==
    ASSUME EvAssumption
    PROVE  EvSpec => [](EventsInv /\ SemaphoreInv /\ OneWakePerSleep)
<1> DEFINE All == EventIInv /\ SyncInv /\ AsyncInv /\ OthersReady
<1>1. EvInit => All
  BY EventsStart, EventIStarts
<1>2. All /\ [EvNext]_evVars => All'
  <2> SUFFICES ASSUME All, [EvNext]_evVars PROVE All'
    OBVIOUS
  <2>1. EventIInv'
    BY EventIKeeps
  <2>2. CASE EventsNext
    <3>1. SyncInv' /\ UNCHANGED asyncVars
      BY <2>2, EventsUseSemaphore
    <3>2. AsyncInv' /\ OthersReady'
      BY <3>1, AsyncRests DEF asyncVars, OthersReady
    <3>3. QED
      BY <2>1, <3>1, <3>2
  <2>3. CASE AsyncEventsNext
    <3>1. AsyncInv' /\ OthersReady' /\ UNCHANGED SyncVars
      BY <2>3, AsyncEventsUseSemaphore
    <3>2. QED
      BY <2>1, <3>1, SyncRests
  <2>4. CASE UNCHANGED evVars
    <3>1. UNCHANGED SyncVars /\ UNCHANGED asyncVars
      BY <2>4 DEF evVars, semVars, SyncVars
    <3>2. QED
      BY <2>1, <3>1, SyncRests, AsyncRests DEF asyncVars, OthersReady
  <2>5. QED
    BY <2>2, <2>3, <2>4 DEF EvNext
<1>3. All => EventsInv /\ SemaphoreInv /\ OneWakePerSleep
  <2> SUFFICES ASSUME All PROVE EventsInv /\ SemaphoreInv /\ OneWakePerSleep
    OBVIOUS
  <2>1. SemaphoreInv
    BY SemaphoresKeep DEF EvAssumption
  <2>2. EventsCovered
    BY DEF EventIInv, Covered, ACovered, EventsCovered
  <2>3. QED
    BY <2>1, <2>2, MissedOnlyByRace, WakesBalance DEF EventsInv, SemaphoreInv, SyncInv
<1>4. QED
  BY <1>1, <1>2, <1>3, PTL DEF EvSpec

-----------------------------------------------------------------------------
(* RwLock, for any set of threads.  The set need not be finite: the readers  *)
(* are, because they are counted.                                            *)

RwPC == WaitPC \cup SignalPC \cup {"idle", "held", "check"}

\* What the word `data` says, and the types that it needs.
RwInv ==
    /\ data \in Nat
    /\ pc \in [Thread -> RwPC]
    /\ writes \in [Thread -> BOOLEAN]
    /\ IsFiniteSet(Readers)
    /\ WriterIsAlone

-----------------------------------------------------------------------------
\* What an exchange that succeeds has found.
LEMMA FoundFree ==
    ASSUME RwInv
    PROVE  /\ CanRead => Writers = {} /\ data = 2 * Cardinality(Readers)
           /\ CanWrite => Writers = {} /\ Readers = {}
<1>1. Cardinality(Readers) \in Nat
  BY FS_CardinalityType DEF RwInv
<1>2. Writers # {} => data = 1
  BY DEF RwInv, WriterIsAlone, LOCK_WRITE
<1>3. Writers = {} => data = 2 * Cardinality(Readers)
  BY DEF RwInv, WriterIsAlone, LOCK_COUNT
<1>4. CanRead => Writers = {}
  BY <1>2 DEF CanRead, LOCK_COUNT
<1>5. CanWrite => Writers = {} /\ Cardinality(Readers) = 0
  BY <1>1, <1>2, <1>3 DEF CanWrite
<1>6. Cardinality(Readers) = 0 => Readers = {}
  BY FS_EmptySet DEF RwInv
<1>7. QED
  BY <1>3, <1>4, <1>5, <1>6

\* A step that neither enters nor leaves "held" and spares the word, and does
\* not change what the holders hold.
LEMMA AwayFromGuard ==
    ASSUME RwInv, NEW t \in Thread, NEW to \in RwPC, pc' = [pc EXCEPT ![t] = to],
           pc[t] # "held", to # "held", UNCHANGED data,
           NEW w \in BOOLEAN, writes' = [writes EXCEPT ![t] = w]
    PROVE  RwInv'
<1>1. pc' \in [Thread -> RwPC] /\ writes' \in [Thread -> BOOLEAN]
  BY DEF RwInv
<1>2. Readers' = Readers /\ Writers' = Writers
  BY DEF RwInv, Readers, Writers
<1>3. QED
  BY <1>1, <1>2 DEF RwInv, WriterIsAlone

\* The same for a thread that only waits or signals.
LEMMA NotTheGuard ==
    ASSUME RwInv, NEW t \in Thread, NEW from, NEW to \in RwPC, Goto(t, from, to),
           from # "held", to # "held", UNCHANGED <<data, writes>>
    PROVE  RwInv'
<1>1. writes' = [writes EXCEPT ![t] = writes[t]] /\ writes[t] \in BOOLEAN
  BY DEF RwInv
<1>2. QED
  BY <1>1, AwayFromGuard DEF Goto

\* One reader more.
LEMMA ReaderEnters ==
    ASSUME RwInv, NEW t \in Thread, CanRead, pc[t] # "held",
           pc' = [pc EXCEPT ![t] = "held"], writes' = [writes EXCEPT ![t] = FALSE],
           data' = data + LOCK_COUNT
    PROVE  RwInv'
<1>1. Writers = {} /\ data = 2 * Cardinality(Readers) /\ IsFiniteSet(Readers) /\ Cardinality(Readers) \in Nat
  BY FoundFree, FS_CardinalityType DEF RwInv
<1>2. pc' \in [Thread -> RwPC] /\ writes' \in [Thread -> BOOLEAN]
  BY DEF RwInv, RwPC
<1>3. Readers' = Readers \cup {t} /\ Writers' = {} /\ t \notin Readers
  BY <1>1 DEF RwInv, Readers, Writers
<1>4. IsFiniteSet(Readers') /\ Cardinality(Readers') = Cardinality(Readers) + 1
  BY <1>1, <1>3, FS_AddElement
<1>5. data' = 2 * Cardinality(Readers') /\ data' \in Nat
  BY <1>1, <1>4 DEF LOCK_COUNT
<1>6. QED
  BY <1>2, <1>3, <1>4, <1>5 DEF RwInv, WriterIsAlone, LOCK_COUNT

\* The only writer.
LEMMA WriterEnters ==
    ASSUME RwInv, NEW t \in Thread, CanWrite, pc[t] # "held",
           pc' = [pc EXCEPT ![t] = "held"], writes' = [writes EXCEPT ![t] = TRUE],
           data' = LOCK_WRITE
    PROVE  RwInv'
<1>1. Writers = {} /\ Readers = {}
  BY FoundFree
<1>2. pc' \in [Thread -> RwPC] /\ writes' \in [Thread -> BOOLEAN]
  BY DEF RwInv, RwPC
<1>3. Readers' = {} /\ Writers' = {t}
  BY <1>1 DEF RwInv, Readers, Writers
<1>4. IsFiniteSet(Readers')
  BY <1>3, FS_EmptySet
<1>5. data' \in Nat
  BY DEF LOCK_WRITE
<1>6. QED
  BY <1>2, <1>3, <1>4, <1>5 DEF RwInv, WriterIsAlone

\* try_read or try_write by a thread that goes on to "held" if it succeeds.
LEMMA AcquireInv ==
    ASSUME RwInv, NEW t \in Thread, NEW w \in BOOLEAN, NEW other \in RwPC,
           pc[t] # "held", other # "held",
           pc' = [pc EXCEPT ![t] = IF Can(w) THEN "held" ELSE other],
           Acquire(w), writes' = [writes EXCEPT ![t] = w]
    PROVE  RwInv'
<1>1. CASE w /\ CanWrite
  BY <1>1, WriterEnters DEF Can, Acquire
<1>2. CASE ~w /\ CanRead
  BY <1>2, ReaderEnters DEF Can, Acquire
<1>3. CASE ~Can(w)
  <2>1. data' = data /\ pc' = [pc EXCEPT ![t] = other]
    BY <1>3 DEF Can, Acquire
  <2>2. QED
    BY <2>1, AwayFromGuard
<1>4. QED
  BY <1>1, <1>2, <1>3 DEF Can

LEMMA TryLockInv ==
    ASSUME RwInv, NEW t \in Thread, TryLock(t)
    PROVE  RwInv'
<1> DEFINE w == writes[t]
<1>1. w \in BOOLEAN /\ writes' = [writes EXCEPT ![t] = w] /\ Acquire(w)
  BY DEF RwInv, TryLock
<1>2. "reg" \in RwPC /\ "try" \in RwPC
  BY DEF RwPC, WaitPC
<1>3. \/ pc[t] = "try" /\ pc' = [pc EXCEPT ![t] = IF Can(w) THEN "held" ELSE "reg"]
      \/ pc[t] = "retry" /\ pc' = [pc EXCEPT ![t] = IF Can(w) THEN "held" ELSE "try"]
  BY DEF TryLock, Tried, Goto
<1> HIDE DEF w
<1>4. QED
  BY <1>1, <1>2, <1>3, AcquireInv

\* One reader less.
LEMMA ReadUnlockInv ==
    ASSUME RwInv, NEW t \in Thread, read_unlock(t)
    PROVE  RwInv'
<1>1. /\ ~writes[t] /\ pc[t] = "held" /\ pc' = [pc EXCEPT ![t] = "check"]
      /\ data' = data - 2 /\ writes' = writes
  BY DEF read_unlock, Goto, LOCK_COUNT
<1>2. t \in Readers /\ Writers = {} /\ IsFiniteSet(Readers)
  BY <1>1 DEF RwInv, WriterIsAlone, Readers
<1>3. data = 2 * Cardinality(Readers) /\ Cardinality(Readers) \in Nat
  BY <1>2, FS_CardinalityType DEF RwInv, WriterIsAlone, LOCK_COUNT
<1>4. Readers' = Readers \ {t} /\ Writers' = {}
  BY <1>1, <1>2 DEF RwInv, Readers, Writers
<1>5. IsFiniteSet(Readers') /\ Cardinality(Readers') = Cardinality(Readers) - 1
  BY <1>2, <1>4, FS_RemoveElement
<1>6. Cardinality(Readers') \in Nat
  BY <1>5, FS_CardinalityType
<1>7. data' = 2 * Cardinality(Readers') /\ data' \in Nat
  BY <1>1, <1>3, <1>5, <1>6
<1>8. pc' \in [Thread -> RwPC] /\ writes' \in [Thread -> BOOLEAN]
  BY <1>1 DEF RwInv, RwPC
<1>9. QED
  BY <1>4, <1>5, <1>7, <1>8 DEF RwInv, WriterIsAlone, LOCK_COUNT

\* The writer was alone, so there is nobody whose lock the store undoes.
LEMMA WriteUnlockInv ==
    ASSUME RwInv, NEW t \in Thread, write_unlock(t)
    PROVE  RwInv'
<1>1. /\ writes[t] /\ pc[t] = "held" /\ pc' = [pc EXCEPT ![t] = "check"]
      /\ data' = 0 /\ writes' = writes
  BY DEF write_unlock, Goto
<1>2. t \in Writers /\ Readers = {}
  BY <1>1 DEF RwInv, WriterIsAlone, Writers
<1>3. Readers' = {} /\ Writers' = {}
  BY <1>1, <1>2 DEF RwInv, Readers, Writers, WriterIsAlone
<1>4. IsFiniteSet(Readers') /\ Cardinality(Readers') = 0
  BY <1>3, FS_EmptySet
<1>5. pc' \in [Thread -> RwPC] /\ writes' \in [Thread -> BOOLEAN]
  BY <1>1 DEF RwInv, RwPC
<1>6. QED
  BY <1>1, <1>3, <1>4, <1>5 DEF RwInv, WriterIsAlone, LOCK_COUNT

LEMMA NextInv == RwInv /\ [Next]_vars => RwInv'
<1> SUFFICES ASSUME RwInv, [Next]_vars PROVE RwInv'
  OBVIOUS
<1>0. {"try", "reg", "sleep", "asleep", "timer", "retry", "take", "wake", "idle"}
         \subseteq RwPC
  BY DEF RwPC, WaitPC, SignalPC
<1>1. ASSUME NEW t \in Thread, NEW w \in BOOLEAN, lock(t, w) PROVE RwInv'
  BY <1>0, <1>1, AwayFromGuard DEF lock, Goto
<1>2. ASSUME NEW t \in Thread, NEW w \in BOOLEAN, try_lock(t, w) PROVE RwInv'
  BY <1>0, <1>2, AcquireInv DEF try_lock, Goto
<1>3. ASSUME NEW t \in Thread, Step(t) PROVE RwInv'
  <2>1. CASE TryLock(t)
    BY <2>1, TryLockInv
  <2>2. CASE read_unlock(t)
    BY <2>2, ReadUnlockInv
  <2>3. CASE write_unlock(t)
    BY <2>3, WriteUnlockInv
  <2>4. CASE Check(t)
    BY <1>0, <2>4, NotTheGuard DEF Check
  <2>5. CASE WaitStep(t) /\ UNCHANGED <<data, writes>>
    BY <1>0, <2>5, NotTheGuard DEF WaitStep, Register, TimerEnds, SleepThread, Woken
  <2>6. CASE (Take(t, "idle") \/ Wake(t, "idle")) /\ UNCHANGED <<data, writes>>
    BY <1>0, <2>6, NotTheGuard DEF Take, Wake
  <2>7. QED
    BY <1>3, <2>1, <2>2, <2>3, <2>4, <2>5, <2>6 DEF Step
<1>4. CASE UNCHANGED vars
  BY <1>4 DEF vars, signalVars, RwInv, WriterIsAlone, Readers, Writers
<1>5. QED
  BY <1>1, <1>2, <1>3, <1>4 DEF Next

-----------------------------------------------------------------------------
LEMMA NextWakes == RwInv /\ WakeInv /\ [Next]_vars => WakeInv'
<1> SUFFICES ASSUME RwInv, WakeInv, [Next]_vars PROVE WakeInv'
  OBVIOUS
<1>0. pc \in [Thread -> RwPC]
  BY DEF RwInv
<1>1. ASSUME NEW t \in Thread, NEW w \in BOOLEAN,
             lock(t, w) \/ try_lock(t, w) \/ read_unlock(t) \/ write_unlock(t) \/ Check(t)
      PROVE WakeInv'
  <2>1. PICK to : /\ pc' = [pc EXCEPT ![t] = to] /\ pc[t] \in {"idle", "held", "check"}
                  /\ to \in {"try", "idle", "held", "check", "take"}
    BY <1>1 DEF lock, try_lock, read_unlock, write_unlock, Check, Goto
  <2>2. UNCHANGED <<slot, counter, taken>>
    BY <1>1 DEF lock, try_lock, read_unlock, write_unlock, Check
  <2>3. QED
    BY <1>0, <2>1, <2>2, Elsewhere DEF SignalPlaces
<1>2. ASSUME NEW t \in Thread, TryLock(t) PROVE WakeInv'
  <2>1. "held" \notin SignalPlaces
    BY DEF SignalPlaces
  <2>2. PICK ok \in BOOLEAN : ok = Can(writes[t])
    BY DEF Can, CanRead, CanWrite
  <2>3. Tried(t, ok, "held") /\ UNCHANGED <<slot, counter, taken>>
    BY <1>2, <2>2 DEF TryLock
  <2>4. QED
    BY <1>0, <2>1, <2>3, TriedKeeps
<1>3. ASSUME NEW t \in Thread, WaitStep(t) PROVE WakeInv'
  BY <1>0, <1>3, WaitStepKeeps
<1>4. ASSUME NEW t \in Thread, Take(t, "idle") \/ Wake(t, "idle") PROVE WakeInv'
  <2>1. "idle" \notin SignalPlaces
    BY DEF SignalPlaces
  <2>2. QED
    BY <1>0, <1>4, <2>1, TakeKeeps, WakeKeeps
<1>5. CASE UNCHANGED vars
  BY <1>5, ObjectRests DEF vars
<1>6. QED
  BY <1>1, <1>2, <1>3, <1>4, <1>5 DEF Next, Step

LEMMA InitAll == Init => RwInv /\ WakeInv
<1> SUFFICES ASSUME Init PROVE RwInv /\ WakeInv
  OBVIOUS
<1>1. Readers = {} /\ Writers = {}
  BY DEF Init, SignalInit, Readers, Writers
<1>2. RwInv
  BY <1>1, FS_EmptySet DEF Init, SignalInit, RwInv, WriterIsAlone, RwPC, LOCK_COUNT
<1>3. WakeInv
  <2>1. "idle" \notin SignalPlaces
    BY DEF SignalPlaces
  <2>2. QED
    BY <2>1, SignalStarts DEF Init
<1>4. QED
  BY <1>2, <1>3

(* A writer of a RwLock is alone and the word counts the readers, for any   *)
(* number of threads: the store(0) of write_unlock wipes out nobody's lock, *)
(* and the fetch_sub of read_unlock does not wrap around (RwLockInner).     *)
(* Sleeps and wakes of readers and writers, who share one slot, balance,    *)
(* and the variables have their types.                                      *)
THEOREM RwLockIsExclusive == Spec => [](TypeOK /\ WriterIsAlone /\ OneWakePerSleep)
<1>1. RwInv /\ WakeInv => TypeOK /\ WriterIsAlone /\ OneWakePerSleep
  <2> SUFFICES ASSUME RwInv, WakeInv PROVE TypeOK /\ WriterIsAlone /\ OneWakePerSleep
    OBVIOUS
  <2>1. TypeOK
    BY DEF RwInv, WakeInv, TypeOK, SignalTypeOK, RwPC
  <2>2. QED
    BY <2>1, WakesBalance DEF RwInv
<1>2. QED
  BY <1>1, InitAll, NextInv, NextWakes, PTL DEF Spec

-----------------------------------------------------------------------------
(* WebAssembly programs *)

\* Min is the least element of a set of numbers.
LEMMA LeastIn ==
    ASSUME NEW T \in SUBSET Nat, T # {}
    PROVE  Min(T) \in T
<1>1. PICK x \in T : \A y \in T : ~(<<y, x>> \in OpToRel(<, Nat))
  BY NatLessThanWellFounded, WFMin
<1>2. ASSUME NEW y \in T PROVE x <= y
  <2>1. <<y, x>> \in Nat \X Nat /\ <<y, x>>[1] = y /\ <<y, x>>[2] = x
    OBVIOUS
  <2>2. ~(y < x)
    BY <1>1, <2>1 DEF OpToRel
  <2> QED BY <2>2
<1> QED BY <1>2 DEF Min

\* What the table of windows can hold.
Edges == [left : Int, top : Int, right : Int, bottom : Int]
OsWindows == [native : 1 .. Len(myQueue), region : Edges]

\* Each entry of the table has a native window of its own, whose number was
\* given out, under a handle that was given out.
MyWindowsOK ==
    /\ (\E S : myQueue \in Seq(S)) /\ myNext \in Nat
    /\ myWindows \in [DOMAIN myWindows -> OsWindows]
    /\ \A h \in DOMAIN myWindows : h \in Nat /\ h < myNext
    /\ \A h, k \in DOMAIN myWindows : myWindows[h].native = myWindows[k].native => h = k
    /\ myGone \subseteq 1 .. Len(myQueue)

\* What was drawn is kept for each window.
MyDirtyOK == myDirty \in [DOMAIN myWindows -> SUBSET (Int \X Int)]

\* Handles are numbers, and what is open is not 0.
MyFilesOK ==
    /\ \E S : myFiles \in Seq(S)
    /\ \A f \in myHeld : f.h \in Int /\ f.file # 0

\* What is still to come are calls.
MyLeftOK == (\E S : myLeft \in Seq(S)) /\ \A n \in 1 .. Len(myLeft) : IsCall(myLeft[n])

\* The part of the inductive invariant that is about windows and files.
MyosI ==
    MyWindowsOK /\ MyDirtyOK /\ MyFilesOK /\ MyLeftOK /\ HandlesMeanFiles /\ WindowsAccounted /\ DrawnIsInvalidated

\* A function from 1 .. n is a sequence of n elements.
LEMMA ListOf ==
    ASSUME NEW n \in Nat, NEW f, f = [k \in 1 .. n |-> f[k]]
    PROVE  f \in Seq({f[k] : k \in 1 .. n}) /\ Len(f) = n
<1>1. f \in [1 .. n -> {f[k] : k \in 1 .. n}]
  OBVIOUS
<1>2. f \in Seq({f[k] : k \in 1 .. n})
  BY <1>1
<1> QED BY <1>1, <1>2

\* No call is taken twice, and what is left are calls.
LEMMA CallsLeft ==
    ASSUME MyLeftOK, myLeft # <<>>, myLeft' = Tail(myLeft)
    PROVE  MyLeftOK' /\ IsCall(Head(myLeft))
<1>1. PICK S : myLeft \in Seq(S)
  BY DEF MyLeftOK
<1>2. Tail(myLeft) \in Seq(S) /\ Len(Tail(myLeft)) = Len(myLeft) - 1 /\ Len(myLeft) \in Nat \ {0}
      /\ \A n \in 1 .. Len(Tail(myLeft)) : Tail(myLeft)[n] = myLeft[n + 1]
  BY <1>1
<1>3. \A n \in 1 .. Len(Tail(myLeft)) : IsCall(Tail(myLeft)[n])
  <2> SUFFICES ASSUME NEW n \in 1 .. Len(Tail(myLeft)) PROVE IsCall(Tail(myLeft)[n])
    OBVIOUS
  <2>1. n + 1 \in 1 .. Len(myLeft) /\ Tail(myLeft)[n] = myLeft[n + 1]
    BY <1>2
  <2>2. IsCall(myLeft[n + 1])
    BY <2>1 DEF MyLeftOK
  <2> QED BY <2>1, <2>2
<1>4. Head(myLeft) = myLeft[1] /\ 1 \in 1 .. Len(myLeft)
  BY <1>1, <1>2
<1>5. IsCall(Head(myLeft))
  BY <1>4 DEF MyLeftOK
<1>6. MyLeftOK'
  <2>1. \E T : Tail(myLeft) \in Seq(T)
    BY <1>2
  <2> QED BY <1>3, <2>1 DEF MyLeftOK
<1> QED BY <1>5, <1>6

-----------------------------------------------------------------------------
(* Windows and what is drawn in them *)

RectOK(r) == r = [x |-> r.x, y |-> r.y, w |-> r.w, h |-> r.h] /\ r.x \in Int /\ r.y \in Int /\ r.w \in Int /\ r.h \in Int

\* The rectangle of a drawing call has numbers for its sides.
LEMMA RectsOfCalls ==
    ASSUME NEW c, IsCall(c), c.t = "draw"
    PROVE  RectOK(RectOf(c))
<1>1. c.op \in {"text", "line", "fill"} /\ c.p.x \in Int /\ c.p.y \in Int /\ MyContent.w \in Int /\ MyContent.h \in Int
  BY MyosAssumption DEF IsCall
<1>2. CASE c.op = "text"
  BY <1>1, <1>2 DEF RectOf, RectOK
<1>3. CASE c.op = "line"
  <2>1. c.q.x \in Int /\ c.q.y \in Int
    BY <1>3 DEF IsCall
  <2> DEFINE d == FromCoords(FromDiagonal(c.p, c.q))
  <2>2. d = [x |-> d.x, y |-> d.y, w |-> d.w, h |-> d.h] /\ d.x \in Int /\ d.y \in Int /\ d.w \in Int /\ d.h \in Int
    BY <1>1, <2>1 DEF FromCoords, FromDiagonal, Lesser, Greater
  <2>3. RectOf(c) = [d EXCEPT !.w = @ + 1, !.h = @ + 1]
    BY <1>3 DEF RectOf
  <2> HIDE DEF d
  <2>4. RectOf(c) = [x |-> d.x, y |-> d.y, w |-> d.w + 1, h |-> d.h + 1]
    BY <2>2, <2>3
  <2> QED BY <2>2, <2>4 DEF RectOK
<1>4. CASE c.op = "fill"
  <2>1. c.q.x \in Int /\ c.q.y \in Int
    BY <1>4 DEF IsCall
  <2> QED BY <1>1, <1>4, <2>1 DEF RectOf, RectOK
<1> QED BY <1>1, <1>2, <1>3, <1>4

\* What a region covers it covers when it has grown, and a rectangle that was
\* added is covered.
LEMMA MergedCovers ==
    ASSUME NEW a \in Edges, NEW r, RectOK(r), HasCoords(r)
    PROVE  /\ AddRegion(a, r) \in Edges
           /\ RegionCells(a) \subseteq RegionCells(AddRegion(a, r))
           /\ RegionCells(Coords(r)) \subseteq RegionCells(AddRegion(a, r))
<1> DEFINE b == Coords(r)
           m == Merged(a, b)
<1>1. b \in Edges /\ b.left < b.right /\ b.top < b.bottom
  BY DEF Coords, RectOK, HasCoords, Edges
<1>2. m \in Edges /\ m.left <= a.left /\ m.left <= b.left /\ m.top <= a.top /\ m.top <= b.top
      /\ m.right >= a.right /\ m.right >= b.right /\ m.bottom >= a.bottom /\ m.bottom >= b.bottom
  BY <1>1 DEF Merged, Lesser, Greater, Edges
<1>3. ASSUME NEW e \in Edges, m.left <= e.left, m.top <= e.top, m.right >= e.right, m.bottom >= e.bottom
      PROVE  RegionCells(e) \subseteq RegionCells(m)
  <2> HIDE DEF m, b
  <2>1. CASE e.left <= e.right /\ e.top <= e.bottom
    <3>1. (e.left .. (e.right - 1)) \subseteq (m.left .. (m.right - 1)) /\ (e.top .. (e.bottom - 1)) \subseteq (m.top .. (m.bottom - 1))
      BY <1>2, <1>3 DEF Edges
    <3>2. m.left <= m.right /\ m.top <= m.bottom
      BY <1>2, <1>3, <2>1 DEF Edges
    <3>3. RegionCells(e) = (e.left .. (e.right - 1)) \X (e.top .. (e.bottom - 1))
      BY <2>1 DEF RegionCells
    <3>4. RegionCells(m) = (m.left .. (m.right - 1)) \X (m.top .. (m.bottom - 1))
      BY <3>2 DEF RegionCells
    <3> QED BY <3>1, <3>3, <3>4
  <2>2. CASE ~(e.left <= e.right /\ e.top <= e.bottom)
    BY <2>2 DEF RegionCells
  <2> QED BY <2>1, <2>2
<1>4. AddRegion(a, r) = m
  BY DEF AddRegion
<1> HIDE DEF m, b
<1> QED BY <1>1, <1>2, <1>3, <1>4 DEF b

\* One dimension of draw_in_rect: a cell of the content that is reached from a
\* side of a rectangle lies on it.
LEMMA SideInside ==
    ASSUME NEW x \in Nat, NEW w \in Int, NEW n \in Nat, NEW c \in 0 .. (n - 1),
           LET v == Lesser(w, n - x) IN
             c \in (IF v >= 0 THEN x ELSE x + v) .. ((IF v >= 0 THEN x ELSE x + v) + AbsVal(v) - 1)
    PROVE  c \in (IF w > 0 THEN x ELSE x + w) .. ((IF w > 0 THEN x + w ELSE x) - 1)
BY DEF Lesser, AbsVal

\* Cells of the content that draw_in_rect reaches are cells of the rectangle.
LEMMA DrawnInRect ==
    ASSUME NEW r, RectOK(r), r.x >= 0, r.y >= 0
    PROVE  Drawn(r) \cap MyCells \subseteq RegionCells(Coords(r))
<1>0. MyContent.w \in Nat /\ MyContent.h \in Nat
  BY MyosAssumption
<1> DEFINE v == Lesser(r.w, MyContent.w - r.x)
           u == Lesser(r.h, MyContent.h - r.y)
           p == ContentPart(r, MyContent, 1)
           c == Coords(r)
<1>1. r.x \in Nat /\ r.y \in Nat /\ r.w \in Int /\ r.h \in Int /\ Greater(0, r.x) = r.x /\ Greater(0, r.y) = r.y
  BY DEF RectOK, Greater
<1>2. p.x = (IF v >= 0 THEN r.x ELSE r.x + v) /\ p.w = AbsVal(v) /\ p.y = (IF u >= 0 THEN r.y ELSE r.y + u) /\ p.h = AbsVal(u)
  BY <1>1 DEF ContentPart, Rect
<1>3. c.left = (IF r.w > 0 THEN r.x ELSE r.x + r.w) /\ c.right = (IF r.w > 0 THEN r.x + r.w ELSE r.x)
      /\ c.top = (IF r.h > 0 THEN r.y ELSE r.y + r.h) /\ c.bottom = (IF r.h > 0 THEN r.y + r.h ELSE r.y)
  BY DEF Coords
<1>4. c.left <= c.right /\ c.top <= c.bottom
  BY <1>1, <1>3
<1>5. RegionCells(c) = (c.left .. (c.right - 1)) \X (c.top .. (c.bottom - 1))
  BY <1>4 DEF RegionCells
<1>6. ASSUME NEW q \in Drawn(r) \cap MyCells PROVE q \in RegionCells(c)
  <2>1. q \in (0 .. (MyContent.w - 1)) \X (0 .. (MyContent.h - 1))
    BY <1>6 DEF MyCells
  <2>2. q \in (p.x .. (p.x + p.w - 1)) \X (p.y .. (p.y + p.h - 1))
    BY <1>6 DEF Drawn
  <2> HIDE DEF p, c
  <2>3. PICK i \in 0 .. (MyContent.w - 1), j \in 0 .. (MyContent.h - 1) : q = <<i, j>>
    BY <2>1
  <2>4. i \in p.x .. (p.x + p.w - 1) /\ j \in p.y .. (p.y + p.h - 1)
    BY <2>2, <2>3
  <2>5. i \in (IF v >= 0 THEN r.x ELSE r.x + v) .. ((IF v >= 0 THEN r.x ELSE r.x + v) + AbsVal(v) - 1)
    BY <1>2, <2>4
  <2>6. j \in (IF u >= 0 THEN r.y ELSE r.y + u) .. ((IF u >= 0 THEN r.y ELSE r.y + u) + AbsVal(u) - 1)
    BY <1>2, <2>4
  <2>7. i \in c.left .. (c.right - 1)
    BY <1>0, <1>1, <1>3, <2>3, <2>5, SideInside
  <2>8. j \in c.top .. (c.bottom - 1)
    BY <1>0, <1>1, <1>3, <2>3, <2>6, SideInside
  <2> QED BY <1>5, <2>3, <2>7, <2>8
<1> QED BY <1>6
-----------------------------------------------------------------------------
(* Steps of the runtime *)

\* What the invariant says of windows, and of files.
MyWinI == MyWindowsOK /\ MyDirtyOK /\ WindowsAccounted /\ DrawnIsInvalidated
MyFileI == MyFilesOK /\ HandlesMeanFiles

\* The empty table.
LEMMA NoEntries == DOMAIN <<>> = {} /\ \A S : <<>> \in [{} -> S]
<1>1. DOMAIN <<>> = {}
  OBVIOUS
<1>2. <<>> = [x \in DOMAIN <<>> |-> <<>>[x]]
  OBVIOUS
<1> QED BY <1>1, <1>2

\* A list whose entry is replaced keeps its length.
LEMMA EntryReplaced ==
    ASSUME NEW S, NEW q \in Seq(S), NEW w, NEW v
    PROVE  (\E T : [q EXCEPT ![w] = v] \in Seq(T)) /\ Len([q EXCEPT ![w] = v]) = Len(q)
<1> DEFINE f == [q EXCEPT ![w] = v]
<1>1. Len(q) \in Nat /\ f = [k \in 1 .. Len(q) |-> f[k]]
  OBVIOUS
<1> HIDE DEF f
<1>2. f \in Seq({f[k] : k \in 1 .. Len(q)}) /\ Len(f) = Len(q)
  BY <1>1, ListOf
<1>3. (\E T : f \in Seq(T)) /\ Len(f) = Len(q)
  BY <1>2
<1> QED BY <1>3 DEF f

\* A window that is closed at the request of the user leaves those that exist
\* and is counted as gone; otherwise windows stay as they are.
LEMMA WindowsStay ==
    ASSUME MyWinI, UNCHANGED <<myWindows, myNext, myDirty>>,
           (\E S : myQueue' \in Seq(S)), Len(myQueue') = Len(myQueue),
           \/ UNCHANGED <<myPool, myGone>>
           \/ \E w \in myPool : myPool' = myPool \ {w} /\ myGone' = myGone \cup {w},
           myStop = "no", myStop' \in {"no", "empty", "hangs", "wrapped"}
    PROVE  MyWinI'
<1>1. MyWindowsOK /\ MyDirtyOK /\ WindowsAccounted /\ DrawnIsInvalidated
  BY DEF MyWinI
<1>2. MyDirtyOK' /\ DrawnIsInvalidated'
  BY <1>1 DEF MyDirtyOK, DrawnIsInvalidated
<1>3. Natives' = Natives
  BY DEF Natives
<1>4. myPool = Natives \ myGone
  BY <1>1 DEF WindowsAccounted
<1>5. Natives \subseteq 1 .. Len(myQueue)
  BY <1>1 DEF MyWindowsOK, OsWindows, Natives
<1>6. myGone' \subseteq 1 .. Len(myQueue) /\ myPool' = Natives \ myGone'
  <2>1. CASE UNCHANGED <<myPool, myGone>>
    BY <1>1, <1>4, <2>1 DEF MyWindowsOK
  <2>2. CASE \E w \in myPool : myPool' = myPool \ {w} /\ myGone' = myGone \cup {w}
    BY <1>1, <1>4, <1>5, <2>2 DEF MyWindowsOK
  <2> QED BY <2>1, <2>2
<1>7. MyWindowsOK'
  <2>1. OsWindows' = OsWindows
    BY DEF OsWindows
  <2> QED BY <1>1, <1>6, <2>1 DEF MyWindowsOK
<1>8. WindowsAccounted'
  BY <1>3, <1>6 DEF WindowsAccounted
<1> QED BY <1>2, <1>7, <1>8 DEF MyWinI

\* Nothing happens to windows.
LEMMA WindowsKept ==
    ASSUME MyWinI, UNCHANGED winVars, UNCHANGED myQueue, myStop = "no", myStop' \in {"no", "empty", "hangs", "wrapped"}
    PROVE  MyWinI'
<1>1. UNCHANGED <<myWindows, myNext, myDirty>> /\ UNCHANGED <<myPool, myGone>>
  BY DEF winVars
<1>2. (\E S : myQueue' \in Seq(S)) /\ Len(myQueue') = Len(myQueue)
  BY DEF MyWinI, MyWindowsOK
<1> QED BY <1>1, <1>2, WindowsStay

\* Nothing happens to files.
LEMMA FilesKept ==
    ASSUME MyFileI, UNCHANGED fileVars
    PROVE  MyFileI'
BY DEF MyFileI, MyFilesOK, HandlesMeanFiles, fileVars

\* The end of the program clears the table; a window of it that does not exist
\* was closed at the request of the user.
LEMMA EndKeeps ==
    ASSUME MyWinI, MyFileI, myStop = "no", NEW why \in {"exit", "error"}, MyEnds(why)
    PROVE  MyWinI' /\ MyFileI'
<1>1. MyWindowsOK /\ WindowsAccounted
  BY DEF MyWinI
<1>2. myWindows' = <<>> /\ myDirty' = <<>> /\ UNCHANGED <<myNext, myGone, myQueue>> /\ UNCHANGED fileVars
  BY DEF MyEnds, keyVars
<1>3. MyWindowsOK'
  <2>1. DOMAIN myWindows' = {} /\ myWindows' \in [{} -> OsWindows']
    BY <1>2, NoEntries
  <2> QED BY <1>1, <1>2, <2>1 DEF MyWindowsOK
<1>4. DOMAIN myDirty' = {} /\ MyDirtyOK' /\ DrawnIsInvalidated'
  <2>1. DOMAIN myDirty' = {} /\ DOMAIN myWindows' = {} /\ myDirty' \in [{} -> SUBSET (Int \X Int)]
    BY <1>2, NoEntries
  <2> QED BY <2>1 DEF MyDirtyOK, DrawnIsInvalidated
<1>5. myPool = Natives \ myGone
  BY <1>1 DEF WindowsAccounted
<1>6. WindowsAccounted'
  <2>1. CASE Natives \subseteq myPool
    <3>1. myPool' = {} /\ myStop' = why
      BY <1>5, <2>1 DEF MyEnds
    <3> QED BY <3>1 DEF WindowsAccounted
  <2>2. CASE ~(Natives \subseteq myPool)
    <3>1. myStop' = "no window" /\ myGone' # {}
      BY <1>2, <1>5, <2>2 DEF MyEnds
    <3> QED BY <3>1 DEF WindowsAccounted
  <2> QED BY <2>1, <2>2
<1>7. MyFileI'
  BY <1>2, FilesKept
<1> QED BY <1>3, <1>4, <1>6, <1>7 DEF MyWinI

\* alloc_file takes an entry that is free, or makes a new one.
LEMMA FileEntryIsFree ==
    ASSUME NEW S, myFiles \in Seq(S)
    PROVE  AllocFile = 0 \/ (AllocFile \in 1 .. Len(myFiles) /\ myFiles[AllocFile] = 0)
<1> DEFINE I == {i \in 1 .. Len(myFiles) : myFiles[i] = 0}
<1>1. AllocFile = IF I # {} THEN Min(I) ELSE 0
  BY DEF AllocFile, SelectInSeq
<1>2. I \in SUBSET Nat
  OBVIOUS
<1>3. ASSUME I # {} PROVE Min(I) \in I
  BY <1>2, <1>3, LeastIn
<1> QED BY <1>1, <1>3

\* Opening a file leaves the handles of the others as they are.
LEMMA OpenKeeps ==
    ASSUME MyFileI, NEW c, c.file # 0, MyOpen(c)
    PROVE  MyFileI'
<1> DEFINE i == AllocFile
           at == IF i # 0 THEN i ELSE Len(myFiles) + 1
<1>0. PICK S : myFiles \in Seq(S)
  BY DEF MyFileI, MyFilesOK
<1>1. i = 0 \/ (i \in 1 .. Len(myFiles) /\ myFiles[i] = 0)
  BY <1>0, FileEntryIsFree
<1>2. CASE UNCHANGED fileVars
  BY <1>2, FilesKept
<1>3. CASE /\ myFiles' = [k \in 1 .. Greater(at, Len(myFiles)) |-> IF k = at THEN c.file ELSE myFiles[k]]
           /\ myHeld' = myHeld \cup {[h |-> at - 1, file |-> c.file]}
  <2> HIDE DEF i
  <2>1. Len(myFiles) \in Nat
    BY <1>0
  <2>2. at \in Nat /\ at >= 1 /\ Greater(at, Len(myFiles)) \in Nat /\ Greater(at, Len(myFiles)) >= at
        /\ Greater(at, Len(myFiles)) >= Len(myFiles) /\ (at \in 1 .. Len(myFiles) => myFiles[at] = 0)
    BY <1>1, <2>1 DEF Greater
  <2> HIDE DEF at
  <2>3. myFiles' = [k \in 1 .. Greater(at, Len(myFiles)) |-> myFiles'[k]]
    BY <1>3
  <2>4. (\E T : myFiles' \in Seq(T)) /\ Len(myFiles') = Greater(at, Len(myFiles))
    BY <2>2, <2>3, ListOf
  <2>5. \A k \in 1 .. Len(myFiles') : myFiles'[k] = IF k = at THEN c.file ELSE myFiles[k]
    BY <1>3, <2>4
  <2>6. ASSUME NEW f \in myHeld'
        PROVE  f.h \in Int /\ f.file # 0 /\ f.h + 1 \in 1 .. Len(myFiles') /\ myFiles'[f.h + 1] = f.file
    <3>1. CASE f \in myHeld
      <4>1. f.h \in Int /\ f.file # 0 /\ f.h + 1 \in 1 .. Len(myFiles) /\ myFiles[f.h + 1] = f.file
        BY <3>1 DEF MyFileI, MyFilesOK, HandlesMeanFiles
      <4>2. f.h + 1 # at
        BY <2>2, <4>1
      <4>3. f.h + 1 \in 1 .. Len(myFiles')
        BY <2>1, <2>2, <2>4, <4>1
      <4> QED BY <2>5, <4>1, <4>2, <4>3
    <3>2. CASE f = [h |-> at - 1, file |-> c.file]
      <4>1. f.h = at - 1 /\ f.file = c.file /\ f.h + 1 = at
        BY <2>2, <3>2
      <4>2. at \in 1 .. Len(myFiles')
        BY <2>2, <2>4
      <4> QED BY <2>2, <2>5, <4>1, <4>2
    <3> QED BY <1>3, <3>1, <3>2
  <2> QED BY <2>4, <2>6 DEF MyFileI, MyFilesOK, HandlesMeanFiles
<1> QED BY <1>2, <1>3 DEF MyOpen

\* Closing a handle leaves the others as they are.
LEMMA CloseKeeps ==
    ASSUME MyFileI, NEW h \in Int, CloseFile(h)
    PROVE  MyFileI'
<1>0. PICK S : myFiles \in Seq(S)
  BY DEF MyFileI, MyFilesOK
<1>1. Len(myFiles) \in Nat /\ myFiles' = [k \in 1 .. Len(myFiles) |-> IF k = h + 1 THEN 0 ELSE myFiles[k]]
      /\ myHeld' = {f \in myHeld : f.h # h}
  BY <1>0 DEF CloseFile
<1>2. myFiles' = [k \in 1 .. Len(myFiles) |-> myFiles'[k]]
  BY <1>1
<1>3. (\E T : myFiles' \in Seq(T)) /\ Len(myFiles') = Len(myFiles)
  BY <1>1, <1>2, ListOf
<1>4. ASSUME NEW f \in myHeld'
      PROVE  f.h \in Int /\ f.file # 0 /\ f.h + 1 \in 1 .. Len(myFiles') /\ myFiles'[f.h + 1] = f.file
  <2>1. f.h \in Int /\ f.file # 0 /\ f.h + 1 \in 1 .. Len(myFiles) /\ myFiles[f.h + 1] = f.file /\ f.h # h
    BY <1>1 DEF MyFileI, MyFilesOK, HandlesMeanFiles
  <2>2. f.h + 1 # h + 1
    BY <2>1
  <2> QED BY <1>1, <1>3, <2>1, <2>2
<1> QED BY <1>3, <1>4 DEF MyFileI, MyFilesOK, HandlesMeanFiles

\* A new window has a handle and a number that no other has.
LEMMA NewWindowKeeps ==
    ASSUME MyWinI, myStop = "no", NewWindow
    PROVE  MyWinI'
<1> DEFINE n == Len(myQueue) + 1
           new == [native |-> n, region |-> Void]
<1>0. MyWindowsOK /\ MyDirtyOK /\ WindowsAccounted /\ DrawnIsInvalidated
  BY DEF MyWinI
<1>1. PICK S : myQueue \in Seq(S)
  BY <1>0 DEF MyWindowsOK
<1>2. /\ myWindows' = [h \in DOMAIN myWindows \cup {myNext} |-> IF h = myNext THEN new ELSE myWindows[h]]
      /\ myDirty' = [h \in DOMAIN myDirty \cup {myNext} |-> IF h = myNext THEN {} ELSE myDirty[h]]
      /\ myNext' = myNext + 1 /\ myPool' = myPool \cup {n} /\ myQueue' = Append(myQueue, <<>>)
      /\ myGone' = myGone /\ myStop' = myStop
  BY DEF NewWindow
<1>3. Len(myQueue) \in Nat /\ myQueue' \in Seq(S \cup {<<>>}) /\ Len(myQueue') = n
  BY <1>1, <1>2
<1>4. /\ myNext \in Nat /\ myNext \notin DOMAIN myWindows /\ DOMAIN myDirty = DOMAIN myWindows
      /\ DOMAIN myWindows' = DOMAIN myWindows \cup {myNext} /\ DOMAIN myDirty' = DOMAIN myWindows'
      /\ \A h \in DOMAIN myWindows : myWindows'[h] = myWindows[h] /\ myDirty'[h] = myDirty[h]
      /\ myWindows'[myNext] = new /\ myDirty'[myNext] = {}
  BY <1>0, <1>2 DEF MyWindowsOK, MyDirtyOK
<1>5. new \in [native : 1 .. n, region : Edges] /\ new.native = n /\ new.region = Void
  BY <1>3 DEF Void, Edges
<1>6. \A h \in DOMAIN myWindows :
        myWindows[h].native \in 1 .. Len(myQueue) /\ myWindows[h] \in [native : 1 .. n, region : Edges]
  <2> SUFFICES ASSUME NEW h \in DOMAIN myWindows
               PROVE  myWindows[h].native \in 1 .. Len(myQueue) /\ myWindows[h] \in [native : 1 .. n, region : Edges]
    OBVIOUS
  <2>1. myWindows[h] \in [native : 1 .. Len(myQueue), region : Edges]
    BY <1>0 DEF MyWindowsOK, OsWindows
  <2> QED BY <1>3, <2>1
<1> HIDE DEF new
<1>7. MyWindowsOK'
  <2>1. OsWindows' = [native : 1 .. n, region : Edges]
    BY <1>3 DEF OsWindows
  <2>2. myWindows' \in [DOMAIN myWindows' -> OsWindows']
    BY <1>2, <1>4, <1>5, <1>6, <2>1
  <2>3. \A h \in DOMAIN myWindows' : h \in Nat /\ h < myNext'
    BY <1>0, <1>2, <1>4 DEF MyWindowsOK
  <2>4. \A h, k \in DOMAIN myWindows' : myWindows'[h].native = myWindows'[k].native => h = k
    <3> SUFFICES ASSUME NEW h \in DOMAIN myWindows', NEW k \in DOMAIN myWindows',
                        myWindows'[h].native = myWindows'[k].native
                 PROVE  h = k
      OBVIOUS
    <3>1. n \notin 1 .. Len(myQueue)
      BY <1>3
    <3>2. CASE h = myNext \/ k = myNext
      BY <1>4, <1>5, <1>6, <3>1, <3>2
    <3>3. CASE h # myNext /\ k # myNext
      BY <1>0, <1>4, <3>3 DEF MyWindowsOK
    <3> QED BY <3>2, <3>3
  <2>5. myGone' \subseteq 1 .. Len(myQueue')
    BY <1>0, <1>2, <1>3 DEF MyWindowsOK
  <2>6. (\E T : myQueue' \in Seq(T)) /\ myNext' \in Nat
    BY <1>2, <1>3, <1>4
  <2> QED BY <2>2, <2>3, <2>4, <2>5, <2>6 DEF MyWindowsOK
<1>8. MyDirtyOK'
  <2>1. \A h \in DOMAIN myWindows' : myDirty'[h] \in SUBSET (Int \X Int)
    BY <1>0, <1>4 DEF MyDirtyOK
  <2> QED BY <1>2, <1>4, <2>1 DEF MyDirtyOK
<1>9. WindowsAccounted'
  <2>1. Natives' = Natives \cup {n}
    BY <1>4, <1>5 DEF Natives
  <2>2. n \notin myGone
    BY <1>0, <1>3 DEF MyWindowsOK
  <2>3. myPool = Natives \ myGone
    BY <1>0 DEF WindowsAccounted
  <2>4. myPool' = Natives' \ myGone'
    BY <1>2, <2>1, <2>2, <2>3
  <2> QED BY <1>2, <2>4 DEF WindowsAccounted
<1>10. DrawnIsInvalidated'
  BY <1>0, <1>4 DEF DrawnIsInvalidated
<1> QED BY <1>7, <1>8, <1>9, <1>10 DEF MyWinI

\* A window that the program closes leaves the table and the pool; if it is not
\* there, the user has closed it.
LEMMA CloseWindowKeeps ==
    ASSUME MyWinI, myStop = "no", NEW h, CloseWindow(h)
    PROVE  MyWinI'
<1>0. MyWindowsOK /\ MyDirtyOK /\ WindowsAccounted /\ DrawnIsInvalidated
  BY DEF MyWinI
<1>1. UNCHANGED <<myNext, myGone, myQueue>>
  BY DEF CloseWindow, keyVars
<1>2. CASE h \notin DOMAIN myWindows
  <2>1. UNCHANGED winVars /\ UNCHANGED myQueue /\ myStop' = "no"
    BY <1>1, <1>2 DEF CloseWindow, winVars
  <2> QED BY <2>1, WindowsKept
<1>3. CASE h \in DOMAIN myWindows
  <2> DEFINE n == myWindows[h].native
  <2>1. /\ myWindows' = [k \in DOMAIN myWindows \ {h} |-> myWindows[k]]
        /\ myDirty' = [k \in DOMAIN myDirty \ {h} |-> myDirty[k]]
        /\ IF {n} \subseteq myPool THEN myPool' = myPool \ {n} /\ myStop' = myStop ELSE myStop' = "no window" /\ myPool' = myPool
    BY <1>3 DEF CloseWindow, Closes
  <2>2. /\ DOMAIN myWindows' = DOMAIN myWindows \ {h} /\ DOMAIN myDirty' = DOMAIN myWindows' /\ DOMAIN myDirty = DOMAIN myWindows
        /\ \A k \in DOMAIN myWindows' : myWindows'[k] = myWindows[k] /\ myDirty'[k] = myDirty[k]
    BY <1>0, <2>1 DEF MyDirtyOK
  <2>3. MyWindowsOK'
    <3>1. OsWindows' = OsWindows
      BY <1>1 DEF OsWindows
    <3>2. myWindows' \in [DOMAIN myWindows' -> OsWindows']
      BY <1>0, <2>1, <2>2, <3>1 DEF MyWindowsOK
    <3> QED BY <1>0, <1>1, <2>2, <3>2 DEF MyWindowsOK
  <2>4. MyDirtyOK'
    <3>1. \A k \in DOMAIN myWindows' : myDirty'[k] \in SUBSET (Int \X Int)
      BY <1>0, <2>2 DEF MyDirtyOK
    <3> QED BY <2>1, <2>2, <3>1 DEF MyDirtyOK
  <2>5. DrawnIsInvalidated'
    BY <1>0, <2>2 DEF DrawnIsInvalidated
  <2>6. WindowsAccounted'
    <3>1. myPool = Natives \ myGone /\ n \in Natives
      BY <1>0, <1>3 DEF WindowsAccounted, Natives
    <3>2. Natives' = Natives \ {n}
      BY <1>0, <1>3, <2>2 DEF MyWindowsOK, Natives
    <3>3. CASE n \in myPool
      <4>1. myPool' = Natives' \ myGone' /\ myStop' = "no"
        BY <1>1, <2>1, <3>1, <3>2, <3>3
      <4> QED BY <4>1 DEF WindowsAccounted
    <3>4. CASE n \notin myPool
      <4>1. myStop' = "no window" /\ myGone' # {}
        BY <1>1, <2>1, <3>1, <3>4
      <4> QED BY <4>1 DEF WindowsAccounted
    <3> QED BY <3>3, <3>4
  <2> QED BY <2>3, <2>4, <2>5, <2>6 DEF MyWinI
<1> QED BY <1>2, <1>3

\* Drawing changes the region of one window and what was drawn in it: the
\* region has edges and covers the cells.
LEMMA RegionChanges ==
    ASSUME MyWinI, myStop = "no", NEW h \in DOMAIN myWindows, NEW e \in Edges, NEW cells \in SUBSET RegionCells(e),
           myWindows' = [myWindows EXCEPT ![h].region = e], myDirty' = [myDirty EXCEPT ![h] = cells],
           UNCHANGED <<myNext, myPool, myGone, myQueue>>,
           myStop' = "no"
    PROVE  MyWinI'
<1>0. MyWindowsOK /\ MyDirtyOK /\ WindowsAccounted /\ DrawnIsInvalidated
  BY DEF MyWinI
<1>1. /\ DOMAIN myWindows' = DOMAIN myWindows /\ DOMAIN myDirty' = DOMAIN myWindows /\ DOMAIN myDirty = DOMAIN myWindows
      /\ \A k \in DOMAIN myWindows \ {h} : myWindows'[k] = myWindows[k] /\ myDirty'[k] = myDirty[k]
      /\ myDirty'[h] = cells /\ myWindows'[h] = [myWindows[h] EXCEPT !.region = e]
  BY <1>0 DEF MyWindowsOK, MyDirtyOK
<1>2. myWindows[h] \in [native : 1 .. Len(myQueue), region : Edges]
  BY <1>0 DEF MyWindowsOK, OsWindows
<1>3. myWindows'[h].native = myWindows[h].native /\ myWindows'[h].region = e
      /\ myWindows'[h] \in [native : 1 .. Len(myQueue), region : Edges]
  BY <1>1, <1>2
<1>4. RegionCells(e) \subseteq Int \X Int
  BY DEF RegionCells, Edges
<1>5. MyWindowsOK'
  <2>1. OsWindows' = OsWindows
    BY DEF OsWindows
  <2>2. \A k \in DOMAIN myWindows : myWindows'[k] \in OsWindows /\ myWindows'[k].native = myWindows[k].native
    BY <1>0, <1>1, <1>3 DEF MyWindowsOK, OsWindows
  <2>3. myWindows' \in [DOMAIN myWindows' -> OsWindows']
    BY <1>0, <1>1, <2>1, <2>2 DEF MyWindowsOK
  <2> QED BY <1>0, <1>1, <2>2, <2>3 DEF MyWindowsOK
<1>6. MyDirtyOK'
  <2>1. \A k \in DOMAIN myWindows : myDirty'[k] \in SUBSET (Int \X Int)
    BY <1>0, <1>1, <1>4 DEF MyDirtyOK
  <2> QED BY <1>0, <1>1, <2>1 DEF MyDirtyOK
<1>7. WindowsAccounted'
  <2>1. Natives' = Natives
    BY <1>1, <1>3 DEF Natives
  <2> QED BY <1>0, <2>1 DEF WindowsAccounted
<1>8. DrawnIsInvalidated'
  BY <1>0, <1>1, <1>3 DEF DrawnIsInvalidated
<1> QED BY <1>5, <1>6, <1>7, <1>8 DEF MyWinI

\* A native window that is missing stops the system, and was closed at the
\* request of the user.
LEMMA MissingWindowStops ==
    ASSUME MyWinI, myStop = "no", NEW h \in DOMAIN myWindows, myWindows[h].native \notin myPool,
           UNCHANGED winVars, UNCHANGED myQueue, myStop' = "no window"
    PROVE  MyWinI'
<1>0. MyWindowsOK /\ MyDirtyOK /\ WindowsAccounted /\ DrawnIsInvalidated
  BY DEF MyWinI
<1>1. myGone # {}
  BY <1>0 DEF WindowsAccounted, Natives
<1>2. WindowsAccounted'
  BY <1>1 DEF WindowsAccounted, winVars
<1>3. MyWindowsOK' /\ MyDirtyOK' /\ DrawnIsInvalidated'
  BY <1>0 DEF MyWindowsOK, MyDirtyOK, DrawnIsInvalidated, OsWindows, winVars
<1> QED BY <1>2, <1>3 DEF MyWinI

\* begin_draw, end_draw and a drawing call, on a window of the table.
LEMMA DrawingKeeps ==
    ASSUME MyWinI, myStop = "no", NEW c, IsCall(c), c.h \in DOMAIN myWindows,
           \/ BeginDraw(c.h)
           \/ EndDraw(c.h)
           \/ c.t = "draw" /\ DrawIn(c.h, RectOf(c))
    PROVE  MyWinI'
<1> DEFINE h == c.h
           a == myWindows[h].region
<1>0. MyWindowsOK /\ MyDirtyOK /\ DrawnIsInvalidated
  BY DEF MyWinI
<1>1. h \in DOMAIN myWindows /\ a \in Edges /\ DOMAIN myDirty = DOMAIN myWindows /\ myDirty[h] \subseteq RegionCells(a)
  BY <1>0 DEF MyWindowsOK, MyDirtyOK, OsWindows, DrawnIsInvalidated
<1>2. CASE BeginDraw(h)
  <2>1. Void \in Edges /\ {} \in SUBSET RegionCells(Void)
    BY DEF Void, Edges
  <2>2. /\ myWindows' = [myWindows EXCEPT ![h].region = Void] /\ myDirty' = [myDirty EXCEPT ![h] = {}]
        /\ UNCHANGED <<myNext, myPool, myGone, myQueue>> /\ myStop' = "no"
    BY <1>2 DEF BeginDraw, keyVars
  <2> HIDE DEF h
  <2> QED BY <1>1, <2>1, <2>2, RegionChanges
<1>3. CASE EndDraw(h)
  <2>0. UNCHANGED <<myWindows, myNext, myPool, myGone, myQueue>>
    BY <1>3 DEF EndDraw, keyVars
  <2>1. \/ myWindows[h].native \notin myPool /\ myStop' = "no window" /\ myDirty' = myDirty
        \/ myDirty' = [myDirty EXCEPT ![h] = @ \ RegionCells(a)] /\ myStop' = "no"
    BY <1>3 DEF EndDraw
  <2> HIDE DEF h
  <2>2. CASE myWindows[h].native \notin myPool /\ myStop' = "no window" /\ myDirty' = myDirty
    <3>1. UNCHANGED winVars
      BY <2>0, <2>2 DEF winVars
    <3> QED BY <1>1, <2>0, <2>2, <3>1, MissingWindowStops
  <2>3. CASE myDirty' = [myDirty EXCEPT ![h] = @ \ RegionCells(a)] /\ myStop' = "no"
    <3> DEFINE cells == myDirty[h] \ RegionCells(a)
    <3>1. cells \in SUBSET RegionCells(a) /\ myDirty' = [myDirty EXCEPT ![h] = cells]
      BY <1>1, <2>3
    <3>2. myWindows[h] = [native |-> myWindows[h].native, region |-> a]
      BY <1>0, <1>1 DEF MyWindowsOK, OsWindows
    <3>3. [myWindows[h] EXCEPT !.region = a] = myWindows[h]
      BY <3>2
    <3>4. myWindows' = [myWindows EXCEPT ![h].region = a]
      BY <1>0, <2>0, <3>3 DEF MyWindowsOK
    <3> HIDE DEF cells, a
    <3> QED BY <1>1, <2>0, <2>3, <3>1, <3>4, RegionChanges
  <2> QED BY <2>1, <2>2, <2>3
<1>4. CASE c.t = "draw" /\ DrawIn(h, RectOf(c))
  <2> DEFINE r == RectOf(c)
             e == AddRegion(a, r)
             shown == IF r.x >= 0 /\ r.y >= 0 THEN Drawn(r) \cap MyCells ELSE {}
             cells == myDirty[h] \cup shown
  <2>0. UNCHANGED <<myNext, myPool, myGone, myQueue>> /\ RectOK(r)
    BY <1>4, RectsOfCalls DEF DrawIn, keyVars
  <2>1. CASE myWindows[h].native \notin myPool
    <3>1. myStop' = "no window" /\ UNCHANGED <<myWindows, myDirty>>
      BY <1>4, <2>1 DEF DrawIn
    <3>2. UNCHANGED winVars
      BY <2>0, <3>1 DEF winVars
    <3> HIDE DEF h
    <3> QED BY <1>1, <2>0, <2>1, <3>1, <3>2, MissingWindowStops
  <2>2. CASE myWindows[h].native \in myPool /\ ~HasCoords(r)
    <3>1. myStop' = "empty" /\ UNCHANGED <<myWindows, myDirty>>
      BY <1>4, <2>2 DEF DrawIn
    <3>2. UNCHANGED winVars
      BY <2>0, <3>1 DEF winVars
    <3> QED BY <2>0, <3>1, <3>2, WindowsKept
  <2>3. CASE myWindows[h].native \in myPool /\ HasCoords(r)
    <3>1. myWindows' = [myWindows EXCEPT ![h].region = e] /\ myDirty' = [myDirty EXCEPT ![h] = cells] /\ myStop' = "no"
      BY <1>4, <2>3 DEF DrawIn
    <3>2. e \in Edges /\ RegionCells(a) \subseteq RegionCells(e) /\ RegionCells(Coords(r)) \subseteq RegionCells(e)
      BY <1>1, <2>0, <2>3, MergedCovers
    <3>3. shown \subseteq RegionCells(Coords(r))
      BY <2>0, DrawnInRect
    <3>4. cells \in SUBSET RegionCells(e)
      BY <1>1, <3>2, <3>3
    <3> HIDE DEF h, e, cells
    <3> QED BY <1>1, <2>0, <3>1, <3>2, <3>4, RegionChanges
  <2> QED BY <2>1, <2>2, <2>3
<1> QED BY <1>2, <1>3, <1>4

\* A call on a handle: the window is drawn in, waited for or read, or the
\* program ends.
LEMMA OnWindowKeeps ==
    ASSUME MyWinI, MyFileI, myStop = "no", NEW c, IsCall(c), OnWindow(c)
    PROVE  MyWinI' /\ MyFileI'
<1>1. CASE c.h \notin DOMAIN myWindows
  BY <1>1, EndKeeps DEF OnWindow
<1>2. CASE c.h \in DOMAIN myWindows /\ c.t \in {"wait", "read"}
           /\ UNCHANGED <<winVars, keyVars, memVars, fileVars, myStop>>
  BY <1>2, WindowsKept, FilesKept DEF keyVars
<1>3. CASE c.h \in DOMAIN myWindows /\ (BeginDraw(c.h) \/ EndDraw(c.h) \/ (c.t = "draw" /\ DrawIn(c.h, RectOf(c))))
  <2>1. UNCHANGED fileVars
    BY <1>3 DEF BeginDraw, EndDraw, DrawIn
  <2> QED BY <1>3, <2>1, DrawingKeeps, FilesKept
<1> QED BY <1>1, <1>2, <1>3 DEF OnWindow

\* Memory: whatever the allocator does, windows and files stay, unless the
\* program ends.
LEMMA MemoryKeeps ==
    ASSUME MyWinI, MyFileI, myStop = "no", NEW c, MyAlloc(c) \/ MyDealloc(c)
    PROVE  MyWinI' /\ MyFileI'
<1>1. ASSUME UNCHANGED <<winVars, keyVars, fileVars>>, myStop' \in {"no", "hangs", "wrapped"}
      PROVE  MyWinI' /\ MyFileI'
  BY <1>1, WindowsKept, FilesKept DEF keyVars
<1>2. ASSUME NEW list PROVE TakeFrom(c, list).t \in {"none", "wrapped", "hangs", "block"}
  BY DEF TakeFrom
<1>3. ASSUME NEW list, NEW size, MyTake(c, list, size) PROVE MyWinI' /\ MyFileI'
  <2> DEFINE r == TakeFrom(c, list)
  <2>0. r.t \in {"none", "wrapped", "hangs", "block"}
    BY <1>2
  <2>1. CASE r.t = "block"
    BY <1>1, <1>3, <2>1 DEF MyTake
  <2>2. CASE r.t = "none"
    <3>1. MyEnds("error")
      BY <1>3, <2>2 DEF MyTake
    <3> QED BY <3>1, EndKeeps
  <2>3. CASE r.t \in {"wrapped", "hangs"}
    <3>1. myStop' = r.t /\ UNCHANGED <<winVars, keyVars, fileVars>>
      BY <1>3, <2>3 DEF MyTake
    <3> HIDE DEF r
    <3> QED BY <1>1, <2>3, <3>1
  <2> HIDE DEF r
  <2> QED BY <2>0, <2>1, <2>2, <2>3
<1>4. CASE MyAlloc(c)
  <2>1. (\E list, size : MyTake(c, list, size)) \/ (myStop' = "hangs" /\ UNCHANGED <<winVars, keyVars, fileVars>>)
    BY <1>4 DEF MyAlloc
  <2> QED BY <1>1, <1>3, <2>1
<1>5. CASE MyDealloc(c)
  <2>1. \/ MyEnds("error")
        \/ myStop' = "hangs" /\ UNCHANGED <<winVars, keyVars, fileVars>>
        \/ myStop' = myStop /\ UNCHANGED <<winVars, keyVars, fileVars>>
    BY <1>5 DEF MyDealloc
  <2>2. CASE MyEnds("error")
    BY <2>2, EndKeeps
  <2> QED BY <1>1, <2>1, <2>2
<1> QED BY <1>4, <1>5

\* A call of the program.
LEMMA CallKeeps ==
    ASSUME MyosI, DispatchSyscall
    PROVE  MyWinI' /\ MyFileI' /\ MyLeftOK'
<1> DEFINE c == Head(myLeft)
<1>0. MyWinI /\ MyFileI /\ myStop = "no"
  BY DEF MyosI, MyWinI, MyFileI, DispatchSyscall
<1>1. MyLeftOK' /\ IsCall(c)
  BY CallsLeft DEF MyosI, DispatchSyscall
<1>2. \/ MyEnds("exit")
      \/ c.t = "open" /\ MyOpen(c)
      \/ c.t = "close" /\ CloseFile(c.h)
      \/ GetFile(c.h)
      \/ NewWindow
      \/ CloseWindow(c.h)
      \/ OnWindow(c)
      \/ MyAlloc(c) \/ MyDealloc(c)
  BY DEF DispatchSyscall
<1> HIDE DEF c
<1>3. CASE MyEnds("exit")
  BY <1>0, <1>1, <1>3, EndKeeps
<1>4. CASE c.t = "open" /\ MyOpen(c)
  <2>1. c.file # 0
    BY <1>1, <1>4 DEF IsCall
  <2>2. UNCHANGED winVars /\ UNCHANGED myQueue /\ myStop' = "no"
    BY <1>0, <1>4 DEF MyOpen, keyVars
  <2> QED BY <1>0, <1>1, <1>4, <2>1, <2>2, OpenKeeps, WindowsKept
<1>5. CASE c.t = "close" /\ CloseFile(c.h)
  <2>1. c.h \in Int
    BY <1>1, <1>5 DEF IsCall
  <2>2. UNCHANGED winVars /\ UNCHANGED myQueue /\ myStop' = "no"
    BY <1>0, <1>5 DEF CloseFile, keyVars
  <2> QED BY <1>0, <1>1, <1>5, <2>1, <2>2, CloseKeeps, WindowsKept
<1>6. CASE GetFile(c.h)
  <2>1. MyEnds("error") \/ UNCHANGED <<winVars, keyVars, fileVars, myStop>>
    BY <1>6 DEF GetFile
  <2>2. CASE MyEnds("error")
    BY <1>0, <1>1, <2>2, EndKeeps
  <2>3. CASE UNCHANGED <<winVars, keyVars, fileVars, myStop>>
    BY <1>0, <1>1, <2>3, WindowsKept, FilesKept DEF keyVars
  <2> QED BY <2>1, <2>2, <2>3
<1>7. CASE NewWindow
  <2>1. UNCHANGED fileVars
    BY <1>7 DEF NewWindow
  <2> QED BY <1>0, <1>1, <1>7, <2>1, NewWindowKeeps, FilesKept
<1>8. CASE CloseWindow(c.h)
  <2>1. UNCHANGED fileVars
    BY <1>8 DEF CloseWindow
  <2> QED BY <1>0, <1>1, <1>8, <2>1, CloseWindowKeeps, FilesKept
<1>9. CASE OnWindow(c)
  BY <1>0, <1>1, <1>9, OnWindowKeeps
<1>10. CASE MyAlloc(c) \/ MyDealloc(c)
  BY <1>0, <1>1, <1>10, MemoryKeeps
<1> QED BY <1>2, <1>3, <1>4, <1>5, <1>6, <1>7, <1>8, <1>9, <1>10

\* A message is taken from the queue of a window that exists; if it asks to
\* close the window, it may go.
LEMMA MessageKeeps ==
    ASSUME MyWinI, myStop = "no", NEW w \in myPool, NEW v, NEW m, myQueue' = [myQueue EXCEPT ![w] = v],
           CloseAsked(w, m), UNCHANGED <<myWindows, myNext, myDirty, myStop>>
    PROVE  MyWinI'
<1>1. PICK S : myQueue \in Seq(S)
  BY DEF MyWinI, MyWindowsOK
<1>2. (\E T : myQueue' \in Seq(T)) /\ Len(myQueue') = Len(myQueue)
  BY <1>1, EntryReplaced
<1>3. \/ UNCHANGED <<myPool, myGone>>
      \/ \E x \in myPool : myPool' = myPool \ {x} /\ myGone' = myGone \cup {x}
  BY DEF CloseAsked
<1> QED BY <1>2, <1>3, WindowsStay

\* Waiting for a key and reading one.
LEMMA KeyKeeps ==
    ASSUME MyWinI, MyFileI, WaitKey \/ ReadKey
    PROVE  MyWinI' /\ MyFileI'
<1> DEFINE w == myAt.w
<1>0. UNCHANGED fileVars /\ myStop = "no"
  BY DEF WaitKey, ReadKey
<1>1. MyFileI'
  BY <1>0, FilesKept
<1>2. \/ MyEnds("error")
      \/ /\ w \in myPool /\ UNCHANGED <<myWindows, myNext, myDirty, myStop>>
         /\ CloseAsked(w, Head(myQueue[w])) /\ myQueue' = [myQueue EXCEPT ![w] = Tail(myQueue[w])]
      \/ UNCHANGED <<myWindows, myNext, myDirty, myStop, myPool, myGone, myQueue>>
  BY DEF WaitKey, ReadKey
<1> HIDE DEF w
<1>3. CASE MyEnds("error")
  BY <1>0, <1>3, EndKeeps
<1>4. CASE /\ w \in myPool /\ UNCHANGED <<myWindows, myNext, myDirty, myStop>>
           /\ CloseAsked(w, Head(myQueue[w])) /\ myQueue' = [myQueue EXCEPT ![w] = Tail(myQueue[w])]
  BY <1>0, <1>1, <1>4, MessageKeeps
<1>5. CASE UNCHANGED <<myWindows, myNext, myDirty, myStop, myPool, myGone, myQueue>>
  BY <1>0, <1>1, <1>5, WindowsKept DEF winVars
<1> QED BY <1>2, <1>3, <1>4, <1>5

\* The window thread posts to a queue and leaves the windows.
LEMMA PostKeeps ==
    ASSUME MyWinI, MyFileI, MyPost
    PROVE  MyWinI' /\ MyFileI'
<1>0. UNCHANGED fileVars /\ UNCHANGED winVars /\ myStop = "no" /\ myStop' = "no"
  BY DEF MyPost
<1>1. PICK S : myQueue \in Seq(S)
  BY DEF MyWinI, MyWindowsOK
<1>2. myQueue' = myQueue \/ \E w, v : myQueue' = [myQueue EXCEPT ![w] = v]
  BY DEF MyPost
<1>3. (\E T : myQueue' \in Seq(T)) /\ Len(myQueue') = Len(myQueue)
  <2>1. CASE myQueue' = myQueue
    BY <1>1, <2>1
  <2>2. CASE \E w, v : myQueue' = [myQueue EXCEPT ![w] = v]
    <3>1. PICK w, v : myQueue' = [myQueue EXCEPT ![w] = v]
      BY <2>2
    <3>2. (\E T : [myQueue EXCEPT ![w] = v] \in Seq(T)) /\ Len([myQueue EXCEPT ![w] = v]) = Len(myQueue)
      BY <1>1, EntryReplaced
    <3> QED BY <3>1, <3>2
  <2> QED BY <1>2, <2>1, <2>2
<1>4. UNCHANGED <<myWindows, myNext, myDirty>> /\ UNCHANGED <<myPool, myGone>>
  BY <1>0 DEF winVars
<1> QED BY <1>0, <1>3, <1>4, WindowsStay, FilesKept

\* At the start there is nothing.
LEMMA MyosStarts == MyInit => MyosI
<1> SUFFICES ASSUME MyInit PROVE MyosI
  OBVIOUS
<1>0. myWindows = <<>> /\ myDirty = <<>> /\ myQueue = <<>> /\ myFiles = <<>> /\ myHeld = {} /\ myGone = {} /\ myPool = {}
      /\ myNext = 1 /\ myStop = "no"
  BY DEF MyInit
<1>1. DOMAIN myWindows = {} /\ DOMAIN myDirty = {} /\ myWindows \in [{} -> OsWindows] /\ myDirty \in [{} -> SUBSET (Int \X Int)]
  BY <1>0, NoEntries
<1>2. MyWindowsOK
  <2>1. myQueue \in Seq({})
    BY <1>0
  <2> QED BY <1>0, <1>1, <2>1 DEF MyWindowsOK
<1>3. MyDirtyOK /\ DrawnIsInvalidated
  BY <1>1 DEF MyDirtyOK, DrawnIsInvalidated
<1>4. WindowsAccounted
  BY <1>0, <1>1 DEF WindowsAccounted, Natives
<1>5. MyFilesOK /\ HandlesMeanFiles
  <2>1. myFiles \in Seq({})
    BY <1>0
  <2> QED BY <1>0, <2>1 DEF MyFilesOK, HandlesMeanFiles
<1>6. MyLeftOK
  <2>1. PICK p \in MyPlans : myLeft = p.calls
    BY DEF MyInit
  <2>2. myLeft \in Seq(Range(p.calls)) /\ \A n \in 1 .. Len(myLeft) : IsCall(myLeft[n])
    BY <2>1, MyosAssumption
  <2> QED BY <2>2 DEF MyLeftOK
<1> QED BY <1>2, <1>3, <1>4, <1>5, <1>6 DEF MyosI

\* Each step of the program and of the window thread keeps the invariant.
LEMMA MyosSteps == MyosI /\ [MyNext]_myVars => MyosI'
<1> SUFFICES ASSUME MyosI, [MyNext]_myVars PROVE MyosI'
  OBVIOUS
<1>0. MyWinI /\ MyFileI /\ MyLeftOK
  BY DEF MyosI, MyWinI, MyFileI
<1>1. CASE DispatchSyscall
  BY <1>1, CallKeeps DEF MyosI, MyWinI, MyFileI
<1>2. CASE Returns
  <2>1. MyEnds("exit") /\ UNCHANGED myLeft /\ myStop = "no"
    BY <1>2 DEF Returns
  <2>2. MyWinI' /\ MyFileI' /\ MyLeftOK'
    BY <1>0, <2>1, EndKeeps DEF MyLeftOK
  <2> QED BY <2>2 DEF MyosI, MyWinI, MyFileI
<1>3. CASE WaitKey \/ ReadKey
  <2>1. UNCHANGED myLeft
    BY <1>3 DEF WaitKey, ReadKey
  <2>2. MyWinI' /\ MyFileI' /\ MyLeftOK'
    BY <1>0, <1>3, <2>1, KeyKeeps DEF MyLeftOK
  <2> QED BY <2>2 DEF MyosI, MyWinI, MyFileI
<1>4. CASE MyPost
  <2>1. UNCHANGED myLeft
    BY <1>4 DEF MyPost
  <2>2. MyWinI' /\ MyFileI' /\ MyLeftOK'
    BY <1>0, <1>4, <2>1, PostKeeps DEF MyLeftOK
  <2> QED BY <2>2 DEF MyosI, MyWinI, MyFileI
<1>5. CASE UNCHANGED myVars
  <2>1. UNCHANGED <<myWindows, myNext, myPool, myGone, myDirty, myQueue, myFiles, myHeld, myLeft, myStop>>
    BY <1>5 DEF myVars, winVars, keyVars, fileVars
  <2>2. OsWindows' = OsWindows /\ Natives' = Natives
    BY <2>1 DEF OsWindows, Natives
  <2>3. MyWindowsOK' /\ MyDirtyOK' /\ MyFilesOK' /\ MyLeftOK'
    BY <2>1, <2>2 DEF MyosI, MyWindowsOK, MyDirtyOK, MyFilesOK, MyLeftOK
  <2>4. HandlesMeanFiles' /\ WindowsAccounted' /\ DrawnIsInvalidated'
    BY <2>1, <2>2 DEF MyosI, HandlesMeanFiles, WindowsAccounted, DrawnIsInvalidated
  <2> QED BY <2>3, <2>4 DEF MyosI
<1> QED BY <1>1, <1>2, <1>3, <1>4, <1>5 DEF MyNext

-----------------------------------------------------------------------------
(* Memory of a program *)

IsPair(p) ==
    /\ p = [base |-> p.base, size |-> p.size] /\ p.base \in Nat /\ p.size \in Nat
    /\ p.base % MIN_ALLOC = 0 /\ p.size % MIN_ALLOC = 0
PairsApart(p, q) == NextBase(p) <= q.base \/ NextBase(q) <= p.base
InMemory(p, size) == p.base >= WASM_PAGE /\ NextBase(p) <= size
Covers(p, g) == p.base <= g /\ g < NextBase(p)

\* Pairs and blocks are apart, lie in the memory that was added and leave
\* nothing of it out.
MemoryOK(list, used, size) ==
    /\ \E S : list \in Seq(S)
    /\ size \in Nat /\ size >= WASM_PAGE /\ size % MIN_ALLOC = 0
    /\ \A i \in 1 .. Len(list) : IsPair(list[i]) /\ (list[i].size > 0 => InMemory(list[i], size))
    /\ \A u \in used : IsPair(u) /\ u.size > 0 /\ InMemory(u, size)
    /\ \A i, j \in 1 .. Len(list) : i # j /\ list[i].size > 0 /\ list[j].size > 0 => PairsApart(list[i], list[j])
    /\ \A i \in 1 .. Len(list), u \in used : list[i].size > 0 => PairsApart(list[i], u)
    /\ \A u, v \in used : u # v => PairsApart(u, v)
    /\ \A g \in WASM_PAGE .. (size - 1) : (\E i \in 1 .. Len(list) : Covers(list[i], g)) \/ (\E u \in used : Covers(u, g))

\* An order of the first n numbers.
Rearranges(f, n) ==
    /\ f \in [1 .. n -> 1 .. n]
    /\ \A j, k \in 1 .. n : f[j] = f[k] => j = k
    /\ \A i \in 1 .. n : \E k \in 1 .. n : f[k] = i

\* Sorting rearranges a list.
LEMMA SortRearranges ==
    ASSUME NEW S, NEW list \in Seq(S), \A i \in 1 .. Len(list) : list[i].base \in Int
    PROVE  \E f : Rearranges(f, Len(list)) /\ ByBase(list) = [k \in 1 .. Len(list) |-> list[f[k]]]
<1> DEFINE n == Len(list)
           upTo(i) == {j \in 1 .. n : list[j].base < list[i].base \/ (list[j].base = list[i].base /\ j <= i)}
           rank == [i \in 1 .. n |-> Cardinality(upTo(i))]
           f == [k \in 1 .. n |-> CHOOSE i \in 1 .. n : Cardinality(upTo(i)) = k]
<1>0. n \in Nat /\ IsFiniteSet(1 .. n) /\ Cardinality(1 .. n) = n
  <2>1. n \in Nat
    OBVIOUS
  <2> HIDE DEF n
  <2> QED BY <2>1, FS_Interval
<1>1. ASSUME NEW i \in 1 .. n PROVE IsFiniteSet(upTo(i)) /\ Cardinality(upTo(i)) \in 1 .. n
  <2>1. upTo(i) \in SUBSET (1 .. n) /\ i \in upTo(i)
    OBVIOUS
  <2> HIDE DEF upTo
  <2>2. IsFiniteSet(upTo(i)) /\ Cardinality(upTo(i)) <= n
    BY <1>0, <2>1, FS_Subset
  <2>3. Cardinality(upTo(i)) \in Nat
    BY <2>2, FS_CardinalityType
  <2>4. Cardinality(upTo(i)) # 0
    BY <2>1, <2>2, FS_EmptySet
  <2> QED BY <1>0, <2>2, <2>3, <2>4
<1>2. ASSUME NEW i \in 1 .. n, NEW j \in 1 .. n, i # j, Cardinality(upTo(i)) = Cardinality(upTo(j)) PROVE FALSE
  <2>1. ASSUME NEW a \in 1 .. n, NEW b \in 1 .. n, a # b, Cardinality(upTo(a)) = Cardinality(upTo(b)), a \in upTo(b)
        PROVE  FALSE
    <3>1. upTo(a) \in SUBSET upTo(b)
      BY <2>1
    <3>2. b \in upTo(b) /\ b \notin upTo(a)
      BY <2>1
    <3> HIDE DEF upTo
    <3>3. upTo(a) = upTo(b)
      BY <1>1, <2>1, <3>1, FS_Subset
    <3> QED BY <3>2, <3>3
  <2>2. i \in upTo(j) \/ j \in upTo(i)
    OBVIOUS
  <2> HIDE DEF upTo
  <2> QED BY <1>2, <2>1, <2>2
<1> HIDE DEF upTo
<1>3. rank \in Injection(1 .. n, 1 .. n)
  BY <1>1, <1>2 DEF Injection, IsInjective
<1>4. rank \in Surjection(1 .. n, 1 .. n)
  BY <1>0, <1>3, FS_Injection
<1>5. \A k \in 1 .. n : \E i \in 1 .. n : Cardinality(upTo(i)) = k
  BY <1>4 DEF Surjection
<1>6. \A k \in 1 .. n : f[k] \in 1 .. n /\ Cardinality(upTo(f[k])) = k
  BY <1>5
<1>7. f \in [1 .. n -> 1 .. n]
  BY <1>6
<1>8. \A j, k \in 1 .. n : f[j] = f[k] => j = k
  BY <1>6
<1>9. \A i \in 1 .. n : \E k \in 1 .. n : f[k] = i
  BY <1>1, <1>2, <1>6
<1>10. ByBase(list) = [k \in 1 .. n |-> list[f[k]]]
  BY DEF ByBase, upTo
<1> HIDE DEF f, n
<1>11. Rearranges(f, n)
  BY <1>7, <1>8, <1>9 DEF Rearranges
<1> QED BY <1>10, <1>11 DEF n

\* Multiples of the granule.
LEMMA Multiples ==
    ASSUME NEW a \in Int, NEW b \in Int, a % MIN_ALLOC = 0, b % MIN_ALLOC = 0
    PROVE  (a + b) % MIN_ALLOC = 0 /\ (a - b) % MIN_ALLOC = 0
BY DEF MIN_ALLOC

\* The order of the list does not matter.
LEMMA MemorySorted ==
    ASSUME NEW list, NEW used, NEW size, MemoryOK(list, used, size)
    PROVE  MemoryOK(ByBase(list), used, size) /\ Len(ByBase(list)) = Len(list)
<1> DEFINE n == Len(list)
           new == ByBase(list)
<1>0. PICK S : list \in Seq(S)
  BY DEF MemoryOK
<1>1. n \in Nat /\ \A i \in 1 .. n : list[i].base \in Int
  <2>1. n \in Nat
    BY <1>0
  <2>2. \A i \in 1 .. n : IsPair(list[i])
    BY DEF MemoryOK
  <2>3. ASSUME NEW i \in 1 .. n PROVE list[i].base \in Int
    <3>1. IsPair(list[i])
      BY <2>2
    <3> QED BY <3>1 DEF IsPair
  <2> QED BY <2>1, <2>3
<1>2. PICK f : Rearranges(f, n) /\ new = [k \in 1 .. n |-> list[f[k]]]
  BY <1>0, <1>1, SortRearranges
<1> HIDE DEF new
<1>3. new = [k \in 1 .. n |-> new[k]] /\ \A k \in 1 .. n : new[k] = list[f[k]] /\ f[k] \in 1 .. n
  BY <1>2 DEF Rearranges
<1>4. (\E T : new \in Seq(T)) /\ Len(new) = n
  BY <1>1, <1>3, ListOf
<1>5. size \in Nat /\ size >= WASM_PAGE /\ size % MIN_ALLOC = 0
  BY DEF MemoryOK
<1>6. \A i \in 1 .. Len(new) : IsPair(new[i]) /\ (new[i].size > 0 => InMemory(new[i], size))
  BY <1>3, <1>4 DEF MemoryOK
<1>7. \A i, j \in 1 .. Len(new) : i # j /\ new[i].size > 0 /\ new[j].size > 0 => PairsApart(new[i], new[j])
  <2> SUFFICES ASSUME NEW i \in 1 .. n, NEW j \in 1 .. n, i # j, new[i].size > 0, new[j].size > 0
               PROVE  PairsApart(new[i], new[j])
    BY <1>4
  <2>1. f[i] # f[j]
    BY <1>2 DEF Rearranges
  <2> QED BY <1>3, <2>1 DEF MemoryOK
<1>8. \A i \in 1 .. Len(new), u \in used : new[i].size > 0 => PairsApart(new[i], u)
  BY <1>3, <1>4 DEF MemoryOK
<1>9. \A g \in WASM_PAGE .. (size - 1) : (\E i \in 1 .. Len(new) : Covers(new[i], g)) \/ (\E u \in used : Covers(u, g))
  <2> SUFFICES ASSUME NEW g \in WASM_PAGE .. (size - 1), NEW i \in 1 .. n, Covers(list[i], g)
               PROVE  \E k \in 1 .. n : Covers(new[k], g)
    BY <1>4 DEF MemoryOK
  <2>1. PICK k \in 1 .. n : f[k] = i
    BY <1>2 DEF Rearranges
  <2> QED BY <1>3, <2>1
<1>10. \A u \in used : IsPair(u) /\ u.size > 0 /\ InMemory(u, size)
  BY DEF MemoryOK
<1>11. \A u, v \in used : u # v => PairsApart(u, v)
  BY DEF MemoryOK
<1>12. MemoryOK(new, used, size)
  BY <1>4, <1>5, <1>6, <1>7, <1>8, <1>9, <1>10, <1>11 DEF MemoryOK
<1> QED BY <1>4, <1>12 DEF new

\* A block that goes back to the end of the list.
LEMMA MemoryReturned ==
    ASSUME NEW list, NEW used, NEW size, MemoryOK(list, used, size), NEW b \in used
    PROVE  MemoryOK(Append(list, b), used \ {b}, size)
<1> DEFINE n == Len(list)
           new == Append(list, b)
<1>0. PICK S : list \in Seq(S)
  BY DEF MemoryOK
<1>1. n \in Nat /\ new \in Seq(S \cup {b}) /\ Len(new) = n + 1 /\ new[n + 1] = b /\ \A k \in 1 .. n : new[k] = list[k]
  BY <1>0
<1> HIDE DEF new
<1>2. IsPair(b) /\ b.size > 0 /\ InMemory(b, size)
  BY DEF MemoryOK
<1>3. \A i \in 1 .. Len(new) : IsPair(new[i]) /\ (new[i].size > 0 => InMemory(new[i], size))
  <2> SUFFICES ASSUME NEW i \in 1 .. n + 1 PROVE IsPair(new[i]) /\ (new[i].size > 0 => InMemory(new[i], size))
    BY <1>1
  <2>1. CASE i = n + 1
    BY <1>1, <1>2, <2>1
  <2>2. CASE i \in 1 .. n
    BY <1>1, <2>2 DEF MemoryOK
  <2> QED BY <1>1, <2>1, <2>2
<1>4. \A i, j \in 1 .. Len(new) : i # j /\ new[i].size > 0 /\ new[j].size > 0 => PairsApart(new[i], new[j])
  <2> SUFFICES ASSUME NEW i \in 1 .. n + 1, NEW j \in 1 .. n + 1, i # j, new[i].size > 0, new[j].size > 0
               PROVE  PairsApart(new[i], new[j])
    BY <1>1
  <2>1. CASE i = n + 1
    <3>1. j \in 1 .. n
      BY <1>1, <2>1
    <3>2. PairsApart(list[j], b)
      BY <1>1, <3>1 DEF MemoryOK
    <3> QED BY <1>1, <2>1, <3>1, <3>2 DEF PairsApart
  <2>2. CASE j = n + 1
    <3>1. i \in 1 .. n
      BY <1>1, <2>2
    <3>2. PairsApart(list[i], b)
      BY <1>1, <3>1 DEF MemoryOK
    <3> QED BY <1>1, <2>2, <3>1, <3>2
  <2>3. CASE i \in 1 .. n /\ j \in 1 .. n
    BY <1>1, <2>3 DEF MemoryOK
  <2> QED BY <1>1, <2>1, <2>2, <2>3
<1>5. \A i \in 1 .. Len(new), u \in used \ {b} : new[i].size > 0 => PairsApart(new[i], u)
  <2> SUFFICES ASSUME NEW i \in 1 .. n + 1, NEW u \in used \ {b}, new[i].size > 0
               PROVE  PairsApart(new[i], u)
    BY <1>1
  <2>1. CASE i = n + 1
    BY <1>1, <2>1 DEF MemoryOK
  <2>2. CASE i \in 1 .. n
    BY <1>1, <2>2 DEF MemoryOK
  <2> QED BY <1>1, <2>1, <2>2
<1>6. ASSUME NEW g \in WASM_PAGE .. (size - 1)
      PROVE  (\E i \in 1 .. Len(new) : Covers(new[i], g)) \/ (\E u \in used \ {b} : Covers(u, g))
  <2>1. CASE \E i \in 1 .. n : Covers(list[i], g)
    <3>1. PICK i \in 1 .. n : Covers(list[i], g)
      BY <2>1
    <3>2. i \in 1 .. Len(new) /\ new[i] = list[i]
      BY <1>1
    <3> QED BY <3>1, <3>2
  <2>2. CASE \E u \in used : Covers(u, g)
    <3>1. PICK u \in used : Covers(u, g)
      BY <2>2
    <3>2. n + 1 \in 1 .. Len(new)
      BY <1>1
    <3> QED BY <1>1, <3>1, <3>2
  <2> QED BY <2>1, <2>2 DEF MemoryOK
<1>7. \A u \in used \ {b} : IsPair(u) /\ u.size > 0 /\ InMemory(u, size)
  BY DEF MemoryOK
<1>8. \A u, v \in used \ {b} : u # v => PairsApart(u, v)
  BY DEF MemoryOK
<1>9. size \in Nat /\ size >= WASM_PAGE /\ size % MIN_ALLOC = 0 /\ \E T : new \in Seq(T)
  BY <1>1 DEF MemoryOK
<1>10. MemoryOK(new, used \ {b}, size)
  BY <1>3, <1>4, <1>5, <1>6, <1>7, <1>8, <1>9 DEF MemoryOK
<1> QED BY <1>10 DEF new

\* The memory grows at its end.
LEMMA MemoryGrown ==
    ASSUME NEW list, NEW used, NEW size, MemoryOK(list, used, size), NEW more \in Nat, more % MIN_ALLOC = 0
    PROVE  MemoryOK(Append(list, FreePair(size, more)), used, size + more)
<1> DEFINE n == Len(list)
           b == FreePair(size, more)
           new == Append(list, b)
           top == size + more
<1>0. PICK S : list \in Seq(S)
  BY DEF MemoryOK
<1>1. n \in Nat /\ new \in Seq(S \cup {b}) /\ Len(new) = n + 1 /\ new[n + 1] = b /\ \A k \in 1 .. n : new[k] = list[k]
  BY <1>0
<1>2. size \in Nat /\ size >= WASM_PAGE /\ size % MIN_ALLOC = 0 /\ WASM_PAGE \in Nat
  BY DEF MemoryOK, WASM_PAGE
<1>3. IsPair(b) /\ InMemory(b, top) /\ b.base = size /\ NextBase(b) = top
  BY <1>2 DEF FreePair, IsPair, InMemory, NextBase
<1>4. top \in Nat /\ top >= size /\ top % MIN_ALLOC = 0
  BY <1>2, Multiples
<1> HIDE DEF new, b, top
<1>5. ASSUME NEW p, IsPair(p), InMemory(p, size)
      PROVE  InMemory(p, top) /\ PairsApart(p, b)
  BY <1>2, <1>3, <1>4, <1>5 DEF InMemory, PairsApart, IsPair, NextBase
<1>6. \A i \in 1 .. n : IsPair(list[i]) /\ (list[i].size > 0 => InMemory(list[i], size))
  BY DEF MemoryOK
<1>7. \A u \in used : IsPair(u) /\ u.size > 0 /\ InMemory(u, size)
  BY DEF MemoryOK
<1>8. \A i \in 1 .. Len(new) : IsPair(new[i]) /\ (new[i].size > 0 => InMemory(new[i], top))
  <2> SUFFICES ASSUME NEW i \in 1 .. n + 1 PROVE IsPair(new[i]) /\ (new[i].size > 0 => InMemory(new[i], top))
    BY <1>1
  <2>1. CASE i = n + 1
    BY <1>1, <1>3, <2>1
  <2>2. CASE i \in 1 .. n
    BY <1>1, <1>5, <1>6, <2>2
  <2> QED BY <1>1, <2>1, <2>2
<1>9. \A i, j \in 1 .. Len(new) : i # j /\ new[i].size > 0 /\ new[j].size > 0 => PairsApart(new[i], new[j])
  <2> SUFFICES ASSUME NEW i \in 1 .. n + 1, NEW j \in 1 .. n + 1, i # j, new[i].size > 0, new[j].size > 0
               PROVE  PairsApart(new[i], new[j])
    BY <1>1
  <2>1. CASE i = n + 1
    <3>1. j \in 1 .. n
      BY <1>1, <2>1
    <3>2. PairsApart(list[j], b)
      BY <1>1, <1>5, <1>6, <3>1
    <3> QED BY <1>1, <2>1, <3>1, <3>2 DEF PairsApart
  <2>2. CASE j = n + 1
    <3>1. i \in 1 .. n
      BY <1>1, <2>2
    <3>2. PairsApart(list[i], b)
      BY <1>1, <1>5, <1>6, <3>1
    <3> QED BY <1>1, <2>2, <3>1, <3>2
  <2>3. CASE i \in 1 .. n /\ j \in 1 .. n
    BY <1>1, <2>3 DEF MemoryOK
  <2> QED BY <1>1, <2>1, <2>2, <2>3
<1>10. \A i \in 1 .. Len(new), u \in used : new[i].size > 0 => PairsApart(new[i], u)
  <2> SUFFICES ASSUME NEW i \in 1 .. n + 1, NEW u \in used, new[i].size > 0
               PROVE  PairsApart(new[i], u)
    BY <1>1
  <2>1. CASE i = n + 1
    <3>1. PairsApart(u, b)
      BY <1>5, <1>7
    <3> QED BY <1>1, <2>1, <3>1 DEF PairsApart
  <2>2. CASE i \in 1 .. n
    BY <1>1, <2>2 DEF MemoryOK
  <2> QED BY <1>1, <2>1, <2>2
<1>11. ASSUME NEW g \in WASM_PAGE .. (top - 1)
       PROVE  (\E i \in 1 .. Len(new) : Covers(new[i], g)) \/ (\E u \in used : Covers(u, g))
  <2>1. CASE g >= size
    <3>1. n + 1 \in 1 .. Len(new)
      BY <1>1
    <3>2. Covers(b, g)
      BY <1>2, <1>3, <1>4, <2>1 DEF Covers
    <3> QED BY <1>1, <3>1, <3>2
  <2>2. CASE g < size
    <3>1. g \in WASM_PAGE .. (size - 1)
      BY <1>2, <1>4, <2>2
    <3>2. (\E i \in 1 .. n : Covers(list[i], g)) \/ (\E u \in used : Covers(u, g))
      BY <3>1 DEF MemoryOK
    <3>3. \A i \in 1 .. n : i \in 1 .. Len(new) /\ new[i] = list[i]
      BY <1>1
    <3> QED BY <3>2, <3>3
  <2> QED BY <1>2, <1>4, <2>1, <2>2
<1>12. \A u \in used : IsPair(u) /\ u.size > 0 /\ InMemory(u, top)
  BY <1>5, <1>7
<1>13. \A u, v \in used : u # v => PairsApart(u, v)
  BY DEF MemoryOK
<1>14. top \in Nat /\ top >= WASM_PAGE /\ top % MIN_ALLOC = 0 /\ \E T : new \in Seq(T)
  BY <1>1, <1>2, <1>4
<1>15. MemoryOK(new, used, top)
  BY <1>8, <1>9, <1>10, <1>11, <1>12, <1>13, <1>14 DEF MemoryOK
<1> QED BY <1>15 DEF new, b, top

\* The two parts of a pair.
LEMMA PairSplit ==
    ASSUME NEW x \in Nat, NEW y \in Nat, NEW m \in Nat, NEW size \in Nat, m > 0, y >= m, x >= WASM_PAGE, x + y <= size,
           x % MIN_ALLOC = 0, y % MIN_ALLOC = 0, m % MIN_ALLOC = 0
    PROVE  LET q == FreePair(x + m, y - m)
               b == FreePair(x, m)
           IN /\ IsPair(q) /\ IsPair(b) /\ b.size > 0 /\ InMemory(q, size) /\ InMemory(b, size) /\ PairsApart(q, b)
              /\ b.base = x /\ NextBase(b) = q.base /\ NextBase(q) = x + y
<1>1. (x + m) % MIN_ALLOC = 0 /\ (y - m) % MIN_ALLOC = 0 /\ y - m \in Nat /\ x + m \in Nat
  BY Multiples
<1>2. WASM_PAGE \in Nat
  BY DEF WASM_PAGE
<1> QED BY <1>1, <1>2 DEF FreePair, IsPair, InMemory, PairsApart, NextBase

\* A pair gives its first part to a block.
LEMMA MemoryTaken ==
    ASSUME NEW list, NEW used, NEW size, MemoryOK(list, used, size),
           NEW i \in 1 .. Len(list), NEW m \in Nat, m > 0, m % MIN_ALLOC = 0, list[i].size >= m
    PROVE  MemoryOK([list EXCEPT ![i] = FreePair(list[i].base + m, list[i].size - m)],
                    used \cup {FreePair(list[i].base, m)}, size)
<1> DEFINE n == Len(list)
           p == list[i]
           q == FreePair(p.base + m, p.size - m)
           b == FreePair(p.base, m)
           new == [list EXCEPT ![i] = q]
<1>0. PICK S : list \in Seq(S)
  BY DEF MemoryOK
<1>1. n \in Nat /\ new = [k \in 1 .. n |-> new[k]] /\ new[i] = q /\ \A k \in 1 .. n : k # i => new[k] = list[k]
  BY <1>0
<1> HIDE DEF new
<1>2. (\E T : new \in Seq(T)) /\ Len(new) = n
  BY <1>1, ListOf
<1>3. \A k \in 1 .. n : IsPair(list[k]) /\ (list[k].size > 0 => InMemory(list[k], size))
  BY DEF MemoryOK
<1>4. \A u \in used : IsPair(u) /\ u.size > 0 /\ InMemory(u, size)
  BY DEF MemoryOK
<1>5. IsPair(p) /\ p.size > 0 /\ InMemory(p, size) /\ size \in Nat
  BY <1>3 DEF IsPair, MemoryOK
<1>6. /\ IsPair(q) /\ IsPair(b) /\ b.size > 0 /\ InMemory(q, size) /\ InMemory(b, size) /\ PairsApart(q, b)
      /\ b.base = p.base /\ NextBase(b) = q.base /\ NextBase(q) = NextBase(p)
  <2>1. p.base \in Nat /\ p.size \in Nat /\ p.base % MIN_ALLOC = 0 /\ p.size % MIN_ALLOC = 0 /\ p.base >= WASM_PAGE /\ p.base + p.size <= size
    BY <1>5 DEF IsPair, InMemory, NextBase
  <2>2. p.size >= m /\ NextBase(p) = p.base + p.size
    BY DEF NextBase
  <2> HIDE DEF p
  <2> QED BY <1>5, <2>1, <2>2, PairSplit
<1> HIDE DEF q, b, p
<1>7. ASSUME NEW r, IsPair(r), PairsApart(p, r) \/ PairsApart(r, p)
      PROVE  PairsApart(q, r) /\ PairsApart(r, q) /\ PairsApart(b, r) /\ PairsApart(r, b)
  BY <1>5, <1>6, <1>7 DEF PairsApart, IsPair, NextBase
<1>8. \A k \in 1 .. Len(new) : IsPair(new[k]) /\ (new[k].size > 0 => InMemory(new[k], size))
  BY <1>1, <1>2, <1>3, <1>6
<1>9. \A u \in used \cup {b} : IsPair(u) /\ u.size > 0 /\ InMemory(u, size)
  BY <1>4, <1>6
<1>10. \A k \in 1 .. n : k # i /\ list[k].size > 0 => PairsApart(p, list[k])
  BY <1>5 DEF MemoryOK, p
<1>11. \A u \in used : PairsApart(p, u)
  BY <1>5 DEF MemoryOK, p
<1>12. \A k, j \in 1 .. Len(new) : k # j /\ new[k].size > 0 /\ new[j].size > 0 => PairsApart(new[k], new[j])
  <2> SUFFICES ASSUME NEW k \in 1 .. n, NEW j \in 1 .. n, k # j, new[k].size > 0, new[j].size > 0
               PROVE  PairsApart(new[k], new[j])
    BY <1>2
  <2>1. CASE k = i
    BY <1>1, <1>3, <1>7, <1>10, <2>1
  <2>2. CASE j = i
    BY <1>1, <1>3, <1>7, <1>10, <2>2
  <2>3. CASE k # i /\ j # i
    BY <1>1, <2>3 DEF MemoryOK
  <2> QED BY <2>1, <2>2, <2>3
<1>13. \A k \in 1 .. Len(new), u \in used \cup {b} : new[k].size > 0 => PairsApart(new[k], u)
  <2> SUFFICES ASSUME NEW k \in 1 .. n, NEW u \in used \cup {b}, new[k].size > 0
               PROVE  PairsApart(new[k], u)
    BY <1>2
  <2>1. CASE k = i
    BY <1>1, <1>4, <1>6, <1>7, <1>11, <2>1
  <2>2. CASE k # i /\ u = b
    BY <1>1, <1>3, <1>7, <1>10, <2>2
  <2>3. CASE k # i /\ u \in used
    BY <1>1, <2>3 DEF MemoryOK
  <2> QED BY <2>1, <2>2, <2>3
<1>14. \A u, v \in used \cup {b} : u # v => PairsApart(u, v)
  <2> SUFFICES ASSUME NEW u \in used \cup {b}, NEW v \in used \cup {b}, u # v PROVE PairsApart(u, v)
    OBVIOUS
  <2>1. CASE u = b \/ v = b
    BY <1>4, <1>7, <1>11, <2>1
  <2>2. CASE u \in used /\ v \in used
    BY <2>2 DEF MemoryOK
  <2> QED BY <2>1, <2>2
<1>15. ASSUME NEW g \in WASM_PAGE .. (size - 1)
       PROVE  (\E k \in 1 .. Len(new) : Covers(new[k], g)) \/ (\E u \in used \cup {b} : Covers(u, g))
  <2>0. g \in Int
    BY <1>5 DEF WASM_PAGE
  <2>1. CASE \E k \in 1 .. n : Covers(list[k], g)
    <3>1. PICK k \in 1 .. n : Covers(list[k], g)
      BY <2>1
    <3>2. CASE k = i
      <4>1. Covers(q, g) \/ Covers(b, g)
        BY <1>5, <1>6, <2>0, <3>1, <3>2 DEF Covers, IsPair, p
      <4> QED BY <1>1, <1>2, <4>1
    <3>3. CASE k # i
      BY <1>1, <1>2, <3>1, <3>3
    <3> QED BY <3>2, <3>3
  <2>2. CASE \E u \in used : Covers(u, g)
    BY <2>2
  <2> QED BY <2>1, <2>2 DEF MemoryOK
<1>16. size \in Nat /\ size >= WASM_PAGE /\ size % MIN_ALLOC = 0
  BY DEF MemoryOK
<1>17. MemoryOK(new, used \cup {b}, size)
  BY <1>2, <1>8, <1>9, <1>12, <1>13, <1>14, <1>15, <1>16 DEF MemoryOK
<1> QED BY <1>17 DEF new, q, b, p

\* Two parts that meet, and what lies outside both.
LEMMA PairsMeet ==
    ASSUME NEW p, NEW b, IsPair(p), IsPair(b), NextBase(p) = b.base, NEW size \in Nat,
           p.size > 0 => InMemory(p, size), b.size > 0 => InMemory(b, size)
    PROVE  LET e == FreePair(p.base, p.size + b.size)
           IN /\ IsPair(e) /\ (e.size > 0 => InMemory(e, size))
              /\ \A g \in Int : Covers(e, g) <=> Covers(p, g) \/ Covers(b, g)
              /\ \A r : IsPair(r) /\ r.size > 0 /\ (p.size > 0 => PairsApart(p, r)) /\ (b.size > 0 => PairsApart(b, r))
                          => (e.size > 0 => PairsApart(e, r))
<1> DEFINE e == FreePair(p.base, p.size + b.size)
<1>1. PICK x \in Nat, y \in Nat, z \in Nat : p.base = x /\ p.size = y /\ b.base = x + y /\ b.size = z
  BY DEF IsPair, NextBase
<1>2. x % MIN_ALLOC = 0 /\ y % MIN_ALLOC = 0 /\ z % MIN_ALLOC = 0
  BY <1>1 DEF IsPair
<1>3. (y + z) % MIN_ALLOC = 0 /\ y + z \in Nat /\ WASM_PAGE \in Nat
  BY <1>2, Multiples DEF WASM_PAGE
<1>4. e.base = x /\ e.size = y + z /\ e = [base |-> x, size |-> y + z]
  BY <1>1 DEF FreePair
<1> HIDE DEF e
<1>5. IsPair(e)
  BY <1>2, <1>3, <1>4 DEF IsPair
<1>6. e.size > 0 => InMemory(e, size)
  <2>1. NextBase(e) = x + y + z /\ NextBase(p) = x + y /\ NextBase(b) = x + y + z
    BY <1>1, <1>4 DEF NextBase
  <2> QED BY <1>1, <1>3, <1>4, <2>1 DEF InMemory
<1>7. ASSUME NEW g \in Int PROVE Covers(e, g) <=> Covers(p, g) \/ Covers(b, g)
  BY <1>1, <1>4 DEF Covers, NextBase
<1>8. ASSUME NEW r, IsPair(r), r.size > 0, p.size > 0 => PairsApart(p, r), b.size > 0 => PairsApart(b, r), e.size > 0
      PROVE  PairsApart(e, r)
  <2>1. PICK v \in Nat, w \in Nat : r.base = v /\ r.size = w
    BY <1>8 DEF IsPair
  <2> QED BY <1>1, <1>4, <1>8, <2>1 DEF PairsApart, NextBase
<1>9. /\ IsPair(e) /\ (e.size > 0 => InMemory(e, size))
      /\ \A g \in Int : Covers(e, g) <=> Covers(p, g) \/ Covers(b, g)
      /\ \A r : IsPair(r) /\ r.size > 0 /\ (p.size > 0 => PairsApart(p, r)) /\ (b.size > 0 => PairsApart(b, r))
                  => (e.size > 0 => PairsApart(e, r))
  BY <1>5, <1>6, <1>7, <1>8
<1> QED BY <1>9 DEF e

\* A pair becomes larger by a block that it meets.
LEMMA MemoryWidened ==
    ASSUME NEW list, NEW used, NEW size, MemoryOK(list, used, size), NEW i \in 1 .. Len(list), NEW b \in used,
           NextBase(b) = list[i].base \/ NextBase(list[i]) = b.base
    PROVE  LET e == FreePair(IF NextBase(b) = list[i].base THEN b.base ELSE list[i].base, list[i].size + b.size)
           IN MemoryOK([list EXCEPT ![i] = e], used \ {b}, size) /\ Len([list EXCEPT ![i] = e]) = Len(list)
<1> DEFINE n == Len(list)
           p == list[i]
           e == FreePair(IF NextBase(b) = p.base THEN b.base ELSE p.base, p.size + b.size)
           new == [list EXCEPT ![i] = e]
<1>0. PICK S : list \in Seq(S)
  BY DEF MemoryOK
<1>1. n \in Nat /\ new = [k \in 1 .. n |-> new[k]] /\ new[i] = e /\ \A k \in 1 .. n : k # i => new[k] = list[k]
  BY <1>0
<1> HIDE DEF new
<1>2. (\E T : new \in Seq(T)) /\ Len(new) = n
  BY <1>1, ListOf
<1>3. \A k \in 1 .. n : IsPair(list[k]) /\ (list[k].size > 0 => InMemory(list[k], size))
  BY DEF MemoryOK
<1>4. \A u \in used : IsPair(u) /\ u.size > 0 /\ InMemory(u, size)
  BY DEF MemoryOK
<1>5. size \in Nat /\ IsPair(p) /\ (p.size > 0 => InMemory(p, size)) /\ IsPair(b) /\ b.size > 0 /\ InMemory(b, size)
      /\ (NextBase(b) = p.base \/ NextBase(p) = b.base)
  BY <1>3, <1>4 DEF MemoryOK
<1> HIDE DEF p
<1>6. /\ IsPair(e) /\ (e.size > 0 => InMemory(e, size))
      /\ \A g \in Int : Covers(e, g) <=> Covers(p, g) \/ Covers(b, g)
      /\ \A r : IsPair(r) /\ r.size > 0 /\ (p.size > 0 => PairsApart(p, r)) /\ (b.size > 0 => PairsApart(b, r))
                  => (e.size > 0 => PairsApart(e, r))
  <2>1. CASE NextBase(b) = p.base
    <3>1. e = FreePair(b.base, b.size + p.size)
      BY <1>5, <2>1 DEF IsPair
    <3> HIDE DEF e
    <3> QED BY <1>5, <2>1, <3>1, PairsMeet
  <2>2. CASE NextBase(b) # p.base
    <3>1. e = FreePair(p.base, p.size + b.size) /\ NextBase(p) = b.base
      BY <1>5, <2>2
    <3> HIDE DEF e
    <3> QED BY <1>5, <3>1, PairsMeet
  <2> QED BY <2>1, <2>2
<1> HIDE DEF e
<1>7. ASSUME NEW k \in 1 .. n, k # i, list[k].size > 0, e.size > 0 PROVE PairsApart(e, list[k]) /\ PairsApart(list[k], e)
  <2>1. p.size > 0 => PairsApart(p, list[k])
    BY <1>7 DEF MemoryOK, p
  <2>2. PairsApart(b, list[k])
    BY <1>7 DEF MemoryOK, PairsApart
  <2>3. PairsApart(e, list[k])
    BY <1>3, <1>6, <1>7, <2>1, <2>2
  <2> QED BY <2>3 DEF PairsApart
<1>8. ASSUME NEW u \in used \ {b}, e.size > 0 PROVE PairsApart(e, u)
  <2>1. p.size > 0 => PairsApart(p, u)
    BY <1>8 DEF MemoryOK, p
  <2>2. PairsApart(b, u)
    BY <1>8 DEF MemoryOK
  <2> QED BY <1>4, <1>6, <1>8, <2>1, <2>2
<1>9. \A k \in 1 .. Len(new) : IsPair(new[k]) /\ (new[k].size > 0 => InMemory(new[k], size))
  BY <1>1, <1>2, <1>3, <1>6
<1>10. \A k, j \in 1 .. Len(new) : k # j /\ new[k].size > 0 /\ new[j].size > 0 => PairsApart(new[k], new[j])
  <2> SUFFICES ASSUME NEW k \in 1 .. n, NEW j \in 1 .. n, k # j, new[k].size > 0, new[j].size > 0
               PROVE  PairsApart(new[k], new[j])
    BY <1>2
  <2>1. CASE k = i
    BY <1>1, <1>7, <2>1
  <2>2. CASE j = i
    BY <1>1, <1>7, <2>2
  <2>3. CASE k # i /\ j # i
    BY <1>1, <2>3 DEF MemoryOK
  <2> QED BY <2>1, <2>2, <2>3
<1>11. \A k \in 1 .. Len(new), u \in used \ {b} : new[k].size > 0 => PairsApart(new[k], u)
  <2> SUFFICES ASSUME NEW k \in 1 .. n, NEW u \in used \ {b}, new[k].size > 0 PROVE PairsApart(new[k], u)
    BY <1>2
  <2>1. CASE k = i
    BY <1>1, <1>8, <2>1
  <2>2. CASE k # i
    BY <1>1, <2>2 DEF MemoryOK
  <2> QED BY <2>1, <2>2
<1>12. ASSUME NEW g \in WASM_PAGE .. (size - 1)
       PROVE  (\E k \in 1 .. Len(new) : Covers(new[k], g)) \/ (\E u \in used \ {b} : Covers(u, g))
  <2>0. g \in Int
    BY <1>5 DEF WASM_PAGE
  <2>1. CASE \E k \in 1 .. n : Covers(list[k], g)
    <3>1. PICK k \in 1 .. n : Covers(list[k], g)
      BY <2>1
    <3>2. CASE k = i
      BY <1>1, <1>2, <1>6, <2>0, <3>1, <3>2 DEF p
    <3>3. CASE k # i
      BY <1>1, <1>2, <3>1, <3>3
    <3> QED BY <3>2, <3>3
  <2>2. CASE \E u \in used : Covers(u, g)
    <3>1. PICK u \in used : Covers(u, g)
      BY <2>2
    <3>2. CASE u = b
      BY <1>1, <1>2, <1>6, <2>0, <3>1, <3>2
    <3> QED BY <3>1, <3>2
  <2> QED BY <2>1, <2>2 DEF MemoryOK
<1>13. \A u \in used \ {b} : IsPair(u) /\ u.size > 0 /\ InMemory(u, size)
  BY <1>4
<1>14. \A u, v \in used \ {b} : u # v => PairsApart(u, v)
  BY DEF MemoryOK
<1>15. size \in Nat /\ size >= WASM_PAGE /\ size % MIN_ALLOC = 0
  BY DEF MemoryOK
<1>16. MemoryOK(new, used \ {b}, size)
  BY <1>2, <1>9, <1>10, <1>11, <1>12, <1>13, <1>14, <1>15 DEF MemoryOK
<1> QED BY <1>2, <1>16 DEF new, e, p

\* A list without one of its entries.
LEMMA EntryRemoved ==
    ASSUME NEW S, NEW list \in Seq(S), NEW j \in 1 .. Len(list)
    PROVE  /\ RemoveAt(list, j) \in Seq(S) /\ Len(RemoveAt(list, j)) = Len(list) - 1
           /\ \A k \in 1 .. (Len(list) - 1) : RemoveAt(list, j)[k] = IF k < j THEN list[k] ELSE list[k + 1]
<1> DEFINE n == Len(list)
           a == SubSeq(list, 1, j - 1)
           b == SubSeq(list, j + 1, n)
<1>0. n \in Nat
  OBVIOUS
<1>1. a \in Seq(S) /\ Len(a) = j - 1 /\ \A k \in 1 .. (j - 1) : a[k] = list[k]
  BY <1>0
<1>2. b \in Seq(S) /\ Len(b) = n - j /\ \A k \in 1 .. (n - j) : b[k] = list[k + j]
  BY <1>0
<1>3. RemoveAt(list, j) = a \o b
  BY DEF RemoveAt
<1> HIDE DEF a, b
<1>4. a \o b \in Seq(S) /\ Len(a \o b) = n - 1
  <2>1. a \o b \in Seq(S) /\ Len(a \o b) = Len(a) + Len(b)
    BY <1>1, <1>2, ConcatProperties
  <2>2. j \in Int /\ (j - 1) + (n - j) = n - 1
    BY <1>0
  <2> HIDE DEF n
  <2> QED BY <1>1, <1>2, <2>1, <2>2
<1>5. ASSUME NEW k \in 1 .. (n - 1) PROVE (a \o b)[k] = IF k < j THEN list[k] ELSE list[k + 1]
  <2>1. CASE k < j
    BY <1>0, <1>1, <1>2, <2>1
  <2>2. CASE k >= j
    <3>1. (a \o b)[k] = b[k - (j - 1)] /\ k - (j - 1) \in 1 .. (n - j)
      BY <1>0, <1>1, <1>2, <2>2
    <3>2. b[k - (j - 1)] = list[k - (j - 1) + j] /\ k - (j - 1) + j = k + 1
      BY <1>0, <1>2, <3>1
    <3> QED BY <2>2, <3>1, <3>2
  <2>3. k < j \/ k >= j
    BY <1>0
  <2> QED BY <2>1, <2>2, <2>3
<1> QED BY <1>3, <1>4, <1>5

\* A pair takes in the one behind it, if they meet.
LEMMA MemoryJoined ==
    ASSUME NEW list, NEW used, NEW size, MemoryOK(list, used, size), NEW i \in 1 .. Len(list)
    PROVE  MemoryOK(Joined(list, i), used, size) /\ Len(Joined(list, i)) \in Nat /\ Len(Joined(list, i)) <= Len(list)
<1> DEFINE n == Len(list)
           p == list[i]
           b == list[i + 1]
           e == FreePair(p.base, p.size + b.size)
           cut == RemoveAt(list, i + 1)
           new == [cut EXCEPT ![i] = e]
           from(k) == IF k < i + 1 THEN k ELSE k + 1
<1>0. PICK S : list \in Seq(S)
  BY DEF MemoryOK
<1>1. n \in Nat
  BY <1>0
<1>2. CASE ~(i < n /\ NextBase(p) = b.base)
  BY <1>1, <1>2 DEF Joined
<1>3. CASE i < n /\ NextBase(p) = b.base
  <2>1. i + 1 \in 1 .. n /\ i \in 1 .. (n - 1) /\ n - 1 \in Nat
    BY <1>1, <1>3
  <2>2. cut \in Seq(S) /\ Len(cut) = n - 1 /\ \A k \in 1 .. (n - 1) : cut[k] = IF k < i + 1 THEN list[k] ELSE list[k + 1]
    BY <1>0, <2>1, EntryRemoved
  <2>3. Joined(list, i) = new
    BY <1>3 DEF Joined
  <2> HIDE DEF cut
  <2>4. new = [k \in 1 .. (n - 1) |-> new[k]] /\ new[i] = e /\ \A k \in 1 .. (n - 1) : k # i => new[k] = cut[k]
    <3>1. cut = [k \in 1 .. (n - 1) |-> cut[k]]
      BY <2>1, <2>2
    <3> HIDE DEF e, n
    <3> QED BY <2>1, <3>1
  <2> HIDE DEF new
  <2>5. (\E T : new \in Seq(T)) /\ Len(new) = n - 1
    BY <2>1, <2>4, ListOf
  <2>6. \A k \in 1 .. (n - 1) : /\ k # i => new[k] = list[from(k)] /\ from(k) \in 1 .. n /\ from(k) # i /\ from(k) # i + 1
    <3> SUFFICES ASSUME NEW k \in 1 .. (n - 1), k # i
                 PROVE  new[k] = list[from(k)] /\ from(k) \in 1 .. n /\ from(k) # i /\ from(k) # i + 1
      OBVIOUS
    <3>1. new[k] = list[from(k)]
      BY <2>2, <2>4
    <3> QED BY <1>1, <2>1, <3>1
  <2>7. \A k, j \in 1 .. (n - 1) : k # j => from(k) # from(j)
    BY <1>1
  <2>8. \A k \in 1 .. n : k # i /\ k # i + 1 => \E j \in 1 .. (n - 1) : j # i /\ from(j) = k
    <3> SUFFICES ASSUME NEW k \in 1 .. n, k # i, k # i + 1 PROVE \E j \in 1 .. (n - 1) : j # i /\ from(j) = k
      OBVIOUS
    <3>1. CASE k < i
      BY <1>1, <2>1, <3>1
    <3>2. CASE k > i + 1
      <4>1. k - 1 \in 1 .. (n - 1) /\ k - 1 # i /\ from(k - 1) = k
        BY <1>1, <2>1, <3>2
      <4> QED BY <4>1
    <3> QED BY <1>1, <2>1, <3>1, <3>2
  <2> HIDE DEF from
  <2>9. \A k \in 1 .. n : IsPair(list[k]) /\ (list[k].size > 0 => InMemory(list[k], size))
    BY DEF MemoryOK
  <2>10. \A u \in used : IsPair(u) /\ u.size > 0 /\ InMemory(u, size)
    BY DEF MemoryOK
  <2>11. size \in Nat /\ size >= WASM_PAGE /\ size % MIN_ALLOC = 0
    BY DEF MemoryOK
  <2>12. IsPair(p) /\ (p.size > 0 => InMemory(p, size)) /\ IsPair(b) /\ (b.size > 0 => InMemory(b, size)) /\ NextBase(p) = b.base
    BY <1>3, <2>1, <2>9
  <2> HIDE DEF p, b
  <2>13. /\ IsPair(e) /\ (e.size > 0 => InMemory(e, size))
         /\ \A g \in Int : Covers(e, g) <=> Covers(p, g) \/ Covers(b, g)
         /\ \A r : IsPair(r) /\ r.size > 0 /\ (p.size > 0 => PairsApart(p, r)) /\ (b.size > 0 => PairsApart(b, r))
                     => (e.size > 0 => PairsApart(e, r))
    BY <2>11, <2>12, PairsMeet
  <2> HIDE DEF e
  <2>14. ASSUME NEW k \in 1 .. n, k # i, k # i + 1, list[k].size > 0, e.size > 0
         PROVE  PairsApart(e, list[k]) /\ PairsApart(list[k], e)
    <3>1. p.size > 0 => PairsApart(p, list[k])
      BY <2>14 DEF MemoryOK, p
    <3>2. b.size > 0 => PairsApart(b, list[k])
      BY <2>1, <2>14 DEF MemoryOK, b
    <3>3. PairsApart(e, list[k])
      BY <2>9, <2>13, <2>14, <3>1, <3>2
    <3> QED BY <3>3 DEF PairsApart
  <2>15. ASSUME NEW u \in used, e.size > 0 PROVE PairsApart(e, u)
    <3>1. p.size > 0 => PairsApart(p, u)
      BY DEF MemoryOK, p
    <3>2. b.size > 0 => PairsApart(b, u)
      BY <2>1 DEF MemoryOK, b
    <3> QED BY <2>10, <2>13, <2>15, <3>1, <3>2
  <2>16. \A k \in 1 .. Len(new) : IsPair(new[k]) /\ (new[k].size > 0 => InMemory(new[k], size))
    <3> SUFFICES ASSUME NEW k \in 1 .. (n - 1) PROVE IsPair(new[k]) /\ (new[k].size > 0 => InMemory(new[k], size))
      BY <2>5
    <3>1. CASE k = i
      BY <2>4, <2>13, <3>1
    <3>2. CASE k # i
      BY <2>6, <2>9, <3>2
    <3> QED BY <3>1, <3>2
  <2>17. \A k, j \in 1 .. Len(new) : k # j /\ new[k].size > 0 /\ new[j].size > 0 => PairsApart(new[k], new[j])
    <3> SUFFICES ASSUME NEW k \in 1 .. (n - 1), NEW j \in 1 .. (n - 1), k # j, new[k].size > 0, new[j].size > 0
                 PROVE  PairsApart(new[k], new[j])
      BY <2>5
    <3>1. CASE k = i
      BY <2>4, <2>6, <2>14, <3>1
    <3>2. CASE j = i
      BY <2>4, <2>6, <2>14, <3>2
    <3>3. CASE k # i /\ j # i
      <4>1. from(k) \in 1 .. n /\ from(j) \in 1 .. n /\ from(k) # from(j) /\ new[k] = list[from(k)] /\ new[j] = list[from(j)]
        BY <2>6, <2>7, <3>3
      <4> QED BY <4>1 DEF MemoryOK
    <3> QED BY <3>1, <3>2, <3>3
  <2>18. \A k \in 1 .. Len(new), u \in used : new[k].size > 0 => PairsApart(new[k], u)
    <3> SUFFICES ASSUME NEW k \in 1 .. (n - 1), NEW u \in used, new[k].size > 0 PROVE PairsApart(new[k], u)
      BY <2>5
    <3>1. CASE k = i
      BY <2>4, <2>15, <3>1
    <3>2. CASE k # i
      <4>1. from(k) \in 1 .. n /\ new[k] = list[from(k)]
        BY <2>6, <3>2
      <4> QED BY <4>1 DEF MemoryOK
    <3> QED BY <3>1, <3>2
  <2>19. ASSUME NEW g \in WASM_PAGE .. (size - 1)
         PROVE  (\E k \in 1 .. Len(new) : Covers(new[k], g)) \/ (\E u \in used : Covers(u, g))
    <3>0. g \in Int
      BY <2>11 DEF WASM_PAGE
    <3>1. CASE \E k \in 1 .. n : Covers(list[k], g)
      <4>1. PICK k \in 1 .. n : Covers(list[k], g)
        BY <3>1
      <4>2. CASE k = i \/ k = i + 1
        <5>1. Covers(e, g)
          BY <2>13, <3>0, <4>1, <4>2 DEF p, b
        <5> QED BY <2>1, <2>4, <2>5, <5>1
      <4>3. CASE k # i /\ k # i + 1
        <5>1. PICK j \in 1 .. (n - 1) : j # i /\ from(j) = k
          BY <2>8, <4>3
        <5>2. new[j] = list[k]
          BY <2>6, <5>1
        <5> QED BY <2>5, <4>1, <5>2
      <4> QED BY <4>2, <4>3
    <3>2. CASE \E u \in used : Covers(u, g)
      BY <3>2
    <3> QED BY <3>1, <3>2 DEF MemoryOK
  <2>20. \A u, v \in used : u # v => PairsApart(u, v)
    BY DEF MemoryOK
  <2>21. MemoryOK(new, used, size)
    BY <2>5, <2>10, <2>11, <2>16, <2>17, <2>18, <2>19, <2>20 DEF MemoryOK
  <2>22. Len(new) \in Nat /\ Len(new) <= n
    BY <1>1, <2>1, <2>5
  <2> QED BY <2>3, <2>21, <2>22
<1> QED BY <1>2, <1>3

\* Blocks have at least the size of a granule, and are made of granules.
LEMMA BlockSizes ==
    ASSUME NEW c, c.size \in Nat, c.align \in Nat
    PROVE  MinAlloc(c) \in Nat /\ MinAlloc(c) > 0 /\ MinAlloc(c) % MIN_ALLOC = 0 /\ ALIGN(c) \in Nat /\ ALIGN(c) > 0
<1>1. ALIGN(c) \in Nat /\ ALIGN(c) >= 16
  BY DEF ALIGN, Greater, MIN_ALLOC
<1>2. PICK x \in Nat : x = Greater(ALIGN(c), c.size) /\ x >= 16
  BY <1>1 DEF Greater
<1>3. MinAlloc(c) = ((x + 16 - 1) \div 16) * 16
  BY <1>2 DEF MinAlloc, RoundUp, MIN_ALLOC
<1>4. PICK y \in Nat : y = (x + 16 - 1) \div 16 /\ y > 0
  BY <1>2
<1>5. y * 16 \in Nat /\ y * 16 > 0 /\ (y * 16) % 16 = 0
  BY <1>4
<1>6. MinAlloc(c) = y * 16
  BY <1>3, <1>4
<1> QED BY <1>1, <1>5, <1>6 DEF MIN_ALLOC

\* A block that is freed joins its neighbours or the list.
LEMMA MemoryFreed ==
    ASSUME NEW list, NEW used, NEW size, MemoryOK(list, used, size), NEW b \in used
    PROVE  MemoryOK(Freed(list, b), used \ {b}, size)
<1> DEFINE n == Len(list)
           I == {k \in 1 .. n : NextBase(b) = list[k].base \/ NextBase(list[k]) = b.base}
           i == IF I # {} THEN Min(I) ELSE 0
           e == FreePair(IF NextBase(b) = list[i].base THEN b.base ELSE list[i].base, list[i].size + b.size)
           wide == [list EXCEPT ![i] = e]
<1>2. I \in SUBSET Nat
  OBVIOUS
<1>3. I # {} => i \in I
  BY <1>2, LeastIn
<1>4. CASE I = {}
  <2>1. Freed(list, b) = ByBase(Append(list, b))
    BY <1>4 DEF Freed, SelectInSeq
  <2>2. MemoryOK(Append(list, b), used \ {b}, size)
    BY MemoryReturned
  <2> QED BY <2>1, <2>2, MemorySorted
<1>5. CASE I # {}
  <2>1. i \in 1 .. n /\ (NextBase(b) = list[i].base \/ NextBase(list[i]) = b.base) /\ i # 0
    BY <1>3, <1>5
  <2>2. Freed(list, b) = Joined(wide, i)
    <3>1. Freed(list, b) = IF i = 0 THEN ByBase(Append(list, b)) ELSE Joined(wide, i)
      BY DEF Freed, SelectInSeq
    <3> HIDE DEF i
    <3> QED BY <2>1, <3>1
  <2> HIDE DEF i
  <2>3. MemoryOK(wide, used \ {b}, size) /\ Len(wide) = n
    BY <2>1, MemoryWidened
  <2>4. i \in 1 .. Len(wide)
    BY <2>1, <2>3
  <2> HIDE DEF wide
  <2> QED BY <2>2, <2>3, <2>4, MemoryJoined
<1> QED BY <1>4, <1>5

\* A block that alloc finds is the first part of a pair, or is cut in front of
\* one.
LEMMA MemoryGiven ==
    ASSUME NEW list, NEW used, NEW size, MemoryOK(list, used, size),
           NEW c, c.size \in Nat, c.align \in Nat, TakeFrom(c, list).t = "block"
    PROVE  LET r == TakeFrom(c, list)
           IN r.before \/ MemoryOK(r.free, used \cup {FreePair(r.base, MinAlloc(c))}, size)
<1> DEFINE n == Len(list)
           I == {k \in 1 .. n : Fits(c, list[k]) \/ list[k].size >= MaxAlloc(c)}
           i == FirstFitOf(c, list)
           p == list[i]
           m == MinAlloc(c)
           red == IF Fits(c, p) THEN 0 ELSE p.base % ALIGN(c)
           q == FreePair(p.base - red + m, p.size - red - m)
           rest == [list EXCEPT ![i] = q]
           all == IF Fits(c, p) THEN rest ELSE ByBase(Append(rest, FreePair(p.base, red)))
<1>1. m \in Nat /\ m > 0 /\ m % MIN_ALLOC = 0 /\ ALIGN(c) \in Nat /\ ALIGN(c) > 0
  BY BlockSizes
<1>2. i = IF I # {} THEN Min(I) ELSE 0
  BY DEF FirstFitOf, SelectInSeq
<1>3. I \in SUBSET Nat
  OBVIOUS
<1>4. i = 0 \/ i \in 1 .. n
  BY <1>2, <1>3, LeastIn
<1> HIDE DEF I
<1>5. TakeFrom(c, list) = IF i = 0 THEN [t |-> "none"]
       ELSE IF q.size < 0 THEN [t |-> "wrapped"]
       ELSE IF ~Fits(c, p) /\ Adjacent(all) THEN [t |-> "hangs"]
       ELSE [t |-> "block", base |-> p.base - red, free |-> all, before |-> red > 0]
  BY DEF TakeFrom
<1> HIDE DEF i, all, q, red
<1>6. i # 0 /\ ~(q.size < 0) /\ TakeFrom(c, list) = [t |-> "block", base |-> p.base - red, free |-> all, before |-> red > 0]
  BY <1>5
<1>7. TakeFrom(c, list).base = p.base - red /\ TakeFrom(c, list).free = all /\ TakeFrom(c, list).before = (red > 0)
  BY <1>6
<1>8. i \in 1 .. n /\ IsPair(p)
  BY <1>4, <1>6 DEF MemoryOK
<1>9. p.base \in Nat /\ p.size \in Nat
  BY <1>8 DEF IsPair
<1>10. CASE Fits(c, p)
  <2>1. red = 0 /\ p.size >= m
    BY <1>10 DEF red, Fits
  <2>2. p.base - red = p.base /\ q = FreePair(p.base + m, p.size - m)
    BY <1>9, <2>1 DEF q
  <2>3. all = [list EXCEPT ![i] = FreePair(p.base + m, p.size - m)]
    BY <1>10, <2>2 DEF all
  <2>4. MemoryOK([list EXCEPT ![i] = FreePair(p.base + m, p.size - m)], used \cup {FreePair(p.base, m)}, size)
    <3> HIDE DEF m
    <3> QED BY <1>1, <1>8, <2>1, MemoryTaken
  <2> QED BY <1>7, <2>2, <2>3, <2>4
<1>11. CASE ~Fits(c, p)
  <2>1. red = p.base % ALIGN(c) /\ red \in Nat
    BY <1>1, <1>9, <1>11 DEF red
  <2>2. red # 0
    <3> SUFFICES ASSUME red = 0 PROVE FALSE
      OBVIOUS
    <3>1. p.size < m
      BY <1>1, <1>9, <1>11, <2>1 DEF Fits
    <3>2. q.size = p.size - 0 - m
      BY DEF q, FreePair
    <3> HIDE DEF m, p
    <3> QED BY <1>1, <1>6, <1>9, <3>1, <3>2
  <2>3. red > 0
    BY <2>1, <2>2
  <2> QED BY <1>7, <2>3
<1> QED BY <1>10, <1>11

\* In memory that is in order blocks are apart, aligned and leave no gap.
LEMMA MemoryIsApart ==
    ASSUME myBefore \/ MemoryOK(myFree, myUsed, mySize)
    PROVE  BlocksApart
<1> DEFINE blocks == myUsed \cup {p \in Range(myFree) : p.size > 0}
<1> SUFFICES ASSUME MemoryOK(myFree, myUsed, mySize)
             PROVE  /\ \A p, q \in blocks : p # q => NextBase(p) <= q.base \/ NextBase(q) <= p.base
                    /\ \A p \in blocks : p.base % MIN_ALLOC = 0 /\ p.base >= WASM_PAGE /\ NextBase(p) <= mySize
                    /\ \A e \in {WASM_PAGE} \cup {NextBase(p) : p \in blocks} : e = mySize \/ \E p \in blocks : p.base = e
  BY DEF BlocksApart
<1>0. PICK S : myFree \in Seq(S)
  BY DEF MemoryOK
<1>1. Range(myFree) = {myFree[k] : k \in 1 .. Len(myFree)}
  BY <1>0 DEF Range
<1>2. \A p \in blocks : IsPair(p) /\ p.size > 0 /\ InMemory(p, mySize)
  BY <1>1 DEF MemoryOK
<1>3. \A p, q \in blocks : p # q => PairsApart(p, q)
  <2> SUFFICES ASSUME NEW p \in blocks, NEW q \in blocks, p # q PROVE PairsApart(p, q)
    OBVIOUS
  <2>1. CASE p \in myUsed /\ q \in myUsed
    BY <2>1 DEF MemoryOK
  <2>2. CASE p \notin myUsed /\ q \in myUsed
    BY <1>1, <2>2 DEF MemoryOK
  <2>3. CASE p \in myUsed /\ q \notin myUsed
    <3>1. PairsApart(q, p)
      BY <1>1, <2>3 DEF MemoryOK
    <3> QED BY <3>1 DEF PairsApart
  <2>4. CASE p \notin myUsed /\ q \notin myUsed
    <3>1. PICK i \in 1 .. Len(myFree), j \in 1 .. Len(myFree) : p = myFree[i] /\ q = myFree[j] /\ p.size > 0 /\ q.size > 0
      BY <1>1, <2>4
    <3>2. i # j
      BY <3>1
    <3> QED BY <3>1, <3>2 DEF MemoryOK
  <2> QED BY <2>1, <2>2, <2>3, <2>4
<1>4. \A g \in WASM_PAGE .. (mySize - 1) : \E p \in blocks : Covers(p, g)
  <2> SUFFICES ASSUME NEW g \in WASM_PAGE .. (mySize - 1) PROVE \E p \in blocks : Covers(p, g)
    OBVIOUS
  <2>1. CASE \E u \in myUsed : Covers(u, g)
    BY <2>1
  <2>2. CASE \E i \in 1 .. Len(myFree) : Covers(myFree[i], g)
    <3>1. PICK i \in 1 .. Len(myFree) : Covers(myFree[i], g)
      BY <2>2
    <3>2. IsPair(myFree[i]) /\ mySize \in Nat
      BY DEF MemoryOK
    <3>3. g \in Int
      BY <3>2 DEF WASM_PAGE
    <3>4. myFree[i].size > 0
      BY <3>1, <3>2, <3>3 DEF Covers, NextBase, IsPair
    <3> QED BY <1>1, <3>1, <3>4
  <2> QED BY <2>1, <2>2 DEF MemoryOK
<1>5. mySize \in Nat /\ mySize >= WASM_PAGE /\ WASM_PAGE \in Nat
  BY DEF MemoryOK, WASM_PAGE
<1> HIDE DEF blocks
<1>6. ASSUME NEW e \in {WASM_PAGE} \cup {NextBase(p) : p \in blocks}, e # mySize PROVE \E p \in blocks : p.base = e
  <2>1. e \in WASM_PAGE .. (mySize - 1)
    <3>1. CASE e = WASM_PAGE
      BY <1>5, <1>6, <3>1
    <3>2. CASE \E p \in blocks : e = NextBase(p)
      <4>1. PICK p \in blocks : e = NextBase(p)
        BY <3>2
      <4>2. IsPair(p) /\ InMemory(p, mySize)
        BY <1>2
      <4> QED BY <1>5, <1>6, <4>1, <4>2 DEF IsPair, InMemory, NextBase
    <3> QED BY <3>1, <3>2
  <2>2. PICK q \in blocks : Covers(q, e)
    BY <1>4, <2>1
  <2>3. IsPair(q) /\ q.size > 0 /\ InMemory(q, mySize) /\ q.base <= e /\ e < NextBase(q) /\ e \in Int
    BY <1>2, <1>5, <2>1, <2>2 DEF Covers
  <2>4. CASE e = WASM_PAGE
    BY <1>5, <2>3, <2>4 DEF InMemory, IsPair
  <2>5. CASE \E p \in blocks : e = NextBase(p)
    <3>1. PICK p \in blocks : e = NextBase(p)
      BY <2>5
    <3>2. IsPair(p) /\ p.size > 0
      BY <1>2
    <3>3. p # q
      BY <2>3, <3>1
    <3>4. PairsApart(p, q)
      BY <1>3, <3>3
    <3>5. q.base = e
      BY <2>3, <3>1, <3>2, <3>4 DEF PairsApart, IsPair, NextBase
    <3> QED BY <3>5
  <2> QED BY <2>4, <2>5
<1>7. \A p \in blocks : p.base % MIN_ALLOC = 0 /\ p.base >= WASM_PAGE /\ NextBase(p) <= mySize
  <2> SUFFICES ASSUME NEW p \in blocks PROVE p.base % MIN_ALLOC = 0 /\ p.base >= WASM_PAGE /\ NextBase(p) <= mySize
    OBVIOUS
  <2>1. IsPair(p) /\ InMemory(p, mySize)
    BY <1>2
  <2> QED BY <2>1 DEF IsPair, InMemory
<1> QED BY <1>3, <1>6, <1>7 DEF PairsApart

-----------------------------------------------------------------------------
(* Keys of a window *)

\* A set of numbers that has 0, and with a number the next, has all of them.
LEMMA AllNumbers ==
    ASSUME NEW T \in SUBSET Nat, 0 \in T, \A n \in T : n + 1 \in T
    PROVE  T = Nat
<1> SUFFICES ASSUME Nat \ T # {} PROVE FALSE
  OBVIOUS
<1>1. PICK x \in Nat \ T : \A y \in Nat \ T : ~(<<y, x>> \in OpToRel(<, Nat))
  BY NatLessThanWellFounded, WFMin
<1>2. x # 0 /\ x - 1 \in Nat
  OBVIOUS
<1>3. <<x - 1, x>> \in OpToRel(<, Nat)
  <2>1. <<x - 1, x>> \in Nat \X Nat /\ <<x - 1, x>>[1] = x - 1 /\ <<x - 1, x>>[2] = x /\ x - 1 < x
    BY <1>2
  <2> QED BY <2>1 DEF OpToRel
<1>4. x - 1 \in T
  BY <1>1, <1>2, <1>3
<1>5. (x - 1) + 1 \in T
  BY <1>4
<1>6. (x - 1) + 1 = x
  BY <1>2
<1> QED BY <1>5, <1>6

\* One more key of a list, after those of the window among the first ones.
KeyAdded(keys, k, w) == IF k.w = w THEN Append(keys, k) ELSE keys
Gathers(g, s, w, n) == g = [k \in 0 .. n |-> IF k = 0 THEN <<>> ELSE KeyAdded(g[k - 1], s[k], w)]

\* The recursion has a solution.
LEMMA KeysGathered ==
    ASSUME NEW s, NEW w, NEW n \in Nat
    PROVE  \E g : Gathers(g, s, w, n)
<1> DEFINE T == {m \in Nat : \E g : Gathers(g, s, w, m)}
<1>1. 0 \in T
  <2> DEFINE g == [k \in 0 .. 0 |-> <<>>]
  <2>1. Gathers(g, s, w, 0)
    BY DEF Gathers
  <2> QED BY <2>1
<1>2. ASSUME NEW m \in T PROVE m + 1 \in T
  <2>1. PICK g : Gathers(g, s, w, m)
    BY <1>2
  <2> DEFINE h == [k \in 0 .. (m + 1) |-> IF k = m + 1 THEN KeyAdded(g[m], s[m + 1], w) ELSE g[k]]
  <2>2. \A k \in 0 .. m : h[k] = g[k]
    OBVIOUS
  <2>3. \A k \in 0 .. m : g[k] = IF k = 0 THEN <<>> ELSE KeyAdded(g[k - 1], s[k], w)
    BY <2>1 DEF Gathers
  <2>4. ASSUME NEW k \in 0 .. (m + 1) PROVE h[k] = IF k = 0 THEN <<>> ELSE KeyAdded(h[k - 1], s[k], w)
    <3>1. CASE k = m + 1
      <4>1. h[k] = KeyAdded(g[m], s[m + 1], w) /\ k - 1 = m /\ m \in 0 .. m /\ k # 0
        BY <3>1
      <4> HIDE DEF h
      <4> QED BY <2>2, <3>1, <4>1
    <3>2. CASE k \in 0 .. m /\ k # 0
      <4>1. k - 1 \in 0 .. m
        BY <3>2
      <4> HIDE DEF h
      <4> QED BY <2>2, <2>3, <3>2, <4>1
    <3>3. CASE k = 0
      <4>1. 0 \in 0 .. m
        OBVIOUS
      <4> HIDE DEF h
      <4> QED BY <2>2, <2>3, <3>3, <4>1
    <3> QED BY <3>1, <3>2, <3>3
  <2>5. h = [k \in 0 .. (m + 1) |-> h[k]]
    OBVIOUS
  <2> HIDE DEF h
  <2>6. h = [k \in 0 .. (m + 1) |-> IF k = 0 THEN <<>> ELSE KeyAdded(h[k - 1], s[k], w)]
    BY <2>4, <2>5
  <2>7. Gathers(h, s, w, m + 1)
    BY <2>6 DEF Gathers
  <2> QED BY <2>7
<1>3. T \in SUBSET Nat
  OBVIOUS
<1> HIDE DEF T
<1>4. T = Nat
  BY <1>1, <1>2, <1>3, AllNumbers
<1> QED BY <1>4 DEF T

\* The keys among the first n.
LEMMA KeysStep ==
    ASSUME NEW s, NEW w, Len(s) \in Nat
    PROVE  /\ KeysUpTo(s, w)[0] = <<>>
           /\ \A k \in 1 .. Len(s) : KeysUpTo(s, w)[k] = KeyAdded(KeysUpTo(s, w)[k - 1], s[k], w)
<1> DEFINE f == KeysUpTo(s, w)
<1>1. f = CHOOSE g : Gathers(g, s, w, Len(s))
  BY DEF KeysUpTo, Gathers, KeyAdded
<1>2. \E g : Gathers(g, s, w, Len(s))
  BY KeysGathered
<1>3. Gathers(f, s, w, Len(s))
  BY <1>1, <1>2
<1> HIDE DEF f
<1>4. \A k \in 0 .. Len(s) : f[k] = IF k = 0 THEN <<>> ELSE KeyAdded(f[k - 1], s[k], w)
  BY <1>3 DEF Gathers
<1>5. f[0] = <<>> /\ \A k \in 1 .. Len(s) : f[k] = KeyAdded(f[k - 1], s[k], w)
  BY <1>4
<1> QED BY <1>5 DEF f

\* Lists that begin alike have the same keys among the first ones.
LEMMA SameKeys ==
    ASSUME NEW s, NEW r, NEW w, NEW n \in Nat, Len(s) \in Nat, Len(r) \in Nat, n <= Len(s), n <= Len(r),
           \A k \in 1 .. n : r[k] = s[k]
    PROVE  KeysUpTo(r, w)[n] = KeysUpTo(s, w)[n]
<1> DEFINE f == KeysUpTo(s, w)
           g == KeysUpTo(r, w)
           T == {m \in Nat : m <= n => g[m] = f[m]}
<1>1. f[0] = <<>> /\ g[0] = <<>> /\ (\A k \in 1 .. Len(s) : f[k] = KeyAdded(f[k - 1], s[k], w))
      /\ \A k \in 1 .. Len(r) : g[k] = KeyAdded(g[k - 1], r[k], w)
  BY KeysStep
<1> HIDE DEF f, g
<1>2. ASSUME NEW m \in T PROVE m + 1 \in T
  <2>1. m \in Nat
    OBVIOUS
  <2> SUFFICES ASSUME m + 1 <= n PROVE g[m + 1] = f[m + 1]
    BY <2>1
  <2>2. g[m] = f[m] /\ m + 1 \in 1 .. n /\ m + 1 \in 1 .. Len(s) /\ m + 1 \in 1 .. Len(r) /\ (m + 1) - 1 = m
    BY <1>2, <2>1
  <2>3. r[m + 1] = s[m + 1]
    BY <2>2
  <2>4. f[m + 1] = KeyAdded(f[m], s[m + 1], w) /\ g[m + 1] = KeyAdded(g[m], r[m + 1], w)
    BY <1>1, <2>2
  <2> QED BY <2>2, <2>3, <2>4
<1>3. T \in SUBSET Nat /\ 0 \in T
  BY <1>1
<1> HIDE DEF T
<1>4. T = Nat
  BY <1>2, <1>3, AllNumbers
<1> QED BY <1>4 DEF T, f, g

\* A key at the end of a list.
LEMMA KeyAtEnd ==
    ASSUME NEW S, NEW s \in Seq(S), NEW k, NEW w
    PROVE  OfWindow(Append(s, k), w) = KeyAdded(OfWindow(s, w), k, w)
<1> DEFINE r == Append(s, k)
           n == Len(s)
<1>1. n \in Nat /\ Len(r) = n + 1 /\ r[n + 1] = k /\ \A j \in 1 .. n : r[j] = s[j]
  OBVIOUS
<1> HIDE DEF r, n
<1>2. n + 1 \in 1 .. Len(r) /\ (n + 1) - 1 = n /\ n <= Len(r) /\ Len(r) \in Nat
  BY <1>1
<1>3. KeysUpTo(r, w)[n + 1] = KeyAdded(KeysUpTo(r, w)[n], k, w)
  BY <1>1, <1>2, KeysStep
<1>4. KeysUpTo(r, w)[n] = KeysUpTo(s, w)[n]
  BY <1>1, <1>2, SameKeys DEF n
<1> QED BY <1>1, <1>3, <1>4 DEF OfWindow, r, n

\* A key of another window may as well not be there.
LEMMA KeyElsewhere ==
    ASSUME NEW S, NEW s \in Seq(S), NEW j \in 1 .. Len(s), NEW w, s[j].w # w
    PROVE  OfWindow(RemoveAt(s, j), w) = OfWindow(s, w)
<1> DEFINE r == RemoveAt(s, j)
           l == Len(s) - 1
           f == KeysUpTo(s, w)
           g == KeysUpTo(r, w)
           T == {m \in Nat : j + m <= Len(s) => g[j - 1 + m] = f[j + m]}
<1>1. Len(s) \in Nat /\ l \in Nat /\ Len(r) = l /\ j \in Nat /\ j - 1 \in Nat
      /\ (\A k \in 1 .. l : r[k] = IF k < j THEN s[k] ELSE s[k + 1])
  <2>1. Len(s) \in Nat /\ l \in Nat /\ j \in Nat /\ j - 1 \in Nat
    OBVIOUS
  <2>2. Len(RemoveAt(s, j)) = Len(s) - 1
        /\ \A k \in 1 .. (Len(s) - 1) : RemoveAt(s, j)[k] = IF k < j THEN s[k] ELSE s[k + 1]
    BY EntryRemoved
  <2> QED BY <2>1, <2>2
<1> HIDE DEF r
<1>2. (\A k \in 1 .. Len(s) : f[k] = KeyAdded(f[k - 1], s[k], w)) /\ \A k \in 1 .. Len(r) : g[k] = KeyAdded(g[k - 1], r[k], w)
  BY <1>1, KeysStep
<1>3. g[j - 1] = f[j - 1]
  <2>1. j - 1 <= Len(s) /\ j - 1 <= Len(r) /\ Len(r) \in Nat /\ \A k \in 1 .. (j - 1) : r[k] = s[k]
    BY <1>1
  <2>2. PICK n \in Nat : n = j - 1
    BY <1>1
  <2>3. Len(s) \in Nat /\ Len(r) \in Nat /\ n <= Len(s) /\ n <= Len(r) /\ \A k \in 1 .. n : r[k] = s[k]
    BY <1>1, <2>1, <2>2
  <2>4. KeysUpTo(r, w)[n] = KeysUpTo(s, w)[n]
    BY <2>3, SameKeys
  <2> QED BY <2>2, <2>4
<1> HIDE DEF f, g
<1>4. f[j] = f[j - 1]
  BY <1>2 DEF KeyAdded
<1>5. 0 \in T
  <2>1. j - 1 + 0 = j - 1 /\ j + 0 = j
    BY <1>1
  <2> QED BY <1>3, <1>4, <2>1
<1>6. ASSUME NEW m \in T PROVE m + 1 \in T
  <2>1. m \in Nat
    OBVIOUS
  <2> SUFFICES ASSUME j + (m + 1) <= Len(s) PROVE g[j - 1 + (m + 1)] = f[j + (m + 1)]
    BY <2>1
  <2>2. g[j - 1 + m] = f[j + m]
    BY <1>1, <1>6, <2>1
  <2> DEFINE k == j + m
  <2>3. k \in 1 .. Len(r) /\ k + 1 \in 1 .. Len(s) /\ k >= j /\ k \in 1 .. l /\ j - 1 + (m + 1) = k /\ j + (m + 1) = k + 1
        /\ j - 1 + m = k - 1 /\ (k + 1) - 1 = k
    BY <1>1, <2>1
  <2> HIDE DEF k
  <2>4. r[k] = s[k + 1]
    <3>1. r[k] = IF k < j THEN s[k] ELSE s[k + 1]
      BY <1>1, <2>3
    <3>2. ~(k < j)
      BY <1>1, <2>1, <2>3
    <3> QED BY <3>1, <3>2
  <2>5. g[k] = KeyAdded(g[k - 1], r[k], w) /\ f[k + 1] = KeyAdded(f[k], s[k + 1], w)
    BY <1>2, <2>3
  <2> QED BY <2>2, <2>3, <2>4, <2>5 DEF k
<1>7. T \in SUBSET Nat
  OBVIOUS
<1> HIDE DEF T
<1>8. T = Nat
  BY <1>5, <1>6, <1>7, AllNumbers
<1>9. Len(s) - j \in T /\ j + (Len(s) - j) = Len(s) /\ j - 1 + (Len(s) - j) = l
  BY <1>1, <1>8
<1>10. g[l] = f[Len(s)]
  BY <1>1, <1>9 DEF T
<1> QED BY <1>1, <1>10 DEF OfWindow, f, g, r

\* A list without a key of the window.
LEMMA KeysOfNone ==
    ASSUME NEW S, NEW s \in Seq(S), NEW w, \A j \in 1 .. Len(s) : s[j].w # w
    PROVE  OfWindow(s, w) = <<>>
<1> DEFINE f == KeysUpTo(s, w)
           T == {m \in Nat : m <= Len(s) => f[m] = <<>>}
<1>1. Len(s) \in Nat /\ f[0] = <<>> /\ \A k \in 1 .. Len(s) : f[k] = KeyAdded(f[k - 1], s[k], w)
  BY KeysStep
<1> HIDE DEF f
<1>2. ASSUME NEW m \in T PROVE m + 1 \in T
  <2>1. m \in Nat
    OBVIOUS
  <2> SUFFICES ASSUME m + 1 <= Len(s) PROVE f[m + 1] = <<>>
    BY <2>1
  <2>2. f[m] = <<>> /\ m + 1 \in 1 .. Len(s) /\ (m + 1) - 1 = m
    BY <1>1, <1>2, <2>1
  <2> QED BY <1>1, <2>2 DEF KeyAdded
<1>3. T \in SUBSET Nat /\ 0 \in T
  BY <1>1
<1> HIDE DEF T
<1>4. T = Nat
  BY <1>2, <1>3, AllNumbers
<1>5. f[Len(s)] = <<>>
  BY <1>1, <1>4 DEF T
<1> QED BY <1>5 DEF OfWindow, f

\* The first of a list goes to the end of the one before.
LEMMA FirstMoves ==
    ASSUME NEW S, NEW a \in Seq(S), NEW b \in Seq(S), b # <<>>
    PROVE  Append(a, Head(b)) \o Tail(b) = a \o b /\ Append(a, Head(b)) \in Seq(S) /\ Tail(b) \in Seq(S)
<1> DEFINE l == Append(a, Head(b))
           t == Tail(b)
<1>1. l \in Seq(S) /\ Len(l) = Len(a) + 1 /\ l[Len(a) + 1] = b[1] /\ \A k \in 1 .. Len(a) : l[k] = a[k]
  OBVIOUS
<1>2. t \in Seq(S) /\ Len(b) \in Nat /\ Len(b) >= 1 /\ Len(t) = Len(b) - 1 /\ \A k \in 1 .. (Len(b) - 1) : t[k] = b[k + 1]
  OBVIOUS
<1> HIDE DEF l, t
<1>3. Len(a) \in Nat
  OBVIOUS
<1>4. l \o t \in Seq(S) /\ Len(l \o t) = Len(l) + Len(t)
      /\ \A k \in 1 .. (Len(l) + Len(t)) : (l \o t)[k] = IF k <= Len(l) THEN l[k] ELSE t[k - Len(l)]
  BY <1>1, <1>2, ConcatProperties
<1>5. a \o b \in Seq(S) /\ Len(a \o b) = Len(a) + Len(b)
      /\ \A k \in 1 .. (Len(a) + Len(b)) : (a \o b)[k] = IF k <= Len(a) THEN a[k] ELSE b[k - Len(a)]
  BY ConcatProperties
<1>6. Len(l \o t) = Len(a \o b) /\ Len(a \o b) = Len(a) + Len(b) /\ Len(l) + Len(t) = Len(a) + Len(b)
  BY <1>1, <1>2, <1>3, <1>4, <1>5
<1>7. ASSUME NEW k \in 1 .. Len(l \o t) PROVE (l \o t)[k] = (a \o b)[k]
  <2>0. k \in 1 .. (Len(l) + Len(t)) /\ k \in 1 .. (Len(a) + Len(b)) /\ k \in Nat
    BY <1>2, <1>3, <1>6
  <2>1. CASE k <= Len(a)
    <3>1. (l \o t)[k] = l[k] /\ k \in 1 .. Len(a)
      BY <1>1, <1>3, <1>4, <2>0, <2>1
    <3> QED BY <1>1, <1>5, <2>0, <2>1, <3>1
  <2>2. CASE k = Len(a) + 1
    <3>1. (l \o t)[k] = l[k] /\ ~(k <= Len(a)) /\ k - Len(a) = 1
      BY <1>1, <1>3, <1>4, <2>0, <2>2
    <3> QED BY <1>1, <1>5, <2>0, <2>2, <3>1
  <2>3. CASE k > Len(a) + 1
    <3>1. ~(k <= Len(l)) /\ ~(k <= Len(a)) /\ k - Len(l) \in 1 .. (Len(b) - 1) /\ (k - Len(l)) + 1 = k - Len(a)
      BY <1>1, <1>2, <1>3, <2>0, <2>3
    <3>2. (l \o t)[k] = t[k - Len(l)] /\ (a \o b)[k] = b[k - Len(a)]
      BY <1>4, <1>5, <2>0, <3>1
    <3>3. t[k - Len(l)] = b[(k - Len(l)) + 1]
      BY <1>2, <3>1
    <3> QED BY <3>1, <3>2, <3>3
  <2> QED BY <1>3, <2>0, <2>1, <2>2, <2>3
<1>8. l \o t = a \o b
  BY <1>4, <1>5, <1>6, <1>7, SeqEqual
<1> QED BY <1>1, <1>2, <1>8 DEF l, t

\* What is put between two lists can be taken out.
LEMMA BetweenRemoved ==
    ASSUME NEW S, NEW a \in Seq(S), NEW b \in Seq(S), NEW k \in S
    PROVE  LET r == Append(a, k) \o b
           IN r \in Seq(S) /\ Len(a) + 1 \in 1 .. Len(r) /\ r[Len(a) + 1] = k /\ RemoveAt(r, Len(a) + 1) = a \o b
<1> DEFINE l == Append(a, k)
           r == l \o b
           j == Len(a) + 1
           c == RemoveAt(r, j)
<1>1. l \in Seq(S) /\ Len(l) = Len(a) + 1 /\ l[Len(a) + 1] = k /\ \A i \in 1 .. Len(a) : l[i] = a[i]
  OBVIOUS
<1>2. Len(a) \in Nat /\ Len(b) \in Nat
  OBVIOUS
<1> HIDE DEF l
<1>3. r \in Seq(S) /\ Len(r) = Len(l) + Len(b)
      /\ \A i \in 1 .. (Len(l) + Len(b)) : r[i] = IF i <= Len(l) THEN l[i] ELSE b[i - Len(l)]
  BY <1>1, ConcatProperties
<1>4. a \o b \in Seq(S) /\ Len(a \o b) = Len(a) + Len(b)
      /\ \A i \in 1 .. (Len(a) + Len(b)) : (a \o b)[i] = IF i <= Len(a) THEN a[i] ELSE b[i - Len(a)]
  BY ConcatProperties
<1> HIDE DEF r
<1>5. j \in 1 .. Len(r) /\ j \in 1 .. (Len(l) + Len(b)) /\ j <= Len(l) /\ Len(r) = Len(a) + Len(b) + 1 /\ Len(r) - 1 = Len(a) + Len(b)
  BY <1>1, <1>2, <1>3
<1>6. r[j] = k
  BY <1>1, <1>3, <1>5
<1>7. c \in Seq(S) /\ Len(c) = Len(r) - 1 /\ \A i \in 1 .. (Len(r) - 1) : c[i] = IF i < j THEN r[i] ELSE r[i + 1]
  BY <1>3, <1>5, EntryRemoved
<1> HIDE DEF c
<1>8. ASSUME NEW i \in 1 .. Len(c) PROVE c[i] = (a \o b)[i]
  <2>0. i \in 1 .. (Len(a) + Len(b)) /\ i \in 1 .. (Len(r) - 1)
    BY <1>5, <1>7
  <2>1. CASE i <= Len(a)
    <3>1. i < j /\ i \in 1 .. Len(a) /\ i <= Len(l) /\ i \in 1 .. (Len(l) + Len(b))
      BY <1>1, <1>2, <2>0, <2>1
    <3> QED BY <1>1, <1>3, <1>4, <1>7, <2>0, <2>1, <3>1
  <2>2. CASE i > Len(a)
    <3>1. i \in Nat /\ i > Len(a) /\ i <= Len(a) + Len(b) /\ Len(l) = Len(a) + 1
      BY <1>1, <1>2, <2>0, <2>2
    <3>2. ~(i < j) /\ ~(i <= Len(a)) /\ ~(i + 1 <= Len(l))
      BY <1>2, <3>1
    <3>3. i + 1 \in 1 .. (Len(l) + Len(b)) /\ (i + 1) - Len(l) = i - Len(a)
      BY <1>2, <3>1
    <3>4. c[i] = r[i + 1]
      BY <1>7, <2>0, <3>2
    <3>5. r[i + 1] = b[(i + 1) - Len(l)]
      BY <1>3, <3>2, <3>3
    <3>6. (a \o b)[i] = b[i - Len(a)]
      BY <1>4, <2>0, <3>2
    <3> QED BY <3>3, <3>4, <3>5, <3>6
  <2> QED BY <1>2, <2>0, <2>1, <2>2
<1>9. c = a \o b
  BY <1>4, <1>5, <1>7, <1>8, SeqEqual
<1> QED BY <1>3, <1>5, <1>6, <1>9 DEF c, r, l

-----------------------------------------------------------------------------
(* Memory and keys, step by step *)

\* As long as no block had to be cut in front of its pair, memory is in order.
MyMemoryOK == myBefore \/ MemoryOK(myFree, myUsed, mySize)

\* Steps that leave the memory.
LEMMA MemoryStays ==
    ASSUME MyMemoryOK, UNCHANGED memVars
    PROVE  MyMemoryOK'
BY DEF MyMemoryOK, memVars

\* A block is taken from a list of pairs that is in order.
LEMMA TakeKeepsMemory ==
    ASSUME NEW c, c.size \in Nat, c.align \in Nat, NEW list, NEW size, myBefore \/ MemoryOK(list, myUsed, size),
           MyMemoryOK, MyTake(c, list, size)
    PROVE  MyMemoryOK'
<1> DEFINE r == TakeFrom(c, list)
<1>1. CASE r.t = "block"
  <2>1. /\ myFree' = r.free /\ mySize' = size /\ myUsed' = myUsed \cup {FreePair(r.base, MinAlloc(c))}
        /\ myBefore' = (myBefore \/ r.before)
    BY <1>1 DEF MyTake
  <2>2. MemoryOK(list, myUsed, size) => r.before \/ MemoryOK(r.free, myUsed \cup {FreePair(r.base, MinAlloc(c))}, size)
    BY <1>1, MemoryGiven
  <2> HIDE DEF r
  <2> QED BY <2>1, <2>2 DEF MyMemoryOK
<1>2. CASE r.t # "block"
  <2>1. UNCHANGED memVars
    BY <1>2 DEF MyTake, MyEnds
  <2> QED BY <2>1, MemoryStays
<1> QED BY <1>1, <1>2

\* Function::Alloc, which may add pages.
LEMMA AllocKeepsMemory ==
    ASSUME MyMemoryOK, NEW c, c.size \in Nat, c.align \in Nat, MyAlloc(c)
    PROVE  MyMemoryOK'
<1> DEFINE pages == (c.size + WASM_PAGE - 1) \div WASM_PAGE
           more == pages * WASM_PAGE
           grown == ByBase(Append(myFree, FreePair(mySize, more)))
<1>1. more \in Nat /\ more % MIN_ALLOC = 0
  <2>1. PICK n \in Nat : n = pages
    BY DEF WASM_PAGE
  <2>2. more = n * 65536
    BY <2>1 DEF WASM_PAGE
  <2>3. n * 65536 \in Nat /\ (n * 65536) % 16 = 0
    OBVIOUS
  <2> HIDE DEF more
  <2> QED BY <2>2, <2>3 DEF MIN_ALLOC
<1>2. \/ MyTake(c, myFree, mySize)
      \/ UNCHANGED memVars
      \/ MyTake(c, grown, mySize + more)
  BY DEF MyAlloc
<1> HIDE DEF more
<1>3. MemoryOK(myFree, myUsed, mySize) => MemoryOK(grown, myUsed, mySize + more)
  <2> SUFFICES ASSUME MemoryOK(myFree, myUsed, mySize) PROVE MemoryOK(grown, myUsed, mySize + more)
    OBVIOUS
  <2>1. MemoryOK(Append(myFree, FreePair(mySize, more)), myUsed, mySize + more)
    BY <1>1, MemoryGrown
  <2> QED BY <2>1, MemorySorted
<1> HIDE DEF grown
<1>4. CASE MyTake(c, myFree, mySize)
  BY <1>4, TakeKeepsMemory DEF MyMemoryOK
<1>5. CASE UNCHANGED memVars
  BY <1>5, MemoryStays
<1>6. CASE MyTake(c, grown, mySize + more)
  <2>1. myBefore \/ MemoryOK(grown, myUsed, mySize + more)
    BY <1>3 DEF MyMemoryOK
  <2> QED BY <1>6, <2>1, TakeKeepsMemory
<1> QED BY <1>2, <1>4, <1>5, <1>6

\* Function::Dealloc.
LEMMA FreeKeepsMemory ==
    ASSUME MyMemoryOK, NEW c, MyDealloc(c)
    PROVE  MyMemoryOK'
<1>1. PICK b \in myUsed : \/ UNCHANGED memVars
                          \/ myFree' = Freed(myFree, b) /\ myUsed' = myUsed \ {b} /\ UNCHANGED <<mySize, myBefore>>
  BY DEF MyDealloc, MyEnds
<1>2. MemoryOK(myFree, myUsed, mySize) => MemoryOK(Freed(myFree, b), myUsed \ {b}, mySize)
  BY MemoryFreed
<1>3. CASE UNCHANGED memVars
  BY <1>3, MemoryStays
<1>4. CASE myFree' = Freed(myFree, b) /\ myUsed' = myUsed \ {b} /\ UNCHANGED <<mySize, myBefore>>
  BY <1>2, <1>4 DEF MyMemoryOK
<1> QED BY <1>1, <1>3, <1>4

\* A call of the program leaves the memory, unless it is about memory.
LEMMA CallKeepsMemory ==
    ASSUME MyMemoryOK, MyLeftOK, DispatchSyscall
    PROVE  MyMemoryOK'
<1> DEFINE c == Head(myLeft)
<1>1. IsCall(c)
  BY CallsLeft DEF DispatchSyscall
<1>2. UNCHANGED memVars \/ (c.t = "alloc" /\ MyAlloc(c)) \/ (c.t = "free" /\ MyDealloc(c))
  BY DEF DispatchSyscall, MyEnds, MyOpen, CloseFile, GetFile, NewWindow, CloseWindow, OnWindow, BeginDraw, EndDraw, DrawIn
<1> HIDE DEF c
<1>3. CASE UNCHANGED memVars
  BY <1>3, MemoryStays
<1>4. CASE c.t = "alloc" /\ MyAlloc(c)
  <2>1. c.size \in Nat /\ c.align \in Nat
    BY <1>1, <1>4 DEF IsCall
  <2> QED BY <1>4, <2>1, AllocKeepsMemory
<1>5. CASE c.t = "free" /\ MyDealloc(c)
  BY <1>5, FreeKeepsMemory
<1> QED BY <1>2, <1>3, <1>4, <1>5

\* At the start the program has no memory to give.
LEMMA MemoryStarts ==
    ASSUME MyInit
    PROVE  MyMemoryOK
<1>1. myFree = <<>> /\ myUsed = {} /\ mySize = WASM_PAGE
  BY DEF MyInit
<1>2. <<>> \in Seq({}) /\ Len(<<>>) = 0 /\ 1 .. 0 = {} /\ WASM_PAGE .. (WASM_PAGE - 1) = {}
  BY DEF WASM_PAGE
<1>3. WASM_PAGE \in Nat /\ WASM_PAGE >= WASM_PAGE /\ WASM_PAGE % MIN_ALLOC = 0
  BY DEF WASM_PAGE, MIN_ALLOC
<1>4. \E S : <<>> \in Seq(S)
  BY <1>2
<1>5. MemoryOK(<<>>, {}, WASM_PAGE)
  BY <1>2, <1>3, <1>4 DEF MemoryOK
<1> QED BY <1>1, <1>5 DEF MyMemoryOK

-----------------------------------------------------------------------------
(* Keys on their way *)

\* The keys that wait in a queue.
Waiting(w, q) == [i \in 1 .. Len(q) |-> KeyOf(w, q[i])]
Pressed(m) == m.t = "key" /\ m.press

\* The keys that were typed, window by window, are those the program got or
\* will get, a, and those that wait.
KeysAgree(a, typed, queue) ==
    /\ \E S : queue \in Seq(S)
    /\ \E S : a \in Seq(S)
    /\ \E S : typed \in Seq(S)
    /\ \A w \in 1 .. Len(queue) : \E S : queue[w] \in Seq(S)
    /\ \A k \in 1 .. Len(typed) : typed[k].w \in 1 .. Len(queue)
    /\ \A k \in 1 .. Len(a) : a[k].w \in 1 .. Len(queue)
    /\ \A w \in 1 .. Len(queue) : OfWindow(typed, w) = OfWindow(a \o Waiting(w, queue[w]), w)

\* A list is also one of more elements.
LEMMA ListWider ==
    ASSUME NEW S, NEW T, NEW s \in Seq(S)
    PROVE  s \in Seq(S \cup T) /\ s \in Seq(T \cup S)
<1>1. Len(s) \in Nat /\ s \in [1 .. Len(s) -> S]
  OBVIOUS
<1>2. s \in [1 .. Len(s) -> S \cup T] /\ s \in [1 .. Len(s) -> T \cup S]
  BY <1>1
<1> QED BY <1>1, <1>2

\* Lists of which some elements are known have a common set of elements.
LEMMA ListsTogether ==
    ASSUME NEW a, NEW b, NEW k, \E S : a \in Seq(S), \E S : b \in Seq(S)
    PROVE  \E S : a \in Seq(S) /\ b \in Seq(S) /\ k \in S
<1>1. PICK S : a \in Seq(S)
  OBVIOUS
<1>2. PICK T : b \in Seq(T)
  OBVIOUS
<1>3. a \in Seq(S \cup (T \cup {k}))
  BY <1>1, ListWider
<1>4. b \in Seq(T \cup {k})
  BY <1>2, ListWider
<1>5. b \in Seq(S \cup (T \cup {k}))
  BY <1>4, ListWider
<1>6. k \in S \cup (T \cup {k})
  OBVIOUS
<1> QED BY <1>3, <1>5, <1>6

\* What is put behind two lists is put behind the second.
LEMMA EndOfBoth ==
    ASSUME NEW S, NEW a \in Seq(S), NEW b \in Seq(S), NEW k \in S
    PROVE  a \o Append(b, k) = Append(a \o b, k) /\ a \o b \in Seq(S) /\ a \o Append(b, k) \in Seq(S)
<1> DEFINE l == Append(b, k)
           c == a \o b
           d == Append(c, k)
<1>1. l \in Seq(S) /\ Len(l) = Len(b) + 1 /\ l[Len(b) + 1] = k /\ \A i \in 1 .. Len(b) : l[i] = b[i]
  OBVIOUS
<1>2. Len(a) \in Nat /\ Len(b) \in Nat
  OBVIOUS
<1> HIDE DEF l
<1>3. c \in Seq(S) /\ Len(c) = Len(a) + Len(b)
      /\ \A i \in 1 .. (Len(a) + Len(b)) : c[i] = IF i <= Len(a) THEN a[i] ELSE b[i - Len(a)]
  BY ConcatProperties
<1>4. a \o l \in Seq(S) /\ Len(a \o l) = Len(a) + Len(l)
      /\ \A i \in 1 .. (Len(a) + Len(l)) : (a \o l)[i] = IF i <= Len(a) THEN a[i] ELSE l[i - Len(a)]
  BY <1>1, ConcatProperties
<1> HIDE DEF c
<1>5. d \in Seq(S) /\ Len(d) = Len(c) + 1 /\ d[Len(c) + 1] = k /\ \A i \in 1 .. Len(c) : d[i] = c[i]
  BY <1>3
<1> HIDE DEF d
<1>6. ASSUME NEW i \in 1 .. Len(d) PROVE d[i] = (a \o l)[i]
  <2>0. i \in 1 .. (Len(a) + Len(l)) /\ i \in Nat /\ i <= Len(a) + Len(b) + 1
    BY <1>1, <1>2, <1>3, <1>5
  <2>1. CASE i <= Len(a)
    BY <1>2, <1>3, <1>4, <1>5, <2>0, <2>1
  <2>2. CASE i > Len(a) /\ i <= Len(a) + Len(b)
    <3>1. i - Len(a) \in 1 .. Len(b) /\ ~(i <= Len(a)) /\ i \in 1 .. Len(c) /\ i \in 1 .. (Len(a) + Len(b))
      BY <1>2, <1>3, <2>0, <2>2
    <3> QED BY <1>1, <1>3, <1>4, <1>5, <2>0, <3>1
  <2>3. CASE i = Len(a) + Len(b) + 1
    <3>1. i - Len(a) = Len(b) + 1 /\ ~(i <= Len(a)) /\ i = Len(c) + 1
      BY <1>2, <1>3, <2>3
    <3> QED BY <1>1, <1>4, <1>5, <2>0, <3>1
  <2> QED BY <1>2, <2>0, <2>1, <2>2, <2>3
<1>7. d = a \o l
  BY <1>1, <1>2, <1>3, <1>4, <1>5, <1>6, SeqEqual
<1> QED BY <1>3, <1>4, <1>7 DEF d, l, c

\* Keys of a message.
LEMMA KeyWindow ==
    ASSUME NEW w, NEW m
    PROVE  KeyOf(w, m).w = IF Pressed(m) THEN w ELSE 0
BY DEF KeyOf, Pressed

\* The keys that wait are a list as long as the queue.
LEMMA WaitingList ==
    ASSUME NEW S, NEW q \in Seq(S), NEW w
    PROVE  /\ \E T : Waiting(w, q) \in Seq(T)
           /\ Len(Waiting(w, q)) = Len(q)
           /\ \A k \in 1 .. Len(q) : Waiting(w, q)[k] = KeyOf(w, q[k])
<1> DEFINE n == Len(q)
           f == Waiting(w, q)
<1>1. n \in Nat /\ f = [k \in 1 .. n |-> f[k]] /\ \A k \in 1 .. n : f[k] = KeyOf(w, q[k])
  BY DEF Waiting
<1> HIDE DEF f
<1>2. f \in Seq({f[k] : k \in 1 .. n}) /\ Len(f) = n
  BY <1>1, ListOf
<1> QED BY <1>1, <1>2 DEF f

\* A message is posted.
LEMMA WaitingPosted ==
    ASSUME NEW S, NEW q \in Seq(S), NEW w, NEW m
    PROVE  Waiting(w, Append(q, m)) = Append(Waiting(w, q), KeyOf(w, m))
<1> DEFINE n == Len(q)
           k == KeyOf(w, m)
           f == Waiting(w, q)
           p == Append(q, m)
           g == Waiting(w, p)
           e == Append(f, k)
<1>1. q \in Seq(S \cup {m}) /\ m \in S \cup {m}
  BY ListWider
<1>2. p \in Seq(S \cup {m}) /\ n \in Nat /\ Len(p) = n + 1 /\ p[n + 1] = m /\ \A i \in 1 .. n : p[i] = q[i]
  BY <1>1
<1> HIDE DEF p
<1>3. (\E T : f \in Seq(T)) /\ Len(f) = n /\ \A i \in 1 .. n : f[i] = KeyOf(w, q[i])
  BY WaitingList
<1>4. (\E T : g \in Seq(T)) /\ Len(g) = n + 1 /\ \A i \in 1 .. (n + 1) : g[i] = KeyOf(w, p[i])
  BY <1>2, WaitingList
<1> HIDE DEF f, g, k
<1>5. PICK T : f \in Seq(T)
  BY <1>3
<1>6. f \in Seq(T \cup {k}) /\ k \in T \cup {k}
  BY <1>5, ListWider
<1>7. e \in Seq(T \cup {k}) /\ Len(e) = n + 1 /\ e[n + 1] = k /\ \A i \in 1 .. n : e[i] = f[i]
  BY <1>2, <1>3, <1>6
<1> HIDE DEF e
<1>8. ASSUME NEW i \in 1 .. Len(g) PROVE g[i] = e[i]
  <2>1. i \in 1 .. (n + 1)
    BY <1>4
  <2>2. CASE i = n + 1
    BY <1>2, <1>4, <1>7, <2>1, <2>2 DEF k
  <2>3. CASE i \in 1 .. n
    BY <1>2, <1>3, <1>4, <1>7, <2>1, <2>3
  <2> QED BY <1>2, <2>1, <2>2, <2>3
<1>9. g = e
  BY <1>4, <1>7, <1>8, SeqEqual
<1> QED BY <1>9 DEF g, e, p, f, k

\* A message is taken.
LEMMA WaitingTaken ==
    ASSUME NEW S, NEW q \in Seq(S), NEW w, q # <<>>
    PROVE  /\ Waiting(w, q) # <<>> /\ Head(Waiting(w, q)) = KeyOf(w, Head(q))
           /\ Waiting(w, Tail(q)) = Tail(Waiting(w, q))
<1> DEFINE n == Len(q)
           f == Waiting(w, q)
           p == Tail(q)
           g == Waiting(w, p)
           e == Tail(f)
<1>0. n \in Nat /\ n >= 1 /\ Head(q) = q[1] /\ n - 1 \in Nat /\ 1 \in 1 .. n
  OBVIOUS
<1>1. p \in Seq(S) /\ Len(p) = n - 1 /\ \A i \in 1 .. (n - 1) : p[i] = q[i + 1]
  OBVIOUS
<1> HIDE DEF p
<1>2. (\E T : f \in Seq(T)) /\ Len(f) = n /\ \A i \in 1 .. n : f[i] = KeyOf(w, q[i])
  BY WaitingList
<1>3. (\E T : g \in Seq(T)) /\ Len(g) = n - 1 /\ \A i \in 1 .. (n - 1) : g[i] = KeyOf(w, p[i])
  BY <1>1, WaitingList
<1> HIDE DEF f, g
<1>4. PICK T : f \in Seq(T)
  BY <1>2
<1>5. f # <<>>
  BY <1>0, <1>2
<1>6. Head(f) = f[1] /\ e \in Seq(T) /\ Len(e) = n - 1 /\ \A i \in 1 .. (n - 1) : e[i] = f[i + 1]
  BY <1>2, <1>4, <1>5
<1> HIDE DEF e
<1>7. ASSUME NEW i \in 1 .. Len(g) PROVE g[i] = e[i]
  <2>1. i \in 1 .. (n - 1) /\ i + 1 \in 1 .. n
    BY <1>0, <1>3
  <2> QED BY <1>1, <1>2, <1>3, <1>6, <2>1
<1>8. g = e
  BY <1>3, <1>6, <1>7, SeqEqual
<1> QED BY <1>0, <1>2, <1>5, <1>6, <1>8 DEF g, e, p, f

\* A new window, of which there are no keys.
LEMMA AgreeNew ==
    ASSUME NEW a, NEW typed, NEW queue, KeysAgree(a, typed, queue)
    PROVE  KeysAgree(a, typed, Append(queue, <<>>))
<1> DEFINE n == Len(queue)
           new == Append(queue, <<>>)
<1>0. PICK S : queue \in Seq(S)
  BY DEF KeysAgree
<1>1. n \in Nat /\ new \in Seq(S \cup {<<>>}) /\ Len(new) = n + 1 /\ new[n + 1] = <<>> /\ \A w \in 1 .. n : new[w] = queue[w]
  BY <1>0
<1> HIDE DEF new
<1>2. (\E T : a \in Seq(T)) /\ \E T : typed \in Seq(T)
  BY DEF KeysAgree
<1>3. (\A k \in 1 .. Len(typed) : typed[k].w \in 1 .. n) /\ (\A k \in 1 .. Len(a) : a[k].w \in 1 .. n)
  BY DEF KeysAgree
<1>4. <<>> \in Seq({})
  OBVIOUS
<1>5. \A w \in 1 .. Len(new) : \E T : new[w] \in Seq(T)
  <2> SUFFICES ASSUME NEW w \in 1 .. n + 1 PROVE \E T : new[w] \in Seq(T)
    BY <1>1
  <2>1. CASE w = n + 1
    BY <1>1, <1>4, <2>1
  <2>2. CASE w \in 1 .. n
    BY <1>1, <2>2 DEF KeysAgree
  <2> QED BY <1>1, <2>1, <2>2
<1>6. \A w \in 1 .. Len(new) : OfWindow(typed, w) = OfWindow(a \o Waiting(w, new[w]), w)
  <2> SUFFICES ASSUME NEW w \in 1 .. n + 1 PROVE OfWindow(typed, w) = OfWindow(a \o Waiting(w, new[w]), w)
    BY <1>1
  <2>1. CASE w = n + 1
    <3>1. (\A k \in 1 .. Len(typed) : typed[k].w # w) /\ (\A k \in 1 .. Len(a) : a[k].w # w)
      BY <1>1, <1>3, <2>1
    <3>2. Waiting(w, new[w]) = <<>>
      BY <1>1, <2>1 DEF Waiting
    <3>3. a \o <<>> = a
      BY <1>2, ConcatEmptySeq
    <3>4. OfWindow(typed, w) = <<>>
      BY <1>2, <3>1, KeysOfNone
    <3>5. OfWindow(a, w) = <<>>
      BY <1>2, <3>1, KeysOfNone
    <3> QED BY <3>2, <3>3, <3>4, <3>5
  <2>2. CASE w \in 1 .. n
    BY <1>1, <2>2 DEF KeysAgree
  <2> QED BY <1>1, <2>1, <2>2
<1>7. (\A k \in 1 .. Len(typed) : typed[k].w \in 1 .. Len(new)) /\ (\A k \in 1 .. Len(a) : a[k].w \in 1 .. Len(new))
  BY <1>1, <1>3
<1>8. \E T : new \in Seq(T)
  BY <1>1
<1>9. KeysAgree(a, typed, new)
  BY <1>2, <1>5, <1>6, <1>7, <1>8 DEF KeysAgree
<1> QED BY <1>9 DEF new

\* The window thread posts a message.
LEMMA AgreePost ==
    ASSUME NEW a, NEW typed, NEW queue, KeysAgree(a, typed, queue), NEW x \in 1 .. Len(queue), NEW m
    PROVE  KeysAgree(a, IF Pressed(m) THEN Append(typed, KeyOf(x, m)) ELSE typed, [queue EXCEPT ![x] = Append(queue[x], m)])
<1> DEFINE n == Len(queue)
           k == KeyOf(x, m)
           q == queue[x]
           new == [queue EXCEPT ![x] = Append(q, m)]
           all == IF Pressed(m) THEN Append(typed, k) ELSE typed
<1>0. PICK S : queue \in Seq(S)
  BY DEF KeysAgree
<1>1. n \in Nat /\ 0 \notin 1 .. n
  BY <1>0
<1>2. (\E T : new \in Seq(T)) /\ Len(new) = n /\ new[x] = Append(q, m) /\ \A w \in 1 .. n : w # x => new[w] = queue[w]
  <2>1. (\E T : new \in Seq(T)) /\ Len(new) = n
    BY <1>0, EntryReplaced
  <2>2. new[x] = Append(q, m) /\ \A w \in 1 .. n : w # x => new[w] = queue[w]
    BY <1>0
  <2> QED BY <2>1, <2>2
<1> HIDE DEF new
<1>3. k.w = IF Pressed(m) THEN x ELSE 0
  BY KeyWindow
<1>4. PICK U : typed \in Seq(U)
  BY DEF KeysAgree
<1>5. PICK Q : q \in Seq(Q)
  BY DEF KeysAgree
<1>6. (\E T : a \in Seq(T)) /\ (\A j \in 1 .. Len(typed) : typed[j].w \in 1 .. n) /\ (\A j \in 1 .. Len(a) : a[j].w \in 1 .. n)
  BY DEF KeysAgree
<1> HIDE DEF k, q
<1>7. (\E T : all \in Seq(T)) /\ (\A j \in 1 .. Len(all) : all[j].w \in 1 .. n)
      /\ \A w \in 1 .. n : OfWindow(all, w) = KeyAdded(OfWindow(typed, w), k, w)
  <2>1. CASE Pressed(m)
    <3>1. all = Append(typed, k) /\ k.w = x
      BY <1>3, <2>1
    <3>2. all \in Seq(U \cup {k}) /\ Len(typed) \in Nat /\ Len(all) = Len(typed) + 1 /\ all[Len(typed) + 1] = k
          /\ \A j \in 1 .. Len(typed) : all[j] = typed[j]
      BY <1>4, <3>1
    <3>3. \A w \in 1 .. n : OfWindow(all, w) = KeyAdded(OfWindow(typed, w), k, w)
      BY <1>4, <3>1, KeyAtEnd
    <3> HIDE DEF all
    <3>4. ASSUME NEW j \in 1 .. Len(all) PROVE all[j].w \in 1 .. n
      <4>1. CASE j = Len(typed) + 1
        BY <3>1, <3>2, <4>1
      <4>2. CASE j \in 1 .. Len(typed)
        BY <1>6, <3>2, <4>2
      <4> QED BY <3>2, <4>1, <4>2
    <3> QED BY <3>2, <3>3, <3>4
  <2>2. CASE ~Pressed(m)
    <3>1. all = typed /\ k.w = 0
      BY <1>3, <2>2
    <3>2. \A w \in 1 .. n : KeyAdded(OfWindow(typed, w), k, w) = OfWindow(typed, w)
      BY <1>1, <3>1 DEF KeyAdded
    <3> QED BY <1>4, <1>6, <3>1, <3>2
  <2> QED BY <2>1, <2>2
<1> HIDE DEF all
<1>8. \A w \in 1 .. Len(new) : OfWindow(all, w) = OfWindow(a \o Waiting(w, new[w]), w)
  <2> SUFFICES ASSUME NEW w \in 1 .. n PROVE OfWindow(all, w) = OfWindow(a \o Waiting(w, new[w]), w)
    BY <1>2
  <2>0. OfWindow(typed, w) = OfWindow(a \o Waiting(w, queue[w]), w)
    BY DEF KeysAgree
  <2>1. CASE w = x
    <3> DEFINE f == Waiting(x, q)
    <3>1. Waiting(x, new[x]) = Append(f, k) /\ \E T : f \in Seq(T)
      <4>1. Waiting(x, Append(q, m)) = Append(Waiting(x, q), KeyOf(x, m))
        BY <1>5, WaitingPosted
      <4>2. \E T : Waiting(x, q) \in Seq(T)
        BY <1>5, WaitingList
      <4> QED BY <1>2, <4>1, <4>2 DEF k
    <3> HIDE DEF f
    <3>2. PICK T : a \in Seq(T) /\ f \in Seq(T) /\ k \in T
      BY <1>6, <3>1, ListsTogether
    <3>3. a \o Append(f, k) = Append(a \o f, k) /\ a \o f \in Seq(T)
      BY <3>2, EndOfBoth
    <3>4. OfWindow(Append(a \o f, k), w) = KeyAdded(OfWindow(a \o f, w), k, w)
      BY <3>3, KeyAtEnd
    <3>5. OfWindow(all, w) = KeyAdded(OfWindow(typed, w), k, w)
      BY <1>7
    <3>6. OfWindow(typed, w) = OfWindow(a \o f, w)
      BY <2>0, <2>1 DEF f, q
    <3> QED BY <2>1, <3>1, <3>3, <3>4, <3>5, <3>6
  <2>2. CASE w # x
    <3>1. k.w # w
      BY <1>1, <1>3, <2>2
    <3>2. OfWindow(all, w) = OfWindow(typed, w)
      BY <1>7, <3>1 DEF KeyAdded
    <3> QED BY <1>2, <2>0, <2>2, <3>2
  <2> QED BY <2>1, <2>2
<1>9. \A w \in 1 .. Len(new) : \E T : new[w] \in Seq(T)
  <2> SUFFICES ASSUME NEW w \in 1 .. n PROVE \E T : new[w] \in Seq(T)
    BY <1>2
  <2>1. CASE w = x
    <3>1. q \in Seq(Q \cup {m}) /\ m \in Q \cup {m}
      BY <1>5, ListWider
    <3>2. Append(q, m) \in Seq(Q \cup {m})
      BY <3>1
    <3> QED BY <1>2, <2>1, <3>2
  <2>2. CASE w # x
    BY <1>2, <2>2 DEF KeysAgree
  <2> QED BY <2>1, <2>2
<1>10. KeysAgree(a, all, new)
  BY <1>2, <1>6, <1>7, <1>8, <1>9 DEF KeysAgree
<1> QED BY <1>10 DEF all, new, k, q

\* The program takes the first message of a window; its key goes behind those
\* that were taken before.
LEMMA AgreeTaken ==
    ASSUME NEW a, NEW typed, NEW queue, KeysAgree(a, typed, queue), NEW x \in 1 .. Len(queue), queue[x] # <<>>
    PROVE  KeysAgree(IF Pressed(Head(queue[x])) THEN Append(a, KeyOf(x, Head(queue[x]))) ELSE a, typed,
                     [queue EXCEPT ![x] = Tail(queue[x])])
<1> DEFINE n == Len(queue)
           q == queue[x]
           m == Head(q)
           k == KeyOf(x, m)
           new == [queue EXCEPT ![x] = Tail(q)]
           all == IF Pressed(m) THEN Append(a, k) ELSE a
<1>0. PICK S : queue \in Seq(S)
  BY DEF KeysAgree
<1>1. n \in Nat /\ 0 \notin 1 .. n
  BY <1>0
<1>2. (\E T : new \in Seq(T)) /\ Len(new) = n /\ new[x] = Tail(q) /\ \A w \in 1 .. n : w # x => new[w] = queue[w]
  <2>1. (\E T : new \in Seq(T)) /\ Len(new) = n
    BY <1>0, EntryReplaced
  <2>2. new[x] = Tail(q) /\ \A w \in 1 .. n : w # x => new[w] = queue[w]
    BY <1>0
  <2> QED BY <2>1, <2>2
<1> HIDE DEF new
<1>3. k.w = IF Pressed(m) THEN x ELSE 0
  BY KeyWindow
<1>4. PICK U : a \in Seq(U)
  BY DEF KeysAgree
<1>5. PICK Q : q \in Seq(Q)
  BY DEF KeysAgree
<1>6. (\E T : typed \in Seq(T)) /\ (\A j \in 1 .. Len(typed) : typed[j].w \in 1 .. n) /\ (\A j \in 1 .. Len(a) : a[j].w \in 1 .. n)
  BY DEF KeysAgree
<1> DEFINE f == Waiting(x, q)
<1>7. f # <<>> /\ Head(f) = k /\ Waiting(x, Tail(q)) = Tail(f) /\ \E T : f \in Seq(T)
  BY <1>5, WaitingList, WaitingTaken
<1> HIDE DEF k, q, f, m
<1>8. (\E T : all \in Seq(T)) /\ \A j \in 1 .. Len(all) : all[j].w \in 1 .. n
  <2>1. CASE Pressed(m)
    <3>1. all = Append(a, k) /\ k.w = x
      BY <1>3, <2>1
    <3>2. all \in Seq(U \cup {k}) /\ Len(a) \in Nat /\ Len(all) = Len(a) + 1 /\ all[Len(a) + 1] = k /\ \A j \in 1 .. Len(a) : all[j] = a[j]
      BY <1>4, <3>1
    <3> HIDE DEF all
    <3>3. ASSUME NEW j \in 1 .. Len(all) PROVE all[j].w \in 1 .. n
      <4>1. CASE j = Len(a) + 1
        BY <3>1, <3>2, <4>1
      <4>2. CASE j \in 1 .. Len(a)
        BY <1>6, <3>2, <4>2
      <4> QED BY <3>2, <4>1, <4>2
    <3> QED BY <3>2, <3>3
  <2>2. CASE ~Pressed(m)
    BY <1>4, <1>6, <2>2
  <2> QED BY <2>1, <2>2
\* A key that is between two lists and of another window may be taken out.
<1>9. ASSUME NEW b, \E T : b \in Seq(T), NEW w, k.w # w
      PROVE  OfWindow(Append(a, k) \o b, w) = OfWindow(a \o b, w)
  <2>1. PICK T : a \in Seq(T) /\ b \in Seq(T) /\ k \in T
    BY <1>4, <1>9, ListsTogether
  <2> DEFINE r == Append(a, k) \o b
  <2>2. r \in Seq(T) /\ Len(a) + 1 \in 1 .. Len(r) /\ r[Len(a) + 1] = k /\ RemoveAt(r, Len(a) + 1) = a \o b
    BY <2>1, BetweenRemoved
  <2> HIDE DEF r
  <2>3. OfWindow(RemoveAt(r, Len(a) + 1), w) = OfWindow(r, w)
    BY <1>9, <2>2, KeyElsewhere
  <2> QED BY <2>2, <2>3 DEF r
<1>10. \A w \in 1 .. Len(new) : OfWindow(typed, w) = OfWindow(all \o Waiting(w, new[w]), w)
  <2> SUFFICES ASSUME NEW w \in 1 .. n PROVE OfWindow(typed, w) = OfWindow(all \o Waiting(w, new[w]), w)
    BY <1>2
  <2>0. OfWindow(typed, w) = OfWindow(a \o Waiting(w, queue[w]), w)
    BY DEF KeysAgree
  <2>1. CASE w = x
    <3>1. OfWindow(typed, w) = OfWindow(a \o f, w)
      BY <2>0, <2>1 DEF f, q
    <3>2. PICK T : a \in Seq(T) /\ f \in Seq(T)
      BY <1>4, <1>7, ListsTogether
    <3>3. Append(a, k) \o Tail(f) = a \o f /\ Tail(f) \in Seq(T)
      BY <1>7, <3>2, FirstMoves
    <3>4. Waiting(w, new[w]) = Tail(f)
      BY <1>2, <1>7, <2>1
    <3>5. CASE Pressed(m)
      BY <3>1, <3>3, <3>4, <3>5
    <3>6. CASE ~Pressed(m)
      <4>1. k.w # w
        BY <1>1, <1>3, <3>6
      <4>2. OfWindow(Append(a, k) \o Tail(f), w) = OfWindow(a \o Tail(f), w)
        BY <1>9, <3>3, <4>1
      <4> QED BY <3>1, <3>3, <3>4, <3>6, <4>2
    <3> QED BY <3>5, <3>6
  <2>2. CASE w # x
    <3>1. k.w # w
      BY <1>1, <1>3, <2>2
    <3>2. new[w] = queue[w] /\ \E T : queue[w] \in Seq(T)
      BY <1>2, <2>2 DEF KeysAgree
    <3>3. \E T : Waiting(w, queue[w]) \in Seq(T)
      BY <3>2, WaitingList
    <3>4. OfWindow(Append(a, k) \o Waiting(w, queue[w]), w) = OfWindow(a \o Waiting(w, queue[w]), w)
      BY <1>9, <3>1, <3>3
    <3> QED BY <2>0, <3>2, <3>4
  <2> QED BY <2>1, <2>2
<1> HIDE DEF all
<1>11. \A w \in 1 .. Len(new) : \E T : new[w] \in Seq(T)
  <2> SUFFICES ASSUME NEW w \in 1 .. n PROVE \E T : new[w] \in Seq(T)
    BY <1>2
  <2>1. CASE w = x
    <3>1. q # <<>>
      BY DEF q
    <3>2. Tail(q) \in Seq(Q)
      BY <1>5, <3>1
    <3>3. new[w] \in Seq(Q)
      BY <1>2, <2>1, <3>2
    <3> QED BY <3>3
  <2>2. CASE w # x
    BY <1>2, <2>2 DEF KeysAgree
  <2> QED BY <2>1, <2>2
<1>12. KeysAgree(all, typed, new)
  BY <1>2, <1>6, <1>8, <1>10, <1>11 DEF KeysAgree
<1> QED BY <1>12 DEF all, new, k, q, m

\* The keys the program got, those of the buffer and those that wait are what
\* was typed.
MyKeysOK ==
    /\ \E S : myRead \in Seq(S)
    /\ \E S : myKeys \in Seq(S)
    /\ KeysAgree(myRead \o myKeys, myTyped, myQueue)

\* Steps that leave the keys.
LEMMA KeysStay ==
    ASSUME MyKeysOK, UNCHANGED <<myRead, myKeys, myTyped, myQueue>>
    PROVE  MyKeysOK'
BY DEF MyKeysOK

\* The windows that exist have queues.
LEMMA PoolHasQueues ==
    ASSUME MyWindowsOK, WindowsAccounted, myStop = "no", NEW w \in myPool
    PROVE  w \in 1 .. Len(myQueue)
<1>1. PICK h \in DOMAIN myWindows : w = myWindows[h].native
  BY DEF WindowsAccounted, Natives
<1>2. myWindows[h] \in OsWindows
  BY DEF MyWindowsOK
<1> QED BY <1>1, <1>2 DEF OsWindows

\* process_message: the message leaves the queue and its key enters the buffer.
LEMMA MessageTaken ==
    ASSUME MyKeysOK, NEW x \in 1 .. Len(myQueue), myQueue[x] # <<>>
    PROVE  LET keys == AfterMessage(x, Head(myQueue[x]))
           IN /\ \E S : keys \in Seq(S)
              /\ KeysAgree(myRead \o keys, myTyped, [myQueue EXCEPT ![x] = Tail(myQueue[x])])
<1> DEFINE m == Head(myQueue[x])
           k == KeyOf(x, m)
           keys == AfterMessage(x, m)
           new == [myQueue EXCEPT ![x] = Tail(myQueue[x])]
<1>1. KeysAgree(IF Pressed(m) THEN Append(myRead \o myKeys, k) ELSE myRead \o myKeys, myTyped, new)
  BY AgreeTaken DEF MyKeysOK
<1>2. keys = IF Pressed(m) THEN Append(myKeys, k) ELSE myKeys
  BY DEF AfterMessage, Pressed, KeyOf
<1> HIDE DEF keys, m, k, new
<1>3. PICK S : myRead \in Seq(S) /\ myKeys \in Seq(S) /\ k \in S
  BY ListsTogether DEF MyKeysOK
<1>4. myRead \o Append(myKeys, k) = Append(myRead \o myKeys, k) /\ Append(myKeys, k) \in Seq(S)
  BY <1>3, EndOfBoth
<1>5. \E T : keys \in Seq(T)
  BY <1>2, <1>3, <1>4
<1>6. KeysAgree(myRead \o keys, myTyped, new)
  BY <1>1, <1>2, <1>4
<1> QED BY <1>5, <1>6 DEF keys, m, new

\* The first key of the buffer goes to the program.
LEMMA KeyHandedOver ==
    ASSUME \E S : myRead \in Seq(S), NEW keys, \E S : keys \in Seq(S), keys # <<>>
    PROVE  /\ Append(myRead, Head(keys)) \o Tail(keys) = myRead \o keys
           /\ \E S : Append(myRead, Head(keys)) \in Seq(S)
           /\ \E S : Tail(keys) \in Seq(S)
<1>1. PICK S : myRead \in Seq(S) /\ keys \in Seq(S)
  BY ListsTogether
<1> QED BY <1>1, FirstMoves

\* wait_key and read_key.
LEMMA KeysAreHandedOver ==
    ASSUME MyKeysOK, MyWindowsOK, WindowsAccounted, WaitKey \/ ReadKey
    PROVE  MyKeysOK'
<1> DEFINE w == myAt.w
           keys == AfterMessage(w, Head(myQueue[w]))
<1>0. UNCHANGED myTyped /\ myStop = "no"
  BY DEF WaitKey, ReadKey
<1>1. \/ UNCHANGED <<myRead, myKeys, myQueue>>
      \/ /\ w \in myPool /\ myQueue[w] # <<>> /\ myQueue' = [myQueue EXCEPT ![w] = Tail(myQueue[w])]
         /\ \/ myKeys' = keys /\ UNCHANGED myRead
            \/ keys # <<>> /\ myKeys' = Tail(keys) /\ myRead' = Append(myRead, Head(keys))
      \/ UNCHANGED myQueue /\ myKeys # <<>> /\ myKeys' = Tail(myKeys) /\ myRead' = Append(myRead, Head(myKeys))
  BY DEF WaitKey, ReadKey, MyEnds, keyVars
<1> HIDE DEF w, keys
<1>2. CASE UNCHANGED <<myRead, myKeys, myQueue>>
  BY <1>0, <1>2, KeysStay
<1>3. CASE /\ w \in myPool /\ myQueue[w] # <<>> /\ myQueue' = [myQueue EXCEPT ![w] = Tail(myQueue[w])]
           /\ \/ myKeys' = keys /\ UNCHANGED myRead
              \/ keys # <<>> /\ myKeys' = Tail(keys) /\ myRead' = Append(myRead, Head(keys))
  <2>1. w \in 1 .. Len(myQueue)
    BY <1>0, <1>3, PoolHasQueues
  <2>2. (\E S : keys \in Seq(S)) /\ KeysAgree(myRead \o keys, myTyped, myQueue')
    BY <1>3, <2>1, MessageTaken DEF keys
  <2>3. \E S : myRead \in Seq(S)
    BY DEF MyKeysOK
  <2>4. CASE myKeys' = keys /\ UNCHANGED myRead
    BY <1>0, <2>2, <2>3, <2>4 DEF MyKeysOK
  <2>5. CASE keys # <<>> /\ myKeys' = Tail(keys) /\ myRead' = Append(myRead, Head(keys))
    <3>1. /\ Append(myRead, Head(keys)) \o Tail(keys) = myRead \o keys
          /\ \E S : Append(myRead, Head(keys)) \in Seq(S)
          /\ \E S : Tail(keys) \in Seq(S)
      BY <2>2, <2>3, <2>5, KeyHandedOver
    <3> QED BY <1>0, <2>2, <2>5, <3>1 DEF MyKeysOK
  <2> QED BY <1>3, <2>4, <2>5
<1>4. CASE UNCHANGED myQueue /\ myKeys # <<>> /\ myKeys' = Tail(myKeys) /\ myRead' = Append(myRead, Head(myKeys))
  <2>1. /\ Append(myRead, Head(myKeys)) \o Tail(myKeys) = myRead \o myKeys
        /\ \E S : Append(myRead, Head(myKeys)) \in Seq(S)
        /\ \E S : Tail(myKeys) \in Seq(S)
    BY <1>4, KeyHandedOver DEF MyKeysOK
  <2> QED BY <1>0, <1>4, <2>1 DEF MyKeysOK
<1> QED BY <1>1, <1>2, <1>3, <1>4

\* The window thread posts.
LEMMA KeysArePosted ==
    ASSUME MyKeysOK, MyPost
    PROVE  MyKeysOK'
<1> DEFINE u == Head(myUser)
           typed == IF Pressed(u.m) THEN Append(myTyped, KeyOf(u.w, u.m)) ELSE myTyped
<1>1. u.w \in 1 .. Len(myQueue) /\ UNCHANGED <<myRead, myKeys>>
  BY DEF MyPost
<1>2. CASE u.w \in myPool
  <2>1. myQueue' = [myQueue EXCEPT ![u.w] = Append(myQueue[u.w], u.m)]
    BY <1>2 DEF MyPost
  <2>2. myTyped' = typed
    BY <1>2 DEF MyPost, Pressed, KeyOf
  <2> HIDE DEF u
  <2>3. KeysAgree(myRead \o myKeys, typed, [myQueue EXCEPT ![u.w] = Append(myQueue[u.w], u.m)])
    BY <1>1, AgreePost DEF MyKeysOK
  <2> HIDE DEF typed
  <2> QED BY <1>1, <2>1, <2>2, <2>3 DEF MyKeysOK
<1>3. CASE u.w \notin myPool
  <2>1. UNCHANGED <<myRead, myKeys, myTyped, myQueue>>
    BY <1>1, <1>3 DEF MyPost
  <2> QED BY <2>1, KeysStay
<1> QED BY <1>2, <1>3

\* A call of the program leaves the keys; a new window has none.
LEMMA CallKeepsKeys ==
    ASSUME MyKeysOK, DispatchSyscall
    PROVE  MyKeysOK'
<1>1. UNCHANGED myTyped
  BY DEF DispatchSyscall
<1>2. UNCHANGED keyVars \/ (UNCHANGED <<myKeys, myRead>> /\ myQueue' = Append(myQueue, <<>>))
  BY DEF DispatchSyscall, MyEnds, MyOpen, CloseFile, GetFile, NewWindow, CloseWindow, OnWindow, BeginDraw, EndDraw, DrawIn,
         MyAlloc, MyTake, MyDealloc
<1>3. CASE UNCHANGED keyVars
  BY <1>1, <1>3, KeysStay DEF keyVars
<1>4. CASE UNCHANGED <<myKeys, myRead>> /\ myQueue' = Append(myQueue, <<>>)
  BY <1>1, <1>4, AgreeNew DEF MyKeysOK
<1> QED BY <1>2, <1>3, <1>4

\* At the start nothing has been typed.
LEMMA KeysStart ==
    ASSUME MyInit
    PROVE  MyKeysOK
<1>1. myRead = <<>> /\ myKeys = <<>> /\ myTyped = <<>> /\ myQueue = <<>>
  BY DEF MyInit
<1>2. <<>> \in Seq({}) /\ Len(<<>>) = 0 /\ 1 .. 0 = {}
  OBVIOUS
<1>3. <<>> \o <<>> = <<>>
  BY <1>2, ConcatEmptySeq
<1>4. \E S : <<>> \in Seq(S)
  BY <1>2
<1>5. KeysAgree(<<>>, <<>>, <<>>)
  BY <1>2, <1>4 DEF KeysAgree
<1> QED BY <1>1, <1>3, <1>4, <1>5 DEF MyKeysOK

-----------------------------------------------------------------------------
(* The programs of the system *)

\* The inductive invariant: windows, files, keys and memory.
ProgramI == MyosI /\ MyKeysOK /\ MyMemoryOK

\* The inductive invariant implies what is promised.
LEMMA ProgramsPromise == ProgramI => MyosInv
<1> SUFFICES ASSUME ProgramI PROVE MyosInv
  OBVIOUS
<1>1. HandlesMeanFiles /\ WindowsAccounted /\ DrawnIsInvalidated
  BY DEF ProgramI, MyosI
<1>2. KeysInOrder
  BY DEF ProgramI, MyKeysOK, KeysAgree, KeysInOrder, QueuedKeys, Waiting
<1>3. BlocksApart
  BY MemoryIsApart DEF ProgramI, MyMemoryOK
<1> QED BY <1>1, <1>2, <1>3 DEF MyosInv

\* Each step of the program and of the window thread keeps it.
LEMMA ProgramsStep == ProgramI /\ [MyNext]_myVars => ProgramI'
<1> SUFFICES ASSUME ProgramI, [MyNext]_myVars PROVE ProgramI'
  OBVIOUS
<1>0. MyosI /\ MyKeysOK /\ MyMemoryOK /\ MyLeftOK /\ MyWindowsOK /\ WindowsAccounted
  BY DEF ProgramI, MyosI
<1>1. MyosI'
  BY <1>0, MyosSteps
<1>2. CASE DispatchSyscall
  <2>1. MyKeysOK'
    BY <1>0, <1>2, CallKeepsKeys
  <2>2. MyMemoryOK'
    BY <1>0, <1>2, CallKeepsMemory
  <2> QED BY <1>1, <2>1, <2>2 DEF ProgramI
<1>3. CASE Returns
  <2>1. UNCHANGED keyVars /\ UNCHANGED memVars /\ UNCHANGED myTyped
    BY <1>3 DEF Returns, MyEnds
  <2> QED BY <1>0, <1>1, <2>1, KeysStay, MemoryStays DEF ProgramI, keyVars
<1>4. CASE WaitKey \/ ReadKey
  <2>1. MyKeysOK'
    BY <1>0, <1>4, KeysAreHandedOver
  <2>2. UNCHANGED memVars
    BY <1>4 DEF WaitKey, ReadKey
  <2> QED BY <1>0, <1>1, <2>1, <2>2, MemoryStays DEF ProgramI
<1>5. CASE MyPost
  <2>1. MyKeysOK'
    BY <1>0, <1>5, KeysArePosted
  <2>2. UNCHANGED memVars
    BY <1>5 DEF MyPost
  <2> QED BY <1>0, <1>1, <2>1, <2>2, MemoryStays DEF ProgramI
<1>6. CASE UNCHANGED myVars
  <2>1. UNCHANGED <<myRead, myKeys, myTyped, myQueue>> /\ UNCHANGED memVars
    BY <1>6 DEF myVars, keyVars
  <2> QED BY <1>0, <1>1, <2>1, KeysStay, MemoryStays DEF ProgramI
<1> QED BY <1>2, <1>3, <1>4, <1>5, <1>6 DEF MyNext

\* Programs hold what the system promises them: a handle means the file it was
\* given for, a native window exists as long as the table or the user wants it
\* and none survives the program, what was drawn is invalidated, keys of a
\* window are got once and in the order they were typed, and blocks of memory
\* are apart and leave no gap (MyosRuntime, OsWindow, SimpleAllocator), for any
\* calls of the program and any messages of the user.
THEOREM ProgramsHold == MySpec => []MyosInv
<1>1. MyInit => ProgramI
  BY MyosStarts, KeysStart, MemoryStarts DEF ProgramI
<1>2. ProgramI /\ [MyNext]_myVars => ProgramI'
  BY ProgramsStep
<1>3. ProgramI => MyosInv
  BY ProgramsPromise
<1> QED BY <1>1, <1>2, <1>3, PTL DEF MySpec
=============================================================================
