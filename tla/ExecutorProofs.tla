--------------------------- MODULE ExecutorProofs ---------------------------
(***************************************************************************)
(* Module Executor for any finite sets of threads and tasks: a task is in  *)
(* one place at a time, and the executor does not wait with work to do.    *)
(*                                                                         *)
(* The first is a matter of counting: every step takes a task out of one   *)
(* place and puts it into another.  The second rests on a surplus of       *)
(* permits over ready tasks, which only a wait takes from.                 *)
(***************************************************************************)
EXTENDS Executor, SignalProofs

-----------------------------------------------------------------------------
(* Counting in queues and hands *)

Same(x, y) == IF x = y THEN 1 ELSE 0

LEMMA Occurs ==
    ASSUME NEW S, NEW s \in Seq(S), NEW x
    PROVE  /\ IsFiniteSet({i \in DOMAIN s : s[i] = x})
           /\ Occurrences(s, x) \in Nat
           /\ Occurrences(s, x) = 0 <=> x \notin Range(s)
<1> DEFINE P == {i \in DOMAIN s : s[i] = x}
<1>1. IsFiniteSet(1 .. Len(s))
  <2>1. 1 \in Int /\ Len(s) \in Int
    OBVIOUS
  <2>2. QED
    BY <2>1, FS_Interval
<1>2. P \in SUBSET (1 .. Len(s))
  OBVIOUS
<1>3. IsFiniteSet(P)
  BY <1>1, <1>2, FS_Subset
<1>4. Cardinality(P) \in Nat /\ (Cardinality(P) = 0 <=> P = {})
  BY <1>3, FS_CardinalityType, FS_EmptySet
<1>5. P = {} <=> x \notin Range(s)
  BY DEF Range
<1>6. QED
  BY <1>3, <1>4, <1>5 DEF Occurrences

LEMMA OccursEmpty ==
    ASSUME NEW x
    PROVE  Occurrences(<<>>, x) = 0
<1>1. {i \in DOMAIN <<>> : <<>>[i] = x} = {}
  OBVIOUS
<1>2. QED
  BY <1>1, FS_EmptySet DEF Occurrences

LEMMA OccursAppend ==
    ASSUME NEW S, NEW s \in Seq(S), NEW y \in S, NEW x
    PROVE  Occurrences(Append(s, y), x) = Occurrences(s, x) + Same(y, x)
<1> DEFINE P == {i \in DOMAIN s : s[i] = x}
           Q == {i \in DOMAIN Append(s, y) : Append(s, y)[i] = x}
<1>a. Occurrences(s, x) = Cardinality(P) /\ Occurrences(Append(s, y), x) = Cardinality(Q)
  BY DEF Occurrences
<1>1. IsFiniteSet(P) /\ Cardinality(P) \in Nat
  BY Occurs, FS_CardinalityType
<1>2. CASE y = x
  <2>1. Q = P \cup {Len(s) + 1} /\ Len(s) + 1 \notin P
    BY <1>2
  <2>2. Cardinality(Q) = Cardinality(P) + 1
    BY <1>1, <2>1, FS_AddElement
  <2> HIDE DEF P, Q
  <2>3. QED
    BY <1>1, <1>2, <1>a, <2>2 DEF Same
<1>3. CASE y # x
  <2>1. Q = P
    BY <1>3
  <2> HIDE DEF P, Q
  <2>2. QED
    BY <1>1, <1>3, <1>a, <2>1 DEF Same
<1>4. QED
  BY <1>2, <1>3

LEMMA OccursTail ==
    ASSUME NEW S, NEW s \in Seq(S), s # <<>>, NEW x
    PROVE  Occurrences(s, x) = Occurrences(Tail(s), x) + Same(Head(s), x)
<1> DEFINE P == {i \in DOMAIN s : s[i] = x}
           Q == {i \in DOMAIN Tail(s) : Tail(s)[i] = x}
           R == P \ {1}
           f == [i \in R |-> i - 1]
<1>a. Occurrences(s, x) = Cardinality(P) /\ Occurrences(Tail(s), x) = Cardinality(Q)
  BY DEF Occurrences
<1>1. IsFiniteSet(P) /\ Cardinality(P) \in Nat
  BY Occurs, FS_CardinalityType
<1>2. /\ Tail(s) \in Seq(S) /\ Len(s) \in Nat \ {0} /\ Head(s) = s[1]
      /\ Len(Tail(s)) = Len(s) - 1 /\ \A i \in 1 .. Len(s) - 1 : Tail(s)[i] = s[i + 1]
  OBVIOUS
<1>3. IsFiniteSet(R) /\ R \in SUBSET (2 .. Len(s)) /\ \A i \in 2 .. Len(s) : i \in R <=> s[i] = x
  BY <1>1, <1>2, FS_RemoveElement, FS_Subset
<1>4. f \in Bijection(R, Q)
  <2>1. \A i \in R : f[i] \in Q
    BY <1>2, <1>3
  <2>2. f \in [R -> Q]
    BY <2>1
  <2>3. \A i, j \in R : f[i] = f[j] => i = j
    BY <1>3
  <2>4. \A j \in Q : \E i \in R : f[i] = j
    <3> SUFFICES ASSUME NEW j \in Q PROVE \E i \in R : f[i] = j
      OBVIOUS
    <3>1. j + 1 \in R /\ f[j + 1] = j
      BY <1>2, <1>3
    <3>2. QED
      BY <3>1
  <2> HIDE DEF f, Q, R
  <2>5. QED
    BY <2>2, <2>3, <2>4 DEF Bijection, Injection, Surjection, IsInjective
<1>5. Cardinality(Q) = Cardinality(R)
  <2> HIDE DEF f, Q, R
  <2>1. ExistsBijection(R, Q)
    BY <1>4 DEF ExistsBijection
  <2>2. QED
    BY <1>3, <2>1, FS_Bijection
<1>6. CASE Head(s) = x
  <2>1. 1 \in P
    BY <1>2, <1>6
  <2>2. Cardinality(R) = Cardinality(P) - 1
    BY <1>1, <2>1, FS_RemoveElement
  <2> HIDE DEF P, Q, R
  <2>3. QED
    BY <1>1, <1>5, <1>6, <1>a, <2>2 DEF Same
<1>7. CASE Head(s) # x
  <2>1. R = P
    BY <1>2, <1>7
  <2> HIDE DEF P, Q, R
  <2>2. QED
    BY <1>1, <1>5, <1>7, <1>a, <2>1 DEF Same
<1>8. QED
  BY <1>6, <1>7

\* The threads that h gives x, before and after t is given y.
HandsOf(h, x) == Cardinality({u \in Thread : h[u] = x})

LEMMA HandsFinite ==
    ASSUME IsFiniteSet(Thread), NEW h, NEW x
    PROVE  HandsOf(h, x) \in Nat
<1>1. {u \in Thread : h[u] = x} \in SUBSET Thread
  OBVIOUS
<1>2. QED
  BY <1>1, FS_Subset, FS_CardinalityType DEF HandsOf

LEMMA HandsCount ==
    ASSUME IsFiniteSet(Thread), NEW V, NEW h \in [Thread -> V], NEW t \in Thread, NEW y, NEW x,
           NEW g, g[t] = y, \A u \in Thread : u # t => g[u] = h[u]
    PROVE  HandsOf(g, x) + Same(h[t], x) = HandsOf(h, x) + Same(y, x)
<1> DEFINE P == {u \in Thread : h[u] = x}
           Q == {u \in Thread : g[u] = x}
<1>a. HandsOf(h, x) = Cardinality(P) /\ HandsOf(g, x) = Cardinality(Q)
  BY DEF HandsOf
<1>1. IsFiniteSet(P) /\ IsFiniteSet(Q)
  BY FS_Subset
<1>2. Cardinality(P) \in Nat /\ Cardinality(Q) \in Nat
  BY <1>1, FS_CardinalityType
<1>3. CASE (h[t] = x) <=> (y = x)
  <2>1. Q = P
    BY <1>3
  <2> HIDE DEF P, Q
  <2>2. QED
    BY <1>2, <1>3, <1>a, <2>1 DEF Same
<1>4. CASE h[t] = x /\ y # x
  <2>1. Q = P \ {t} /\ t \in P
    BY <1>4
  <2>2. Cardinality(Q) = Cardinality(P) - 1
    BY <1>1, <2>1, FS_RemoveElement
  <2> HIDE DEF P, Q
  <2>3. QED
    BY <1>2, <1>4, <1>a, <2>2 DEF Same
<1>5. CASE h[t] # x /\ y = x
  <2>1. Q = P \cup {t} /\ t \notin P
    BY <1>5
  <2>2. Cardinality(Q) = Cardinality(P) + 1
    BY <1>1, <2>1, FS_AddElement
  <2> HIDE DEF P, Q
  <2>3. QED
    BY <1>2, <1>5, <1>a, <2>2 DEF Same
<1>6. QED
  BY <1>3, <1>4, <1>5

-----------------------------------------------------------------------------
(* Types, and what is in a hand *)

ExPC == WaitPC \cup SignalPC \cup ExecutorPC
OtherPC == {"idle", "dequeue", "wake_by_ref", "inc", "take", "wake"}

ExTypes ==
    /\ pc \in [Thread -> ExPC]
    /\ spawn_queue \in Seq(Task) /\ task_queue \in Seq(Task) /\ fifo \in Seq(Task)
    /\ tasks \in SUBSET Task
    /\ value \in Nat /\ permits \in 0 .. MaxPermits
    /\ hand \in [Thread -> Task \cup {NoTask}]
    /\ again \in BOOLEAN

\* The executor polls, registers and inserts; the others signal.
Places ==
    /\ pc[Ex] \notin {"idle", "dequeue", "wake_by_ref"}
    /\ \A t \in Thread : t # Ex => pc[t] \in OtherPC

\* A thread has a task in its hand exactly between taking it out of a queue
\* and putting it into the next.
HandPC == {"poll", "acquired", "defer", "insert", "wake_by_ref"}
HandsFull == \A t \in Thread : hand[t] # NoTask <=> pc[t] \in HandPC

\* What is polled is a task of the executor.
PollsOwn == pc[Ex] \in {"poll", "acquired", "defer"} => hand[Ex] \in tasks

HandInv == ExTypes /\ Places /\ HandsFull /\ PollsOwn

-----------------------------------------------------------------------------
(* The places of a task *)

Sq(x) == Occurrences(spawn_queue, x)
Tq(x) == Occurrences(task_queue, x)
Fq(x) == Occurrences(fifo, x)
Hn(x) == HandsOf(hand, x)

Held(x) ==
    Sq(x) + Tq(x) + Fq(x) + Hn(x) = IF x \in tasks \/ Sq(x) > 0 \/ (pc[Ex] = "insert" /\ hand[Ex] = x)
                                    THEN 1 ELSE 0
AllHeld == \A x \in Task : Held(x)

LEMMA CountsAreNumbers ==
    ASSUME ExecutorAssumption, ExTypes, NEW x \in Task
    PROVE  Sq(x) \in Nat /\ Tq(x) \in Nat /\ Fq(x) \in Nat /\ Hn(x) \in Nat
<1>1. Sq(x) \in Nat /\ Tq(x) \in Nat /\ Fq(x) \in Nat
  BY Occurs DEF ExTypes, Sq, Tq, Fq
<1>2. Hn(x) \in Nat
  BY HandsFinite DEF Hn, ExecutorAssumption
<1>3. QED
  BY <1>1, <1>2

LEMMA HeldOnce ==
    ASSUME ExecutorAssumption, ExTypes, AllHeld
    PROVE  TaskHeldOnce
<1> SUFFICES ASSUME NEW x \in Task
    PROVE Holds(x) = IF x \in tasks \cup Range(spawn_queue) \/ (pc[Ex] = "insert" /\ hand[Ex] = x)
                     THEN 1 ELSE 0
  BY DEF TaskHeldOnce
<1>1. Holds(x) = Sq(x) + Tq(x) + Fq(x) + Hn(x)
  BY DEF Holds, Sq, Tq, Fq, Hn, HandsOf
<1>2. Sq(x) > 0 <=> x \in Range(spawn_queue)
  <2>1. Occurrences(spawn_queue, x) \in Nat /\ (Occurrences(spawn_queue, x) = 0 <=> x \notin Range(spawn_queue))
    BY Occurs DEF ExTypes
  <2>2. QED
    BY <2>1 DEF Sq
<1>3. QED
  BY <1>1, <1>2 DEF AllHeld, Held

\* A task goes from the hand of t, or nowhere, into it, or nowhere.
LEMMA HandTakes ==
    ASSUME ExecutorAssumption, ExTypes, NEW t \in Thread, NEW y, Hold(t, y), NEW x \in Task
    PROVE  Hn(x)' + Same(hand[t], x) = Hn(x) + Same(y, x)
<1>1. hand' = [hand EXCEPT ![t] = y] /\ hand \in [Thread -> Task \cup {NoTask}] /\ IsFiniteSet(Thread)
  BY DEF ExTypes, ExecutorAssumption, Hold
<1>2. PICK V, h, g : h \in [Thread -> V] /\ h = hand /\ g = hand'
  BY <1>1
<1>3. g[t] = y /\ \A u \in Thread : u # t => g[u] = h[u]
  BY <1>1, <1>2
<1>4. IsFiniteSet(Thread) /\ h \in [Thread -> V]
  BY <1>1, <1>2
<1>5. HandsOf(g, x) + Same(h[t], x) = HandsOf(h, x) + Same(y, x)
  BY ONLY <1>3, <1>4, HandsCount, t \in Thread
<1>6. QED
  BY <1>2, <1>5 DEF Hn, HandsOf

LEMMA HandKeeps ==
    ASSUME ExecutorAssumption, HandInv, Next
    PROVE  HandInv'
<1> USE DEF HandInv, ExTypes, Places, HandsFull, PollsOwn, HandPC, OtherPC, ExPC, WaitPC, SignalPC, ExecutorPC
<1>0. Ex \in Thread /\ NoTask \notin Task
  BY DEF ExecutorAssumption
<1>1. CASE PopTask
  <2>1. pc[Ex] = "pop" /\ UNCHANGED <<spawn_queue, tasks, value, permits, fifo>>
    BY <1>1 DEF PopTask, Pop, Goto, semVars
  <2>2. CASE task_queue # <<>>
    <3>1. Head(task_queue) \in Task /\ Tail(task_queue) \in Seq(Task)
      BY <2>2
    <3>2. PICK k \in Task : k = Head(task_queue)
      BY <3>1
    <3>3. /\ pc' = [pc EXCEPT ![Ex] = IF k \in tasks THEN "poll" ELSE "pop"]
          /\ hand' = [hand EXCEPT ![Ex] = IF k \in tasks THEN k ELSE NoTask]
          /\ task_queue' = Tail(task_queue) /\ again' = again
      BY <1>1, <2>2, <3>2 DEF PopTask, Pop, Goto, Hold
    <3>4. QED
      BY <1>0, <2>1, <3>1, <3>3
  <2>3. CASE task_queue = <<>>
    <3>1. /\ pc' = [pc EXCEPT ![Ex] = IF again THEN "try" ELSE "drain"]
          /\ again' = ~again /\ UNCHANGED <<hand, task_queue>>
      BY <1>1, <2>3 DEF PopTask, Pop, Goto
    <3>2. again' \in BOOLEAN
      BY <3>1
    <3>3. QED
      BY <1>0, <2>1, <3>1, <3>2
  <2>4. QED
    BY <2>2, <2>3
<1>2. CASE Poll
  <2>1. /\ pc[Ex] = "poll" /\ pc' = [pc EXCEPT ![Ex] = IF permits > 0 THEN "acquired" ELSE "defer"]
        /\ permits' = (IF permits > 0 THEN permits - 1 ELSE permits)
        /\ UNCHANGED <<spawn_queue, task_queue, tasks, value, fifo, hand, again>>
    BY <1>2 DEF Poll, Goto, queueVars
  <2>2. QED
    BY <1>0, <2>1 DEF ExecutorAssumption
<1>3. CASE Defer
  <2>1. /\ pc[Ex] = "defer" /\ pc' = [pc EXCEPT ![Ex] = "pop"] /\ fifo' = Append(fifo, hand[Ex])
        /\ hand' = [hand EXCEPT ![Ex] = NoTask]
        /\ UNCHANGED <<spawn_queue, task_queue, tasks, value, permits, again>>
    BY <1>3 DEF Defer, Goto, Hold, queueVars
  <2>2. hand[Ex] \in Task
    BY <1>0, <2>1
  <2>3. fifo' \in Seq(Task)
    BY <2>1, <2>2
  <2>4. QED
    BY <1>0, <2>1, <2>3
<1>4. CASE Continue
  <2>1. /\ pc[Ex] = "acquired" /\ pc' = [pc EXCEPT ![Ex] = "poll"]
        /\ UNCHANGED <<spawn_queue, task_queue, tasks, value, permits, fifo, hand, again>>
    BY <1>4 DEF Continue, Goto, queueVars, semVars
  <2>2. QED
    BY <1>0, <2>1
<1>5. CASE Finish
  <2>1. /\ pc[Ex] = "acquired" /\ pc' = [pc EXCEPT ![Ex] = "pop"] /\ tasks' = tasks \ {hand[Ex]}
        /\ hand' = [hand EXCEPT ![Ex] = NoTask]
        /\ UNCHANGED <<spawn_queue, task_queue, value, permits, fifo, again>>
    BY <1>5 DEF Finish, Goto, Hold, semVars
  <2>2. QED
    BY <1>0, <2>1
<1>6. CASE Drain
  <2>1. pc[Ex] = "drain" /\ UNCHANGED <<task_queue, tasks, value, permits, fifo, again>>
    BY <1>6 DEF Drain, Goto, semVars
  <2>2. CASE spawn_queue = <<>>
    <3>1. pc' = [pc EXCEPT ![Ex] = "pop"] /\ UNCHANGED <<spawn_queue, hand>>
      BY <1>6, <2>2 DEF Drain, Goto
    <3>2. QED
      BY <1>0, <2>1, <3>1
  <2>3. CASE spawn_queue # <<>>
    <3>1. /\ pc' = [pc EXCEPT ![Ex] = "insert"] /\ hand' = [hand EXCEPT ![Ex] = Head(spawn_queue)]
          /\ spawn_queue' = Tail(spawn_queue)
      BY <1>6, <2>3 DEF Drain, Goto, Hold
    <3>2. Head(spawn_queue) \in Task /\ spawn_queue' \in Seq(Task)
      BY <2>3, <3>1
    <3>3. QED
      BY <1>0, <2>1, <3>1, <3>2
  <2>4. QED
    BY <2>2, <2>3
<1>7. CASE Insert
  <2>1. /\ pc[Ex] = "insert" /\ pc' = [pc EXCEPT ![Ex] = "inc"] /\ tasks' = tasks \cup {hand[Ex]}
        /\ task_queue' = Append(task_queue, hand[Ex]) /\ hand' = [hand EXCEPT ![Ex] = NoTask]
        /\ UNCHANGED <<spawn_queue, value, permits, fifo, again>>
    BY <1>7 DEF Insert, Goto, Hold, semVars
  <2>2. hand[Ex] \in Task
    BY <1>0, <2>1
  <2>3. task_queue' \in Seq(Task) /\ tasks' \in SUBSET Task
    BY <2>1, <2>2
  <2>4. QED
    BY <1>0, <2>1, <2>3
<1>8. CASE TryLock
  <2>1. /\ pc[Ex] \in {"try", "retry"} /\ \E to \in {"pop", "reg", "try"} : pc' = [pc EXCEPT ![Ex] = to]
        /\ value' = (IF value > 0 THEN value - 1 ELSE value)
        /\ UNCHANGED <<spawn_queue, task_queue, tasks, permits, fifo, hand, again>>
    BY <1>8 DEF TryLock, Tried, Goto, queueVars
  <2>2. QED
    BY <1>0, <2>1
<1>9. ASSUME NEW x \in Task, Spawn(x) PROVE HandInv'
  <2>1. /\ spawn_queue' = Append(spawn_queue, x)
        /\ UNCHANGED <<pc, task_queue, tasks, value, permits, fifo, hand, again>>
    BY <1>9 DEF Spawn, signalVars, semVars
  <2>2. spawn_queue' \in Seq(Task)
    BY <2>1
  <2>3. QED
    BY <2>1, <2>2
<1>10. ASSUME NEW t \in Thread, signal(t) PROVE HandInv'
  <2>1. /\ t # Ex /\ permits < MaxPermits /\ permits' = permits + 1
        /\ pc[t] = "idle" /\ pc' = [pc EXCEPT ![t] = "dequeue"]
        /\ UNCHANGED <<spawn_queue, task_queue, tasks, value, fifo, hand, again>>
    BY <1>10 DEF signal, Goto, queueVars
  <2>2. permits' \in 0 .. MaxPermits
    BY <2>1 DEF ExecutorAssumption
  <2>3. QED
    BY <1>0, <2>1, <2>2
<1>11. ASSUME NEW t \in Thread, DequeueWaker(t) PROVE HandInv'
  <2>1. pc[t] = "dequeue" /\ t # Ex /\ UNCHANGED <<spawn_queue, task_queue, tasks, value, permits, again>>
    BY <1>11 DEF DequeueWaker, Goto, queueVars
  <2>2. CASE fifo = <<>>
    <3>1. pc' = [pc EXCEPT ![t] = "idle"] /\ UNCHANGED <<fifo, hand>>
      BY <1>11, <2>2 DEF DequeueWaker, Goto
    <3>2. QED
      BY <1>0, <2>1, <3>1
  <2>3. CASE fifo # <<>>
    <3>1. /\ pc' = [pc EXCEPT ![t] = "wake_by_ref"] /\ hand' = [hand EXCEPT ![t] = Head(fifo)]
          /\ fifo' = Tail(fifo)
      BY <1>11, <2>3 DEF DequeueWaker, Goto, Hold
    <3>2. Head(fifo) \in Task /\ fifo' \in Seq(Task)
      BY <2>3, <3>1
    <3>3. QED
      BY <1>0, <2>1, <3>1, <3>2
  <2>4. QED
    BY <2>2, <2>3
<1>12. ASSUME NEW t \in Thread, wake_by_ref(t) PROVE HandInv'
  <2>1. /\ pc[t] = "wake_by_ref" /\ t # Ex /\ pc' = [pc EXCEPT ![t] = "inc"]
        /\ task_queue' = Append(task_queue, hand[t]) /\ hand' = [hand EXCEPT ![t] = NoTask]
        /\ UNCHANGED <<spawn_queue, tasks, value, permits, fifo, again>>
    BY <1>12 DEF wake_by_ref, Goto, Hold, semVars
  <2>2. hand[t] \in Task
    BY <1>0, <2>1
  <2>3. task_queue' \in Seq(Task)
    BY <2>1, <2>2
  <2>4. QED
    BY <1>0, <2>1, <2>3
<1>13. ASSUME NEW t \in Thread, Inc(t) PROVE HandInv'
  <2>1. /\ pc[t] = "inc" /\ pc' = [pc EXCEPT ![t] = "take"] /\ value' = value + 1
        /\ UNCHANGED <<spawn_queue, task_queue, tasks, permits, fifo, hand, again>>
    BY <1>13 DEF Inc, Goto, queueVars
  <2>2. QED
    BY <1>0, <2>1
<1>14. ASSUME NEW t \in Thread, SemStep(t), UNCHANGED <<queueVars, semVars, hand, again>> PROVE HandInv'
  <2>1. UNCHANGED <<spawn_queue, task_queue, tasks, value, permits, fifo, hand, again>>
    BY <1>14 DEF queueVars, semVars
  <2>2. PICK to : /\ pc' = [pc EXCEPT ![t] = to] /\ pc[t] \notin HandPC
                  /\ \/ t = Ex /\ to \in WaitPC
                     \/ t = Ex /\ to \in {"drain", "wake"}
                     \/ t # Ex /\ to \in {"idle", "wake"}
    BY <1>14 DEF SemStep, WaitStep, Register, TimerEnds, SleepThread, Woken, Take, Wake, After, Goto
  <2>3. QED
    BY <1>0, <2>1, <2>2
<1>15. QED
  BY <1>1, <1>2, <1>3, <1>4, <1>5, <1>6, <1>7, <1>8, <1>9, <1>10, <1>11, <1>12, <1>13, <1>14 DEF Next, Signal

-----------------------------------------------------------------------------
\* Nothing that counts for x changes.
LEMMA HeldFrame ==
    ASSUME NEW x \in Task, Held(x),
           UNCHANGED <<Sq(x), Tq(x), Fq(x), Hn(x)>>, x \in tasks' <=> x \in tasks,
           (pc'[Ex] = "insert" /\ hand'[Ex] = x) <=> (pc[Ex] = "insert" /\ hand[Ex] = x)
    PROVE  Held(x)'
BY DEF Held

\* A task that is ready is one of the executor's.
LEMMA ReadyIsOwn ==
    ASSUME ExecutorAssumption, HandInv, AllHeld, pc[Ex] = "pop", task_queue # <<>>
    PROVE  Head(task_queue) \in tasks
<1>1. PICK k \in Task : k = Head(task_queue)
  BY DEF HandInv, ExTypes
<1>2. Sq(k) \in Nat /\ Tq(k) \in Nat /\ Fq(k) \in Nat /\ Hn(k) \in Nat
  BY CountsAreNumbers DEF HandInv
<1>3. Occurrences(task_queue, k) = Occurrences(Tail(task_queue), k) + Same(Head(task_queue), k)
  BY OccursTail DEF HandInv, ExTypes
<1>4. Occurrences(Tail(task_queue), k) \in Nat
  <2>1. Tail(task_queue) \in Seq(Task)
    BY DEF HandInv, ExTypes
  <2>2. QED
    BY <2>1, Occurs
<1>5. Tq(k) >= 1
  BY <1>1, <1>3, <1>4 DEF Tq, Same
<1>6. Held(k)
  BY DEF AllHeld
<1>7. QED
  BY <1>1, <1>2, <1>5, <1>6 DEF Held

LEMMA HeldKeeps ==
    ASSUME ExecutorAssumption, HandInv, AllHeld, Next
    PROVE  AllHeld'
<1> SUFFICES ASSUME NEW x \in Task PROVE Held(x)'
  BY DEF AllHeld
<1>0. Held(x) /\ Ex \in Thread /\ NoTask \notin Task /\ x # NoTask
  BY DEF AllHeld, ExecutorAssumption
<1>a. ExTypes /\ ExTypes'
  BY HandKeeps DEF HandInv
<1>b. Sq(x) \in Nat /\ Tq(x) \in Nat /\ Fq(x) \in Nat /\ Hn(x) \in Nat
  BY <1>a, CountsAreNumbers
<1>c. Sq(x)' \in Nat /\ Tq(x)' \in Nat /\ Fq(x)' \in Nat /\ Hn(x)' \in Nat
  <2>1. Sq(x)' \in Nat /\ Tq(x)' \in Nat /\ Fq(x)' \in Nat
    BY <1>a, Occurs DEF ExTypes, Sq, Tq, Fq
  <2>2. HandsOf(hand', x) \in Nat
    BY HandsFinite DEF ExecutorAssumption
  <2>3. QED
    BY <2>1, <2>2 DEF Hn, HandsOf
<1>1. CASE PopTask
  <2>1. pc[Ex] = "pop" /\ UNCHANGED <<spawn_queue, tasks, fifo>>
    BY <1>1 DEF PopTask, Pop, Goto, semVars
  <2>2. CASE task_queue # <<>>
    <3>1. PICK k \in Task : k = Head(task_queue) /\ k \in tasks
      BY <2>1, <2>2, ReadyIsOwn DEF HandInv, ExTypes
    <3>2. pc' = [pc EXCEPT ![Ex] = "poll"] /\ Hold(Ex, k) /\ task_queue' = Tail(task_queue)
      BY <1>1, <2>2, <3>1 DEF PopTask, Pop, Goto
    <3>3. Tq(x) = Tq(x)' + Same(k, x)
      BY <1>a, <2>2, <3>1, <3>2, OccursTail DEF ExTypes, Tq
    <3>4. Hn(x)' + Same(hand[Ex], x) = Hn(x) + Same(k, x)
      BY <1>0, <1>a, <3>2, HandTakes
    <3>5. hand[Ex] = NoTask
      BY <1>0, <2>1 DEF HandInv, HandsFull, HandPC
    <3>6. Sq(x)' = Sq(x) /\ Fq(x)' = Fq(x) /\ tasks' = tasks /\ pc'[Ex] = "poll"
      BY <1>0, <1>a, <2>1, <3>2 DEF Sq, Fq, ExTypes
    <3>7. QED
      BY <1>0, <1>b, <1>c, <2>1, <3>3, <3>4, <3>5, <3>6 DEF Held, Same
  <2>3. CASE task_queue = <<>>
    <3>1. pc'[Ex] # "insert" /\ UNCHANGED <<hand, task_queue>>
      BY <1>0, <1>1, <1>a, <2>3 DEF PopTask, Pop, Goto, ExTypes
    <3>2. QED
      BY <1>0, <2>1, <3>1, HeldFrame DEF Sq, Tq, Fq, Hn, HandsOf
  <2>4. QED
    BY <2>2, <2>3
<1>2. CASE Poll \/ Continue
  <2>1. pc[Ex] # "insert" /\ pc'[Ex] # "insert" /\ UNCHANGED <<spawn_queue, task_queue, tasks, fifo, hand>>
    BY <1>0, <1>2, <1>a DEF Poll, Continue, Goto, queueVars, semVars, ExTypes
  <2>2. QED
    BY <1>0, <2>1, HeldFrame DEF Sq, Tq, Fq, Hn, HandsOf
<1>3. CASE Defer
  <2>1. /\ pc[Ex] = "defer" /\ pc' = [pc EXCEPT ![Ex] = "pop"] /\ fifo' = Append(fifo, hand[Ex])
        /\ Hold(Ex, NoTask) /\ UNCHANGED <<spawn_queue, task_queue, tasks>>
    BY <1>3 DEF Defer, Goto, queueVars
  <2>2. PICK k \in Task : k = hand[Ex]
    BY <1>0, <1>a, <2>1 DEF HandInv, HandsFull, HandPC, ExTypes
  <2>3. Fq(x)' = Fq(x) + Same(k, x)
    BY <1>a, <2>1, <2>2, OccursAppend DEF ExTypes, Fq
  <2>4. Hn(x)' + Same(k, x) = Hn(x) + Same(NoTask, x)
    BY <1>0, <1>a, <2>1, <2>2, HandTakes
  <2>5. Sq(x)' = Sq(x) /\ Tq(x)' = Tq(x) /\ tasks' = tasks /\ pc'[Ex] = "pop"
    BY <1>0, <1>a, <2>1 DEF Sq, Tq, ExTypes
  <2>6. QED
    BY <1>0, <1>b, <1>c, <2>1, <2>3, <2>4, <2>5 DEF Held, Same
<1>4. CASE Finish
  <2>1. /\ pc[Ex] = "acquired" /\ pc' = [pc EXCEPT ![Ex] = "pop"] /\ tasks' = tasks \ {hand[Ex]}
        /\ Hold(Ex, NoTask) /\ UNCHANGED <<spawn_queue, task_queue, fifo>>
    BY <1>4 DEF Finish, Goto, semVars
  <2>2. PICK k \in Task : k = hand[Ex] /\ k \in tasks
    BY <1>0, <1>a, <2>1 DEF HandInv, PollsOwn, ExTypes
  <2>3. Hn(x)' + Same(k, x) = Hn(x) + Same(NoTask, x)
    BY <1>0, <1>a, <2>1, <2>2, HandTakes
  <2>4. Sq(x)' = Sq(x) /\ Tq(x)' = Tq(x) /\ Fq(x)' = Fq(x) /\ tasks' = tasks \ {k} /\ pc'[Ex] = "pop"
    BY <1>0, <1>a, <2>1, <2>2 DEF Sq, Tq, Fq, ExTypes
  <2>5. QED
    BY <1>0, <1>b, <1>c, <2>1, <2>2, <2>3, <2>4 DEF Held, Same
<1>5. CASE Drain
  <2>1. pc[Ex] = "drain" /\ UNCHANGED <<task_queue, tasks, fifo>>
    BY <1>5 DEF Drain, Goto, semVars
  <2>2. CASE spawn_queue = <<>>
    <3>1. pc'[Ex] # "insert" /\ UNCHANGED <<spawn_queue, hand>>
      BY <1>0, <1>5, <1>a, <2>2 DEF Drain, Goto, ExTypes
    <3>2. QED
      BY <1>0, <2>1, <3>1, HeldFrame DEF Sq, Tq, Fq, Hn, HandsOf
  <2>3. CASE spawn_queue # <<>>
    <3>1. PICK k \in Task : k = Head(spawn_queue)
      BY <1>a, <2>3 DEF ExTypes
    <3>2. pc' = [pc EXCEPT ![Ex] = "insert"] /\ Hold(Ex, k) /\ spawn_queue' = Tail(spawn_queue)
      BY <1>5, <2>3, <3>1 DEF Drain, Goto
    <3>3. Sq(x) = Sq(x)' + Same(k, x)
      BY <1>a, <2>3, <3>1, <3>2, OccursTail DEF ExTypes, Sq
    <3>4. Hn(x)' + Same(hand[Ex], x) = Hn(x) + Same(k, x)
      BY <1>0, <1>a, <3>2, HandTakes
    <3>5. hand[Ex] = NoTask
      BY <1>0, <2>1 DEF HandInv, HandsFull, HandPC
    <3>6. /\ Tq(x)' = Tq(x) /\ Fq(x)' = Fq(x) /\ tasks' = tasks /\ pc'[Ex] = "insert" /\ hand'[Ex] = k
      BY <1>0, <1>a, <2>1, <3>2 DEF Tq, Fq, ExTypes, Hold
    <3>7. CASE x = k
      <4>1. Same(k, x) = 1 /\ Same(hand[Ex], x) = 0
        BY <1>0, <3>5, <3>7 DEF Same
      <4>2. Sq(x) + Tq(x) + Fq(x) + Hn(x) = 1
        BY <1>0, <1>b, <1>c, <3>3, <4>1 DEF Held
      <4>3. QED
        BY <1>b, <1>c, <3>3, <3>4, <3>6, <3>7, <4>1, <4>2 DEF Held
    <3>8. CASE x # k
      <4>1. Same(k, x) = 0 /\ Same(hand[Ex], x) = 0
        BY <1>0, <3>5, <3>8 DEF Same
      <4>2. QED
        BY <1>0, <1>b, <1>c, <2>1, <3>3, <3>4, <3>6, <3>8, <4>1 DEF Held
    <3>9. QED
      BY <3>7, <3>8
  <2>4. QED
    BY <2>2, <2>3
<1>6. CASE Insert
  <2>1. /\ pc[Ex] = "insert" /\ pc' = [pc EXCEPT ![Ex] = "inc"] /\ tasks' = tasks \cup {hand[Ex]}
        /\ task_queue' = Append(task_queue, hand[Ex]) /\ Hold(Ex, NoTask) /\ UNCHANGED <<spawn_queue, fifo>>
    BY <1>6 DEF Insert, Goto, semVars
  <2>2. PICK k \in Task : k = hand[Ex]
    BY <1>0, <1>a, <2>1 DEF HandInv, HandsFull, HandPC, ExTypes
  <2>3. Tq(x)' = Tq(x) + Same(k, x)
    BY <1>a, <2>1, <2>2, OccursAppend DEF ExTypes, Tq
  <2>4. Hn(x)' + Same(k, x) = Hn(x) + Same(NoTask, x)
    BY <1>0, <1>a, <2>1, <2>2, HandTakes
  <2>5. Sq(x)' = Sq(x) /\ Fq(x)' = Fq(x) /\ tasks' = tasks \cup {k} /\ pc'[Ex] = "inc"
    BY <1>0, <1>a, <2>1, <2>2 DEF Sq, Fq, ExTypes
  <2>6. CASE x = k
    <3>1. Same(k, x) = 1 /\ Same(NoTask, x) = 0
      BY <1>0, <2>6 DEF Same
    <3>2. Sq(x) + Tq(x) + Fq(x) + Hn(x) = 1
      BY <1>0, <2>1, <2>2, <2>6 DEF Held
    <3>3. Sq(x)' + Tq(x)' + Fq(x)' + Hn(x)' = 1 /\ x \in tasks'
      BY <1>b, <1>c, <2>3, <2>4, <2>5, <2>6, <3>1, <3>2
    <3>4. QED
      BY <3>3 DEF Held
  <2>7. CASE x # k
    <3>1. Same(k, x) = 0 /\ Same(NoTask, x) = 0
      BY <1>0, <2>7 DEF Same
    <3>2. UNCHANGED <<Sq(x), Tq(x), Fq(x), Hn(x)>>
      BY <1>b, <1>c, <2>3, <2>4, <2>5, <3>1
    <3>3. QED
      BY <1>0, <2>2, <2>5, <2>7, <3>2, HeldFrame
  <2>8. QED
    BY <2>6, <2>7
<1>7. CASE TryLock
  <2>1. pc[Ex] # "insert" /\ pc'[Ex] # "insert" /\ UNCHANGED <<spawn_queue, task_queue, tasks, fifo, hand>>
    BY <1>0, <1>7, <1>a DEF TryLock, Tried, Goto, queueVars, semVars, ExTypes
  <2>2. QED
    BY <1>0, <2>1, HeldFrame DEF Sq, Tq, Fq, Hn, HandsOf
<1>8. ASSUME NEW k \in Task, Spawn(k) PROVE Held(x)'
  <2>1. /\ pc[Ex] = "acquired" /\ k \notin tasks /\ k \notin Range(spawn_queue)
        /\ spawn_queue' = Append(spawn_queue, k) /\ UNCHANGED <<pc, task_queue, tasks, fifo, hand>>
    BY <1>8 DEF Spawn, signalVars, semVars
  <2>2. Sq(x)' = Sq(x) + Same(k, x)
    BY <1>a, <2>1, OccursAppend DEF ExTypes, Sq
  <2>3. Tq(x)' = Tq(x) /\ Fq(x)' = Fq(x) /\ Hn(x)' = Hn(x)
    BY <2>1 DEF Tq, Fq, Hn, HandsOf
  <2>4. Sq(k) = 0
    BY <1>a, <2>1, Occurs DEF ExTypes, Sq
  <2>5. CASE x = k
    <3>1. Sq(x)' = 1 /\ Sq(x) = 0
      BY <2>2, <2>4, <2>5 DEF Same
    <3>2. Sq(x) + Tq(x) + Fq(x) + Hn(x) = 0
      BY <1>0, <2>1, <2>5, <3>1 DEF Held
    <3>3. QED
      BY <1>b, <1>c, <2>3, <3>1, <3>2 DEF Held
  <2>6. CASE x # k
    <3>1. Sq(x)' = Sq(x)
      BY <1>b, <2>2, <2>6 DEF Same
    <3>2. QED
      BY <1>0, <2>1, <2>3, <3>1, HeldFrame
  <2>7. QED
    BY <2>5, <2>6
<1>9. ASSUME NEW t \in Thread, signal(t) \/ Inc(t) PROVE Held(x)'
  <2>1. UNCHANGED <<spawn_queue, task_queue, tasks, fifo, hand>> /\ (pc'[Ex] = "insert" <=> pc[Ex] = "insert")
    BY <1>0, <1>9, <1>a DEF signal, Inc, Goto, queueVars, ExTypes
  <2>2. QED
    BY <1>0, <2>1, HeldFrame DEF Sq, Tq, Fq, Hn, HandsOf
<1>10. ASSUME NEW t \in Thread, DequeueWaker(t) PROVE Held(x)'
  <2>1. /\ pc[t] = "dequeue" /\ t # Ex /\ UNCHANGED <<spawn_queue, task_queue, tasks>>
        /\ \E to : pc' = [pc EXCEPT ![t] = to]
    BY <1>10 DEF DequeueWaker, Goto, queueVars, HandInv, Places
  <2>2. pc'[Ex] = pc[Ex]
    BY <1>0, <1>a, <2>1 DEF ExTypes
  <2>3. CASE fifo = <<>>
    <3>1. UNCHANGED <<fifo, hand>>
      BY <1>10, <2>3 DEF DequeueWaker
    <3>2. QED
      BY <1>0, <2>1, <2>2, <3>1, HeldFrame DEF Sq, Tq, Fq, Hn, HandsOf
  <2>4. CASE fifo # <<>>
    <3>1. PICK k \in Task : k = Head(fifo)
      BY <1>a, <2>4 DEF ExTypes
    <3>2. Hold(t, k) /\ fifo' = Tail(fifo)
      BY <1>10, <2>4, <3>1 DEF DequeueWaker
    <3>3. Fq(x) = Fq(x)' + Same(k, x)
      BY <1>a, <2>4, <3>1, <3>2, OccursTail DEF ExTypes, Fq
    <3>4. Hn(x)' + Same(hand[t], x) = Hn(x) + Same(k, x)
      BY <1>0, <1>a, <3>2, HandTakes
    <3>5. hand[t] = NoTask
      BY <2>1 DEF HandInv, HandsFull, HandPC
    <3>6. Sq(x)' = Sq(x) /\ Tq(x)' = Tq(x) /\ tasks' = tasks /\ hand'[Ex] = hand[Ex]
      BY <1>0, <1>a, <2>1, <3>2 DEF Sq, Tq, ExTypes, Hold
    <3>7. QED
      BY <1>0, <1>b, <1>c, <2>2, <3>3, <3>4, <3>5, <3>6 DEF Held, Same
  <2>5. QED
    BY <2>3, <2>4
<1>11. ASSUME NEW t \in Thread, wake_by_ref(t) PROVE Held(x)'
  <2>1. /\ pc[t] = "wake_by_ref" /\ t # Ex /\ pc' = [pc EXCEPT ![t] = "inc"]
        /\ task_queue' = Append(task_queue, hand[t]) /\ Hold(t, NoTask) /\ UNCHANGED <<spawn_queue, tasks, fifo>>
    BY <1>11 DEF wake_by_ref, Goto, semVars, HandInv, Places
  <2>2. PICK k \in Task : k = hand[t]
    BY <1>a, <2>1 DEF HandInv, HandsFull, HandPC, ExTypes
  <2>3. Tq(x)' = Tq(x) + Same(k, x)
    BY <1>a, <2>1, <2>2, OccursAppend DEF ExTypes, Tq
  <2>4. Hn(x)' + Same(k, x) = Hn(x) + Same(NoTask, x)
    BY <1>0, <1>a, <2>1, <2>2, HandTakes
  <2>5. Sq(x)' = Sq(x) /\ Fq(x)' = Fq(x) /\ tasks' = tasks /\ pc'[Ex] = pc[Ex] /\ hand'[Ex] = hand[Ex]
    BY <1>0, <1>a, <2>1 DEF Sq, Fq, ExTypes, Hold
  <2>6. QED
    BY <1>0, <1>b, <1>c, <2>3, <2>4, <2>5 DEF Held, Same
<1>12. ASSUME NEW t \in Thread, SemStep(t), UNCHANGED <<queueVars, semVars, hand, again>> PROVE Held(x)'
  <2>1. UNCHANGED <<spawn_queue, task_queue, tasks, fifo, hand>>
    BY <1>12 DEF queueVars, semVars
  <2>2. PICK to : pc' = [pc EXCEPT ![t] = to] /\ pc[t] # "insert" /\ to # "insert"
    BY <1>12 DEF SemStep, WaitStep, Register, TimerEnds, SleepThread, Woken, Take, Wake, After, Goto
  <2>3. pc'[Ex] = "insert" <=> pc[Ex] = "insert"
    BY <1>0, <1>a, <2>2 DEF ExTypes
  <2>4. QED
    BY <1>0, <2>1, <2>3, HeldFrame DEF Sq, Tq, Fq, Hn, HandsOf
<1>13. QED
  BY <1>1, <1>2, <1>3, <1>4, <1>5, <1>6, <1>7, <1>8, <1>9, <1>10, <1>11, <1>12 DEF Next, Signal

-----------------------------------------------------------------------------
(* The surplus of permits *)

\* The permits that are there or will be, over the tasks that are ready.
Incs == HandsOf(pc, "inc")
Surplus == value + Incs - Len(task_queue)

RunPC == {"pop", "poll", "acquired", "defer"}
SpawnPC == {"drain", "insert", "inc", "take", "wake"}

\* A wait takes one permit, and the run that follows takes at least one task
\* before it finds the queue empty.  A task that is polled the second time
\* around was taken out of the queue without a permit.
SurplusInv ==
    /\ pc[Ex] \in WaitPC => ~again
    /\ pc[Ex] \in SpawnPC => again
    /\ Surplus >= IF pc[Ex] \in RunPC /\ ~again THEN -1 ELSE 0
    /\ pc[Ex] \in RunPC /\ again /\ (pc[Ex] # "pop" \/ spawn_queue # <<>>) => Surplus >= 1
    /\ pc[Ex] \in WaitPC /\ spawn_queue # <<>> => Surplus >= 1

\* One thread goes from one place to another.
LEMMA IncsMove ==
    ASSUME ExecutorAssumption, pc \in [Thread -> ExPC], NEW t \in Thread, NEW to,
           pc' = [pc EXCEPT ![t] = to]
    PROVE  Incs' + Same(pc[t], "inc") = Incs + Same(to, "inc")
<1>1. PICK V, h, g : h \in [Thread -> V] /\ h = pc /\ g = pc'
  OBVIOUS
<1>2. g[t] = to /\ \A u \in Thread : u # t => g[u] = h[u]
  BY <1>1
<1>3. IsFiniteSet(Thread) /\ h \in [Thread -> V]
  BY <1>1 DEF ExecutorAssumption
<1>4. HandsOf(g, "inc") + Same(h[t], "inc") = HandsOf(h, "inc") + Same(to, "inc")
  BY ONLY <1>2, <1>3, HandsCount, t \in Thread
<1>5. QED
  BY <1>1, <1>4 DEF Incs, HandsOf

LEMMA IncsStay ==
    ASSUME ExecutorAssumption, pc \in [Thread -> ExPC], NEW t \in Thread, NEW to,
           pc' = [pc EXCEPT ![t] = to], (pc[t] = "inc") <=> (to = "inc")
    PROVE  Incs' = Incs
<1>1. Incs' + Same(pc[t], "inc") = Incs + Same(to, "inc")
  BY IncsMove
<1>2. Incs \in Nat /\ HandsOf(pc', "inc") \in Nat
  BY HandsFinite DEF ExecutorAssumption, Incs
<1>3. Incs' \in Nat
  BY <1>2 DEF Incs, HandsOf
<1>4. Same(pc[t], "inc") = Same(to, "inc") /\ Same(to, "inc") \in Nat
  BY DEF Same
<1>5. QED
  BY <1>1, <1>2, <1>3, <1>4

LEMMA IncsMore ==
    ASSUME ExecutorAssumption, pc \in [Thread -> ExPC], NEW t \in Thread,
           pc' = [pc EXCEPT ![t] = "inc"], pc[t] # "inc"
    PROVE  Incs' = Incs + 1
<1>1. Incs' + Same(pc[t], "inc") = Incs + Same("inc", "inc")
  BY IncsMove
<1>2. Incs \in Nat /\ HandsOf(pc', "inc") \in Nat
  BY HandsFinite DEF ExecutorAssumption, Incs
<1>3. Incs' \in Nat
  BY <1>2 DEF Incs, HandsOf
<1>4. Same(pc[t], "inc") = 0 /\ Same("inc", "inc") = 1
  BY DEF Same
<1>5. QED
  BY <1>1, <1>2, <1>3, <1>4

LEMMA IncsLess ==
    ASSUME ExecutorAssumption, pc \in [Thread -> ExPC], NEW t \in Thread, NEW to,
           pc' = [pc EXCEPT ![t] = to], pc[t] = "inc", to # "inc"
    PROVE  Incs' = Incs - 1
<1>1. Incs' + Same(pc[t], "inc") = Incs + Same(to, "inc")
  BY IncsMove
<1>2. Incs \in Nat /\ HandsOf(pc', "inc") \in Nat
  BY HandsFinite DEF ExecutorAssumption, Incs
<1>3. Incs' \in Nat
  BY <1>2 DEF Incs, HandsOf
<1>4. Same(pc[t], "inc") = 1 /\ Same(to, "inc") = 0
  BY DEF Same
<1>5. QED
  BY <1>1, <1>2, <1>3, <1>4

LEMMA SurplusKeeps ==
    ASSUME ExecutorAssumption, HandInv, SurplusInv, Next
    PROVE  SurplusInv'
<1>0. Ex \in Thread
  BY DEF ExecutorAssumption
<1>a. ExTypes /\ ExTypes'
  BY HandKeeps DEF HandInv
<1>b. value \in Nat /\ value' \in Nat /\ Incs \in Nat /\ Len(task_queue) \in Nat /\ Len(task_queue') \in Nat
  BY <1>a, HandsFinite DEF ExTypes, Incs, ExecutorAssumption
<1>c. Incs' \in Nat
  <2>1. HandsOf(pc', "inc") \in Nat
    BY HandsFinite DEF ExecutorAssumption
  <2>2. QED
    BY <2>1 DEF Incs, HandsOf
<1>d. pc \in [Thread -> ExPC] /\ again \in BOOLEAN /\ again' \in BOOLEAN
  BY <1>a DEF ExTypes
<1> USE DEF SurplusInv, Surplus, RunPC, SpawnPC, WaitPC
<1>1. CASE PopTask
  <2>1. pc[Ex] = "pop" /\ UNCHANGED <<spawn_queue, value>>
    BY <1>1 DEF PopTask, Pop, Goto, semVars
  <2>2. CASE task_queue # <<>>
    <3>1. PICK to : pc' = [pc EXCEPT ![Ex] = to] /\ to \in {"poll", "pop"}
      BY <1>1, <2>2 DEF PopTask, Pop, Goto
    <3>2. Incs' = Incs
      BY <1>0, <1>b, <1>c, <1>d, <2>1, <3>1, IncsStay
    <3>3. again' = again /\ Len(task_queue') = Len(task_queue) - 1
      BY <1>1, <1>a, <2>2 DEF PopTask, Pop, ExTypes
    <3>4. pc'[Ex] = to
      BY <1>0, <1>d, <3>1
    <3>5. QED
      BY <1>b, <1>c, <1>d, <2>1, <3>1, <3>2, <3>3, <3>4
  <2>3. CASE task_queue = <<>>
    <3>1. /\ pc' = [pc EXCEPT ![Ex] = IF again THEN "try" ELSE "drain"]
          /\ (again' <=> ~again) /\ task_queue' = task_queue
      BY <1>1, <2>3 DEF PopTask, Pop, Goto
    <3>2. Len(task_queue) = 0
      BY <2>3
    <3>3. CASE again
      <4>1. pc' = [pc EXCEPT ![Ex] = "try"] /\ pc'[Ex] = "try"
        BY <1>0, <1>d, <3>1, <3>3
      <4>2. Incs' = Incs
        BY <1>0, <1>b, <1>c, <1>d, <2>1, <4>1, IncsStay
      <4>3. QED
        BY <1>b, <1>c, <2>1, <3>1, <3>2, <3>3, <4>1, <4>2
    <3>4. CASE ~again
      <4>1. pc' = [pc EXCEPT ![Ex] = "drain"] /\ pc'[Ex] = "drain"
        BY <1>0, <1>d, <3>1, <3>4
      <4>2. again'
        BY <3>1, <3>4
      <4>3. Len(task_queue') = 0
        BY <3>1, <3>2
      <4>4. Surplus' >= 0
        <5>1. Surplus' = value' + Incs' - Len(task_queue')
          OBVIOUS
        <5>2. value' + Incs' - 0 >= 0
          <6>1. PICK n \in Nat, m \in Nat : n = value' /\ m = Incs'
            BY <1>b, <1>c
          <6>2. n + m - 0 >= 0
            OBVIOUS
          <6>3. QED
            BY <6>1, <6>2
        <5>3. QED
          BY <4>3, <5>1, <5>2
      <4>5. QED
        BY <4>1, <4>2, <4>4
    <3>5. QED
      BY <3>3, <3>4
  <2>4. QED
    BY <2>2, <2>3
<1>2. CASE Poll \/ Defer \/ Continue \/ Finish
  <2>1. PICK to : /\ pc' = [pc EXCEPT ![Ex] = to] /\ to \in RunPC /\ pc[Ex] \in {"poll", "acquired", "defer"}
                  /\ UNCHANGED <<spawn_queue, task_queue, value, again>>
    BY <1>2 DEF Poll, Defer, Continue, Finish, Goto, queueVars, semVars
  <2>2. Incs' = Incs
    BY <1>0, <1>b, <1>c, <1>d, <2>1, IncsStay
  <2>3. pc'[Ex] = to
    BY <1>0, <1>d, <2>1
  <2>4. QED
    BY <1>b, <1>c, <1>d, <2>1, <2>2, <2>3
<1>3. CASE Drain
  <2>1. pc[Ex] = "drain" /\ UNCHANGED <<task_queue, value, again>>
    BY <1>3 DEF Drain, Goto, semVars
  <2>2. PICK to : /\ pc' = [pc EXCEPT ![Ex] = to] /\ to \in {"pop", "insert"}
                  /\ (to = "pop" => spawn_queue' = <<>>)
    BY <1>3 DEF Drain, Goto
  <2>3. Incs' = Incs
    BY <1>0, <1>b, <1>c, <1>d, <2>1, <2>2, IncsStay
  <2>4. pc'[Ex] = to
    BY <1>0, <1>d, <2>2
  <2>5. QED
    BY <1>b, <1>c, <1>d, <2>1, <2>2, <2>3, <2>4
<1>4. CASE Insert
  <2>1. /\ pc[Ex] = "insert" /\ pc' = [pc EXCEPT ![Ex] = "inc"]
        /\ task_queue' = Append(task_queue, hand[Ex]) /\ UNCHANGED <<spawn_queue, value, again>>
    BY <1>4 DEF Insert, Goto, semVars
  <2>2. Incs' = Incs + 1
    BY <1>0, <1>b, <1>c, <1>d, <2>1, IncsMore
  <2>3. Len(task_queue') = Len(task_queue) + 1
    BY <1>a, <2>1 DEF ExTypes
  <2>4. pc'[Ex] = "inc"
    BY <1>0, <1>d, <2>1
  <2>5. QED
    BY <1>b, <1>c, <1>d, <2>1, <2>2, <2>3, <2>4
<1>5. CASE TryLock
  <2>1. value > 0 \/ value = 0
    BY <1>b
  <2>2. UNCHANGED <<spawn_queue, task_queue, again>>
    BY <1>5 DEF TryLock, queueVars
  <2>3. CASE value > 0
    <3>1. pc[Ex] \in {"try", "retry"} /\ pc' = [pc EXCEPT ![Ex] = "pop"] /\ value' = value - 1
      BY <1>5, <2>3 DEF TryLock, Tried, Goto
    <3>2. Incs' = Incs
      BY <1>0, <1>b, <1>c, <1>d, <3>1, IncsStay
    <3>3. pc'[Ex] = "pop"
      BY <1>0, <1>d, <3>1
    <3>4. QED
      BY <1>b, <1>c, <1>d, <2>2, <3>1, <3>2, <3>3
  <2>4. CASE value = 0
    <3>1. PICK to : /\ pc[Ex] \in {"try", "retry"} /\ pc' = [pc EXCEPT ![Ex] = to] /\ value' = value
                    /\ to \in {"reg", "try"}
      BY <1>5, <2>4 DEF TryLock, Tried, Goto
    <3>2. Incs' = Incs
      BY <1>0, <1>b, <1>c, <1>d, <3>1, IncsStay
    <3>3. pc'[Ex] = to
      BY <1>0, <1>d, <3>1
    <3>4. QED
      BY <1>b, <1>c, <1>d, <2>2, <3>1, <3>2, <3>3
  <2>5. QED
    BY <2>1, <2>3, <2>4
<1>6. ASSUME NEW x \in Task, Spawn(x) PROVE SurplusInv'
  <2>1. pc[Ex] = "acquired" /\ UNCHANGED <<pc, task_queue, value, again>>
    BY <1>6 DEF Spawn, signalVars, semVars
  <2>2. Incs' = Incs
    BY <2>1 DEF Incs, HandsOf
  <2>3. QED
    BY <1>b, <2>1, <2>2
<1>7. ASSUME NEW t \in Thread, signal(t) \/ DequeueWaker(t) PROVE SurplusInv'
  <2>1. PICK to : /\ pc' = [pc EXCEPT ![t] = to] /\ pc[t] # "inc" /\ to # "inc" /\ t # Ex
                  /\ UNCHANGED <<spawn_queue, task_queue, value, again>>
    BY <1>7 DEF signal, DequeueWaker, Goto, queueVars, HandInv, Places
  <2>2. Incs' = Incs
    BY <1>b, <1>c, <1>d, <2>1, IncsStay
  <2>3. pc'[Ex] = pc[Ex]
    BY <1>0, <1>d, <2>1
  <2>4. QED
    BY <1>b, <2>1, <2>2, <2>3
<1>8. ASSUME NEW t \in Thread, wake_by_ref(t) PROVE SurplusInv'
  <2>1. /\ pc[t] = "wake_by_ref" /\ t # Ex /\ pc' = [pc EXCEPT ![t] = "inc"]
        /\ task_queue' = Append(task_queue, hand[t]) /\ UNCHANGED <<spawn_queue, value, again>>
    BY <1>8 DEF wake_by_ref, Goto, semVars, HandInv, Places
  <2>2. Incs' = Incs + 1
    BY <1>b, <1>c, <1>d, <2>1, IncsMore
  <2>3. Len(task_queue') = Len(task_queue) + 1
    BY <1>a, <2>1 DEF ExTypes
  <2>4. pc'[Ex] = pc[Ex]
    BY <1>0, <1>d, <2>1
  <2>5. QED
    BY <1>b, <1>c, <2>1, <2>2, <2>3, <2>4
<1>9. ASSUME NEW t \in Thread, Inc(t) PROVE SurplusInv'
  <2>1. /\ pc[t] = "inc" /\ pc' = [pc EXCEPT ![t] = "take"] /\ value' = value + 1
        /\ UNCHANGED <<spawn_queue, task_queue, again>>
    BY <1>9 DEF Inc, Goto, queueVars
  <2>2. Incs' = Incs - 1
    BY <1>b, <1>c, <1>d, <2>1, IncsLess
  <2>3. pc'[Ex] = pc[Ex] \/ (pc[Ex] = "inc" /\ pc'[Ex] = "take")
    BY <1>0, <1>d, <2>1
  <2>4. QED
    BY <1>b, <1>c, <2>1, <2>2, <2>3
<1>10. ASSUME NEW t \in Thread, SemStep(t), UNCHANGED <<queueVars, semVars, hand, again>> PROVE SurplusInv'
  <2>1. UNCHANGED <<spawn_queue, task_queue, value, again>>
    BY <1>10 DEF queueVars, semVars
  <2>2. PICK to : /\ pc' = [pc EXCEPT ![t] = to] /\ pc[t] # "inc" /\ to # "inc"
                  /\ \/ t = Ex /\ pc[t] \in WaitPC /\ to \in WaitPC
                     \/ t = Ex /\ pc[t] \in {"take", "wake"} /\ to \in {"drain", "wake"}
                     \/ t # Ex
    BY <1>10 DEF SemStep, WaitStep, Register, TimerEnds, SleepThread, Woken, Take, Wake, After, Goto
  <2>3. Incs' = Incs
    BY <1>b, <1>c, <1>d, <2>2, IncsStay
  <2>4. \/ pc'[Ex] = pc[Ex]
        \/ pc[Ex] \in WaitPC /\ pc'[Ex] \in WaitPC
        \/ pc[Ex] \in {"take", "wake"} /\ pc'[Ex] \in {"drain", "wake"}
    BY <1>0, <1>d, <2>2
  <2>5. QED
    BY <1>b, <2>1, <2>3, <2>4
<1>11. QED
  BY <1>1, <1>2, <1>3, <1>4, <1>5, <1>6, <1>7, <1>8, <1>9, <1>10 DEF Next, Signal

LEMMA SurplusServes ==
    ASSUME ExecutorAssumption, ExTypes, SurplusInv
    PROVE  NothingStranded
<1> SUFFICES ASSUME Waiting, task_queue # <<>> \/ spawn_queue # <<>>
             PROVE  value > 0 \/ \E t \in Thread : pc[t] = "inc"
  BY DEF NothingStranded
<1>1. value \in Nat /\ Len(task_queue) \in Nat /\ Incs \in Nat /\ (task_queue # <<>> => Len(task_queue) > 0)
  BY HandsFinite DEF ExTypes, Incs, ExecutorAssumption
<1>2. pc[Ex] \in WaitPC /\ pc[Ex] \notin RunPC
  BY DEF Waiting, WaitPC, RunPC
<1>3. value + Incs > 0
  BY <1>1, <1>2 DEF SurplusInv, Surplus
<1>4. Incs # 0 => \E t \in Thread : pc[t] = "inc"
  <2>1. {t \in Thread : pc[t] = "inc"} = {} => Incs = 0
    BY FS_EmptySet DEF Incs, HandsOf
  <2>2. QED
    BY <2>1
<1>5. QED
  BY <1>1, <1>3, <1>4

-----------------------------------------------------------------------------
LEMMA ExecutorWakes ==
    ASSUME ExecutorAssumption, ExTypes, WakeInv, Next
    PROVE  WakeInv'
<1>0. pc \in [Thread -> ExPC] /\ value \in Nat
  BY DEF ExTypes
<1>1. ASSUME NEW t \in Thread,
             \/ t = Ex /\ (PopTask \/ Poll \/ Defer \/ Continue \/ Finish \/ Drain \/ Insert)
             \/ signal(t) \/ DequeueWaker(t) \/ wake_by_ref(t) \/ Inc(t)
      PROVE  WakeInv'
  <2>1. PICK to : pc' = [pc EXCEPT ![t] = to] /\ pc[t] \notin SignalPlaces /\ to \notin SignalPlaces
    BY <1>1 DEF PopTask, Pop, Poll, Defer, Continue, Finish, Drain, Insert, signal, DequeueWaker, wake_by_ref, Inc,
                Goto, SignalPlaces
  <2>2. UNCHANGED <<slot, counter, taken>>
    BY <1>1 DEF PopTask, Poll, Defer, Continue, Finish, Drain, Insert, signal, DequeueWaker, wake_by_ref, Inc
  <2>3. QED
    BY <1>0, <2>1, <2>2, Elsewhere
<1>2. ASSUME TryLock, Ex \in Thread PROVE WakeInv'
  <2>1. "pop" \notin SignalPlaces
    BY DEF SignalPlaces
  <2>2. PICK ok \in BOOLEAN : ok <=> value > 0
    BY <1>0
  <2>3. Tried(Ex, ok, "pop") /\ UNCHANGED <<slot, counter, taken>>
    BY <1>2, <2>2 DEF TryLock
  <2>4. QED
    BY <1>0, <1>2, <2>1, <2>3, TriedKeeps
<1>3. ASSUME NEW x \in Task, Spawn(x) PROVE WakeInv'
  BY <1>3, ObjectRests DEF Spawn
<1>4. ASSUME NEW t \in Thread, SemStep(t) PROVE WakeInv'
  <2>1. After(t) \notin SignalPlaces
    BY DEF After, SignalPlaces
  <2>2. QED
    BY <1>0, <1>4, <2>1, WaitStepKeeps, TakeKeeps, WakeKeeps DEF SemStep
<1>5. QED
  BY <1>1, <1>2, <1>3, <1>4 DEF Next, Signal, ExecutorAssumption

LEMMA ExecutorStarts ==
    ASSUME ExecutorAssumption, Init
    PROVE  HandInv /\ AllHeld /\ SurplusInv /\ WakeInv
<1>0. Ex \in Thread /\ NoTask \notin Task /\ FirstTasks \in Seq(Task) /\ MaxPermits \in Nat
  BY DEF ExecutorAssumption
<1>1. HandInv
  <2>1. pc \in [Thread -> ExPC] /\ tasks \in SUBSET Task
    BY <1>0 DEF Init, ExPC, ExecutorPC
  <2>2. hand \in [Thread -> Task \cup {NoTask}] /\ again \in BOOLEAN
    BY DEF Init
  <2>3. /\ spawn_queue \in Seq(Task) /\ task_queue \in Seq(Task) /\ fifo \in Seq(Task)
        /\ value \in Nat /\ permits \in 0 .. MaxPermits
    BY <1>0 DEF Init
  <2>4. Places /\ HandsFull /\ PollsOwn
    BY <1>0 DEF Init, Places, HandsFull, PollsOwn, HandPC, OtherPC
  <2>5. QED
    BY <2>1, <2>2, <2>3, <2>4 DEF HandInv, ExTypes
<1>2. ASSUME NEW x \in Task PROVE Held(x)
  <2>1. Sq(x) \in Nat /\ Sq(x) <= 1
    <3> DEFINE P == {i \in DOMAIN FirstTasks : FirstTasks[i] = x}
    <3>1. Sq(x) = Cardinality(P)
      BY DEF Init, Sq, Occurrences
    <3>2. P = {} \/ \E i \in P : P = {i}
      BY DEF ExecutorAssumption, IsInjective
    <3>3. Cardinality(P) = 0 \/ Cardinality(P) = 1
      BY <3>2, FS_EmptySet, FS_Singleton
    <3>4. QED
      BY <3>1, <3>3
  <2>2. Tq(x) = 0 /\ Fq(x) = 0
    BY OccursEmpty DEF Init, Tq, Fq
  <2>3. Hn(x) = 0
    <3>1. {t \in Thread : hand[t] = x} = {}
      BY <1>0 DEF Init
    <3>2. QED
      BY <3>1, FS_EmptySet DEF Hn, HandsOf
  <2>4. QED
    BY <1>0, <2>1, <2>2, <2>3 DEF Init, Held
<1>3. SurplusInv
  <2>1. Incs \in Nat
    BY HandsFinite DEF Incs, ExecutorAssumption
  <2>2. QED
    BY <1>0, <2>1 DEF Init, SurplusInv, Surplus, RunPC, SpawnPC, WaitPC
<1>4. WakeInv
  <2>1. \A t \in Thread : ~Due(t) /\ pc[t] \notin SignalPlaces
    BY SignalAssumption DEF Init, Due, SignalPlaces
  <2>2. QED
    BY <2>1, SignalAssumption DEF Init, WakeInv, HandsWake, OneHandle, DueSleep, Counters, SignalPlaces
<1>5. QED
  BY <1>1, <1>2, <1>3, <1>4 DEF AllHeld

(* For any number of threads and tasks: a task that is not done is in       *)
(* exactly one queue or hand, so it is neither lost nor polled twice for    *)
(* one signal; and the executor is in `wait` with a task that is ready or   *)
(* spawned only if its semaphore is up or about to be (executor.rs, `run`,  *)
(* `run_ready_task`, `wake_task`).  Its sleeps and wakes balance.           *)
THEOREM ExecutorServes ==
    ASSUME ExecutorAssumption
    PROVE  Spec => [](ExecutorInv /\ OneWakePerSleep)
<1> DEFINE All == HandInv /\ AllHeld /\ SurplusInv /\ WakeInv
<1>1. Init => All
  BY ExecutorStarts
<1>2. All /\ [Next]_vars => All'
  <2> SUFFICES ASSUME All, [Next]_vars PROVE All'
    OBVIOUS
  <2>1. CASE Next
    BY <2>1, HandKeeps, HeldKeeps, SurplusKeeps, ExecutorWakes DEF HandInv
  <2>2. CASE UNCHANGED vars
    <3>1. UNCHANGED <<signalVars, pc, spawn_queue, task_queue, tasks, value, permits, fifo, hand, again>>
      BY <2>2 DEF vars, queueVars, semVars, signalVars
    <3>2. HandInv'
      BY <3>1 DEF HandInv, ExTypes, Places, HandsFull, PollsOwn
    <3>3. AllHeld'
      BY <3>1 DEF AllHeld, Held, Sq, Tq, Fq, Hn, HandsOf
    <3>4. SurplusInv'
      BY <3>1 DEF SurplusInv, Surplus, Incs, HandsOf
    <3>5. QED
      BY <3>1, <3>2, <3>3, <3>4, ObjectRests
  <2>3. QED
    BY <2>1, <2>2
<1>3. All => ExecutorInv /\ OneWakePerSleep
  <2> SUFFICES ASSUME All PROVE ExecutorInv /\ OneWakePerSleep
    OBVIOUS
  <2>1. TypeOK
    BY DEF HandInv, ExTypes, WakeInv, TypeOK, SignalTypeOK, ExPC
  <2>2. TaskHeldOnce /\ NothingStranded
    BY HeldOnce, SurplusServes DEF HandInv
  <2>3. QED
    BY <2>1, <2>2, WakesBalance DEF ExecutorInv
<1>4. QED
  BY <1>1, <1>2, <1>3, PTL DEF Spec
=============================================================================
