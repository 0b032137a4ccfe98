---------------------------- MODULE SignalProofs ----------------------------
(***************************************************************************)
(* What every user of a SignallingObject keeps, whatever it waits for and  *)
(* however many threads use it.  The lemmas are about the steps of the     *)
(* object; the proofs of Mutex, RwLock, Semaphore and Executor cite one of *)
(* them for each of their actions.                                         *)
(***************************************************************************)
EXTENDS SignallingObject, FiniteSetTheorems, TLAPS

\* A handle is in a hand exactly while its owner is about to wake, ...
HandsWake == \A u \in Thread : taken[u] # NoThread <=> pc[u] = "wake"

\* ... in one hand at most, and not in the slot as well.
OneHandle ==
    /\ \A u, v \in Thread : taken[u] = taken[v] /\ taken[u] # NoThread => u = v
    /\ \A u \in Thread : taken[u] # NoThread => taken[u] # slot

\* Somebody has, or will get, the handle of t.
Due(t) == slot = t \/ \E u \in Thread : taken[u] = t

\* It belongs to a thread that sleeps or is about to.
DueSleep == \A t \in Thread : Due(t) => pc[t] \in {"sleep", "asleep"}

\* The counter of a thread that nobody will wake has already had its wake.
Counters == \A t \in Thread :
    counter[t] = (IF pc[t] = "asleep" THEN 1 ELSE 0)
                   - (IF pc[t] \in {"sleep", "asleep"} /\ ~Due(t) THEN 1 ELSE 0)

WakeInv ==
    /\ slot \in Thread \cup {NoThread}
    /\ counter \in [Thread -> -1 .. 1]
    /\ taken \in [Thread -> Thread \cup {NoThread}]
    /\ HandsWake /\ OneHandle /\ DueSleep /\ Counters

-----------------------------------------------------------------------------
\* The places in the protocol that WakeInv speaks of.
SignalPlaces == {"sleep", "asleep", "wake"}

\* A step that touches neither the object nor these places.
LEMMA Elsewhere ==
    ASSUME WakeInv, NEW P, pc \in [Thread -> P], NEW t \in Thread,
           NEW to, pc' = [pc EXCEPT ![t] = to],
           pc[t] \notin SignalPlaces, to \notin SignalPlaces,
           UNCHANGED <<slot, counter, taken>>
    PROVE  WakeInv'
<1>1. \A u \in Thread : \A x \in SignalPlaces : pc'[u] = x <=> pc[u] = x
  OBVIOUS
<1>2. \A u \in Thread : Due(u)' <=> Due(u)
  BY DEF Due
<1>3. HandsWake' /\ OneHandle'
  BY <1>1 DEF WakeInv, HandsWake, OneHandle, SignalPlaces
<1>4. DueSleep' /\ Counters'
  BY <1>1, <1>2 DEF WakeInv, DueSleep, Counters, SignalPlaces
<1>5. QED
  BY <1>3, <1>4 DEF WakeInv

\* Nothing of the object changes.
LEMMA ObjectRests ==
    ASSUME WakeInv, UNCHANGED signalVars
    PROVE  WakeInv'
BY DEF WakeInv, signalVars, HandsWake, OneHandle, DueSleep, Counters, Due

LEMMA TriedKeeps ==
    ASSUME WakeInv, NEW P, pc \in [Thread -> P], NEW t \in Thread,
           NEW ok \in BOOLEAN, NEW held, held \notin SignalPlaces,
           Tried(t, ok, held), UNCHANGED <<slot, counter, taken>>
    PROVE  WakeInv'
<1>1. PICK to : /\ pc' = [pc EXCEPT ![t] = to] /\ pc[t] \in {"try", "retry"}
                /\ to \in {held, "reg", "try"}
  BY DEF Tried, Goto
<1>2. QED
  BY <1>1, Elsewhere DEF SignalPlaces

LEMMA RegisterKeeps ==
    ASSUME WakeInv, NEW P, pc \in [Thread -> P], NEW t \in Thread, Register(t)
    PROVE  WakeInv'
<1> USE SignalAssumption
<1>1. CASE slot # NoThread
  BY <1>1, Elsewhere DEF Register, Goto, SignalPlaces
<1>2. CASE slot = NoThread
  <2>1. /\ slot' = t /\ pc[t] = "reg" /\ pc' = [pc EXCEPT ![t] = "sleep"]
        /\ counter' = counter /\ taken' = taken
    BY <1>2 DEF Register, Goto
  <2>2. ~Due(t) /\ counter[t] = 0
    BY <2>1 DEF WakeInv, DueSleep, Counters
  <2>3. \A u \in Thread : taken[u] # t
    BY <2>2 DEF Due
  <2>4. \A u \in Thread : Due(u)' <=> (u = t \/ Due(u))
    BY <1>2, <2>1 DEF Due
  <2>5. HandsWake'
    BY <2>1 DEF WakeInv, HandsWake
  <2>6. OneHandle'
    BY <2>1, <2>3 DEF WakeInv, OneHandle
  <2>7. DueSleep'
    BY <2>1, <2>4 DEF WakeInv, DueSleep
  <2>8. Counters'
    BY <2>1, <2>2, <2>4 DEF WakeInv, Counters
  <2>9. QED
    BY <2>1, <2>5, <2>6, <2>7, <2>8 DEF WakeInv
<1>3. QED
  BY <1>1, <1>2

LEMMA TimerEndsKeeps ==
    ASSUME WakeInv, NEW P, pc \in [Thread -> P], NEW t \in Thread, TimerEnds(t)
    PROVE  WakeInv'
BY Elsewhere DEF TimerEnds, Goto, SignalPlaces

\* The counter goes up as the thread falls asleep, and stays at 0 if the wake
\* was there first.
LEMMA SleepThreadKeeps ==
    ASSUME WakeInv, NEW P, pc \in [Thread -> P], NEW t \in Thread, SleepThread(t)
    PROVE  WakeInv'
<1>1. /\ pc[t] = "sleep" /\ pc' = [pc EXCEPT ![t] = "asleep"]
      /\ counter' = [counter EXCEPT ![t] = @ + 1] /\ slot' = slot /\ taken' = taken
  BY DEF SleepThread, Goto
<1>2. \A u \in Thread : Due(u)' <=> Due(u)
  BY <1>1 DEF Due
<1>3. counter[t] = 0 - (IF Due(t) THEN 0 ELSE 1)
  BY <1>1 DEF WakeInv, Counters
<1>4. HandsWake' /\ OneHandle'
  BY <1>1 DEF WakeInv, HandsWake, OneHandle
<1>5. DueSleep'
  BY <1>1, <1>2 DEF WakeInv, DueSleep
<1>6. Counters'
  BY <1>1, <1>2, <1>3 DEF WakeInv, Counters
<1>7. counter' \in [Thread -> -1 .. 1]
  BY <1>1, <1>3 DEF WakeInv
<1>8. QED
  BY <1>1, <1>4, <1>5, <1>6, <1>7 DEF WakeInv

\* A thread that goes on has had its wake.
LEMMA WokenKeeps ==
    ASSUME WakeInv, NEW P, pc \in [Thread -> P], NEW t \in Thread, Woken(t)
    PROVE  WakeInv'
<1>1. /\ pc[t] = "asleep" /\ pc' = [pc EXCEPT ![t] = "retry"] /\ counter[t] <= 0
      /\ counter' = counter /\ slot' = slot /\ taken' = taken
  BY DEF Woken, Goto
<1>2. \A u \in Thread : Due(u)' <=> Due(u)
  BY <1>1 DEF Due
<1>3. ~Due(t) /\ counter[t] = 0
  BY <1>1 DEF WakeInv, Counters
<1>4. HandsWake' /\ OneHandle'
  BY <1>1 DEF WakeInv, HandsWake, OneHandle
<1>5. DueSleep'
  BY <1>1, <1>2, <1>3 DEF WakeInv, DueSleep
<1>6. Counters'
  BY <1>1, <1>2, <1>3 DEF WakeInv, Counters
<1>7. QED
  BY <1>1, <1>4, <1>5, <1>6 DEF WakeInv

\* The handle goes from the slot into the hand, if there is one.
LEMMA TakeKeeps ==
    ASSUME WakeInv, NEW P, pc \in [Thread -> P], NEW t \in Thread,
           NEW next, next \notin SignalPlaces, Take(t, next)
    PROVE  WakeInv'
<1> USE SignalAssumption
<1>1. /\ pc[t] = "take" /\ pc' = [pc EXCEPT ![t] = IF slot = NoThread THEN next ELSE "wake"]
      /\ taken' = [taken EXCEPT ![t] = slot] /\ slot' = NoThread /\ counter' = counter
  BY DEF Take, Goto
<1>2. taken[t] = NoThread
  BY <1>1 DEF WakeInv, HandsWake
<1>3. taken' \in [Thread -> Thread \cup {NoThread}]
  BY <1>1 DEF WakeInv
<1>4. \A u \in Thread : Due(u)' <=> Due(u)
  BY <1>1, <1>2 DEF Due, WakeInv
<1>5. \A u \in Thread : pc'[u] \in {"sleep", "asleep"} <=> pc[u] \in {"sleep", "asleep"}
  BY <1>1 DEF SignalPlaces
<1>6. \A u \in Thread : pc'[u] = "asleep" <=> pc[u] = "asleep"
  BY <1>1 DEF SignalPlaces
<1>7. HandsWake'
  BY <1>1 DEF WakeInv, HandsWake, SignalPlaces
<1>8. OneHandle'
  BY <1>1, <1>2 DEF WakeInv, OneHandle
<1>9. DueSleep' /\ Counters'
  BY <1>1, <1>4, <1>5, <1>6 DEF WakeInv, DueSleep, Counters
<1>10. QED
  BY <1>1, <1>3, <1>7, <1>8, <1>9 DEF WakeInv

\* The only handle of a sleeper is used up.
LEMMA WakeKeeps ==
    ASSUME WakeInv, NEW P, pc \in [Thread -> P], NEW t \in Thread,
           NEW next, next \notin SignalPlaces, Wake(t, next)
    PROVE  WakeInv'
<1> USE SignalAssumption
<1>1. /\ pc[t] = "wake" /\ pc' = [pc EXCEPT ![t] = next]
      /\ counter' = [counter EXCEPT ![taken[t]] = @ - 1]
      /\ taken' = [taken EXCEPT ![t] = NoThread] /\ slot' = slot
  BY DEF Wake, Goto
<1>2. PICK w \in Thread : taken[t] = w
  BY <1>1 DEF WakeInv, HandsWake
<1>3. w # slot /\ \A u \in Thread : taken[u] = w => u = t
  BY <1>2 DEF WakeInv, OneHandle
<1>4. Due(w) /\ ~Due(w)'
  BY <1>1, <1>2, <1>3 DEF Due, WakeInv
<1>5. \A u \in Thread : u # w => (Due(u)' <=> Due(u))
  BY <1>1, <1>2 DEF Due, WakeInv
<1>6. pc[w] \in {"sleep", "asleep"} /\ w # t
  BY <1>1, <1>4 DEF WakeInv, DueSleep
<1>7. \A u \in Thread : pc'[u] \in {"sleep", "asleep"} <=> pc[u] \in {"sleep", "asleep"}
  BY <1>1 DEF SignalPlaces
<1>8. \A u \in Thread : pc'[u] = "asleep" <=> pc[u] = "asleep"
  BY <1>1 DEF SignalPlaces
<1>9. counter[w] = IF pc[w] = "asleep" THEN 1 ELSE 0
  BY <1>4 DEF WakeInv, Counters
<1>10. counter' \in [Thread -> -1 .. 1]
  BY <1>1, <1>2, <1>9 DEF WakeInv
<1>11. HandsWake' /\ OneHandle'
  BY <1>1 DEF WakeInv, HandsWake, OneHandle, SignalPlaces
<1>12. DueSleep'
  BY <1>1, <1>4, <1>5, <1>7 DEF WakeInv, DueSleep
<1>13. Counters'
  <2> SUFFICES ASSUME NEW u \in Thread
      PROVE counter'[u] = (IF pc'[u] = "asleep" THEN 1 ELSE 0)
                   - (IF pc'[u] \in {"sleep", "asleep"} /\ ~Due(u)' THEN 1 ELSE 0)
    BY DEF Counters, Due
  <2>1. CASE u = w
    BY <1>1, <1>2, <1>4, <1>6, <1>7, <1>8, <1>9, <2>1 DEF WakeInv
  <2>2. CASE u # w
    BY <1>1, <1>2, <1>5, <1>7, <1>8, <2>2 DEF WakeInv, Counters
  <2>3. QED
    BY <2>1, <2>2
<1>14. taken' \in [Thread -> Thread \cup {NoThread}]
  BY <1>1 DEF WakeInv
<1>15. QED
  BY <1>1, <1>10, <1>11, <1>12, <1>13, <1>14 DEF WakeInv

LEMMA WaitStepKeeps ==
    ASSUME WakeInv, NEW P, pc \in [Thread -> P], NEW t \in Thread, WaitStep(t)
    PROVE  WakeInv'
BY RegisterKeeps, TimerEndsKeeps, SleepThreadKeeps, WokenKeeps DEF WaitStep

-----------------------------------------------------------------------------
LEMMA SignalStarts ==
    ASSUME NEW startPC, startPC \notin SignalPlaces, SignalInit(startPC)
    PROVE  WakeInv
<1> USE SignalAssumption
<1>1. \A t \in Thread : ~Due(t)
  BY DEF SignalInit, Due
<1>2. QED
  BY <1>1 DEF SignalInit, WakeInv, HandsWake, OneHandle, DueSleep, Counters, SignalPlaces

\* A set of wakers with at most one member is counted by hand.
LEMMA WakersCount ==
    ASSUME WakeInv, NEW t \in Thread
    PROVE  /\ Owed(t) <=> Due(t)
           /\ slot = t => Cardinality(Wakers(t)) = 0
           /\ Due(t) /\ slot # t => Cardinality(Wakers(t)) = 1
<1> USE SignalAssumption
<1>1. Owed(t) <=> Due(t)
  BY DEF Owed, Due, Wakers
<1>2. ASSUME slot = t PROVE Cardinality(Wakers(t)) = 0
  <2>1. Wakers(t) = {}
    BY <1>2 DEF WakeInv, OneHandle, Wakers
  <2>2. QED
    BY <2>1, FS_EmptySet
<1>3. ASSUME Due(t), slot # t PROVE Cardinality(Wakers(t)) = 1
  <2>1. PICK u \in Thread : taken[u] = t
    BY <1>3 DEF Due
  <2>2. Wakers(t) = {u}
    BY <2>1 DEF WakeInv, OneHandle, Wakers
  <2>3. QED
    BY <2>2, FS_Singleton
<1>4. QED
  BY <1>1, <1>2, <1>3

LEMMA WakesBalance == WakeInv => OneWakePerSleep
<1> SUFFICES ASSUME WakeInv, NEW t \in Thread
    PROVE /\ Owed(t) => /\ pc[t] \in {"sleep", "asleep"}
                        /\ Cardinality(Wakers(t)) = IF slot = t THEN 0 ELSE 1
          /\ counter[t] = (IF pc[t] = "asleep" THEN 1 ELSE 0)
                      - (IF pc[t] \in {"sleep", "asleep"} /\ ~Owed(t) THEN 1 ELSE 0)
  BY DEF OneWakePerSleep
<1>1. Owed(t) => pc[t] \in {"sleep", "asleep"}
  BY WakersCount DEF WakeInv, DueSleep
<1>2. Owed(t) => Cardinality(Wakers(t)) = IF slot = t THEN 0 ELSE 1
  BY WakersCount
<1>3. counter[t] = (IF pc[t] = "asleep" THEN 1 ELSE 0)
                     - (IF pc[t] \in {"sleep", "asleep"} /\ ~Owed(t) THEN 1 ELSE 0)
  BY WakersCount DEF WakeInv, Counters
<1>4. QED
  BY <1>1, <1>2, <1>3
=============================================================================
