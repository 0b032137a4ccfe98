---------------------------- MODULE KernelProofs ----------------------------
(***************************************************************************)
(* Proofs about modules Mutex, Timers, Processes and Spinlock, for any     *)
(* number of threads, of those who join them and of processors.            *)
(***************************************************************************)
EXTENDS Mutex, Timers, Processes, Spinlock, SignalProofs, SequenceTheorems

PrStage == {"none", "run", "stored", "exit", "signalled", "last", "remove", "removing",
            "left", "zombie", "gone"}
Closing == {"last", "remove", "removing"}
Left == Closing \cup {"left", "zombie", "gone"}

PrTypes ==
    /\ prPlan \in [PrJoiner -> PrThread \cup {PrProcess}]
    /\ prPc \in [PrThread -> PrStage]
    /\ prHere \in BOOLEAN
    /\ prWriter \in PrThread \cup {NoOne}
    /\ prSem \in [PrThread \cup {PrProcess} -> Nat]
    /\ prJoin \in [PrJoiner -> {"start", "wait", "joined", "done"}]
    /\ prStat \in {"idle", "look", "hung", "panic"}
    /\ prTodo \subseteq PrThread

\* Every thread was spawned by another of the process, the first one apart.
FirstIsFirst == prPc[PrFirst] = "none" => \A c \in PrThread : prPc[c] = "none"

\* Who writes to the process pool is adding the process or removing it.
WriterIs ==
    /\ prWriter # NoOne =>
          \/ prPc[prWriter] = "removing"
          \/ prWriter = PrFirst /\ prPc[PrFirst] = "none" /\ ~prHere
    /\ \A c \in PrThread : prPc[c] = "removing" => prWriter = c

\* One thread closes the process, when all have left it, and the process
\* waits for it.
OneCloses == \A c \in PrThread : prPc[c] \in Closing =>
    Living = {} /\ prHere /\ \A d \in PrThread : prPc[d] \in Closing => d = c

\* The result is there before the box is dropped, and that before the signal.
ResultFirst == \A c \in PrThread :
    /\ prPc[c] \notin {"none", "run"} => c \in prResult
    /\ prPc[c] \notin {"none", "run", "stored"} => c \notin prShared

Signalled(c) == prPc[c] \in Left \cup {"signalled"}
Over == Living = {} /\ prPc[PrFirst] # "none"

\* A permit has been given by a thread that has come as far as that.
PermitsMean == /\ \A c \in PrThread : prSem[c] > 0 => Signalled(c)
               /\ prSem[PrProcess] > 0 => Over

JoinsMean == \A j \in PrJoiner : prJoin[j] \in {"joined", "done"} =>
    IF prPlan[j] = PrProcess THEN Over ELSE Signalled(prPlan[j])

\* The statistics look at threads that cannot be retired meanwhile.
StatMeans == prStat = "look" => \A c \in prTodo : Pooled(c)

ProcessI == /\ PrTypes /\ FirstIsFirst /\ WriterIs /\ OneCloses /\ ResultFirst
            /\ PermitsMean /\ JoinsMean /\ StatMeans /\ ProcessOutlives /\ StatStops

-----------------------------------------------------------------------------
LivingPc == {"run", "stored", "exit", "signalled"}

(* A thread that moves leaves the others where they are, and whether it is  *)
(* one of those that have not left is all that becomes of their number.     *)
LEMMA ThreadMoves ==
    ASSUME PrTypes, NEW c \in PrThread, NEW from, NEW to, PrGo(c, from, to)
    PROVE  /\ prPc[c] = from /\ prPc'[c] = to
           /\ \A d \in PrThread : d # c => prPc'[d] = prPc[d]
           /\ to \in PrStage => prPc' \in [PrThread -> PrStage]
           /\ (from \in LivingPc <=> to \in LivingPc) => Living' = Living
BY DEF PrTypes, PrGo, Living, LivingPc

LEMMA LivingIsFinite == IsFiniteSet(Living) /\ Cardinality(Living) \in Nat
<1>1. IsFiniteSet(PrThread) /\ Living \subseteq PrThread
  BY ProcessesAssumption DEF Living
<1> QED BY <1>1, FS_Subset, FS_CardinalityType

(* Steps in which no thread moves and the process stays as it is. *)
LEMMA ThreadsRest ==
    ASSUME ProcessI, UNCHANGED <<prPc, prHere, prCount, prWriter, prResult, prShared>>
    PROVE  /\ FirstIsFirst' /\ WriterIs' /\ OneCloses' /\ ResultFirst' /\ ProcessOutlives'
           /\ Living' = Living /\ (Over' <=> Over)
           /\ \A c \in PrThread : (Signalled(c)' <=> Signalled(c)) /\ (Pooled(c)' <=> Pooled(c))
<1>1. Living' = Living
  BY DEF Living
<1>2. FirstIsFirst' /\ WriterIs' /\ ResultFirst'
  BY DEF ProcessI, FirstIsFirst, WriterIs, ResultFirst
<1>3. OneCloses' /\ ProcessOutlives'
  BY <1>1 DEF ProcessI, OneCloses, ProcessOutlives
<1> QED BY <1>1, <1>2, <1>3 DEF Over, Signalled, Pooled

LEMMA JoinKeeps ==
    ASSUME ProcessI, NEW j \in PrJoiner, PrJoinStep(j)
    PROVE  ProcessI'
<1>0. PrTypes
  BY DEF ProcessI
<1>1. UNCHANGED <<prPlan, prPc, prHere, prCount, prWriter, prResult, prShared, prStat, prTodo, prRound>>
  BY DEF PrJoinStep, Looks, Joins, Unwraps
<1>2. /\ FirstIsFirst' /\ WriterIs' /\ OneCloses' /\ ResultFirst' /\ ProcessOutlives'
      /\ Living' = Living /\ (Over' <=> Over)
      /\ \A c \in PrThread : (Signalled(c)' <=> Signalled(c)) /\ (Pooled(c)' <=> Pooled(c))
  BY <1>1, ThreadsRest
<1>3. StatMeans' /\ StatStops'
  BY <1>0, <1>1, <1>2 DEF ProcessI, PrTypes, StatMeans, StatStops
<1>4. PICK t \in PrThread \cup {PrProcess} : t = prPlan[j]
  BY <1>0 DEF PrTypes
<1>5. PrTypes'
  BY <1>0, <1>1, <1>4 DEF PrTypes, PrJoinStep, Looks, Joins, Unwraps, JoinGo
<1>6. \A s \in PrThread \cup {PrProcess} : prSem'[s] > 0 => prSem[s] > 0
  BY <1>0, <1>4 DEF PrTypes, PrJoinStep, Looks, Joins, Unwraps
<1>7. PermitsMean'
  BY <1>2, <1>6 DEF ProcessI, PermitsMean
<1>8. /\ \A k \in PrJoiner : k # j => prJoin'[k] = prJoin[k]
      /\ prJoin'[j] \in {"joined", "done"} =>
            IF t = PrProcess THEN Over ELSE Signalled(t)
  <2>1. \A k \in PrJoiner : k # j => prJoin'[k] = prJoin[k]
    BY <1>0 DEF PrTypes, PrJoinStep, Looks, Joins, Unwraps, JoinGo
  <2>2. CASE Looks(j)
    <3>1. prJoin'[j] = IF Known(t) THEN "wait" ELSE "joined"
      BY <1>0, <1>4, <2>2 DEF PrTypes, Looks, JoinGo
    <3>2. prPc[PrFirst] # "none" /\ (t # PrProcess => prPc[t] # "none")
      BY <1>4, <2>2 DEF Looks
    <3>3. t = PrProcess /\ ~Known(t) => Over
      BY <3>2 DEF Known, ProcessI, ProcessOutlives, Over
    <3>4. t # PrProcess /\ ~Known(t) => Signalled(t)
      BY <3>2 DEF Known, Pooled, Signalled, Left, Closing
    <3> QED BY <2>1, <3>1, <3>3, <3>4
  <2>3. CASE Joins(j)
    BY <1>4, <2>1, <2>3 DEF Joins, ProcessI, PermitsMean
  <2>4. CASE Unwraps(j)
    BY <1>4, <2>1, <2>4 DEF Unwraps, JoinGo, ProcessI, JoinsMean
  <2> QED BY <2>2, <2>3, <2>4 DEF PrJoinStep
<1>9. JoinsMean'
  <2> SUFFICES ASSUME NEW k \in PrJoiner, prJoin'[k] \in {"joined", "done"}
               PROVE  IF prPlan[k] = PrProcess THEN Over' ELSE Signalled(prPlan[k])'
    BY <1>1 DEF JoinsMean, Signalled
  <2>1. IF prPlan[k] = PrProcess THEN Over ELSE Signalled(prPlan[k])
    BY <1>4, <1>8 DEF ProcessI, JoinsMean
  <2>2. prPlan[k] # PrProcess => prPlan[k] \in PrThread
    BY <1>0 DEF PrTypes
  <2> QED BY <1>1, <1>2, <2>1, <2>2 DEF Signalled
<1> QED BY <1>2, <1>3, <1>5, <1>7, <1>9 DEF ProcessI

LEMMA StatKeeps ==
    ASSUME ProcessI, StatStep
    PROVE  ProcessI'
<1>0. PrTypes
  BY DEF ProcessI
<1>1. UNCHANGED <<prPlan, prPc, prHere, prCount, prWriter, prResult, prShared, prSem, prJoin>>
  BY DEF StatStep, StatBegins, StatLooks, StatEnds
<1>2. /\ FirstIsFirst' /\ WriterIs' /\ OneCloses' /\ ResultFirst' /\ ProcessOutlives'
      /\ Living' = Living /\ (Over' <=> Over)
      /\ \A c \in PrThread : (Signalled(c)' <=> Signalled(c)) /\ (Pooled(c)' <=> Pooled(c))
  BY <1>1, ThreadsRest
<1>3. PrTypes'
  BY <1>0, <1>1 DEF PrTypes, StatStep, StatBegins, StatLooks, StatEnds
<1>4. PermitsMean' /\ JoinsMean'
  <2>1. PermitsMean'
    BY <1>1, <1>2 DEF ProcessI, PermitsMean
  <2>2. JoinsMean'
    BY <1>0, <1>1, <1>2 DEF ProcessI, PrTypes, JoinsMean, Signalled
  <2> QED BY <2>1, <2>2
<1>5. StatMeans' /\ StatStops'
  <2>1. CASE StatBegins
    BY <1>2, <2>1 DEF StatBegins, StatMeans, StatStops
  <2>2. CASE StatEnds
    BY <2>2 DEF StatEnds, StatMeans, StatStops
  <2>3. ASSUME NEW c \in PrThread, StatLooks(c) PROVE StatMeans' /\ StatStops'
    <3>1. /\ c \in prTodo /\ prTodo' = prTodo \ {c} /\ Pooled(c)
          /\ prStat' = (IF prWriter # NoOne THEN "hung" ELSE IF prHere THEN "look" ELSE "panic")
      BY <2>3 DEF StatLooks, ProcessI, StatMeans
    <3>2. StatMeans'
      BY <1>0, <1>2, <2>3, <3>1 DEF StatLooks, ProcessI, PrTypes, StatMeans
    <3>3. prWriter # NoOne => Living = {}
      <4>1. prPc[PrFirst] # "none"
        BY <3>1 DEF ProcessI, FirstIsFirst, Pooled
      <4> QED BY <1>0, <4>1 DEF ProcessI, PrTypes, WriterIs, OneCloses, Closing
    <3>4. prStat' \in {"hung", "panic"} => Living = {}
      BY <1>0, <3>1, <3>3 DEF ProcessI, PrTypes, ProcessOutlives
    <3> QED BY <1>2, <3>1, <3>2, <3>4 DEF StatStops
  <2> QED BY <2>1, <2>2, <2>3 DEF StatStep
<1> QED BY <1>2, <1>3, <1>4, <1>5 DEF ProcessI

(* The process is put into the pool before any of its threads is. *)
LEMMA AddKeeps ==
    ASSUME ProcessI, LockPool \/ AddProcess
    PROVE  ProcessI'
<1>0. PrTypes /\ PrFirst \in PrThread /\ NoOne \notin PrThread
  BY ProcessesAssumption DEF ProcessI
<1>1. /\ UNCHANGED <<prPlan, prPc, prCount, prResult, prShared, prSem, prJoin, prStat, prTodo, prRound>>
      /\ \A c \in PrThread : prPc[c] = "none"
  BY DEF LockPool, AddProcess, ProcessI, FirstIsFirst
<1>2. Living = {} /\ Living' = {}
  BY <1>1 DEF Living
<1>3. WriterIs' /\ prHere' \in BOOLEAN /\ prWriter' \in PrThread \cup {NoOne}
  <2>1. CASE LockPool
    BY <1>0, <1>1, <2>1 DEF LockPool, WriterIs, PrTypes
  <2>2. CASE AddProcess
    BY <1>0, <1>1, <2>2 DEF AddProcess, WriterIs
  <2> QED BY <2>1, <2>2
<1>4. PrTypes' /\ FirstIsFirst' /\ OneCloses' /\ ResultFirst'
  BY <1>0, <1>1, <1>3 DEF PrTypes, FirstIsFirst, OneCloses, ResultFirst, Closing, ProcessI
<1>5. \A c \in PrThread : (Signalled(c)' <=> Signalled(c)) /\ (Pooled(c)' <=> Pooled(c))
  BY <1>1 DEF Signalled, Pooled
<1>6. Over' <=> Over
  BY <1>1, <1>2 DEF Over
<1>7. PermitsMean'
  BY <1>1, <1>5, <1>6 DEF ProcessI, PermitsMean
<1>8. JoinsMean'
  BY <1>0, <1>1, <1>5, <1>6 DEF ProcessI, PrTypes, JoinsMean, Signalled
<1>9. StatMeans' /\ StatStops' /\ ProcessOutlives'
  BY <1>0, <1>1, <1>2, <1>5 DEF ProcessI, PrTypes, StatMeans, StatStops, ProcessOutlives
<1> QED BY <1>3, <1>4, <1>7, <1>8, <1>9 DEF ProcessI

(* Nobody spawns a thread of a process that all threads have left. *)
LEMMA SpawnKeeps ==
    ASSUME ProcessI, NEW c \in PrThread, Spawn(c)
    PROVE  ProcessI'
<1>0. PrTypes /\ PrFirst \in PrThread /\ NoOne \notin PrThread
  BY ProcessesAssumption DEF ProcessI
<1>1. /\ UNCHANGED <<prPlan, prHere, prWriter, prResult, prSem, prJoin, prStat, prTodo, prRound>>
      /\ prStat = "idle" /\ prHere /\ prWriter = NoOne
      /\ prCount' = prCount + 1 /\ prShared' = prShared \cup {c}
  BY <1>0 DEF Spawn, Unlocked, PrTypes
<1>2. /\ prPc[c] = "none" /\ prPc'[c] = "run"
      /\ \A d \in PrThread : d # c => prPc'[d] = prPc[d]
      /\ prPc' \in [PrThread -> PrStage]
  BY <1>0, ThreadMoves DEF Spawn, PrStage
<1>3. ~Over /\ prPc'[PrFirst] # "none"
  <2>1. CASE c = PrFirst
    BY <1>2, <2>1 DEF Over
  <2>2. CASE c # PrFirst
    <3>1. PICK d \in PrThread : prPc[d] = "run"
      BY <2>2 DEF Spawn
    <3>2. prPc[PrFirst] # "none" /\ d \in Living
      BY <3>1 DEF ProcessI, FirstIsFirst, Living
    <3> QED BY <1>0, <1>2, <2>2, <3>2 DEF Over
  <2> QED BY <2>1, <2>2
<1>4. \A d \in PrThread : prPc[d] \notin Closing
  BY <1>3 DEF ProcessI, OneCloses, Over, FirstIsFirst, Closing
<1>5. Living' = Living \cup {c} /\ c \notin Living
  BY <1>2 DEF Living
<1>6. ProcessOutlives'
  <2>1. Cardinality(Living') = Cardinality(Living) + 1
    BY <1>5, LivingIsFinite, FS_AddElement
  <2> QED BY <1>1, <2>1 DEF ProcessI, ProcessOutlives
<1>7. PrTypes' /\ FirstIsFirst' /\ StatMeans' /\ StatStops'
  <2>1. PrTypes'
    BY <1>0, <1>1, <1>2 DEF PrTypes
  <2> QED BY <1>1, <1>3, <2>1 DEF FirstIsFirst, StatMeans, StatStops
<1>8. WriterIs' /\ OneCloses'
  BY <1>1, <1>2, <1>4 DEF WriterIs, OneCloses, Closing
<1>9. ResultFirst'
  BY <1>1, <1>2 DEF ResultFirst, ProcessI
<1>10. \A d \in PrThread : Signalled(d) => Signalled(d)'
  BY <1>2 DEF Signalled, Left, Closing
<1>11. PermitsMean'
  BY <1>1, <1>3, <1>10 DEF ProcessI, PermitsMean
<1>12. JoinsMean'
  BY <1>0, <1>1, <1>3, <1>10 DEF ProcessI, PrTypes, JoinsMean, Signalled
<1> QED BY <1>6, <1>7, <1>8, <1>9, <1>11, <1>12 DEF ProcessI

(* What every step of a thread leaves true: threads only go on. *)
LEMMA ThreadsGoOn ==
    ASSUME ProcessI, NEW c \in PrThread, PrThreadStep(c)
    PROVE  /\ UNCHANGED <<prPlan, prJoin, prStat, prTodo>>
           /\ prPc' \in [PrThread -> PrStage]
           /\ \A d \in PrThread : d # c => prPc'[d] = prPc[d]
           /\ Living' \subseteq Living
           /\ \A d \in PrThread : Signalled(d) => Signalled(d)'
           /\ Over => Over'
           /\ FirstIsFirst' /\ JoinsMean' /\ StatMeans' /\ StatStops'
<1>0. PrTypes
  BY DEF ProcessI
<1>1. UNCHANGED <<prPlan, prJoin, prStat, prTodo>>
  BY DEF PrThreadStep, Stores, Drops, Signals, Leaves, Ends, LocksPool, RemovesProcess, Zombie, Retire
<1>2. PICK from \in PrStage \ {"none"}, to \in PrStage \ {"none"} :
         /\ PrGo(c, from, to)
         /\ to \in LivingPc => from \in LivingPc
         /\ from \in Left \cup {"signalled"} => to \in Left \cup {"signalled"}
         /\ to = "gone" => prStat = "idle"
  BY <1>0 DEF PrThreadStep, Stores, Drops, Signals, Leaves, Ends, LocksPool, RemovesProcess,
     Zombie, Retire, PrStage, LivingPc, Left, Closing, Unlocked, PrTypes
<1>3. /\ prPc[c] = from /\ prPc'[c] = to
      /\ \A d \in PrThread : d # c => prPc'[d] = prPc[d]
      /\ prPc' \in [PrThread -> PrStage]
  BY <1>0, <1>2, ThreadMoves
<1>4. Living' \subseteq Living
  BY <1>2, <1>3 DEF Living, LivingPc
<1>5. \A d \in PrThread : Signalled(d) => Signalled(d)'
  BY <1>2, <1>3 DEF Signalled
<1>6. \A d \in PrThread : prPc'[d] = "none" <=> prPc[d] = "none"
  BY <1>2, <1>3
<1>7. FirstIsFirst' /\ (Over => Over')
  BY <1>4, <1>6, ProcessesAssumption DEF ProcessI, FirstIsFirst, Over
<1>8. JoinsMean'
  BY <1>0, <1>1, <1>5, <1>7 DEF ProcessI, PrTypes, JoinsMean, Signalled
<1>9. prStat # "idle" => \A d \in PrThread : Pooled(d) => Pooled(d)'
  BY <1>2, <1>3 DEF Pooled
<1>10. StatMeans' /\ StatStops'
  BY <1>0, <1>1, <1>4, <1>9 DEF ProcessI, PrTypes, StatMeans, StatStops
<1> QED BY <1>1, <1>3, <1>4, <1>5, <1>7, <1>8, <1>10

LEMMA ThreadKeeps ==
    ASSUME ProcessI, NEW c \in PrThread, PrThreadStep(c)
    PROVE  ProcessI'
<1>0. /\ PrTypes /\ PrFirst \in PrThread /\ NoOne \notin PrThread /\ PrProcess \notin PrThread
      /\ FirstIsFirst /\ WriterIs /\ OneCloses /\ ResultFirst /\ PermitsMean /\ ProcessOutlives
  BY ProcessesAssumption DEF ProcessI
<1>1. /\ UNCHANGED <<prPlan, prJoin, prStat, prTodo>>
      /\ prPc' \in [PrThread -> PrStage]
      /\ \A d \in PrThread : d # c => prPc'[d] = prPc[d]
      /\ Living' \subseteq Living
      /\ \A d \in PrThread : Signalled(d) => Signalled(d)'
      /\ Over => Over'
      /\ FirstIsFirst' /\ JoinsMean' /\ StatMeans' /\ StatStops'
  BY ThreadsGoOn
<1>2. ASSUME PrTypes', WriterIs', OneCloses', ResultFirst', PermitsMean', ProcessOutlives'
      PROVE  ProcessI'
  BY <1>1, <1>2 DEF ProcessI
\* As long as the process is left alone.
<1>3. ASSUME UNCHANGED <<prHere, prCount, prWriter>>, Living' = Living,
             prPc[c] # "removing", prPc'[c] # "removing",
             prPc[c] # "none", prPc'[c] \in Closing => prPc[c] \in Closing
      PROVE  WriterIs' /\ OneCloses' /\ ProcessOutlives'
  BY <1>0, <1>1, <1>3 DEF WriterIs, OneCloses, ProcessOutlives, PrTypes
<1>4. ASSUME UNCHANGED prSem PROVE PermitsMean'
  BY <1>0, <1>1, <1>4 DEF PermitsMean
<1>5. ASSUME UNCHANGED <<prResult, prShared>>, prPc[c] \notin {"none", "run", "stored"}
      PROVE  ResultFirst'
  BY <1>0, <1>1, <1>5 DEF ResultFirst
<1>6. CASE Stores(c)
  <2>1. /\ prPc[c] = "run" /\ prPc'[c] = "stored" /\ Living' = Living
        /\ prResult' = prResult \cup {c}
        /\ UNCHANGED <<prHere, prCount, prWriter, prShared, prSem>>
    BY <1>0, <1>6, ThreadMoves DEF Stores, LivingPc
  <2>2. ResultFirst' /\ PrTypes'
    BY <1>0, <1>1, <2>1 DEF ResultFirst, PrTypes
  <2> QED BY <1>2, <1>3, <1>4, <2>1, <2>2 DEF Closing
<1>7. CASE Drops(c)
  <2>1. /\ prPc[c] = "stored" /\ prPc'[c] = "exit" /\ Living' = Living
        /\ prShared' = prShared \ {c}
        /\ UNCHANGED <<prHere, prCount, prWriter, prResult, prSem>>
    BY <1>0, <1>7, ThreadMoves DEF Drops, LivingPc
  <2>2. ResultFirst' /\ PrTypes'
    BY <1>0, <1>1, <2>1 DEF ResultFirst, PrTypes
  <2> QED BY <1>2, <1>3, <1>4, <2>1, <2>2 DEF Closing
<1>8. CASE Signals(c)
  <2>1. /\ prPc[c] = "exit" /\ prPc'[c] = "signalled" /\ Living' = Living
        /\ prSem' = [prSem EXCEPT ![c] = @ + 1]
        /\ UNCHANGED <<prHere, prCount, prWriter, prResult, prShared>>
    BY <1>0, <1>8, ThreadMoves DEF Signals, LivingPc
  <2>2. PermitsMean' /\ PrTypes'
    BY <1>0, <1>1, <2>1 DEF PermitsMean, PrTypes, Signalled
  <2> QED BY <1>2, <1>3, <1>5, <2>1, <2>2 DEF Closing
<1>9. CASE Leaves(c)
  <2>1. /\ prHere /\ prWriter = NoOne /\ prCount' = prCount - 1
        /\ UNCHANGED <<prHere, prWriter, prResult, prShared, prSem>>
        /\ PrGo(c, "signalled", IF IsLast(prCount) THEN "last" ELSE "left")
    BY <1>9 DEF Leaves
  <2>2. prPc[c] = "signalled" /\ prPc'[c] = IF IsLast(prCount) THEN "last" ELSE "left"
    BY <1>0, <2>1, ThreadMoves
  <2>3. c \in Living /\ Living' = Living \ {c}
    BY <1>1, <2>2 DEF Living
  <2>4. /\ IsFiniteSet(Living) /\ Cardinality(Living) \in Nat
        /\ Cardinality(Living') = Cardinality(Living) - 1
        /\ IsFiniteSet(Living')
    BY <2>3, LivingIsFinite, FS_RemoveElement
  <2>5. ProcessOutlives'
    BY <1>0, <2>1, <2>3, <2>4 DEF ProcessOutlives
  <2>6. OneCloses'
    <3>1. \A d \in PrThread : d # c => prPc'[d] \notin Closing
      BY <1>0, <1>1, <2>3 DEF OneCloses
    <3>2. prPc'[c] \in Closing => Living' = {}
      <4>1. prPc'[c] \in Closing => prCount = 1
        BY <2>2 DEF Closing, IsLast
      <4>2. prCount = 1 => Cardinality(Living') = 0
        BY <1>0, <2>4 DEF ProcessOutlives
      <4> QED BY <2>4, <4>1, <4>2, FS_EmptySet
    <3> QED BY <2>1, <3>1, <3>2 DEF OneCloses
  <2>7. WriterIs' /\ PrTypes'
    BY <1>0, <1>1, <2>1, <2>2 DEF WriterIs, PrTypes
  <2> QED BY <1>2, <1>4, <1>5, <2>1, <2>2, <2>5, <2>6, <2>7
<1>10. CASE Ends(c)
  <2>1. /\ prPc[c] = "last" /\ prPc'[c] = "remove" /\ Living' = Living
        /\ prSem' = [prSem EXCEPT ![PrProcess] = @ + 1]
        /\ UNCHANGED <<prHere, prCount, prWriter, prResult, prShared>>
    BY <1>0, <1>10, ThreadMoves DEF Ends, LivingPc
  <2>2. Over
    BY <1>0, <2>1 DEF OneCloses, FirstIsFirst, Over, Closing
  <2>3. PermitsMean' /\ PrTypes'
    BY <1>0, <1>1, <2>1, <2>2 DEF PermitsMean, PrTypes
  <2> QED BY <1>2, <1>3, <1>5, <2>1, <2>3 DEF Closing
<1>11. CASE LocksPool(c)
  <2>1. /\ prPc[c] = "remove" /\ prPc'[c] = "removing" /\ Living' = Living
        /\ prWriter = NoOne /\ prWriter' = c
        /\ UNCHANGED <<prHere, prCount, prSem, prResult, prShared>>
    BY <1>0, <1>11, ThreadMoves DEF LocksPool, LivingPc
  <2>2. WriterIs' /\ OneCloses' /\ ProcessOutlives' /\ PrTypes'
    <3>1. WriterIs' /\ ProcessOutlives' /\ PrTypes'
      BY <1>0, <1>1, <2>1 DEF WriterIs, ProcessOutlives, PrTypes
    <3>2. OneCloses'
      BY <1>0, <1>1, <2>1 DEF OneCloses, Closing
    <3> QED BY <3>1, <3>2
  <2> QED BY <1>2, <1>4, <1>5, <2>1, <2>2
<1>12. CASE RemovesProcess(c)
  <2>1. /\ prPc[c] = "removing" /\ prPc'[c] = "left" /\ Living' = Living
        /\ prWriter' = NoOne /\ prHere' = FALSE
        /\ UNCHANGED <<prCount, prSem, prResult, prShared>>
    BY <1>0, <1>12, ThreadMoves DEF RemovesProcess, LivingPc
  <2>2. Living = {} /\ \A d \in PrThread : prPc'[d] \notin Closing
    BY <1>0, <1>1, <2>1 DEF OneCloses, Closing
  <2>3. WriterIs' /\ OneCloses' /\ ProcessOutlives' /\ PrTypes'
    BY <1>0, <1>1, <2>1, <2>2 DEF WriterIs, OneCloses, ProcessOutlives, PrTypes, Closing
  <2> QED BY <1>2, <1>4, <1>5, <2>1, <2>3
<1>13. CASE Zombie(c) \/ Retire(c)
  <2>1. /\ prPc[c] \in {"left", "zombie"} /\ prPc'[c] \in {"zombie", "gone"} /\ Living' = Living
        /\ UNCHANGED <<prHere, prWriter, prCount, prSem, prResult, prShared>>
    BY <1>0, <1>13, ThreadMoves DEF Zombie, Retire, LivingPc
  <2>2. PrTypes'
    BY <1>0, <1>1, <2>1 DEF PrTypes
  <2> QED BY <1>2, <1>3, <1>4, <1>5, <2>1, <2>2 DEF Closing
<1> QED BY <1>6, <1>7, <1>8, <1>9, <1>10, <1>11, <1>12, <1>13 DEF PrThreadStep

LEMMA ProcessStarts == PrInit => ProcessI
<1> SUFFICES ASSUME PrInit PROVE ProcessI
  OBVIOUS
<1>1. Living = {}
  BY DEF PrInit, Living
<1>2. ProcessOutlives
  BY <1>1, FS_EmptySet DEF PrInit, ProcessOutlives
<1>3. PrTypes
  BY ProcessesAssumption DEF PrInit, PrTypes, PrStage
<1>4. FirstIsFirst /\ WriterIs /\ OneCloses /\ ResultFirst
  BY ProcessesAssumption DEF PrInit, FirstIsFirst, WriterIs, OneCloses, ResultFirst, Closing
<1>5. PermitsMean /\ JoinsMean /\ StatMeans /\ StatStops
  BY DEF PrInit, PermitsMean, JoinsMean, StatMeans, StatStops
<1> QED BY <1>2, <1>3, <1>4, <1>5 DEF ProcessI

LEMMA ProcessKeeps == ProcessI /\ [ProcessesNext]_prVars => ProcessI'
<1> SUFFICES ASSUME ProcessI, [ProcessesNext]_prVars PROVE ProcessI'
  OBVIOUS
<1>1. CASE UNCHANGED prVars
  BY <1>1 DEF prVars, ProcessI, PrTypes, FirstIsFirst, WriterIs, OneCloses, ResultFirst,
     PermitsMean, JoinsMean, StatMeans, StatStops, ProcessOutlives, Living, Over, Signalled, Pooled
<1> QED BY <1>1, AddKeeps, SpawnKeeps, ThreadKeeps, JoinKeeps, StatKeeps DEF ProcessesNext

(* For any number of threads and joins: a process outlives its threads, who *)
(* has joined finds what it joined over and its result stored, and the      *)
(* statistics stop the system only when no thread of the process goes on.   *)
THEOREM ProcessesHold == ProcessesSpec => []ProcessesInv
<1>1. ProcessI => ProcessesInv
  <2> SUFFICES ASSUME ProcessI PROVE JoinedIsOver
    BY DEF ProcessI, ProcessesInv
  <2> SUFFICES ASSUME NEW j \in PrJoiner, prJoin[j] \in {"joined", "done"}
               PROVE  IF prPlan[j] = PrProcess THEN prCount = 0
                      ELSE prPlan[j] \in prResult /\ prPlan[j] \notin prShared
    BY DEF JoinedIsOver
  <2>1. CASE prPlan[j] = PrProcess
    <3>1. Living = {} /\ prCount = Cardinality(Living)
      BY <2>1 DEF ProcessI, JoinsMean, Over, ProcessOutlives
    <3> QED BY <2>1, <3>1, FS_EmptySet
  <2>2. CASE prPlan[j] # PrProcess
    <3>1. prPlan[j] \in PrThread /\ Signalled(prPlan[j])
      BY <2>2 DEF ProcessI, PrTypes, JoinsMean
    <3> QED BY <2>2, <3>1 DEF ProcessI, ResultFirst, Signalled, Left, Closing
  <2> QED BY <2>1, <2>2
<1> QED BY <1>1, ProcessStarts, ProcessKeeps, PTL DEF ProcessesSpec

-----------------------------------------------------------------------------
(* Spinlocks.  The flag of a processor is a token like a lock is: it is set, *)
(* or one guard of the thread has saved it (or is about to be made with it), *)
(* or a handler is running, and gives it back when it returns.              *)

SpGuards == Seq([lock : SpLocks, flag : BOOLEAN])
SpContexts == [plan : Seq(SpOps), at : {"next", "cas", "restore"}, flag : BOOLEAN,
               guards : SpGuards]

SpTypes ==
    /\ spValue \in [SpLocks -> BOOLEAN]
    /\ spIf \in [SpCpu -> BOOLEAN]
    /\ spRun \in [SpCpu -> Seq(SpContexts)]
    /\ \A p \in SpCpu : Len(spRun[p]) \in {1, 2}

\* A context has a step to do while it is in one, no two guards of one lock,
\* and the guard it is dropping.
ContextOK(c) ==
    /\ c.at # "next" => c.plan # << >>
    /\ c.at = "cas" => Head(c.plan).t # "drop"
    /\ c.at = "restore" => Holds(c, Head(c.plan).lock)
    /\ \A i, j \in 1..Len(c.guards) : c.guards[i].lock = c.guards[j].lock => i = j

ContextsOK == \A p \in SpCpu : \A i \in 1..Len(spRun[p]) : ContextOK(spRun[p][i])

Owns(c, l) == Holds(c, l) /\ ~(c.at = "restore" /\ Head(c.plan).lock = l)

OwnerHolds(l) ==
    /\ \A p \in SpCpu : \A i \in 1..Len(spRun[p]) : Owns(spRun[p][i], l) => spValue[l]
    /\ \A p, q \in SpCpu : \A i \in 1..Len(spRun[p]) : \A j \in 1..Len(spRun[q]) :
          Owns(spRun[p][i], l) /\ Owns(spRun[q][j], l) => p = q /\ i = j
    /\ spValue[l] => \E p \in SpCpu : \E i \in 1..Len(spRun[p]) : Owns(spRun[p][i], l)

OwnersHold == \A l \in SpLocks : OwnerHolds(l)

\* The guards of a context that will set the flag.
Sets(c) == {i \in 1..Len(c.guards) : c.guards[i].flag}
Taking(c) == c.at = "cas" /\ c.flag

\* The flag is with the processor, or one guard has it.
FlagHere(c) == Sets(c) = {} /\ ~Taking(c)
FlagSaved(c) == /\ Sets(c) # {} \/ Taking(c)
                /\ \A i, j \in Sets(c) : i = j
                /\ Taking(c) => Sets(c) = {}

FlagsOK == \A p \in SpCpu :
    /\ Len(spRun[p]) = 1 /\ spIf[p] => FlagHere(spRun[p][1])
    /\ Len(spRun[p]) = 1 /\ ~spIf[p] => FlagSaved(spRun[p][1])
    /\ Len(spRun[p]) = 2 => ~spIf[p] /\ FlagHere(spRun[p][1]) /\ FlagHere(spRun[p][2])

\* A handler will drop what it holds.
HasDrop(plan, l) == \E j \in 1..Len(plan) : plan[j].t = "drop" /\ plan[j].lock = l
WillDrop(c) == DropsAll(c.plan) /\ \A i \in 1..Len(c.guards) : HasDrop(c.plan, c.guards[i].lock)

HandlersDrop == \A p \in SpCpu : Len(spRun[p]) = 2 => WillDrop(spRun[p][2])

SpinI == SpTypes /\ ContextsOK /\ OwnersHold /\ FlagsOK /\ HandlersDrop

LEMMA RunningContext ==
    ASSUME SpTypes, NEW p \in SpCpu
    PROVE  /\ Len(spRun[p]) \in 1..Len(spRun[p]) /\ Len(spRun[p]) \in {1, 2}
           /\ Now(p) = spRun[p][Len(spRun[p])] /\ Now(p) \in SpContexts
           /\ \A i \in 1..Len(spRun[p]) : spRun[p][i] \in SpContexts
<1>1. spRun[p] \in Seq(SpContexts) /\ Len(spRun[p]) \in {1, 2}
  BY DEF SpTypes
<1>2. \A i \in 1..Len(spRun[p]) : spRun[p][i] \in SpContexts
  BY <1>1, ElementOfSeq
<1> QED BY <1>1, <1>2 DEF Now, Last

LEMMA ContextBecomes ==
    ASSUME SpTypes, NEW p \in SpCpu, NEW c \in SpContexts, Becomes(p, c)
    PROVE  /\ spRun' \in [SpCpu -> Seq(SpContexts)]
           /\ \A q \in SpCpu : Len(spRun'[q]) = Len(spRun[q])
           /\ \A q \in SpCpu : q # p => spRun'[q] = spRun[q]
           /\ spRun'[p][Len(spRun[p])] = c
           /\ \A i \in 1..Len(spRun[p]) : i # Len(spRun[p]) => spRun'[p][i] = spRun[p][i]
<1> DEFINE s == spRun[p]
<1>1. s \in Seq(SpContexts) /\ Len(s) \in {1, 2}
  BY DEF SpTypes
<1>2. /\ Front(s) \in Seq(SpContexts) /\ Len(Front(s)) = Len(s) - 1
      /\ \A i \in 1..(Len(s) - 1) : Front(s)[i] = s[i]
  <2> DEFINE k == Len(s) - 1
  <2>1. 1 \in Int /\ k \in Int /\ \A i \in 1..k : s[i] \in SpContexts
    BY <1>1, ElementOfSeq
  <2>2. k \in {0, 1} /\ Front(s) = SubSeq(s, 1, k)
    BY <1>1 DEF Front
  <2> HIDE DEF k
  <2>3. /\ SubSeq(s, 1, k) \in Seq(SpContexts)
        /\ Len(SubSeq(s, 1, k)) = IF 1 <= k THEN k - 1 + 1 ELSE 0
        /\ \A i \in 1..(k - 1 + 1) : SubSeq(s, 1, k)[i] = s[1 + i - 1]
    BY ONLY <2>1, SubSeqProperties
  <2>4. Len(Front(s)) = k
    BY <2>2, <2>3
  <2>5. \A i \in 1..k : Front(s)[i] = s[i]
    <3>1. \A i \in 1..k : i \in 1..(k - 1 + 1) /\ 1 + i - 1 = i
      BY <2>2
    <3> QED BY <2>2, <2>3, <3>1
  <2> QED BY <2>2, <2>3, <2>4, <2>5 DEF k
<1>3. /\ Append(Front(s), c) \in Seq(SpContexts) /\ Len(Append(Front(s), c)) = Len(s)
      /\ Append(Front(s), c)[Len(s)] = c
      /\ \A i \in 1..(Len(s) - 1) : Append(Front(s), c)[i] = s[i]
  BY <1>1, <1>2
<1>4. spRun'[p] = Append(Front(s), c) /\ \A q \in SpCpu : q # p => spRun'[q] = spRun[q]
  BY DEF SpTypes, Becomes
<1>5. spRun' \in [SpCpu -> Seq(SpContexts)]
  BY <1>3 DEF SpTypes, Becomes
<1> QED BY <1>1, <1>3, <1>4, <1>5

(* What a step of the running context must not do to the others. *)
LEMMA ContextStep ==
    ASSUME SpinI, NEW p \in SpCpu, NEW y \in SpContexts, Becomes(p, y), ContextOK(y),
           NEW l \in SpLocks,
           spValue' \in [SpLocks -> BOOLEAN], spIf' \in [SpCpu -> BOOLEAN],
           \A m \in SpLocks : m # l => /\ spValue'[m] = spValue[m]
                                       /\ Owns(y, m) <=> Owns(Now(p), m),
           \/ spValue'[l] = spValue[l] /\ (Owns(y, l) <=> Owns(Now(p), l))
           \/ ~spValue[l] /\ spValue'[l] /\ Owns(y, l)
           \/ Owns(Now(p), l) /\ ~spValue'[l] /\ ~Owns(y, l),
           \A q \in SpCpu : q # p => spIf'[q] = spIf[q],
           spIf[p] /\ FlagHere(Now(p)) => FlagHere(y) \/ ~spIf'[p],
           spIf[p] /\ FlagHere(Now(p)) => FlagSaved(y) \/ spIf'[p],
           ~spIf[p] /\ FlagSaved(Now(p)) => FlagHere(y) \/ ~spIf'[p],
           ~spIf[p] /\ FlagSaved(Now(p)) => FlagSaved(y) \/ spIf'[p],
           ~spIf[p] /\ FlagHere(Now(p)) => ~spIf'[p] /\ FlagHere(y),
           WillDrop(Now(p)) => WillDrop(y)
    PROVE  SpinI'
<1> DEFINE n == Len(spRun[p])
<1>0. SpTypes /\ ContextsOK /\ OwnersHold /\ FlagsOK /\ HandlersDrop
  BY DEF SpinI
<1>1. n \in 1..n /\ n \in {1, 2} /\ Now(p) = spRun[p][n]
  BY <1>0, RunningContext
<1>2. /\ spRun' \in [SpCpu -> Seq(SpContexts)]
      /\ \A q \in SpCpu : Len(spRun'[q]) = Len(spRun[q])
      /\ \A q \in SpCpu : q # p => spRun'[q] = spRun[q]
      /\ spRun'[p][n] = y
      /\ \A i \in 1..n : i # n => spRun'[p][i] = spRun[p][i]
  BY <1>0, ContextBecomes
<1>3. SpTypes'
  BY <1>0, <1>2 DEF SpTypes
<1>4. ContextsOK'
  BY <1>0, <1>2 DEF ContextsOK
<1>5. \A q \in SpCpu : \A i \in 1..Len(spRun[q]) : \A m \in SpLocks :
         (q # p \/ i # n \/ m # l) => (Owns(spRun'[q][i], m) <=> Owns(spRun[q][i], m))
  BY <1>1, <1>2
<1>6. ASSUME NEW m \in SpLocks, spValue'[m] = spValue[m],
             \A q \in SpCpu : \A i \in 1..Len(spRun[q]) :
                 Owns(spRun'[q][i], m) <=> Owns(spRun[q][i], m)
      PROVE  OwnerHolds(m)'
  <2>1. OwnerHolds(m)
    BY <1>0 DEF OwnersHold
  <2>2. \A q \in SpCpu : \A i \in 1..Len(spRun'[q]) : Owns(spRun'[q][i], m) => spValue'[m]
    BY <1>2, <1>6, <2>1 DEF OwnerHolds
  <2>3. \A q, r \in SpCpu : \A i \in 1..Len(spRun'[q]) : \A j \in 1..Len(spRun'[r]) :
           Owns(spRun'[q][i], m) /\ Owns(spRun'[r][j], m) => q = r /\ i = j
    BY <1>2, <1>6, <2>1 DEF OwnerHolds
  <2>4. spValue'[m] => \E q \in SpCpu : \E i \in 1..Len(spRun'[q]) : Owns(spRun'[q][i], m)
    BY <1>2, <1>6, <2>1 DEF OwnerHolds
  <2> QED BY <2>2, <2>3, <2>4 DEF OwnerHolds
<1>66. OwnerHolds(l)'
  <2>0. OwnerHolds(l)
    BY <1>0 DEF OwnersHold
  <2>1. CASE spValue'[l] = spValue[l] /\ (Owns(y, l) <=> Owns(Now(p), l))
    <3>1. \A q \in SpCpu : \A i \in 1..Len(spRun[q]) :
             Owns(spRun'[q][i], l) <=> Owns(spRun[q][i], l)
      BY <1>1, <1>2, <1>5, <2>1
    <3> QED BY <1>6, <2>1, <3>1
  <2>2. CASE ~spValue[l] /\ spValue'[l] /\ Owns(y, l)
    <3>1. \A q \in SpCpu : \A i \in 1..Len(spRun[q]) : ~Owns(spRun[q][i], l)
      BY <2>0, <2>2 DEF OwnerHolds
    <3>2. \A q \in SpCpu : \A i \in 1..Len(spRun'[q]) :
             Owns(spRun'[q][i], l) <=> q = p /\ i = n
      BY <1>1, <1>2, <1>5, <2>2, <3>1
    <3>3. n \in 1..Len(spRun'[p]) /\ Owns(spRun'[p][n], l)
      BY <1>1, <1>2, <2>2
    <3> QED BY <2>2, <3>2, <3>3 DEF OwnerHolds
  <2>3. CASE Owns(Now(p), l) /\ ~spValue'[l] /\ ~Owns(y, l)
    <3>1. \A q \in SpCpu : \A i \in 1..Len(spRun[q]) :
             Owns(spRun[q][i], l) => q = p /\ i = n
      BY <1>1, <2>0, <2>3 DEF OwnerHolds
    <3>2. \A q \in SpCpu : \A i \in 1..Len(spRun'[q]) : ~Owns(spRun'[q][i], l)
      BY <1>1, <1>2, <1>5, <2>3, <3>1
    <3> QED BY <2>3, <3>2 DEF OwnerHolds
  <2> QED BY <2>1, <2>2, <2>3
<1>67. OwnersHold'
  BY <1>5, <1>6, <1>66 DEF OwnersHold
<1>7. FlagsOK'
  <2> SUFFICES ASSUME NEW q \in SpCpu
               PROVE  /\ Len(spRun'[q]) = 1 /\ spIf'[q] => FlagHere(spRun'[q][1])
                      /\ Len(spRun'[q]) = 1 /\ ~spIf'[q] => FlagSaved(spRun'[q][1])
                      /\ Len(spRun'[q]) = 2 => ~spIf'[q] /\ FlagHere(spRun'[q][1]) /\ FlagHere(spRun'[q][2])
    BY DEF FlagsOK
  <2>1. CASE q # p
    BY <1>0, <1>2, <2>1 DEF FlagsOK
  <2>2. CASE q = p /\ n = 1
    BY <1>0, <1>1, <1>2, <2>2 DEF FlagsOK
  <2>3. CASE q = p /\ n = 2
    BY <1>0, <1>1, <1>2, <2>3 DEF FlagsOK
  <2> QED BY <1>1, <2>1, <2>2, <2>3
<1>8. HandlersDrop'
  BY <1>0, <1>1, <1>2 DEF HandlersDrop
<1> QED BY <1>3, <1>4, <1>67, <1>7, <1>8 DEF SpinI
(* Guards that a plan will drop are still to be dropped after its first     *)
(* step, unless it was that one.                                            *)
LEMMA PlanGoesOn ==
    ASSUME NEW plan \in Seq(SpOps), plan # << >>
    PROVE  /\ Tail(plan) \in Seq(SpOps) /\ Head(plan) \in SpOps
           /\ DropsAll(plan) => DropsAll(Tail(plan))
           /\ DropsAll(plan) /\ Head(plan).t # "drop" => HasDrop(Tail(plan), Head(plan).lock)
           /\ \A l \in SpLocks : HasDrop(plan, l) /\ (Head(plan).t # "drop" \/ Head(plan).lock # l)
                                    => HasDrop(Tail(plan), l)
<1> DEFINE n == Len(plan) - 1
<1>1. /\ Tail(plan) \in Seq(SpOps) /\ Head(plan) = plan[1] /\ Len(Tail(plan)) = n
      /\ n \in Nat /\ Len(plan) = n + 1
      /\ \A i \in 1..n : Tail(plan)[i] = plan[i + 1]
  OBVIOUS
<1>2. Head(plan) \in SpOps
  BY <1>1, ElementOfSeq
<1>3. \A j \in 2..(n + 1) : j - 1 \in 1..n /\ Tail(plan)[j - 1] = plan[j]
  BY <1>1
<1>4. ASSUME DropsAll(plan) PROVE DropsAll(Tail(plan))
  <2> SUFFICES ASSUME NEW i \in 1..n, plan[i + 1].t # "drop"
               PROVE  \E j \in (i + 1)..n : Tail(plan)[j].t = "drop" /\ Tail(plan)[j].lock = plan[i + 1].lock
    BY <1>1 DEF DropsAll
  <2>1. PICK j \in (i + 2)..(n + 1) : plan[j].t = "drop" /\ plan[j].lock = plan[i + 1].lock
    <3>1. i + 1 \in 1..Len(plan) /\ (i + 1) + 1 = i + 2
      BY <1>1
    <3> QED BY <1>1, <1>4, <3>1 DEF DropsAll
  <2>2. j - 1 \in (i + 1)..n /\ j \in 2..(n + 1)
    BY <1>1
  <2> QED BY <1>3, <2>1, <2>2
<1>5. ASSUME DropsAll(plan), Head(plan).t # "drop" PROVE HasDrop(Tail(plan), Head(plan).lock)
  <2>1. 1 \in 1..Len(plan) /\ plan[1].t # "drop" /\ 1 + 1 = 2
    BY <1>1, <1>5
  <2>2. PICK j \in 2..(n + 1) : plan[j].t = "drop" /\ plan[j].lock = plan[1].lock
    BY <1>1, <1>5, <2>1 DEF DropsAll
  <2> QED BY <1>1, <1>3, <2>2 DEF HasDrop
<1>6. ASSUME NEW l \in SpLocks, HasDrop(plan, l), Head(plan).t # "drop" \/ Head(plan).lock # l
      PROVE  HasDrop(Tail(plan), l)
  <2>1. PICK j \in 1..(n + 1) : plan[j].t = "drop" /\ plan[j].lock = l
    BY <1>1, <1>6 DEF HasDrop
  <2>2. j \in 2..(n + 1)
    BY <1>1, <1>6, <2>1
  <2> QED BY <1>1, <1>3, <2>1, <2>2 DEF HasDrop
<1> QED BY <1>1, <1>2, <1>4, <1>5, <1>6

LEMMA GuardRemoved ==
    ASSUME NEW g \in SpGuards, NEW i \in 1..Len(g)
    PROVE  /\ RemoveAt(g, i) \in SpGuards
           /\ Len(RemoveAt(g, i)) = Len(g) - 1
           /\ \A k \in 1..(Len(g) - 1) : RemoveAt(g, i)[k] = g[IF k < i THEN k ELSE k + 1]
<1> DEFINE G == [lock : SpLocks, flag : BOOLEAN]
           a == SubSeq(g, 1, i - 1)
           b == SubSeq(g, i + 1, Len(g))
<1>1. g \in Seq(G) /\ Len(g) \in Nat /\ i \in Int /\ 1 <= i /\ i <= Len(g)
  BY DEF SpGuards
<1>2. \A k \in 1..Len(g) : g[k] \in G
  BY <1>1, ElementOfSeq
<1>3. a \in Seq(G) /\ Len(a) = i - 1 /\ \A k \in 1..(i - 1) : a[k] = g[k]
  <2>1. i - 1 \in Int /\ \A k \in 1..(i - 1) : g[k] \in G
    BY <1>1, <1>2
  <2>2. /\ a \in Seq(G)
        /\ Len(a) = IF 1 <= i - 1 THEN i - 1 - 1 + 1 ELSE 0
        /\ \A k \in 1..(i - 1 - 1 + 1) : a[k] = g[1 + k - 1]
    BY ONLY <2>1, 1 \in Int, SubSeqProperties
  <2>3. \A k \in 1..(i - 1) : k \in 1..(i - 1 - 1 + 1) /\ 1 + k - 1 = k
    BY <1>1
  <2> QED BY <1>1, <2>2, <2>3
<1>4. b \in Seq(G) /\ Len(b) = Len(g) - i /\ \A k \in 1..(Len(g) - i) : b[k] = g[i + k]
  <2>1. i + 1 \in Int /\ Len(g) \in Int /\ \A k \in (i + 1)..Len(g) : g[k] \in G
    BY <1>1, <1>2
  <2>2. /\ b \in Seq(G)
        /\ Len(b) = IF i + 1 <= Len(g) THEN Len(g) - (i + 1) + 1 ELSE 0
        /\ \A k \in 1..(Len(g) - (i + 1) + 1) : b[k] = g[i + 1 + k - 1]
    BY ONLY <2>1, SubSeqProperties
  <2>3. \A k \in 1..(Len(g) - i) : k \in 1..(Len(g) - (i + 1) + 1) /\ i + 1 + k - 1 = i + k
    BY <1>1
  <2> QED BY <1>1, <2>2, <2>3
<1>5. RemoveAt(g, i) = a \o b
  BY DEF RemoveAt
<1> HIDE DEF a, b, G
<1>6. /\ a \o b \in Seq(G) /\ Len(a \o b) = Len(a) + Len(b)
      /\ \A k \in 1..(Len(a) + Len(b)) : (a \o b)[k] = IF k <= Len(a) THEN a[k] ELSE b[k - Len(a)]
  BY <1>3, <1>4, ConcatProperties
<1>7. ASSUME NEW k \in 1..(Len(g) - 1) PROVE (a \o b)[k] = g[IF k < i THEN k ELSE k + 1]
  <2>1. k \in 1..(Len(a) + Len(b)) /\ (k <= Len(a) <=> k < i)
    BY <1>1, <1>3, <1>4
  <2>2. CASE k < i
    BY <1>1, <1>3, <1>6, <2>1, <2>2
  <2>3. CASE ~(k < i)
    <3>1. k - Len(a) \in 1..(Len(g) - i) /\ i + (k - Len(a)) = k + 1
      BY <1>1, <1>3, <2>3
    <3> QED BY <1>4, <1>6, <2>1, <2>3, <3>1
  <2> QED BY <2>2, <2>3
<1>8. Len(a \o b) = Len(g) - 1
  BY <1>1, <1>3, <1>4, <1>6
<1> QED BY <1>5, <1>6, <1>7, <1>8 DEF G, SpGuards
LEMMA GuardsAreOfLocks ==
    ASSUME NEW x \in SpContexts
    PROVE  /\ x.guards \in SpGuards /\ x.guards \in Seq([lock : SpLocks, flag : BOOLEAN])
           /\ \A i \in 1..Len(x.guards) : x.guards[i].lock \in SpLocks /\ x.guards[i].flag \in BOOLEAN
<1> DEFINE G == [lock : SpLocks, flag : BOOLEAN]
<1>1. x.guards \in Seq(G)
  BY DEF SpContexts, SpGuards
<1>2. \A i \in 1..Len(x.guards) : x.guards[i] \in G
  BY <1>1, ElementOfSeq
<1>3. \A g \in G : g.lock \in SpLocks /\ g.flag \in BOOLEAN
  OBVIOUS
<1> QED BY <1>1, <1>2, <1>3 DEF SpGuards

(* Only the plan and where the context is have changed. *)
LEMMA SameGuards ==
    ASSUME NEW x \in SpContexts, NEW y \in SpContexts, ContextOK(x), y.guards = x.guards,
           x.at # "restore", y.at # "restore"
    PROVE  /\ \A l \in SpLocks : Owns(y, l) <=> Owns(x, l)
           /\ Sets(y) = Sets(x)
           /\ \A i, j \in 1..Len(y.guards) : y.guards[i].lock = y.guards[j].lock => i = j
BY DEF ContextOK, Owns, Holds, Sets

LEMMA InterruptGuardKeeps ==
    ASSUME SpinI, NEW p \in SpCpu, InterruptGuard(p)
    PROVE  SpinI'
<1>0. SpTypes /\ ContextsOK
  BY DEF SpinI
<1>1. PICK x \in SpContexts : x = Now(p) /\ ContextOK(x)
  BY <1>0, RunningContext DEF ContextsOK
<1>2. x.at = "next" /\ x.plan # << >> /\ Head(x.plan).t # "drop"
  BY <1>1 DEF InterruptGuard
<1>3. PICK y \in SpContexts : /\ y = [x EXCEPT !.at = "cas", !.flag = spIf[p]]
                              /\ Becomes(p, y)
  BY <1>0, <1>1 DEF InterruptGuard, SpContexts, SpTypes
<1>4. y.at = "cas" /\ y.plan = x.plan /\ y.guards = x.guards /\ y.flag = spIf[p]
  BY <1>3 DEF SpContexts
<1>5. /\ \A l \in SpLocks : Owns(y, l) <=> Owns(x, l)
      /\ Sets(y) = Sets(x) /\ ContextOK(y)
  BY <1>1, <1>2, <1>4, SameGuards DEF ContextOK
<1>6. spValue' = spValue /\ spIf' \in [SpCpu -> BOOLEAN] /\ ~spIf'[p]
      /\ \A q \in SpCpu : q # p => spIf'[q] = spIf[q]
  BY <1>0 DEF InterruptGuard, SpTypes
<1>7. /\ spIf[p] /\ FlagHere(x) => FlagSaved(y)
      /\ ~spIf[p] /\ FlagSaved(x) => FlagSaved(y)
      /\ ~spIf[p] /\ FlagHere(x) => FlagHere(y)
  BY <1>2, <1>4, <1>5 DEF FlagHere, FlagSaved, Taking
<1>8. WillDrop(x) => WillDrop(y)
  BY <1>4 DEF WillDrop
<1>9. PICK l \in SpLocks : TRUE
  BY DEF SpLocks
<1>10. spValue' \in [SpLocks -> BOOLEAN] /\ \A m \in SpLocks : spValue'[m] = spValue[m]
  BY <1>0, <1>6 DEF SpTypes
<1> QED BY <1>1, <1>3, <1>5, <1>6, <1>7, <1>8, <1>9, <1>10, ContextStep

LEMMA CasKeeps ==
    ASSUME SpinI, NEW p \in SpCpu, Cas(p)
    PROVE  SpinI'
<1>0. SpTypes /\ ContextsOK
  BY DEF SpinI
<1>1. PICK x \in SpContexts : x = Now(p) /\ ContextOK(x)
  BY <1>0, RunningContext DEF ContextsOK
<1>2. x.at = "cas" /\ x.plan \in Seq(SpOps) /\ x.plan # << >> /\ Head(x.plan).t # "drop"
  BY <1>1 DEF Cas, ContextOK, SpContexts
<1>3. /\ Tail(x.plan) \in Seq(SpOps) /\ Head(x.plan).lock \in SpLocks
      /\ DropsAll(x.plan) => DropsAll(Tail(x.plan)) /\ HasDrop(Tail(x.plan), Head(x.plan).lock)
      /\ \A m \in SpLocks : HasDrop(x.plan, m) => HasDrop(Tail(x.plan), m)
  BY <1>2, PlanGoesOn DEF SpOps
<1>4. PICK l \in SpLocks : l = Head(x.plan).lock
  BY <1>3
<1>5. x.guards \in Seq([lock : SpLocks, flag : BOOLEAN]) /\ x.flag \in BOOLEAN
  BY DEF SpContexts, SpGuards
<1>6. CASE ~spValue[l]
  <2>1. PICK e \in [lock : SpLocks, flag : BOOLEAN] : e.lock = l /\ e.flag = x.flag
                                                     /\ e = [lock |-> l, flag |-> x.flag]
    BY <1>5
  <2>2. /\ Append(x.guards, e) \in SpGuards
        /\ Len(Append(x.guards, e)) = Len(x.guards) + 1
        /\ Append(x.guards, e)[Len(x.guards) + 1] = e
        /\ \A i \in 1..Len(x.guards) : Append(x.guards, e)[i] = x.guards[i]
    BY <1>5, AppendProperties DEF SpGuards
  <2>3. PICK y \in SpContexts :
           /\ y = [x EXCEPT !.plan = Tail(@), !.at = "next", !.guards = Append(@, e)]
           /\ Becomes(p, y)
    BY <1>1, <1>3, <1>4, <1>6, <2>1, <2>2 DEF Cas, SpContexts
  <2>4. y.plan = Tail(x.plan) /\ y.at = "next" /\ y.guards = Append(x.guards, e)
    BY <2>3 DEF SpContexts
  <2>5. spValue' = [spValue EXCEPT ![l] = TRUE] /\ spIf' = spIf
    BY <1>1, <1>4, <1>6 DEF Cas
  <2>6. Len(x.guards) \in Nat /\ \A i \in 1..(Len(x.guards) + 1) :
           i = Len(x.guards) + 1 \/ i \in 1..Len(x.guards)
    BY <1>5
  <2>7. /\ \A m \in SpLocks : m # l => (Owns(y, m) <=> Owns(x, m))
        /\ Owns(y, l)
    <3>1. \A m \in SpLocks : Holds(y, m) <=> Holds(x, m) \/ m = l
      BY <2>1, <2>2, <2>4, <2>6 DEF Holds
    <3> QED BY <1>2, <2>4, <3>1 DEF Owns
  <2>8. ~Holds(x, l)
    <3>1. ~Owns(x, l)
      BY <1>0, <1>1, <1>6, RunningContext DEF SpinI, OwnersHold, OwnerHolds
    <3> QED BY <1>2, <3>1 DEF Owns
  <2>9. ContextOK(y)
    <3>1. \A i \in 1..Len(x.guards) : x.guards[i].lock # l
      BY <2>8 DEF Holds
    <3>2. ASSUME NEW i \in 1..Len(y.guards), NEW j \in 1..Len(y.guards),
                 y.guards[i].lock = y.guards[j].lock
          PROVE  i = j
      BY <1>1, <2>1, <2>2, <2>4, <2>6, <3>1, <3>2 DEF ContextOK
    <3> QED BY <2>4, <3>2 DEF ContextOK
  <2>10. \A i \in 1..Len(y.guards) :
            i \in Sets(y) <=> (i \in Sets(x) \/ (i = Len(x.guards) + 1 /\ Taking(x)))
    BY <1>2, <2>1, <2>2, <2>4, <2>6 DEF Sets, Taking
  <2>11. ~Taking(y) /\ Sets(x) \subseteq 1..Len(x.guards) /\ Sets(y) \subseteq 1..Len(y.guards)
         /\ Len(x.guards) + 1 \in 1..Len(y.guards) /\ 1..Len(x.guards) \subseteq 1..Len(y.guards)
    BY <2>2, <2>4, <2>6 DEF Taking, Sets
  <2>12. (FlagHere(x) => FlagHere(y)) /\ (FlagSaved(x) => FlagSaved(y))
    BY <2>10, <2>11 DEF FlagHere, FlagSaved
  <2>13. WillDrop(x) => WillDrop(y)
    <3> SUFFICES ASSUME WillDrop(x) PROVE WillDrop(y)
      OBVIOUS
    <3>1. \A i \in 1..Len(x.guards) : x.guards[i].lock \in SpLocks
      BY GuardsAreOfLocks
    <3>2. \A i \in 1..Len(y.guards) : HasDrop(y.plan, y.guards[i].lock)
      BY <1>3, <1>4, <2>1, <2>2, <2>4, <2>6, <3>1 DEF WillDrop
    <3> QED BY <1>3, <2>4, <3>2 DEF WillDrop
  <2>14. /\ spValue' \in [SpLocks -> BOOLEAN] /\ spValue'[l]
         /\ \A m \in SpLocks : m # l => spValue'[m] = spValue[m]
         /\ spIf' \in [SpCpu -> BOOLEAN] /\ \A q \in SpCpu : spIf'[q] = spIf[q]
    BY <1>0, <2>5 DEF SpTypes
  <2> QED BY <1>1, <1>6, <2>3, <2>7, <2>9, <2>12, <2>13, <2>14, ContextStep
<1>7. CASE spValue[l]
  <2>1. PICK y \in SpContexts : /\ y = [x EXCEPT !.plan = Tail(@), !.at = "next"]
                                /\ Becomes(p, y)
    BY <1>1, <1>3, <1>4, <1>7 DEF Cas, SpContexts
  <2>2. y.plan = Tail(x.plan) /\ y.at = "next" /\ y.guards = x.guards
    BY <2>1 DEF SpContexts
  <2>3. spValue' = spValue /\ spIf' = [spIf EXCEPT ![p] = @ \/ x.flag]
    BY <1>1, <1>4, <1>7 DEF Cas
  <2>4. /\ \A m \in SpLocks : Owns(y, m) <=> Owns(x, m)
        /\ Sets(y) = Sets(x) /\ ContextOK(y)
    BY <1>1, <1>2, <2>2, SameGuards DEF ContextOK
  <2>5. /\ spValue' \in [SpLocks -> BOOLEAN] /\ \A m \in SpLocks : spValue'[m] = spValue[m]
        /\ spIf' \in [SpCpu -> BOOLEAN] /\ \A q \in SpCpu : q # p => spIf'[q] = spIf[q]
        /\ spIf'[p] <=> spIf[p] \/ x.flag
    BY <1>0, <1>5, <2>3 DEF SpTypes
  <2>6. /\ spIf[p] /\ FlagHere(x) => spIf'[p] /\ FlagHere(y)
        /\ ~spIf[p] /\ FlagSaved(x) => FlagHere(y) \/ ~spIf'[p]
        /\ ~spIf[p] /\ FlagSaved(x) => FlagSaved(y) \/ spIf'[p]
        /\ ~spIf[p] /\ FlagHere(x) => ~spIf'[p] /\ FlagHere(y)
    BY <1>2, <2>2, <2>4, <2>5 DEF FlagHere, FlagSaved, Taking
  <2>7. WillDrop(x) => WillDrop(y)
    <3>1. \A i \in 1..Len(x.guards) : x.guards[i].lock \in SpLocks
      BY GuardsAreOfLocks
    <3> QED BY <1>3, <2>2, <3>1 DEF WillDrop
  <2> QED BY <1>1, <2>1, <2>4, <2>5, <2>6, <2>7, ContextStep
<1> QED BY <1>6, <1>7
LEMMA ForceUnlockKeeps ==
    ASSUME SpinI, NEW p \in SpCpu, ForceUnlock(p)
    PROVE  SpinI'
<1>0. SpTypes /\ ContextsOK
  BY DEF SpinI
<1>1. PICK x \in SpContexts : x = Now(p) /\ ContextOK(x)
  BY <1>0, RunningContext DEF ContextsOK
<1>2. x.at = "next" /\ x.plan \in Seq(SpOps) /\ x.plan # << >> /\ Head(x.plan).t = "drop"
  BY <1>1 DEF ForceUnlock, Unlocks, SpContexts
<1>3. /\ Tail(x.plan) \in Seq(SpOps) /\ Head(x.plan).lock \in SpLocks
      /\ DropsAll(x.plan) => DropsAll(Tail(x.plan))
      /\ \A m \in SpLocks : HasDrop(x.plan, m) /\ m # Head(x.plan).lock => HasDrop(Tail(x.plan), m)
  BY <1>2, PlanGoesOn DEF SpOps
<1>4. PICK l \in SpLocks : l = Head(x.plan).lock
  BY <1>3
<1>5. spIf' = spIf /\ spIf' \in [SpCpu -> BOOLEAN]
  BY <1>0 DEF ForceUnlock, SpTypes
<1>6. CASE Holds(x, l)
  <2>1. PICK y \in SpContexts : y = [x EXCEPT !.at = "restore"] /\ Becomes(p, y)
    BY <1>1, <1>4, <1>6 DEF ForceUnlock, SpContexts
  <2>2. y.plan = x.plan /\ y.at = "restore" /\ y.guards = x.guards
    BY <2>1 DEF SpContexts
  <2>3. spValue' = [spValue EXCEPT ![l] = FALSE]
    BY <1>1, <1>4, <1>6 DEF ForceUnlock
  <2>4. /\ \A m \in SpLocks : m # l => (Owns(y, m) <=> Owns(x, m))
        /\ Owns(x, l) /\ ~Owns(y, l)
    BY <1>2, <1>4, <1>6, <2>2 DEF Owns, Holds
  <2>5. ContextOK(y) /\ Sets(y) = Sets(x)
    BY <1>1, <1>2, <1>4, <1>6, <2>2 DEF ContextOK, Holds, Sets
  <2>6. (FlagHere(x) => FlagHere(y)) /\ (FlagSaved(x) => FlagSaved(y))
    BY <1>2, <2>2, <2>5 DEF FlagHere, FlagSaved, Taking
  <2>7. WillDrop(x) => WillDrop(y)
    BY <2>2 DEF WillDrop
  <2>8. /\ spValue' \in [SpLocks -> BOOLEAN] /\ ~spValue'[l]
        /\ \A m \in SpLocks : m # l => spValue'[m] = spValue[m]
    BY <1>0, <2>3 DEF SpTypes
  <2> QED BY <1>1, <1>5, <2>1, <2>4, <2>5, <2>6, <2>7, <2>8, ContextStep
<1>7. CASE ~Holds(x, l)
  <2>1. PICK y \in SpContexts : y = [x EXCEPT !.plan = Tail(@)] /\ Becomes(p, y)
    BY <1>1, <1>3, <1>4, <1>7 DEF ForceUnlock, SpContexts
  <2>2. y.plan = Tail(x.plan) /\ y.at = "next" /\ y.guards = x.guards
    BY <1>2, <2>1 DEF SpContexts
  <2>3. spValue' = spValue
    BY <1>1, <1>4, <1>7 DEF ForceUnlock
  <2>4. /\ \A m \in SpLocks : Owns(y, m) <=> Owns(x, m)
        /\ Sets(y) = Sets(x) /\ ContextOK(y)
    BY <1>1, <1>2, <2>2, SameGuards DEF ContextOK
  <2>5. (FlagHere(x) => FlagHere(y)) /\ (FlagSaved(x) => FlagSaved(y))
    BY <1>2, <2>2, <2>4 DEF FlagHere, FlagSaved, Taking
  <2>6. WillDrop(x) => WillDrop(y)
    <3>1. \A i \in 1..Len(x.guards) : x.guards[i].lock \in SpLocks /\ x.guards[i].lock # l
      BY <1>7, GuardsAreOfLocks DEF Holds
    <3> QED BY <1>3, <1>4, <2>2, <3>1 DEF WillDrop
  <2>7. spValue' \in [SpLocks -> BOOLEAN] /\ \A m \in SpLocks : spValue'[m] = spValue[m]
    BY <1>0, <2>3 DEF SpTypes
  <2> QED BY <1>1, <1>5, <2>1, <2>4, <2>5, <2>6, <2>7, ContextStep
<1> QED BY <1>6, <1>7

LEMMA RestoreFlagKeeps ==
    ASSUME SpinI, NEW p \in SpCpu, RestoreFlag(p)
    PROVE  SpinI'
<1>0. SpTypes /\ ContextsOK
  BY DEF SpinI
<1>1. PICK x \in SpContexts : x = Now(p) /\ ContextOK(x)
  BY <1>0, RunningContext DEF ContextsOK
<1>2. x.at = "restore" /\ x.plan \in Seq(SpOps) /\ x.plan # << >>
  BY <1>1 DEF RestoreFlag, ContextOK, SpContexts
<1>3. /\ Tail(x.plan) \in Seq(SpOps) /\ Head(x.plan).lock \in SpLocks
      /\ DropsAll(x.plan) => DropsAll(Tail(x.plan))
      /\ \A m \in SpLocks : HasDrop(x.plan, m) /\ m # Head(x.plan).lock => HasDrop(Tail(x.plan), m)
  BY <1>2, PlanGoesOn DEF SpOps
<1>4. PICK l \in SpLocks : l = Head(x.plan).lock
  BY <1>3
<1>5. PICK i \in 1..Len(x.guards) :
         /\ i = CHOOSE k \in 1..Len(x.guards) : x.guards[k].lock = Head(x.plan).lock
         /\ x.guards[i].lock = l
  BY <1>1, <1>2, <1>4 DEF ContextOK, Holds
<1> DEFINE n == Len(x.guards) - 1
<1>6. /\ x.guards \in SpGuards /\ Len(x.guards) = n + 1 /\ n \in Nat
      /\ \A k \in 1..Len(x.guards) : x.guards[k].lock \in SpLocks /\ x.guards[k].flag \in BOOLEAN
  BY <1>5, GuardsAreOfLocks
<1>7. /\ RemoveAt(x.guards, i) \in SpGuards /\ Len(RemoveAt(x.guards, i)) = n
      /\ \A k \in 1..n : RemoveAt(x.guards, i)[k] = x.guards[IF k < i THEN k ELSE k + 1]
  BY <1>6, GuardRemoved
<1>8. PICK y \in SpContexts :
         /\ y = [x EXCEPT !.plan = Tail(@), !.at = "next", !.guards = RemoveAt(@, i)]
         /\ Becomes(p, y)
  BY <1>1, <1>3, <1>5, <1>7 DEF RestoreFlag, SpContexts
<1>9. /\ y.plan = Tail(x.plan) /\ y.at = "next" /\ Len(y.guards) = n
      /\ \A k \in 1..n : y.guards[k] = x.guards[IF k < i THEN k ELSE k + 1]
  BY <1>7, <1>8 DEF SpContexts
<1>10. spValue' = spValue /\ spIf' = [spIf EXCEPT ![p] = @ \/ x.guards[i].flag]
  BY <1>1, <1>5 DEF RestoreFlag
\* Where the guards of y were in x.
<1>11. PICK f \in [1..n -> (1..(n + 1)) \ {i}] :
          /\ \A k \in 1..n : y.guards[k] = x.guards[f[k]]
          /\ \A k \in (1..(n + 1)) \ {i} : \E j \in 1..n : k = f[j]
          /\ \A j, k \in 1..n : f[j] = f[k] => j = k
  <2> DEFINE g == [k \in 1..n |-> IF k < i THEN k ELSE k + 1]
  <2>1. i \in Int /\ 1 <= i /\ i <= n + 1
    BY <1>5, <1>6
  <2>2. g \in [1..n -> (1..(n + 1)) \ {i}] /\ \A j, k \in 1..n : g[j] = g[k] => j = k
    BY <1>6, <2>1
  <2>3. ASSUME NEW k \in (1..(n + 1)) \ {i} PROVE \E j \in 1..n : k = g[j]
    <3>1. CASE k < i
      <4>1. k \in 1..n /\ g[k] = k
        BY <1>6, <2>1, <3>1
      <4> QED BY <4>1
    <3>2. CASE k > i
      <4>1. k - 1 \in 1..n /\ ~(k - 1 < i) /\ k = (k - 1) + 1
        BY <1>6, <2>1, <3>2
      <4>2. g[k - 1] = k
        BY <4>1
      <4> QED BY <4>1, <4>2
    <3>3. k < i \/ k > i
      BY <1>6, <2>1
    <3> QED BY <3>1, <3>2, <3>3
  <2>4. \A k \in 1..n : y.guards[k] = x.guards[g[k]]
    BY <1>9
  <2> QED BY <2>2, <2>3, <2>4
<1>12. \A k \in 1..(n + 1) : x.guards[k].lock = l => k = i
  BY <1>1, <1>5, <1>6 DEF ContextOK
<1>13. ASSUME NEW m \in SpLocks PROVE Holds(y, m) <=> Holds(x, m) /\ m # l
  <2>1. ASSUME Holds(y, m) PROVE Holds(x, m) /\ m # l
    <3>1. PICK k \in 1..n : y.guards[k].lock = m
      BY <1>9, <2>1 DEF Holds
    <3>2. f[k] \in 1..(n + 1) /\ f[k] # i /\ x.guards[f[k]].lock = m
      BY <1>11, <3>1
    <3> QED BY <1>6, <1>12, <3>2 DEF Holds
  <2>2. ASSUME Holds(x, m), m # l PROVE Holds(y, m)
    <3>1. PICK k \in 1..(n + 1) : x.guards[k].lock = m
      BY <1>6, <2>2 DEF Holds
    <3>2. PICK j \in 1..n : k = f[j]
      BY <1>5, <1>11, <2>2, <3>1
    <3> QED BY <1>9, <1>11, <3>1, <3>2 DEF Holds
  <2> QED BY <2>1, <2>2
<1>14. \A m \in SpLocks : Owns(y, m) <=> Owns(x, m)
  BY <1>2, <1>4, <1>9, <1>13 DEF Owns
<1>15. ContextOK(y)
  <2>1. ASSUME NEW j \in 1..n, NEW k \in 1..n, y.guards[j].lock = y.guards[k].lock
        PROVE  j = k
    <3>1. f[j] \in 1..(n + 1) /\ f[k] \in 1..(n + 1) /\ x.guards[f[j]].lock = x.guards[f[k]].lock
      BY <1>11, <2>1
    <3>2. f[j] = f[k]
      BY <1>1, <1>6, <3>1 DEF ContextOK
    <3> QED BY <1>11, <3>2
  <2> QED BY <1>9, <2>1 DEF ContextOK
<1>16. /\ \A k \in Sets(y) : k \in 1..n /\ f[k] \in Sets(x) /\ f[k] # i
       /\ \A k \in Sets(x) : k # i => \E j \in Sets(y) : k = f[j]
       /\ i \in Sets(x) <=> x.guards[i].flag
  <2>1. Sets(x) = {k \in 1..(n + 1) : x.guards[k].flag} /\ Sets(y) = {k \in 1..n : y.guards[k].flag}
    BY <1>6, <1>9 DEF Sets
  <2>2. \A k \in 1..n : f[k] \in 1..(n + 1) /\ f[k] # i
    BY <1>11
  <2>3. \A k \in Sets(y) : k \in 1..n /\ f[k] \in Sets(x) /\ f[k] # i
    BY <1>11, <2>1, <2>2
  <2>4. ASSUME NEW k \in Sets(x), k # i PROVE \E j \in Sets(y) : k = f[j]
    <3>1. PICK j \in 1..n : k = f[j]
      BY <1>11, <2>1, <2>4
    <3> QED BY <1>11, <2>1, <2>4, <3>1
  <2>5. i \in Sets(x) <=> x.guards[i].flag
    BY <1>5, <1>6, <2>1
  <2> QED BY <2>3, <2>4, <2>5
<1>17. ~Taking(x) /\ ~Taking(y)
  BY <1>2, <1>9 DEF Taking
<1>18. /\ spValue' \in [SpLocks -> BOOLEAN] /\ \A m \in SpLocks : spValue'[m] = spValue[m]
       /\ spIf' \in [SpCpu -> BOOLEAN] /\ \A q \in SpCpu : q # p => spIf'[q] = spIf[q]
       /\ spIf'[p] <=> spIf[p] \/ i \in Sets(x)
  BY <1>0, <1>6, <1>10, <1>16 DEF SpTypes
<1>19. FlagHere(x) => FlagHere(y) /\ i \notin Sets(x)
  BY <1>16, <1>17 DEF FlagHere
<1>20. FlagSaved(x) /\ i \in Sets(x) => FlagHere(y)
  BY <1>16, <1>17 DEF FlagHere, FlagSaved
<1>21. ASSUME FlagSaved(x), i \notin Sets(x) PROVE FlagSaved(y)
  <2>1. \A j, k \in Sets(y) : f[j] = f[k]
    BY <1>16, <1>21 DEF FlagSaved
  <2>2. \A j, k \in Sets(y) : j = k
    BY <1>11, <1>16, <2>1
  <2>3. Sets(y) # {}
    BY <1>16, <1>17, <1>21 DEF FlagSaved
  <2> QED BY <1>17, <2>2, <2>3 DEF FlagSaved
<1>22. WillDrop(x) => WillDrop(y)
  <2>1. \A k \in 1..Len(y.guards) : y.guards[k].lock # l /\ y.guards[k].lock \in SpLocks
                                    /\ \E j \in 1..Len(x.guards) : y.guards[k].lock = x.guards[j].lock
    <3> SUFFICES ASSUME NEW k \in 1..n
                 PROVE  y.guards[k].lock # l /\ y.guards[k].lock \in SpLocks
                        /\ \E j \in 1..Len(x.guards) : y.guards[k].lock = x.guards[j].lock
      BY <1>9
    <3>1. f[k] \in 1..(n + 1) /\ f[k] # i /\ y.guards[k] = x.guards[f[k]]
      BY <1>11
    <3> QED BY <1>6, <1>12, <3>1
  <2> QED BY <1>3, <1>4, <1>9, <2>1 DEF WillDrop
<1> QED BY <1>1, <1>8, <1>14, <1>15, <1>18, <1>19, <1>20, <1>21, <1>22, ContextStep
LEMMA InterruptedKeeps ==
    ASSUME SpinI, NEW p \in SpCpu, Interrupted(p)
    PROVE  SpinI'
<1>0. SpTypes /\ ContextsOK /\ OwnersHold /\ FlagsOK /\ HandlersDrop
  BY DEF SpinI
<1>1. /\ spIf[p] /\ Len(spRun[p]) = 1 /\ spValue' = spValue
      /\ spIf' = [spIf EXCEPT ![p] = FALSE]
      /\ spRun' = [spRun EXCEPT ![p] = Append(@, Context(SpHandler))]
  BY DEF Interrupted
<1>2. PICK h \in SpContexts : h = Context(SpHandler)
  <2>1. << >> \in SpGuards
    BY DEF SpGuards
  <2> QED BY <2>1, SpinAssumption DEF Context, SpContexts
<1>3. h.plan = SpHandler /\ h.at = "next" /\ h.guards = << >>
  BY <1>2 DEF Context
<1>4. /\ spRun' \in [SpCpu -> Seq(SpContexts)]
      /\ Len(spRun'[p]) = 2 /\ spRun'[p][1] = spRun[p][1] /\ spRun'[p][2] = h
      /\ \A q \in SpCpu : q # p => spRun'[q] = spRun[q]
  <2>1. spRun[p] \in Seq(SpContexts) /\ 1 \in 1..Len(spRun[p]) /\ Len(spRun[p]) + 1 = 2
    BY <1>0, <1>1 DEF SpTypes
  <2>2. /\ Append(spRun[p], h) \in Seq(SpContexts)
        /\ Len(Append(spRun[p], h)) = Len(spRun[p]) + 1
        /\ \A i \in 1..Len(spRun[p]) : Append(spRun[p], h)[i] = spRun[p][i]
        /\ Append(spRun[p], h)[Len(spRun[p]) + 1] = h
    BY <2>1, AppendProperties
  <2>3. spRun'[p] = Append(spRun[p], h) /\ \A q \in SpCpu : q # p => spRun'[q] = spRun[q]
    BY <1>0, <1>1, <1>2 DEF SpTypes
  <2>4. spRun' \in [SpCpu -> Seq(SpContexts)]
    BY <1>0, <1>1, <1>2, <2>2 DEF SpTypes
  <2> QED BY <2>1, <2>2, <2>3, <2>4
<1>5. SpTypes'
  BY <1>0, <1>1, <1>4 DEF SpTypes
<1>6. ContextOK(h) /\ FlagHere(h) /\ WillDrop(h) /\ \A l \in SpLocks : ~Owns(h, l)
  BY <1>3, SpinAssumption DEF ContextOK, FlagHere, Sets, Taking, WillDrop, Owns, Holds
<1>7. \A q \in SpCpu : \A i \in 1..Len(spRun'[q]) :
         \/ q = p /\ i = 2 /\ spRun'[q][i] = h
         \/ i \in 1..Len(spRun[q]) /\ spRun'[q][i] = spRun[q][i]
  BY <1>0, <1>1, <1>4 DEF SpTypes
<1>8. \A q \in SpCpu : \A i \in 1..Len(spRun[q]) :
         i \in 1..Len(spRun'[q]) /\ spRun'[q][i] = spRun[q][i]
  BY <1>0, <1>1, <1>4 DEF SpTypes
<1>9. ContextsOK'
  BY <1>0, <1>6, <1>7 DEF ContextsOK
<1>10. ASSUME NEW l \in SpLocks PROVE OwnerHolds(l)'
  <2>1. OwnerHolds(l) /\ spValue'[l] = spValue[l]
    BY <1>0, <1>1 DEF OwnersHold
  <2>2. \A q \in SpCpu : \A i \in 1..Len(spRun'[q]) : Owns(spRun'[q][i], l) =>
           i \in 1..Len(spRun[q]) /\ Owns(spRun[q][i], l)
    BY <1>6, <1>7
  <2>3. \A q \in SpCpu : \A i \in 1..Len(spRun'[q]) : Owns(spRun'[q][i], l) => spValue'[l]
    BY <2>1, <2>2 DEF OwnerHolds
  <2>4. \A q, r \in SpCpu : \A i \in 1..Len(spRun'[q]) : \A j \in 1..Len(spRun'[r]) :
           Owns(spRun'[q][i], l) /\ Owns(spRun'[r][j], l) => q = r /\ i = j
    BY <2>1, <2>2 DEF OwnerHolds
  <2>5. spValue'[l] => \E q \in SpCpu : \E i \in 1..Len(spRun'[q]) : Owns(spRun'[q][i], l)
    BY <1>8, <2>1 DEF OwnerHolds
  <2> QED BY <2>3, <2>4, <2>5 DEF OwnerHolds
<1>11. FlagsOK'
  BY <1>0, <1>1, <1>4, <1>6 DEF FlagsOK, SpTypes
<1>12. HandlersDrop'
  BY <1>0, <1>4, <1>6 DEF HandlersDrop
<1> QED BY <1>5, <1>9, <1>10, <1>11, <1>12 DEF SpinI, OwnersHold

(* A handler that is done has no guards left, and the flag is set again. *)
LEMMA HandlerReturnsKeeps ==
    ASSUME SpinI, NEW p \in SpCpu, HandlerReturns(p)
    PROVE  SpinI'
<1>0. SpTypes /\ ContextsOK /\ OwnersHold /\ FlagsOK /\ HandlersDrop
  BY DEF SpinI
<1>1. /\ Len(spRun[p]) = 2 /\ Now(p).plan = << >> /\ spValue' = spValue
      /\ spIf' = [spIf EXCEPT ![p] = TRUE] /\ spRun' = [spRun EXCEPT ![p] = Front(@)]
  BY DEF HandlerReturns
<1>2. PICK h \in SpContexts : h = spRun[p][2] /\ h = Now(p)
  BY <1>0, <1>1, RunningContext
<1>3. \A l \in SpLocks : ~Owns(h, l)
  <2>1. \A i \in 1..Len(h.guards) : HasDrop(h.plan, h.guards[i].lock)
    BY <1>0, <1>1, <1>2 DEF HandlersDrop, WillDrop
  <2>2. \A l : ~HasDrop(h.plan, l)
    BY <1>1, <1>2 DEF HasDrop
  <2> QED BY <2>1, <2>2 DEF Owns, Holds
<1>4. /\ spRun' \in [SpCpu -> Seq(SpContexts)]
      /\ Len(spRun'[p]) = 1 /\ spRun'[p][1] = spRun[p][1]
      /\ \A q \in SpCpu : q # p => spRun'[q] = spRun[q]
  <2>1. spRun[p] \in Seq(SpContexts) /\ 1 \in 1..Len(spRun[p]) /\ Len(spRun[p]) - 1 = 1
    BY <1>0, <1>1 DEF SpTypes
  <2>2. 1 \in Int /\ \A i \in 1..1 : spRun[p][i] \in SpContexts
    BY <2>1, ElementOfSeq
  <2>3. /\ SubSeq(spRun[p], 1, 1) \in Seq(SpContexts)
        /\ Len(SubSeq(spRun[p], 1, 1)) = IF 1 <= 1 THEN 1 - 1 + 1 ELSE 0
        /\ \A i \in 1..(1 - 1 + 1) : SubSeq(spRun[p], 1, 1)[i] = spRun[p][1 + i - 1]
    BY ONLY <2>2, SubSeqProperties
  <2>4. Front(spRun[p]) = SubSeq(spRun[p], 1, 1)
    BY <2>1 DEF Front
  <2>5. /\ Front(spRun[p]) \in Seq(SpContexts) /\ Len(Front(spRun[p])) = 1
        /\ Front(spRun[p])[1] = spRun[p][1]
    BY <2>3, <2>4
  <2>6. spRun'[p] = Front(spRun[p]) /\ \A q \in SpCpu : q # p => spRun'[q] = spRun[q]
    BY <1>0, <1>1 DEF SpTypes
  <2>7. spRun' \in [SpCpu -> Seq(SpContexts)]
    BY <1>0, <1>1, <2>5 DEF SpTypes
  <2> QED BY <2>5, <2>6, <2>7
<1>5. SpTypes'
  BY <1>0, <1>1, <1>4 DEF SpTypes
<1>6. \A q \in SpCpu : \A i \in 1..Len(spRun'[q]) :
         i \in 1..Len(spRun[q]) /\ spRun'[q][i] = spRun[q][i]
  BY <1>0, <1>1, <1>4 DEF SpTypes
<1>7. \A q \in SpCpu : \A i \in 1..Len(spRun[q]) :
         \/ q = p /\ i = 2 /\ spRun[q][i] = h
         \/ i \in 1..Len(spRun'[q]) /\ spRun'[q][i] = spRun[q][i]
  <2>1. ASSUME NEW i \in 1..Len(spRun[p]) PROVE i \in {1, 2}
    BY <1>1
  <2>2. 1 \in 1..Len(spRun'[p])
    BY <1>4
  <2> QED BY <1>2, <1>4, <2>1, <2>2
<1>8. ContextsOK'
  BY <1>0, <1>6 DEF ContextsOK
<1>9. ASSUME NEW l \in SpLocks PROVE OwnerHolds(l)'
  <2>1. OwnerHolds(l) /\ spValue'[l] = spValue[l]
    BY <1>0, <1>1 DEF OwnersHold
  <2>2. \A q \in SpCpu : \A i \in 1..Len(spRun'[q]) : Owns(spRun'[q][i], l) => spValue'[l]
    BY <1>6, <2>1 DEF OwnerHolds
  <2>3. \A q, r \in SpCpu : \A i \in 1..Len(spRun'[q]) : \A j \in 1..Len(spRun'[r]) :
           Owns(spRun'[q][i], l) /\ Owns(spRun'[r][j], l) => q = r /\ i = j
    BY <1>6, <2>1 DEF OwnerHolds
  <2>4. \A q \in SpCpu : \A i \in 1..Len(spRun[q]) : Owns(spRun[q][i], l) =>
           i \in 1..Len(spRun'[q]) /\ Owns(spRun'[q][i], l)
    BY <1>3, <1>7
  <2>5. spValue'[l] => \E q \in SpCpu : \E i \in 1..Len(spRun'[q]) : Owns(spRun'[q][i], l)
    BY <2>1, <2>4 DEF OwnerHolds
  <2> QED BY <2>2, <2>3, <2>5 DEF OwnerHolds
<1>10. FlagsOK'
  BY <1>0, <1>1, <1>4 DEF FlagsOK, SpTypes
<1>11. HandlersDrop'
  <2> SUFFICES ASSUME NEW q \in SpCpu, Len(spRun'[q]) = 2 PROVE WillDrop(spRun'[q][2])
    BY DEF HandlersDrop
  <2>1. q # p
    <3>1. Len(spRun'[p]) # 2
      BY ONLY <1>4
    <3> QED BY ONLY <3>1, Len(spRun'[q]) = 2
  <2> QED BY <1>0, <1>4, <2>1 DEF HandlersDrop
<1> QED BY <1>5, <1>8, <1>9, <1>10, <1>11 DEF SpinI, OwnersHold

LEMMA SpinStarts == SpInit => SpinI
<1> SUFFICES ASSUME SpInit PROVE SpinI
  OBVIOUS
<1>1. PICK plan \in SpPlans : spRun = [p \in SpCpu |-> <<Context(plan[p])>>]
  BY DEF SpInit
<1>2. \A p \in SpCpu : /\ Context(plan[p]) \in SpContexts
                       /\ Context(plan[p]).at = "next" /\ Context(plan[p]).guards = << >>
  <2>1. << >> \in SpGuards /\ \A p \in SpCpu : plan[p] \in Seq(SpOps)
    BY SpinAssumption DEF SpGuards
  <2> QED BY <2>1 DEF Context, SpContexts
<1>3. \A p \in SpCpu : /\ Len(spRun[p]) = 1 /\ spRun[p][1] = Context(plan[p])
                       /\ spRun[p] \in Seq(SpContexts)
  BY <1>1, <1>2
<1>4. SpTypes
  BY <1>1, <1>2, <1>3 DEF SpInit, SpTypes
<1>5. \A p \in SpCpu : \A i \in 1..Len(spRun[p]) :
         /\ i = 1 /\ ContextOK(spRun[p][i]) /\ FlagHere(spRun[p][i])
         /\ \A l \in SpLocks : ~Owns(spRun[p][i], l)
  <2> SUFFICES ASSUME NEW p \in SpCpu, NEW i \in 1..Len(spRun[p])
               PROVE  /\ i = 1 /\ ContextOK(spRun[p][i]) /\ FlagHere(spRun[p][i])
                      /\ \A l \in SpLocks : ~Owns(spRun[p][i], l)
    OBVIOUS
  <2>1. i = 1
    <3>1. Len(spRun[p]) = 1
      BY <1>3
    <3> QED BY ONLY <3>1, i \in 1..Len(spRun[p])
  <2>2. PICK x \in SpContexts : x = spRun[p][i] /\ x.at = "next" /\ x.guards = << >>
    BY <1>2, <1>3, <2>1
  <2>3. ContextOK(x) /\ FlagHere(x) /\ \A l \in SpLocks : ~Owns(x, l)
    BY <2>2 DEF ContextOK, FlagHere, Sets, Taking, Owns, Holds
  <2> QED BY <2>1, <2>2, <2>3
<1>6. ContextsOK /\ HandlersDrop
  BY <1>3, <1>5 DEF ContextsOK, HandlersDrop
<1>7. OwnersHold
  BY <1>5 DEF SpInit, OwnersHold, OwnerHolds
<1>8. FlagsOK
  <2>1. \A p \in SpCpu : spIf[p] /\ Len(spRun[p]) = 1 /\ 1 \in 1..Len(spRun[p])
    BY <1>3 DEF SpInit
  <2> QED BY <1>5, <2>1 DEF FlagsOK
<1> QED BY <1>4, <1>6, <1>7, <1>8 DEF SpinI

LEMMA SpinKeeps == SpinI /\ [SpinNext]_spVars => SpinI'
<1> SUFFICES ASSUME SpinI, [SpinNext]_spVars PROVE SpinI'
  OBVIOUS
<1>1. CASE UNCHANGED spVars
  <2>1. UNCHANGED <<spValue, spIf, spRun>>
    BY <1>1 DEF spVars
  <2> QED BY <2>1 DEF SpinI, SpTypes, ContextsOK, OwnersHold, OwnerHolds, FlagsOK, HandlersDrop
<1> QED BY <1>1, InterruptGuardKeeps, CasKeeps, ForceUnlockKeeps, RestoreFlagKeeps,
           InterruptedKeeps, HandlerReturnsKeeps DEF SpinNext, SpStep

(* The contexts that a lock counts as its holders are its owners. *)
LEMMA OneGuardHolds == SpinI => OneGuard
<1> SUFFICES ASSUME SpinI, NEW l \in SpLocks
             PROVE  Cardinality({c \in Contexts : Holds(ContextOf(c), l)
                        /\ ~(ContextOf(c).at = "restore" /\ Head(ContextOf(c).plan).lock = l)})
                      = IF spValue[l] THEN 1 ELSE 0
  BY DEF OneGuard
<1> DEFINE held == {c \in Contexts : Holds(ContextOf(c), l)
                        /\ ~(ContextOf(c).at = "restore" /\ Head(ContextOf(c).plan).lock = l)}
<1>1. OwnerHolds(l) /\ spValue[l] \in BOOLEAN
  BY DEF SpinI, OwnersHold, SpTypes
<1>2. \A c \in held : \E p \in SpCpu : \E i \in 1..Len(spRun[p]) :
         c = <<p, i>> /\ Owns(spRun[p][i], l)
  BY DEF Contexts, ContextOf, Owns
<1>3. \A p \in SpCpu : \A i \in 1..Len(spRun[p]) : Owns(spRun[p][i], l) => <<p, i>> \in held
  BY DEF Contexts, ContextOf, Owns
<1> HIDE DEF held
<1>4. CASE spValue[l]
  <2>0. PICK p \in SpCpu : \E i \in 1..Len(spRun[p]) : Owns(spRun[p][i], l)
    BY <1>1, <1>4 DEF OwnerHolds
  <2>1. PICK i \in 1..Len(spRun[p]) : Owns(spRun[p][i], l)
    BY <2>0
  <2>2. held = {<<p, i>>}
    BY <1>1, <1>2, <1>3, <2>1 DEF OwnerHolds
  <2> QED BY <1>4, <2>2, FS_Singleton DEF held
<1>5. CASE ~spValue[l]
  <2>1. held = {}
    BY <1>1, <1>2, <1>5 DEF OwnerHolds
  <2> QED BY <1>5, <2>1, FS_EmptySet DEF held
<1> QED BY <1>4, <1>5

LEMMA NotInterruptedHolds == SpinI => NotInterrupted
<1> SUFFICES ASSUME SpinI, NEW p \in SpCpu,
                    spRun[p][1].guards # << >> => spRun[p][1].guards[1].flag
             PROVE  /\ spRun[p][1].guards # << >> => ~spIf[p] /\ Len(spRun[p]) = 1
                    /\ Len(spRun[p]) = 1 /\ spRun[p][1].at = "next" /\ spRun[p][1].guards = << >>
                          => spIf[p]
  BY DEF NotInterrupted
<1>1. PICK x \in SpContexts : x = spRun[p][1]
  BY RunningContext DEF SpinI
<1>2. x.guards # << >> => 1 \in Sets(x)
  <2>1. x.guards \in Seq([lock : SpLocks, flag : BOOLEAN])
    BY GuardsAreOfLocks
  <2> QED BY <1>1, <2>1 DEF Sets
<1>3. x.at = "next" /\ x.guards = << >> => Sets(x) = {} /\ ~Taking(x)
  BY DEF Sets, Taking
<1>4. Len(spRun[p]) \in {1, 2} /\ FlagsOK
  BY DEF SpinI, SpTypes
<1> QED BY <1>1, <1>2, <1>3, <1>4 DEF FlagsOK, FlagHere, FlagSaved

(* Spinlocks exclude, and a thread is not interrupted under one, for any    *)
(* number of processors, whatever locks threads and handlers take.          *)
THEOREM SpinlocksHold == SpinSpec => []SpinInv
<1>1. SpinI => SpinInv
  BY OneGuardHolds, NotInterruptedHolds DEF SpinInv
<1> QED BY <1>1, SpinStarts, SpinKeeps, PTL DEF SpinSpec

-----------------------------------------------------------------------------
(* Mutex.  Mutual exclusion rests on the word `value` alone: whoever is     *)
(* woken, and how often, does not matter, because no thread gets to "held"  *)
(* but by an exchange that finds the word FALSE.  The balance of sleeps and *)
(* wakes rests on the slot alone.                                           *)

MutexPC == WaitPC \cup SignalPC \cup {"idle", "held"}

LockInv == /\ value \in BOOLEAN
           /\ pc \in [Thread -> MutexPC]
           /\ MutualExclusion

\* A step of t that neither enters nor leaves "held" and spares the word.
LEMMA AwayFromLock ==
    ASSUME LockInv, NEW t \in Thread, NEW from, NEW to \in MutexPC,
           Goto(t, from, to), from # "held", to # "held", UNCHANGED value
    PROVE  LockInv'
<1>1. pc' \in [Thread -> MutexPC]
  BY DEF LockInv, Goto
<1>2. Holders' = Holders
  BY DEF LockInv, Goto, Holders
<1>3. QED
  BY <1>1, <1>2 DEF LockInv, MutualExclusion

\* An exchange that finds the word FALSE makes t the only holder.
LEMMA Acquires ==
    ASSUME LockInv, NEW t \in Thread, NEW from, ~value,
           Goto(t, from, "held"), value' = TRUE
    PROVE  LockInv'
<1>1. Holders = {}
  BY DEF LockInv, MutualExclusion
<1>2. pc' \in [Thread -> MutexPC]
  BY DEF LockInv, Goto, MutexPC
<1>3. Holders' = {t}
  BY <1>1 DEF LockInv, Goto, Holders
<1>4. QED
  BY <1>2, <1>3 DEF LockInv, MutualExclusion

\* One that fails leaves everything as it is, and t goes on to wait.
LEMMA Fails ==
    ASSUME LockInv, NEW t \in Thread, NEW from, NEW to \in MutexPC, value,
           Goto(t, from, to), from # "held", to # "held", value' = TRUE
    PROVE  LockInv'
BY AwayFromLock DEF LockInv

\* TryLock of wait_for.
LEMMA TryLockInv ==
    ASSUME LockInv, NEW t \in Thread, TryLock(t)
    PROVE  LockInv'
<1>1. value' = TRUE /\ value \in BOOLEAN
  BY DEF TryLock, LockInv
<1>2. CASE value
  <2>1. Goto(t, "try", "reg") \/ Goto(t, "retry", "try")
    BY <1>2 DEF TryLock, Tried
  <2>2. "reg" \in MutexPC /\ "try" \in MutexPC
    BY DEF MutexPC, WaitPC
  <2>3. QED
    BY <1>1, <1>2, <2>1, <2>2, Fails
<1>3. CASE ~value
  <2>1. Goto(t, "try", "held") \/ Goto(t, "retry", "held")
    BY <1>3 DEF TryLock, Tried
  <2>2. QED
    BY <1>1, <1>3, <2>1, Acquires
<1>4. QED
  BY <1>1, <1>2, <1>3

\* Mutex::try_lock, which does not wait.
LEMMA TryInv ==
    ASSUME LockInv, NEW t \in Thread, try_lock(t)
    PROVE  LockInv'
<1>1. value' = TRUE /\ value \in BOOLEAN
  BY DEF try_lock, LockInv
<1>2. CASE value
  <2>1. Goto(t, "idle", "idle")
    BY <1>2 DEF try_lock
  <2>2. "idle" \in MutexPC
    BY DEF MutexPC
  <2>3. QED
    BY <1>1, <1>2, <2>1, <2>2, Fails
<1>3. CASE ~value
  BY <1>1, <1>3, Acquires DEF try_lock
<1>4. QED
  BY <1>1, <1>2, <1>3

\* The holder is the only one, so its release leaves none.
LEMMA UnlockInv ==
    ASSUME LockInv, NEW t \in Thread, force_unlock(t)
    PROVE  LockInv'
<1>1. value' = FALSE /\ t \in Holders
  BY DEF force_unlock, Goto, Holders
<1>2. Goto(t, "held", "take")
  BY <1>1 DEF force_unlock, LockInv, MutualExclusion
<1>3. pc' \in [Thread -> MutexPC]
  BY <1>2 DEF LockInv, Goto, MutexPC, SignalPC
<1>4. Holders' = {}
  BY <1>1, <1>2 DEF LockInv, Goto, Holders, MutualExclusion
<1>5. QED
  BY <1>1, <1>3, <1>4 DEF LockInv, MutualExclusion

LEMMA NextInv == LockInv /\ [Next]_vars => LockInv'
<1> SUFFICES ASSUME LockInv, [Next]_vars PROVE LockInv'
  OBVIOUS
<1>0. {"try", "reg", "sleep", "asleep", "timer", "retry", "take", "wake", "idle"}
         \subseteq MutexPC
  BY DEF MutexPC, WaitPC, SignalPC
<1>1. ASSUME NEW t \in Thread, lock(t) PROVE LockInv'
  BY <1>0, <1>1, AwayFromLock DEF lock
<1>2. ASSUME NEW t \in Thread, try_lock(t) PROVE LockInv'
  BY <1>2, TryInv
<1>3. ASSUME NEW t \in Thread, Step(t) PROVE LockInv'
  <2>1. CASE TryLock(t)
    BY <2>1, TryLockInv
  <2>2. CASE force_unlock(t)
    BY <2>2, UnlockInv
  <2>3. CASE Register(t) /\ UNCHANGED value
    BY <1>0, <2>3, AwayFromLock DEF Register
  <2>4. CASE TimerEnds(t) /\ UNCHANGED value
    BY <1>0, <2>4, AwayFromLock DEF TimerEnds
  <2>5. CASE SleepThread(t) /\ UNCHANGED value
    BY <1>0, <2>5, AwayFromLock DEF SleepThread
  <2>6. CASE Woken(t) /\ UNCHANGED value
    BY <1>0, <2>6, AwayFromLock DEF Woken
  <2>7. CASE Take(t, "idle") /\ UNCHANGED value
    BY <1>0, <2>7, AwayFromLock DEF Take
  <2>8. CASE Wake(t, "idle") /\ UNCHANGED value
    BY <1>0, <2>8, AwayFromLock DEF Wake
  <2>9. QED
    BY <1>3, <2>1, <2>2, <2>3, <2>4, <2>5, <2>6, <2>7, <2>8 DEF Step, WaitStep
<1>4. CASE UNCHANGED vars
  BY <1>4 DEF vars, signalVars, LockInv, MutualExclusion, Holders
<1>5. QED
  BY <1>1, <1>2, <1>3, <1>4 DEF Next

(* At most one thread has a guard of the mutex at a time, and the word says *)
(* whether one has, for any number of threads and whatever the scheduler    *)
(* does (`try_lock` and `force_unlock` of BinarySemaphore).                 *)
THEOREM LockIsExclusive == Spec => []MutualExclusion
<1>1. Init => LockInv
  BY DEF Init, SignalInit, LockInv, MutualExclusion, Holders, MutexPC
<1>2. LockInv => MutualExclusion
  BY DEF LockInv
<1>3. QED
  BY <1>1, <1>2, NextInv, PTL DEF Spec

-----------------------------------------------------------------------------
LEMMA NextWakes == LockInv /\ WakeInv /\ [Next]_vars => WakeInv'
<1> SUFFICES ASSUME LockInv, WakeInv, [Next]_vars PROVE WakeInv'
  OBVIOUS
<1>0. pc \in [Thread -> MutexPC] /\ value \in BOOLEAN
  BY DEF LockInv
<1>1. ASSUME NEW t \in Thread, lock(t) \/ try_lock(t) \/ force_unlock(t) PROVE WakeInv'
  <2>1. PICK to : /\ pc' = [pc EXCEPT ![t] = to] /\ pc[t] \in {"idle", "held"}
                  /\ to \in {"try", "idle", "held", "take"}
    BY <1>1 DEF lock, try_lock, force_unlock, Goto
  <2>2. UNCHANGED <<slot, counter, taken>>
    BY <1>1 DEF lock, try_lock, force_unlock
  <2>3. QED
    BY <1>0, <2>1, <2>2, Elsewhere DEF SignalPlaces
<1>2. ASSUME NEW t \in Thread, TryLock(t) PROVE WakeInv'
  <2>1. "held" \notin SignalPlaces
    BY DEF SignalPlaces
  <2>2. (~value) \in BOOLEAN
    OBVIOUS
  <2>3. QED
    BY <1>0, <1>2, <2>1, <2>2, TriedKeeps DEF TryLock
<1>3. ASSUME NEW t \in Thread, WaitStep(t) PROVE WakeInv'
  BY <1>0, <1>3, WaitStepKeeps
<1>4. ASSUME NEW t \in Thread, Take(t, "idle") \/ Wake(t, "idle") PROVE WakeInv'
  <2>1. "idle" \notin SignalPlaces
    BY DEF SignalPlaces
  <2>2. QED
    BY <1>0, <1>4, <2>1, TakeKeeps, WakeKeeps
<1>5. CASE UNCHANGED vars
  BY <1>5, ObjectRests DEF vars
<1>6. QED
  BY <1>1, <1>2, <1>3, <1>4, <1>5 DEF Next, Step

LEMMA InitAll == Init => LockInv /\ WakeInv
<1> SUFFICES ASSUME Init PROVE LockInv /\ WakeInv
  OBVIOUS
<1>1. LockInv
  BY DEF Init, SignalInit, LockInv, MutualExclusion, Holders, MutexPC
<1>2. WakeInv
  <2>1. "idle" \notin SignalPlaces
    BY DEF SignalPlaces
  <2>2. QED
    BY <2>1, SignalStarts DEF Init
<1>3. QED
  BY <1>1, <1>2

(* The sleep_counter of a thread that uses a mutex stays within -1 and 1,   *)
(* and the slot and the hands hold threads or nothing.  The bound on the    *)
(* counter is the one that needs the balance of sleeps and wakes: `wake` of *)
(* a handle that was used before would take it to -2.                       *)
THEOREM MutexTypes == Spec => []TypeOK
<1>1. LockInv /\ WakeInv => TypeOK
  BY DEF LockInv, WakeInv, TypeOK, SignalTypeOK, MutexPC
<1>2. QED
  BY <1>1, InitAll, NextInv, NextWakes, PTL DEF Spec

(* Every registration of a thread with a mutex is answered by exactly one   *)
(* wake, in whichever order the wake and the sleep come: no thread sleeps   *)
(* out of the reach of the next unlock, and no wake is left over (`sleep`,  *)
(* `take` and `signal` of SignallingObject, used by `lock` and              *)
(* `force_unlock`).                                                         *)
THEOREM MutexWakesBalance == Spec => []OneWakePerSleep
BY InitAll, NextInv, NextWakes, WakesBalance, PTL DEF Spec

-----------------------------------------------------------------------------
(* Timers *)

TmStage == {"start", "alive", "schedule", "cache", "sleep", "asleep", "over"}
TmKind == {"OneShot", "Async", "Window"}
TmEvent == [at : Nat, kind : TmKind, who : TmThread]

TmTypes ==
    /\ tmPlan \in [TmThread -> [kind : TmKind, for : Nat]] /\ tmNow \in Nat \ {0}
    /\ tmEvents \in Seq(TmEvent) /\ tmNext \in Nat
    /\ tmPc \in [TmThread -> TmStage] /\ tmCpuPc \in [TmCpu -> {"run", "lock", "fire", "panic"}]
    /\ tmDue \in [TmThread -> Nat] /\ tmSleep \in [TmThread -> Int]
    /\ tmMsgs \in Nat /\ tmEnded \in [TmThread -> Nat]

Scheduled == {"cache", "sleep", "asleep", "over"}
Listed(t) == \E i \in 1..Len(tmEvents) : tmEvents[i].who = t
EventsInOrder == \A i, j \in 1..Len(tmEvents) : i < j => tmEvents[i].at <= tmEvents[j].at
ListedOnce == \A i, j \in 1..Len(tmEvents) : tmEvents[i].who = tmEvents[j].who => i = j

\* An event is the one its thread has scheduled.
EventsOwned == \A i \in 1..Len(tmEvents) :
    LET w == tmEvents[i].who
    IN tmEvents[i].at = tmDue[w] /\ tmEvents[i].kind = tmPlan[w].kind /\ tmPc[w] \in Scheduled

\* What is known of a thread and its timer.
TimerMeans(t) ==
    /\ tmPc[t] # "start" => tmDue[t] > tmPlan[t].for
    /\ tmEnded[t] # 0 => tmEnded[t] > tmPlan[t].for
    /\ tmPc[t] \in {"start", "alive", "schedule"} => tmSleep[t] = 0 /\ tmEnded[t] = 0
    /\ tmPc[t] \in {"cache", "sleep", "asleep"} /\ ~Listed(t) => tmNow >= tmDue[t]
    /\ IF tmPlan[t].kind = "Window" THEN tmPc[t] \notin {"sleep", "asleep"} /\ (Listed(t) => tmEnded[t] = 0)
       ELSE /\ tmPc[t] \in {"cache", "sleep"} => tmSleep[t] = IF Listed(t) THEN 0 ELSE -1
            /\ tmPc[t] = "asleep" => tmSleep[t] = IF Listed(t) THEN 1 ELSE 0

\* A message in the queue of the window comes from a timer that is over.
TimedOut == {t \in TmThread : tmPlan[t].kind = "Window" /\ tmEnded[t] # 0}
MessagesCounted == tmMsgs <= Cardinality(TimedOut)

CacheInTime == tmEvents # <<>> /\ tmLock = Free => tmNext <= tmEvents[1].at

TimerI == /\ TmTypes /\ EventsInOrder /\ ListedOnce /\ EventsOwned /\ MessagesCounted /\ CacheInTime /\ TmStops
          /\ \A t \in TmThread : TimerMeans(t)

-----------------------------------------------------------------------------
(* Sorting *)

\* Before(s, i): the places whose events come no later than that at i.
Before(s, i) == {j \in 1..Len(s) : s[j].at < s[i].at \/ (s[j].at = s[i].at /\ j <= i)}

LEMMA EventsOf ==
    ASSUME NEW s \in Seq(TmEvent)
    PROVE  /\ Len(s) \in Nat
           /\ \A k \in 1..Len(s) : /\ s[k] \in TmEvent /\ s[k].at \in Nat
                                   /\ s[k].kind \in TmKind /\ s[k].who \in TmThread
<1>1. Len(s) \in Nat /\ \A k \in 1..Len(s) : s[k] \in TmEvent
  BY LenProperties, ElementOfSeq
<1>2. \A e \in TmEvent : e.at \in Nat /\ e.kind \in TmKind /\ e.who \in TmThread
  BY DEF TmEvent
<1> QED BY <1>1, <1>2

LEMMA BeforeFinite ==
    ASSUME NEW s \in Seq(TmEvent), NEW i \in 1..Len(s)
    PROVE  IsFiniteSet(Before(s, i)) /\ Rank(s, i) = Cardinality(Before(s, i)) /\ Rank(s, i) \in 1..Len(s)
<1>1. Len(s) \in Nat /\ IsFiniteSet(1..Len(s)) /\ Cardinality(1..Len(s)) = Len(s)
  BY FS_Interval, LenProperties
<1>2. Before(s, i) \in SUBSET (1..Len(s))
  BY DEF Before
<1>3. IsFiniteSet(Before(s, i)) /\ Cardinality(Before(s, i)) <= Len(s)
  BY <1>1, <1>2, FS_Subset
<1>4. i \in Before(s, i)
  BY <1>1 DEF Before
<1>5. Cardinality(Before(s, i)) \in Nat /\ Cardinality(Before(s, i)) # 0
  BY <1>3, <1>4, FS_CardinalityType, FS_EmptySet
<1>6. Rank(s, i) = Cardinality(Before(s, i))
  BY DEF Rank, Before
<1>7. Cardinality(Before(s, i)) \in 1..Len(s)
  BY <1>1, <1>3, <1>5
<1> QED BY <1>3, <1>6, <1>7

\* Ranks follow deadlines, and places among equal ones.
LEMMA RanksDiffer ==
    ASSUME NEW s \in Seq(TmEvent), NEW i \in 1..Len(s), NEW j \in 1..Len(s),
           s[i].at < s[j].at \/ (s[i].at = s[j].at /\ i < j)
    PROVE  Rank(s, i) < Rank(s, j)
<1>0. Len(s) \in Nat /\ \A k \in 1..Len(s) : s[k].at \in Nat
  BY EventsOf
<1>1. Before(s, i) \in SUBSET Before(s, j)
  BY <1>0 DEF Before
<1>2. j \in Before(s, j) /\ j \notin Before(s, i)
  BY <1>0 DEF Before
<1>3. Cardinality(Before(s, i)) <= Cardinality(Before(s, j))
      /\ Cardinality(Before(s, i)) # Cardinality(Before(s, j))
  BY <1>1, <1>2, BeforeFinite, FS_Subset
<1> QED BY <1>3, BeforeFinite

\* The sorted list has the events of the list, each once, in order.
Sorts(p, s) ==
    /\ p \in [1..Len(s) -> 1..Len(s)]
    /\ \A i, j \in 1..Len(s) : p[i] = p[j] => i = j
    /\ \A i \in 1..Len(s) : \E k \in 1..Len(s) : p[k] = i
    /\ \A k \in 1..Len(s) : Sorted(s)[k] = s[p[k]]

LEMMA SortedIs ==
    ASSUME NEW s \in Seq(TmEvent)
    PROVE  /\ Sorted(s) \in Seq(TmEvent) /\ Len(Sorted(s)) = Len(s)
           /\ \A i, j \in 1..Len(s) : i < j => Sorted(s)[i].at <= Sorted(s)[j].at
           /\ \E p : Sorts(p, s)
<1> DEFINE N == 1..Len(s)
           f == [i \in N |-> Rank(s, i)]
           p == [k \in N |-> CHOOSE i \in N : Rank(s, i) = k]
<1>0. Len(s) \in Nat /\ IsFiniteSet(N) /\ (\A k \in N : s[k] \in TmEvent /\ s[k].at \in Nat) /\ \A k \in N : k \in Nat
  <2>1. Len(s) \in Nat /\ \A k \in N : s[k] \in TmEvent /\ s[k].at \in Nat
    BY EventsOf
  <2>2. IsFiniteSet(N)
    BY <2>1, FS_Interval
  <2>3. \A k \in N : k \in Nat
    BY <2>1
  <2> QED BY <2>1, <2>2, <2>3
<1>1. \A i \in N : Rank(s, i) \in N
  BY BeforeFinite
<1>2. \A i, j \in N : Rank(s, i) = Rank(s, j) => i = j
  <2> SUFFICES ASSUME NEW i \in N, NEW j \in N, i # j PROVE Rank(s, i) # Rank(s, j)
    OBVIOUS
  <2>1. \/ s[i].at < s[j].at \/ (s[i].at = s[j].at /\ i < j)
        \/ s[j].at < s[i].at \/ (s[j].at = s[i].at /\ j < i)
    BY <1>0
  <2>2. Rank(s, i) < Rank(s, j) \/ Rank(s, j) < Rank(s, i)
    BY <2>1, RanksDiffer
  <2> QED BY <1>0, <1>1, <2>2
<1>3. f \in Injection(N, N)
  BY <1>1, <1>2 DEF Injection, IsInjective
<1>4. f \in Surjection(N, N)
  BY <1>0, <1>3, FS_Injection
<1>5. \A k \in N : \E i \in N : Rank(s, i) = k
  BY <1>4 DEF Surjection
<1>6. \A k \in N : p[k] \in N /\ Rank(s, p[k]) = k
  BY <1>5
<1>7. p \in [N -> N] /\ (\A i, j \in N : p[i] = p[j] => i = j)
  BY <1>6
<1>8. \A i \in N : p[Rank(s, i)] = i
  BY <1>1, <1>2, <1>6
<1>9. \A k \in N : Sorted(s)[k] = s[p[k]]
  BY DEF Sorted
<1> HIDE DEF p
<1>10. Sorts(p, s)
  BY <1>1, <1>7, <1>8, <1>9 DEF Sorts
<1>11. Sorted(s) \in [N -> TmEvent]
  <2>1. Sorted(s) = [k \in N |-> Sorted(s)[k]]
    BY DEF Sorted
  <2>2. \A k \in N : Sorted(s)[k] \in TmEvent
    BY <1>0, <1>6, <1>9
  <2> QED BY <2>1, <2>2
<1>12. Sorted(s) \in Seq(TmEvent) /\ Len(Sorted(s)) = Len(s)
  BY <1>0, <1>11, LenProperties
<1>13. ASSUME NEW i \in N, NEW j \in N, i < j PROVE Sorted(s)[i].at <= Sorted(s)[j].at
  <2>1. s[p[j]].at < s[p[i]].at => j < i
    BY <1>6, RanksDiffer
  <2>2. s[p[i]].at \in Nat /\ s[p[j]].at \in Nat /\ i \in Nat /\ j \in Nat
    BY <1>0, <1>6
  <2>3. s[p[i]].at <= s[p[j]].at
    BY <1>13, <2>1, <2>2
  <2> QED BY <1>9, <2>3
<1> QED BY <1>10, <1>12, <1>13

-----------------------------------------------------------------------------
(* What happens to the list *)

LEMMA ScheduledEvents ==
    ASSUME TmTypes, ListedOnce, NEW t \in TmThread, NEW e \in TmEvent, e.who = t, ~Listed(t),
           tmEvents' = Sorted(Append(tmEvents, e))
    PROVE  /\ tmEvents' \in Seq(TmEvent) /\ EventsInOrder' /\ ListedOnce'
           /\ \A k \in 1..Len(tmEvents') : tmEvents'[k] = e \/ \E i \in 1..Len(tmEvents) : tmEvents'[k] = tmEvents[i]
           /\ \A u : Listed(u)' <=> Listed(u) \/ u = t
<1> DEFINE a == Append(tmEvents, e)
           n == Len(tmEvents)
<1>1. /\ tmEvents \in Seq(TmEvent) /\ n \in Nat /\ a \in Seq(TmEvent) /\ Len(a) = n + 1
      /\ (\A i \in 1..n : a[i] = tmEvents[i]) /\ a[n + 1] = e
  BY AppendProperties, LenProperties DEF TmTypes
<1> HIDE DEF a
<1>2. tmEvents' = Sorted(a)
  BY DEF a
<1>3. /\ Sorted(a) \in Seq(TmEvent) /\ Len(Sorted(a)) = Len(a)
      /\ \A i, j \in 1..Len(a) : i < j => Sorted(a)[i].at <= Sorted(a)[j].at
  BY <1>1, SortedIs
<1>4. PICK p : Sorts(p, a)
  BY <1>1, SortedIs
<1>5. \A i \in 1..Len(a) : i \in 1..n \/ i = n + 1
  BY <1>1
<1>6. /\ Len(tmEvents') = Len(a)
      /\ \A k \in 1..Len(a) : p[k] \in 1..Len(a) /\ tmEvents'[k] = a[p[k]]
  BY <1>2, <1>3, <1>4 DEF Sorts
<1>7. \A k \in 1..Len(a) : tmEvents'[k] = e \/ \E i \in 1..n : tmEvents'[k] = tmEvents[i]
  BY <1>1, <1>5, <1>6
<1>8. EventsInOrder'
  BY <1>2, <1>3 DEF EventsInOrder
<1>9. ListedOnce'
  <2>1. \A i, j \in 1..Len(a) : a[i].who = a[j].who => i = j
    BY <1>1, <1>5 DEF ListedOnce, Listed
  <2>2. \A i, j \in 1..Len(a) : tmEvents'[i].who = tmEvents'[j].who => p[i] = p[j]
    BY <1>6, <2>1
  <2> QED BY <1>4, <1>6, <2>2 DEF Sorts, ListedOnce
<1>10. ASSUME NEW u PROVE Listed(u)' <=> Listed(u) \/ u = t
  <2>1. Listed(u)' => Listed(u) \/ u = t
    BY <1>6, <1>7 DEF Listed
  <2>2. ASSUME NEW i \in 1..Len(a), a[i].who = u PROVE Listed(u)'
    <3>1. PICK k \in 1..Len(a) : p[k] = i
      BY <1>4, <2>2 DEF Sorts
    <3> QED BY <1>6, <2>2, <3>1 DEF Listed
  <2>3. Listed(u) => Listed(u)'
    <3> SUFFICES ASSUME NEW i \in 1..n, tmEvents[i].who = u PROVE Listed(u)'
      BY DEF Listed
    <3>1. i \in 1..Len(a)
      BY <1>1
    <3> QED BY <1>1, <2>2, <3>1
  <2>4. u = t => Listed(u)'
    <3>1. n + 1 \in 1..Len(a)
      BY <1>1
    <3> QED BY <1>1, <2>2, <3>1
  <2> QED BY <2>1, <2>3, <2>4
<1> QED BY <1>2, <1>3, <1>6, <1>7, <1>8, <1>9, <1>10

LEMMA FiredEvents ==
    ASSUME TmTypes, ListedOnce, EventsInOrder, tmEvents # <<>>, tmEvents' = Tail(tmEvents)
    PROVE  /\ tmEvents' \in Seq(TmEvent) /\ EventsInOrder' /\ ListedOnce'
           /\ \A k \in 1..Len(tmEvents') : \E i \in 1..Len(tmEvents) : tmEvents'[k] = tmEvents[i]
           /\ \A u : Listed(u)' <=> Listed(u) /\ u # tmEvents[1].who
<1> DEFINE n == Len(tmEvents)
<1>1. /\ tmEvents \in Seq(TmEvent) /\ n \in Nat /\ n # 0 /\ tmEvents' \in Seq(TmEvent) /\ Len(tmEvents') = n - 1
      /\ \A k \in 1..(n - 1) : tmEvents'[k] = tmEvents[k + 1] /\ k + 1 \in 1..n
  BY HeadTailProperties, EmptySeq, LenProperties DEF TmTypes
<1>2. \A k \in 1..(n - 1) : k \in Nat
  OBVIOUS
<1>3. EventsInOrder'
  BY <1>1, <1>2 DEF EventsInOrder
<1>4. ListedOnce'
  BY <1>1, <1>2 DEF ListedOnce
<1>5. \A i \in 1..n : i = 1 \/ (i - 1 \in 1..(n - 1) /\ (i - 1) + 1 = i)
  BY <1>1
<1>6. ASSUME NEW u PROVE Listed(u)' <=> Listed(u) /\ u # tmEvents[1].who
  <2>1. 1 \in 1..n /\ \A k \in 1..(n - 1) : k + 1 # 1
    BY <1>1
  <2>2. Listed(u)' => Listed(u) /\ u # tmEvents[1].who
    BY <1>1, <2>1 DEF Listed, ListedOnce
  <2>3. Listed(u) /\ u # tmEvents[1].who => Listed(u)'
    <3> SUFFICES ASSUME NEW i \in 1..n, tmEvents[i].who = u, u # tmEvents[1].who PROVE Listed(u)'
      BY DEF Listed
    <3>1. PICK k \in 1..(n - 1) : k + 1 = i
      BY <1>5
    <3>2. tmEvents'[k].who = u
      BY <1>1, <3>1
    <3> QED BY <1>1, <3>2 DEF Listed
  <2> QED BY <2>2, <2>3
<1> QED BY <1>1, <1>3, <1>4, <1>6

LEMMA SameEvents ==
    ASSUME tmEvents' = tmEvents
    PROVE  (EventsInOrder' <=> EventsInOrder) /\ (ListedOnce' <=> ListedOnce) /\ \A u : Listed(u)' <=> Listed(u)
BY DEF EventsInOrder, ListedOnce, Listed

-----------------------------------------------------------------------------
(* Steps *)

LEMMA MeansKept ==
    ASSUME TmTypes, NEW u \in TmThread, TimerMeans(u), tmPlan' = tmPlan, tmNow' \in Nat, tmNow <= tmNow',
           tmPc'[u] = tmPc[u], tmDue'[u] = tmDue[u], tmSleep'[u] = tmSleep[u], tmEnded'[u] = tmEnded[u],
           Listed(u)' <=> Listed(u)
    PROVE  TimerMeans(u)'
<1>1. tmDue[u] \in Nat /\ tmNow \in Nat
  BY DEF TmTypes
<1> QED BY <1>1 DEF TimerMeans

LEMMA OwnedKept ==
    ASSUME TmTypes, EventsOwned, tmPlan' = tmPlan,
           \A k \in 1..Len(tmEvents') : \E i \in 1..Len(tmEvents) : tmEvents'[k] = tmEvents[i],
           \A w \in TmThread : tmPc[w] \in Scheduled => tmDue'[w] = tmDue[w] /\ tmPc'[w] \in Scheduled
    PROVE  EventsOwned'
<1>1. \A i \in 1..Len(tmEvents) : tmEvents[i].who \in TmThread
  BY EventsOf DEF TmTypes
<1> QED BY <1>1 DEF EventsOwned

LEMMA SameOwned ==
    ASSUME TmTypes, EventsOwned, tmPlan' = tmPlan, tmEvents' = tmEvents,
           \A w \in TmThread : tmPc[w] \in Scheduled => tmDue'[w] = tmDue[w] /\ tmPc'[w] \in Scheduled
    PROVE  EventsOwned'
BY OwnedKept

LEMMA MessagesKept ==
    ASSUME TmTypes, MessagesCounted, tmPlan' = tmPlan, tmMsgs' \in Nat, tmMsgs' <= tmMsgs,
           tmEnded' \in [TmThread -> Nat], \A u \in TmThread : tmEnded[u] # 0 => tmEnded'[u] # 0
    PROVE  MessagesCounted'
<1>1. TimedOut' \subseteq TmThread /\ TimedOut \subseteq TimedOut' /\ IsFiniteSet(TmThread)
  BY TimersAssumption DEF TimedOut
<1>2. IsFiniteSet(TimedOut') /\ IsFiniteSet(TimedOut) /\ Cardinality(TimedOut) <= Cardinality(TimedOut')
  BY <1>1, FS_Subset
<1>3. Cardinality(TimedOut') \in Nat /\ Cardinality(TimedOut) \in Nat /\ tmMsgs \in Nat
  BY <1>2, FS_CardinalityType DEF TmTypes
<1> QED BY <1>2, <1>3 DEF MessagesCounted

LEMMA TimersStart == TmInit => TimerI
<1> SUFFICES ASSUME TmInit PROVE TimerI
  OBVIOUS
<1>1. tmPlan \in [TmThread -> [kind : TmKind, for : Nat]]
  BY TimersAssumption DEF TmInit, TmKind
<1>2. TmTypes
  BY <1>1 DEF TmInit, TmTypes, TmStage, JUST, TmKind
<1>3. Len(tmEvents) = 0
  BY DEF TmInit
<1>4. EventsInOrder /\ ListedOnce /\ EventsOwned /\ CacheInTime /\ TmStops /\ \A t \in TmThread : ~Listed(t)
  BY <1>3 DEF EventsInOrder, ListedOnce, EventsOwned, CacheInTime, TmStops, Listed, TmInit
<1>5. TimedOut = {}
  BY DEF TimedOut, TmInit
<1>6. MessagesCounted
  BY <1>5, FS_EmptySet DEF MessagesCounted, TmInit
<1>7. \A t \in TmThread : TimerMeans(t)
  BY <1>1, <1>4 DEF TimerMeans, TmInit
<1> QED BY <1>2, <1>4, <1>6, <1>7 DEF TimerI

\* Steps that leave the list of events and the timers of threads alone.
LEMMA PassingSteps ==
    ASSUME TimerI, \/ Tick \/ TakesMessage
                   \/ \E c \in TmCpu : ReadsCache(c) \/ TakesLock(c) \/ StoresNext(c)
                   \/ UNCHANGED tmVars
    PROVE  TimerI'
<1>0. TmTypes /\ EventsOwned /\ MessagesCounted /\ CacheInTime /\ TmStops /\ EventsInOrder /\ ListedOnce
      /\ \A t \in TmThread : TimerMeans(t)
  BY DEF TimerI
<1>1. UNCHANGED <<tmPlan, tmEvents, tmPc, tmDue, tmSleep, tmEnded>>
  BY DEF Tick, TakesMessage, ReadsCache, TakesLock, StoresNext, tmVars
<1>2. /\ tmNow' \in Nat \ {0} /\ tmNow <= tmNow' /\ tmMsgs' \in Nat /\ tmMsgs' <= tmMsgs
      /\ tmCpuPc' \in [TmCpu -> {"run", "lock", "fire", "panic"}]
      /\ \A c \in TmCpu : tmCpuPc'[c] = "panic" => tmCpuPc[c] = "panic"
  <2>1. tmNow \in Nat \ {0} /\ tmMsgs \in Nat /\ tmCpuPc \in [TmCpu -> {"run", "lock", "fire", "panic"}]
    BY <1>0 DEF TmTypes
  <2>2. CASE Tick \/ TakesMessage \/ UNCHANGED tmVars
    BY <2>1, <2>2 DEF Tick, TakesMessage, tmVars
  <2>3. ASSUME NEW c \in TmCpu, ReadsCache(c) \/ TakesLock(c) \/ StoresNext(c)
        PROVE  /\ UNCHANGED <<tmNow, tmMsgs>>
               /\ \E to \in {"run", "lock", "fire"} : tmCpuPc' = [tmCpuPc EXCEPT ![c] = to]
    BY <2>3 DEF ReadsCache, TakesLock, StoresNext, TmCpuGo
  <2>4. CASE \E c \in TmCpu : ReadsCache(c) \/ TakesLock(c) \/ StoresNext(c)
    BY <2>1, <2>3, <2>4
  <2> QED BY <2>2, <2>4
<1>3. tmEvents # <<>> => tmEvents[1].at \in Nat
  <2>1. tmEvents \in Seq(TmEvent)
    BY <1>0 DEF TmTypes
  <2>2. tmEvents # <<>> => 1 \in 1..Len(tmEvents)
    BY <2>1, EmptySeq, LenProperties
  <2> QED BY <2>1, <2>2, EventsOf
<1>4. tmNext' \in Nat /\ CacheInTime'
  BY <1>0, <1>1, <1>3, TimersAssumption DEF TmTypes, CacheInTime, Tick, TakesMessage, ReadsCache, TakesLock, StoresNext, tmVars, FOREVER
<1>5. TmTypes'
  BY <1>0, <1>1, <1>2, <1>4 DEF TmTypes
<1>6. EventsInOrder' /\ ListedOnce' /\ \A u : Listed(u)' <=> Listed(u)
  BY <1>0, <1>1, SameEvents
<1>7. EventsOwned'
  BY <1>0, <1>1, SameOwned
<1>8. MessagesCounted'
  BY <1>0, <1>1, <1>2, <1>5, MessagesKept DEF TmTypes
<1>9. TmStops'
  BY <1>0, <1>1, <1>2 DEF TmStops
<1>10. \A t \in TmThread : TimerMeans(t)'
  BY <1>0, <1>1, <1>2, <1>6, MeansKept
<1> QED BY <1>4, <1>5, <1>6, <1>7, <1>8, <1>9, <1>10 DEF TimerI

\* Steps of a thread that leave the list of events alone.
LEMMA ThreadSteps ==
    ASSUME TimerI, NEW t \in TmThread,
           NewTimer(t) \/ StillAlive(t) \/ CacheTimer(t) \/ SleepTimer(t) \/ Resume(t)
    PROVE  TimerI'
<1>0. TmTypes /\ EventsOwned /\ MessagesCounted /\ CacheInTime /\ TmStops /\ EventsInOrder /\ ListedOnce
      /\ \A u \in TmThread : TimerMeans(u)
  BY DEF TimerI
<1>1. UNCHANGED <<tmPlan, tmNow, tmEvents, tmMsgs, tmCpuPc>>
  BY DEF NewTimer, StillAlive, CacheTimer, SleepTimer, Resume
<1>2. /\ tmPlan[t] \in [kind : TmKind, for : Nat] /\ tmPlan[t].for \in Nat /\ tmNow \in Nat \ {0}
      /\ tmDue[t] \in Nat /\ tmSleep[t] \in Int /\ tmEnded[t] \in Nat
  BY <1>0 DEF TmTypes
<1>3. /\ \E to \in TmStage : tmPc' = [tmPc EXCEPT ![t] = to]
      /\ \E d \in Nat : tmDue' = [tmDue EXCEPT ![t] = d]
      /\ \E k \in Int : tmSleep' = [tmSleep EXCEPT ![t] = k]
      /\ \E n \in Nat : tmEnded' = [tmEnded EXCEPT ![t] = n]
  <2>1. \E to \in TmStage : tmPc' = [tmPc EXCEPT ![t] = to]
    BY DEF NewTimer, StillAlive, CacheTimer, SleepTimer, Resume, TmGo, TmStage
  <2>2. tmDue = [tmDue EXCEPT ![t] = tmDue[t]] /\ tmSleep = [tmSleep EXCEPT ![t] = tmSleep[t]]
        /\ tmEnded = [tmEnded EXCEPT ![t] = tmEnded[t]]
    BY <1>0 DEF TmTypes
  <2>3. \E d \in Nat : tmDue' = [tmDue EXCEPT ![t] = d]
    <3>1. CASE NewTimer(t)
      <4>1. tmNow + tmPlan[t].for \in Nat
        BY <1>2
      <4> QED BY <3>1, <4>1 DEF NewTimer
    <3>2. CASE tmDue' = tmDue
      BY <1>2, <2>2, <3>2
    <3> QED BY <3>1, <3>2 DEF StillAlive, CacheTimer, SleepTimer, Resume
  <2>4. \E k \in Int : tmSleep' = [tmSleep EXCEPT ![t] = k]
    <3>1. CASE SleepTimer(t)
      <4>1. tmSleep[t] + 1 \in Int /\ tmSleep' = [tmSleep EXCEPT ![t] = tmSleep[t] + 1]
        BY <1>2, <3>1 DEF SleepTimer
      <4> QED BY <4>1
    <3>2. CASE tmSleep' = tmSleep
      BY <1>2, <2>2, <3>2
    <3> QED BY <3>1, <3>2 DEF StillAlive, CacheTimer, NewTimer, Resume
  <2>5. \E n \in Nat : tmEnded' = [tmEnded EXCEPT ![t] = n]
    <3>1. CASE StillAlive(t) \/ Resume(t)
      BY <1>2, <3>1 DEF StillAlive, Resume
    <3>2. CASE tmEnded' = tmEnded
      BY <1>2, <2>2, <3>2
    <3> QED BY <3>1, <3>2 DEF SleepTimer, CacheTimer, NewTimer
  <2> QED BY <2>1, <2>3, <2>4, <2>5
<1>4. tmEvents # <<>> => tmEvents[1].at \in Nat
  <2>1. tmEvents \in Seq(TmEvent)
    BY <1>0 DEF TmTypes
  <2>2. tmEvents # <<>> => 1 \in 1..Len(tmEvents)
    BY <2>1, EmptySeq, LenProperties
  <2> QED BY <2>1, <2>2, EventsOf
<1>5. tmNext' \in Nat /\ CacheInTime'
  <2>1. tmNext \in Nat
    BY <1>0 DEF TmTypes
  <2>2. CASE CacheTimer(t)
    BY <1>1, <1>4, <2>1, <2>2 DEF CacheTimer, Earlier, CacheInTime
  <2>3. CASE tmNext' = tmNext /\ tmLock' = tmLock
    BY <1>0, <1>1, <2>1, <2>3 DEF CacheInTime
  <2> QED BY <2>2, <2>3 DEF NewTimer, StillAlive, SleepTimer, Resume
<1>6. TmTypes'
  BY <1>0, <1>1, <1>3, <1>5 DEF TmTypes
<1>7. EventsInOrder' /\ ListedOnce' /\ \A u : Listed(u)' <=> Listed(u)
  BY <1>0, <1>1, SameEvents
<1>8. \A u \in TmThread : u # t => tmPc'[u] = tmPc[u] /\ tmDue'[u] = tmDue[u]
                                   /\ tmSleep'[u] = tmSleep[u] /\ tmEnded'[u] = tmEnded[u]
  BY <1>0, <1>3 DEF TmTypes
<1>9. \A u \in TmThread : u # t => TimerMeans(u)'
  BY <1>0, <1>1, <1>2, <1>7, <1>8, MeansKept
<1>10. /\ TimerMeans(t)' /\ (tmEnded[t] # 0 => tmEnded'[t] # 0)
       /\ tmPc[t] \in Scheduled => tmDue'[t] = tmDue[t] /\ tmPc'[t] \in Scheduled
  <2>1. TimerMeans(t) /\ (Listed(t)' <=> Listed(t)) /\ tmPlan'[t] = tmPlan[t] /\ tmNow' = tmNow
    BY <1>0, <1>1, <1>7
  <2>2. Listed(t) => tmPc[t] \in Scheduled
    BY <1>0 DEF Listed, EventsOwned
  <2>3. CASE NewTimer(t)
    <3>1. tmPc[t] = "start" /\ tmPc'[t] = "alive" /\ tmDue'[t] = tmNow + tmPlan[t].for
          /\ tmSleep'[t] = tmSleep[t] /\ tmEnded'[t] = tmEnded[t]
      BY <1>0, <2>3 DEF NewTimer, TmTypes
    <3>2. ~Listed(t)
      BY <2>2, <3>1 DEF Scheduled
    <3> QED BY <1>2, <2>1, <3>1, <3>2 DEF TimerMeans, Scheduled
  <2>4. CASE StillAlive(t)
    <3>1. tmPc[t] = "alive" /\ tmDue'[t] = tmDue[t] /\ tmSleep'[t] = tmSleep[t]
      BY <1>0, <2>4 DEF StillAlive, TmGo, TmTypes
    <3>2. ~Listed(t) /\ tmDue[t] > tmPlan[t].for
      BY <2>1, <2>2, <3>1 DEF Scheduled, TimerMeans
    <3>3. CASE tmPc'[t] = "schedule" /\ tmEnded'[t] = tmEnded[t]
      BY <1>2, <2>1, <3>1, <3>2, <3>3 DEF TimerMeans, Scheduled
    <3>4. CASE tmPc'[t] = "over" /\ tmEnded'[t] = tmNow /\ ~IsAlive(tmDue[t])
      <4>1. tmNow >= tmDue[t]
        BY <1>2, <3>2, <3>4 DEF IsAlive, JUST
      <4> QED BY <1>2, <2>1, <3>1, <3>2, <3>4, <4>1 DEF TimerMeans, Scheduled
    <3> QED BY <1>0, <2>4, <3>3, <3>4 DEF StillAlive, TmGo, TmTypes
  <2>5. CASE CacheTimer(t)
    <3>1. /\ tmPc[t] = "cache" /\ tmPc'[t] = (IF tmPlan[t].kind = "Window" THEN "over" ELSE "sleep")
          /\ tmDue'[t] = tmDue[t] /\ tmSleep'[t] = tmSleep[t] /\ tmEnded'[t] = tmEnded[t]
      BY <1>0, <2>5 DEF CacheTimer, TmGo, TmTypes
    <3> QED BY <1>2, <2>1, <3>1 DEF TimerMeans, Scheduled
  <2>6. CASE SleepTimer(t)
    <3>1. /\ tmPc[t] = "sleep" /\ tmPc'[t] = "asleep" /\ tmSleep'[t] = tmSleep[t] + 1
          /\ tmDue'[t] = tmDue[t] /\ tmEnded'[t] = tmEnded[t]
      BY <1>0, <2>6 DEF SleepTimer, TmGo, TmTypes
    <3> QED BY <1>2, <2>1, <3>1 DEF TimerMeans, Scheduled
  <2>7. CASE Resume(t)
    <3>1. /\ tmPc[t] = "asleep" /\ tmPc'[t] = "over" /\ tmSleep[t] <= 0 /\ tmSleep'[t] = tmSleep[t]
          /\ tmDue'[t] = tmDue[t] /\ tmEnded'[t] = tmNow
      BY <1>0, <2>7 DEF Resume, TmGo, TmTypes
    <3>2. ~Listed(t) /\ tmNow >= tmDue[t] /\ tmDue[t] > tmPlan[t].for /\ tmPlan[t].kind # "Window"
      BY <1>2, <2>1, <3>1 DEF TimerMeans
    <3> QED BY <1>2, <2>1, <3>1, <3>2 DEF TimerMeans, Scheduled
  <2> QED BY <2>3, <2>4, <2>5, <2>6, <2>7
<1>11. EventsOwned'
  BY <1>0, <1>1, <1>8, <1>10, SameOwned
<1>12. MessagesCounted'
  <2>1. tmMsgs' \in Nat /\ tmMsgs' <= tmMsgs /\ tmEnded' \in [TmThread -> Nat]
    BY <1>1, <1>0, <1>6 DEF TmTypes
  <2> QED BY <1>0, <1>1, <1>8, <1>10, <2>1, MessagesKept
<1>13. TmStops'
  BY <1>0, <1>1 DEF TmStops
<1> QED BY <1>5, <1>6, <1>7, <1>9, <1>10, <1>11, <1>12, <1>13 DEF TimerI

LEMMA SchedulingSteps ==
    ASSUME TimerI, NEW t \in TmThread, ScheduleTimer(t)
    PROVE  TimerI'
<1>0. TmTypes /\ EventsOwned /\ MessagesCounted /\ CacheInTime /\ TmStops /\ EventsInOrder /\ ListedOnce
      /\ \A u \in TmThread : TimerMeans(u)
  BY DEF TimerI
<1>1. /\ UNCHANGED <<tmPlan, tmNow, tmNext, tmCpuPc, tmDue, tmSleep, tmMsgs, tmEnded>>
      /\ tmPc[t] = "schedule" /\ tmPc' = [tmPc EXCEPT ![t] = "cache"] /\ tmLock' = t
      /\ tmEvents' = Sorted(Append(tmEvents, Event(t)))
  BY DEF ScheduleTimer, TmGo
<1>2. PICK e \in TmEvent : e = Event(t)
  BY <1>0 DEF TmTypes, Event, TmEvent
<1>3. e.who = t /\ e.at = tmDue[t] /\ e.kind = tmPlan[t].kind
  BY <1>2 DEF Event
<1>4. ~Listed(t)
  BY <1>0, <1>1 DEF Listed, EventsOwned, Scheduled
<1>5. tmEvents' = Sorted(Append(tmEvents, e))
  BY <1>1, <1>2
<1>6. /\ tmEvents' \in Seq(TmEvent) /\ EventsInOrder' /\ ListedOnce'
      /\ \A k \in 1..Len(tmEvents') : tmEvents'[k] = e \/ \E i \in 1..Len(tmEvents) : tmEvents'[k] = tmEvents[i]
      /\ \A u : Listed(u)' <=> Listed(u) \/ u = t
  BY <1>0, <1>3, <1>4, <1>5, ScheduledEvents
<1>7. TmTypes'
  BY <1>0, <1>1, <1>6 DEF TmTypes, TmStage
<1>8. tmPc'[t] = "cache" /\ \A u \in TmThread : u # t => tmPc'[u] = tmPc[u]
  BY <1>0, <1>1 DEF TmTypes
<1>9. EventsOwned'
  <2>1. \A i \in 1..Len(tmEvents) : tmEvents[i].who \in TmThread
    BY <1>0, EventsOf DEF TmTypes
  <2> SUFFICES ASSUME NEW k \in 1..Len(tmEvents')
               PROVE  LET w == tmEvents'[k].who
                      IN tmEvents'[k].at = tmDue[w] /\ tmEvents'[k].kind = tmPlan[w].kind /\ tmPc'[w] \in Scheduled
    BY <1>1 DEF EventsOwned
  <2>2. CASE tmEvents'[k] = e
    BY <1>3, <1>8, <2>2 DEF Scheduled
  <2>3. CASE \E i \in 1..Len(tmEvents) : tmEvents'[k] = tmEvents[i]
    <3>1. PICK i \in 1..Len(tmEvents) : tmEvents'[k] = tmEvents[i]
      BY <2>3
    <3>2. tmEvents[i].who \in TmThread /\ tmEvents[i].who # t
      BY <1>4, <2>1 DEF Listed
    <3> QED BY <1>0, <1>8, <3>1, <3>2 DEF EventsOwned
  <2> QED BY <1>6, <2>2, <2>3
<1>10. \A u \in TmThread : u # t => TimerMeans(u)'
  <2>1. tmNow' \in Nat /\ tmNow <= tmNow'
    BY <1>0, <1>1 DEF TmTypes
  <2> QED BY <1>0, <1>1, <1>6, <1>8, <2>1, MeansKept
<1>11. TimerMeans(t)'
  <2>1. TimerMeans(t) /\ Listed(t)' /\ tmPlan'[t] = tmPlan[t] /\ tmNow' = tmNow
        /\ tmDue'[t] = tmDue[t] /\ tmSleep'[t] = tmSleep[t] /\ tmEnded'[t] = tmEnded[t]
    BY <1>0, <1>1, <1>6
  <2>2. tmPlan[t].kind = "Window" => tmEnded[t] = 0
    BY <1>0, <1>1 DEF TimerMeans
  <2> QED BY <1>1, <1>8, <2>1, <2>2 DEF TimerMeans
<1>12. MessagesCounted'
  <2>1. tmMsgs' \in Nat /\ tmMsgs' <= tmMsgs /\ tmEnded' \in [TmThread -> Nat]
    BY <1>0, <1>1 DEF TmTypes
  <2> QED BY <1>0, <1>1, <2>1, MessagesKept
<1>13. TmStops' /\ CacheInTime'
  BY <1>0, <1>1, TimersAssumption DEF TmStops, CacheInTime
<1> QED BY <1>6, <1>7, <1>9, <1>10, <1>11, <1>12, <1>13 DEF TimerI

LEMMA FiringSteps ==
    ASSUME TimerI, NEW c \in TmCpu, Fires(c)
    PROVE  TimerI'
<1>0. TmTypes /\ EventsOwned /\ MessagesCounted /\ CacheInTime /\ TmStops /\ EventsInOrder /\ ListedOnce
      /\ \A u \in TmThread : TimerMeans(u)
  BY DEF TimerI
<1>1. /\ UNCHANGED <<tmPlan, tmNow, tmNext, tmLock, tmPc, tmDue>>
      /\ tmLock = c /\ tmEvents # <<>> /\ ~IsAlive(tmEvents[1].at) /\ tmEvents' = Tail(tmEvents)
  BY DEF Fires, NothingDue
<1>2. tmEvents \in Seq(TmEvent) /\ 1 \in 1..Len(tmEvents)
  BY <1>0, <1>1, EmptySeq, LenProperties DEF TmTypes
<1>3. PICK e \in TmEvent : e = tmEvents[1]
  BY <1>2, EventsOf
<1>4. PICK w \in TmThread : w = e.who
  BY <1>3 DEF TmEvent
<1>5. e.at = tmDue[w] /\ e.kind = tmPlan[w].kind /\ tmPc[w] \in Scheduled /\ Listed(w)
  BY <1>0, <1>2, <1>3, <1>4 DEF EventsOwned, Listed
<1>6. /\ tmEvents' \in Seq(TmEvent) /\ EventsInOrder' /\ ListedOnce'
      /\ \A k \in 1..Len(tmEvents') : \E i \in 1..Len(tmEvents) : tmEvents'[k] = tmEvents[i]
      /\ \A u : Listed(u)' <=> Listed(u) /\ u # w
  BY <1>0, <1>1, <1>3, <1>4, FiredEvents
<1>7. /\ tmPlan[w] \in [kind : TmKind, for : Nat] /\ tmPlan[w].for \in Nat /\ tmNow \in Nat \ {0}
      /\ tmDue[w] \in Nat /\ tmSleep[w] \in Int /\ tmEnded[w] \in Nat /\ tmMsgs \in Nat /\ TmQueue \in Nat
  BY <1>0, TimersAssumption DEF TmTypes
<1>8. tmDue[w] > tmPlan[w].for /\ tmNow >= tmDue[w]
  <2>1. tmDue[w] > tmPlan[w].for
    BY <1>0, <1>5 DEF TimerMeans, Scheduled
  <2> QED BY <1>1, <1>3, <1>5, <1>7, <2>1 DEF IsAlive, JUST
<1>9. EventsOwned'
  BY <1>0, <1>1, <1>6, OwnedKept
<1>10. CacheInTime'
  BY <1>1, TimersAssumption DEF CacheInTime
<1>11. CASE e.kind # "Window"
  <2>1. /\ tmSleep' = [tmSleep EXCEPT ![w] = @ - 1] /\ UNCHANGED <<tmMsgs, tmEnded>>
        /\ tmCpuPc' = [tmCpuPc EXCEPT ![c] = "fire"]
    BY <1>3, <1>4, <1>11 DEF Fires, TmCpuGo
  <2>2. TmTypes'
    BY <1>0, <1>1, <1>6, <1>7, <2>1 DEF TmTypes
  <2>3. TmStops'
    BY <1>0, <1>1, <2>1 DEF TmStops, TmTypes
  <2>4. MessagesCounted'
    <3>1. tmMsgs' \in Nat /\ tmMsgs' <= tmMsgs /\ tmEnded' \in [TmThread -> Nat]
      BY <1>0, <1>7, <2>1 DEF TmTypes
    <3> QED BY <1>0, <1>1, <2>1, <3>1, MessagesKept
  <2>5. \A u \in TmThread : u # w => TimerMeans(u)'
    <3>1. tmNow' \in Nat /\ tmNow <= tmNow' /\ \A u \in TmThread : u # w => tmSleep'[u] = tmSleep[u]
      BY <1>0, <1>1, <2>1 DEF TmTypes
    <3> QED BY <1>0, <1>1, <1>6, <2>1, <3>1, MeansKept
  <2>6. TimerMeans(w)'
    <3>1. TimerMeans(w) /\ ~Listed(w)' /\ tmSleep'[w] = tmSleep[w] - 1
      BY <1>0, <1>6, <2>1 DEF TmTypes
    <3> QED BY <1>1, <1>5, <1>7, <1>8, <1>11, <2>1, <3>1 DEF TimerMeans, Scheduled
  <2> QED BY <1>6, <1>9, <1>10, <2>2, <2>3, <2>4, <2>5, <2>6 DEF TimerI
<1>12. CASE e.kind = "Window"
  <2>1. /\ tmEnded' = [tmEnded EXCEPT ![w] = tmNow] /\ UNCHANGED tmSleep
        /\ tmMsgs' = (IF tmMsgs < TmQueue THEN tmMsgs + 1 ELSE tmMsgs)
        /\ tmCpuPc' = [tmCpuPc EXCEPT ![c] = IF tmMsgs < TmQueue THEN "fire" ELSE "panic"]
    BY <1>3, <1>4, <1>12 DEF Fires, TmCpuGo
  <2>2. TmTypes'
    <3>1. tmMsgs' \in Nat
      BY <1>7, <2>1
    <3> QED BY <1>0, <1>1, <1>6, <1>7, <2>1, <3>1 DEF TmTypes
  <2>3. /\ TimedOut' = TimedOut \cup {w} /\ w \notin TimedOut /\ IsFiniteSet(TimedOut)
        /\ Cardinality(TimedOut') = Cardinality(TimedOut) + 1 /\ Cardinality(TimedOut) \in Nat
    <3>1. tmEnded[w] = 0 /\ tmPlan[w].kind = "Window"
      BY <1>0, <1>5, <1>12 DEF TimerMeans
    <3>2. TimedOut' = TimedOut \cup {w} /\ w \notin TimedOut
      BY <1>0, <1>1, <1>7, <2>1, <3>1 DEF TimedOut, TmTypes
    <3>3. IsFiniteSet(TimedOut)
      BY TimersAssumption, FS_Subset DEF TimedOut
    <3> QED BY <3>2, <3>3, FS_AddElement, FS_CardinalityType
  <2>4. MessagesCounted'
    BY <1>0, <1>7, <2>1, <2>3 DEF MessagesCounted
  <2>5. TmStops'
    <3> DEFINE W == {t \in TmThread : tmPlan[t].kind = "Window"}
    <3>1. IsFiniteSet(W) /\ Cardinality(W) \in Nat
      BY TimersAssumption, FS_Subset, FS_CardinalityType
    <3>2. TimedOut' \subseteq W
      BY <1>1 DEF TimedOut
    <3>3. Cardinality(TimedOut') <= Cardinality(W)
      BY <3>1, <3>2, FS_Subset
    <3>4. tmMsgs < Cardinality(W)
      BY <1>0, <1>7, <2>3, <3>1, <3>3 DEF MessagesCounted
    <3>5. tmCpuPc'[c] = "panic" => TmQueue < Cardinality(W)
      BY <1>0, <1>7, <2>1, <3>1, <3>4 DEF TmTypes
    <3>6. \A d \in TmCpu : d # c => tmCpuPc'[d] = tmCpuPc[d]
      BY <1>0, <2>1 DEF TmTypes
    <3>7. \A d \in TmCpu : tmCpuPc'[d] = "panic" => TmQueue < Cardinality(W)
      BY <1>0, <3>5, <3>6 DEF TmStops
    <3> QED BY <1>1, <3>7 DEF TmStops
  <2>6. \A u \in TmThread : u # w => TimerMeans(u)'
    <3>1. tmNow' \in Nat /\ tmNow <= tmNow' /\ \A u \in TmThread : u # w => tmEnded'[u] = tmEnded[u]
      BY <1>0, <1>1, <2>1 DEF TmTypes
    <3> QED BY <1>0, <1>1, <1>6, <2>1, <3>1, MeansKept
  <2>7. TimerMeans(w)'
    <3>1. TimerMeans(w) /\ ~Listed(w)' /\ tmEnded'[w] = tmNow
      BY <1>0, <1>6, <2>1 DEF TmTypes
    <3> QED BY <1>1, <1>5, <1>7, <1>8, <1>12, <2>1, <3>1 DEF TimerMeans, Scheduled
  <2> QED BY <1>6, <1>9, <1>10, <2>2, <2>4, <2>5, <2>6, <2>7 DEF TimerI
<1> QED BY <1>11, <1>12

\* The counts of the property, where a thread is in the list or not.
LEMMA TimerImplies == TimerI => TimersInv
<1> SUFFICES ASSUME TimerI PROVE TimersInv
  OBVIOUS
<1>1. CacheNotLate /\ TmStops
  BY DEF TimerI, CacheNotLate, EventsInOrder, CacheInTime
<1>2. ASSUME NEW t \in TmThread
      PROVE  LET mine == {i \in 1..Len(tmEvents) : tmEvents[i].who = t}
             IN Cardinality(mine) = IF Listed(t) THEN 1 ELSE 0
  <2> DEFINE mine == {i \in 1..Len(tmEvents) : tmEvents[i].who = t}
  <2>1. CASE ~Listed(t)
    <3>1. mine = {}
      BY <2>1 DEF Listed
    <3> QED BY <2>1, <3>1, FS_EmptySet
  <2>2. CASE Listed(t)
    <3>1. PICK i \in 1..Len(tmEvents) : tmEvents[i].who = t
      BY <2>2 DEF Listed
    <3>2. mine = {i}
      BY <3>1 DEF TimerI, ListedOnce
    <3> QED BY <2>2, <3>2, FS_Singleton
  <2> QED BY <2>1, <2>2
<1>3. \A t \in TmThread : TimerMeans(t)
  BY DEF TimerI
<1>4. SleepsInFull
  BY <1>2, <1>3 DEF SleepsInFull, TimerMeans
<1> QED BY <1>1, <1>4 DEF TimersInv

\* The cached deadline is never late, no sleep ends before its time and each is
\* ended by one event of its own, and a processor stops only at a window with
\* more timers than its queue has room (scheduler.rs, _schedule_timer,
\* _process_timer_events and Timer::sleep).
THEOREM TimersHold == TimersSpec => []TimersInv
<1>1. TimerI /\ [TimersNext]_tmVars => TimerI'
  <2> SUFFICES ASSUME TimerI, [TimersNext]_tmVars PROVE TimerI'
    OBVIOUS
  <2>1. ASSUME NEW t \in TmThread, TmThreadStep(t) PROVE TimerI'
    BY <2>1, ThreadSteps, SchedulingSteps DEF TmThreadStep
  <2>2. ASSUME NEW c \in TmCpu, Fires(c) PROVE TimerI'
    BY <2>2, FiringSteps
  <2>3. CASE \/ Tick \/ TakesMessage \/ UNCHANGED tmVars
             \/ \E c \in TmCpu : ReadsCache(c) \/ TakesLock(c) \/ StoresNext(c)
    BY <2>3, PassingSteps
  <2> QED BY <2>1, <2>2, <2>3 DEF TimersNext, TmCpuStep
<1> QED BY <1>1, TimersStart, TimerImplies, PTL DEF TimersSpec
=============================================================================
