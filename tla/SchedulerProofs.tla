-------------------------- MODULE SchedulerProofs --------------------------
(***************************************************************************)
(* Proofs about module Scheduler, for any number of CPUs and threads.      *)
(***************************************************************************)
EXTENDS Scheduler, FiniteSetTheorems, TLAPS

(* The inductive invariant: the token discipline of QUEUED needs to know    *)
(* that a CPU which switches threads has retired the previous one and is in *)
(* the middle of no other job, and that every job is about a real thread.   *)
Inv == TypeOK /\ CpuDiscipline /\ JobHasSubject /\ ReadyOnce

-----------------------------------------------------------------------------
(* Which variables the token depends on.                                   *)

LEMMA TokenFrame ==
    ASSUME ReadyOnce, UNCHANGED <<queue, queued, current, retired, jpc, jt>>
    PROVE  ReadyOnce'
BY DEF ReadyOnce, CurrentOnce, RetiringOnce, EnqueuingOnce, QueueOnce,
       QueuedIffHeld, InTransit, Queued, Retiring, Enqueuing

(* A job that begins, ends or goes on without the token changes nothing.   *)
LEMMA TokenJob ==
    ASSUME ReadyOnce, TypeOK, NEW a \in Actor, NEW v \in JobPC, NEW u,
           jpc[a] \notin {"enq", "r_clear"}, v \notin {"enq", "r_clear"},
           jpc' = [jpc EXCEPT ![a] = v], jt' = [jt EXCEPT ![a] = u],
           UNCHANGED <<queue, queued, current, retired>>
    PROVE  ReadyOnce'
<1>1. \A t \in Thread : \A b \in Actor : Enqueuing(b, t)' <=> Enqueuing(b, t)
  BY DEF TypeOK, Enqueuing
<1>2. \A t \in Thread : \A c \in CPU : Retiring(c, t)' <=> Retiring(c, t)
  BY DEF TypeOK, Retiring, Actor
<1>3. \A t \in Thread : InTransit(t)' <=> InTransit(t)
  BY <1>1, <1>2 DEF InTransit
<1>4. \A k \in Class : \A i \in DOMAIN queue[k] : queue[k][i] \in Thread
  BY DEF TypeOK
<1>5. QueueOnce'
  BY <1>3, <1>4 DEF ReadyOnce, QueueOnce
<1> QED
  BY <1>1, <1>2, <1>3, <1>5 DEF ReadyOnce, CurrentOnce, RetiringOnce, EnqueuingOnce,
     QueuedIffHeld, Queued

(* Whoever sets the bit takes the token. *)
LEMMA TokenSet ==
    ASSUME ReadyOnce, TypeOK, NEW a \in Actor, jt[a] \in Thread,
           jpc[a] = "set", ~queued[jt[a]],
           jpc' = [jpc EXCEPT ![a] = "enq"], UNCHANGED jt,
           queued' = [queued EXCEPT ![jt[a]] = TRUE],
           UNCHANGED <<queue, current, retired>>
    PROVE  ReadyOnce'
<1> DEFINE t == jt[a]
<1>1. \A u \in Thread : \A b \in Actor :
         Enqueuing(b, u)' <=> Enqueuing(b, u) \/ (b = a /\ u = t)
  BY DEF TypeOK, Enqueuing
<1>2. \A u \in Thread : \A c \in CPU : Retiring(c, u)' <=> Retiring(c, u)
  BY DEF TypeOK, Retiring, Actor
<1>3. \A u \in Thread : InTransit(u)' <=> InTransit(u) \/ u = t
  BY <1>1, <1>2 DEF InTransit
<1>4. ~InTransit(t) /\ ~Queued(t)
  BY DEF ReadyOnce, QueuedIffHeld
<1>5. \A c \in CPU : current[c] # t /\ ~Retiring(c, t)
  BY <1>4 DEF InTransit
<1>6. \A b \in Actor : ~Enqueuing(b, t)
  BY <1>4 DEF InTransit
<1>7. CurrentOnce'
  BY DEF ReadyOnce, CurrentOnce
<1>8. RetiringOnce'
  BY <1>2 DEF ReadyOnce, RetiringOnce
<1>9. EnqueuingOnce'
  BY <1>1, <1>2, <1>5, <1>6 DEF ReadyOnce, EnqueuingOnce
<1>10. QueueOnce'
  <2>1. \A k \in Class : \A i \in DOMAIN queue[k] : queue[k][i] \in Thread
    BY DEF TypeOK
  <2> QED BY <1>3, <1>4, <2>1 DEF ReadyOnce, QueueOnce, Queued
<1>11. QueuedIffHeld'
  BY <1>3 DEF ReadyOnce, QueuedIffHeld, Queued, TypeOK
<1> QED BY <1>7, <1>8, <1>9, <1>10, <1>11 DEF ReadyOnce
(* _enqueue hands the token over to the queue. *)
LEMMA TokenEnqueue ==
    ASSUME ReadyOnce, TypeOK, NEW a \in Actor, jt[a] \in Thread,
           jpc[a] = "enq",
           jpc' = [jpc EXCEPT ![a] = "none"], jt' = [jt EXCEPT ![a] = Idle],
           queue' = [queue EXCEPT ![ClassOf(jt[a])] = Append(@, jt[a])],
           UNCHANGED <<queued, current, retired>>
    PROVE  ReadyOnce'
<1> DEFINE t == jt[a]
           k0 == ClassOf(t)
<1>0. /\ k0 \in Class /\ Idle \notin Thread
      /\ \A k \in Class : queue[k] \in Seq(Thread)
  BY SchedulerAssumption DEF ClassOf, Class, TypeOK
<1>1. \A u \in Thread : \A b \in Actor :
         Enqueuing(b, u)' <=> Enqueuing(b, u) /\ b # a
  BY <1>0 DEF TypeOK, Enqueuing
<1>2. \A u \in Thread : \A c \in CPU : Retiring(c, u)' <=> Retiring(c, u)
  BY DEF TypeOK, Retiring, Actor
<1>3. /\ \A c \in CPU : current[c] # t /\ ~Retiring(c, t)
      /\ \A b \in Actor : Enqueuing(b, t) => b = a
      /\ Enqueuing(a, t)
  BY DEF ReadyOnce, EnqueuingOnce, Enqueuing
<1>4. \A u \in Thread : InTransit(u)' <=> InTransit(u) /\ u # t
  BY <1>1, <1>2, <1>3 DEF InTransit, Enqueuing
<1>5. InTransit(t) /\ queued[t]
  BY <1>3 DEF InTransit, ReadyOnce, QueuedIffHeld
<1>6. ~Queued(t)
  BY <1>5 DEF ReadyOnce, QueueOnce, Queued
<1>7. /\ DOMAIN queue'[k0] = 1 .. Len(queue[k0]) + 1
      /\ \A i \in 1 .. Len(queue[k0]) : queue'[k0][i] = queue[k0][i]
      /\ queue'[k0][Len(queue[k0]) + 1] = t
      /\ \A k \in Class \ {k0} : queue'[k] = queue[k]
      /\ \A k \in Class : DOMAIN queue[k] = 1 .. Len(queue[k])
  BY <1>0 DEF TypeOK
<1>8. \A u \in Thread : Queued(u)' <=> Queued(u) \/ u = t
  <2>1. \A u \in Thread : u = t => Queued(u)'
    BY <1>0, <1>7 DEF Queued
  <2>2. ASSUME NEW u \in Thread, Queued(u) PROVE Queued(u)'
    <3>1. PICK k \in Class : \E i \in DOMAIN queue[k] : queue[k][i] = u
      BY <2>2 DEF Queued
    <3>2. PICK i \in DOMAIN queue[k] : queue[k][i] = u
      BY <3>1
    <3>3. i \in DOMAIN queue'[k] /\ queue'[k][i] = u
      BY <1>0, <1>7, <3>2
    <3> QED BY <3>3 DEF Queued
  <2>3. ASSUME NEW u \in Thread, Queued(u)', u # t PROVE Queued(u)
    <3>1. PICK k \in Class : \E i \in DOMAIN queue'[k] : queue'[k][i] = u
      BY <2>3 DEF Queued
    <3>2. PICK i \in DOMAIN queue'[k] : queue'[k][i] = u
      BY <3>1
    <3>3. i \in DOMAIN queue[k] /\ queue[k][i] = u
      BY <1>0, <1>7, <2>3, <3>2
    <3> QED BY <3>3 DEF Queued
  <2> QED BY <2>1, <2>2, <2>3
<1>9. CurrentOnce' /\ RetiringOnce'
  BY <1>2 DEF ReadyOnce, CurrentOnce, RetiringOnce
<1>10. EnqueuingOnce'
  BY <1>1, <1>2 DEF ReadyOnce, EnqueuingOnce
<1>11. QueueOnce'
  <2>1. \A l \in Class : \A j \in DOMAIN queue'[l] :
           /\ queue'[l][j] \in Thread
           /\ \/ j \in DOMAIN queue[l] /\ queue'[l][j] = queue[l][j] /\ queue[l][j] # t
              \/ l = k0 /\ j = Len(queue[k0]) + 1 /\ queue'[l][j] = t
    BY <1>0, <1>6, <1>7 DEF Queued
  <2>2. ASSUME NEW k \in Class, NEW i \in DOMAIN queue'[k],
               NEW u \in Thread, u = queue'[k][i]
        PROVE  ~InTransit(u)'
    BY <2>1, <2>2, <1>4 DEF ReadyOnce, QueueOnce
  <2>3. ASSUME NEW k \in Class, NEW i \in DOMAIN queue'[k],
               NEW l \in Class, NEW j \in DOMAIN queue'[l], queue'[k][i] = queue'[l][j]
        PROVE  k = l /\ i = j
    BY <2>1, <2>3 DEF ReadyOnce, QueueOnce
  <2> QED BY <2>1, <2>2, <2>3 DEF QueueOnce
<1>12. QueuedIffHeld'
  BY <1>4, <1>5, <1>8 DEF ReadyOnce, QueuedIffHeld
<1> QED BY <1>9, <1>10, <1>11, <1>12 DEF ReadyOnce

(* retire gives the token up when it clears the bit. *)
LEMMA TokenClear ==
    ASSUME ReadyOnce, TypeOK, NEW c \in CPU, NEW v \in JobPC, NEW w,
           jpc[c] = "r_clear", v \notin {"enq", "r_clear"}, retired[c] = Idle,
           jpc' = [jpc EXCEPT ![c] = v], jt' = [jt EXCEPT ![c] = w],
           queued' = [t \in Thread |-> queued[t] /\ t # jt[c]],
           UNCHANGED <<queue, current, retired>>
    PROVE  ReadyOnce'
<1> DEFINE t == jt[c]
<1>0. Idle \notin Thread /\ c \in Actor
  BY SchedulerAssumption DEF Actor
<1>1. \A u \in Thread : \A b \in Actor : Enqueuing(b, u)' <=> Enqueuing(b, u)
  BY <1>0 DEF TypeOK, Enqueuing
<1>2. \A u \in Thread : \A d \in CPU : Retiring(d, u)' <=> Retiring(d, u) /\ (d # c)
  BY <1>0 DEF TypeOK, Retiring, Actor
<1>3. \A u \in Thread : Retiring(c, u) <=> u = t
  BY <1>0 DEF Retiring
<1>4. t \in Thread =>
         /\ \A d \in CPU : current[d] # t /\ (Retiring(d, t) => d = c)
         /\ \A b \in Actor : ~Enqueuing(b, t)
  BY <1>3 DEF ReadyOnce, RetiringOnce, EnqueuingOnce
<1>5. \A u \in Thread : InTransit(u)' <=> InTransit(u) /\ u # t
  BY <1>1, <1>2, <1>3, <1>4 DEF InTransit
<1>6. t \in Thread => InTransit(t) /\ ~Queued(t)
  BY <1>3 DEF InTransit, ReadyOnce, QueueOnce, Queued
<1>7. \A u \in Thread : Queued(u)' <=> Queued(u)
  BY DEF Queued
<1>8. CurrentOnce' /\ RetiringOnce'
  BY <1>2 DEF ReadyOnce, CurrentOnce, RetiringOnce
<1>9. EnqueuingOnce'
  BY <1>1, <1>2 DEF ReadyOnce, EnqueuingOnce
<1>10. QueueOnce'
  <2>1. \A k \in Class : \A i \in DOMAIN queue[k] : queue[k][i] \in Thread
    BY DEF TypeOK
  <2> QED BY <1>5, <2>1 DEF ReadyOnce, QueueOnce
<1>11. QueuedIffHeld'
  BY <1>5, <1>6, <1>7 DEF ReadyOnce, QueuedIffHeld
<1> QED BY <1>8, <1>9, <1>10, <1>11 DEF ReadyOnce
(* After the context switch the retired thread is the subject of retire. *)
LEMMA TokenContextSwitch ==
    ASSUME ReadyOnce, TypeOK, NEW c \in CPU, jpc[c] = "none",
           jpc' = [jpc EXCEPT ![c] = "r_clear"], jt' = [jt EXCEPT ![c] = retired[c]],
           retired' = [retired EXCEPT ![c] = Idle],
           UNCHANGED <<queue, queued, current>>
    PROVE  ReadyOnce'
<1>0. Idle \notin Thread /\ c \in Actor
  BY SchedulerAssumption DEF Actor
<1>1. \A t \in Thread : \A b \in Actor : Enqueuing(b, t)' <=> Enqueuing(b, t)
  BY <1>0 DEF TypeOK, Enqueuing
<1>2. \A t \in Thread : \A d \in CPU : Retiring(d, t)' <=> Retiring(d, t)
  BY <1>0 DEF TypeOK, Retiring, Actor
<1>3. \A t \in Thread : InTransit(t)' <=> InTransit(t)
  BY <1>1, <1>2 DEF InTransit
<1>4. \A k \in Class : \A i \in DOMAIN queue[k] : queue[k][i] \in Thread
  BY DEF TypeOK
<1>5. QueueOnce'
  BY <1>3, <1>4 DEF ReadyOnce, QueueOnce
<1> QED
  BY <1>1, <1>2, <1>3, <1>5 DEF ReadyOnce, CurrentOnce, RetiringOnce, EnqueuingOnce,
     QueuedIffHeld, Queued

(* A CPU that goes idle keeps the token of its thread for retiring it. *)
LEMMA TokenToIdle ==
    ASSUME ReadyOnce, TypeOK, NEW c \in CPU, jpc[c] = "none", retired[c] = Idle,
           SwitchTo(c, Idle), UNCHANGED <<queue, queued, jpc, jt>>
    PROVE  ReadyOnce'
<1>0. Idle \notin Thread
  BY SchedulerAssumption
<1>1. CASE current[c] = Idle
  BY <1>1, TokenFrame DEF SwitchTo
<1>2. CASE current[c] # Idle
  <2> DEFINE x == current[c]
  <2>0. /\ x \in Thread
        /\ retired' = [retired EXCEPT ![c] = current[c]]
        /\ current' = [current EXCEPT ![c] = Idle]
    BY <1>2 DEF TypeOK, SwitchTo
  <2>1. \A t \in Thread : \A b \in Actor : Enqueuing(b, t)' <=> Enqueuing(b, t)
    BY DEF Enqueuing
  <2>2. \A t \in Thread : \A d \in CPU :
           Retiring(d, t)' <=> Retiring(d, t) \/ (d = c /\ t = x)
    BY <2>0, <1>0 DEF TypeOK, Retiring
  <2>3. \A d \in CPU : \A t \in Thread : current'[d] = t <=> current[d] = t /\ d # c
    BY <2>0, <1>0 DEF TypeOK
  <2>4. /\ \A d \in CPU : current[d] = x => d = c
        /\ \A d \in CPU : ~Retiring(d, x)
        /\ \A b \in Actor : ~Enqueuing(b, x)
    BY <2>0, <1>2 DEF ReadyOnce, CurrentOnce, RetiringOnce, EnqueuingOnce
  <2>5. \A t \in Thread : InTransit(t)' <=> InTransit(t)
    BY <2>0, <2>1, <2>2, <2>3 DEF InTransit
  <2>6. CurrentOnce'
    BY <2>0 DEF TypeOK, ReadyOnce, CurrentOnce
  <2>7. RetiringOnce'
    BY <2>2, <2>3, <2>4 DEF ReadyOnce, RetiringOnce
  <2>8. EnqueuingOnce'
    BY <2>1, <2>2, <2>3, <2>4 DEF ReadyOnce, EnqueuingOnce
  <2>9. QueueOnce'
    <3>1. \A k \in Class : \A i \in DOMAIN queue[k] : queue[k][i] \in Thread
      BY DEF TypeOK
    <3> QED BY <2>5, <3>1 DEF ReadyOnce, QueueOnce
  <2>10. QueuedIffHeld'
    BY <2>5 DEF ReadyOnce, QueuedIffHeld, Queued
  <2> QED BY <2>6, <2>7, <2>8, <2>9, <2>10 DEF ReadyOnce
<1> QED BY <1>1, <1>2

(* A CPU that dispatches the head of a queue takes its token from there. *)
LEMMA TokenToHead ==
    ASSUME ReadyOnce, TypeOK, NEW c \in CPU, jpc[c] = "none", retired[c] = Idle,
           NEW k \in Class, SwitchToHead(c, k), UNCHANGED <<queued, jpc, jt>>
    PROVE  ReadyOnce'
<1> DEFINE x == current[c]
<1>0. Idle \notin Thread /\ x \in Thread \cup {Idle}
  BY SchedulerAssumption DEF TypeOK
<1>1. /\ queue[k] \in Seq(Thread) /\ queue[k] # << >>
      /\ Len(queue[k]) \in Nat \ {0}
      /\ Head(queue[k]) = queue[k][1] /\ queue[k][1] \in Thread
      /\ 1 \in DOMAIN queue[k]
      /\ queue' = [queue EXCEPT ![k] = Tail(queue[k])]
  BY DEF SwitchToHead, TypeOK
<1>2. PICK n \in Thread : n = queue[k][1]
  BY <1>1
<1>3. /\ ~InTransit(n)
      /\ \A l \in Class : \A j \in DOMAIN queue[l] : queue[l][j] = n => l = k /\ j = 1
      /\ queued[n]
  BY <1>1, <1>2 DEF ReadyOnce, QueueOnce, QueuedIffHeld, Queued
<1>4. /\ \A d \in CPU : current[d] # n /\ ~Retiring(d, n)
      /\ \A b \in Actor : ~Enqueuing(b, n)
  BY <1>3 DEF InTransit
<1>5. /\ retired' = [retired EXCEPT ![c] = current[c]]
      /\ current' = [current EXCEPT ![c] = n]
  BY <1>1, <1>2, <1>4 DEF SwitchToHead, SwitchTo
<1>6. \A t \in Thread : \A b \in Actor : Enqueuing(b, t)' <=> Enqueuing(b, t)
  BY DEF Enqueuing
<1>7. \A t \in Thread : \A d \in CPU :
         Retiring(d, t)' <=> Retiring(d, t) \/ (d = c /\ t = x)
  BY <1>5, <1>0 DEF TypeOK, Retiring
<1>8. \A d \in CPU : \A t \in Thread :
         current'[d] = t <=> (current[d] = t /\ d # c) \/ (d = c /\ t = n)
  BY <1>5, <1>0 DEF TypeOK
<1>9. x \in Thread => /\ \A d \in CPU : current[d] = x => d = c
                      /\ \A d \in CPU : ~Retiring(d, x)
                      /\ \A b \in Actor : ~Enqueuing(b, x)
  BY <1>0 DEF ReadyOnce, CurrentOnce, RetiringOnce, EnqueuingOnce
<1>10. \A t \in Thread : InTransit(t)' <=> InTransit(t) \/ t = n
  BY <1>6, <1>7, <1>8 DEF InTransit
<1>11. /\ DOMAIN queue'[k] = 1 .. Len(queue[k]) - 1
       /\ DOMAIN queue[k] = 1 .. Len(queue[k])
       /\ \A i \in 1 .. Len(queue[k]) - 1 : queue'[k][i] = queue[k][i + 1]
       /\ \A l \in Class \ {k} : queue'[l] = queue[l]
       /\ \A l \in Class : queue[l] \in Seq(Thread)
  BY <1>1 DEF TypeOK
<1>12. \A l \in Class : \A j \in DOMAIN queue'[l] :
          /\ queue'[l][j] \in Thread
          /\ \/ l # k /\ j \in DOMAIN queue[l] /\ queue'[l][j] = queue[l][j]
             \/ l = k /\ j + 1 \in DOMAIN queue[l] /\ queue'[l][j] = queue[l][j + 1]
                /\ j \in Nat \ {0}
  BY <1>1, <1>11
<1>13. \A t \in Thread : Queued(t)' <=> Queued(t) /\ t # n
  <2>1. ASSUME NEW t \in Thread, Queued(t)' PROVE Queued(t) /\ t # n
    <3>0. PICK l \in Class : \E j \in DOMAIN queue'[l] : queue'[l][j] = t
      BY <2>1 DEF Queued
    <3>1. PICK j \in DOMAIN queue'[l] : queue'[l][j] = t
      BY <3>0
    <3>2. CASE l # k
      BY <1>3, <1>12, <3>1, <3>2 DEF Queued
    <3>3. CASE l = k
      <4>1. j + 1 \in DOMAIN queue[l] /\ queue[l][j + 1] = t /\ j + 1 # 1
        BY <1>12, <3>1, <3>3
      <4> QED BY <1>3, <4>1 DEF Queued
    <3> QED BY <3>2, <3>3
  <2>2. ASSUME NEW t \in Thread, Queued(t), t # n PROVE Queued(t)'
    <3>0. PICK l \in Class : \E j \in DOMAIN queue[l] : queue[l][j] = t
      BY <2>2 DEF Queued
    <3>1. PICK j \in DOMAIN queue[l] : queue[l][j] = t
      BY <3>0
    <3>2. CASE l # k
      BY <1>11, <3>1, <3>2 DEF Queued
    <3>3. CASE l = k
      <4>1. j - 1 \in DOMAIN queue'[k] /\ queue'[k][j - 1] = t
        BY <1>1, <1>2, <1>11, <2>2, <3>1, <3>3
      <4> QED BY <4>1 DEF Queued
    <3> QED BY <3>2, <3>3
  <2> QED BY <2>1, <2>2
<1>14. CurrentOnce'
  BY <1>5, <1>4 DEF TypeOK, ReadyOnce, CurrentOnce
<1>15. RetiringOnce'
  BY <1>0, <1>4, <1>7, <1>8, <1>9 DEF ReadyOnce, RetiringOnce
<1>16. EnqueuingOnce'
  BY <1>0, <1>4, <1>6, <1>7, <1>8, <1>9 DEF ReadyOnce, EnqueuingOnce
<1>17. QueueOnce'
  <2>1. ASSUME NEW l \in Class, NEW j \in DOMAIN queue'[l],
               NEW t \in Thread, t = queue'[l][j]
        PROVE  ~InTransit(t)'
    <3>1. t # n
      BY <1>13, <2>1 DEF Queued
    <3>2. ~InTransit(t)
      BY <1>12, <2>1 DEF ReadyOnce, QueueOnce
    <3> QED BY <1>10, <3>1, <3>2
  <2>2. ASSUME NEW l \in Class, NEW j \in DOMAIN queue'[l],
               NEW m \in Class, NEW i \in DOMAIN queue'[m], queue'[l][j] = queue'[m][i]
        PROVE  l = m /\ j = i
    <3>1. CASE l = k /\ m = k
      <4>1. j + 1 = i + 1
        BY <1>12, <2>2, <3>1 DEF ReadyOnce, QueueOnce
      <4> QED BY <4>1, <1>12, <3>1
    <3>2. CASE l # k \/ m # k
      BY <1>12, <2>2, <3>2 DEF ReadyOnce, QueueOnce
    <3> QED BY <3>1, <3>2
  <2> QED BY <1>12, <2>1, <2>2 DEF QueueOnce
<1>18. QueuedIffHeld'
  BY <1>3, <1>10, <1>13 DEF ReadyOnce, QueuedIffHeld
<1> QED BY <1>14, <1>15, <1>16, <1>17, <1>18 DEF ReadyOnce
-----------------------------------------------------------------------------
(* Dispatching preserves the invariant. *)

Dispatching(c) == /\ Inv
                  /\ jpc[c] = "none" /\ retired[c] = Idle
                  /\ UNCHANGED <<pool, queued, counter, stage, armed, jpc, jt, modeVars>>
                  /\ quantum' \in [Thread -> Nat]

LEMMA SwitchToInv ==
    ASSUME NEW c \in CPU, Dispatching(c), NEW n \in Thread \cup {Idle}, SwitchTo(c, n),
           queue' \in [Class -> Seq(Thread)]
    PROVE  TypeOK' /\ CpuDiscipline' /\ JobHasSubject'
<1>1. /\ current' \in [CPU -> Thread \cup {Idle}]
      /\ retired' \in [CPU -> Thread \cup {Idle}]
      /\ cpc' \in [CPU -> CpuPC]
  BY DEF Dispatching, Inv, TypeOK, SwitchTo, CpuPC
<1>2. TypeOK'
  BY <1>1 DEF Dispatching, Inv, TypeOK, modeVars
<1>3. CpuDiscipline'
  BY DEF Dispatching, Inv, TypeOK, CpuDiscipline, SwitchTo
<1>4. JobHasSubject'
  BY DEF Dispatching, Inv, JobHasSubject
<1> QED BY <1>2, <1>3, <1>4

LEMMA SwitchToIdleInv ==
    ASSUME NEW c \in CPU, Dispatching(c), SwitchTo(c, Idle), UNCHANGED queue
    PROVE  Inv'
<1>1. TypeOK' /\ CpuDiscipline' /\ JobHasSubject'
  BY SwitchToInv DEF Dispatching, Inv, TypeOK
<1>2. ReadyOnce'
  BY TokenToIdle DEF Dispatching, Inv
<1> QED BY <1>1, <1>2 DEF Inv

LEMMA SwitchToHeadInv ==
    ASSUME NEW c \in CPU, Dispatching(c), NEW k \in Class, SwitchToHead(c, k)
    PROVE  Inv'
<1>1. /\ queue' \in [Class -> Seq(Thread)]
      /\ Head(queue[k]) \in Thread
  BY DEF SwitchToHead, Dispatching, Inv, TypeOK
<1>2. TypeOK' /\ CpuDiscipline' /\ JobHasSubject'
  BY <1>1, SwitchToInv DEF SwitchToHead
<1>3. ReadyOnce'
  BY TokenToHead DEF Dispatching, Inv
<1> QED BY <1>2, <1>3 DEF Inv

LEMMA StayInv ==
    ASSUME NEW c \in CPU, Dispatching(c), cpc' = [cpc EXCEPT ![c] = "run"],
           UNCHANGED <<queue, current, retired>>
    PROVE  Inv'
<1>1. TypeOK'
  BY DEF Dispatching, Inv, TypeOK, CpuPC, modeVars
<1>2. CpuDiscipline'
  BY DEF Dispatching, Inv, TypeOK, CpuDiscipline
<1>3. JobHasSubject'
  BY DEF Dispatching, Inv, JobHasSubject
<1>4. ReadyOnce'
  BY TokenFrame DEF Dispatching, Inv
<1> QED BY <1>1, <1>2, <1>3, <1>4 DEF Inv

LEMMA SwitchToNextInv ==
    ASSUME NEW c \in CPU, Dispatching(c), NEW d \in {Idle, current[c]}, SwitchToNext(c, d)
    PROVE  Inv'
<1>1. CASE SwitchTo(c, Idle) /\ UNCHANGED queue
  BY <1>1, SwitchToIdleInv
<1>2. CASE SwitchToHead(c, "realtime")
  BY <1>2, SwitchToHeadInv DEF Class
<1>3. CASE SwitchToHead(c, "normal")
  BY <1>3, SwitchToHeadInv DEF Class
<1>4. CASE SwitchTo(c, current[c]) /\ UNCHANGED queue
  BY <1>4, StayInv DEF SwitchTo
<1> QED BY <1>1, <1>2, <1>3, <1>4 DEF SwitchToNext

LEMMA DispatchInv ==
    ASSUME Inv, NEW c \in CPU, Dispatch(c)
    PROVE  Inv'
<1> USE SchedulerAssumption
<1>0. c \in Actor
  BY DEF Actor
<1>1. CASE PickNext(c)
  <2>1. Dispatching(c)
    BY <1>1 DEF PickNext, Dispatching, Inv, TypeOK, CpuDiscipline, threadVars
  <2> QED BY <1>1, <2>1, SwitchToNextInv DEF PickNext
<1>2. CASE ReschedFrozen(c)
  <2>1. Dispatching(c)
    BY <1>2 DEF ReschedFrozen, InReschedule, Dispatching, Inv, TypeOK, CpuDiscipline,
                threadVars
  <2> QED BY <1>2, <2>1, SwitchToIdleInv DEF ReschedFrozen
<1>3. CASE ReschedRealtime(c)
  <2>1. Dispatching(c)
    BY <1>3 DEF ReschedRealtime, InReschedule, Dispatching, Inv, TypeOK, CpuDiscipline,
                threadVars
  <2> QED BY <1>3, <2>1, StayInv DEF ReschedRealtime
<1>4. CASE ReschedPreempt(c)
  <2>1. Dispatching(c)
    BY <1>4 DEF ReschedPreempt, Preemptible, InReschedule, Dispatching, Inv, TypeOK,
                CpuDiscipline, threadVars
  <2> QED BY <1>4, <2>1, SwitchToHeadInv DEF ReschedPreempt, Class
<1>5. CASE ReschedQuantum(c)
  <2>1. jpc[c] = "none" /\ cpc[c] = "irq" /\ retired[c] = Idle
    BY <1>5 DEF ReschedQuantum, Preemptible, InReschedule, Inv, CpuDiscipline
  <2>2. quantum' \in [Thread -> Nat]
    <3>1. quantum \in [Thread -> Nat] /\ QuantumOf \in [Thread -> Nat]
      BY DEF Inv, TypeOK
    <3>2. CASE current[c] \in Thread /\ quantum[current[c]] > 1
      <4>1. quantum' = [quantum EXCEPT ![current[c]] = quantum[current[c]] - 1]
        BY <1>5, <3>2 DEF ReschedQuantum
      <4> QED BY <3>1, <3>2, <4>1
    <3>3. CASE ~(current[c] \in Thread /\ quantum[current[c]] > 1)
      BY <1>5, <3>1, <3>3 DEF ReschedQuantum
    <3> QED BY <3>2, <3>3
  <2>3. Dispatching(c)
    BY <1>5, <2>1, <2>2 DEF ReschedQuantum, Dispatching
  <2>4. CASE cpc' = [cpc EXCEPT ![c] = "run"] /\ UNCHANGED <<queue, current, retired>>
    BY <2>3, <2>4, StayInv
  <2>5. CASE SwitchToNext(c, current[c])
    BY <2>3, <2>5, SwitchToNextInv
  <2> QED BY <1>5, <2>4, <2>5 DEF ReschedQuantum
<1>6. CASE ContextSwitch(c)
  <2>1. jpc[c] = "none"
    BY <1>6 DEF ContextSwitch, Inv, CpuDiscipline
  <2>2. TypeOK'
    BY <1>0, <1>6 DEF ContextSwitch, Begin, Inv, TypeOK, CpuPC, JobPC, threadVars, modeVars
  <2>3. CpuDiscipline'
    BY <1>0, <1>6 DEF ContextSwitch, Begin, Inv, TypeOK, CpuDiscipline, Actor
  <2>4. JobHasSubject'
    BY <1>0, <1>6 DEF ContextSwitch, Begin, Inv, TypeOK, JobHasSubject
  <2>5. ReadyOnce'
    BY <1>6, <2>1, TokenContextSwitch DEF ContextSwitch, Begin, Inv, threadVars
  <2> QED BY <2>2, <2>3, <2>4, <2>5 DEF Inv
<1>7. CASE RetireClear(c)
  <2>0. jpc[c] = "r_clear" /\ retired[c] = Idle /\ cpc[c] \in {"irq", "ret"}
    BY <1>7, <1>0 DEF RetireClear, JobStep, Executing, Inv, CpuDiscipline
  <2>1. jt[c] \in Thread \/ jt[c] = Idle
    BY <1>0 DEF Inv, TypeOK
  <2>2. TypeOK'
    BY <1>0, <1>7 DEF RetireClear, JobStep, Inv, TypeOK, JobPC, cpuVars, modeVars
  <2>3. CpuDiscipline'
    BY <1>0, <1>7, <2>0 DEF RetireClear, JobStep, Inv, TypeOK, CpuDiscipline, Actor, cpuVars
  <2>4. JobHasSubject'
    BY <1>0, <1>7, <2>1 DEF RetireClear, JobStep, Inv, TypeOK, JobHasSubject
  <2>5. ReadyOnce'
    BY <1>7, <2>0, TokenClear DEF RetireClear, JobStep, Inv, cpuVars, JobPC
  <2> QED BY <2>2, <2>3, <2>4, <2>5 DEF Inv
<1>8. CASE RetireZombie(c)
  <2>0. jpc[c] = "r_zombie" /\ cpc[c] \in {"irq", "ret"} /\ jt[c] \in Thread
    BY <1>8, <1>0 DEF RetireZombie, JobStep, Executing, Inv, JobHasSubject
  <2>2. TypeOK'
    BY <1>0, <1>8 DEF RetireZombie, JobStep, Inv, TypeOK, JobPC, cpuVars, modeVars, threadVars
  <2>3. CpuDiscipline'
    BY <1>0, <1>8, <2>0 DEF RetireZombie, JobStep, Inv, TypeOK, CpuDiscipline, Actor, cpuVars
  <2>4. JobHasSubject'
    BY <1>0, <1>8, <2>0 DEF RetireZombie, JobStep, Inv, TypeOK, JobHasSubject
  <2>5. ReadyOnce'
    BY <1>0, <1>8, <2>0, TokenJob DEF RetireZombie, JobStep, Inv, cpuVars, threadVars, JobPC
  <2> QED BY <2>2, <2>3, <2>4, <2>5 DEF Inv
<1>9. CASE RetireAsleep(c)
  <2>0. jpc[c] = "r_asleep" /\ cpc[c] \in {"irq", "ret"} /\ jt[c] \in Thread
    BY <1>9, <1>0 DEF RetireAsleep, JobStep, Executing, Inv, JobHasSubject
  <2>2. TypeOK'
    BY <1>0, <1>9 DEF RetireAsleep, JobStep, Inv, TypeOK, JobPC, cpuVars, modeVars, threadVars
  <2>3. CpuDiscipline'
    BY <1>0, <1>9, <2>0 DEF RetireAsleep, JobStep, Inv, TypeOK, CpuDiscipline, Actor, cpuVars
  <2>4. JobHasSubject'
    BY <1>0, <1>9, <2>0 DEF RetireAsleep, JobStep, Inv, TypeOK, JobHasSubject
  <2>5. ReadyOnce'
    BY <1>0, <1>9, <2>0, TokenJob DEF RetireAsleep, JobStep, Inv, cpuVars, threadVars, JobPC
  <2> QED BY <2>2, <2>3, <2>4, <2>5 DEF Inv
<1>10. CASE Resume(c)
  <2>1. Dispatching(c)
    BY <1>10 DEF Resume, Dispatching, Inv, TypeOK, CpuDiscipline, threadVars
  <2> QED BY <1>10, <2>1, StayInv DEF Resume
<1> QED
  BY <1>1, <1>2, <1>3, <1>4, <1>5, <1>6, <1>7, <1>8, <1>9, <1>10 DEF Dispatch

-----------------------------------------------------------------------------
(* The steps of threads, wakers and interrupts preserve the invariant. *)

LEMMA ThreadStepInv ==
    ASSUME Inv, NEW c \in CPU, NEW t \in Thread, ThreadStep(c, t)
    PROVE  Inv'
<1> USE SchedulerAssumption
<1>0. t \in Actor /\ t \notin CPU
  BY DEF Actor
<1>1. CASE Arm(c, t)
  <2>1. TypeOK'
    BY <1>1 DEF Arm, SetStage, Inv, TypeOK, Stage, cpuVars, modeVars
  <2>2. CpuDiscipline' /\ JobHasSubject'
    BY <1>1 DEF Arm, Inv, CpuDiscipline, JobHasSubject, cpuVars
  <2>3. ReadyOnce'
    BY <1>1, TokenFrame DEF Arm, Inv, cpuVars
  <2> QED BY <2>1, <2>2, <2>3 DEF Inv
<1>2. CASE sleep_thread(c, t)
  <2>1. stage' \in [Thread -> Stage]
    BY <1>2 DEF sleep_thread, SetStage, Inv, TypeOK, Stage
  <2>2. counter' \in [Thread -> Int] /\ cpc' \in [CPU -> CpuPC]
    BY <1>2 DEF sleep_thread, Inv, TypeOK, CpuPC
  <2>3. TypeOK'
    BY <1>2, <2>1, <2>2 DEF sleep_thread, Inv, TypeOK, modeVars
  <2>4. CpuDiscipline' /\ JobHasSubject'
    BY <1>2 DEF sleep_thread, Runs, Inv, TypeOK, CpuDiscipline, JobHasSubject
  <2>5. ReadyOnce'
    BY <1>2, TokenFrame DEF sleep_thread, Inv
  <2> QED BY <2>3, <2>4, <2>5 DEF Inv
<1>3. CASE yield_thread(c, t)
  <2>1. TypeOK'
    BY <1>3 DEF yield_thread, Inv, TypeOK, CpuPC, threadVars, modeVars
  <2>2. CpuDiscipline' /\ JobHasSubject'
    BY <1>3 DEF yield_thread, Runs, Inv, TypeOK, CpuDiscipline, JobHasSubject
  <2>3. ReadyOnce'
    BY <1>3, TokenFrame DEF yield_thread, Inv, threadVars
  <2> QED BY <2>1, <2>2, <2>3 DEF Inv
<1>4. CASE ExitBegin(c, t)
  <2>1. TypeOK'
    BY <1>4 DEF ExitBegin, SetStage, Inv, TypeOK, Stage, CpuPC, modeVars
  <2>2. CpuDiscipline' /\ JobHasSubject'
    BY <1>4 DEF ExitBegin, Runs, Inv, TypeOK, CpuDiscipline, JobHasSubject
  <2>3. ReadyOnce'
    BY <1>4, TokenFrame DEF ExitBegin, Inv
  <2> QED BY <2>1, <2>2, <2>3 DEF Inv
<1>5. CASE ExitZombie(c, t)
  <2>1. TypeOK'
    BY <1>5 DEF ExitZombie, SetStage, Inv, TypeOK, Stage, cpuVars, modeVars
  <2>2. CpuDiscipline' /\ JobHasSubject'
    BY <1>5 DEF ExitZombie, Inv, CpuDiscipline, JobHasSubject, cpuVars
  <2>3. ReadyOnce'
    BY <1>5, TokenFrame DEF ExitZombie, Inv, cpuVars
  <2> QED BY <2>1, <2>2, <2>3 DEF Inv
<1>6. ASSUME NEW u \in Thread, spawn_thread(c, t, u) PROVE Inv'
  <2>1. TypeOK'
    BY <1>0, <1>6 DEF spawn_thread, SetStage, Begin, Inv, TypeOK, Stage, JobPC, cpuVars,
                modeVars
  <2>2. CpuDiscipline' /\ JobHasSubject'
    BY <1>0, <1>6 DEF spawn_thread, Begin, Inv, TypeOK, CpuDiscipline, JobHasSubject,
                cpuVars, Actor
  <2>3. ReadyOnce'
    BY <1>0, <1>6, TokenJob DEF spawn_thread, Begin, Runs, Inv, cpuVars, JobPC
  <2> QED BY <2>1, <2>2, <2>3 DEF Inv
<1> QED BY <1>1, <1>2, <1>3, <1>4, <1>5, <1>6 DEF ThreadStep

LEMMA WakeBeginInv ==
    ASSUME Inv, NEW a \in Actor, NEW u \in Thread, WakeBegin(a, u)
    PROVE  Inv'
<1> USE SchedulerAssumption
<1>1. jpc[a] = "none" /\ (a \in CPU => cpc[a] = "irq")
  BY DEF WakeBegin, MayWake, Runs, Actor
<1>2. TypeOK'
  BY DEF WakeBegin, Begin, Inv, TypeOK, JobPC, cpuVars, modeVars
<1>3. CpuDiscipline' /\ JobHasSubject'
  BY <1>1 DEF WakeBegin, Begin, Inv, TypeOK, CpuDiscipline, JobHasSubject, cpuVars, Actor
<1>4. ReadyOnce'
  BY <1>1, TokenJob DEF WakeBegin, Begin, Inv, cpuVars, JobPC
<1> QED BY <1>2, <1>3, <1>4 DEF Inv

LEMMA JobInv ==
    ASSUME Inv, NEW a \in Actor, JobAction(a)
    PROVE  Inv'
<1> USE SchedulerAssumption
<1>0. /\ jpc[a] \in {"w_get", "w_dec", "add", "set", "enq"}
      /\ jt[a] \in Thread
      /\ a \in CPU => cpc[a] \in {"irq", "ret"}
  BY DEF JobAction, WakeGet, WakeDec, AddCheck, FetchSet, _enqueue, JobStep, Executing,
         Actor, Inv, JobHasSubject
<1>1. UNCHANGED cpuVars
  BY DEF JobAction, WakeGet, WakeDec, AddCheck, FetchSet, _enqueue
<1>2. PICK v \in {"none", "w_dec", "add", "set", "enq"} :
         /\ jpc' = [jpc EXCEPT ![a] = v]
         /\ jt' = [jt EXCEPT ![a] = IF v = "none" THEN Idle ELSE jt[a]]
  BY DEF JobAction, WakeGet, WakeDec, AddCheck, FetchSet, _enqueue, JobStep
<1>3. CpuDiscipline'
  BY <1>0, <1>1, <1>2 DEF Inv, TypeOK, CpuDiscipline, cpuVars, Actor
<1>4. JobHasSubject'
  BY <1>0, <1>2 DEF Inv, TypeOK, JobHasSubject
<1>5. /\ jpc' \in [Actor -> JobPC]
      /\ jt' \in [Actor -> Thread \cup {Idle}]
  BY <1>0, <1>2 DEF Inv, TypeOK, JobPC
<1>6. CASE WakeGet(a)
  <2>1. TypeOK'
    BY <1>5, <1>6 DEF WakeGet, Inv, TypeOK, threadVars, cpuVars, modeVars
  <2>2. ReadyOnce'
    BY <1>6, TokenJob DEF WakeGet, JobStep, Inv, threadVars, cpuVars, JobPC
  <2> QED BY <1>3, <1>4, <2>1, <2>2 DEF Inv
<1>7. CASE WakeDec(a)
  <2>1. TypeOK'
    BY <1>0, <1>5, <1>7 DEF WakeDec, Inv, TypeOK, cpuVars, modeVars
  <2>2. ReadyOnce'
    BY <1>7, TokenJob DEF WakeDec, JobStep, Inv, cpuVars, JobPC
  <2> QED BY <1>3, <1>4, <2>1, <2>2 DEF Inv
<1>8. CASE AddCheck(a)
  <2>1. TypeOK'
    BY <1>5, <1>8 DEF AddCheck, Inv, TypeOK, threadVars, cpuVars, modeVars
  <2>2. ReadyOnce'
    BY <1>8, TokenJob DEF AddCheck, JobStep, Inv, threadVars, cpuVars, JobPC
  <2> QED BY <1>3, <1>4, <2>1, <2>2 DEF Inv
<1>9. CASE FetchSet(a)
  <2>1. TypeOK'
    BY <1>0, <1>5, <1>9 DEF FetchSet, Inv, TypeOK, cpuVars, modeVars
  <2>2. CASE queued[jt[a]]
    <3>1. queued' = queued
      BY <1>0, <1>9, <2>2 DEF FetchSet, Inv, TypeOK
    <3>2. ReadyOnce'
      BY <1>9, <2>2, <3>1, TokenJob DEF FetchSet, JobStep, Inv, cpuVars, JobPC
    <3> QED BY <1>3, <1>4, <2>1, <3>2 DEF Inv
  <2>3. CASE ~queued[jt[a]]
    <3>1. jt' = jt
      BY <1>9, <2>3 DEF FetchSet, JobStep, Inv, TypeOK
    <3>2. ReadyOnce'
      BY <1>0, <1>9, <2>3, <3>1, TokenSet DEF FetchSet, JobStep, Inv, cpuVars
    <3> QED BY <1>3, <1>4, <2>1, <3>2 DEF Inv
  <2> QED BY <2>2, <2>3
<1>10. CASE _enqueue(a)
  <2>1. queue' \in [Class -> Seq(Thread)]
    BY <1>0, <1>10 DEF _enqueue, Inv, TypeOK, ClassOf, Class
  <2>2. TypeOK'
    BY <1>5, <1>10, <2>1 DEF _enqueue, Inv, TypeOK, threadVars, cpuVars, modeVars
  <2>3. ReadyOnce'
    BY <1>0, <1>10, TokenEnqueue DEF _enqueue, JobStep, Inv, threadVars, cpuVars
  <2> QED BY <1>3, <1>4, <2>2, <2>3 DEF Inv
<1> QED BY <1>6, <1>7, <1>8, <1>9, <1>10 DEF JobAction

LEMMA InitInv == Init => Inv
<1> SUFFICES ASSUME Init PROVE Inv
  OBVIOUS
<1> USE SchedulerAssumption
<1>1. \A k \in Class : queue[k] = IF k = ClassOf(Root) THEN <<Root>> ELSE << >>
  BY DEF Init
<1>2. queue \in [Class -> Seq(Thread)]
  BY DEF Init
<1>3. TypeOK
  <2>1. /\ pool \subseteq Thread /\ frozen \in BOOLEAN
        /\ sstate \in {"Normal", "Saving", "FullThrottle"}
    BY DEF Init
  <2>2. /\ queued \in [Thread -> BOOLEAN] /\ counter \in [Thread -> Int]
        /\ quantum \in [Thread -> Nat] /\ armed \in [Thread -> 0 .. MaxArmed]
    BY DEF Init
  <2>3. stage \in [Thread -> Stage]
    BY DEF Init, Stage
  <2>4. /\ current \in [CPU -> Thread \cup {Idle}]
        /\ retired \in [CPU -> Thread \cup {Idle}]
        /\ cpc \in [CPU -> CpuPC]
    BY DEF Init, CpuPC
  <2>5. jpc \in [Actor -> JobPC] /\ jt \in [Actor -> Thread \cup {Idle}]
    BY DEF Init, JobPC
  <2> QED BY <1>2, <2>1, <2>2, <2>3, <2>4, <2>5 DEF TypeOK
<1>4. CpuDiscipline /\ JobHasSubject
  BY DEF Init, CpuDiscipline, JobHasSubject, Actor
<1>5. \A t \in Thread : ~InTransit(t)
  BY DEF Init, InTransit, Retiring, Enqueuing, Actor
<1>6. \A k \in Class : \A i \in DOMAIN queue[k] :
         k = ClassOf(Root) /\ i = 1 /\ queue[k][i] = Root
  BY <1>1
<1>7. ClassOf(Root) \in Class /\ 1 \in DOMAIN queue[ClassOf(Root)]
                              /\ queue[ClassOf(Root)][1] = Root
  BY <1>1 DEF ClassOf, Class
<1>8. \A t \in Thread : Queued(t) <=> t = Root
  BY <1>6, <1>7 DEF Queued
<1>9. QueuedIffHeld
  BY <1>5, <1>8 DEF Init, QueuedIffHeld
<1>10. QueueOnce
  BY <1>5, <1>6 DEF QueueOnce
<1>11. CurrentOnce /\ RetiringOnce /\ EnqueuingOnce
  BY DEF Init, CurrentOnce, RetiringOnce, EnqueuingOnce, Retiring, Enqueuing, Actor
<1> QED BY <1>3, <1>4, <1>9, <1>10, <1>11 DEF Inv, ReadyOnce

LEMMA NextInv == Inv /\ [Next]_vars => Inv'
<1> SUFFICES ASSUME Inv, [Next]_vars PROVE Inv'
  OBVIOUS
<1>1. ASSUME NEW c \in CPU, NEW t \in Thread, ThreadStep(c, t) PROVE Inv'
  BY <1>1, ThreadStepInv
<1>2. ASSUME NEW a \in Actor, NEW u \in Thread, WakeBegin(a, u) PROVE Inv'
  BY <1>2, WakeBeginInv
<1>3. ASSUME NEW a \in Actor, JobAction(a) PROVE Inv'
  BY <1>3, JobInv
<1>4. ASSUME NEW c \in CPU, Interrupt(c) PROVE Inv'
  <2>1. TypeOK'
    BY <1>4 DEF Interrupt, Inv, TypeOK, CpuPC, threadVars, modeVars
  <2>2. CpuDiscipline' /\ JobHasSubject'
    BY <1>4 DEF Interrupt, Inv, TypeOK, CpuDiscipline, JobHasSubject
  <2>3. ReadyOnce'
    BY <1>4, TokenFrame DEF Interrupt, Inv, threadVars
  <2> QED BY <2>1, <2>2, <2>3 DEF Inv
<1>5. ASSUME NEW c \in CPU, Dispatch(c) PROVE Inv'
  BY <1>5, DispatchInv
<1>6. ASSUME NEW c \in CPU, Panic(c) PROVE Inv'
  <2>1. TypeOK'
    BY <1>6 DEF Panic, Inv, TypeOK, CpuPC, threadVars
  <2>2. CpuDiscipline' /\ JobHasSubject'
    BY <1>6 DEF Panic, Inv, TypeOK, CpuDiscipline, JobHasSubject
  <2>3. ReadyOnce'
    BY <1>6, TokenFrame DEF Panic, Inv, threadVars
  <2> QED BY <2>1, <2>2, <2>3 DEF Inv
<1>7. ASSUME NEW s \in Modes, set_current_state(s) PROVE Inv'
  <2>1. TypeOK' /\ CpuDiscipline' /\ JobHasSubject'
    BY <1>7, SchedulerAssumption DEF set_current_state, Inv, TypeOK, CpuDiscipline,
       JobHasSubject, threadVars, cpuVars
  <2>2. ReadyOnce'
    BY <1>7, TokenFrame DEF set_current_state, Inv, threadVars, cpuVars
  <2> QED BY <2>1, <2>2 DEF Inv
<1>8. CASE freeze
  <2>1. TypeOK' /\ CpuDiscipline' /\ JobHasSubject'
    BY <1>8 DEF freeze, Inv, TypeOK, CpuDiscipline, JobHasSubject, threadVars, cpuVars
  <2>2. ReadyOnce'
    BY <1>8, TokenFrame DEF freeze, Inv, threadVars, cpuVars
  <2> QED BY <2>1, <2>2 DEF Inv
<1>9. CASE UNCHANGED vars
  <2>1. TypeOK' /\ CpuDiscipline' /\ JobHasSubject'
    BY <1>9 DEF vars, Inv, TypeOK, CpuDiscipline, JobHasSubject, threadVars, cpuVars,
       modeVars
  <2>2. ReadyOnce'
    BY <1>9, TokenFrame DEF vars, Inv, threadVars, cpuVars
  <2> QED BY <2>1, <2>2 DEF Inv
<1> QED
  BY <1>1, <1>2, <1>3, <1>4, <1>5, <1>6, <1>7, <1>8, <1>9 DEF Next

(* Every variable of the scheduler keeps its type. *)
THEOREM TypesHold == Spec => []TypeOK
<1>1. Spec => []Inv
  BY InitInv, NextInv, PTL DEF Spec
<1>2. Inv => TypeOK
  BY DEF Inv
<1> QED BY <1>1, <1>2, PTL

(* QUEUED is a token: on any number of CPUs, a thread is never queued twice *)
(* nor queued while it runs, however wake, add and retire interleave.       *)
THEOREM ThreadsAreReadyOnce == Spec => []ReadyOnce
<1>1. Spec => []Inv
  BY InitInv, NextInv, PTL DEF Spec
<1>2. Inv => ReadyOnce
  BY DEF Inv
<1> QED BY <1>1, <1>2, PTL

(* No two CPUs ever execute on the stack of the same thread. *)
THEOREM StacksAreExclusive == Spec => []OneCpuPerStack
<1>1. Spec => []Inv
  BY InitInv, NextInv, PTL DEF Spec
<1>2. Inv => OneCpuPerStack
  BY DEF Inv, TypeOK, ReadyOnce, CurrentOnce, RetiringOnce, Retiring, OneCpuPerStack, StackOf
<1> QED BY <1>1, <1>2, PTL

-----------------------------------------------------------------------------
(* No wake is lost.  It rests on the invariant above, which says that an    *)
(* actor begins a job only when it has none.                                *)

ReadyingPC == {"add", "set", "r_zombie", "r_asleep"}

(* An actor that is not readying a thread may do whatever it likes: those   *)
(* that are go on doing so.                                                 *)
LEMMA ReadyingFrame ==
    ASSUME TypeOK, NEW a \in Actor, NEW v, NEW u, jpc[a] \notin ReadyingPC,
           jpc' = [jpc EXCEPT ![a] = v], jt' = [jt EXCEPT ![a] = u]
    PROVE  \A t \in Thread : BeingReadied(t) => BeingReadied(t)'
<1> SUFFICES ASSUME NEW t \in Thread, BeingReadied(t) PROVE BeingReadied(t)'
  OBVIOUS
<1>1. PICK b \in Actor : jt[b] = t /\ jpc[b] \in ReadyingPC
  BY DEF BeingReadied, ReadyingPC
<1>2. b # a
  BY <1>1
<1>3. jt'[b] = t /\ jpc'[b] \in ReadyingPC
  BY <1>1, <1>2 DEF TypeOK
<1> QED BY <1>3 DEF BeingReadied, ReadyingPC

(* Steps that touch none of what the property is about. *)
LEMMA AwakeFrame ==
    ASSUME AwakeIsReady, UNCHANGED <<pool, stage, counter, queued, jpc, jt>>
    PROVE  AwakeIsReady'
BY DEF AwakeIsReady, BeingReadied, IsZombie

(* Steps that only begin, continue or end a job that readies nobody. *)
LEMMA AwakeJob ==
    ASSUME AwakeIsReady, TypeOK, NEW a \in Actor, NEW v, NEW u,
           jpc[a] \notin ReadyingPC,
           jpc' = [jpc EXCEPT ![a] = v], jt' = [jt EXCEPT ![a] = u],
           UNCHANGED <<pool, stage, counter, queued>>
    PROVE  AwakeIsReady'
BY ReadyingFrame DEF AwakeIsReady, IsZombie, TypeOK

LEMMA ThreadStepAwake ==
    ASSUME Inv, AwakeIsReady, NEW c \in CPU, NEW t \in Thread, ThreadStep(c, t)
    PROVE  AwakeIsReady'
<1>1. CASE Arm(c, t) \/ yield_thread(c, t) \/ ExitBegin(c, t)
  <2>1. UNCHANGED <<pool, counter, queued, jpc, jt>>
    BY <1>1 DEF Arm, yield_thread, ExitBegin, threadVars
  <2>2. \A u \in Thread : IsZombie(u)' <=> IsZombie(u)
    BY <1>1 DEF Arm, yield_thread, ExitBegin, SetStage, IsZombie, threadVars, Inv, TypeOK
  <2> QED BY <2>1, <2>2 DEF AwakeIsReady, BeingReadied, Inv, TypeOK
<1>2. CASE sleep_thread(c, t)
  <2>1. UNCHANGED <<pool, queued, jpc, jt>>
    BY <1>2 DEF sleep_thread
  <2>2. \A u \in Thread : IsZombie(u)' <=> IsZombie(u)
    BY <1>2 DEF sleep_thread, SetStage, IsZombie, Inv, TypeOK
  <2>3. \A u \in Thread : counter'[u] <= 0 => counter[u] <= 0
    BY <1>2 DEF sleep_thread, Inv, TypeOK
  <2> QED BY <2>1, <2>2, <2>3 DEF AwakeIsReady, BeingReadied, Inv, TypeOK
<1>3. CASE ExitZombie(c, t)
  <2>1. UNCHANGED <<pool, counter, queued, jpc, jt>>
    BY <1>3 DEF ExitZombie, cpuVars
  <2>2. \A u \in Thread : IsZombie(u) => IsZombie(u)'
    BY <1>3 DEF ExitZombie, SetStage, IsZombie, Inv, TypeOK
  <2> QED BY <2>1, <2>2 DEF AwakeIsReady, BeingReadied, Inv, TypeOK
<1>4. ASSUME NEW u \in Thread, spawn_thread(c, t, u) PROVE AwakeIsReady'
  <2>1. t \in Actor /\ jpc[t] \notin ReadyingPC
    BY <1>4 DEF spawn_thread, Runs, Actor, ReadyingPC
  <2>2. \A w \in Thread : BeingReadied(w) => BeingReadied(w)'
    BY <1>4, <2>1, ReadyingFrame DEF spawn_thread, Begin, Inv
  <2>3. BeingReadied(u)'
    BY <1>4, <2>1 DEF spawn_thread, Begin, BeingReadied, Inv, TypeOK
  <2>4. \A w \in Thread : w # u => (IsZombie(w)' <=> IsZombie(w)) /\ (w \in pool' <=> w \in pool)
    BY <1>4 DEF spawn_thread, SetStage, IsZombie, Inv, TypeOK
  <2>5. UNCHANGED <<counter, queued>> /\ pool' \subseteq Thread
    BY <1>4 DEF spawn_thread, Inv, TypeOK
  <2> QED BY <2>2, <2>3, <2>4, <2>5 DEF AwakeIsReady
<1> QED BY <1>1, <1>2, <1>3, <1>4 DEF ThreadStep

LEMMA JobAwake ==
    ASSUME Inv, AwakeIsReady, NEW a \in Actor, JobAction(a)
    PROVE  AwakeIsReady'
<1>1. CASE WakeGet(a)
  <2>1. jpc[a] \notin ReadyingPC
    BY <1>1 DEF WakeGet, JobStep, ReadyingPC
  <2> QED BY <1>1, <2>1, AwakeJob DEF WakeGet, JobStep, Inv, threadVars
<1>2. CASE WakeDec(a)
  <2>1. jpc[a] \notin ReadyingPC /\ jt[a] \in Thread
    BY <1>2 DEF WakeDec, JobStep, ReadyingPC, Inv, JobHasSubject
  <2>2. \A w \in Thread : BeingReadied(w) => BeingReadied(w)'
    BY <1>2, <2>1, ReadyingFrame DEF WakeDec, JobStep, Inv
  <2>3. \A w \in Thread : w = jt[a] => BeingReadied(w)'
    BY <1>2, <2>1 DEF WakeDec, JobStep, BeingReadied, Inv, TypeOK
  <2>4. \A w \in Thread : w # jt[a] => counter'[w] = counter[w]
    BY <1>2 DEF WakeDec, Inv, TypeOK
  <2>5. UNCHANGED <<pool, stage, queued>>
    BY <1>2 DEF WakeDec
  <2> QED BY <2>2, <2>3, <2>4, <2>5 DEF AwakeIsReady, IsZombie, Inv, TypeOK
<1>3. CASE AddCheck(a)
  <2>1. jpc[a] = "add" /\ jt[a] \in Thread
    BY <1>3 DEF AddCheck, JobStep, Inv, JobHasSubject
  <2>2. UNCHANGED <<pool, stage, counter, queued>>
    BY <1>3 DEF AddCheck, threadVars
  <2>3. ASSUME NEW w \in Thread, BeingReadied(w), ~IsZombie(w) PROVE BeingReadied(w)'
    <3>1. PICK b \in Actor : jt[b] = w /\ jpc[b] \in ReadyingPC
      BY <2>3 DEF BeingReadied, ReadyingPC
    <3>2. CASE b = a
      <4>1. jpc' = [jpc EXCEPT ![a] = "set"]
        BY <1>3, <2>3, <3>1, <3>2 DEF AddCheck, JobStep
      <4>2. jt' = jt
        BY <1>3, <2>3, <3>1, <3>2 DEF AddCheck, JobStep, Inv, TypeOK
      <4> QED BY <3>1, <3>2, <4>1, <4>2 DEF BeingReadied, Inv, TypeOK
    <3>3. CASE b # a
      <4>1. jt'[b] = w /\ jpc'[b] \in ReadyingPC
        BY <1>3, <3>1, <3>3 DEF AddCheck, JobStep, Inv, TypeOK
      <4> QED BY <4>1 DEF BeingReadied, ReadyingPC
    <3> QED BY <3>2, <3>3
  <2> QED BY <2>2, <2>3 DEF AwakeIsReady, IsZombie, Inv, TypeOK
<1>4. CASE FetchSet(a)
  <2>1. jpc[a] = "set" /\ jt[a] \in Thread
    BY <1>4 DEF FetchSet, JobStep, Inv, JobHasSubject
  <2>2. UNCHANGED <<pool, stage, counter>>
    BY <1>4 DEF FetchSet
  <2>3. \A w \in Thread : queued'[w] = (queued[w] \/ w = jt[a])
    BY <1>4, <2>1 DEF FetchSet, Inv, TypeOK
  <2>4. ASSUME NEW w \in Thread, BeingReadied(w), w # jt[a] PROVE BeingReadied(w)'
    <3>1. PICK b \in Actor : jt[b] = w /\ jpc[b] \in ReadyingPC
      BY <2>4 DEF BeingReadied, ReadyingPC
    <3>2. jt'[b] = w /\ jpc'[b] \in ReadyingPC
      BY <1>4, <2>4, <3>1 DEF FetchSet, JobStep, Inv, TypeOK
    <3> QED BY <3>2 DEF BeingReadied, ReadyingPC
  <2> QED BY <2>2, <2>3, <2>4 DEF AwakeIsReady, IsZombie, Inv, TypeOK
<1>5. CASE _enqueue(a)
  <2>1. jpc[a] \notin ReadyingPC
    BY <1>5 DEF _enqueue, JobStep, ReadyingPC
  <2> QED BY <1>5, <2>1, AwakeJob DEF _enqueue, JobStep, Inv, threadVars
<1> QED BY <1>1, <1>2, <1>3, <1>4, <1>5 DEF JobAction

LEMMA RetireAwake ==
    ASSUME Inv, AwakeIsReady, NEW c \in CPU,
           RetireClear(c) \/ RetireZombie(c) \/ RetireAsleep(c)
    PROVE  AwakeIsReady'
<1>0. c \in Actor
  BY DEF Actor
<1>1. CASE RetireClear(c)
  <2>1. jpc[c] \notin ReadyingPC
    BY <1>1 DEF RetireClear, JobStep, ReadyingPC
  <2>2. \A w \in Thread : BeingReadied(w) => BeingReadied(w)'
    BY <1>0, <1>1, <2>1, ReadyingFrame DEF RetireClear, JobStep, Inv
  <2>3. \A w \in Thread : w = jt[c] => BeingReadied(w)'
    <3> SUFFICES ASSUME NEW w \in Thread, w = jt[c] PROVE BeingReadied(w)'
      OBVIOUS
    <3>1. jt[c] # Idle
      BY SchedulerAssumption
    <3>2. jpc' = [jpc EXCEPT ![c] = "r_zombie"] /\ jt' = [jt EXCEPT ![c] = jt[c]]
      BY <1>1, <3>1 DEF RetireClear, JobStep
    <3> QED BY <1>0, <3>2 DEF BeingReadied, Inv, TypeOK
  <2>4. \A w \in Thread : w # jt[c] => queued'[w] = queued[w]
    BY <1>1 DEF RetireClear, Inv, TypeOK
  <2>5. UNCHANGED <<pool, stage, counter>>
    BY <1>1 DEF RetireClear
  <2> QED BY <2>2, <2>3, <2>4, <2>5 DEF AwakeIsReady, IsZombie, Inv, TypeOK
<1>2. CASE RetireZombie(c)
  <2>1. UNCHANGED <<stage, counter, queued>> /\ pool' \subseteq pool
    BY <1>2 DEF RetireZombie, threadVars
  <2>2. ASSUME NEW w \in Thread, BeingReadied(w), ~IsZombie(w) PROVE BeingReadied(w)'
    <3>1. PICK b \in Actor : jt[b] = w /\ jpc[b] \in ReadyingPC
      BY <2>2 DEF BeingReadied, ReadyingPC
    <3>2. CASE b = c
      <4>1. jpc' = [jpc EXCEPT ![c] = "r_asleep"]
        BY <1>2, <2>2, <3>1, <3>2 DEF RetireZombie, JobStep
      <4>2. jt' = jt
        BY <1>2, <2>2, <3>1, <3>2 DEF RetireZombie, JobStep, Inv, TypeOK
      <4> QED BY <3>1, <3>2, <4>1, <4>2 DEF BeingReadied, Inv, TypeOK
    <3>3. CASE b # c
      <4>1. jt'[b] = w /\ jpc'[b] \in ReadyingPC
        BY <1>2, <3>1, <3>3 DEF RetireZombie, JobStep, Inv, TypeOK
      <4> QED BY <4>1 DEF BeingReadied, ReadyingPC
    <3> QED BY <3>2, <3>3
  <2> QED BY <2>1, <2>2 DEF AwakeIsReady, IsZombie, Inv, TypeOK
<1>3. CASE RetireAsleep(c)
  <2>1. UNCHANGED <<pool, stage, counter, queued>>
    BY <1>3 DEF RetireAsleep, threadVars
  <2>2. ASSUME NEW w \in Thread, BeingReadied(w), counter[w] <= 0 PROVE BeingReadied(w)'
    <3>1. PICK b \in Actor : jt[b] = w /\ jpc[b] \in ReadyingPC
      BY <2>2 DEF BeingReadied, ReadyingPC
    <3>2. CASE b = c
      <4>0. ~(counter[jt[c]] > 0)
        BY <2>2, <3>1, <3>2 DEF Inv, TypeOK
      <4>1. jpc' = [jpc EXCEPT ![c] = "set"]
        BY <1>3, <4>0 DEF RetireAsleep, JobStep
      <4>2. jt' = jt
        BY <1>3, <4>0 DEF RetireAsleep, JobStep, Inv, TypeOK
      <4> QED BY <3>1, <3>2, <4>1, <4>2 DEF BeingReadied, Inv, TypeOK
    <3>3. CASE b # c
      <4>1. jt'[b] = w /\ jpc'[b] \in ReadyingPC
        BY <1>3, <3>1, <3>3 DEF RetireAsleep, JobStep, Inv, TypeOK
      <4> QED BY <4>1 DEF BeingReadied, ReadyingPC
    <3> QED BY <3>2, <3>3
  <2> QED BY <2>1, <2>2 DEF AwakeIsReady, IsZombie, Inv, TypeOK
<1> QED BY <1>1, <1>2, <1>3

LEMMA DispatchAwake ==
    ASSUME Inv, AwakeIsReady, NEW c \in CPU, Dispatch(c)
    PROVE  AwakeIsReady'
<1>1. CASE PickNext(c) \/ ReschedFrozen(c) \/ ReschedRealtime(c) \/ ReschedPreempt(c)
             \/ ReschedQuantum(c) \/ Resume(c)
  <2>1. UNCHANGED <<pool, stage, counter, queued, jpc, jt>>
    BY <1>1 DEF PickNext, ReschedFrozen, ReschedRealtime, ReschedPreempt, ReschedQuantum,
       Resume, threadVars
  <2> QED BY <2>1, AwakeFrame
<1>2. CASE ContextSwitch(c)
  <2>1. c \in Actor /\ jpc[c] \notin ReadyingPC
    BY <1>2 DEF ContextSwitch, Inv, CpuDiscipline, Actor, ReadyingPC
  <2> QED BY <1>2, <2>1, AwakeJob DEF ContextSwitch, Begin, Inv, threadVars
<1>3. CASE RetireClear(c) \/ RetireZombie(c) \/ RetireAsleep(c)
  BY <1>3, RetireAwake
<1> QED BY <1>1, <1>2, <1>3 DEF Dispatch

LEMMA InitAwake == Init => AwakeIsReady
<1> SUFFICES ASSUME Init PROVE AwakeIsReady
  OBVIOUS
<1>1. pool = {Root} /\ queued[Root]
  BY SchedulerAssumption DEF Init
<1> QED BY <1>1 DEF AwakeIsReady

LEMMA NextAwake == Inv /\ AwakeIsReady /\ [Next]_vars => AwakeIsReady'
<1> SUFFICES ASSUME Inv, AwakeIsReady, [Next]_vars PROVE AwakeIsReady'
  OBVIOUS
<1>1. ASSUME NEW c \in CPU, NEW t \in Thread, ThreadStep(c, t) PROVE AwakeIsReady'
  BY <1>1, ThreadStepAwake
<1>2. ASSUME NEW a \in Actor, NEW u \in Thread, WakeBegin(a, u) PROVE AwakeIsReady'
  <2>1. jpc[a] \notin ReadyingPC
    BY <1>2 DEF WakeBegin, MayWake, Runs, ReadyingPC
  <2> QED BY <1>2, <2>1, AwakeJob DEF WakeBegin, Begin, Inv
<1>3. ASSUME NEW a \in Actor, JobAction(a) PROVE AwakeIsReady'
  BY <1>3, JobAwake
<1>4. ASSUME NEW c \in CPU, Dispatch(c) PROVE AwakeIsReady'
  BY <1>4, DispatchAwake
<1>5. ASSUME NEW c \in CPU, Interrupt(c) \/ Panic(c) PROVE AwakeIsReady'
  BY <1>5, AwakeFrame DEF Interrupt, Panic, threadVars
<1>6. ASSUME NEW s \in Modes, set_current_state(s) PROVE AwakeIsReady'
  BY <1>6, AwakeFrame DEF set_current_state, threadVars
<1>7. CASE freeze
  BY <1>7, AwakeFrame DEF freeze, threadVars
<1>8. CASE UNCHANGED vars
  BY <1>8, AwakeFrame DEF vars, threadVars
<1> QED
  BY <1>1, <1>2, <1>3, <1>4, <1>5, <1>6, <1>7, <1>8 DEF Next

(* No wake is lost: on any number of CPUs, a thread that is awake is ready  *)
(* or about to be made so, however retire and wake interleave.              *)
THEOREM NoWakeIsLost == Spec => []AwakeIsReady
<1>1. Spec => []Inv
  BY InitInv, NextInv, PTL DEF Spec
<1> QED BY <1>1, InitAwake, NextAwake, PTL DEF Spec

-----------------------------------------------------------------------------
(* Sleeps balance wakes.  The balance holds of every thread that has not    *)
(* exited, in the pool or not: a wake that finds no thread must not have    *)
(* been owed to one, so a thread that has begun and not exited is in the    *)
(* pool, and nobody holds the handle of one that has not begun.             *)

Balanced(t) ==
    counter[t] = armed[t] + Cardinality(PendingWakes(t))
                    - (IF stage[t] = "armed" THEN 1 ELSE 0)

Begun(t) == stage[t] \in {"body", "armed", "exit"}

BalanceInv == \A t \in Thread :
    /\ IsFiniteSet(PendingWakes(t))
    /\ ~IsZombie(t) => Balanced(t)
    /\ Begun(t) => t \in pool
    /\ stage[t] = "none" => armed[t] = 0 /\ PendingWakes(t) = {}

WakingPC == {"w_get", "w_dec"}

(* A job that is not, and does not become, a wake leaves the wakes alone. *)
LEMMA PendingFrame ==
    ASSUME TypeOK, NEW a \in Actor, NEW v, NEW u,
           jpc[a] \notin WakingPC, v \notin WakingPC,
           jpc' = [jpc EXCEPT ![a] = v], jt' = [jt EXCEPT ![a] = u]
    PROVE  \A t \in Thread : PendingWakes(t)' = PendingWakes(t)
BY DEF TypeOK, PendingWakes, WakingPC

(* A wake begins, and then there is one more for its thread. *)
LEMMA PendingBegins ==
    ASSUME TypeOK, NEW a \in Actor, NEW u \in Thread, jpc[a] \notin WakingPC,
           jpc' = [jpc EXCEPT ![a] = "w_get"], jt' = [jt EXCEPT ![a] = u]
    PROVE  /\ a \notin PendingWakes(u)
           /\ PendingWakes(u)' = PendingWakes(u) \cup {a}
           /\ \A t \in Thread : t # u => PendingWakes(t)' = PendingWakes(t)
BY DEF TypeOK, PendingWakes, WakingPC

(* It ends, and there is one less. *)
LEMMA PendingEnds ==
    ASSUME TypeOK, NEW a \in Actor, NEW u \in Thread, NEW v, NEW w,
           jpc[a] \in WakingPC, jt[a] = u, v \notin WakingPC,
           jpc' = [jpc EXCEPT ![a] = v], jt' = [jt EXCEPT ![a] = w]
    PROVE  /\ a \in PendingWakes(u)
           /\ PendingWakes(u)' = PendingWakes(u) \ {a}
           /\ \A t \in Thread : t # u => PendingWakes(t)' = PendingWakes(t)
BY DEF TypeOK, PendingWakes, WakingPC

(* What a thread counts for depends on no other thread. *)
LEMMA BalanceFrame ==
    ASSUME BalanceInv, NEW t \in Thread, PendingWakes(t)' = PendingWakes(t),
           counter'[t] = counter[t], armed'[t] = armed[t], stage'[t] = stage[t],
           Begun(t) /\ t \in pool => t \in pool'
    PROVE  /\ IsFiniteSet(PendingWakes(t)')
           /\ ~IsZombie(t)' => Balanced(t)'
           /\ Begun(t)' => t \in pool'
           /\ stage'[t] = "none" => armed'[t] = 0 /\ PendingWakes(t)' = {}
BY DEF BalanceInv, IsZombie, Balanced, Begun

(* Steps that touch none of it. *)
LEMMA BalanceRests ==
    ASSUME TypeOK, BalanceInv, UNCHANGED <<pool, counter, armed, stage>>,
           \A t \in Thread : PendingWakes(t)' = PendingWakes(t)
    PROVE  BalanceInv'
BY BalanceFrame DEF BalanceInv

LEMMA ThreadStepBalances ==
    ASSUME Inv, BalanceInv, NEW c \in CPU, NEW t \in Thread, ThreadStep(c, t)
    PROVE  BalanceInv'
<1> USE DEF Inv
<1>1. CASE Arm(c, t) \/ sleep_thread(c, t) \/ ExitBegin(c, t) \/ ExitZombie(c, t)
  <2>1. pool' = pool /\ UNCHANGED <<jpc, jt>>
    BY <1>1 DEF Arm, sleep_thread, ExitBegin, ExitZombie, cpuVars
  <2>2. \A u \in Thread : PendingWakes(u)' = PendingWakes(u)
    BY <2>1 DEF PendingWakes
  <2>3. \A u \in Thread : u # t =>
           counter'[u] = counter[u] /\ armed'[u] = armed[u] /\ stage'[u] = stage[u]
    BY <1>1 DEF Arm, sleep_thread, ExitBegin, ExitZombie, SetStage, TypeOK
  <2>4. /\ IsFiniteSet(PendingWakes(t)')
        /\ ~IsZombie(t)' => Balanced(t)'
        /\ Begun(t)' => t \in pool'
        /\ stage'[t] # "none"
    <3>1. Cardinality(PendingWakes(t)) \in Nat /\ IsFiniteSet(PendingWakes(t))
      BY FS_CardinalityType DEF BalanceInv
    <3>2. PendingWakes(t)' = PendingWakes(t)
      BY <2>2
    <3>3. CASE Arm(c, t)
      <4>1. /\ stage[t] = "body" /\ stage'[t] = "armed" /\ counter'[t] = counter[t]
            /\ armed'[t] = armed[t] + 1
        BY <3>3 DEF Arm, SetStage, TypeOK
      <4>2. armed[t] \in Int /\ counter[t] \in Int /\ t \in pool
        BY <4>1, SchedulerAssumption DEF TypeOK, BalanceInv, Begun
      <4>3. counter[t] = armed[t] + Cardinality(PendingWakes(t)) - 0
        BY <4>1 DEF BalanceInv, Balanced, IsZombie
      <4>4. Balanced(t)'
        BY <3>1, <3>2, <4>1, <4>2, <4>3 DEF Balanced
      <4> QED BY <2>1, <3>1, <3>2, <4>1, <4>2, <4>4
    <3>4. CASE sleep_thread(c, t)
      BY <3>1, <3>2, <3>4, <2>1 DEF sleep_thread, SetStage, BalanceInv, Balanced, Begun, IsZombie, TypeOK
    <3>5. CASE ExitBegin(c, t)
      BY <3>1, <3>2, <3>5, <2>1 DEF ExitBegin, SetStage, BalanceInv, Balanced, Begun, IsZombie, TypeOK
    <3>6. CASE ExitZombie(c, t)
      BY <3>1, <3>2, <3>6, <2>1 DEF ExitZombie, SetStage, BalanceInv, Balanced, Begun, IsZombie, TypeOK
    <3> QED BY <1>1, <3>3, <3>4, <3>5, <3>6
  <2>5. ASSUME NEW u \in Thread, u # t
        PROVE  /\ IsFiniteSet(PendingWakes(u)')
               /\ ~IsZombie(u)' => Balanced(u)'
               /\ Begun(u)' => u \in pool'
               /\ stage'[u] = "none" => armed'[u] = 0 /\ PendingWakes(u)' = {}
    BY <2>1, <2>2, <2>3, <2>5, BalanceFrame
  <2> QED BY <2>4, <2>5 DEF BalanceInv
<1>2. CASE yield_thread(c, t)
  <2>1. UNCHANGED <<pool, counter, armed, stage, jpc, jt>>
    BY <1>2 DEF yield_thread, threadVars
  <2> QED BY <2>1, BalanceRests DEF PendingWakes
<1>3. ASSUME NEW u \in Thread, spawn_thread(c, t, u) PROVE BalanceInv'
  <2>1. t \in Actor /\ jpc[t] = "none"
    BY <1>3 DEF spawn_thread, Runs, Actor
  <2>2. \A w \in Thread : PendingWakes(w)' = PendingWakes(w)
    BY <1>3, <2>1, PendingFrame DEF spawn_thread, Begin, WakingPC
  <2>3. UNCHANGED <<counter, armed>> /\ pool' = pool \cup {u}
    BY <1>3 DEF spawn_thread
  <2>4. stage[u] = "none" /\ stage'[u] = "body" /\ \A w \in Thread : w # u => stage'[w] = stage[w]
    BY <1>3 DEF spawn_thread, SetStage, TypeOK
  <2>5. /\ IsFiniteSet(PendingWakes(u)')
        /\ Balanced(u)'
        /\ u \in pool'
    BY <2>2, <2>3, <2>4 DEF BalanceInv, Balanced, IsZombie
  <2>6. ASSUME NEW w \in Thread, w # u
        PROVE  /\ IsFiniteSet(PendingWakes(w)')
               /\ ~IsZombie(w)' => Balanced(w)'
               /\ Begun(w)' => w \in pool'
               /\ stage'[w] = "none" => armed'[w] = 0 /\ PendingWakes(w)' = {}
    BY <2>2, <2>3, <2>4, <2>6, BalanceFrame
  <2> QED BY <2>4, <2>5, <2>6 DEF BalanceInv
<1> QED BY <1>1, <1>2, <1>3 DEF ThreadStep

LEMMA WakeBeginBalances ==
    ASSUME Inv, BalanceInv, NEW a \in Actor, NEW u \in Thread, WakeBegin(a, u)
    PROVE  BalanceInv'
<1> USE DEF Inv
<1>1. jpc[a] \notin WakingPC
  BY DEF WakeBegin, MayWake, Runs, WakingPC
<1>2. /\ a \notin PendingWakes(u)
      /\ PendingWakes(u)' = PendingWakes(u) \cup {a}
      /\ \A t \in Thread : t # u => PendingWakes(t)' = PendingWakes(t)
  BY <1>1, PendingBegins DEF WakeBegin, Begin
<1>3. UNCHANGED <<pool, counter, stage>> /\ armed[u] > 0 /\ armed'[u] = armed[u] - 1
  BY DEF WakeBegin, TypeOK
<1>4. \A t \in Thread : t # u => armed'[t] = armed[t]
  BY DEF WakeBegin, TypeOK
<1>5. stage[u] # "none" /\ IsFiniteSet(PendingWakes(u)')
  BY <1>2, <1>3, FS_AddElement DEF BalanceInv, TypeOK
<1>6. ~IsZombie(u)' => Balanced(u)'
  <2>1. IsFiniteSet(PendingWakes(u)) /\ Cardinality(PendingWakes(u)) \in Nat
    BY FS_CardinalityType DEF BalanceInv
  <2>2. Cardinality(PendingWakes(u)') = Cardinality(PendingWakes(u)) + 1
    BY <1>2, <2>1, FS_AddElement
  <2>3. armed[u] \in Int /\ counter[u] \in Int
    BY SchedulerAssumption DEF TypeOK
  <2> QED BY <1>3, <2>1, <2>2, <2>3 DEF BalanceInv, IsZombie, Balanced
<1>7. ASSUME NEW w \in Thread, w # u
      PROVE  /\ IsFiniteSet(PendingWakes(w)')
             /\ ~IsZombie(w)' => Balanced(w)'
             /\ Begun(w)' => w \in pool'
             /\ stage'[w] = "none" => armed'[w] = 0 /\ PendingWakes(w)' = {}
  BY <1>2, <1>3, <1>4, <1>7, BalanceFrame
<1> QED BY <1>3, <1>5, <1>6, <1>7 DEF BalanceInv, Begun

LEMMA JobBalances ==
    ASSUME Inv, BalanceInv, NEW a \in Actor, JobAction(a)
    PROVE  BalanceInv'
<1> USE DEF Inv
<1>1. CASE WakeGet(a)
  <2>1. jpc[a] = "w_get" /\ jt[a] \in Thread /\ UNCHANGED <<pool, counter, armed, stage>>
    BY <1>1 DEF WakeGet, JobStep, JobHasSubject, threadVars
  <2>2. CASE jt[a] \in pool
    <3>1. jpc' = [jpc EXCEPT ![a] = "w_dec"] /\ jt' = jt
      BY <1>1, <2>2 DEF WakeGet, JobStep, TypeOK
    <3>2. \A t \in Thread : PendingWakes(t)' = PendingWakes(t)
      BY <2>1, <3>1 DEF PendingWakes, TypeOK
    <3> QED BY <2>1, <3>2, BalanceRests
  <2>3. CASE jt[a] \notin pool
    <3>0. PICK u \in Thread : u = jt[a]
      BY <2>1
    <3>1. /\ a \in PendingWakes(u)
          /\ PendingWakes(u)' = PendingWakes(u) \ {a}
          /\ \A t \in Thread : t # u => PendingWakes(t)' = PendingWakes(t)
      <4>1. jpc[a] \in WakingPC /\ "none" \notin WakingPC
        BY <2>1 DEF WakingPC
      <4>2. jpc' = [jpc EXCEPT ![a] = "none"] /\ jt' = [jt EXCEPT ![a] = Idle]
        BY <1>1, <2>3 DEF WakeGet, JobStep
      <4> QED BY <3>0, <4>1, <4>2, PendingEnds
    <3>2. IsZombie(u)
      BY <2>3, <3>0, <3>1 DEF BalanceInv, Begun, IsZombie, TypeOK, Stage
    <3>3. IsFiniteSet(PendingWakes(u)')
      BY <2>1, <3>1, FS_RemoveElement DEF BalanceInv
    <3>4. ASSUME NEW w \in Thread, w # u
          PROVE  /\ IsFiniteSet(PendingWakes(w)')
                 /\ ~IsZombie(w)' => Balanced(w)'
                 /\ Begun(w)' => w \in pool'
                 /\ stage'[w] = "none" => armed'[w] = 0 /\ PendingWakes(w)' = {}
      BY <2>1, <3>1, <3>4, BalanceFrame
    <3>5. IsZombie(u)' /\ ~Begun(u)' /\ stage'[u] # "none"
      BY <2>1, <3>2 DEF IsZombie, Begun
    <3> QED BY <3>3, <3>4, <3>5 DEF BalanceInv
  <2> QED BY <2>2, <2>3
<1>2. CASE WakeDec(a)
  <2>0. PICK u \in Thread : u = jt[a]
    BY <1>2 DEF WakeDec, JobStep, JobHasSubject
  <2>1. u \in Thread /\ UNCHANGED <<pool, armed, stage>> /\ counter'[u] = counter[u] - 1
    BY <1>2, <2>0 DEF WakeDec, TypeOK
  <2>2. \A t \in Thread : t # u => counter'[t] = counter[t]
    BY <1>2, <2>0 DEF WakeDec, TypeOK
  <2>3. /\ a \in PendingWakes(u)
        /\ PendingWakes(u)' = PendingWakes(u) \ {a}
        /\ \A t \in Thread : t # u => PendingWakes(t)' = PendingWakes(t)
    <3>1. jpc[a] \in WakingPC /\ "add" \notin WakingPC
      BY <1>2 DEF WakingPC, WakeDec, JobStep
    <3>2. jpc' = [jpc EXCEPT ![a] = "add"] /\ jt' = [jt EXCEPT ![a] = u]
      BY <1>2, <2>0 DEF WakeDec, JobStep
    <3> QED BY <2>0, <3>1, <3>2, PendingEnds
  <2>4. IsFiniteSet(PendingWakes(u)) /\ Cardinality(PendingWakes(u)) \in Nat
    BY <2>1, FS_CardinalityType DEF BalanceInv
  <2>5. /\ IsFiniteSet(PendingWakes(u)')
        /\ Cardinality(PendingWakes(u)') = Cardinality(PendingWakes(u)) - 1
    BY <2>3, <2>4, FS_RemoveElement
  <2>6. ~IsZombie(u)' => Balanced(u)'
    <3>1. armed[u] \in Int /\ counter[u] \in Int
      BY <2>1, SchedulerAssumption DEF TypeOK
    <3>2. IsZombie(u)' <=> IsZombie(u)
      BY <2>1 DEF IsZombie
    <3> QED BY <2>1, <2>4, <2>5, <3>1, <3>2 DEF BalanceInv, Balanced
  <2>7. stage[u] # "none"
    BY <2>1, <2>3 DEF BalanceInv
  <2>8. ASSUME NEW w \in Thread, w # u
        PROVE  /\ IsFiniteSet(PendingWakes(w)')
               /\ ~IsZombie(w)' => Balanced(w)'
               /\ Begun(w)' => w \in pool'
               /\ stage'[w] = "none" => armed'[w] = 0 /\ PendingWakes(w)' = {}
    BY <2>1, <2>2, <2>3, <2>8, BalanceFrame
  <2> QED BY <2>1, <2>5, <2>6, <2>7, <2>8 DEF BalanceInv, Begun
<1>3. CASE AddCheck(a) \/ FetchSet(a) \/ _enqueue(a)
  <2>1. UNCHANGED <<pool, counter, armed, stage>> /\ jpc[a] \notin WakingPC
    BY <1>3 DEF AddCheck, FetchSet, _enqueue, JobStep, WakingPC, threadVars
  <2>2. \E v, w : /\ v \notin WakingPC
                  /\ jpc' = [jpc EXCEPT ![a] = v] /\ jt' = [jt EXCEPT ![a] = w]
    BY <1>3 DEF AddCheck, FetchSet, _enqueue, JobStep, WakingPC
  <2>3. \A t \in Thread : PendingWakes(t)' = PendingWakes(t)
    BY <2>1, <2>2, PendingFrame
  <2> QED BY <2>1, <2>3, BalanceRests
<1> QED BY <1>1, <1>2, <1>3 DEF JobAction

LEMMA DispatchBalances ==
    ASSUME Inv, BalanceInv, NEW c \in CPU, Dispatch(c)
    PROVE  BalanceInv'
<1> USE DEF Inv
<1>0. c \in Actor
  BY DEF Actor
<1>1. CASE PickNext(c) \/ ReschedFrozen(c) \/ ReschedRealtime(c) \/ ReschedPreempt(c)
             \/ ReschedQuantum(c) \/ Resume(c)
  <2>1. UNCHANGED <<pool, stage, counter, armed, jpc, jt>>
    BY <1>1 DEF PickNext, ReschedFrozen, ReschedRealtime, ReschedPreempt, ReschedQuantum,
       Resume, threadVars
  <2> QED BY <2>1, BalanceRests DEF PendingWakes
<1>2. CASE ContextSwitch(c) \/ RetireClear(c) \/ RetireAsleep(c)
  <2>1. UNCHANGED <<pool, counter, armed, stage>> /\ jpc[c] \notin WakingPC
    BY <1>2 DEF ContextSwitch, RetireClear, RetireAsleep, JobStep, CpuDiscipline, WakingPC,
       threadVars
  <2>2. \E v, w : /\ v \notin WakingPC
                  /\ jpc' = [jpc EXCEPT ![c] = v] /\ jt' = [jt EXCEPT ![c] = w]
    BY <1>2 DEF ContextSwitch, RetireClear, RetireAsleep, Begin, JobStep, WakingPC
  <2>3. \A t \in Thread : PendingWakes(t)' = PendingWakes(t)
    BY <1>0, <2>1, <2>2, PendingFrame
  <2> QED BY <2>1, <2>3, BalanceRests
<1>3. CASE RetireZombie(c)
  <2>1. /\ UNCHANGED <<counter, armed, stage>> /\ jpc[c] \notin WakingPC
        /\ \A t \in Thread : ~IsZombie(t) /\ t \in pool => t \in pool'
    BY <1>3 DEF RetireZombie, JobStep, WakingPC, threadVars
  <2>2. \E v, w : /\ v \notin WakingPC
                  /\ jpc' = [jpc EXCEPT ![c] = v] /\ jt' = [jt EXCEPT ![c] = w]
    BY <1>3 DEF RetireZombie, JobStep, WakingPC
  <2>3. \A t \in Thread : PendingWakes(t)' = PendingWakes(t)
    BY <1>0, <2>1, <2>2, PendingFrame
  <2>4. \A t \in Thread : Begun(t) /\ t \in pool => t \in pool'
    BY <2>1 DEF Begun, IsZombie
  <2> QED BY <2>1, <2>3, <2>4, BalanceFrame DEF BalanceInv
<1> QED BY <1>1, <1>2, <1>3 DEF Dispatch

LEMMA InitBalance == Init => BalanceInv
<1> SUFFICES ASSUME Init, NEW t \in Thread
             PROVE  /\ IsFiniteSet(PendingWakes(t))
                    /\ ~IsZombie(t) => Balanced(t)
                    /\ Begun(t) => t \in pool
                    /\ stage[t] = "none" => armed[t] = 0 /\ PendingWakes(t) = {}
  BY DEF BalanceInv
<1>1. PendingWakes(t) = {}
  BY DEF Init, PendingWakes
<1>2. Cardinality(PendingWakes(t)) = 0 /\ IsFiniteSet(PendingWakes(t))
  BY <1>1, FS_EmptySet
<1>3. stage[t] # "armed" /\ counter[t] = 0 /\ armed[t] = 0 /\ (Begun(t) => t = Root)
  BY DEF Init, Begun
<1> QED BY <1>1, <1>2, <1>3 DEF Balanced, Init

LEMMA NextBalances == Inv /\ BalanceInv /\ [Next]_vars => BalanceInv'
<1> SUFFICES ASSUME Inv, BalanceInv, [Next]_vars PROVE BalanceInv'
  OBVIOUS
<1>1. ASSUME NEW c \in CPU, NEW t \in Thread, ThreadStep(c, t) PROVE BalanceInv'
  BY <1>1, ThreadStepBalances
<1>2. ASSUME NEW a \in Actor, NEW u \in Thread, WakeBegin(a, u) PROVE BalanceInv'
  BY <1>2, WakeBeginBalances
<1>3. ASSUME NEW a \in Actor, JobAction(a) PROVE BalanceInv'
  BY <1>3, JobBalances
<1>4. ASSUME NEW c \in CPU, Dispatch(c) PROVE BalanceInv'
  BY <1>4, DispatchBalances
<1>5. ASSUME UNCHANGED <<pool, counter, armed, stage, jpc, jt>> PROVE BalanceInv'
  BY <1>5, BalanceRests DEF Inv, PendingWakes
<1>6. ASSUME NEW c \in CPU, Interrupt(c) \/ Panic(c) PROVE BalanceInv'
  BY <1>5, <1>6 DEF Interrupt, Panic, threadVars
<1>7. ASSUME NEW s \in Modes, set_current_state(s) PROVE BalanceInv'
  BY <1>5, <1>7 DEF set_current_state, threadVars
<1>8. CASE freeze \/ UNCHANGED vars
  BY <1>5, <1>8 DEF freeze, vars, threadVars
<1> QED
  BY <1>1, <1>2, <1>3, <1>4, <1>6, <1>7, <1>8 DEF Next

(* No sleeper is forgotten: on any number of CPUs the counter of a thread   *)
(* that has not exited is exactly what its outstanding wake sources and the *)
(* wakes under way will take off it.                                        *)
THEOREM SleepersAreOwedWakes == Spec => []SleepsBalanceWakes
<1>1. Spec => []Inv
  BY InitInv, NextInv, PTL DEF Spec
<1>2. Inv /\ BalanceInv => SleepsBalanceWakes
  BY DEF Inv, TypeOK, BalanceInv, Balanced, SleepsBalanceWakes
<1> QED BY <1>1, <1>2, InitBalance, NextBalances, PTL DEF Spec
=============================================================================
