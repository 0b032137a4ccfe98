----------------------------- MODULE XhciProofs -----------------------------
(***************************************************************************)
(* The driver of the USB host controller (Xhci), for any number of         *)
(* clients, endpoints and request blocks, any size of the rings and        *)
(* whatever the clients ask for.                                           *)
(*                                                                         *)
(* What is behind a ring is told by ages: the age of an entry is how many  *)
(* TRBs ago it was written, and an entry is unread when its age is not more*)
(* than the number of TRBs that the controller has still to read.  The     *)
(* invariant says of the command ring that the youngest entries are those  *)
(* of the scheduled request blocks, each unread or with one event under    *)
(* way, the events in the order of the entries; and of an endpoint that the*)
(* youngest entries are the stages that the holder of its permit has       *)
(* written, that what is unread before them are the no-ops of a failure,   *)
(* and that there is at most one event, which is the holder's.  A ring has *)
(* room because a client waits for what it asked for.                      *)
(***************************************************************************)
EXTENDS Xhci, FiniteSetTheorems, SequenceTheorems, TLAPS

-----------------------------------------------------------------------------
(* Types *)

Pos == 0..MaxTrIndex - 1
StageTypes == {"NORMAL", "SETUP", "DATA", "STATUS"}
TrbTypes == {"RESERVED", "NOP", "LINK", "COMMAND", "RESET_ENDPOINT"} \cup StageTypes
Tags == {NoTag} \cup (XClients \X Nat) \cup (XClients \X Nat \X EndpointRings)
TrbSet == [type : TrbTypes, cycle : {0, 1}, tag : Tags]
RingSet == [trb : [0..MaxTrIndex -> TrbSet], index : 0..MaxTrIndex, pcs : {0, 1},
            state : {"Available", "Scheduled", "Completed"}, response : Tags,
            code : {"none", "SUCCESS", "STALL", "TRANSACTION"}, scope : {0, 1}, signal : {0, 1}]
CrbSet == [state : {"Available", "Acquired", "Scheduled", "Completed"}, at : -1..MaxTrIndex,
           signal : {0, 1}, delayed : BOOLEAN, response : Tags]
NoEvent == [kind |-> "none", cycle |-> 0]
EventSet == [kind : {"command", "transfer"}, cycle : {0, 1}, ring : Rings, ptr : Pos,
             code : {"SUCCESS", "STALL", "TRANSACTION"}, tag : Tags]
EventSlots == 0..EventRingSize - 1
ThreadSet == [pc : {"wait", "dequeue", "handle", "respond"}, sem : Nat, msi : BOOLEAN,
              at : EventSlots, torn : SUBSET EndpointRings]
HcSet == [deq : [Rings -> 0..MaxTrIndex], ccs : [Rings -> {0, 1}], bells : SUBSET Rings,
          halted : SUBSET EndpointRings, enq : EventSlots, pcs : {0, 1}]
CmdPcs == {"cmdIssue", "cmdBell", "cmdWait"}
ResetPcs == {"resetIssue", "resetBell", "resetWait"}
ActivePcs == {"issue", "bell", "wait"}
ClientSet == [pc : {"idle", "scopeWait", "reset"} \cup CmdPcs \cup ResetPcs \cup ActivePcs,
              plan : Seq(XRequests), n : Nat, todo : Seq(StageTypes),
              crb : 0..CrbCount, got : Tags]

XTypes ==
    /\ xRing \in [Rings -> RingSet]
    /\ xCrb \in [1..CrbCount -> CrbSet]
    /\ xEvent \in [slot : [EventSlots -> {NoEvent} \cup EventSet], erdp : EventSlots, cycle : {0, 1}]
    /\ xHc \in HcSet
    /\ xThread \in ThreadSet
    /\ xLock \in XClients \cup {Nobody}
    /\ xClient \in [XClients -> ClientSet]
    /\ xPanic \in {"none", "crb", "todo command", "todo stages", "unreachable"}

-----------------------------------------------------------------------------
(* A ring and its producer *)

\* The entries before the index carry the producer's cycle bit, the others the
\* bit of the lap before; the link is at the end, from the second lap on.
Produced(ring) ==
    /\ \A i \in 0..MaxTrIndex : ring.trb[i].cycle = IF i < ring.index THEN ring.pcs ELSE 1 - ring.pcs
    /\ \A i \in Pos : ring.trb[i].type # "LINK"
    /\ ring.trb[MaxTrIndex].type \in {"RESERVED", "LINK"}
    /\ ring.trb[MaxTrIndex].type = "RESERVED" => ring.pcs = 1

\* How many TRBs ago the entry p was written, the link not counted.
Age(ring, p) == IF p < ring.index THEN ring.index - p ELSE MaxTrIndex - p + ring.index

\* How many TRBs the controller has still to read.
Unread(ring, deq, ccs) == IF ccs = ring.pcs THEN ring.index - deq ELSE MaxTrIndex - deq + ring.index

\* The controller is in the lap of the producer and not past it, or in the lap
\* before and ahead of it.
InStep(ring, deq, ccs) ==
    /\ ccs = ring.pcs => deq <= ring.index
    /\ ccs # ring.pcs => deq > ring.index

IssuedAt(ring) == IF ring.index = MaxTrIndex THEN 0 ELSE ring.index

LEMMA Sizes ==
    /\ MaxTrIndex \in Nat /\ MaxTrIndex >= 7
    /\ EventRingSize \in Nat /\ EventRingSize >= 2
    /\ CrbCount \in Nat
BY XhciAssumption DEF MaxTrIndex

\* What issue_trb leaves.
LEMMA Issued ==
    ASSUME NEW ring \in RingSet, NEW type \in TrbTypes, NEW tag \in Tags
    PROVE  LET q == IssueTrb(ring, type, tag)
               at == IssuedAt(ring)
           IN /\ q \in RingSet
              /\ at \in Pos /\ q.index = at + 1
              /\ q.pcs = IF ring.index = MaxTrIndex THEN 1 - ring.pcs ELSE ring.pcs
              /\ q.trb[at] = Trb(type, q.pcs, tag)
              /\ \A i \in Pos : i # at => q.trb[i] = ring.trb[i]
              /\ q.trb[MaxTrIndex] = IF ring.index = MaxTrIndex THEN TrbLink(ring.pcs)
                                     ELSE ring.trb[MaxTrIndex]
              /\ q.state = ring.state /\ q.response = ring.response /\ q.code = ring.code
              /\ q.scope = ring.scope /\ q.signal = ring.signal
<1> DEFINE at == IssuedAt(ring)
           pcs == IF ring.index = MaxTrIndex THEN 1 - ring.pcs ELSE ring.pcs
           trb == IF ring.index = MaxTrIndex THEN [ring.trb EXCEPT ![MaxTrIndex] = TrbLink(ring.pcs)]
                  ELSE ring.trb
           trb2 == [trb EXCEPT ![at] = Trb(type, pcs, tag)]
<1>1. IssueTrb(ring, type, tag) = [ring EXCEPT !.trb = trb2, !.index = at + 1, !.pcs = pcs]
  BY DEF IssueTrb, IssuedAt
<1>2. /\ ring.trb \in [0..MaxTrIndex -> TrbSet] /\ ring.index \in 0..MaxTrIndex /\ ring.pcs \in {0, 1}
      /\ pcs \in {0, 1} /\ at \in Pos /\ at # MaxTrIndex /\ at + 1 \in 0..MaxTrIndex
  BY Sizes DEF RingSet, IssuedAt, Pos
<1>3. Trb(type, pcs, tag) \in TrbSet /\ TrbLink(ring.pcs) \in TrbSet
  BY <1>2 DEF Trb, TrbLink, TrbSet, TrbTypes, Tags
<1>4. /\ trb \in [0..MaxTrIndex -> TrbSet]
      /\ trb[MaxTrIndex] = IF ring.index = MaxTrIndex THEN TrbLink(ring.pcs) ELSE ring.trb[MaxTrIndex]
      /\ \A i \in Pos : trb[i] = ring.trb[i]
  BY <1>2, <1>3, Sizes DEF Pos
<1>a. at \in 0..MaxTrIndex
  BY <1>2, Sizes DEF Pos
<1> HIDE DEF at, pcs, trb
<1>5. /\ trb2 \in [0..MaxTrIndex -> TrbSet] /\ trb2[at] = Trb(type, pcs, tag)
      /\ \A i \in 0..MaxTrIndex : i # at => trb2[i] = trb[i]
  BY <1>a, <1>3, <1>4
<1> HIDE DEF trb2
<1>6. /\ IssueTrb(ring, type, tag) \in RingSet
      /\ IssueTrb(ring, type, tag).trb = trb2 /\ IssueTrb(ring, type, tag).index = at + 1
      /\ IssueTrb(ring, type, tag).pcs = pcs
  BY <1>1, <1>2, <1>5 DEF RingSet
<1>7. LET q == IssueTrb(ring, type, tag)
      IN /\ q.state = ring.state /\ q.response = ring.response /\ q.code = ring.code
         /\ q.scope = ring.scope /\ q.signal = ring.signal
  BY <1>1 DEF RingSet
<1>8. \A i \in Pos : i \in 0..MaxTrIndex
  BY Sizes DEF Pos
<1>9. MaxTrIndex \in 0..MaxTrIndex
  BY Sizes
<1> QED BY <1>2, <1>4, <1>5, <1>6, <1>7, <1>8, <1>9 DEF at, pcs

LEMMA IssuedProduced ==
    ASSUME NEW ring \in RingSet, NEW type \in TrbTypes \ {"LINK"}, NEW tag \in Tags, Produced(ring)
    PROVE  Produced(IssueTrb(ring, type, tag))
<1> DEFINE q == IssueTrb(ring, type, tag)
           at == IssuedAt(ring)
<1>1. /\ at \in Pos /\ q.index = at + 1
      /\ q.pcs = IF ring.index = MaxTrIndex THEN 1 - ring.pcs ELSE ring.pcs
      /\ q.trb[at] = Trb(type, q.pcs, tag)
      /\ \A i \in Pos : i # at => q.trb[i] = ring.trb[i]
      /\ q.trb[MaxTrIndex] = IF ring.index = MaxTrIndex THEN TrbLink(ring.pcs)
                             ELSE ring.trb[MaxTrIndex]
  BY Issued
<1>2. at = IssuedAt(ring)
  OBVIOUS
<1> HIDE DEF q, at
<1>3. ring.index \in 0..MaxTrIndex /\ ring.pcs \in {0, 1}
  BY DEF RingSet
<1>4. q.trb[at].cycle = q.pcs /\ q.trb[at].type = type
  BY <1>1 DEF Trb
<1>5. TrbLink(ring.pcs).cycle = ring.pcs /\ TrbLink(ring.pcs).type = "LINK"
  BY DEF TrbLink, Trb
<1>6. ASSUME NEW i \in 0..MaxTrIndex
      PROVE  q.trb[i].cycle = IF i < q.index THEN q.pcs ELSE 1 - q.pcs
  <2>1. CASE i = at
    BY <2>1, <1>1, <1>4, Sizes DEF Pos
  <2>2. CASE i = MaxTrIndex
    BY <2>2, <1>1, <1>2, <1>3, <1>5, Sizes DEF Pos, Produced, IssuedAt
  <2>3. CASE i # at /\ i # MaxTrIndex
    BY <2>3, <1>1, <1>2, <1>3, Sizes DEF Pos, Produced, IssuedAt
  <2> QED BY <2>1, <2>2, <2>3
<1>7. \A i \in Pos : q.trb[i].type # "LINK"
  BY <1>1, <1>4 DEF Produced
<1>8. /\ q.trb[MaxTrIndex].type \in {"RESERVED", "LINK"}
      /\ q.trb[MaxTrIndex].type = "RESERVED" => q.pcs = 1
  BY <1>1, <1>5 DEF Produced
<1>9. Produced(q)
  BY <1>6, <1>7, <1>8 DEF Produced
<1> QED BY <1>9 DEF q

LEMMA IssuedAges ==
    ASSUME NEW ring \in RingSet, NEW type \in TrbTypes, NEW tag \in Tags
    PROVE  /\ Age(ring, IssuedAt(ring)) = MaxTrIndex
           /\ Age(IssueTrb(ring, type, tag), IssuedAt(ring)) = 1
           /\ \A p \in Pos : p # IssuedAt(ring) =>
                Age(IssueTrb(ring, type, tag), p) = Age(ring, p) + 1
<1>1. ring.index \in 0..MaxTrIndex
  BY DEF RingSet
<1>2. IssueTrb(ring, type, tag).index = IssuedAt(ring) + 1
  BY Issued
<1> QED BY <1>1, <1>2, Sizes DEF IssuedAt, Age, Pos

\* Ages are distinct and go from one to the number of entries.
LEMMA Ages ==
    ASSUME NEW ring \in RingSet
    PROVE  /\ \A p \in Pos : Age(ring, p) \in 1..MaxTrIndex
           /\ \A p, q \in Pos : Age(ring, p) = Age(ring, q) => p = q
<1>1. ring.index \in 0..MaxTrIndex
  BY DEF RingSet
<1> QED BY <1>1, Sizes DEF Age, Pos

LEMMA IssuedInStep ==
    ASSUME NEW ring \in RingSet, NEW type \in TrbTypes, NEW tag \in Tags,
           NEW deq \in 0..MaxTrIndex, NEW ccs \in {0, 1}, InStep(ring, deq, ccs),
           Unread(ring, deq, ccs) <= MaxTrIndex - 2
    PROVE  /\ InStep(IssueTrb(ring, type, tag), deq, ccs)
           /\ Unread(IssueTrb(ring, type, tag), deq, ccs) = Unread(ring, deq, ccs) + 1
<1>1. ring.index \in 0..MaxTrIndex /\ ring.pcs \in {0, 1}
  BY DEF RingSet
<1>2. /\ IssueTrb(ring, type, tag).index = IssuedAt(ring) + 1
      /\ IssueTrb(ring, type, tag).pcs = IF ring.index = MaxTrIndex THEN 1 - ring.pcs ELSE ring.pcs
  BY Issued
<1> QED BY <1>1, <1>2, Sizes DEF IssuedAt, Unread, InStep

\* Where the controller is, it finds the oldest TRB that it has not read.
LEMMA Reading ==
    ASSUME NEW ring \in RingSet, NEW deq \in 0..MaxTrIndex, NEW ccs \in {0, 1},
           Produced(ring), InStep(ring, deq, ccs), ring.trb[MaxTrIndex].type = "RESERVED" => ccs = 1
    PROVE  /\ Unread(ring, deq, ccs) \in 0..2 * MaxTrIndex
           /\ ring.trb[deq].cycle = ccs /\ deq # MaxTrIndex =>
                Unread(ring, deq, ccs) > 0 /\ Age(ring, deq) = Unread(ring, deq, ccs)
           /\ ring.trb[deq].cycle = ccs /\ deq = MaxTrIndex =>
                ccs # ring.pcs /\ ring.trb[deq].type = "LINK"
           /\ ccs # ring.pcs => ring.trb[MaxTrIndex].type = "LINK"
           /\ ring.trb[deq].cycle # ccs => Unread(ring, deq, ccs) = 0
<1>1. ring.index \in 0..MaxTrIndex /\ ring.pcs \in {0, 1}
  BY DEF RingSet
<1>2. ring.trb[deq].cycle = IF deq < ring.index THEN ring.pcs ELSE 1 - ring.pcs
  BY DEF Produced
<1> QED BY <1>1, <1>2, Sizes DEF Unread, InStep, Age, Produced

-----------------------------------------------------------------------------
(* The event ring *)

\* How far an entry is from the next one that the driver will take.
Rank(erdp, i) == IF i >= erdp THEN i - erdp ELSE i - erdp + EventRingSize

\* How many events wait.
Backlog == IF xEvent.cycle = xHc.pcs THEN xHc.enq - xEvent.erdp
           ELSE xHc.enq - xEvent.erdp + EventRingSize

\* The event thread has taken an event and not yet dealt with it.
Handling == xThread.pc \in {"handle", "respond"}

\* The events that wait, and the one in hand, in order.
Live(i) == Rank(xEvent.erdp, i) < Backlog \/ (Handling /\ i = xThread.at)
Turn(i) == IF Handling /\ i = xThread.at THEN -1 ELSE Rank(xEvent.erdp, i)

EventCycles ==
    /\ \A i \in EventSlots : xEvent.slot[i].cycle = IF i < xHc.enq THEN xHc.pcs ELSE 1 - xHc.pcs
    /\ xEvent.cycle = xHc.pcs => xEvent.erdp <= xHc.enq
    /\ xEvent.cycle # xHc.pcs => xEvent.erdp > xHc.enq

EventRingOK ==
    /\ EventCycles
    /\ Handling => Rank(xEvent.erdp, xThread.at) = EventRingSize - 1
    /\ \A i \in EventSlots : Live(i) =>
         /\ xEvent.slot[i] \in EventSet
         /\ xEvent.slot[i].kind = "command" <=> xEvent.slot[i].ring = CommandRing

\* What the other parts of the invariant see of the event ring.
EventsSame == \A i \in EventSlots :
    /\ Live(i)' <=> Live(i)
    /\ Live(i) => xEvent'.slot[i] = xEvent.slot[i]
    /\ \A j \in EventSlots : Live(i) /\ Live(j) /\ Turn(i)' < Turn(j)' => Turn(i) < Turn(j)

LEMMA NextSlot ==
    ASSUME NEW i \in EventSlots
    PROVE  (i + 1) % EventRingSize = IF i = EventRingSize - 1 THEN 0 ELSE i + 1
<1>1. EventRingSize \in Nat /\ EventRingSize >= 2 /\ i \in 0..EventRingSize - 1
  BY Sizes DEF EventSlots
<1> QED BY <1>1

LEMMA EventTypes ==
    ASSUME XTypes
    PROVE  /\ xEvent.erdp \in EventSlots /\ xEvent.cycle \in {0, 1} /\ xHc.enq \in EventSlots
           /\ xHc.pcs \in {0, 1} /\ xThread.at \in EventSlots
           /\ xThread.pc \in {"wait", "dequeue", "handle", "respond"}
           /\ xEvent.slot \in [EventSlots -> {NoEvent} \cup EventSet]
           /\ xEvent = [slot |-> xEvent.slot, erdp |-> xEvent.erdp, cycle |-> xEvent.cycle]
BY Zenon DEF XTypes, HcSet, ThreadSet

\* Nothing happens in the event ring.
LEMMA EventsRest ==
    ASSUME XTypes, EventRingOK, xEvent' = xEvent, xHc'.enq = xHc.enq, xHc'.pcs = xHc.pcs,
           \/ Handling' /\ Handling /\ xThread'.at = xThread.at
           \/ ~Handling' /\ ~Handling
    PROVE  EventRingOK' /\ EventsSame
<1>1. Backlog' = Backlog
  BY DEF Backlog
<1>2. \A i \in EventSlots : (Live(i)' <=> Live(i)) /\ Turn(i)' = Turn(i)
  BY <1>1 DEF Live, Turn
<1>3. EventCycles'
  BY DEF EventRingOK, EventCycles
<1>4. Handling' => Rank(xEvent.erdp, xThread.at)' = EventRingSize - 1
  BY DEF EventRingOK
<1> QED BY <1>2, <1>3, <1>4 DEF EventRingOK, EventsSame

\* The controller posts an event e behind the others.
LEMMA EventPosted ==
    ASSUME XTypes, EventRingOK, NextEnq # xEvent.erdp, NEW k, k = xHc.enq, NEW e \in EventSet, e.cycle = xHc.pcs,
           e.kind = "command" <=> e.ring = CommandRing,
           xEvent' = [xEvent EXCEPT !.slot[xHc.enq] = e], xHc'.enq = NextEnq, xHc'.pcs = Enqueued,
           xThread'.pc = xThread.pc, xThread'.at = xThread.at
    PROVE  /\ EventRingOK'
           /\ k \in EventSlots /\ xEvent'.slot[k] = e /\ ~Live(k) /\ Live(k)'
           /\ \A i \in EventSlots \ {k} :
                /\ Live(i)' <=> Live(i)
                /\ xEvent'.slot[i] = xEvent.slot[i] /\ Turn(i)' = Turn(i)
                /\ Live(i) => Turn(i) < Turn(k)'
<1> DEFINE S == EventRingSize
<1>1. /\ S \in Nat /\ S >= 2 /\ k \in 0..S - 1 /\ xEvent.erdp \in 0..S - 1 /\ xThread.at \in 0..S - 1
      /\ xHc.pcs \in {0, 1} /\ xEvent.cycle \in {0, 1}
  BY Sizes, EventTypes DEF EventSlots
<1>2. NextEnq = IF k = S - 1 THEN 0 ELSE k + 1
  BY EventTypes, NextSlot DEF NextEnq
<1>3. /\ xEvent'.erdp = xEvent.erdp /\ xEvent'.cycle = xEvent.cycle
      /\ xEvent'.slot[k] = e
      /\ \A i \in EventSlots : i # k => xEvent'.slot[i] = xEvent.slot[i]
  BY EventTypes
<1>4. Handling' <=> Handling
  BY DEF Handling
<1>5. EventCycles
  BY DEF EventRingOK
<1>6. /\ xEvent.cycle = xHc.pcs => xEvent.erdp <= k
      /\ xEvent.cycle # xHc.pcs => xEvent.erdp > k
  BY <1>5 DEF EventCycles
<1>7. xHc'.pcs = IF k = S - 1 THEN 1 - xHc.pcs ELSE xHc.pcs
  BY <1>1, <1>2 DEF Enqueued
<1> HIDE DEF S
<1>8. Backlog \in 0..S - 2 /\ Rank(xEvent.erdp, k) = Backlog /\ Backlog' = Backlog + 1
  BY <1>1, <1>2, <1>3, <1>6, <1>7 DEF Backlog, Rank, S
<1>9. Handling => xThread.at # k
  BY <1>1, <1>8 DEF EventRingOK, S
<1>10. ~Live(k) /\ Live(k)' /\ Turn(k)' = Backlog
  BY <1>8, <1>9, <1>3, <1>4, <1>1 DEF Live, Turn
<1>11. ASSUME NEW i \in EventSlots, i # k
       PROVE  (Live(i)' <=> Live(i)) /\ Turn(i)' = Turn(i) /\ (Live(i) => Turn(i) < Backlog)
  <2>1. Rank(xEvent.erdp, i) \in Int /\ Rank(xEvent.erdp, i) # Backlog
    BY <1>1, <1>8, <1>11, Sizes DEF Rank, EventSlots, S
  <2> QED BY <2>1, <1>8, <1>3, <1>4, <1>1 DEF Live, Turn
<1>12. EventCycles'
  <2>1. ASSUME NEW i \in EventSlots
        PROVE xEvent'.slot[i].cycle = IF i < xHc'.enq THEN xHc'.pcs ELSE 1 - xHc'.pcs
    <3>1. xEvent.slot[i].cycle = IF i < k THEN xHc.pcs ELSE 1 - xHc.pcs
      BY <1>5 DEF EventCycles
    <3>2. i \in 0..S - 1
      BY DEF EventSlots, S
    <3>3. CASE i = k
      BY <3>3, <1>1, <1>2, <1>3, <1>7
    <3>4. CASE i # k
      BY <3>1, <3>2, <3>4, <1>1, <1>2, <1>3, <1>7
    <3> QED BY <3>3, <3>4
  <2>2. /\ xEvent'.cycle = xHc'.pcs => xEvent'.erdp <= xHc'.enq
        /\ xEvent'.cycle # xHc'.pcs => xEvent'.erdp > xHc'.enq
    BY <1>1, <1>2, <1>3, <1>6, <1>7
  <2> QED BY <2>1, <2>2 DEF EventCycles
<1>13. Handling' => Rank(xEvent.erdp, xThread.at)' = EventRingSize - 1
  BY <1>3, <1>4 DEF EventRingOK
<1>14. \A i \in EventSlots : Live(i)' =>
         /\ xEvent'.slot[i] \in EventSet
         /\ xEvent'.slot[i].kind = "command" <=> xEvent'.slot[i].ring = CommandRing
  BY <1>3, <1>11 DEF EventRingOK
<1>15. EventRingOK'
  BY <1>12, <1>13, <1>14 DEF EventRingOK
<1>16. k \in EventSlots
  BY EventTypes
<1> QED BY <1>3, <1>10, <1>11, <1>15, <1>16

\* The event thread takes the next event, if there is one.
LEMMA Dequeued ==
    ASSUME XTypes, EventRingOK, DequeueEvent
    PROVE  /\ EventRingOK' /\ EventsSame
           /\ xThread'.pc \in {"wait", "handle"}
<1> DEFINE S == EventRingSize
<1> PICK p \in EventSlots : p = xEvent.erdp
  BY EventTypes
<1>1. /\ S \in Nat /\ S >= 2 /\ xHc.enq \in 0..S - 1 /\ p \in 0..S - 1
      /\ xHc.pcs \in {0, 1} /\ xEvent.cycle \in {0, 1}
  BY Sizes, EventTypes DEF EventSlots
<1>2. (p + 1) % EventRingSize = IF p = S - 1 THEN 0 ELSE p + 1
  BY EventTypes, NextSlot
<1>3. EventCycles /\ ~Handling /\ xHc' = xHc
  BY DEF EventRingOK, DequeueEvent, Handling
<1>4. /\ xEvent.cycle = xHc.pcs => p <= xHc.enq
      /\ xEvent.cycle # xHc.pcs => p > xHc.enq
      /\ xEvent.slot[p].cycle = IF p < xHc.enq THEN xHc.pcs ELSE 1 - xHc.pcs
  BY <1>3, EventTypes DEF EventCycles
<1>5. CASE xEvent.slot[p].cycle # xEvent.cycle
  <2>1. xEvent' = xEvent /\ xThread' = [xThread EXCEPT !.pc = "wait"]
    BY <1>5 DEF DequeueEvent
  <2>2. xThread'.pc = "wait"
    BY Zenon, <2>1 DEF XTypes, ThreadSet
  <2>3. ~Handling'
    BY <2>2 DEF Handling
  <2> QED BY <2>1, <2>2, <2>3, <1>3, EventsRest
<1>6. CASE xEvent.slot[p].cycle = xEvent.cycle
  <2>1. /\ xEvent' = [xEvent EXCEPT !.erdp = (p + 1) % EventRingSize,
                          !.cycle = IF (p + 1) % EventRingSize = 0 THEN 1 - @ ELSE @]
        /\ xThread' = [xThread EXCEPT !.pc = "handle", !.at = p]
    BY <1>6 DEF DequeueEvent
  <2>2. /\ xEvent'.slot = xEvent.slot
        /\ xEvent'.erdp = IF p = S - 1 THEN 0 ELSE p + 1
        /\ xEvent'.cycle = IF p = S - 1 THEN 1 - xEvent.cycle ELSE xEvent.cycle
    BY <2>1, <1>1, <1>2, EventTypes
  <2>3. xThread'.pc = "handle" /\ xThread'.at = p
    BY Zenon, <2>1 DEF XTypes, ThreadSet
  <2>4. Handling'
    BY <2>3 DEF Handling
  <2> HIDE DEF S
  <2>5. Backlog \in 1..S - 1 /\ Backlog' = Backlog - 1
    BY <1>1, <1>3, <1>4, <1>6, <2>2 DEF Backlog, S
  <2>6. Rank(xEvent'.erdp, p) = S - 1
    BY <1>1, <2>2 DEF Rank, S
  <2>7. ASSUME NEW i \in EventSlots, i # p
        PROVE  /\ Rank(xEvent.erdp, i) \in 1..S - 1
               /\ Rank(xEvent'.erdp, i) = Rank(xEvent.erdp, i) - 1
    BY <1>1, <2>2, <2>7 DEF Rank, S, EventSlots
  <2>8. Rank(xEvent.erdp, p) = 0
    BY <1>1 DEF Rank
  <2>9. Live(p) /\ Live(p)' /\ Turn(p) = 0 /\ Turn(p)' = -1
    BY <2>3, <2>4, <2>5, <2>6, <2>8, <1>1, <1>3 DEF Live, Turn
  <2>10. ASSUME NEW i \in EventSlots, i # p
         PROVE  (Live(i)' <=> Live(i)) /\ Turn(i)' = Turn(i) - 1 /\ Turn(i) > 0 /\ Turn(i) \in Int
    BY <2>3, <2>5, <2>7, <2>10, <1>1, <1>3 DEF Live, Turn
  <2>11. EventsSame
    BY <2>2, <2>9, <2>10 DEF EventsSame
  <2>12. EventCycles'
    <3>1. /\ xEvent'.cycle = xHc'.pcs => xEvent'.erdp <= xHc'.enq
          /\ xEvent'.cycle # xHc'.pcs => xEvent'.erdp > xHc'.enq
      BY <1>1, <1>3, <1>4, <1>6, <2>2
    <3> QED BY <1>3, <2>2, <3>1 DEF EventCycles
  <2>13. EventRingOK'
    BY <2>2, <2>3, <2>6, <2>11, <2>12 DEF EventRingOK, EventsSame, S
  <2> QED BY <2>3, <2>11, <2>13
<1> QED BY <1>5, <1>6

\* The event in hand is done with.
LEMMA Dealt ==
    ASSUME XTypes, EventRingOK, Handling, xEvent' = xEvent, xHc' = xHc,
           xThread'.pc = "dequeue", xThread'.at = xThread.at
    PROVE  /\ EventRingOK'
           /\ \A i \in EventSlots :
                /\ Live(i)' <=> (Live(i) /\ i # xThread.at)
                /\ i # xThread.at => Turn(i)' = Turn(i)
                /\ Live(i) /\ i # xThread.at => Turn(i) > Turn(xThread.at)
           /\ Live(xThread.at) /\ xThread.at \in EventSlots
<1>1. /\ EventRingSize \in Nat /\ EventRingSize >= 2 /\ xHc.enq \in 0..EventRingSize - 1
      /\ xEvent.erdp \in 0..EventRingSize - 1 /\ xThread.at \in 0..EventRingSize - 1
  BY Sizes, EventTypes DEF EventSlots
<1>2. ~Handling' /\ Backlog' = Backlog
  BY DEF Handling, Backlog
<1>3. EventCycles
  BY DEF EventRingOK
<1>4. Backlog \in Int /\ Backlog < EventRingSize /\ Rank(xEvent.erdp, xThread.at) = EventRingSize - 1
  BY <1>1, <1>3 DEF Backlog, EventRingOK, EventCycles
<1>5. \A i \in EventSlots : Rank(xEvent.erdp, i) \in Nat
  BY <1>1 DEF Rank, EventSlots
<1>6. ~(Rank(xEvent.erdp, xThread.at) < Backlog)
  BY <1>4, <1>1
<1>7. \A i \in EventSlots :
        /\ Live(i)' <=> (Live(i) /\ i # xThread.at)
        /\ i # xThread.at => Turn(i)' = Turn(i)
        /\ Live(i) /\ i # xThread.at => Turn(i) > Turn(xThread.at)
  BY <1>2, <1>5, <1>6 DEF Live, Turn
<1>8. EventCycles'
  BY <1>3 DEF EventCycles
<1>9. EventRingOK'
  BY <1>2, <1>7, <1>8 DEF EventRingOK
<1> QED BY <1>1, <1>7, <1>9 DEF Live, EventSlots

-----------------------------------------------------------------------------
(* The invariant *)

TypesOf(r) == IF r = CommandRing THEN {"COMMAND", "RESET_ENDPOINT"} ELSE StageTypes

Producers == \A r \in Rings :
    /\ Produced(xRing[r])
    /\ xRing[r].trb[MaxTrIndex].type = "RESERVED" => xHc.ccs[r] = 1
    /\ \A i \in Pos : xRing[r].trb[i].type \in {"RESERVED", "NOP"} \cup TypesOf(r)

\* Clients with a request block, and with the permit of an endpoint.
OnCommand(c) == xClient[c].pc \in CmdPcs \cup ResetPcs
Holds(c, r) == /\ xClient[c].pc \in ActivePcs \cup ResetPcs \cup {"reset"}
               /\ Request(c).ring = r

\* The command of a client.
CmdTag(c) == IF xClient[c].pc \in ResetPcs THEN <<c, xClient[c].n, Request(c).ring>> ELSE TagOf(c)
CmdType(c) == IF xClient[c].pc \in ResetPcs THEN "RESET_ENDPOINT" ELSE "COMMAND"

\* Where a client is says what it has asked for.
ClientOK(c) ==
    /\ xClient[c].pc # "idle" => HasRequest(c)
    /\ xClient[c].pc \in CmdPcs => Request(c).kind = "command"
    /\ xClient[c].pc \in ActivePcs \cup {"scopeWait"} => Request(c).kind # "command"
    /\ xClient[c].pc \in ResetPcs \cup {"reset"} => Request(c).kind = "control"
    /\ OnCommand(c) <=> xClient[c].crb # 0
    /\ xClient[c].pc = "scopeWait" <=> xLock = c
    /\ xClient[c].pc = "issue" => xClient[c].todo # <<>>
    /\ xClient[c].pc \in {"bell", "wait"} => xClient[c].todo = <<>>
    /\ xClient[c].pc = "idle" /\ xClient[c].n = 0 => xClient[c].got = NoTag
ClientsOK == \A c \in XClients : ClientOK(c)

\* A request block that is in use has one owner, and is where its owner is.
BlocksOK ==
    /\ \A c, d \in XClients : OnCommand(c) /\ xClient[c].crb = xClient[d].crb => c = d
    /\ \A b \in 1..CrbCount :
         xCrb[b].state # "Available" => \E c \in XClients : OnCommand(c) /\ xClient[c].crb = b
    /\ \A c \in XClients : OnCommand(c) =>
         IF xClient[c].pc \in {"cmdIssue", "resetIssue"} THEN xCrb[xClient[c].crb].state = "Acquired"
         ELSE xCrb[xClient[c].crb].state \in {"Scheduled", "Completed"}
    /\ \A b \in 1..CrbCount : xCrb[b].signal = IF xCrb[b].state = "Completed" THEN 1 ELSE 0
    /\ \A c \in XClients : OnCommand(c) /\ xCrb[xClient[c].crb].state = "Completed" =>
         xCrb[xClient[c].crb].response = CmdTag(c)

\* The permit of an endpoint is free or has one holder, and a signal is for a
\* holder whose transfer is complete.
PermitOK(r) ==
    /\ xRing[r].scope = 0 => \E c \in XClients : Holds(c, r)
    /\ xRing[r].scope = 1 => \A c \in XClients : ~Holds(c, r)
    /\ \A c, d \in XClients : Holds(c, r) /\ Holds(d, r) => c = d
    /\ xRing[r].signal = 1 => xRing[r].state = "Completed"
    /\ xRing[r].signal = 1 \/ xRing[r].state = "Scheduled" =>
         \E c \in XClients : Holds(c, r) /\ xClient[c].pc \in ActivePcs
    /\ \A c \in XClients : Holds(c, r) /\ xClient[c].pc \in ActivePcs =>
         xRing[r].signal = 1 \/ xRing[r].state = "Scheduled"
PermitsOK == \A r \in EndpointRings : PermitOK(r)

U(r) == Unread(xRing[r], xHc.deq[r], xHc.ccs[r])
Sched == {b \in 1..CrbCount : xCrb[b].state = "Scheduled"}
PosOf(b) == IF xCrb[b].at = MaxTrIndex THEN 0 ELSE xCrb[b].at
CAge(p) == Age(xRing[CommandRing], p)
LiveCmd(i) == Live(i) /\ xEvent.slot[i].kind = "command"

CommandsOK ==
    /\ InStep(xRing[CommandRing], xHc.deq[CommandRing], xHc.ccs[CommandRing])
    /\ \A b \in Sched : xCrb[b].at # -1
    /\ \A a, b \in Sched : PosOf(a) = PosOf(b) => a = b
    /\ \A b \in Sched, q \in Pos : CAge(q) <= CAge(PosOf(b)) => \E a \in Sched : PosOf(a) = q
    /\ \A q \in Pos : CAge(q) <= U(CommandRing) => \E a \in Sched : PosOf(a) = q
    /\ \A i \in EventSlots : LiveCmd(i) =>
         /\ \E a \in Sched : PosOf(a) = xEvent.slot[i].ptr
         /\ xEvent.slot[i].tag = xRing[CommandRing].trb[xEvent.slot[i].ptr].tag
         /\ CAge(xEvent.slot[i].ptr) > U(CommandRing)
    /\ \A b \in Sched : \/ CAge(PosOf(b)) <= U(CommandRing)
                        \/ \E i \in EventSlots : LiveCmd(i) /\ xEvent.slot[i].ptr = PosOf(b)
    /\ \A i, j \in EventSlots : LiveCmd(i) /\ LiveCmd(j) /\ Turn(i) < Turn(j) =>
         CAge(xEvent.slot[i].ptr) > CAge(xEvent.slot[j].ptr)

\* A command that is scheduled is in its place.
CommandTagsOK == \A c \in XClients : OnCommand(c) /\ xClient[c].crb \in Sched =>
    /\ xRing[CommandRing].trb[PosOf(xClient[c].crb)].type = CmdType(c)
    /\ xRing[CommandRing].trb[PosOf(xClient[c].crb)].tag = CmdTag(c)

\* The stages of its transfer that a client has written, and has to write.
Written(c) == Len(TrbsOf(Request(c))) - Len(xClient[c].todo)
TodoOK == \A c \in XClients : xClient[c].pc \in ActivePcs =>
    /\ Len(xClient[c].todo) <= Len(TrbsOf(Request(c)))
    /\ \A j \in 1..Len(xClient[c].todo) : xClient[c].todo[j] = TrbsOf(Request(c))[Written(c) + j]

LiveOf(r, i) == Live(i) /\ xEvent.slot[i].ring = r
Responding(r) == xThread.pc = "respond" /\ Event.ring = r

\* All that the controller has not read of a ring are no-ops.
AllNop(r) == /\ U(r) <= 3
             /\ \A p \in Pos : Age(xRing[r], p) <= U(r) => xRing[r].trb[p].type = "NOP"

\* The last entries of the ring are what the client has written, and what has
\* not been read before them are no-ops.
Stages(r, c) ==
    /\ U(r) <= Written(c) + 3
    /\ \A p \in Pos : Age(xRing[r], p) <= Written(c) =>
         /\ xRing[r].trb[p].type = TrbsOf(Request(c))[Written(c) + 1 - Age(xRing[r], p)]
         /\ xRing[r].trb[p].tag = TagOf(c)
    /\ \A p \in Pos : Age(xRing[r], p) > Written(c) /\ Age(xRing[r], p) <= U(r) =>
         xRing[r].trb[p].type = "NOP"

\* The one event of a transfer: it was read to its end, or it failed.
Reported(r, c, i) ==
    /\ xEvent.slot[i].tag = TagOf(c)
    /\ \A j \in EventSlots : LiveOf(r, j) => i = j
    /\ ~Responding(r) =>
         \/ /\ xRing[r].trb[xEvent.slot[i].ptr].type \in {"NORMAL", "STATUS"}
            /\ U(r) = 0 /\ xClient[c].pc # "issue"
         \/ /\ xRing[r].trb[xEvent.slot[i].ptr].type \in {"SETUP", "DATA"}
            /\ r \in xHc.halted /\ xEvent.slot[i].ptr = xHc.deq[r] /\ U(r) > 0

TransferOK(r) ==
    /\ InStep(xRing[r], xHc.deq[r], xHc.ccs[r])
    /\ xRing[r].state # "Scheduled" => AllNop(r) /\ \A i \in EventSlots : ~LiveOf(r, i)
    /\ xRing[r].state = "Scheduled" /\ Responding(r) => AllNop(r)
    /\ xRing[r].state = "Scheduled" =>
         \A c \in XClients : Holds(c, r) =>
           /\ Responding(r) => xClient[c].pc # "issue"
           /\ ~Responding(r) => Stages(r, c)
           /\ \A i \in EventSlots : LiveOf(r, i) => Reported(r, c, i)
    /\ xRing[r].signal = 1 =>
         \A c \in XClients : Holds(c, r) => xRing[r].response = TagOf(c) /\ xClient[c].pc # "issue"
TransfersOK == \A r \in EndpointRings \ xThread.torn : TransferOK(r)

RespondOK == xThread.pc = "respond" => Event.kind = "transfer"

XInv ==
    /\ XTypes /\ Producers /\ EventRingOK /\ RespondOK /\ ClientsOK /\ BlocksOK /\ PermitsOK
    /\ CommandsOK /\ CommandTagsOK /\ TodoOK /\ TransfersOK

-----------------------------------------------------------------------------
(* The steps keep the types *)

LEMMA RequestTypes ==
    ASSUME XTypes, NEW c \in XClients, HasRequest(c)
    PROVE  /\ Request(c) \in XRequests
           /\ Request(c).kind \in {"command", "normal", "control"}
           /\ Request(c).kind # "command" => Request(c).ring \in EndpointRings
           /\ Request(c).kind = "control" => Request(c).data \in BOOLEAN
<1>1. xClient[c].plan \in Seq(XRequests) /\ xClient[c].n \in Nat
  BY Zenon DEF XTypes, ClientSet
<1>2. xClient[c].n + 1 \in 1..Len(xClient[c].plan)
  BY <1>1 DEF HasRequest
<1>3. Request(c) \in XRequests
  BY <1>1, <1>2 DEF Request
<1> QED BY <1>3 DEF XRequests

\* A client is where it is, the others stay.
LEMMA ClientStays ==
    ASSUME XTypes, NEW c \in XClients, NEW v \in ClientSet, xClient' = [xClient EXCEPT ![c] = v]
    PROVE  /\ xClient' \in [XClients -> ClientSet] /\ xClient'[c] = v
           /\ \A d \in XClients : d # c => xClient'[d] = xClient[d]
BY Zenon DEF XTypes

LEMMA TagTypes ==
    ASSUME NEW c \in XClients, NEW n \in Nat
    PROVE  <<c, n>> \in Tags /\ \A r \in EndpointRings : <<c, n, r>> \in Tags
BY DEF Tags

LEMMA StagesTyped ==
    ASSUME NEW q \in XRequests, q.kind # "command"
    PROVE  /\ TrbsOf(q) \in Seq(StageTypes) /\ Len(TrbsOf(q)) \in 1..3
           /\ TrbsOf(q) \in {<<"NORMAL">>, <<"SETUP", "STATUS">>, <<"SETUP", "DATA", "STATUS">>}
<1>1. TrbsOf(q) \in {<<"NORMAL">>, <<"SETUP", "STATUS">>, <<"SETUP", "DATA", "STATUS">>}
  BY DEF TrbsOf, XRequests
<1>2. <<"NORMAL">> \in Seq(StageTypes) /\ Len(<<"NORMAL">>) = 1
  BY DEF StageTypes
<1>3. <<"SETUP", "STATUS">> \in Seq(StageTypes) /\ Len(<<"SETUP", "STATUS">>) = 2
  BY DEF StageTypes
<1>4. <<"SETUP", "DATA", "STATUS">> \in Seq(StageTypes) /\ Len(<<"SETUP", "DATA", "STATUS">>) = 3
  BY DEF StageTypes
<1>5. CASE TrbsOf(q) = <<"NORMAL">>
  BY <1>2, <1>5
<1>6. CASE TrbsOf(q) = <<"SETUP", "STATUS">>
  BY <1>3, <1>6
<1>7. CASE TrbsOf(q) = <<"SETUP", "DATA", "STATUS">>
  BY <1>4, <1>7
<1> QED BY <1>1, <1>5, <1>6, <1>7

\* What a client step says of its client: the place it goes to and what else
\* is new of it; its plan stays, and so do the other clients.
Moves(c, pc, n, todo, crb, got) ==
    /\ xClient' \in [XClients -> ClientSet]
    /\ xClient'[c].pc = pc /\ xClient'[c].plan = xClient[c].plan /\ xClient'[c].n = n
    /\ xClient'[c].todo = todo /\ xClient'[c].crb = crb /\ xClient'[c].got = got
    /\ \A d \in XClients : d # c => xClient'[d] = xClient[d]

LEMMA Moving ==
    ASSUME XTypes, NEW c \in XClients,
           NEW pc \in {"idle", "scopeWait", "reset"} \cup CmdPcs \cup ResetPcs \cup ActivePcs,
           NEW n \in Nat, NEW todo \in Seq(StageTypes), NEW crb \in 0..CrbCount, NEW got \in Tags,
           xClient' = [xClient EXCEPT ![c] = [@ EXCEPT !.pc = pc, !.n = n, !.todo = todo,
                                                       !.crb = crb, !.got = got]]
    PROVE  Moves(c, pc, n, todo, crb, got)
<1> DEFINE v == [xClient[c] EXCEPT !.pc = pc, !.n = n, !.todo = todo, !.crb = crb, !.got = got]
<1>1. xClient[c] \in ClientSet
  BY Zenon DEF XTypes
<1>2. /\ v \in ClientSet /\ v.pc = pc /\ v.plan = xClient[c].plan /\ v.n = n /\ v.todo = todo
      /\ v.crb = crb /\ v.got = got
  BY <1>1 DEF ClientSet
<1>3. xClient' = [xClient EXCEPT ![c] = v]
  OBVIOUS
<1> HIDE DEF v
<1> QED BY <1>2, <1>3, ClientStays DEF Moves

LEMMA ClientTypes ==
    ASSUME XTypes, NEW c \in XClients
    PROVE  /\ xClient[c] \in ClientSet
           /\ xClient[c].pc \in {"idle", "scopeWait", "reset"} \cup CmdPcs \cup ResetPcs \cup ActivePcs
           /\ xClient[c].n \in Nat /\ xClient[c].todo \in Seq(StageTypes)
           /\ xClient[c].crb \in 0..CrbCount /\ xClient[c].got \in Tags
           /\ xClient[c].plan \in Seq(XRequests)
BY Zenon DEF XTypes, ClientSet

\* Only the place changes.
LEMMA Stepping ==
    ASSUME XTypes, NEW c \in XClients,
           NEW pc \in {"idle", "scopeWait", "reset"} \cup CmdPcs \cup ResetPcs \cup ActivePcs,
           xClient' = [xClient EXCEPT ![c].pc = pc]
    PROVE  Moves(c, pc, xClient[c].n, xClient[c].todo, xClient[c].crb, xClient[c].got)
<1>1. xClient[c] \in ClientSet
  BY Zenon DEF XTypes
<1>2. [xClient[c] EXCEPT !.pc = pc, !.n = xClient[c].n, !.todo = xClient[c].todo,
                         !.crb = xClient[c].crb, !.got = xClient[c].got]
      = [xClient[c] EXCEPT !.pc = pc]
  BY <1>1 DEF ClientSet
<1>3. xClient' = [xClient EXCEPT ![c] = [xClient[c] EXCEPT !.pc = pc]]
  BY Zenon DEF XTypes
<1> QED BY Zenon, <1>2, <1>3, ClientTypes, Moving

LEMMA AllocateFacts ==
    ASSUME XTypes, NEW c \in XClients, AllocateCrb(c)
    PROVE  \E b \in 1..CrbCount :
             /\ xCrb[b].state = "Available" /\ xCrb' \in [1..CrbCount -> CrbSet]
             /\ xCrb'[b] = [xCrb[b] EXCEPT !.state = "Acquired"]
             /\ \A a \in 1..CrbCount : a # b => xCrb'[a] = xCrb[a]
             /\ Moves(c, IF xClient[c].pc = "reset" THEN "resetIssue" ELSE "cmdIssue",
                      xClient[c].n, xClient[c].todo, b, xClient[c].got)
<1>1. PICK b \in 1..CrbCount :
        /\ Acquirable(b) /\ xCrb' = [xCrb EXCEPT ![b].state = "Acquired"]
        /\ xClient' = [xClient EXCEPT ![c].crb = b,
                          ![c].pc = IF @ = "reset" THEN "resetIssue" ELSE "cmdIssue"]
  BY DEF AllocateCrb
<1> DEFINE pc == IF xClient[c].pc = "reset" THEN "resetIssue" ELSE "cmdIssue"
<1>a. xClient[c] \in ClientSet
  BY Zenon DEF XTypes
<1>b. b \in 0..CrbCount
  BY Sizes
<1>2. xClient[c] \in ClientSet /\ b \in 0..CrbCount
  BY <1>a, <1>b
<1>3. [xClient[c] EXCEPT !.pc = pc, !.n = xClient[c].n, !.todo = xClient[c].todo,
                         !.crb = b, !.got = xClient[c].got]
      = [xClient[c] EXCEPT !.crb = b, !.pc = pc]
  BY <1>2 DEF ClientSet
<1>4. xClient' = [xClient EXCEPT ![c] = [xClient[c] EXCEPT !.crb = b, !.pc = pc]]
  BY Zenon, <1>1, <1>2 DEF XTypes, ClientSet
<1>5. pc \in {"idle", "scopeWait", "reset"} \cup CmdPcs \cup ResetPcs \cup ActivePcs
  BY DEF CmdPcs, ResetPcs
<1> HIDE DEF pc
<1>6. Moves(c, pc, xClient[c].n, xClient[c].todo, b, xClient[c].got)
  BY Zenon, <1>2, <1>3, <1>4, <1>5, ClientTypes, Moving
<1>7. /\ xCrb' \in [1..CrbCount -> CrbSet]
      /\ xCrb'[b] = [xCrb[b] EXCEPT !.state = "Acquired"]
      /\ \A a \in 1..CrbCount : a # b => xCrb'[a] = xCrb[a]
  BY ZenonT(60), <1>1 DEF XTypes, CrbSet
<1> QED BY <1>1, <1>6, <1>7 DEF pc, Acquirable

LEMMA Moved ==
    ASSUME XTypes, NEW c \in XClients, NEW v \in ClientSet, v.plan = xClient[c].plan,
           xClient' = [xClient EXCEPT ![c] = v]
    PROVE  Moves(c, v.pc, v.n, v.todo, v.crb, v.got)
BY ClientStays DEF Moves

\* One ring is written.
Rewrites(r, v) ==
    /\ xRing' \in [Rings -> RingSet] /\ xRing'[r] = v
    /\ \A q \in Rings : q # r => xRing'[q] = xRing[q]

\* One request block is written.
Reblocks(b, v) ==
    /\ xCrb' \in [1..CrbCount -> CrbSet] /\ xCrb'[b] = v
    /\ \A a \in 1..CrbCount : a # b => xCrb'[a] = xCrb[a]

LEMMA RingTypes ==
    ASSUME XTypes, NEW r \in Rings
    PROVE  /\ xRing[r] \in RingSet /\ xHc.deq[r] \in 0..MaxTrIndex /\ xHc.ccs[r] \in {0, 1}
           /\ xRing[r].index \in 0..MaxTrIndex /\ xRing[r].pcs \in {0, 1}
           /\ xRing[r].scope \in {0, 1} /\ xRing[r].signal \in {0, 1} /\ xRing[r].response \in Tags
           /\ xRing[r].trb \in [0..MaxTrIndex -> TrbSet]
           /\ xRing[r].state \in {"Available", "Scheduled", "Completed"}
           /\ xRing[r].code \in {"none", "SUCCESS", "STALL", "TRANSACTION"}
BY Zenon DEF XTypes, RingSet, HcSet

LEMMA RingWritten ==
    ASSUME XTypes, NEW r \in Rings, NEW v \in RingSet, xRing' = [xRing EXCEPT ![r] = v]
    PROVE  Rewrites(r, v)
BY Zenon DEF XTypes, Rewrites

LEMMA BlockWritten ==
    ASSUME XTypes, NEW b \in 1..CrbCount, NEW v \in CrbSet, xCrb' = [xCrb EXCEPT ![b] = v]
    PROVE  Reblocks(b, v)
BY Zenon DEF XTypes, Reblocks

LEMMA OwnBlock ==
    ASSUME XTypes, NEW c \in XClients, ClientOK(c), OnCommand(c)
    PROVE  xClient[c].crb \in 1..CrbCount
<1>1. xClient[c].crb \in 0..CrbCount /\ xClient[c].crb # 0
  BY ClientTypes DEF ClientOK
<1> QED BY <1>1, Sizes

LEMMA CommandTags ==
    ASSUME XTypes, NEW c \in XClients, ClientOK(c), OnCommand(c)
    PROVE  CmdTag(c) \in Tags /\ CmdType(c) \in {"COMMAND", "RESET_ENDPOINT"}
<1>1. HasRequest(c) /\ xClient[c].n \in Nat
  BY ClientTypes DEF ClientOK, OnCommand, CmdPcs, ResetPcs
<1>2. xClient[c].pc \in ResetPcs => Request(c).ring \in EndpointRings
  BY <1>1, RequestTypes DEF ClientOK
<1> QED BY <1>1, <1>2, TagTypes DEF CmdTag, CmdType, TagOf

LEMMA IssueCommandFacts ==
    ASSUME XTypes, NEW c \in XClients, ClientOK(c), IssueCommand(c)
    PROVE  /\ OnCommand(c) /\ xClient[c].crb \in 1..CrbCount
           /\ Rewrites(CommandRing, IssueTrb(xRing[CommandRing], CmdType(c), CmdTag(c)))
           /\ Reblocks(xClient[c].crb, [xCrb[xClient[c].crb] EXCEPT !.state = "Scheduled",
                          !.response = NoTag, !.at = xRing[CommandRing].index])
           /\ Moves(c, IF xClient[c].pc \in ResetPcs THEN "resetBell" ELSE "cmdBell",
                    xClient[c].n, xClient[c].todo, xClient[c].crb, xClient[c].got)
<1> DEFINE b == xClient[c].crb
           R == xRing[CommandRing]
           w == [xCrb[b] EXCEPT !.state = "Scheduled", !.response = NoTag, !.at = R.index]
           pc == IF xClient[c].pc \in ResetPcs THEN "resetBell" ELSE "cmdBell"
<1>1. xClient[c].pc \in {"cmdIssue", "resetIssue"}
  BY DEF IssueCommand
<1>2. OnCommand(c) /\ (xClient[c].pc \in ResetPcs <=> xClient[c].pc = "resetIssue")
  BY <1>1 DEF OnCommand, CmdPcs, ResetPcs
<1>3. b \in 1..CrbCount
  BY <1>2, OwnBlock
<1>4. CommandRing \in Rings
  BY DEF Rings
<1>5. /\ xCrb' = [xCrb EXCEPT ![b].state = "Scheduled", ![b].response = NoTag, ![b].at = R.index]
      /\ xRing' = [xRing EXCEPT ![CommandRing] = IssueTrb(R, CmdType(c), CmdTag(c))]
      /\ xClient' = [xClient EXCEPT ![c].pc = pc]
  BY Zenon, <1>1, <1>2, <1>4 DEF IssueCommand, CmdTag, CmdType, ScheduledTrb, Step, XTypes
<1>6. IssueTrb(R, CmdType(c), CmdTag(c)) \in RingSet
  BY <1>2, <1>4, CommandTags, RingTypes, Issued DEF TrbTypes
<1>7. w \in CrbSet /\ xCrb' = [xCrb EXCEPT ![b] = w]
  <2>1. xCrb[b] \in CrbSet /\ R.index \in -1..MaxTrIndex /\ NoTag \in Tags
    <3>1. R.index \in 0..MaxTrIndex
      BY <1>4, RingTypes
    <3>2. R.index \in -1..MaxTrIndex
      BY <3>1, Sizes
    <3>3. xCrb[b] \in CrbSet
      BY Zenon, <1>3 DEF XTypes
    <3> QED BY <3>2, <3>3 DEF Tags
  <2>2. w \in CrbSet
    BY <2>1 DEF CrbSet
  <2> QED BY Zenon, <2>1, <2>2, <1>3, <1>5 DEF XTypes, CrbSet
<1>8. pc \in {"idle", "scopeWait", "reset"} \cup CmdPcs \cup ResetPcs \cup ActivePcs
  BY DEF CmdPcs, ResetPcs
<1> HIDE DEF w, pc
<1>9. Reblocks(b, w)
  BY <1>3, <1>7, BlockWritten
<1>10. Rewrites(CommandRing, IssueTrb(R, CmdType(c), CmdTag(c)))
  BY <1>4, <1>5, <1>6, RingWritten
<1>11. Moves(c, pc, xClient[c].n, xClient[c].todo, b, xClient[c].got)
  BY <1>5, <1>8, Stepping
<1> QED BY <1>2, <1>3, <1>9, <1>10, <1>11 DEF w, pc

LEMMA FinishCommandFacts ==
    ASSUME XTypes, NEW c \in XClients, ClientOK(c), PermitsOK, FinishCommand(c)
    PROVE  /\ OnCommand(c) /\ xClient[c].crb \in 1..CrbCount /\ xClient[c].pc \in {"cmdWait", "resetWait"}
           /\ xCrb[xClient[c].crb].signal = 1
           /\ Reblocks(xClient[c].crb, [xCrb[xClient[c].crb] EXCEPT !.signal = 0,
                          !.state = "Available", !.delayed = TRUE])
           /\ xClient[c].pc = "cmdWait" =>
                /\ Moves(c, "idle", xClient[c].n + 1, xClient[c].todo, 0, xCrb[xClient[c].crb].response)
                /\ xRing' = xRing
           /\ xClient[c].pc = "resetWait" =>
                /\ Moves(c, "idle", xClient[c].n + 1, xClient[c].todo, 0, xClient[c].got)
                /\ Request(c).ring \in EndpointRings /\ xRing[Request(c).ring].scope = 0
                /\ Rewrites(Request(c).ring, [xRing[Request(c).ring] EXCEPT !.scope = 1])
<1> DEFINE b == xClient[c].crb
           w == [xCrb[b] EXCEPT !.signal = 0, !.state = "Available", !.delayed = TRUE]
<1>1. xClient[c].pc \in {"cmdWait", "resetWait"} /\ xCrb[b].signal > 0
  BY DEF FinishCommand
<1>2. OnCommand(c)
  BY <1>1 DEF OnCommand, CmdPcs, ResetPcs
<1>3. b \in 1..CrbCount
  BY <1>2, OwnBlock
<1>4. xCrb[b] \in CrbSet
  BY Zenon, <1>3 DEF XTypes
<1>5. xCrb[b].signal = 1 /\ xCrb[b].response \in Tags
  BY <1>1, <1>4 DEF CrbSet
<1>6. xCrb' = [xCrb EXCEPT ![b] = w]
  <2>1. xCrb' = [xCrb EXCEPT ![b].signal = @ - 1, ![b].state = "Available", ![b].delayed = TRUE]
    BY DEF FinishCommand
  <2>2. [xCrb[b] EXCEPT !.signal = @ - 1, !.state = "Available", !.delayed = TRUE] = w
    <3>1. xCrb[b].signal - 1 = 0
      BY <1>5
    <3> QED BY <3>1
  <2> QED BY Zenon, <1>3, <1>5, <2>1, <2>2 DEF XTypes
<1>7. w \in CrbSet
  BY <1>4 DEF CrbSet
<1>8. Reblocks(b, w)
  BY <1>3, <1>6, <1>7, BlockWritten
<1>a. xClient[c] \in ClientSet /\ xClient[c].n \in Nat
  BY ClientTypes
<1>9. xClient[c] \in ClientSet /\ 0 \in 0..CrbCount /\ xClient[c].n + 1 \in Nat
  BY <1>a, Sizes
<1>10. ASSUME xClient[c].pc = "cmdWait"
       PROVE  /\ Moves(c, "idle", xClient[c].n + 1, xClient[c].todo, 0, xCrb[b].response)
              /\ xRing' = xRing
  <2> DEFINE v == [xClient[c] EXCEPT !.pc = "idle", !.n = @ + 1, !.crb = 0, !.got = xCrb[b].response]
  <2>1. xClient' = [xClient EXCEPT ![c] = v] /\ xRing' = xRing
    BY Zenon, <1>10, <1>9 DEF FinishCommand, XTypes, ClientSet
  <2>2. /\ v \in ClientSet /\ v.plan = xClient[c].plan /\ v.pc = "idle" /\ v.n = xClient[c].n + 1
        /\ v.todo = xClient[c].todo /\ v.crb = 0 /\ v.got = xCrb[b].response
    BY <1>5, <1>9 DEF ClientSet
  <2> HIDE DEF v
  <2> QED BY <2>1, <2>2, Moved
<1>11. ASSUME xClient[c].pc = "resetWait"
       PROVE  /\ Moves(c, "idle", xClient[c].n + 1, xClient[c].todo, 0, xClient[c].got)
              /\ Request(c).ring \in EndpointRings /\ xRing[Request(c).ring].scope = 0
              /\ Rewrites(Request(c).ring, [xRing[Request(c).ring] EXCEPT !.scope = 1])
  <2> DEFINE v == [xClient[c] EXCEPT !.pc = "idle", !.n = @ + 1, !.crb = 0]
             r == Request(c).ring
  <2>1. xClient' = [xClient EXCEPT ![c] = v]
    BY Zenon, <1>11, <1>9 DEF FinishCommand, XTypes, ClientSet
  <2>2. /\ v \in ClientSet /\ v.plan = xClient[c].plan /\ v.pc = "idle" /\ v.n = xClient[c].n + 1
        /\ v.todo = xClient[c].todo /\ v.crb = 0 /\ v.got = xClient[c].got
    BY <1>9 DEF ClientSet
  <2> HIDE DEF v
  <2>3. Moves(c, "idle", xClient[c].n + 1, xClient[c].todo, 0, xClient[c].got)
    BY <2>1, <2>2, Moved
  <2>4. HasRequest(c) /\ Request(c).kind = "control"
    BY <1>11 DEF ClientOK, ResetPcs
  <2>5. r \in EndpointRings
    BY <2>4, RequestTypes
  <2>6. r \in Rings
    BY <2>5 DEF Rings
  <2>7. Holds(c, r)
    BY <1>11 DEF Holds, ResetPcs
  <2>8. xRing[r].scope = 0
    BY <2>5, <2>6, <2>7, RingTypes DEF PermitsOK, PermitOK
  <2>9. xRing' = [xRing EXCEPT ![r] = [xRing[r] EXCEPT !.scope = 1]]
    <3>1. xRing' = [xRing EXCEPT ![r].scope = @ + 1]
      BY <1>11 DEF FinishCommand
    <3>2. xRing[r].scope + 1 = 1
      BY <2>8
    <3> HIDE DEF r
    <3> QED BY Zenon, <2>6, <3>1, <3>2 DEF XTypes
  <2>10. [xRing[r] EXCEPT !.scope = 1] \in RingSet
    BY <2>6, RingTypes DEF RingSet
  <2>11. Rewrites(r, [xRing[r] EXCEPT !.scope = 1])
    BY <2>6, <2>9, <2>10, RingWritten
  <2> QED BY <2>3, <2>5, <2>8, <2>11
<1> QED BY <1>1, <1>2, <1>3, <1>5, <1>8, <1>10, <1>11

LEMMA ScopeFacts ==
    ASSUME XTypes, NEW c \in XClients, ClientOK(c), Scope(c) \/ ScopeGranted(c)
    PROVE  /\ HasRequest(c) /\ Request(c).kind # "command" /\ xClient[c].pc \in {"idle", "scopeWait"}
           /\ Request(c).ring \in EndpointRings /\ xRing[Request(c).ring].scope = 1
           /\ Rewrites(Request(c).ring, [xRing[Request(c).ring] EXCEPT !.scope = 0, !.state = "Scheduled"])
           /\ Moves(c, "issue", xClient[c].n, TrbsOf(Request(c)), xClient[c].crb, xClient[c].got)
<1> DEFINE r == Request(c).ring
           v == [xClient[c] EXCEPT !.pc = "issue", !.todo = TrbsOf(Request(c))]
<1>1. /\ xClient[c].pc \in {"idle", "scopeWait"} /\ HasRequest(c) /\ Request(c).kind # "command"
      /\ xRing[r].scope > 0
      /\ xRing' = [xRing EXCEPT ![r].scope = @ - 1, ![r].state = "Scheduled"]
      /\ xClient' = [xClient EXCEPT ![c].pc = "issue", ![c].todo = TrbsOf(Request(c))]
  BY DEF Scope, ScopeGranted, ClientOK, Scheduled
<1>2. r \in EndpointRings /\ Request(c) \in XRequests
  BY <1>1, RequestTypes
<1>3. r \in Rings
  BY <1>2 DEF Rings
<1>4. xRing[r].scope = 1
  BY <1>1, <1>3, RingTypes
<1>5. xRing[r].scope - 1 = 0
  BY <1>4
<1>6. xClient[c] \in ClientSet
  BY ClientTypes
<1>7. TrbsOf(Request(c)) \in Seq(StageTypes)
  BY <1>1, <1>2, StagesTyped
<1>8. xClient' = [xClient EXCEPT ![c] = v]
  BY Zenon, <1>1, <1>6 DEF XTypes
<1>9. /\ v \in ClientSet /\ v.plan = xClient[c].plan /\ v.pc = "issue" /\ v.n = xClient[c].n
      /\ v.todo = TrbsOf(Request(c)) /\ v.crb = xClient[c].crb /\ v.got = xClient[c].got
  BY <1>6, <1>7 DEF ClientSet, ActivePcs
<1> HIDE DEF v, r
<1>10. Moves(c, "issue", xClient[c].n, TrbsOf(Request(c)), xClient[c].crb, xClient[c].got)
  BY <1>8, <1>9, Moved
<1>11. xRing' = [xRing EXCEPT ![r] = [xRing[r] EXCEPT !.scope = 0, !.state = "Scheduled"]]
  BY Zenon, <1>1, <1>3, <1>5 DEF XTypes
<1>12. [xRing[r] EXCEPT !.scope = 0, !.state = "Scheduled"] \in RingSet
  BY ZenonT(60), <1>3, RingTypes DEF RingSet
<1>13. Rewrites(r, [xRing[r] EXCEPT !.scope = 0, !.state = "Scheduled"])
  BY <1>3, <1>11, <1>12, RingWritten
<1> QED BY <1>1, <1>2, <1>4, <1>10, <1>13 DEF r

LEMMA IssueStageFacts ==
    ASSUME XTypes, NEW c \in XClients, ClientOK(c), IssueStage(c)
    PROVE  /\ HasRequest(c) /\ Request(c).kind # "command" /\ xClient[c].pc = "issue"
           /\ Request(c).ring \in EndpointRings /\ xClient[c].todo # <<>>
           /\ Head(xClient[c].todo) \in StageTypes /\ TagOf(c) \in Tags
           /\ Rewrites(Request(c).ring,
                       IssueTrb(xRing[Request(c).ring], Head(xClient[c].todo), TagOf(c)))
           /\ Moves(c, IF Len(xClient[c].todo) = 1 THEN "bell" ELSE "issue", xClient[c].n,
                    Tail(xClient[c].todo), xClient[c].crb, xClient[c].got)
<1> DEFINE r == Request(c).ring
           pc == IF Len(xClient[c].todo) = 1 THEN "bell" ELSE "issue"
           v == [xClient[c] EXCEPT !.todo = Tail(@), !.pc = pc]
<1>1. xClient[c].pc = "issue"
  BY DEF IssueStage
<1>2. HasRequest(c) /\ Request(c).kind # "command" /\ xClient[c].todo # <<>>
  BY <1>1 DEF ClientOK, ActivePcs
<1>3. r \in EndpointRings /\ r \in Rings
  BY <1>2, RequestTypes DEF Rings
<1>4. xClient[c] \in ClientSet /\ xClient[c].todo \in Seq(StageTypes) /\ xClient[c].n \in Nat
  BY ClientTypes
<1>5. Head(xClient[c].todo) \in StageTypes /\ Tail(xClient[c].todo) \in Seq(StageTypes)
  BY <1>2, <1>4
<1>6. TagOf(c) \in Tags
  BY <1>4, TagTypes DEF TagOf
<1>7. /\ xRing' = [xRing EXCEPT ![r] = IssueTrb(xRing[r], Head(xClient[c].todo), TagOf(c))]
      /\ xClient' = [xClient EXCEPT ![c].todo = Tail(@),
                                  ![c].pc = IF Len(xClient[c].todo) = 1 THEN "bell" ELSE @]
  BY Zenon, <1>3 DEF IssueStage, XTypes
<1>8. xClient' = [xClient EXCEPT ![c] = v]
  <2>1. [xClient[c] EXCEPT !.todo = Tail(@), !.pc = IF Len(xClient[c].todo) = 1 THEN "bell" ELSE @] = v
    BY <1>1, <1>4 DEF ClientSet
  <2>2. [xClient[c] EXCEPT !.todo = Tail(@)].pc = xClient[c].pc
    BY <1>4 DEF ClientSet
  <2> QED BY Zenon, <1>4, <1>7, <2>1, <2>2, <1>1 DEF XTypes
<1>9. pc \in ActivePcs
  BY DEF ActivePcs
<1>10. /\ v \in ClientSet /\ v.plan = xClient[c].plan /\ v.pc = pc /\ v.n = xClient[c].n
       /\ v.todo = Tail(xClient[c].todo) /\ v.crb = xClient[c].crb /\ v.got = xClient[c].got
  <2> HIDE DEF pc
  <2> QED BY <1>4, <1>5, <1>9 DEF ClientSet
<1> HIDE DEF v, r, pc
<1>11. Moves(c, pc, xClient[c].n, Tail(xClient[c].todo), xClient[c].crb, xClient[c].got)
  BY <1>8, <1>10, Moved
<1>12. IssueTrb(xRing[r], Head(xClient[c].todo), TagOf(c)) \in RingSet
  BY <1>3, <1>5, <1>6, RingTypes, Issued DEF TrbTypes
<1>13. Rewrites(r, IssueTrb(xRing[r], Head(xClient[c].todo), TagOf(c)))
  BY <1>3, <1>7, <1>12, RingWritten
<1> QED BY <1>1, <1>2, <1>3, <1>5, <1>6, <1>11, <1>13 DEF r, pc

LEMMA FinishTransferFacts ==
    ASSUME XTypes, NEW c \in XClients, ClientOK(c), PermitsOK, FinishTransfer(c)
    PROVE  /\ HasRequest(c) /\ Request(c).kind # "command" /\ xClient[c].pc = "wait"
           /\ Request(c).ring \in EndpointRings /\ xPanic' = xPanic
           /\ xRing[Request(c).ring].signal = 1 /\ xRing[Request(c).ring].state = "Completed"
           /\ xRing[Request(c).ring].scope = 0
           /\ \/ /\ Request(c).kind = "control"
                 /\ Rewrites(Request(c).ring, [xRing[Request(c).ring] EXCEPT !.signal = 0])
                 /\ Moves(c, "reset", xClient[c].n, xClient[c].todo, xClient[c].crb,
                          xRing[Request(c).ring].response)
              \/ /\ Rewrites(Request(c).ring, [xRing[Request(c).ring] EXCEPT !.signal = 0, !.scope = 1])
                 /\ Moves(c, "idle", xClient[c].n + 1, xClient[c].todo, xClient[c].crb,
                          xRing[Request(c).ring].response)
<1> DEFINE r == Request(c).ring
<1>1. xClient[c].pc = "wait" /\ xRing[r].signal > 0
  BY DEF FinishTransfer
<1>2. HasRequest(c) /\ Request(c).kind # "command"
  BY <1>1 DEF ClientOK, ActivePcs
<1>3. r \in EndpointRings /\ r \in Rings
  BY <1>2, RequestTypes DEF Rings
<1>4. xRing[r].signal = 1 /\ xRing[r] \in RingSet /\ xRing[r].response \in Tags /\ xRing[r].scope \in {0, 1}
  BY <1>1, <1>3, RingTypes
<1>5. Holds(c, r)
  BY <1>1 DEF Holds, ActivePcs
<1>6. xRing[r].scope = 0 /\ xRing[r].state = "Completed"
  BY <1>3, <1>4, <1>5 DEF PermitsOK, PermitOK
<1>7. xRing[r].signal - 1 = 0 /\ xRing[r].scope + 1 = 1
  BY <1>4, <1>6
<1>8. xClient[c] \in ClientSet /\ xClient[c].n + 1 \in Nat
  BY ClientTypes
<1>9. xPanic' = xPanic
  BY <1>6 DEF FinishTransfer
<1>10. CASE xRing[r].code = "STALL" /\ Request(c).kind = "control"
  <2> DEFINE v == [xClient[c] EXCEPT !.pc = "reset", !.got = xRing[r].response]
  <2>1. /\ xRing' = [xRing EXCEPT ![r].signal = @ - 1]
        /\ xClient' = [xClient EXCEPT ![c].pc = "reset", ![c].got = xRing[r].response]
    BY <1>6, <1>10 DEF FinishTransfer
  <2>2. xClient' = [xClient EXCEPT ![c] = v]
    BY Zenon, <2>1, <1>8 DEF XTypes
  <2>3. /\ v \in ClientSet /\ v.plan = xClient[c].plan /\ v.pc = "reset" /\ v.n = xClient[c].n
        /\ v.todo = xClient[c].todo /\ v.crb = xClient[c].crb /\ v.got = xRing[r].response
    BY <1>4, <1>8 DEF ClientSet
  <2> HIDE DEF v, r
  <2>4. Moves(c, "reset", xClient[c].n, xClient[c].todo, xClient[c].crb, xRing[r].response)
    BY <2>2, <2>3, Moved
  <2>5. xRing' = [xRing EXCEPT ![r] = [xRing[r] EXCEPT !.signal = 0]]
    BY Zenon, <1>3, <1>7, <2>1 DEF XTypes
  <2>6. [xRing[r] EXCEPT !.signal = 0] \in RingSet
    BY <1>4 DEF RingSet
  <2>7. Rewrites(r, [xRing[r] EXCEPT !.signal = 0])
    BY <1>3, <2>5, <2>6, RingWritten
  <2> QED BY <1>1, <1>2, <1>3, <1>4, <1>6, <1>9, <1>10, <2>4, <2>7 DEF r
<1>11. CASE ~(xRing[r].code = "STALL" /\ Request(c).kind = "control")
  <2> DEFINE v == [xClient[c] EXCEPT !.pc = "idle", !.n = @ + 1, !.got = xRing[r].response]
  <2>1. /\ xRing' = [xRing EXCEPT ![r].signal = @ - 1, ![r].scope = @ + 1]
        /\ xClient' = [xClient EXCEPT ![c].pc = "idle", ![c].n = @ + 1, ![c].got = xRing[r].response]
    BY <1>6, <1>11 DEF FinishTransfer
  <2>2. xClient' = [xClient EXCEPT ![c] = v]
    BY Zenon, <2>1, <1>8 DEF XTypes, ClientSet
  <2>3. /\ v \in ClientSet /\ v.plan = xClient[c].plan /\ v.pc = "idle" /\ v.n = xClient[c].n + 1
        /\ v.todo = xClient[c].todo /\ v.crb = xClient[c].crb /\ v.got = xRing[r].response
    BY <1>4, <1>8 DEF ClientSet
  <2> HIDE DEF v, r
  <2>4. Moves(c, "idle", xClient[c].n + 1, xClient[c].todo, xClient[c].crb, xRing[r].response)
    BY <2>2, <2>3, Moved
  <2>5. xRing' = [xRing EXCEPT ![r] = [xRing[r] EXCEPT !.signal = 0, !.scope = 1]]
    <3>1. [xRing[r] EXCEPT !.signal = 0].scope = xRing[r].scope
      BY <1>4 DEF RingSet
    <3> QED BY Zenon, <1>3, <1>7, <2>1, <3>1 DEF XTypes, RingSet
  <2>6. [xRing[r] EXCEPT !.signal = 0, !.scope = 1] \in RingSet
    BY <1>4 DEF RingSet
  <2>7. Rewrites(r, [xRing[r] EXCEPT !.signal = 0, !.scope = 1])
    BY <1>3, <2>5, <2>6, RingWritten
  <2> QED BY <1>1, <1>2, <1>3, <1>4, <1>6, <1>9, <2>4, <2>7 DEF r
<1> QED BY <1>10, <1>11

\* The controller is at another place of one ring.
ReadsOn(r, deq, ccs) ==
    /\ xHc' \in HcSet /\ xHc'.deq[r] = deq /\ xHc'.ccs[r] = ccs
    /\ \A q \in Rings : q # r => xHc'.deq[q] = xHc.deq[q] /\ xHc'.ccs[q] = xHc.ccs[q]

Interrupts ==
    /\ xThread' \in ThreadSet /\ xThread'.pc = xThread.pc /\ xThread'.at = xThread.at
    /\ xThread'.torn = xThread.torn

LEMMA HcTypes ==
    ASSUME XTypes
    PROVE  /\ xHc.deq \in [Rings -> 0..MaxTrIndex] /\ xHc.ccs \in [Rings -> {0, 1}]
           /\ xHc.bells \in SUBSET Rings /\ xHc.halted \in SUBSET EndpointRings
           /\ xHc.enq \in EventSlots /\ xHc.pcs \in {0, 1}
           /\ NextEnq \in EventSlots /\ Enqueued \in {0, 1}
           /\ xThread.torn \in SUBSET EndpointRings /\ xThread.sem \in Nat /\ xThread.msi \in BOOLEAN
<1>1. /\ xHc.deq \in [Rings -> 0..MaxTrIndex] /\ xHc.ccs \in [Rings -> {0, 1}]
      /\ xHc.bells \in SUBSET Rings /\ xHc.halted \in SUBSET EndpointRings
      /\ xHc.enq \in EventSlots /\ xHc.pcs \in {0, 1}
      /\ xThread.torn \in SUBSET EndpointRings /\ xThread.sem \in Nat /\ xThread.msi \in BOOLEAN
  BY Zenon DEF XTypes, HcSet, ThreadSet
<1>2. NextEnq \in EventSlots
  BY <1>1, NextSlot, Sizes DEF NextEnq, EventSlots
<1>3. Enqueued \in {0, 1}
  BY <1>1 DEF Enqueued
<1> QED BY <1>1, <1>2, <1>3

LEMMA PostedTyped ==
    ASSUME XTypes, NEW r \in Rings, xHc.deq[r] \in Pos, NEW code \in {"SUCCESS", "STALL", "TRANSACTION"}
    PROVE  /\ PostedEvent(r, code) \in EventSet /\ PostedEvent(r, code).cycle = xHc.pcs
           /\ PostedEvent(r, code).kind = "command" <=> PostedEvent(r, code).ring = CommandRing
           /\ PostedEvent(r, code).kind = IF r = CommandRing THEN "command" ELSE "transfer"
           /\ PostedEvent(r, code).ring = r /\ PostedEvent(r, code).ptr = xHc.deq[r]
           /\ PostedEvent(r, code).tag = xRing[r].trb[xHc.deq[r]].tag
<1>1. xHc.pcs \in {0, 1} /\ xHc.deq[r] \in 0..MaxTrIndex
  BY HcTypes
<1>2. xRing[r].trb[xHc.deq[r]] \in TrbSet
  BY <1>1, RingTypes
<1>3. xRing[r].trb[xHc.deq[r]].tag \in Tags
  BY <1>2 DEF TrbSet
<1> QED BY <1>1, <1>3 DEF PostedEvent, EventSet

LEMMA LinkRead ==
    ASSUME XTypes, Producers, NEW r \in Rings, HcConsume(r), xRing[r].trb[xHc.deq[r]].type = "LINK"
    PROVE  /\ xHc.deq[r] = MaxTrIndex
           /\ ReadsOn(r, 0, 1 - xHc.ccs[r])
           /\ xHc'.halted = xHc.halted /\ xHc'.enq = xHc.enq /\ xHc'.pcs = xHc.pcs
           /\ UNCHANGED <<xEvent, xThread>>
<1>1. xHc' = [xHc EXCEPT !.deq[r] = 0, !.ccs[r] = 1 - @] /\ UNCHANGED <<xEvent, xThread>>
  BY DEF HcConsume
<1>2. xHc.deq[r] = MaxTrIndex
  <2>1. xHc.deq[r] \in 0..MaxTrIndex /\ Produced(xRing[r])
    BY RingTypes DEF Producers
  <2> QED BY <2>1, Sizes DEF Produced, Pos
<1>3. 1 - xHc.ccs[r] \in {0, 1} /\ 0 \in 0..MaxTrIndex
  BY RingTypes, Sizes
<1>4. /\ [xHc.deq EXCEPT ![r] = 0] \in [Rings -> 0..MaxTrIndex]
      /\ [xHc.ccs EXCEPT ![r] = 1 - xHc.ccs[r]] \in [Rings -> {0, 1}]
  BY <1>3, HcTypes
<1>5. xHc' = [xHc EXCEPT !.deq = [xHc.deq EXCEPT ![r] = 0], !.ccs = [xHc.ccs EXCEPT ![r] = 1 - xHc.ccs[r]]]
  BY Zenon, <1>1 DEF XTypes, HcSet
<1>6. /\ xHc' \in HcSet /\ xHc'.deq = [xHc.deq EXCEPT ![r] = 0]
      /\ xHc'.ccs = [xHc.ccs EXCEPT ![r] = 1 - xHc.ccs[r]]
      /\ xHc'.halted = xHc.halted /\ xHc'.enq = xHc.enq /\ xHc'.pcs = xHc.pcs
  BY Zenon, <1>4, <1>5 DEF XTypes, HcSet
<1> QED BY <1>1, <1>2, <1>6, HcTypes DEF ReadsOn

\* An entry that is no link is not the last one of the ring.
LEMMA EntryRead ==
    ASSUME XTypes, Producers, NEW r \in Rings, Consumable(r), xRing[r].trb[xHc.deq[r]].type # "LINK"
    PROVE  xHc.deq[r] \in Pos /\ xHc.deq[r] + 1 \in 0..MaxTrIndex
<1>1. xHc.deq[r] \in 0..MaxTrIndex /\ Produced(xRing[r]) /\ xRing[r].index \in 0..MaxTrIndex
      /\ xRing[r].pcs \in {0, 1}
  BY RingTypes DEF Producers
<1>2. ASSUME xHc.deq[r] = MaxTrIndex PROVE FALSE
  <2>1. xRing[r].trb[MaxTrIndex].type = "RESERVED"
    BY <1>1, <1>2 DEF Produced
  <2>2. xRing[r].pcs = 1 /\ xHc.ccs[r] = 1
    BY <1>1, <2>1 DEF Produced, Producers
  <2>3. MaxTrIndex \in 0..MaxTrIndex
    BY Sizes
  <2>4. xRing[r].trb[MaxTrIndex].cycle = IF MaxTrIndex < xRing[r].index THEN xRing[r].pcs ELSE 1 - xRing[r].pcs
    BY <1>1, <2>3 DEF Produced
  <2>5. ~(MaxTrIndex < xRing[r].index)
    BY SMTT(60), <1>1, Sizes
  <2> QED BY <1>2, <2>2, <2>4, <2>5 DEF Consumable
<1> QED BY <1>1, <1>2, Sizes DEF Pos

LEMMA ReportRead ==
    ASSUME XTypes, Producers, NEW r \in Rings, HcConsume(r), Reports(xRing[r].trb[xHc.deq[r]].type)
    PROVE  /\ xHc.deq[r] \in Pos /\ NextEnq # xEvent.erdp
           /\ ReadsOn(r, xHc.deq[r] + 1, xHc.ccs[r])
           /\ xHc'.enq = NextEnq /\ xHc'.pcs = Enqueued
           /\ xHc'.halted = IF xRing[r].trb[xHc.deq[r]].type = "RESET_ENDPOINT"
                            THEN xHc.halted \ {xRing[r].trb[xHc.deq[r]].tag[3]} ELSE xHc.halted
           /\ xEvent' = [xEvent EXCEPT !.slot[xHc.enq] = PostedEvent(r, "SUCCESS")]
           /\ Interrupts
<1> DEFINE t == xRing[r].trb[xHc.deq[r]]
           h == IF t.type = "RESET_ENDPOINT" THEN xHc.halted \ {t.tag[3]} ELSE xHc.halted
<1>1. t.type # "LINK" /\ Consumable(r)
  BY DEF Reports, HcConsume
<1>2. /\ NextEnq # xEvent.erdp
      /\ xEvent' = [xEvent EXCEPT !.slot[xHc.enq] = PostedEvent(r, "SUCCESS")]
      /\ xHc' = [xHc EXCEPT !.deq[r] = @ + 1, !.enq = NextEnq, !.pcs = Enqueued, !.halted = h]
      /\ xThread' = [xThread EXCEPT !.msi = TRUE]
  BY Zenon, <1>1 DEF HcConsume, XTypes, HcSet
<1>3. xHc.deq[r] \in Pos /\ xHc.deq[r] + 1 \in 0..MaxTrIndex
  BY <1>1, EntryRead
<1>4. h \in SUBSET EndpointRings
  BY HcTypes
<1> HIDE DEF h, t
<1>5. [xHc.deq EXCEPT ![r] = xHc.deq[r] + 1] \in [Rings -> 0..MaxTrIndex]
  BY <1>3, HcTypes
<1>6. /\ xHc' \in HcSet /\ xHc'.deq = [xHc.deq EXCEPT ![r] = xHc.deq[r] + 1] /\ xHc'.ccs = xHc.ccs
      /\ xHc'.enq = NextEnq /\ xHc'.pcs = Enqueued /\ xHc'.halted = h
  BY Zenon, <1>2, <1>4, <1>5, HcTypes DEF XTypes, HcSet
<1>7. Interrupts
  BY Zenon, <1>2 DEF Interrupts, XTypes, ThreadSet
<1> QED BY <1>2, <1>3, <1>6, <1>7, HcTypes DEF ReadsOn, h, t

LEMMA StageRead ==
    ASSUME XTypes, Producers, NEW r \in Rings, HcConsume(r), xRing[r].trb[xHc.deq[r]].type # "LINK",
           ~Reports(xRing[r].trb[xHc.deq[r]].type)
    PROVE  /\ xHc.deq[r] \in Pos
           /\ ReadsOn(r, xHc.deq[r] + 1, xHc.ccs[r])
           /\ xHc'.halted = xHc.halted /\ xHc'.enq = xHc.enq /\ xHc'.pcs = xHc.pcs
           /\ UNCHANGED <<xEvent, xThread>>
<1>1. /\ xHc' = [xHc EXCEPT !.deq[r] = @ + 1] /\ UNCHANGED <<xEvent, xThread>> /\ Consumable(r)
  BY DEF HcConsume
<1>3. xHc.deq[r] \in Pos /\ xHc.deq[r] + 1 \in 0..MaxTrIndex
  BY <1>1, EntryRead
<1>5. [xHc.deq EXCEPT ![r] = xHc.deq[r] + 1] \in [Rings -> 0..MaxTrIndex]
  BY <1>3, HcTypes
<1>6. /\ xHc' \in HcSet /\ xHc'.deq = [xHc.deq EXCEPT ![r] = xHc.deq[r] + 1] /\ xHc'.ccs = xHc.ccs
      /\ xHc'.halted = xHc.halted /\ xHc'.enq = xHc.enq /\ xHc'.pcs = xHc.pcs
  BY Zenon, <1>1, <1>5 DEF XTypes, HcSet
<1> QED BY <1>1, <1>3, <1>6, HcTypes DEF ReadsOn

LEMMA FailRead ==
    ASSUME XTypes, Producers, NEW r \in Rings, NEW code \in {"STALL", "TRANSACTION"}, HcFail(r, code)
    PROVE  /\ r \in EndpointRings /\ r \notin xHc.halted /\ xHc.deq[r] \in Pos /\ NextEnq # xEvent.erdp
           /\ Consumable(r) /\ xRing[r].trb[xHc.deq[r]].type \in {"SETUP", "DATA"}
           /\ ReadsOn(r, xHc.deq[r], xHc.ccs[r])
           /\ xHc'.enq = NextEnq /\ xHc'.pcs = Enqueued /\ xHc'.halted = xHc.halted \cup {r}
           /\ xEvent' = [xEvent EXCEPT !.slot[xHc.enq] = PostedEvent(r, code)]
           /\ Interrupts
<1>1. r \in EndpointRings /\ r \notin xHc.halted
  BY DEF HcFail, Rings
<1>2. /\ NextEnq # xEvent.erdp /\ Consumable(r) /\ xRing[r].trb[xHc.deq[r]].type \in {"SETUP", "DATA"}
      /\ xEvent' = [xEvent EXCEPT !.slot[xHc.enq] = PostedEvent(r, code)]
      /\ xHc' = [xHc EXCEPT !.enq = NextEnq, !.pcs = Enqueued, !.halted = @ \cup {r}]
      /\ xThread' = [xThread EXCEPT !.msi = TRUE]
  BY DEF HcFail
<1>3. xHc.deq[r] \in Pos
  BY <1>2, EntryRead
<1>4. xHc.halted \cup {r} \in SUBSET EndpointRings
  BY <1>1, HcTypes
<1>6. /\ xHc' \in HcSet /\ xHc'.deq = xHc.deq /\ xHc'.ccs = xHc.ccs
      /\ xHc'.enq = NextEnq /\ xHc'.pcs = Enqueued /\ xHc'.halted = xHc.halted \cup {r}
  BY Zenon, <1>2, <1>4, HcTypes DEF XTypes, HcSet
<1>7. Interrupts
  BY Zenon, <1>2 DEF Interrupts, XTypes, ThreadSet
<1> QED BY <1>1, <1>2, <1>3, <1>6, <1>7 DEF ReadsOn

\* The event in hand.
LEMMA InHand ==
    ASSUME XTypes, EventRingOK, Handling
    PROVE  /\ xThread.at \in EventSlots /\ Live(xThread.at) /\ Event = xEvent.slot[xThread.at]
           /\ Event \in EventSet /\ Event.ring \in Rings /\ Event.ptr \in Pos /\ Event.tag \in Tags
           /\ Event.code \in {"SUCCESS", "STALL", "TRANSACTION"}
           /\ Event.kind \in {"command", "transfer"}
           /\ Event.kind = "command" <=> Event.ring = CommandRing
           /\ Event.kind = "transfer" => Event.ring \in EndpointRings
<1>1. xThread.at \in EventSlots /\ Live(xThread.at)
  BY EventTypes DEF Live
<1>2. Event \in EventSet /\ (Event.kind = "command" <=> Event.ring = CommandRing)
  BY <1>1 DEF EventRingOK, Event
<1>3. /\ Event.ring \in Rings /\ Event.ptr \in Pos /\ Event.tag \in Tags
      /\ Event.code \in {"SUCCESS", "STALL", "TRANSACTION"} /\ Event.kind \in {"command", "transfer"}
  BY <1>2 DEF EventSet
<1>4. Event.kind = "transfer" => Event.ring \in EndpointRings
  BY <1>2, <1>3 DEF Rings
<1> QED BY <1>1, <1>2, <1>3, <1>4 DEF Event

\* The thread is elsewhere with the same event.
ThreadGoes(pc, torn) ==
    /\ xThread' \in ThreadSet /\ xThread'.pc = pc /\ xThread'.at = xThread.at /\ xThread'.torn = torn

LEMMA HandleCommandFacts ==
    ASSUME XTypes, EventRingOK, BlocksOK, HandleCommand
    PROVE  /\ Handling /\ xThread.pc = "handle" /\ Event.kind = "command"
           /\ \/ /\ FindCrb(Event.ptr) = {} /\ xPanic' = "todo command"
                 /\ UNCHANGED <<xRing, xCrb, xEvent, xHc, xThread, xLock, xClient>>
              \/ /\ UNCHANGED <<xRing, xEvent, xHc, xLock, xClient, xPanic>>
                 /\ ThreadGoes("dequeue", xThread.torn)
                 /\ \E b \in 1..CrbCount :
                      /\ xCrb[b].state = "Scheduled" /\ xCrb[b].at = Event.ptr
                      /\ Reblocks(b, [xCrb[b] EXCEPT !.response = Event.tag, !.state = "Completed",
                                                     !.signal = 1])
<1>1. Handling
  BY Zenon DEF HandleCommand, Handling
<1>2. CASE FindCrb(Event.ptr) = {}
  BY Zenon, <1>1, <1>2 DEF HandleCommand
<1>3. CASE FindCrb(Event.ptr) # {}
  <2>1. PICK b \in FindCrb(Event.ptr) :
          /\ xCrb' = [xCrb EXCEPT ![b].response = Event.tag, ![b].state = "Completed", ![b].signal = @ + 1]
          /\ xThread' = [xThread EXCEPT !.pc = "dequeue"]
          /\ UNCHANGED xPanic
    BY Zenon, <1>3 DEF HandleCommand
  <2>2. b \in 1..CrbCount /\ xCrb[b].state = "Scheduled" /\ xCrb[b].at = Event.ptr
    BY DEF FindCrb
  <2>3. xCrb[b] \in CrbSet /\ xCrb[b].signal = 0
    BY Zenon, <2>2 DEF XTypes, BlocksOK
  <2>4. xCrb[b].signal + 1 = 1
    BY <2>3
  <2> DEFINE w == [xCrb[b] EXCEPT !.response = Event.tag, !.state = "Completed", !.signal = 1]
  <2>5. xCrb' = [xCrb EXCEPT ![b] = w]
    <3>1. [xCrb[b] EXCEPT !.response = Event.tag, !.state = "Completed"].signal = xCrb[b].signal
      BY <2>3 DEF CrbSet
    <3> QED BY Zenon, <2>1, <2>2, <2>4, <3>1 DEF XTypes
  <2>6. w \in CrbSet
    BY <2>3, <1>1, InHand DEF CrbSet
  <2>7. Reblocks(b, w)
    BY <2>2, <2>5, <2>6, BlockWritten
  <2>8. ThreadGoes("dequeue", xThread.torn)
    BY Zenon, <2>1 DEF ThreadGoes, XTypes, ThreadSet
  <2>9. UNCHANGED <<xRing, xEvent, xHc, xLock, xClient, xPanic>>
    BY Zenon, <2>1 DEF HandleCommand
  <2> QED BY Zenon, <1>1, <2>2, <2>7, <2>8, <2>9 DEF HandleCommand
<1> QED BY Zenon, <1>2, <1>3

\* Patched entries keep their cycle bits.
LEMMA Patched ==
    ASSUME NEW trb \in [0..MaxTrIndex -> TrbSet], NEW i \in Pos
    PROVE  /\ Patch(trb, i) \in [0..MaxTrIndex -> TrbSet]
           /\ \A k \in 0..MaxTrIndex :
                /\ Patch(trb, i)[k].cycle = trb[k].cycle
                /\ k \in FailedStages(trb, i) => Patch(trb, i)[k].type = "NOP"
                /\ k \notin FailedStages(trb, i) => Patch(trb, i)[k] = trb[k]
                /\ k \in FailedStages(trb, i) => trb[k].type \in {"SETUP", "DATA", "STATUS"}
<1>1. \A k \in 0..MaxTrIndex :
        /\ TrbNop(trb[k]) \in TrbSet /\ TrbNop(trb[k]).cycle = trb[k].cycle /\ TrbNop(trb[k]).type = "NOP"
  BY DEF TrbNop, Trb, TrbSet, TrbTypes, Tags
<1>2. Patch(trb, i) = [k \in 0..MaxTrIndex |->
        IF k \in FailedStages(trb, i) THEN TrbNop(trb[k]) ELSE trb[k]]
  BY DEF Patch
<1>3. \A k \in FailedStages(trb, i) : trb[k].type \in {"SETUP", "DATA", "STATUS"}
  BY DEF FailedStages
<1> QED BY <1>1, <1>2, <1>3

LEMMA HandleFailureFacts ==
    ASSUME XTypes, EventRingOK, HandleFailure
    PROVE  /\ Handling /\ xThread.pc = "handle" /\ Event.kind = "transfer"
           /\ xRing[Event.ring].trb[Event.ptr].type \notin {"NORMAL", "STATUS"}
           /\ \/ /\ FailedStages(xRing[Event.ring].trb, Event.ptr) = {} /\ xPanic' = "todo stages"
                 /\ UNCHANGED <<xRing, xCrb, xEvent, xHc, xThread, xLock, xClient>>
              \/ /\ UNCHANGED <<xCrb, xEvent, xHc, xLock, xClient, xPanic>>
                 /\ FailedStages(xRing[Event.ring].trb, Event.ptr) # {}
                 /\ ThreadGoes("respond", IF \E c \in XClients : Writing(c, Event.ring)
                                          THEN xThread.torn \cup {Event.ring} ELSE xThread.torn)
                 /\ Rewrites(Event.ring, [xRing[Event.ring] EXCEPT
                                            !.trb = Patch(xRing[Event.ring].trb, Event.ptr)])
<1> DEFINE r == Event.ring
           torn == IF \E c \in XClients : Writing(c, r) THEN xThread.torn \cup {r} ELSE xThread.torn
<1>1. Handling /\ xThread.pc = "handle" /\ Event.kind = "transfer"
      /\ xRing[Event.ring].trb[Event.ptr].type \notin {"NORMAL", "STATUS"}
  BY Zenon DEF HandleFailure, Handling
<1>2. CASE FailedStages(xRing[r].trb, Event.ptr) = {}
  BY Zenon, <1>1, <1>2 DEF HandleFailure
<1>3. CASE FailedStages(xRing[r].trb, Event.ptr) # {}
  <2>1. /\ xRing' = [xRing EXCEPT ![r].trb = Patch(@, Event.ptr)]
        /\ xThread' = [xThread EXCEPT !.pc = "respond",
             !.torn = IF \E c \in XClients : Writing(c, Event.ring)
                            THEN @ \cup {Event.ring} ELSE @]
        /\ UNCHANGED <<xCrb, xEvent, xHc, xLock, xClient, xPanic>>
    BY Zenon, <1>3 DEF HandleFailure
  <2>2. r \in EndpointRings /\ r \in Rings /\ Event.ptr \in Pos
    BY <1>1, InHand
  <2>3. xRing[r] \in RingSet /\ xRing[r].trb \in [0..MaxTrIndex -> TrbSet]
    BY <2>2, RingTypes
  <2>4. Patch(xRing[r].trb, Event.ptr) \in [0..MaxTrIndex -> TrbSet]
    BY <2>2, <2>3, Patched
  <2>5. torn \in SUBSET EndpointRings
    BY <2>2, HcTypes
  <2>6. xThread' = [xThread EXCEPT !.pc = "respond", !.torn = torn]
    BY Zenon, <2>1 DEF XTypes, ThreadSet
  <2> HIDE DEF r, torn
  <2>7. ThreadGoes("respond", torn)
    BY Zenon, <2>5, <2>6 DEF ThreadGoes, XTypes, ThreadSet
  <2>8. xRing' = [xRing EXCEPT ![r] = [xRing[r] EXCEPT !.trb = Patch(xRing[r].trb, Event.ptr)]]
    BY Zenon, <2>1, <2>2 DEF XTypes
  <2>9. [xRing[r] EXCEPT !.trb = Patch(xRing[r].trb, Event.ptr)] \in RingSet
    BY <2>3, <2>4 DEF RingSet
  <2>10. Rewrites(r, [xRing[r] EXCEPT !.trb = Patch(xRing[r].trb, Event.ptr)])
    BY <2>2, <2>8, <2>9, RingWritten
  <2> QED BY Zenon, <1>1, <1>3, <2>1, <2>7, <2>10 DEF r, torn
<1> QED BY Zenon, <1>2, <1>3

LEMMA HandleTransferFacts ==
    ASSUME XTypes, EventRingOK, RespondOK, PermitsOK, HandleTransfer
    PROVE  /\ Handling /\ Event.kind = "transfer" /\ Event.ring \in EndpointRings
           /\ xThread.pc = "handle" => xRing[Event.ring].trb[Event.ptr].type \in {"NORMAL", "STATUS"}
           /\ ThreadGoes("dequeue", xThread.torn)
           /\ UNCHANGED <<xCrb, xEvent, xHc, xLock, xClient, xPanic>>
           /\ \/ xRing[Event.ring].state # "Scheduled" /\ xRing' = xRing
              \/ /\ xRing[Event.ring].state = "Scheduled"
                 /\ Rewrites(Event.ring, [xRing[Event.ring] EXCEPT !.state = "Completed",
                               !.response = Event.tag, !.code = Event.code, !.signal = 1])
<1> DEFINE r == Event.ring
<1>1. Handling /\ Event.kind = "transfer"
      /\ (xThread.pc = "handle" => xRing[Event.ring].trb[Event.ptr].type \in {"NORMAL", "STATUS"})
  BY DEF HandleTransfer, Handling, RespondOK
<1>2. r \in EndpointRings /\ r \in Rings
  BY <1>1, InHand
<1>3. ThreadGoes("dequeue", xThread.torn)
  BY Zenon DEF HandleTransfer, ThreadGoes, XTypes, ThreadSet
<1>4. UNCHANGED <<xCrb, xEvent, xHc, xLock, xClient, xPanic>>
  BY DEF HandleTransfer
<1>5. CASE xRing[r].state # "Scheduled"
  BY <1>1, <1>2, <1>3, <1>4, <1>5 DEF HandleTransfer
<1>6. CASE xRing[r].state = "Scheduled"
  <2>1. xRing' = [xRing EXCEPT ![r].state = "Completed", ![r].response = Event.tag,
                                   ![r].code = Event.code, ![r].signal = @ + 1]
    BY <1>6 DEF HandleTransfer
  <2>2. xRing[r] \in RingSet /\ xRing[r].signal \in {0, 1}
    BY <1>2, RingTypes
  <2>3. xRing[r].signal = 0
    BY <1>2, <1>6, <2>2 DEF PermitsOK, PermitOK
  <2>4. xRing[r].signal + 1 = 1
    BY <2>3
  <2>5. Event.tag \in Tags /\ Event.code \in {"none", "SUCCESS", "STALL", "TRANSACTION"}
    BY <1>1, InHand
  <2> HIDE DEF r
  <2>6. [xRing[r] EXCEPT !.state = "Completed", !.response = Event.tag, !.code = Event.code].signal = xRing[r].signal
    BY <2>2, <2>5 DEF RingSet
  <2> DEFINE w == [xRing[r] EXCEPT !.state = "Completed", !.response = Event.tag, !.code = Event.code, !.signal = 1]
  <2>7. xRing' = [xRing EXCEPT ![r] = w]
    BY Zenon, <2>1, <2>4, <2>6, <1>2 DEF XTypes
  <2>8. w \in RingSet
    BY <2>2, <2>5 DEF RingSet
  <2>9. Rewrites(r, w)
    BY <1>2, <2>7, <2>8, RingWritten
  <2> QED BY <1>1, <1>2, <1>3, <1>4, <1>6, <2>9 DEF r
<1> QED BY <1>5, <1>6

\* The parts of a client step that the types see.
LEMMA TypesOfMove ==
    ASSUME XTypes, NEW c \in XClients, NEW pc, NEW n, NEW todo, NEW crb, NEW got,
           Moves(c, pc, n, todo, crb, got), UNCHANGED <<xEvent, xThread>>,
           xHc' \in HcSet, xLock' \in XClients \cup {Nobody},
           xRing' \in [Rings -> RingSet], xCrb' \in [1..CrbCount -> CrbSet], xPanic' = xPanic
    PROVE  XTypes'
BY Zenon DEF XTypes, Moves

LEMMA XTypesKept ==
    ASSUME XInv, XNext
    PROVE  XTypes'
<1>a. XTypes /\ EventRingOK /\ RespondOK /\ PermitsOK /\ BlocksOK /\ Producers
  BY DEF XInv
<1>b. /\ xRing \in [Rings -> RingSet] /\ xCrb \in [1..CrbCount -> CrbSet] /\ xHc \in HcSet
      /\ xLock \in XClients \cup {Nobody}
  BY Zenon, <1>a DEF XTypes
<1>1. ASSUME NEW c \in XClients, XClientStep(c) PROVE XTypes'
  <2>0. ClientOK(c)
    BY DEF XInv, ClientsOK
  <2>1. CASE AllocateCrb(c)
    BY <2>1, <1>a, <1>b, AllocateFacts, TypesOfMove DEF AllocateCrb
  <2>2. CASE NoCrb(c)
    BY Zenon, <2>2, <1>a DEF NoCrb, XTypes
  <2>3. CASE IssueCommand(c)
    <3>1. xRing' \in [Rings -> RingSet] /\ xCrb' \in [1..CrbCount -> CrbSet]
      BY Zenon, <2>0, <2>3, <1>a, IssueCommandFacts DEF Rewrites, Reblocks
    <3>2. UNCHANGED <<xEvent, xHc, xThread, xLock, xPanic>>
      BY <2>3 DEF IssueCommand
    <3>3. Moves(c, IF xClient[c].pc \in ResetPcs THEN "resetBell" ELSE "cmdBell",
                    xClient[c].n, xClient[c].todo, xClient[c].crb, xClient[c].got)
      BY Zenon, <2>0, <2>3, <1>a, IssueCommandFacts
    <3> QED BY <3>1, <3>2, <3>3, <1>a, <1>b, TypesOfMove
  <2>4. CASE RingCommandDoorbell(c)
    <3>1. xHc' \in HcSet
      BY <2>4, <1>b DEF RingCommandDoorbell, HcSet, Rings
    <3>2. UNCHANGED <<xEvent, xThread, xRing, xCrb, xLock, xPanic>>
      BY <2>4 DEF RingCommandDoorbell
    <3>3. (IF xClient[c].pc = "cmdBell" THEN "cmdWait" ELSE "resetWait")
             \in {"idle", "scopeWait", "reset"} \cup CmdPcs \cup ResetPcs \cup ActivePcs
      BY DEF CmdPcs, ResetPcs
    <3>4. xClient' = [xClient EXCEPT ![c].pc = IF xClient[c].pc = "cmdBell" THEN "cmdWait" ELSE "resetWait"]
      BY <2>4 DEF RingCommandDoorbell, Step
    <3>5. Moves(c, IF xClient[c].pc = "cmdBell" THEN "cmdWait" ELSE "resetWait",
                xClient[c].n, xClient[c].todo, xClient[c].crb, xClient[c].got)
      BY <3>3, <3>4, <1>a, Stepping
    <3> QED BY <3>1, <3>2, <3>5, <1>a, <1>b, TypesOfMove
  <2>5. CASE FinishCommand(c)
    <3>1. UNCHANGED <<xEvent, xHc, xThread, xLock, xPanic>>
      BY <2>5 DEF FinishCommand
    <3>2. xCrb' \in [1..CrbCount -> CrbSet]
      BY Zenon, <2>0, <2>5, <1>a, FinishCommandFacts DEF Reblocks
    <3>3. xRing' \in [Rings -> RingSet] /\ xClient' \in [XClients -> ClientSet]
      BY Zenon, <2>0, <2>5, <1>a, <1>b, FinishCommandFacts DEF Rewrites, Moves
    <3> QED BY Zenon, <3>1, <3>2, <3>3, <1>a DEF XTypes
  <2>6. CASE Scope(c) \/ ScopeGranted(c)
    <3>1. UNCHANGED <<xCrb, xEvent, xHc, xThread, xPanic>> /\ xLock' \in XClients \cup {Nobody}
      BY <2>6, <1>b DEF Scope, ScopeGranted
    <3>2. xRing' \in [Rings -> RingSet] /\ xClient' \in [XClients -> ClientSet]
      BY Zenon, <2>0, <2>6, <1>a, ScopeFacts DEF Rewrites, Moves
    <3> QED BY Zenon, <3>1, <3>2, <1>a DEF XTypes
  <2>7. CASE ScopeWait(c)
    <3>1. xClient' = [xClient EXCEPT ![c].pc = "scopeWait"] /\ xLock' = c
          /\ UNCHANGED <<xRing, xCrb, xEvent, xHc, xThread, xPanic>>
      BY <2>7 DEF ScopeWait, Step
    <3>2. xClient' \in [XClients -> ClientSet]
      BY <3>1, <1>a, Stepping DEF Moves
    <3> QED BY Zenon, <3>1, <3>2, <1>a DEF XTypes
  <2>8. CASE IssueStage(c)
    <3>1. UNCHANGED <<xCrb, xEvent, xHc, xThread, xLock, xPanic>>
      BY <2>8 DEF IssueStage
    <3>2. xRing' \in [Rings -> RingSet] /\ xClient' \in [XClients -> ClientSet]
      BY <2>0, <2>8, <1>a, IssueStageFacts DEF Rewrites, Moves
    <3> QED BY Zenon, <3>1, <3>2, <1>a DEF XTypes
  <2>9. CASE RingDoorbell(c)
    <3>1. xClient' = [xClient EXCEPT ![c].pc = "wait"] /\ UNCHANGED <<xRing, xCrb, xEvent, xThread, xLock, xPanic>>
          /\ xHc' = [xHc EXCEPT !.bells = @ \cup {Request(c).ring}] /\ xClient[c].pc = "bell"
      BY <2>9 DEF RingDoorbell, Step
    <3>2. xClient' \in [XClients -> ClientSet]
      BY <3>1, <1>a, Stepping DEF Moves, ActivePcs
    <3>3. Request(c).ring \in Rings
      BY <3>1, <2>0, <1>a, RequestTypes DEF ClientOK, Rings, ActivePcs
    <3>4. xHc' \in HcSet
      BY <3>1, <3>3, <1>b DEF HcSet
    <3> QED BY Zenon, <3>1, <3>2, <3>4, <1>a DEF XTypes
  <2>10. CASE FinishTransfer(c)
    <3>1. UNCHANGED <<xCrb, xEvent, xHc, xThread, xLock>>
      BY <2>10 DEF FinishTransfer
    <3>2. xRing' \in [Rings -> RingSet] /\ xClient' \in [XClients -> ClientSet] /\ xPanic' = xPanic
      BY Zenon, <2>0, <2>10, <1>a, FinishTransferFacts DEF Rewrites, Moves
    <3> QED BY Zenon, <3>1, <3>2, <1>a DEF XTypes
  <2> QED BY <1>1, <2>1, <2>2, <2>3, <2>4, <2>5, <2>6, <2>7, <2>8, <2>9, <2>10 DEF XClientStep
<1>2. ASSUME NEW b \in 1..CrbCount, ReuseDelayEnds(b) PROVE XTypes'
  BY ZenonT(60), <1>2, <1>a DEF ReuseDelayEnds, XTypes, CrbSet
<1>3. ASSUME NEW r \in Rings, HcConsume(r) PROVE XTypes'
  <2>1. UNCHANGED <<xRing, xCrb, xLock, xClient, xPanic>>
    BY <1>3 DEF HcConsume
  <2>2. CASE xRing[r].trb[xHc.deq[r]].type = "LINK"
    BY Zenon, <2>1, <2>2, <1>3, <1>a, LinkRead DEF ReadsOn, XTypes
  <2>3. CASE xRing[r].trb[xHc.deq[r]].type # "LINK" /\ ~Reports(xRing[r].trb[xHc.deq[r]].type)
    BY Zenon, <2>1, <2>3, <1>3, <1>a, StageRead DEF ReadsOn, XTypes
  <2>4. CASE Reports(xRing[r].trb[xHc.deq[r]].type)
    <3>1. /\ xHc' \in HcSet /\ xThread' \in ThreadSet /\ xHc.deq[r] \in Pos
          /\ xEvent' = [xEvent EXCEPT !.slot[xHc.enq] = PostedEvent(r, "SUCCESS")]
      BY <2>4, <1>3, <1>a, ReportRead DEF ReadsOn, Interrupts
    <3>2. PostedEvent(r, "SUCCESS") \in EventSet
      BY <3>1, <1>a, PostedTyped
    <3> QED BY Zenon, <2>1, <3>1, <3>2, <1>a DEF XTypes
  <2> QED BY <2>2, <2>3, <2>4
<1>4. ASSUME NEW r \in Rings, HcStop(r) PROVE XTypes'
  BY Zenon, <1>4, <1>a DEF HcStop, XTypes, HcSet
<1>5. ASSUME NEW r \in Rings, NEW code \in {"STALL", "TRANSACTION"}, HcFail(r, code) PROVE XTypes'
  <2>1. UNCHANGED <<xRing, xCrb, xLock, xClient, xPanic>>
    BY <1>5 DEF HcFail
  <2>2. /\ xHc' \in HcSet /\ xThread' \in ThreadSet /\ xHc.deq[r] \in Pos
        /\ xEvent' = [xEvent EXCEPT !.slot[xHc.enq] = PostedEvent(r, code)]
    BY <1>5, <1>a, FailRead DEF ReadsOn, Interrupts
  <2>3. PostedEvent(r, code) \in EventSet
    BY <2>2, <1>a, PostedTyped
  <2> QED BY Zenon, <2>1, <2>2, <2>3, <1>a DEF XTypes
<1>6. CASE MsiHandler
  <2>0. xThread.sem \in Nat
    BY <1>a, HcTypes
  <2>a. xThread \in ThreadSet
    BY Zenon, <1>a DEF XTypes
  <2>1. xThread.sem + 1 \in Nat /\ xThread \in ThreadSet
    BY <2>0, <2>a
  <2>2. xThread' = [xThread EXCEPT !.msi = FALSE, !.sem = xThread.sem + 1]
    BY <1>6 DEF MsiHandler, XTypes, ThreadSet
  <2>3. xThread' \in ThreadSet
    BY <2>1, <2>2 DEF ThreadSet
  <2> QED BY Zenon, <1>6, <1>a, <2>3 DEF MsiHandler, XTypes
<1>7. CASE EventThreadWakes
  <2>0. xThread.sem \in Nat /\ xThread.sem > 0
    BY <1>7, <1>a, HcTypes DEF EventThreadWakes
  <2>a. xThread \in ThreadSet
    BY Zenon, <1>a DEF XTypes
  <2>1. xThread.sem - 1 \in Nat /\ xThread \in ThreadSet
    BY <2>0, <2>a
  <2>2. xThread' = [xThread EXCEPT !.pc = "dequeue", !.sem = xThread.sem - 1]
    BY Zenon, <1>7, <1>a DEF EventThreadWakes, XTypes, ThreadSet
  <2>3. xThread' \in ThreadSet
    BY <2>1, <2>2 DEF ThreadSet
  <2> QED BY Zenon, <1>7, <1>a, <2>3 DEF EventThreadWakes, XTypes
<1>8. CASE DequeueEvent
  <2>1. (xEvent.erdp + 1) % EventRingSize \in EventSlots
    BY SMTT(60), <1>a, EventTypes, NextSlot, Sizes DEF EventSlots
  <2>2. xEvent' \in [slot : [EventSlots -> {NoEvent} \cup EventSet], erdp : EventSlots, cycle : {0, 1}]
    <3>1. xEvent' = xEvent \/ xEvent' = [xEvent EXCEPT !.erdp = (xEvent.erdp + 1) % EventRingSize,
                              !.cycle = IF (xEvent.erdp + 1) % EventRingSize = 0 THEN 1 - @ ELSE @]
      BY <1>8 DEF DequeueEvent
    <3>2. (IF (xEvent.erdp + 1) % EventRingSize = 0 THEN 1 - xEvent.cycle ELSE xEvent.cycle) \in {0, 1}
      BY <1>a, EventTypes
    <3> QED BY Zenon, <2>1, <3>1, <3>2, <1>a DEF XTypes
  <2>3. xThread' \in ThreadSet
    BY Zenon, <1>8, <1>a DEF DequeueEvent, XTypes, ThreadSet
  <2> QED BY Zenon, <2>2, <2>3, <1>8, <1>a DEF DequeueEvent, XTypes
<1>9. CASE HandleCommand
  BY Zenon, <1>9, <1>a, HandleCommandFacts DEF XTypes, Reblocks, ThreadGoes
<1>10. CASE HandleFailure
  BY Zenon, <1>10, <1>a, HandleFailureFacts DEF XTypes, Rewrites, ThreadGoes
<1>11. CASE HandleTransfer
  BY Zenon, <1>11, <1>a, HandleTransferFacts DEF XTypes, Rewrites, ThreadGoes
<1> QED BY <1>1, <1>2, <1>3, <1>4, <1>5, <1>6, <1>7, <1>8, <1>9, <1>10, <1>11 DEF XNext, EventThread

-----------------------------------------------------------------------------
(* The producers *)

\* What is written in a ring stays.
Rests(r) == xRing'[r].trb = xRing[r].trb /\ xRing'[r].index = xRing[r].index /\ xRing'[r].pcs = xRing[r].pcs

LEMMA RewriteRests ==
    ASSUME NEW r, NEW v, Rewrites(r, v), v.trb = xRing[r].trb, v.index = xRing[r].index, v.pcs = xRing[r].pcs
    PROVE  \A q \in Rings : Rests(q)
BY DEF Rewrites, Rests

\* The fields of a ring that transfers use.
LEMMA OtherFields ==
    ASSUME NEW v \in RingSet
    PROVE  /\ [v EXCEPT !.scope = 1].trb = v.trb /\ [v EXCEPT !.scope = 1].index = v.index
           /\ [v EXCEPT !.scope = 1].pcs = v.pcs
           /\ [v EXCEPT !.scope = 0, !.state = "Scheduled"].trb = v.trb
           /\ [v EXCEPT !.scope = 0, !.state = "Scheduled"].index = v.index
           /\ [v EXCEPT !.scope = 0, !.state = "Scheduled"].pcs = v.pcs
           /\ [v EXCEPT !.signal = 0].trb = v.trb /\ [v EXCEPT !.signal = 0].index = v.index
           /\ [v EXCEPT !.signal = 0].pcs = v.pcs
           /\ [v EXCEPT !.signal = 0, !.scope = 1].trb = v.trb
           /\ [v EXCEPT !.signal = 0, !.scope = 1].index = v.index
           /\ [v EXCEPT !.signal = 0, !.scope = 1].pcs = v.pcs
BY DEF RingSet

LEMMA ProducersRest ==
    ASSUME Producers, \A r \in Rings : Rests(r) /\ xHc'.ccs[r] = xHc.ccs[r]
    PROVE  Producers'
BY DEF Producers, Produced, Rests

LEMMA ProducerIssues ==
    ASSUME XTypes, Producers, NEW r \in Rings, NEW type \in TypesOf(r), NEW tag \in Tags,
           Rewrites(r, IssueTrb(xRing[r], type, tag)), xHc' = xHc
    PROVE  Producers'
<1> DEFINE q == IssueTrb(xRing[r], type, tag)
           at == IssuedAt(xRing[r])
<1>1. xRing[r] \in RingSet /\ type \in TrbTypes \ {"LINK"} /\ Produced(xRing[r])
  BY RingTypes DEF Producers, TypesOf, TrbTypes, StageTypes
<1>2. Produced(q)
  BY <1>1, IssuedProduced
<1>3. /\ at \in Pos /\ q.trb[at] = Trb(type, q.pcs, tag)
      /\ \A i \in Pos : i # at => q.trb[i] = xRing[r].trb[i]
      /\ q.trb[MaxTrIndex] = IF xRing[r].index = MaxTrIndex THEN TrbLink(xRing[r].pcs)
                             ELSE xRing[r].trb[MaxTrIndex]
  BY <1>1, Issued
<1> HIDE DEF q, at
<1>4. \A i \in Pos : q.trb[i].type \in {"RESERVED", "NOP"} \cup TypesOf(r)
  BY <1>3 DEF Producers, Trb
<1>5. q.trb[MaxTrIndex].type = "RESERVED" => xHc.ccs[r] = 1
  BY <1>3 DEF Producers, TrbLink, Trb
<1>6. xRing'[r] = q /\ \A p \in Rings : p # r => xRing'[p] = xRing[p]
  BY DEF Rewrites, q
<1> QED BY <1>2, <1>4, <1>5, <1>6 DEF Producers

LEMMA ProducersKept ==
    ASSUME XInv, XNext
    PROVE  Producers'
<1>a. XTypes /\ EventRingOK /\ RespondOK /\ PermitsOK /\ BlocksOK /\ Producers
  BY DEF XInv
<1>b. \A r \in Rings : xRing[r] \in RingSet
  BY Zenon, <1>a DEF XTypes
<1>c. ASSUME xRing' = xRing, xHc'.ccs = xHc.ccs PROVE Producers'
  BY <1>c, <1>a, ProducersRest DEF Rests
<1>1. ASSUME NEW c \in XClients, XClientStep(c) PROVE Producers'
  <2>0. ClientOK(c)
    BY DEF XInv, ClientsOK
  <2>1. CASE AllocateCrb(c) \/ NoCrb(c) \/ ScopeWait(c)
    BY <2>1, <1>c DEF AllocateCrb, NoCrb, ScopeWait
  <2>2. CASE RingCommandDoorbell(c) \/ RingDoorbell(c)
    <3>1. xRing' = xRing /\ xHc'.ccs = xHc.ccs
      BY Zenon, <2>2, <1>a DEF RingCommandDoorbell, RingDoorbell, XTypes, HcSet
    <3> QED BY <3>1, <1>c
  <2>3. CASE IssueCommand(c)
    <3>1. /\ Rewrites(CommandRing, IssueTrb(xRing[CommandRing], CmdType(c), CmdTag(c)))
          /\ OnCommand(c) /\ xHc' = xHc
      BY Zenon, <2>0, <2>3, <1>a, IssueCommandFacts DEF IssueCommand
    <3>2. CmdTag(c) \in Tags /\ CmdType(c) \in TypesOf(CommandRing) /\ CommandRing \in Rings
      BY <3>1, <2>0, <1>a, CommandTags DEF TypesOf, Rings
    <3> QED BY <3>1, <3>2, <1>a, ProducerIssues
  <2>4. CASE FinishCommand(c)
    <3>1. CASE xClient[c].pc = "cmdWait"
      BY Zenon, <3>1, <2>0, <2>4, <1>a, <1>c, FinishCommandFacts DEF FinishCommand
    <3>2. CASE xClient[c].pc = "resetWait"
      <4>1. /\ Request(c).ring \in EndpointRings /\ xHc' = xHc
            /\ Rewrites(Request(c).ring, [xRing[Request(c).ring] EXCEPT !.scope = 1])
        BY Zenon, <3>2, <2>0, <2>4, <1>a, FinishCommandFacts DEF FinishCommand
      <4>2. \A r \in Rings : Rests(r)
        BY <4>1, <1>b DEF Rewrites, Rests, RingSet, Rings
      <4> QED BY <4>1, <4>2, <1>a, ProducersRest
    <3> QED BY <3>1, <3>2, <2>4 DEF FinishCommand
  <2>5. CASE Scope(c) \/ ScopeGranted(c)
    <3>1. /\ Request(c).ring \in EndpointRings
          /\ Rewrites(Request(c).ring, [xRing[Request(c).ring] EXCEPT !.scope = 0, !.state = "Scheduled"])
      BY Zenon, <2>0, <2>5, <1>a, ScopeFacts
    <3>a. xRing[Request(c).ring] \in RingSet
      BY <3>1, <1>b DEF Rings
    <3>2. \A r \in Rings : Rests(r)
      BY <3>1, <3>a, RewriteRests, OtherFields
    <3>3. xHc' = xHc
      BY <2>5 DEF Scope, ScopeGranted
    <3> QED BY <3>2, <3>3, <1>a, ProducersRest
  <2>6. CASE IssueStage(c)
    <3>1. /\ Request(c).ring \in EndpointRings /\ xHc' = xHc
          /\ Head(xClient[c].todo) \in StageTypes /\ TagOf(c) \in Tags
          /\ Rewrites(Request(c).ring,
                       IssueTrb(xRing[Request(c).ring], Head(xClient[c].todo), TagOf(c)))
      BY <2>0, <2>6, <1>a, IssueStageFacts DEF IssueStage
    <3>2. Request(c).ring \in Rings /\ Head(xClient[c].todo) \in TypesOf(Request(c).ring)
      BY <3>1, XhciAssumption DEF Rings, TypesOf
    <3> QED BY <3>1, <3>2, <1>a, ProducerIssues
  <2>7. CASE FinishTransfer(c)
    <3>1. /\ Request(c).ring \in EndpointRings
          /\ \/ Rewrites(Request(c).ring, [xRing[Request(c).ring] EXCEPT !.signal = 0])
             \/ Rewrites(Request(c).ring, [xRing[Request(c).ring] EXCEPT !.signal = 0, !.scope = 1])
      BY Zenon, <2>0, <2>7, <1>a, FinishTransferFacts
    <3>a. xRing[Request(c).ring] \in RingSet
      BY <3>1, <1>b DEF Rings
    <3>2. \A r \in Rings : Rests(r)
      BY <3>1, <3>a, RewriteRests, OtherFields
    <3>3. xHc' = xHc
      BY <2>7 DEF FinishTransfer
    <3> QED BY <3>2, <3>3, <1>a, ProducersRest
  <2> QED BY <1>1, <2>1, <2>2, <2>3, <2>4, <2>5, <2>6, <2>7 DEF XClientStep
<1>2. ASSUME NEW b \in 1..CrbCount, ReuseDelayEnds(b) PROVE Producers'
  BY <1>2, <1>c DEF ReuseDelayEnds
<1>3. ASSUME NEW r \in Rings, HcConsume(r) PROVE Producers'
  <2>1. xRing' = xRing
    BY <1>3 DEF HcConsume
  <2>2. CASE xRing[r].trb[xHc.deq[r]].type = "LINK"
    <3>1. xHc.deq[r] = MaxTrIndex /\ ReadsOn(r, 0, 1 - xHc.ccs[r])
      BY <2>2, <1>3, <1>a, LinkRead
    <3> QED BY <2>1, <2>2, <3>1, <1>a DEF ReadsOn, Producers
  <2>3. CASE xRing[r].trb[xHc.deq[r]].type # "LINK"
    <3>1. ReadsOn(r, xHc.deq[r] + 1, xHc.ccs[r])
      BY <2>3, <1>3, <1>a, StageRead, ReportRead
    <3> QED BY <2>1, <3>1, <1>a DEF ReadsOn, Producers
  <2> QED BY <2>2, <2>3
<1>4. ASSUME NEW r \in Rings, HcStop(r) PROVE Producers'
  <2>1. xRing' = xRing /\ xHc'.ccs = xHc.ccs
    BY Zenon, <1>4, <1>a DEF HcStop, XTypes, HcSet
  <2> QED BY <2>1, <1>c
<1>5. ASSUME NEW r \in Rings, NEW code \in {"STALL", "TRANSACTION"}, HcFail(r, code) PROVE Producers'
  <2>1. xRing' = xRing /\ ReadsOn(r, xHc.deq[r], xHc.ccs[r])
    BY Zenon, <1>5, <1>a, FailRead DEF HcFail
  <2> QED BY <2>1, <1>a DEF ReadsOn, Producers
<1>6. CASE MsiHandler \/ EventThreadWakes \/ DequeueEvent
  BY <1>6, <1>c DEF MsiHandler, EventThreadWakes, DequeueEvent
<1>9. CASE HandleCommand
  BY Zenon, <1>9, <1>c DEF HandleCommand
<1>10. CASE HandleFailure
  <2>1. CASE xRing' = xRing
    BY Zenon, <2>1, <1>10, <1>c DEF HandleFailure
  <2>2. CASE xRing' # xRing
    <3> DEFINE r == Event.ring
               trb == xRing[r].trb
    <3>1. /\ r \in EndpointRings /\ r \in Rings /\ Event.ptr \in Pos /\ xHc' = xHc
          /\ Rewrites(r, [xRing[r] EXCEPT !.trb = Patch(trb, Event.ptr)])
      BY Zenon, <2>2, <1>10, <1>a, HandleFailureFacts, InHand
    <3>2. xRing'[r].trb = Patch(trb, Event.ptr) /\ xRing'[r].index = xRing[r].index /\ xRing'[r].pcs = xRing[r].pcs
          /\ (\A q \in Rings : q # r => xRing'[q] = xRing[q])
      BY <3>1, <1>b DEF Rewrites, RingSet
    <3>3. /\ trb \in [0..MaxTrIndex -> TrbSet] /\ MaxTrIndex \in 0..MaxTrIndex
          /\ \A i \in Pos : i \in 0..MaxTrIndex
      BY <3>1, <1>a, RingTypes, Sizes DEF Pos
    <3>4. \A k \in 0..MaxTrIndex :
                /\ Patch(trb, Event.ptr)[k].cycle = trb[k].cycle
                /\ Patch(trb, Event.ptr)[k].type = "NOP" \/ Patch(trb, Event.ptr)[k] = trb[k]
                /\ Patch(trb, Event.ptr)[k] # trb[k] => trb[k].type \in {"SETUP", "DATA", "STATUS"}
      BY <3>1, <3>3, Patched
    <3> HIDE DEF r
    <3>5. Patch(trb, Event.ptr)[MaxTrIndex] = trb[MaxTrIndex]
      BY <3>1, <3>3, <3>4, <1>a DEF Producers, Produced
    <3>6. Produced(xRing'[r])
      BY <3>1, <3>2, <3>3, <3>4, <3>5, <1>a DEF Producers, Produced
    <3>7. \A i \in Pos : xRing'[r].trb[i].type \in {"RESERVED", "NOP"} \cup TypesOf(r)
      BY <3>1, <3>2, <3>3, <3>4, <1>a DEF Producers
    <3> QED BY <3>1, <3>2, <3>5, <3>6, <3>7, <1>a DEF Producers
  <2> QED BY <2>1, <2>2
<1>11. CASE HandleTransfer
  <2>1. Event.ring \in EndpointRings /\ xHc' = xHc
    BY <1>11, <1>a, HandleTransferFacts
  <2>2. xRing' = xRing \/ Rewrites(Event.ring, [xRing[Event.ring] EXCEPT !.state = "Completed",
                               !.response = Event.tag, !.code = Event.code, !.signal = 1])
    BY <1>11, <1>a, HandleTransferFacts
  <2>a. xRing[Event.ring] \in RingSet
    BY <2>1, <1>b DEF Rings
  <2>b. CASE xRing' = xRing
    BY <2>b, <2>1, <1>a, ProducersRest DEF Rests
  <2>c. CASE xRing' # xRing
    <3> DEFINE w == [xRing[Event.ring] EXCEPT !.state = "Completed",
                               !.response = Event.tag, !.code = Event.code, !.signal = 1]
    <3>0. w.trb = xRing[Event.ring].trb /\ w.index = xRing[Event.ring].index /\ w.pcs = xRing[Event.ring].pcs
      BY <2>a DEF RingSet
    <3>9. Rewrites(Event.ring, w)
      BY <2>c, <2>2
    <3> HIDE DEF w
    <3>1. \A r \in Rings : Rests(r)
      BY <3>0, <3>9, RewriteRests
    <3> QED BY <2>1, <3>1, <1>a, ProducersRest
  <2> QED BY <2>b, <2>c
<1> QED BY <1>1, <1>2, <1>3, <1>4, <1>5, <1>6, <1>9, <1>10, <1>11 DEF XNext, EventThread

-----------------------------------------------------------------------------
(* The clients *)

\* What a client asks for and what it is doing, where only its place changes.
LEMMA OtherStays ==
    ASSUME NEW d \in XClients, xClient'[d] = xClient[d]
    PROVE  /\ Request(d)' = Request(d) /\ TagOf(d)' = TagOf(d) /\ (HasRequest(d)' <=> HasRequest(d))
           /\ (OnCommand(d)' <=> OnCommand(d)) /\ CmdTag(d)' = CmdTag(d) /\ CmdType(d)' = CmdType(d)
           /\ Written(d)' = Written(d) /\ \A r : (Holds(d, r)' <=> Holds(d, r))
BY DEF Request, TagOf, HasRequest, OnCommand, CmdTag, CmdType, Written, Holds

LEMMA SameRequest ==
    ASSUME NEW c \in XClients, xClient'[c].plan = xClient[c].plan, xClient'[c].n = xClient[c].n
    PROVE  Request(c)' = Request(c) /\ TagOf(c)' = TagOf(c) /\ (HasRequest(c)' <=> HasRequest(c))
BY DEF Request, TagOf, HasRequest

LEMMA LastStage ==
    ASSUME NEW s \in Seq(StageTypes), s # <<>>
    PROVE  Len(s) = 1 <=> Tail(s) = <<>>
<1>1. Tail(s) \in Seq(StageTypes) /\ Len(Tail(s)) = Len(s) - 1 /\ Len(s) \in Nat
  BY HeadTailProperties
<1>2. Tail(s) = <<>> <=> Len(Tail(s)) = 0
  BY <1>1, EmptySeq
<1> QED BY <1>1, <1>2

LEMMA DoorbellFacts ==
    ASSUME XTypes, NEW c \in XClients, RingCommandDoorbell(c)
    PROVE  /\ xClient[c].pc \in {"cmdBell", "resetBell"}
           /\ Moves(c, IF xClient[c].pc = "cmdBell" THEN "cmdWait" ELSE "resetWait",
                    xClient[c].n, xClient[c].todo, xClient[c].crb, xClient[c].got)
           /\ xHc' \in HcSet /\ xHc'.deq = xHc.deq /\ xHc'.ccs = xHc.ccs /\ xHc'.halted = xHc.halted
           /\ xHc'.enq = xHc.enq /\ xHc'.pcs = xHc.pcs
           /\ UNCHANGED <<xRing, xCrb, xEvent, xThread, xLock, xPanic>>
<1>1. xHc \in HcSet
  BY Zenon DEF XTypes
<1>2. xHc' = [xHc EXCEPT !.bells = @ \cup {CommandRing}]
  BY DEF RingCommandDoorbell
<1>3. (IF xClient[c].pc = "cmdBell" THEN "cmdWait" ELSE "resetWait")
         \in {"idle", "scopeWait", "reset"} \cup CmdPcs \cup ResetPcs \cup ActivePcs
  BY DEF CmdPcs, ResetPcs
<1>4. xClient' = [xClient EXCEPT ![c].pc = IF xClient[c].pc = "cmdBell" THEN "cmdWait" ELSE "resetWait"]
  BY DEF RingCommandDoorbell, Step
<1>5. Moves(c, IF xClient[c].pc = "cmdBell" THEN "cmdWait" ELSE "resetWait",
            xClient[c].n, xClient[c].todo, xClient[c].crb, xClient[c].got)
  BY <1>3, <1>4, Stepping
<1>6. /\ xHc' \in HcSet /\ xHc'.deq = xHc.deq /\ xHc'.ccs = xHc.ccs /\ xHc'.halted = xHc.halted
      /\ xHc'.enq = xHc.enq /\ xHc'.pcs = xHc.pcs
  BY <1>1, <1>2 DEF HcSet, Rings
<1> QED BY <1>5, <1>6 DEF RingCommandDoorbell

LEMMA BellFacts ==
    ASSUME XTypes, NEW c \in XClients, ClientOK(c), RingDoorbell(c)
    PROVE  /\ xClient[c].pc = "bell"
           /\ Moves(c, "wait", xClient[c].n, xClient[c].todo, xClient[c].crb, xClient[c].got)
           /\ xHc' \in HcSet /\ xHc'.deq = xHc.deq /\ xHc'.ccs = xHc.ccs /\ xHc'.halted = xHc.halted
           /\ xHc'.enq = xHc.enq /\ xHc'.pcs = xHc.pcs
           /\ UNCHANGED <<xRing, xCrb, xEvent, xThread, xLock, xPanic>>
<1>1. xHc \in HcSet
  BY Zenon DEF XTypes
<1>2. xHc' = [xHc EXCEPT !.bells = @ \cup {Request(c).ring}] /\ xClient[c].pc = "bell"
  BY DEF RingDoorbell
<1>3. Request(c).ring \in Rings
  BY <1>2, RequestTypes DEF ClientOK, Rings, ActivePcs
<1>4. xClient' = [xClient EXCEPT ![c].pc = "wait"]
  BY DEF RingDoorbell, Step
<1>5. Moves(c, "wait", xClient[c].n, xClient[c].todo, xClient[c].crb, xClient[c].got)
  BY <1>4, Stepping DEF ActivePcs
<1>6. /\ xHc' \in HcSet /\ xHc'.deq = xHc.deq /\ xHc'.ccs = xHc.ccs /\ xHc'.halted = xHc.halted
      /\ xHc'.enq = xHc.enq /\ xHc'.pcs = xHc.pcs
  BY <1>1, <1>2, <1>3 DEF HcSet
<1> QED BY <1>2, <1>5, <1>6 DEF RingDoorbell

LEMMA ScopeWaitFacts ==
    ASSUME XTypes, NEW c \in XClients, ScopeWait(c)
    PROVE  /\ xClient[c].pc = "idle" /\ HasRequest(c) /\ Request(c).kind # "command"
           /\ xRing[Request(c).ring].scope = 0 /\ xLock = Nobody /\ xLock' = c
           /\ Moves(c, "scopeWait", xClient[c].n, xClient[c].todo, xClient[c].crb, xClient[c].got)
           /\ UNCHANGED <<xRing, xCrb, xEvent, xHc, xThread, xPanic>>
<1>1. xClient' = [xClient EXCEPT ![c].pc = "scopeWait"]
  BY DEF ScopeWait, Step
<1>2. Moves(c, "scopeWait", xClient[c].n, xClient[c].todo, xClient[c].crb, xClient[c].got)
  BY <1>1, Stepping
<1> QED BY <1>2 DEF ScopeWait

\* A client that does not move keeps its place in the invariant.
LEMMA ClientRests ==
    ASSUME NEW d \in XClients, ClientOK(d), xClient'[d] = xClient[d], xLock' = d <=> xLock = d
    PROVE  ClientOK(d)'
BY OtherStays DEF ClientOK

LEMMA ClientsKept ==
    ASSUME XInv, XNext
    PROVE  ClientsOK'
<1>a. XTypes /\ EventRingOK /\ RespondOK /\ PermitsOK /\ BlocksOK /\ Producers /\ ClientsOK
  BY DEF XInv
<1>b. Nobody \notin XClients
  BY XhciAssumption
<1>c. ASSUME xClient' = xClient, xLock' = xLock PROVE ClientsOK'
  BY <1>c, <1>a, ClientRests DEF ClientsOK
<1>1. ASSUME NEW c \in XClients, XClientStep(c) PROVE ClientsOK'
  <2>0. ClientOK(c) /\ c # Nobody /\ \A d \in XClients : ClientOK(d)
    BY <1>a, <1>b DEF ClientsOK
  <2>t. /\ xClient[c].todo \in Seq(StageTypes) /\ xClient[c].n \in Nat /\ xClient[c].crb \in 0..CrbCount
        /\ xClient[c].plan \in Seq(XRequests)
    BY <1>a, ClientTypes
  <2>z. ASSUME ClientOK(c)', \A d \in XClients : d # c => xClient'[d] = xClient[d] /\ (xLock' = d <=> xLock = d)
        PROVE  ClientsOK'
    BY <2>z, <2>0, ClientRests DEF ClientsOK
  <2>1. CASE AllocateCrb(c)
    <3>1. PICK b \in 1..CrbCount :
             Moves(c, IF xClient[c].pc = "reset" THEN "resetIssue" ELSE "cmdIssue",
                      xClient[c].n, xClient[c].todo, b, xClient[c].got)
      BY <2>1, <1>a, AllocateFacts
    <3>2. b # 0
      BY Sizes
    <3>3. Request(c)' = Request(c) /\ (HasRequest(c)' <=> HasRequest(c))
      BY <3>1, SameRequest DEF Moves
    <3>4. xLock' = xLock /\ (xClient[c].pc = "reset" \/ (xClient[c].pc = "idle" /\ HasRequest(c) /\ Request(c).kind = "command"))
      BY <2>1 DEF AllocateCrb
    <3>5. ClientOK(c)'
      BY <2>0, <3>1, <3>2, <3>3, <3>4 DEF ClientOK, Moves, OnCommand, CmdPcs, ResetPcs, ActivePcs
    <3> QED BY <3>1, <3>4, <3>5, <2>z DEF Moves
  <2>2. CASE NoCrb(c)
    BY <2>2, <1>c DEF NoCrb
  <2>3. CASE IssueCommand(c)
    <3>1. Moves(c, IF xClient[c].pc \in ResetPcs THEN "resetBell" ELSE "cmdBell",
                    xClient[c].n, xClient[c].todo, xClient[c].crb, xClient[c].got)
      BY Zenon, <2>0, <2>3, <1>a, IssueCommandFacts
    <3>3. Request(c)' = Request(c) /\ (HasRequest(c)' <=> HasRequest(c))
      BY <3>1, SameRequest DEF Moves
    <3>4. xLock' = xLock /\ xClient[c].pc \in {"cmdIssue", "resetIssue"}
      BY <2>3 DEF IssueCommand
    <3>5. ClientOK(c)'
      BY <2>0, <3>1, <3>3, <3>4 DEF ClientOK, Moves, OnCommand, CmdPcs, ResetPcs, ActivePcs
    <3> QED BY <3>1, <3>4, <3>5, <2>z DEF Moves
  <2>4. CASE RingCommandDoorbell(c)
    <3>1. /\ Moves(c, IF xClient[c].pc = "cmdBell" THEN "cmdWait" ELSE "resetWait",
                    xClient[c].n, xClient[c].todo, xClient[c].crb, xClient[c].got)
          /\ xLock' = xLock /\ xClient[c].pc \in {"cmdBell", "resetBell"}
      BY <2>0, <2>4, <1>a, DoorbellFacts
    <3>3. Request(c)' = Request(c) /\ (HasRequest(c)' <=> HasRequest(c))
      BY <3>1, SameRequest DEF Moves
    <3>5. ClientOK(c)'
      BY <2>0, <3>1, <3>3 DEF ClientOK, Moves, OnCommand, CmdPcs, ResetPcs, ActivePcs
    <3> QED BY <3>1, <3>5, <2>z DEF Moves
  <2>5. CASE FinishCommand(c)
    <3>1. PICK got \in {xClient[c].got, xCrb[xClient[c].crb].response} :
            Moves(c, "idle", xClient[c].n + 1, xClient[c].todo, 0, got)
      BY Zenon, <2>0, <2>5, <1>a, FinishCommandFacts
    <3>4. xLock' = xLock /\ xClient[c].pc # "scopeWait"
      BY <2>5 DEF FinishCommand
    <3>6. xClient[c].n + 1 # 0
      BY <2>t
    <3>5. ClientOK(c)'
      BY <2>0, <3>1, <3>4, <3>6 DEF ClientOK, Moves, OnCommand, CmdPcs, ResetPcs, ActivePcs
    <3> QED BY <3>1, <3>4, <3>5, <2>z DEF Moves
  <2>6. CASE Scope(c) \/ ScopeGranted(c)
    <3>1. /\ Moves(c, "issue", xClient[c].n, TrbsOf(Request(c)), xClient[c].crb, xClient[c].got)
          /\ HasRequest(c) /\ Request(c).kind # "command" /\ xClient[c].pc \in {"idle", "scopeWait"}
      BY Zenon, <2>0, <2>6, <1>a, ScopeFacts
    <3>2. TrbsOf(Request(c)) # <<>>
      <4>1. Len(TrbsOf(Request(c))) \in 1..3
        BY <3>1, <1>a, RequestTypes, StagesTyped
      <4> QED BY <4>1
    <3>3. Request(c)' = Request(c) /\ (HasRequest(c)' <=> HasRequest(c))
      BY <3>1, SameRequest DEF Moves
    <3>4. xLock' = Nobody /\ (xLock = Nobody \/ xLock = c)
      BY <2>6, <2>0 DEF Scope, ScopeGranted, ClientOK
    <3>5. ClientOK(c)'
      BY <2>0, <3>1, <3>2, <3>3, <3>4 DEF ClientOK, Moves, OnCommand, CmdPcs, ResetPcs, ActivePcs
    <3>6. \A d \in XClients : d # c => (xLock' = d <=> xLock = d)
      BY <3>4, <1>b
    <3> QED BY <3>1, <3>5, <3>6, <2>z DEF Moves
  <2>7. CASE ScopeWait(c)
    <3>1. /\ Moves(c, "scopeWait", xClient[c].n, xClient[c].todo, xClient[c].crb, xClient[c].got)
          /\ xClient[c].pc = "idle" /\ HasRequest(c) /\ Request(c).kind # "command"
          /\ xLock = Nobody /\ xLock' = c
      BY <2>7, <1>a, ScopeWaitFacts
    <3>3. Request(c)' = Request(c) /\ (HasRequest(c)' <=> HasRequest(c))
      BY <3>1, SameRequest DEF Moves
    <3>5. ClientOK(c)'
      BY <2>0, <3>1, <3>3 DEF ClientOK, Moves, OnCommand, CmdPcs, ResetPcs, ActivePcs
    <3>6. \A d \in XClients : d # c => (xLock' = d <=> xLock = d)
      BY <3>1, <1>b
    <3> QED BY <3>1, <3>5, <3>6, <2>z DEF Moves
  <2>8. CASE IssueStage(c)
    <3>1. /\ Moves(c, IF Len(xClient[c].todo) = 1 THEN "bell" ELSE "issue", xClient[c].n,
                    Tail(xClient[c].todo), xClient[c].crb, xClient[c].got)
          /\ HasRequest(c) /\ Request(c).kind # "command" /\ xClient[c].pc = "issue"
          /\ xClient[c].todo # <<>>
      BY <2>0, <2>8, <1>a, IssueStageFacts
    <3>2. Len(xClient[c].todo) = 1 <=> Tail(xClient[c].todo) = <<>>
      BY <2>t, <3>1, LastStage
    <3>3. Request(c)' = Request(c) /\ (HasRequest(c)' <=> HasRequest(c))
      BY <3>1, SameRequest DEF Moves
    <3>4. xLock' = xLock
      BY <2>8 DEF IssueStage
    <3>5. ClientOK(c)'
      BY <2>0, <3>1, <3>2, <3>3, <3>4 DEF ClientOK, Moves, OnCommand, CmdPcs, ResetPcs, ActivePcs
    <3> QED BY <3>1, <3>4, <3>5, <2>z DEF Moves
  <2>9. CASE RingDoorbell(c)
    <3>1. /\ Moves(c, "wait", xClient[c].n, xClient[c].todo, xClient[c].crb, xClient[c].got)
          /\ xClient[c].pc = "bell" /\ xLock' = xLock
      BY <2>0, <2>9, <1>a, BellFacts
    <3>3. Request(c)' = Request(c) /\ (HasRequest(c)' <=> HasRequest(c))
      BY <3>1, SameRequest DEF Moves
    <3>5. ClientOK(c)'
      BY <2>0, <3>1, <3>3 DEF ClientOK, Moves, OnCommand, CmdPcs, ResetPcs, ActivePcs
    <3> QED BY <3>1, <3>5, <2>z DEF Moves
  <2>10. CASE FinishTransfer(c)
    <3>4. xLock' = xLock /\ xClient[c].pc = "wait"
      BY <2>10 DEF FinishTransfer
    <3>1. \/ /\ Request(c).kind = "control"
             /\ Moves(c, "reset", xClient[c].n, xClient[c].todo, xClient[c].crb,
                          xRing[Request(c).ring].response)
          \/ Moves(c, "idle", xClient[c].n + 1, xClient[c].todo, xClient[c].crb,
                          xRing[Request(c).ring].response)
      BY Zenon, <2>0, <2>10, <1>a, FinishTransferFacts
    <3>6. xClient[c].n + 1 # 0
      BY <2>t
    <3>7. CASE Request(c).kind = "control" /\ Moves(c, "reset", xClient[c].n, xClient[c].todo, xClient[c].crb,
                          xRing[Request(c).ring].response)
      <4>3. Request(c)' = Request(c) /\ (HasRequest(c)' <=> HasRequest(c))
        BY <3>7, SameRequest DEF Moves
      <4>5. ClientOK(c)'
        BY <2>0, <3>4, <3>7, <4>3 DEF ClientOK, Moves, OnCommand, CmdPcs, ResetPcs, ActivePcs
      <4> QED BY <3>4, <3>7, <4>5, <2>z DEF Moves
    <3>8. CASE Moves(c, "idle", xClient[c].n + 1, xClient[c].todo, xClient[c].crb,
                          xRing[Request(c).ring].response)
      <4>5. ClientOK(c)'
        BY <2>0, <3>4, <3>6, <3>8 DEF ClientOK, Moves, OnCommand, CmdPcs, ResetPcs, ActivePcs
      <4> QED BY <3>4, <3>8, <4>5, <2>z DEF Moves
    <3> QED BY <3>1, <3>7, <3>8
  <2> QED BY <1>1, <2>1, <2>2, <2>3, <2>4, <2>5, <2>6, <2>7, <2>8, <2>9, <2>10 DEF XClientStep
<1>2. CASE xClient' = xClient /\ xLock' = xLock
  BY <1>2, <1>c
<1>3. ASSUME NEW b \in 1..CrbCount, ReuseDelayEnds(b) PROVE xClient' = xClient /\ xLock' = xLock
  BY <1>3 DEF ReuseDelayEnds
<1>4. ASSUME NEW r \in Rings, HcConsume(r) \/ HcStop(r) PROVE xClient' = xClient /\ xLock' = xLock
  BY <1>4 DEF HcConsume, HcStop
<1>5. ASSUME NEW r \in Rings, NEW code \in {"STALL", "TRANSACTION"}, HcFail(r, code)
      PROVE  xClient' = xClient /\ xLock' = xLock
  BY <1>5 DEF HcFail
<1>6. MsiHandler \/ EventThread => xClient' = xClient /\ xLock' = xLock
  BY Zenon DEF MsiHandler, EventThread, EventThreadWakes, DequeueEvent, HandleCommand, HandleFailure, HandleTransfer
<1> QED BY <1>1, <1>2, <1>3, <1>4, <1>5, <1>6 DEF XNext

-----------------------------------------------------------------------------
(* The request blocks *)

IssuePcs == {"cmdIssue", "resetIssue"}

\* A client keeps its request block.
KeepsBlock(d) ==
    /\ (OnCommand(d)' <=> OnCommand(d)) /\ xClient'[d].crb = xClient[d].crb
    /\ OnCommand(d) => /\ xClient'[d].pc \in IssuePcs <=> xClient[d].pc \in IssuePcs
                       /\ CmdTag(d)' = CmdTag(d)

LEMMA BlocksRest ==
    ASSUME BlocksOK, xCrb' = xCrb, \A d \in XClients : KeepsBlock(d)
    PROVE  BlocksOK'
BY DEF BlocksOK, KeepsBlock, IssuePcs

LEMMA OtherKeeps ==
    ASSUME NEW d \in XClients, xClient'[d] = xClient[d]
    PROVE  KeepsBlock(d)
BY OtherStays DEF KeepsBlock

\* What waits in the command ring is the command of the owner of its block.
LEMMA CommandInHand ==
    ASSUME XInv, Handling, Event.kind = "command", NEW b \in 1..CrbCount,
           xCrb[b].state = "Scheduled", xCrb[b].at = Event.ptr,
           NEW c \in XClients, OnCommand(c), xClient[c].crb = b
    PROVE  Event.tag = CmdTag(c) /\ PosOf(b) = Event.ptr
<1>a. XTypes /\ EventRingOK /\ CommandsOK /\ CommandTagsOK
  BY DEF XInv
<1>1. Event.ptr \in Pos /\ Live(xThread.at) /\ xThread.at \in EventSlots /\ Event = xEvent.slot[xThread.at]
  BY <1>a, InHand
<1>2. PosOf(b) = Event.ptr
  BY <1>1, Sizes DEF PosOf, Pos
<1>3. b \in Sched
  BY DEF Sched
<1>4. xRing[CommandRing].trb[PosOf(b)].tag = CmdTag(c)
  BY <1>a, <1>3 DEF CommandTagsOK
<1>5. Event.tag = xRing[CommandRing].trb[Event.ptr].tag
  BY <1>a, <1>1 DEF CommandsOK, LiveCmd
<1> QED BY <1>2, <1>4, <1>5

LEMMA BlocksKept ==
    ASSUME XInv, XNext
    PROVE  BlocksOK'
<1>a. XTypes /\ EventRingOK /\ RespondOK /\ PermitsOK /\ BlocksOK /\ Producers /\ ClientsOK
  BY DEF XInv
<1>b. \A b \in 1..CrbCount : xCrb[b] \in CrbSet
  BY Zenon, <1>a DEF XTypes
<1>c. ASSUME xClient' = xClient, xCrb' = xCrb PROVE BlocksOK'
  BY <1>c, <1>a, OtherKeeps, BlocksRest
<1>1. ASSUME NEW c \in XClients, XClientStep(c) PROVE BlocksOK'
  <2>0. ClientOK(c) /\ \A d \in XClients : ClientOK(d)
    BY <1>a DEF ClientsOK
  <2>z. ASSUME xCrb' = xCrb, KeepsBlock(c), \A d \in XClients : d # c => xClient'[d] = xClient[d]
        PROVE  BlocksOK'
    BY <2>z, <1>a, OtherKeeps, BlocksRest
  <2>1. CASE AllocateCrb(c)
    <3>1. PICK b \in 1..CrbCount :
             /\ xCrb[b].state = "Available"
             /\ xCrb'[b] = [xCrb[b] EXCEPT !.state = "Acquired"]
             /\ \A a \in 1..CrbCount : a # b => xCrb'[a] = xCrb[a]
             /\ Moves(c, IF xClient[c].pc = "reset" THEN "resetIssue" ELSE "cmdIssue",
                      xClient[c].n, xClient[c].todo, b, xClient[c].got)
      BY <2>1, <1>a, AllocateFacts
    <3>2. b # 0
      BY Sizes
    <3>3. /\ xCrb'[b].state = "Acquired" /\ xCrb'[b].signal = xCrb[b].signal
      BY <3>1, <1>b DEF CrbSet
    <3>20. xCrb[b].state = "Available" /\ \A a \in 1..CrbCount : a # b => xCrb'[a] = xCrb[a]
      BY <3>1
    <3>4. /\ xClient'[c].crb = b /\ xClient'[c].pc \in {"cmdIssue", "resetIssue"} /\ OnCommand(c)'
          /\ \A d \in XClients : d # c => xClient'[d] = xClient[d]
      BY <3>1 DEF Moves, OnCommand, CmdPcs, ResetPcs
    <3>5. ~OnCommand(c)
      BY <2>1 DEF AllocateCrb, OnCommand, CmdPcs, ResetPcs
    <3>6. \A d \in XClients : xClient[d].crb # b
      BY <3>1, <3>2, <2>0, <1>a DEF ClientOK, BlocksOK
    <3>7. \A d \in XClients : d # c => (OnCommand(d)' <=> OnCommand(d)) /\ CmdTag(d)' = CmdTag(d)
      BY <3>4, OtherStays
    <3>8. \A d \in XClients : d # c /\ OnCommand(d) => xClient[d].crb \in 1..CrbCount
      BY <1>a, <2>0, OwnBlock
    <3>9. (\A d, e \in XClients : OnCommand(d) /\ xClient[d].crb = xClient[e].crb => d = e)'
      BY <3>4, <3>6, <3>7, <1>a DEF BlocksOK
    <3>10. (\A a \in 1..CrbCount :
         xCrb[a].state # "Available" => \E d \in XClients : OnCommand(d) /\ xClient[d].crb = a)'
      <4> SUFFICES ASSUME NEW a \in 1..CrbCount, xCrb'[a].state # "Available"
                   PROVE  \E d \in XClients : OnCommand(d)' /\ xClient'[d].crb = a
        OBVIOUS
      <4>1. CASE a = b
        BY <4>1, <3>4
      <4>2. CASE a # b
        <5>1. PICK d \in XClients : OnCommand(d) /\ xClient[d].crb = a
          BY <4>2, <3>1, <1>a DEF BlocksOK
        <5> QED BY <5>1, <3>4, <3>5, <3>7
      <4> QED BY <4>1, <4>2
    <3>11. (\A d \in XClients : OnCommand(d) =>
         IF xClient[d].pc \in {"cmdIssue", "resetIssue"} THEN xCrb[xClient[d].crb].state = "Acquired"
         ELSE xCrb[xClient[d].crb].state \in {"Scheduled", "Completed"})'
      BY <3>20, <3>3, <3>4, <3>6, <3>7, <3>8, <1>a DEF BlocksOK
    <3>12. (\A a \in 1..CrbCount : xCrb[a].signal = IF xCrb[a].state = "Completed" THEN 1 ELSE 0)'
      BY <3>20, <3>3, <1>a DEF BlocksOK
    <3>13. (\A d \in XClients : OnCommand(d) /\ xCrb[xClient[d].crb].state = "Completed" =>
         xCrb[xClient[d].crb].response = CmdTag(d))'
      BY <3>20, <3>3, <3>4, <3>6, <3>7, <3>8, <1>a DEF BlocksOK
    <3> QED BY <3>9, <3>10, <3>11, <3>12, <3>13 DEF BlocksOK
  <2>2. CASE NoCrb(c)
    BY <2>2, <1>c DEF NoCrb
  <2>3. CASE IssueCommand(c)
    <3> DEFINE b == xClient[c].crb
    <3>1. /\ OnCommand(c) /\ b \in 1..CrbCount
          /\ Reblocks(b, [xCrb[b] EXCEPT !.state = "Scheduled", !.response = NoTag, !.at = xRing[CommandRing].index])
          /\ Moves(c, IF xClient[c].pc \in ResetPcs THEN "resetBell" ELSE "cmdBell",
                    xClient[c].n, xClient[c].todo, xClient[c].crb, xClient[c].got)
      BY Zenon, <2>0, <2>3, <1>a, IssueCommandFacts
    <3>2. xCrb'[b].state = "Scheduled" /\ xCrb'[b].signal = xCrb[b].signal
      BY <3>1, <1>b DEF Reblocks, CrbSet
    <3>3. xCrb[b].state = "Acquired"
      BY <2>3, <3>1, <1>a DEF IssueCommand, BlocksOK
    <3>4. /\ xClient'[c].crb = b /\ xClient'[c].pc \notin {"cmdIssue", "resetIssue"} /\ OnCommand(c)'
          /\ \A d \in XClients : d # c => xClient'[d] = xClient[d]
      BY <3>1 DEF Moves, OnCommand, CmdPcs, ResetPcs
    <3>7. \A d \in XClients : d # c => (OnCommand(d)' <=> OnCommand(d)) /\ CmdTag(d)' = CmdTag(d)
      BY <3>4, OtherStays
    <3>8. \A d \in XClients : OnCommand(d) => xClient[d].crb \in 1..CrbCount
      BY <1>a, <2>0, OwnBlock
    <3>6. \A d \in XClients : d # c => xClient[d].crb # b
      BY <3>1, <1>a DEF BlocksOK
    <3> HIDE DEF b
    <3>20. \A a \in 1..CrbCount : a # b => xCrb'[a] = xCrb[a]
      BY <3>1 DEF Reblocks
    <3>21. \A d \in XClients : (OnCommand(d)' <=> OnCommand(d)) /\ xClient'[d].crb = xClient[d].crb
      BY <3>1, <3>4, <3>7 DEF b
    <3>9. (\A d, e \in XClients : OnCommand(d) /\ xClient[d].crb = xClient[e].crb => d = e)'
      BY <3>21, <1>a DEF BlocksOK
    <3>10. (\A a \in 1..CrbCount :
         xCrb[a].state # "Available" => \E d \in XClients : OnCommand(d) /\ xClient[d].crb = a)'
      BY <3>20, <3>21, <3>3, <3>1, <1>a DEF BlocksOK
    <3>11. (\A d \in XClients : OnCommand(d) =>
         IF xClient[d].pc \in {"cmdIssue", "resetIssue"} THEN xCrb[xClient[d].crb].state = "Acquired"
         ELSE xCrb[xClient[d].crb].state \in {"Scheduled", "Completed"})'
      BY <3>20, <3>2, <3>4, <3>6, <3>7, <3>8, <1>a DEF BlocksOK
    <3>12. (\A a \in 1..CrbCount : xCrb[a].signal = IF xCrb[a].state = "Completed" THEN 1 ELSE 0)'
      BY <3>1, <3>20, <3>2, <3>3, <1>a DEF BlocksOK
    <3>13. (\A d \in XClients : OnCommand(d) /\ xCrb[xClient[d].crb].state = "Completed" =>
         xCrb[xClient[d].crb].response = CmdTag(d))'
      BY <3>20, <3>2, <3>4, <3>6, <3>7, <3>8, <1>a DEF BlocksOK
    <3> QED BY <3>9, <3>10, <3>11, <3>12, <3>13 DEF BlocksOK
  <2>4. CASE RingCommandDoorbell(c)
    <3>1. /\ Moves(c, IF xClient[c].pc = "cmdBell" THEN "cmdWait" ELSE "resetWait",
                    xClient[c].n, xClient[c].todo, xClient[c].crb, xClient[c].got)
          /\ xCrb' = xCrb /\ xClient[c].pc \in {"cmdBell", "resetBell"}
      BY <2>0, <2>4, <1>a, DoorbellFacts
    <3>3. Request(c)' = Request(c) /\ TagOf(c)' = TagOf(c)
      BY <3>1, SameRequest DEF Moves
    <3>5. KeepsBlock(c)
      BY <3>1, <3>3 DEF KeepsBlock, Moves, OnCommand, CmdPcs, ResetPcs, IssuePcs, CmdTag
    <3> QED BY <3>1, <3>5, <2>z DEF Moves
  <2>5. CASE FinishCommand(c)
    <3> DEFINE b == xClient[c].crb
    <3>1. /\ OnCommand(c) /\ b \in 1..CrbCount
          /\ Reblocks(b, [xCrb[b] EXCEPT !.signal = 0, !.state = "Available", !.delayed = TRUE])
          /\ \E got : Moves(c, "idle", xClient[c].n + 1, xClient[c].todo, 0, got)
      BY Zenon, <2>0, <2>5, <1>a, FinishCommandFacts
    <3>2. xCrb'[b].state = "Available" /\ xCrb'[b].signal = 0
      BY <3>1, <1>b DEF Reblocks, CrbSet
    <3>4. /\ xClient'[c].crb = 0 /\ ~OnCommand(c)'
          /\ \A d \in XClients : d # c => xClient'[d] = xClient[d]
      BY <3>1 DEF Moves, OnCommand, CmdPcs, ResetPcs
    <3>7. \A d \in XClients : d # c => (OnCommand(d)' <=> OnCommand(d)) /\ CmdTag(d)' = CmdTag(d)
      BY <3>4, OtherStays
    <3>8. \A d \in XClients : OnCommand(d) => xClient[d].crb \in 1..CrbCount /\ xClient[d].crb # 0
      BY <1>a, <2>0, OwnBlock DEF ClientOK
    <3>6. \A d \in XClients : d # c => xClient[d].crb # b
      BY <3>1, <1>a DEF BlocksOK
    <3> HIDE DEF b
    <3>20. \A a \in 1..CrbCount : a # b => xCrb'[a] = xCrb[a]
      BY <3>1 DEF Reblocks
    <3>9. (\A d, e \in XClients : OnCommand(d) /\ xClient[d].crb = xClient[e].crb => d = e)'
      BY <3>4, <3>7, <3>8, <1>a DEF BlocksOK
    <3>10. (\A a \in 1..CrbCount :
         xCrb[a].state # "Available" => \E d \in XClients : OnCommand(d) /\ xClient[d].crb = a)'
      <4> SUFFICES ASSUME NEW a \in 1..CrbCount, xCrb'[a].state # "Available"
                   PROVE  \E d \in XClients : OnCommand(d)' /\ xClient'[d].crb = a
        OBVIOUS
      <4>1. a # b
        BY <3>2
      <4>2. PICK d \in XClients : OnCommand(d) /\ xClient[d].crb = a
        BY <4>1, <3>20, <1>a DEF BlocksOK
      <4>3. d # c
        BY <4>1, <4>2 DEF b
      <4> QED BY <4>2, <4>3, <3>4, <3>7
    <3>11. (\A d \in XClients : OnCommand(d) =>
         IF xClient[d].pc \in {"cmdIssue", "resetIssue"} THEN xCrb[xClient[d].crb].state = "Acquired"
         ELSE xCrb[xClient[d].crb].state \in {"Scheduled", "Completed"})'
      BY <3>20, <3>4, <3>6, <3>7, <3>8, <1>a DEF BlocksOK
    <3>12. (\A a \in 1..CrbCount : xCrb[a].signal = IF xCrb[a].state = "Completed" THEN 1 ELSE 0)'
      BY <3>20, <3>2, <1>a DEF BlocksOK
    <3>13. (\A d \in XClients : OnCommand(d) /\ xCrb[xClient[d].crb].state = "Completed" =>
         xCrb[xClient[d].crb].response = CmdTag(d))'
      BY <3>20, <3>4, <3>6, <3>7, <3>8, <1>a DEF BlocksOK
    <3> QED BY <3>9, <3>10, <3>11, <3>12, <3>13 DEF BlocksOK
  <2>6. CASE Scope(c) \/ ScopeGranted(c)
    <3>1. /\ Moves(c, "issue", xClient[c].n, TrbsOf(Request(c)), xClient[c].crb, xClient[c].got)
          /\ xClient[c].pc \in {"idle", "scopeWait"}
      BY Zenon, <2>0, <2>6, <1>a, ScopeFacts
    <3>2. xCrb' = xCrb
      BY <2>6 DEF Scope, ScopeGranted
    <3>5. KeepsBlock(c)
      BY <3>1 DEF KeepsBlock, Moves, OnCommand, CmdPcs, ResetPcs
    <3> QED BY <3>1, <3>2, <3>5, <2>z DEF Moves
  <2>7. CASE ScopeWait(c)
    <3>1. /\ Moves(c, "scopeWait", xClient[c].n, xClient[c].todo, xClient[c].crb, xClient[c].got)
          /\ xClient[c].pc = "idle" /\ xCrb' = xCrb
      BY <2>7, <1>a, ScopeWaitFacts
    <3>5. KeepsBlock(c)
      BY <3>1 DEF KeepsBlock, Moves, OnCommand, CmdPcs, ResetPcs
    <3> QED BY <3>1, <3>5, <2>z DEF Moves
  <2>8. CASE IssueStage(c)
    <3>1. /\ Moves(c, IF Len(xClient[c].todo) = 1 THEN "bell" ELSE "issue", xClient[c].n,
                    Tail(xClient[c].todo), xClient[c].crb, xClient[c].got)
          /\ xClient[c].pc = "issue"
      BY <2>0, <2>8, <1>a, IssueStageFacts
    <3>2. xCrb' = xCrb
      BY <2>8 DEF IssueStage
    <3>5. KeepsBlock(c)
      BY <3>1 DEF KeepsBlock, Moves, OnCommand, CmdPcs, ResetPcs
    <3> QED BY <3>1, <3>2, <3>5, <2>z DEF Moves
  <2>9. CASE RingDoorbell(c)
    <3>1. /\ Moves(c, "wait", xClient[c].n, xClient[c].todo, xClient[c].crb, xClient[c].got)
          /\ xClient[c].pc = "bell" /\ xCrb' = xCrb
      BY <2>0, <2>9, <1>a, BellFacts
    <3>5. KeepsBlock(c)
      BY <3>1 DEF KeepsBlock, Moves, OnCommand, CmdPcs, ResetPcs
    <3> QED BY <3>1, <3>5, <2>z DEF Moves
  <2>10. CASE FinishTransfer(c)
    <3>4. xCrb' = xCrb /\ xClient[c].pc = "wait"
      BY <2>10 DEF FinishTransfer
    <3>1. \E pc \in {"reset", "idle"} : \E n, got : Moves(c, pc, n, xClient[c].todo, xClient[c].crb, got)
      BY Zenon, <2>0, <2>10, <1>a, FinishTransferFacts
    <3>5. KeepsBlock(c)
      BY <3>1, <3>4 DEF KeepsBlock, Moves, OnCommand, CmdPcs, ResetPcs
    <3> QED BY <3>1, <3>4, <3>5, <2>z DEF Moves
  <2> QED BY <1>1, <2>1, <2>2, <2>3, <2>4, <2>5, <2>6, <2>7, <2>8, <2>9, <2>10 DEF XClientStep
<1>2. ASSUME NEW b \in 1..CrbCount, ReuseDelayEnds(b) PROVE BlocksOK'
  <2>1. /\ xClient' = xClient
        /\ \A a \in 1..CrbCount : xCrb'[a].state = xCrb[a].state /\ xCrb'[a].signal = xCrb[a].signal
                                  /\ xCrb'[a].response = xCrb[a].response
    BY Zenon, <1>2, <1>a DEF ReuseDelayEnds, XTypes, CrbSet
  <2>2. \A d \in XClients : (OnCommand(d)' <=> OnCommand(d)) /\ CmdTag(d)' = CmdTag(d)
    BY <2>1, OtherStays
  <2>3. \A d \in XClients : OnCommand(d) => xClient[d].crb \in 1..CrbCount
    BY <1>a, OwnBlock DEF ClientsOK
  <2> QED BY <2>1, <2>2, <2>3, <1>a DEF BlocksOK
<1>4. ASSUME NEW r \in Rings, HcConsume(r) \/ HcStop(r) PROVE BlocksOK'
  BY <1>4, <1>c DEF HcConsume, HcStop
<1>5. ASSUME NEW r \in Rings, NEW code \in {"STALL", "TRANSACTION"}, HcFail(r, code)
      PROVE  BlocksOK'
  BY <1>5, <1>c DEF HcFail
<1>6. CASE MsiHandler \/ EventThreadWakes \/ DequeueEvent \/ HandleFailure \/ HandleTransfer
  BY Zenon, <1>6, <1>c DEF MsiHandler, EventThreadWakes, DequeueEvent, HandleFailure, HandleTransfer
<1>7. CASE HandleCommand
  <2>1. CASE xCrb' = xCrb
    BY Zenon, <1>7, <2>1, <1>c DEF HandleCommand
  <2>2. CASE xCrb' # xCrb
    <3>1. Handling /\ Event.kind = "command" /\ xClient' = xClient
      BY Zenon, <1>7, <1>a, HandleCommandFacts DEF HandleCommand
    <3>2. PICK b \in 1..CrbCount :
            /\ xCrb[b].state = "Scheduled" /\ xCrb[b].at = Event.ptr
            /\ Reblocks(b, [xCrb[b] EXCEPT !.response = Event.tag, !.state = "Completed", !.signal = 1])
      BY Zenon, <2>2, <1>7, <1>a, HandleCommandFacts
    <3>3. xCrb'[b].state = "Completed" /\ xCrb'[b].signal = 1 /\ xCrb'[b].response = Event.tag
          /\ \A a \in 1..CrbCount : a # b => xCrb'[a] = xCrb[a]
      BY <3>2, <1>b DEF Reblocks, CrbSet
    <3>4. \A d \in XClients : (OnCommand(d)' <=> OnCommand(d)) /\ CmdTag(d)' = CmdTag(d)
      BY <3>1, OtherStays
    <3>5. \A d \in XClients : OnCommand(d) => xClient[d].crb \in 1..CrbCount
      BY <1>a, OwnBlock DEF ClientsOK
    <3>6. \A d \in XClients : OnCommand(d) /\ xClient[d].crb = b => Event.tag = CmdTag(d)
      BY <3>1, <3>2, CommandInHand
    <3>7. \A d \in XClients : OnCommand(d) /\ xClient[d].crb = b => xClient[d].pc \notin {"cmdIssue", "resetIssue"}
      BY <3>2, <1>a DEF BlocksOK
    <3>9. (\A d, e \in XClients : OnCommand(d) /\ xClient[d].crb = xClient[e].crb => d = e)'
      BY <3>1, <3>4, <1>a DEF BlocksOK
    <3>10. (\A a \in 1..CrbCount :
         xCrb[a].state # "Available" => \E d \in XClients : OnCommand(d) /\ xClient[d].crb = a)'
      BY <3>1, <3>2, <3>3, <3>4, <1>a DEF BlocksOK
    <3>11. (\A d \in XClients : OnCommand(d) =>
         IF xClient[d].pc \in {"cmdIssue", "resetIssue"} THEN xCrb[xClient[d].crb].state = "Acquired"
         ELSE xCrb[xClient[d].crb].state \in {"Scheduled", "Completed"})'
      BY <3>1, <3>3, <3>4, <3>5, <3>7, <1>a DEF BlocksOK
    <3>12. (\A a \in 1..CrbCount : xCrb[a].signal = IF xCrb[a].state = "Completed" THEN 1 ELSE 0)'
      BY <3>3, <1>a DEF BlocksOK
    <3>13. (\A d \in XClients : OnCommand(d) /\ xCrb[xClient[d].crb].state = "Completed" =>
         xCrb[xClient[d].crb].response = CmdTag(d))'
      BY <3>1, <3>3, <3>4, <3>5, <3>6, <1>a DEF BlocksOK
    <3> QED BY <3>9, <3>10, <3>11, <3>12, <3>13 DEF BlocksOK
  <2> QED BY <2>1, <2>2
<1> QED BY <1>1, <1>2, <1>4, <1>5, <1>6, <1>7 DEF XNext, EventThread

-----------------------------------------------------------------------------
(* The permits *)

\* A client keeps the permit of a ring, or has none.
KeepsPermit(d, r) ==
    /\ Holds(d, r)' <=> Holds(d, r)
    /\ Holds(d, r) => (xClient'[d].pc \in ActivePcs <=> xClient[d].pc \in ActivePcs)

LEMMA OtherPermits ==
    ASSUME NEW d \in XClients, xClient'[d] = xClient[d]
    PROVE  \A r : KeepsPermit(d, r)
BY OtherStays DEF KeepsPermit

\* The parts of a ring that the permit is about.
SamePermit(r) ==
    xRing'[r].scope = xRing[r].scope /\ xRing'[r].signal = xRing[r].signal /\ xRing'[r].state = xRing[r].state

LEMMA PermitRests ==
    ASSUME NEW r \in EndpointRings, PermitOK(r), SamePermit(r), \A d \in XClients : KeepsPermit(d, r)
    PROVE  PermitOK(r)'
BY DEF PermitOK, SamePermit, KeepsPermit

\* A client that goes on with the same request.
LEMMA GoesOn ==
    ASSUME NEW c \in XClients, Request(c)' = Request(c), NEW r,
           xClient[c].pc \in ActivePcs <=> xClient'[c].pc \in ActivePcs,
           xClient[c].pc \in ResetPcs \cup {"reset"} <=> xClient'[c].pc \in ResetPcs \cup {"reset"}
    PROVE  KeepsPermit(c, r)
BY DEF KeepsPermit, Holds

LEMMA IssuedPermit ==
    ASSUME XTypes, NEW r \in Rings, NEW type \in TrbTypes, NEW tag \in Tags,
           Rewrites(r, IssueTrb(xRing[r], type, tag))
    PROVE  \A q \in Rings : SamePermit(q)
<1>1. xRing[r] \in RingSet
  BY RingTypes
<1>2. LET q == IssueTrb(xRing[r], type, tag)
      IN q.state = xRing[r].state /\ q.scope = xRing[r].scope /\ q.signal = xRing[r].signal
  BY <1>1, Issued
<1> QED BY <1>2 DEF Rewrites, SamePermit

\* The permit goes from nobody to a client.
LEMMA PermitTaken ==
    ASSUME NEW r \in EndpointRings, PermitOK(r), NEW c \in XClients, xRing[r].scope = 1,
           xRing'[r].scope = 0, xRing'[r].state = "Scheduled", xRing'[r].signal = xRing[r].signal,
           xRing[r].signal \in {0, 1},
           Holds(c, r)', xClient'[c].pc = "issue", \A d \in XClients : d # c => KeepsPermit(d, r)
    PROVE  PermitOK(r)'
<1>1. \A d \in XClients : ~Holds(d, r)
  BY DEF PermitOK
<1>2. xRing[r].signal = 0
  BY <1>1 DEF PermitOK
<1>3. \A d \in XClients : Holds(d, r)' => d = c
  BY <1>1 DEF KeepsPermit
<1> QED BY <1>2, <1>3 DEF PermitOK, ActivePcs

\* The permit goes from a client to nobody.
LEMMA PermitReturned ==
    ASSUME NEW r \in EndpointRings, PermitOK(r), NEW c \in XClients, Holds(c, r),
           xRing'[r].scope = 1, xRing'[r].signal = 0, xRing'[r].state # "Scheduled",
           ~Holds(c, r)', \A d \in XClients : d # c => KeepsPermit(d, r)
    PROVE  PermitOK(r)'
<1>1. \A d \in XClients : ~Holds(d, r)'
  BY DEF PermitOK, KeepsPermit
<1> QED BY <1>1 DEF PermitOK

LEMMA PermitsKept ==
    ASSUME XInv, XNext
    PROVE  PermitsOK'
<1>a. XTypes /\ EventRingOK /\ RespondOK /\ PermitsOK /\ BlocksOK /\ Producers /\ ClientsOK
  BY DEF XInv
<1>b. \A r \in EndpointRings : r \in Rings /\ xRing[r] \in RingSet /\ PermitOK(r)
  BY Zenon, <1>a DEF XTypes, Rings, PermitsOK
<1>c. ASSUME xClient' = xClient, xRing' = xRing PROVE PermitsOK'
  BY <1>c, <1>b, OtherPermits, PermitRests DEF PermitsOK, SamePermit
<1>1. ASSUME NEW c \in XClients, XClientStep(c) PROVE PermitsOK'
  <2>0. ClientOK(c) /\ \A d \in XClients : ClientOK(d)
    BY <1>a DEF ClientsOK
  <2>y. ASSUME \A d \in XClients : d # c => xClient'[d] = xClient[d]
        PROVE  \A d \in XClients : d # c => \A r : KeepsPermit(d, r)
    BY <2>y, OtherPermits
  <2>z. ASSUME \A r \in EndpointRings : SamePermit(r) /\ KeepsPermit(c, r),
               \A d \in XClients : d # c => xClient'[d] = xClient[d]
        PROVE  PermitsOK'
    <3>1. \A r \in EndpointRings, d \in XClients : KeepsPermit(d, r)
      BY <2>z, OtherPermits
    <3> QED BY <3>1, <2>z, <1>b, PermitRests DEF PermitsOK
  <2>1. CASE AllocateCrb(c)
    <3>1. PICK b \in 1..CrbCount :
             Moves(c, IF xClient[c].pc = "reset" THEN "resetIssue" ELSE "cmdIssue",
                      xClient[c].n, xClient[c].todo, b, xClient[c].got)
      BY <2>1, <1>a, AllocateFacts
    <3>2. xRing' = xRing /\ xClient[c].pc \in {"idle", "reset"}
      BY <2>1 DEF AllocateCrb
    <3>3. Request(c)' = Request(c)
      BY <3>1, SameRequest DEF Moves
    <3>4. /\ xClient[c].pc \in ActivePcs <=> xClient'[c].pc \in ActivePcs
          /\ xClient[c].pc \in ResetPcs \cup {"reset"} <=> xClient'[c].pc \in ResetPcs \cup {"reset"}
      BY <3>1, <3>2 DEF Moves, ActivePcs, ResetPcs
    <3>5. \A r \in EndpointRings : SamePermit(r) /\ KeepsPermit(c, r)
      BY <3>2, <3>3, <3>4, GoesOn DEF SamePermit
    <3> QED BY <3>1, <3>5, <2>z DEF Moves
  <2>2. CASE NoCrb(c)
    BY <2>2, <1>c DEF NoCrb
  <2>3. CASE IssueCommand(c)
    <3>1. /\ Moves(c, IF xClient[c].pc \in ResetPcs THEN "resetBell" ELSE "cmdBell",
                    xClient[c].n, xClient[c].todo, xClient[c].crb, xClient[c].got)
          /\ Rewrites(CommandRing, IssueTrb(xRing[CommandRing], CmdType(c), CmdTag(c)))
          /\ OnCommand(c)
      BY Zenon, <2>0, <2>3, <1>a, IssueCommandFacts
    <3>2. xClient[c].pc \in {"cmdIssue", "resetIssue"}
      BY <2>3 DEF IssueCommand
    <3>3. Request(c)' = Request(c)
      BY <3>1, SameRequest DEF Moves
    <3>4. /\ xClient[c].pc \in ActivePcs <=> xClient'[c].pc \in ActivePcs
          /\ xClient[c].pc \in ResetPcs \cup {"reset"} <=> xClient'[c].pc \in ResetPcs \cup {"reset"}
      BY <3>1, <3>2 DEF Moves, ActivePcs, ResetPcs
    <3>5. CmdTag(c) \in Tags /\ CmdType(c) \in TrbTypes /\ CommandRing \in Rings
      BY <3>1, <2>0, <1>a, CommandTags DEF TrbTypes, Rings
    <3>6. \A r \in Rings : SamePermit(r)
      BY <3>1, <3>5, <1>a, IssuedPermit
    <3>7. \A r \in EndpointRings : SamePermit(r) /\ KeepsPermit(c, r)
      BY <3>6, <3>3, <3>4, <1>b, GoesOn
    <3> QED BY <3>1, <3>7, <2>z DEF Moves
  <2>4. CASE RingCommandDoorbell(c)
    <3>1. /\ Moves(c, IF xClient[c].pc = "cmdBell" THEN "cmdWait" ELSE "resetWait",
                    xClient[c].n, xClient[c].todo, xClient[c].crb, xClient[c].got)
          /\ xRing' = xRing /\ xClient[c].pc \in {"cmdBell", "resetBell"}
      BY <2>0, <2>4, <1>a, DoorbellFacts
    <3>3. Request(c)' = Request(c)
      BY <3>1, SameRequest DEF Moves
    <3>4. /\ xClient[c].pc \in ActivePcs <=> xClient'[c].pc \in ActivePcs
          /\ xClient[c].pc \in ResetPcs \cup {"reset"} <=> xClient'[c].pc \in ResetPcs \cup {"reset"}
      BY <3>1 DEF Moves, ActivePcs, ResetPcs
    <3>5. \A r \in EndpointRings : SamePermit(r) /\ KeepsPermit(c, r)
      BY <3>1, <3>3, <3>4, GoesOn DEF SamePermit
    <3> QED BY <3>1, <3>5, <2>z DEF Moves
  <2>5. CASE FinishCommand(c)
    <3>1. /\ xClient[c].pc \in {"cmdWait", "resetWait"}
          /\ \E got : Moves(c, "idle", xClient[c].n + 1, xClient[c].todo, 0, got)
      BY Zenon, <2>0, <2>5, <1>a, FinishCommandFacts
    <3>2. \A r : ~Holds(c, r)'
      BY <3>1 DEF Moves, Holds, ActivePcs, ResetPcs
    <3>3. CASE xClient[c].pc = "cmdWait"
      <4>1. xRing' = xRing
        BY Zenon, <2>0, <2>5, <1>a, <3>3, FinishCommandFacts
      <4>2. \A r : ~Holds(c, r)
        BY <3>3 DEF Holds, ActivePcs, ResetPcs
      <4>3. \A r \in EndpointRings : SamePermit(r) /\ KeepsPermit(c, r)
        BY <3>2, <4>1, <4>2 DEF SamePermit, KeepsPermit
      <4> QED BY <3>1, <4>3, <2>z DEF Moves
    <3>4. CASE xClient[c].pc = "resetWait"
      <4> PICK q : q = Request(c).ring
        OBVIOUS
      <4>1. q \in EndpointRings /\ xRing[q].scope = 0 /\ Rewrites(q, [xRing[q] EXCEPT !.scope = 1])
        BY Zenon, <2>0, <2>5, <1>a, <3>4, FinishCommandFacts
      <4>2. Holds(c, q) /\ \A r : r # q => ~Holds(c, r)
        BY <3>4 DEF Holds, ResetPcs
      <4>3. xRing'[q].scope = 1 /\ xRing'[q].signal = xRing[q].signal /\ xRing'[q].state = xRing[q].state
            /\ xRing[q].signal \in {0, 1}
        BY <4>1, <1>b DEF Rewrites, RingSet
      <4>4. \A d \in XClients : Holds(d, q) => xClient[d].pc \notin ActivePcs
        BY <4>1, <4>2, <3>4, <1>b DEF PermitOK, ActivePcs
      <4>5. xRing[q].signal = 0 /\ xRing[q].state # "Scheduled"
        BY <4>1, <4>3, <4>4, <1>b DEF PermitOK
      <4>6. \A d \in XClients : d # c => KeepsPermit(d, q)
        BY <3>1, <2>y DEF Moves
      <4>7. PermitOK(q)'
        BY <4>1, <4>2, <4>3, <4>5, <4>6, <3>2, <1>b, PermitReturned
      <4>8. ASSUME NEW r \in EndpointRings, r # q PROVE PermitOK(r)'
        <5>1. SamePermit(r)
          BY <4>1, <4>8, <1>b DEF Rewrites, SamePermit
        <5>2. KeepsPermit(c, r)
          BY <3>2, <4>2, <4>8 DEF KeepsPermit
        <5>3. \A d \in XClients : KeepsPermit(d, r)
          BY <3>1, <5>2, OtherPermits DEF Moves
        <5> QED BY <5>1, <5>3, <1>b, PermitRests
      <4> QED BY <4>7, <4>8 DEF PermitsOK
    <3> QED BY <3>1, <3>3, <3>4
  <2>6. CASE Scope(c) \/ ScopeGranted(c)
    <3> PICK q : q = Request(c).ring
      OBVIOUS
    <3>1. /\ Moves(c, "issue", xClient[c].n, TrbsOf(Request(c)), xClient[c].crb, xClient[c].got)
          /\ xClient[c].pc \in {"idle", "scopeWait"} /\ q \in EndpointRings /\ xRing[q].scope = 1
          /\ Rewrites(q, [xRing[q] EXCEPT !.scope = 0, !.state = "Scheduled"])
      BY Zenon, <2>0, <2>6, <1>a, ScopeFacts
    <3>2. Request(c)' = Request(c)
      BY <3>1, SameRequest DEF Moves
    <3>3. Holds(c, q)' /\ xClient'[c].pc = "issue" /\ \A r : ~Holds(c, r)
      BY <3>1, <3>2 DEF Moves, Holds, ActivePcs, ResetPcs
    <3>4. \A r : r # q => ~Holds(c, r)'
      BY <3>2 DEF Holds
    <3>5. xRing'[q].scope = 0 /\ xRing'[q].signal = xRing[q].signal /\ xRing'[q].state = "Scheduled"
            /\ xRing[q].signal \in {0, 1}
      BY <3>1, <1>b DEF Rewrites, RingSet
    <3>6. \A d \in XClients : d # c => KeepsPermit(d, q)
      BY <3>1, <2>y DEF Moves
    <3>7. PermitOK(q)'
      BY <3>1, <3>3, <3>5, <3>6, <1>b, PermitTaken
    <3>8. ASSUME NEW r \in EndpointRings, r # q PROVE PermitOK(r)'
      <5>1. SamePermit(r)
        BY <3>1, <3>8, <1>b DEF Rewrites, SamePermit
      <5>2. KeepsPermit(c, r)
        BY <3>3, <3>4, <3>8 DEF KeepsPermit
      <5>3. \A d \in XClients : KeepsPermit(d, r)
        BY <3>1, <5>2, OtherPermits DEF Moves
      <5> QED BY <5>1, <5>3, <1>b, PermitRests
    <3> QED BY <3>7, <3>8 DEF PermitsOK
  <2>7. CASE ScopeWait(c)
    <3>1. /\ Moves(c, "scopeWait", xClient[c].n, xClient[c].todo, xClient[c].crb, xClient[c].got)
          /\ xClient[c].pc = "idle" /\ xRing' = xRing
      BY <2>7, <1>a, ScopeWaitFacts
    <3>5. \A r \in EndpointRings : SamePermit(r) /\ KeepsPermit(c, r)
      BY <3>1 DEF SamePermit, KeepsPermit, Holds, Moves, ActivePcs, ResetPcs
    <3> QED BY <3>1, <3>5, <2>z DEF Moves
  <2>8. CASE IssueStage(c)
    <3>1. /\ Moves(c, IF Len(xClient[c].todo) = 1 THEN "bell" ELSE "issue", xClient[c].n,
                    Tail(xClient[c].todo), xClient[c].crb, xClient[c].got)
          /\ xClient[c].pc = "issue" /\ Request(c).ring \in EndpointRings
          /\ Head(xClient[c].todo) \in StageTypes /\ TagOf(c) \in Tags
          /\ Rewrites(Request(c).ring,
                       IssueTrb(xRing[Request(c).ring], Head(xClient[c].todo), TagOf(c)))
      BY <2>0, <2>8, <1>a, IssueStageFacts
    <3>3. Request(c)' = Request(c)
      BY <3>1, SameRequest DEF Moves
    <3>4. /\ xClient[c].pc \in ActivePcs <=> xClient'[c].pc \in ActivePcs
          /\ xClient[c].pc \in ResetPcs \cup {"reset"} <=> xClient'[c].pc \in ResetPcs \cup {"reset"}
      BY <3>1 DEF Moves, ActivePcs, ResetPcs
    <3>5. Head(xClient[c].todo) \in TrbTypes /\ Request(c).ring \in Rings
      BY <3>1 DEF TrbTypes, Rings
    <3>6. \A r \in Rings : SamePermit(r)
      BY <3>1, <3>5, <1>a, IssuedPermit
    <3>7. \A r \in EndpointRings : SamePermit(r) /\ KeepsPermit(c, r)
      BY <3>6, <3>3, <3>4, <1>b, GoesOn
    <3> QED BY <3>1, <3>7, <2>z DEF Moves
  <2>9. CASE RingDoorbell(c)
    <3>1. /\ Moves(c, "wait", xClient[c].n, xClient[c].todo, xClient[c].crb, xClient[c].got)
          /\ xClient[c].pc = "bell" /\ xRing' = xRing
      BY <2>0, <2>9, <1>a, BellFacts
    <3>3. Request(c)' = Request(c)
      BY <3>1, SameRequest DEF Moves
    <3>4. /\ xClient[c].pc \in ActivePcs <=> xClient'[c].pc \in ActivePcs
          /\ xClient[c].pc \in ResetPcs \cup {"reset"} <=> xClient'[c].pc \in ResetPcs \cup {"reset"}
      BY <3>1 DEF Moves, ActivePcs, ResetPcs
    <3>5. \A r \in EndpointRings : SamePermit(r) /\ KeepsPermit(c, r)
      BY <3>1, <3>3, <3>4, GoesOn DEF SamePermit
    <3> QED BY <3>1, <3>5, <2>z DEF Moves
  <2>10. CASE FinishTransfer(c)
    <3> PICK q : q = Request(c).ring
      OBVIOUS
    <3>1. /\ q \in EndpointRings /\ xClient[c].pc = "wait" /\ xRing[q].scope = 0
          /\ xRing[q].signal = 1 /\ xRing[q].state = "Completed"
          /\ \/ /\ Rewrites(q, [xRing[q] EXCEPT !.signal = 0])
                /\ Moves(c, "reset", xClient[c].n, xClient[c].todo, xClient[c].crb, xRing[q].response)
             \/ /\ Rewrites(q, [xRing[q] EXCEPT !.signal = 0, !.scope = 1])
                /\ Moves(c, "idle", xClient[c].n + 1, xClient[c].todo, xClient[c].crb, xRing[q].response)
      BY Zenon, <2>0, <2>10, <1>a, FinishTransferFacts
    <3>2. Holds(c, q) /\ \A r : r # q => ~Holds(c, r)
      BY <3>1 DEF Holds, ActivePcs
    <3>3. /\ \A d \in XClients : d # c => xClient'[d] = xClient[d]
          /\ \A r \in Rings : r # q => xRing'[r] = xRing[r]
      BY <3>1 DEF Moves, Rewrites
    <3>4. \A r : r # q => ~Holds(c, r)'
      <4>1. CASE Moves(c, "reset", xClient[c].n, xClient[c].todo, xClient[c].crb, xRing[q].response)
        <5>1. Request(c)' = Request(c)
          BY <4>1, SameRequest DEF Moves
        <5> QED BY <5>1 DEF Holds
      <4>2. CASE Moves(c, "idle", xClient[c].n + 1, xClient[c].todo, xClient[c].crb, xRing[q].response)
        BY <4>2 DEF Moves, Holds, ActivePcs, ResetPcs
      <4> QED BY <3>1, <4>1, <4>2
    <3>5. ASSUME NEW r \in EndpointRings, r # q PROVE PermitOK(r)'
      <4>1. SamePermit(r)
        BY <3>3, <3>5, <1>b DEF SamePermit
      <4>2. KeepsPermit(c, r)
        BY <3>2, <3>4, <3>5 DEF KeepsPermit
      <4>3. \A d \in XClients : KeepsPermit(d, r)
        BY <3>3, <4>2, OtherPermits
      <4> QED BY <4>1, <4>3, <1>b, PermitRests
    <3>6. \A d \in XClients : d # c => KeepsPermit(d, q)
      BY <3>3, <2>y
    <3>7. CASE /\ Rewrites(q, [xRing[q] EXCEPT !.signal = 0])
               /\ Moves(c, "reset", xClient[c].n, xClient[c].todo, xClient[c].crb, xRing[q].response)
      <4>1. Request(c)' = Request(c)
        BY <3>7, SameRequest DEF Moves
      <4>2. Holds(c, q)' /\ xClient'[c].pc \notin ActivePcs
        BY <4>1, <3>7 DEF Moves, Holds, ActivePcs
      <4>3. xRing'[q].scope = 0 /\ xRing'[q].signal = 0 /\ xRing'[q].state = "Completed"
        BY <3>1, <3>7, <1>b DEF Rewrites, RingSet
      <4>4. \A d \in XClients : Holds(d, q)' => d = c
        BY <3>1, <3>2, <3>6, <1>b DEF PermitOK, KeepsPermit
      <4>5. PermitOK(q)'
        BY <4>2, <4>3, <4>4 DEF PermitOK
      <4> QED BY <4>5, <3>5 DEF PermitsOK
    <3>8. CASE /\ Rewrites(q, [xRing[q] EXCEPT !.signal = 0, !.scope = 1])
               /\ Moves(c, "idle", xClient[c].n + 1, xClient[c].todo, xClient[c].crb, xRing[q].response)
      <4>2. ~Holds(c, q)'
        BY <3>8 DEF Moves, Holds, ActivePcs, ResetPcs
      <4>3. xRing'[q].scope = 1 /\ xRing'[q].signal = 0 /\ xRing'[q].state # "Scheduled"
        BY <3>1, <3>8, <1>b DEF Rewrites, RingSet
      <4>5. PermitOK(q)'
        BY <4>2, <4>3, <3>1, <3>2, <3>6, <1>b, PermitReturned
      <4> QED BY <4>5, <3>5 DEF PermitsOK
    <3> QED BY <3>1, <3>7, <3>8
  <2> QED BY <1>1, <2>1, <2>2, <2>3, <2>4, <2>5, <2>6, <2>7, <2>8, <2>9, <2>10 DEF XClientStep
<1>2. ASSUME NEW b \in 1..CrbCount, ReuseDelayEnds(b) PROVE PermitsOK'
  BY <1>2, <1>c DEF ReuseDelayEnds
<1>4. ASSUME NEW r \in Rings, HcConsume(r) \/ HcStop(r) PROVE PermitsOK'
  BY <1>4, <1>c DEF HcConsume, HcStop
<1>5. ASSUME NEW r \in Rings, NEW code \in {"STALL", "TRANSACTION"}, HcFail(r, code)
      PROVE  PermitsOK'
  BY <1>5, <1>c DEF HcFail
<1>6. CASE MsiHandler \/ EventThreadWakes \/ DequeueEvent \/ HandleCommand
  BY Zenon, <1>6, <1>c DEF MsiHandler, EventThreadWakes, DequeueEvent, HandleCommand
<1>y. ASSUME xClient' = xClient PROVE \A d \in XClients : \A r : KeepsPermit(d, r)
  BY <1>y, OtherPermits
<1>7. CASE HandleFailure
  <2>1. CASE xRing' = xRing
    BY Zenon, <2>1, <1>7, <1>c DEF HandleFailure
  <2>2. CASE xRing' # xRing
    <3>1. /\ Event.ring \in EndpointRings /\ xClient' = xClient
          /\ Rewrites(Event.ring, [xRing[Event.ring] EXCEPT !.trb = Patch(xRing[Event.ring].trb, Event.ptr)])
      BY Zenon, <2>2, <1>7, <1>a, HandleFailureFacts, InHand
    <3>2. \A r \in EndpointRings : SamePermit(r)
      BY <3>1, <1>b DEF Rewrites, SamePermit, RingSet
    <3> QED BY <3>1, <3>2, <1>y, <1>b, PermitRests DEF PermitsOK
  <2> QED BY <2>1, <2>2
<1>8. CASE HandleTransfer
  <2>1. CASE xRing' = xRing
    BY Zenon, <2>1, <1>8, <1>c DEF HandleTransfer
  <2>2. CASE xRing' # xRing
    <3> PICK q : q = Event.ring
      OBVIOUS
    <3>1. /\ q \in EndpointRings /\ xClient' = xClient /\ xRing[q].state = "Scheduled"
          /\ Rewrites(q, [xRing[q] EXCEPT !.state = "Completed",
                               !.response = Event.tag, !.code = Event.code, !.signal = 1])
      BY <2>2, <1>8, <1>a, HandleTransferFacts
    <3>2. xRing'[q].scope = xRing[q].scope /\ xRing'[q].signal = 1 /\ xRing'[q].state = "Completed"
      BY <3>1, <1>b DEF Rewrites, RingSet
    <3>3. \A d \in XClients : \A r : Holds(d, r)' <=> Holds(d, r)
      BY <3>1, OtherStays
    <3>4. PermitOK(q)'
      BY <3>1, <3>2, <3>3, <1>b DEF PermitOK
    <3>5. ASSUME NEW r \in EndpointRings, r # q PROVE PermitOK(r)'
      <4>1. SamePermit(r)
        BY <3>1, <3>5, <1>b DEF Rewrites, SamePermit
      <4> QED BY <3>1, <4>1, <1>y, <1>b, PermitRests
    <3> QED BY <3>4, <3>5 DEF PermitsOK
  <2> QED BY <2>1, <2>2
<1> QED BY <1>1, <1>2, <1>4, <1>5, <1>6, <1>7, <1>8 DEF XNext, EventThread

-----------------------------------------------------------------------------
(* The stages that are left to write *)

TodoOf(c) == xClient[c].pc \in ActivePcs =>
    /\ Len(xClient[c].todo) <= Len(TrbsOf(Request(c)))
    /\ \A j \in 1..Len(xClient[c].todo) : xClient[c].todo[j] = TrbsOf(Request(c))[Written(c) + j]

LEMMA TodoRests ==
    ASSUME NEW d \in XClients, TodoOf(d), xClient'[d].todo = xClient[d].todo,
           xClient'[d].pc \in ActivePcs => xClient[d].pc \in ActivePcs /\ Request(d)' = Request(d)
    PROVE  TodoOf(d)'
BY DEF TodoOf, Written

LEMMA TodoIssued ==
    ASSUME NEW s \in Seq(StageTypes), s # <<>>, NEW T, NEW n \in Nat, n = Len(T), Len(s) <= Len(T),
           \A j \in 1..Len(s) : s[j] = T[Len(T) - Len(s) + j]
    PROVE  /\ Len(Tail(s)) = Len(s) - 1 /\ Len(Tail(s)) <= Len(T)
           /\ Len(T) - Len(Tail(s)) = Len(T) - Len(s) + 1
           /\ \A j \in 1..Len(Tail(s)) : Tail(s)[j] = T[Len(T) - Len(Tail(s)) + j]
           /\ Head(s) = T[Len(T) - Len(Tail(s))]
<1>1. Len(s) \in Nat /\ Len(s) > 0 /\ Len(Tail(s)) = Len(s) - 1
      /\ \A j \in 1..Len(Tail(s)) : Tail(s)[j] = s[j + 1]
  BY EmptySeq, HeadTailProperties
<1>2. Head(s) = s[1]
  OBVIOUS
<1>3. ASSUME NEW j \in 1..Len(Tail(s)) PROVE Tail(s)[j] = T[n - Len(Tail(s)) + j]
  <2>1. j + 1 \in 1..Len(s) /\ n - Len(s) + (j + 1) = n - Len(Tail(s)) + j
    BY <1>1
  <2> QED BY <2>1, <1>1
<1>4. 1 \in 1..Len(s) /\ n - Len(s) + 1 = n - Len(Tail(s))
  BY <1>1
<1> QED BY <1>1, <1>2, <1>3, <1>4

LEMMA TodoKept ==
    ASSUME XInv, XNext
    PROVE  TodoOK'
<1>a. XTypes /\ EventRingOK /\ RespondOK /\ PermitsOK /\ BlocksOK /\ Producers /\ ClientsOK
  BY DEF XInv
<1>b. \A d \in XClients : TodoOf(d) /\ ClientOK(d)
  BY DEF XInv, TodoOK, TodoOf, ClientsOK
<1>c. ASSUME xClient' = xClient PROVE TodoOK'
  BY <1>c, <1>b DEF TodoOK, TodoOf, Written, Request
<1>1. ASSUME NEW c \in XClients, XClientStep(c) PROVE TodoOK'
  <2>y. ASSUME NEW d \in XClients, xClient'[d] = xClient[d] PROVE TodoOf(d)'
    BY <2>y, <1>b, TodoRests, OtherStays
  <2>z. ASSUME TodoOf(c)', \A d \in XClients : d # c => xClient'[d] = xClient[d]
        PROVE  TodoOK'
    BY <2>z, <2>y DEF TodoOK, TodoOf
  <2>0. ClientOK(c) /\ TodoOf(c)
    BY <1>b
  <2>1. CASE AllocateCrb(c)
    <3>1. PICK b \in 1..CrbCount :
             Moves(c, IF xClient[c].pc = "reset" THEN "resetIssue" ELSE "cmdIssue",
                      xClient[c].n, xClient[c].todo, b, xClient[c].got)
      BY <2>1, <1>a, AllocateFacts
    <3>2. xClient'[c].pc \notin ActivePcs
      BY <3>1 DEF Moves, ActivePcs
    <3> QED BY <3>1, <3>2, <2>z DEF Moves, TodoOf
  <2>2. CASE NoCrb(c)
    BY <2>2, <1>c DEF NoCrb
  <2>3. CASE IssueCommand(c)
    <3>1. Moves(c, IF xClient[c].pc \in ResetPcs THEN "resetBell" ELSE "cmdBell",
                    xClient[c].n, xClient[c].todo, xClient[c].crb, xClient[c].got)
      BY Zenon, <2>0, <2>3, <1>a, IssueCommandFacts
    <3>2. xClient'[c].pc \notin ActivePcs
      BY <3>1 DEF Moves, ActivePcs
    <3> QED BY <3>1, <3>2, <2>z DEF Moves, TodoOf
  <2>4. CASE RingCommandDoorbell(c)
    <3>1. Moves(c, IF xClient[c].pc = "cmdBell" THEN "cmdWait" ELSE "resetWait",
                    xClient[c].n, xClient[c].todo, xClient[c].crb, xClient[c].got)
      BY <2>0, <2>4, <1>a, DoorbellFacts
    <3>2. xClient'[c].pc \notin ActivePcs
      BY <3>1 DEF Moves, ActivePcs
    <3> QED BY <3>1, <3>2, <2>z DEF Moves, TodoOf
  <2>5. CASE FinishCommand(c)
    <3>1. \E got : Moves(c, "idle", xClient[c].n + 1, xClient[c].todo, 0, got)
      BY Zenon, <2>0, <2>5, <1>a, FinishCommandFacts
    <3>2. xClient'[c].pc \notin ActivePcs
      BY <3>1 DEF Moves, ActivePcs
    <3> QED BY <3>1, <3>2, <2>z DEF Moves, TodoOf
  <2>6. CASE Scope(c) \/ ScopeGranted(c)
    <3>1. /\ Moves(c, "issue", xClient[c].n, TrbsOf(Request(c)), xClient[c].crb, xClient[c].got)
          /\ HasRequest(c) /\ Request(c).kind # "command"
      BY Zenon, <2>0, <2>6, <1>a, ScopeFacts
    <3>2. Request(c)' = Request(c)
      BY <3>1, SameRequest DEF Moves
    <3>3. Len(TrbsOf(Request(c))) \in 1..3
      BY <3>1, <1>a, RequestTypes, StagesTyped
    <3>4. Written(c)' = 0 /\ xClient'[c].todo = TrbsOf(Request(c))
      BY <3>1, <3>2, <3>3 DEF Moves, Written
    <3>5. TodoOf(c)'
      BY <3>2, <3>3, <3>4 DEF TodoOf
    <3> QED BY <3>1, <3>5, <2>z DEF Moves
  <2>7. CASE ScopeWait(c)
    <3>1. Moves(c, "scopeWait", xClient[c].n, xClient[c].todo, xClient[c].crb, xClient[c].got)
      BY <2>7, <1>a, ScopeWaitFacts
    <3>2. xClient'[c].pc \notin ActivePcs
      BY <3>1 DEF Moves, ActivePcs
    <3> QED BY <3>1, <3>2, <2>z DEF Moves, TodoOf
  <2>8. CASE IssueStage(c)
    <3>1. /\ Moves(c, IF Len(xClient[c].todo) = 1 THEN "bell" ELSE "issue", xClient[c].n,
                    Tail(xClient[c].todo), xClient[c].crb, xClient[c].got)
          /\ HasRequest(c) /\ Request(c).kind # "command" /\ xClient[c].pc = "issue"
          /\ xClient[c].todo # <<>>
      BY <2>0, <2>8, <1>a, IssueStageFacts
    <3>2. Request(c)' = Request(c)
      BY <3>1, SameRequest DEF Moves
    <3>3. Len(TrbsOf(Request(c))) \in Nat /\ xClient[c].todo \in Seq(StageTypes)
      BY <3>1, <1>a, RequestTypes, StagesTyped, ClientTypes
    <3>4. /\ Len(xClient[c].todo) <= Len(TrbsOf(Request(c)))
          /\ \A j \in 1..Len(xClient[c].todo) :
               xClient[c].todo[j] = TrbsOf(Request(c))[Len(TrbsOf(Request(c))) - Len(xClient[c].todo) + j]
      BY <2>0, <3>1 DEF TodoOf, ActivePcs, Written
    <3>5. \A s, T : s = xClient[c].todo /\ T = TrbsOf(Request(c)) =>
             /\ Len(Tail(s)) <= Len(T)
             /\ \A j \in 1..Len(Tail(s)) : Tail(s)[j] = T[Len(T) - Len(Tail(s)) + j]
      <4> TAKE s, T
      <4> HAVE s = xClient[c].todo /\ T = TrbsOf(Request(c))
      <4>1. /\ s \in Seq(StageTypes) /\ s # <<>> /\ Len(T) \in Nat /\ Len(s) <= Len(T)
            /\ \A j \in 1..Len(s) : s[j] = T[Len(T) - Len(s) + j]
        BY <3>1, <3>3, <3>4
      <4> QED BY <4>1, TodoIssued
    <3>6. xClient'[c].todo = Tail(xClient[c].todo)
      BY <3>1 DEF Moves
    <3>7. TodoOf(c)'
      <4>1. LET s == xClient[c].todo
                T == TrbsOf(Request(c))
            IN /\ Len(Tail(s)) <= Len(T)
               /\ \A j \in 1..Len(Tail(s)) : Tail(s)[j] = T[Len(T) - Len(Tail(s)) + j]
        BY <3>5
      <4> QED BY <3>2, <4>1, <3>6 DEF TodoOf, Written
    <3> QED BY <3>1, <3>7, <2>z DEF Moves
  <2>9. CASE RingDoorbell(c)
    <3>1. /\ Moves(c, "wait", xClient[c].n, xClient[c].todo, xClient[c].crb, xClient[c].got)
          /\ xClient[c].pc = "bell"
      BY <2>0, <2>9, <1>a, BellFacts
    <3>2. Request(c)' = Request(c)
      BY <3>1, SameRequest DEF Moves
    <3>3. TodoOf(c)'
      BY <3>1, <3>2, <2>0, TodoRests DEF Moves, ActivePcs
    <3> QED BY <3>1, <3>3, <2>z DEF Moves
  <2>10. CASE FinishTransfer(c)
    <3>1. \E pc \in {"reset", "idle"} : \E n, got : Moves(c, pc, n, xClient[c].todo, xClient[c].crb, got)
      BY Zenon, <2>0, <2>10, <1>a, FinishTransferFacts
    <3>2. xClient'[c].pc \notin ActivePcs
      BY <3>1 DEF Moves, ActivePcs
    <3> QED BY <3>1, <3>2, <2>z DEF Moves, TodoOf
  <2> QED BY <1>1, <2>1, <2>2, <2>3, <2>4, <2>5, <2>6, <2>7, <2>8, <2>9, <2>10 DEF XClientStep
<1>3. ASSUME NEW b \in 1..CrbCount, ReuseDelayEnds(b) PROVE xClient' = xClient
  BY <1>3 DEF ReuseDelayEnds
<1>4. ASSUME NEW r \in Rings, HcConsume(r) \/ HcStop(r) PROVE xClient' = xClient
  BY <1>4 DEF HcConsume, HcStop
<1>5. ASSUME NEW r \in Rings, NEW code \in {"STALL", "TRANSACTION"}, HcFail(r, code)
      PROVE  xClient' = xClient
  BY <1>5 DEF HcFail
<1>6. MsiHandler \/ EventThread => xClient' = xClient
  BY Zenon DEF MsiHandler, EventThread, EventThreadWakes, DequeueEvent, HandleCommand, HandleFailure, HandleTransfer
<1> QED BY <1>1, <1>c, <1>3, <1>4, <1>5, <1>6 DEF XNext

-----------------------------------------------------------------------------
(* The event ring, in every step *)

\* The events are the same and the thread is not at another one.
EventsUntouched ==
    /\ xEvent' = xEvent /\ xHc'.enq = xHc.enq /\ xHc'.pcs = xHc.pcs
    /\ xThread'.at = xThread.at
    /\ \/ xThread'.pc = xThread.pc
       \/ xThread.pc = "handle" /\ xThread'.pc = "respond"
       \/ xThread.pc = "wait" /\ xThread'.pc = "dequeue"

LEMMA EventsStay ==
    ASSUME XTypes, EventRingOK, EventsUntouched
    PROVE  EventRingOK' /\ EventsSame
<1>1. \/ Handling' /\ Handling /\ xThread'.at = xThread.at
      \/ ~Handling' /\ ~Handling
  BY DEF EventsUntouched, Handling
<1> QED BY <1>1, EventsRest DEF EventsUntouched

LEMMA ClientUntouched ==
    ASSUME XTypes, NEW c \in XClients, XClientStep(c)
    PROVE  EventsUntouched /\ xThread' = xThread /\ xHc'.deq = xHc.deq /\ xHc'.ccs = xHc.ccs
           /\ xHc'.halted = xHc.halted
<1>0. xHc \in HcSet
  BY Zenon DEF XTypes
<1>1. CASE RingCommandDoorbell(c) \/ RingDoorbell(c)
  <2>1. xEvent' = xEvent /\ xThread' = xThread /\ \E r : xHc' = [xHc EXCEPT !.bells = @ \cup {r}]
    BY Zenon, <1>1 DEF RingCommandDoorbell, RingDoorbell
  <2>2. xHc'.enq = xHc.enq /\ xHc'.pcs = xHc.pcs /\ xHc'.deq = xHc.deq /\ xHc'.ccs = xHc.ccs
        /\ xHc'.halted = xHc.halted
    BY <2>1, <1>0 DEF HcSet
  <2> QED BY <2>1, <2>2 DEF EventsUntouched
<1>2. CASE ~(RingCommandDoorbell(c) \/ RingDoorbell(c))
  <2>1. xEvent' = xEvent /\ xThread' = xThread /\ xHc' = xHc
    BY Zenon, <1>2 DEF XClientStep, AllocateCrb, NoCrb, IssueCommand, FinishCommand, Scope, ScopeWait,
                ScopeGranted, IssueStage, FinishTransfer
  <2> QED BY <2>1 DEF EventsUntouched
<1> QED BY <1>1, <1>2

LEMMA EventsKept ==
    ASSUME XInv, XNext
    PROVE  EventRingOK' /\ RespondOK'
<1>a. XTypes /\ EventRingOK /\ RespondOK /\ PermitsOK /\ BlocksOK /\ Producers /\ ClientsOK
  BY DEF XInv
<1>b. ASSUME EventsUntouched, xThread'.pc = "respond" => xThread.pc = "respond" PROVE EventRingOK' /\ RespondOK'
  <2>1. EventRingOK'
    BY <1>a, <1>b, EventsStay
  <2>2. Event' = Event
    BY <1>b DEF EventsUntouched, Event
  <2> QED BY <2>1, <2>2, <1>a, <1>b DEF RespondOK, EventsUntouched
<1>1. ASSUME NEW c \in XClients, XClientStep(c) PROVE EventRingOK' /\ RespondOK'
  BY <1>1, <1>a, <1>b, ClientUntouched
<1>2. ASSUME NEW b \in 1..CrbCount, ReuseDelayEnds(b) PROVE EventRingOK' /\ RespondOK'
  BY <1>2, <1>b DEF ReuseDelayEnds, EventsUntouched
<1>3. ASSUME NEW r \in Rings, NEW code \in {"SUCCESS", "STALL", "TRANSACTION"}, xHc.deq[r] \in Pos,
             NextEnq # xEvent.erdp, xHc'.enq = NextEnq, xHc'.pcs = Enqueued, Interrupts,
             xEvent' = [xEvent EXCEPT !.slot[xHc.enq] = PostedEvent(r, code)]
      PROVE  EventRingOK' /\ RespondOK'
  <2> PICK k : k = xHc.enq
    OBVIOUS
  <2> PICK e : e = PostedEvent(r, code)
    OBVIOUS
  <2>1. e \in EventSet /\ e.cycle = xHc.pcs /\ (e.kind = "command" <=> e.ring = CommandRing)
    BY <1>3, <1>a, PostedTyped
  <2>2. xThread'.pc = xThread.pc /\ xThread'.at = xThread.at
    BY <1>3 DEF Interrupts
  <2>3. /\ EventRingOK'
        /\ k \in EventSlots /\ ~Live(k)
        /\ \A i \in EventSlots \ {k} : xEvent'.slot[i] = xEvent.slot[i]
    BY <2>1, <2>2, <1>3, <1>a, EventPosted
  <2>4. ASSUME xThread.pc = "respond" PROVE Event' = Event
    <3>1. xThread.at \in EventSlots /\ Live(xThread.at)
      BY <1>a, <2>4, InHand DEF Handling
    <3>2. xThread.at # k
      BY <2>3, <3>1
    <3> QED BY <3>1, <3>2, <2>2, <2>3 DEF Event
  <2> QED BY <2>2, <2>3, <2>4, <1>a DEF RespondOK
<1>4. ASSUME NEW r \in Rings, HcConsume(r) PROVE EventRingOK' /\ RespondOK'
  <2>2. CASE xRing[r].trb[xHc.deq[r]].type = "LINK"
    BY <2>2, <1>4, <1>a, <1>b, LinkRead DEF EventsUntouched
  <2>3. CASE xRing[r].trb[xHc.deq[r]].type # "LINK" /\ ~Reports(xRing[r].trb[xHc.deq[r]].type)
    BY SMTT(60), <2>3, <1>4, <1>a, <1>b, StageRead DEF EventsUntouched
  <2>4. CASE Reports(xRing[r].trb[xHc.deq[r]].type)
    BY <2>4, <1>3, <1>4, <1>a, ReportRead
  <2> QED BY <2>2, <2>3, <2>4
<1>5. ASSUME NEW r \in Rings, HcStop(r) PROVE EventRingOK' /\ RespondOK'
  <2>1. xHc'.enq = xHc.enq /\ xHc'.pcs = xHc.pcs
    BY Zenon, <1>5, <1>a DEF HcStop, XTypes, HcSet
  <2> QED BY <2>1, <1>b, <1>5 DEF HcStop, EventsUntouched
<1>6. ASSUME NEW r \in Rings, NEW code \in {"STALL", "TRANSACTION"}, HcFail(r, code)
      PROVE  EventRingOK' /\ RespondOK'
  BY <1>6, <1>3, <1>a, FailRead
<1>7. CASE MsiHandler \/ EventThreadWakes
  <2>1. EventsUntouched /\ (xThread'.pc # "respond" \/ xThread'.pc = xThread.pc)
    BY Zenon, <1>7, <1>a DEF MsiHandler, EventThreadWakes, EventsUntouched, XTypes, ThreadSet
  <2> QED BY <2>1, <1>b
<1>8. CASE DequeueEvent
  BY <1>8, <1>a, Dequeued DEF RespondOK
<1>9. CASE HandleCommand
  <2>1. CASE xPanic' # xPanic
    <3>1. EventsUntouched /\ xThread' = xThread
      BY Zenon, <2>1, <1>9, <1>a, HandleCommandFacts DEF EventsUntouched
    <3> QED BY <3>1, <1>b
  <2>2. CASE xPanic' = xPanic
    <3>1. Handling /\ xEvent' = xEvent /\ xHc' = xHc /\ xThread'.pc = "dequeue" /\ xThread'.at = xThread.at
      BY Zenon, <2>2, <1>9, <1>a, HandleCommandFacts DEF ThreadGoes, HandleCommand, Running
    <3> QED BY <3>1, <1>a, Dealt DEF RespondOK
  <2> QED BY <2>1, <2>2
<1>10. CASE HandleFailure
  <2>1. /\ Handling /\ xThread.pc = "handle" /\ Event.kind = "transfer" /\ EventsUntouched
    BY Zenon, <1>10, <1>a, HandleFailureFacts DEF EventsUntouched, ThreadGoes
  <2>2. EventRingOK'
    BY <2>1, <1>a, EventsStay
  <2>3. Event' = Event
    BY <2>1 DEF EventsUntouched, Event
  <2> QED BY <2>1, <2>2, <2>3 DEF RespondOK
<1>11. CASE HandleTransfer
  <2>1. Handling /\ xEvent' = xEvent /\ xHc' = xHc /\ xThread'.pc = "dequeue" /\ xThread'.at = xThread.at
    BY <1>11, <1>a, HandleTransferFacts DEF ThreadGoes
  <2> QED BY <2>1, <1>a, Dealt DEF RespondOK
<1> QED BY <1>1, <1>2, <1>4, <1>5, <1>6, <1>7, <1>8, <1>9, <1>10, <1>11 DEF XNext, EventThread

-----------------------------------------------------------------------------
(* The command ring *)

\* What the commands see of the event ring.
CmdEventsSame == \A i \in EventSlots :
    /\ LiveCmd(i)' <=> LiveCmd(i)
    /\ LiveCmd(i) => xEvent'.slot[i] = xEvent.slot[i]
    /\ \A j \in EventSlots : LiveCmd(i) /\ LiveCmd(j) /\ Turn(i)' < Turn(j)' => Turn(i) < Turn(j)

LEMMA CmdEventsStay ==
    ASSUME EventsSame
    PROVE  CmdEventsSame
BY DEF EventsSame, CmdEventsSame, LiveCmd

\* The same commands are scheduled.
SchedSame == \A b \in 1..CrbCount :
    /\ xCrb'[b].state = "Scheduled" <=> xCrb[b].state = "Scheduled"
    /\ xCrb[b].state = "Scheduled" => xCrb'[b].at = xCrb[b].at

LEMMA CommandsRest ==
    ASSUME CommandsOK, Rests(CommandRing), xHc'.deq[CommandRing] = xHc.deq[CommandRing],
           xHc'.ccs[CommandRing] = xHc.ccs[CommandRing], SchedSame, CmdEventsSame
    PROVE  CommandsOK'
<1>1. Sched' = Sched /\ \A b \in Sched : xCrb'[b].at = xCrb[b].at /\ PosOf(b)' = PosOf(b)
  BY DEF SchedSame, Sched, PosOf
<1>2. (\A q : CAge(q)' = CAge(q)) /\ U(CommandRing)' = U(CommandRing)
  BY DEF Rests, CAge, Age, U, Unread
<1>3. InStep(xRing[CommandRing], xHc.deq[CommandRing], xHc.ccs[CommandRing])'
  BY DEF CommandsOK, Rests, InStep
<1>4. (\A b \in Sched : xCrb[b].at # -1)'
  BY <1>1 DEF CommandsOK
<1>5. (\A a, b \in Sched : PosOf(a) = PosOf(b) => a = b)'
  BY <1>1 DEF CommandsOK
<1>6. (\A b \in Sched, q \in Pos : CAge(q) <= CAge(PosOf(b)) => \E a \in Sched : PosOf(a) = q)'
  <2> SUFFICES ASSUME NEW b \in Sched, NEW q \in Pos, CAge(q)' <= CAge(PosOf(b))'
               PROVE  \E a \in Sched : PosOf(a)' = q
    BY <1>1 DEF Pos, MaxTrIndex
  <2>1. PosOf(b)' = PosOf(b)
    BY <1>1
  <2>2. CAge(PosOf(b))' = CAge(PosOf(b))
    BY <2>1 DEF Rests, CAge, Age
  <2>3. PICK a \in Sched : PosOf(a) = q
    BY <1>2, <2>2 DEF CommandsOK
  <2> QED BY <1>1, <2>3
<1>7. (\A q \in Pos : CAge(q) <= U(CommandRing) => \E a \in Sched : PosOf(a) = q)'
  BY <1>1, <1>2 DEF CommandsOK
<1>8. ASSUME NEW i \in EventSlots, LiveCmd(i)'
      PROVE  /\ LiveCmd(i) /\ xEvent'.slot[i] = xEvent.slot[i]
             /\ CAge(xEvent.slot[i].ptr)' = CAge(xEvent.slot[i].ptr)
  <2>1. LiveCmd(i) /\ xEvent'.slot[i] = xEvent.slot[i]
    BY <1>8 DEF CmdEventsSame
  <2> QED BY <2>1 DEF Rests, CAge, Age
<1>9. (\A i \in EventSlots : LiveCmd(i) =>
         /\ \E a \in Sched : PosOf(a) = xEvent.slot[i].ptr
         /\ xEvent.slot[i].tag = xRing[CommandRing].trb[xEvent.slot[i].ptr].tag
         /\ CAge(xEvent.slot[i].ptr) > U(CommandRing))'
  BY <1>1, <1>2, <1>8 DEF CommandsOK, Rests
<1>10. (\A b \in Sched : \/ CAge(PosOf(b)) <= U(CommandRing)
                        \/ \E i \in EventSlots : LiveCmd(i) /\ xEvent.slot[i].ptr = PosOf(b))'
  <2> SUFFICES ASSUME NEW b \in Sched
               PROVE  \/ CAge(PosOf(b))' <= U(CommandRing)'
                      \/ \E i \in EventSlots : LiveCmd(i)' /\ xEvent'.slot[i].ptr = PosOf(b)'
    BY <1>1
  <2>1. PosOf(b)' = PosOf(b)
    BY <1>1
  <2>2. CAge(PosOf(b))' = CAge(PosOf(b))
    BY <2>1 DEF Rests, CAge, Age
  <2> QED BY <1>2, <2>1, <2>2 DEF CommandsOK, CmdEventsSame
<1>11. (\A i, j \in EventSlots : LiveCmd(i) /\ LiveCmd(j) /\ Turn(i) < Turn(j) =>
         CAge(xEvent.slot[i].ptr) > CAge(xEvent.slot[j].ptr))'
  BY <1>8 DEF CommandsOK, CmdEventsSame
<1> QED BY <1>3, <1>4, <1>5, <1>6, <1>7, <1>9, <1>10, <1>11 DEF CommandsOK

LEMMA CommandTagsRest ==
    ASSUME CommandTagsOK, xRing'[CommandRing].trb = xRing[CommandRing].trb,
           \A b \in 1..CrbCount : xCrb'[b].state = "Scheduled" =>
                xCrb[b].state = "Scheduled" /\ xCrb'[b].at = xCrb[b].at,
           \A d \in XClients : OnCommand(d)' /\ xClient'[d].crb \in Sched' =>
                /\ OnCommand(d) /\ xClient'[d].crb = xClient[d].crb
                /\ CmdTag(d)' = CmdTag(d) /\ CmdType(d)' = CmdType(d)
    PROVE  CommandTagsOK'
<1>1. Sched' \subseteq Sched /\ \A b \in Sched' : PosOf(b)' = PosOf(b)
  BY DEF Sched, PosOf
<1> QED BY <1>1 DEF CommandTagsOK

\* A client that has yet to issue its command leaves room in the ring.
LEMMA RoomForCommand ==
    ASSUME XInv, NEW c \in XClients, OnCommand(c), xCrb[xClient[c].crb].state = "Acquired",
           NEW at \in Pos
    PROVE  \E q \in Pos : q # at /\ \A a \in Sched : PosOf(a) # q
<1>a. XTypes /\ BlocksOK /\ CommandsOK
  BY DEF XInv
<1> SUFFICES ASSUME \A q \in Pos : q # at => \E a \in Sched : PosOf(a) = q
             PROVE  FALSE
  OBVIOUS
<1> DEFINE Q == Pos \ {at}
           D == XClients \ {c}
           Owner(q, d) == d \in D /\ OnCommand(d) /\ xClient[d].crb \in Sched /\ PosOf(xClient[d].crb) = q
           f == [q \in Q |-> CHOOSE d \in D : Owner(q, d)]
<1>1. ASSUME NEW q \in Q PROVE \E d \in D : Owner(q, d)
  <2>1. PICK a \in Sched : PosOf(a) = q
    OBVIOUS
  <2>2. a \in 1..CrbCount /\ xCrb[a].state = "Scheduled"
    BY DEF Sched
  <2>3. PICK d \in XClients : OnCommand(d) /\ xClient[d].crb = a
    BY <1>a, <2>2 DEF BlocksOK
  <2>4. d # c
    BY <2>2, <2>3
  <2> QED BY <2>1, <2>3, <2>4
<1>2. \A q \in Q : f[q] \in D /\ Owner(q, f[q])
  BY <1>1
<1>3. f \in [Q -> D]
  BY <1>2
<1>4. IsFiniteSet(XClients) /\ Cardinality(XClients) < MaxTrIndex
  BY XhciAssumption
<1>5. IsFiniteSet(D) /\ Cardinality(D) = Cardinality(XClients) - 1 /\ Cardinality(XClients) \in Nat
  BY <1>4, FS_RemoveElement, FS_CardinalityType
<1>6. IsFiniteSet(Pos) /\ Cardinality(Pos) = MaxTrIndex
  <2>1. MaxTrIndex \in Nat /\ MaxTrIndex >= 7 /\ MaxTrIndex - 1 \in Int /\ 0 \in Int
    BY Sizes
  <2>2. IsFiniteSet(0..MaxTrIndex - 1) /\ Cardinality(0..MaxTrIndex - 1) =
           IF 0 > MaxTrIndex - 1 THEN 0 ELSE (MaxTrIndex - 1) - 0 + 1
    BY <2>1, FS_Interval
  <2> QED BY <2>1, <2>2 DEF Pos
<1>7. IsFiniteSet(Q) /\ Cardinality(Q) = MaxTrIndex - 1
  BY <1>6, FS_RemoveElement
<1>8. Cardinality(D) < Cardinality(Q)
  BY <1>4, <1>5, <1>7, Sizes
<1> HIDE DEF f
<1>9. PICK x \in Q, y \in Q : x # y /\ f[x] = f[y]
  BY <1>3, <1>5, <1>7, <1>8, FS_PigeonHole
<1> QED BY <1>2, <1>9

\* A command is issued.
LEMMA CommandIssued ==
    ASSUME XInv, NEW c \in XClients, IssueCommand(c)
    PROVE  CommandsOK' /\ CommandTagsOK'
<1>a. XTypes /\ BlocksOK /\ CommandsOK /\ CommandTagsOK /\ EventRingOK /\ Producers /\ ClientsOK
  BY DEF XInv
<1>0. ClientOK(c) /\ CommandRing \in Rings
  BY <1>a DEF ClientsOK, Rings
<1> PICK b : b = xClient[c].crb
  OBVIOUS
<1> PICK R : R = xRing[CommandRing]
  OBVIOUS
<1> PICK Q : Q = IssueTrb(R, CmdType(c), CmdTag(c))
  OBVIOUS
<1> PICK at : at = IssuedAt(R)
  OBVIOUS
<1>1. /\ OnCommand(c) /\ b \in 1..CrbCount
      /\ Rewrites(CommandRing, Q)
      /\ Reblocks(b, [xCrb[b] EXCEPT !.state = "Scheduled", !.response = NoTag, !.at = R.index])
      /\ Moves(c, IF xClient[c].pc \in ResetPcs THEN "resetBell" ELSE "cmdBell",
               xClient[c].n, xClient[c].todo, xClient[c].crb, xClient[c].got)
  BY Zenon, <1>0, <1>a, IssueCommandFacts
<1>2. xClient[c].pc \in IssuePcs /\ xHc' = xHc /\ xThread' = xThread /\ xEvent' = xEvent
  BY DEF IssueCommand, IssuePcs
<1>3. xCrb[b].state = "Acquired"
  BY <1>1, <1>2, <1>a DEF BlocksOK, IssuePcs
<1>4. R \in RingSet /\ R.index \in 0..MaxTrIndex /\ Produced(R)
  BY <1>0, <1>a, RingTypes DEF Producers
<1>5. CmdTag(c) \in Tags /\ CmdType(c) \in TrbTypes
  BY <1>0, <1>1, <1>a, CommandTags DEF TrbTypes
<1>6. /\ at \in Pos /\ Q.trb[at] = Trb(CmdType(c), Q.pcs, CmdTag(c))
      /\ \A i \in Pos : i # at => Q.trb[i] = R.trb[i]
  BY <1>4, <1>5, Issued
<1>7. /\ Age(R, at) = MaxTrIndex /\ Age(Q, at) = 1
      /\ \A p \in Pos : p # at => Age(Q, p) = Age(R, p) + 1
  BY <1>4, <1>5, IssuedAges
<1>8. /\ \A p \in Pos : Age(R, p) \in 1..MaxTrIndex
      /\ \A p, q \in Pos : Age(R, p) = Age(R, q) => p = q
  BY <1>4, Ages
<1>9. /\ xRing'[CommandRing] = Q /\ xCrb'[b].state = "Scheduled" /\ xCrb'[b].at = R.index
      /\ \A a \in 1..CrbCount : a # b => xCrb'[a] = xCrb[a]
  <2>1. xCrb[b] \in CrbSet
    BY Zenon, <1>1, <1>a DEF XTypes
  <2> QED BY <1>1, <2>1 DEF Rewrites, Reblocks, CrbSet
<1>10. b \notin Sched /\ Sched' = Sched \cup {b}
  BY <1>1, <1>3, <1>9 DEF Sched
<1>11. PosOf(b)' = at /\ xCrb'[b].at # -1
  BY <1>4, <1>9, Sizes DEF PosOf, IssuedAt
<1>12. \A a \in Sched : a \in 1..CrbCount /\ xCrb'[a] = xCrb[a] /\ PosOf(a)' = PosOf(a) /\ PosOf(a) \in Pos
  <2> SUFFICES ASSUME NEW a \in Sched
               PROVE  a \in 1..CrbCount /\ xCrb'[a] = xCrb[a] /\ PosOf(a)' = PosOf(a) /\ PosOf(a) \in Pos
    OBVIOUS
  <2>1. a \in 1..CrbCount /\ xCrb'[a] = xCrb[a]
    BY <1>9, <1>10 DEF Sched
  <2>2. PosOf(a)' = PosOf(a)
    BY <2>1 DEF PosOf
  <2>3. xCrb[a].at \in -1..MaxTrIndex /\ xCrb[a].at # -1
    BY Zenon, <2>1, <1>a DEF XTypes, CrbSet, CommandsOK
  <2> QED BY <2>1, <2>2, <2>3, Sizes DEF PosOf, Pos
<1>13. PICK q0 \in Pos : q0 # at /\ \A a \in Sched : PosOf(a) # q0
  BY <1>1, <1>3, <1>6, RoomForCommand
<1>14. Age(R, q0) \in 1..MaxTrIndex - 1
  BY <1>6, <1>7, <1>8, <1>13, Sizes
<1>15. \A a \in Sched : Age(R, PosOf(a)) < Age(R, q0)
  <2>1. ASSUME NEW a \in Sched, ~(Age(R, PosOf(a)) < Age(R, q0)) PROVE FALSE
    <3>1. Age(R, q0) <= Age(R, PosOf(a))
      BY <1>8, <1>12, <1>14, <2>1
    <3> QED BY <3>1, <1>13, <1>a DEF CommandsOK, CAge
  <2> QED BY <2>1
<1> PICK u : u = U(CommandRing)
  OBVIOUS
<1>16. InStep(R, xHc.deq[CommandRing], xHc.ccs[CommandRing]) /\ u \in Nat /\ u = Unread(R, xHc.deq[CommandRing], xHc.ccs[CommandRing])
  <2>1. /\ InStep(R, xHc.deq[CommandRing], xHc.ccs[CommandRing])
        /\ xHc.deq[CommandRing] \in 0..MaxTrIndex /\ xHc.ccs[CommandRing] \in {0, 1}
        /\ R.trb[MaxTrIndex].type = "RESERVED" => xHc.ccs[CommandRing] = 1
    BY <1>0, <1>a, RingTypes DEF CommandsOK, Producers
  <2>2. Unread(R, xHc.deq[CommandRing], xHc.ccs[CommandRing]) \in 0..2 * MaxTrIndex
    BY <1>4, <2>1, Reading
  <2> QED BY <2>1, <2>2, Sizes DEF U
<1>17. u < Age(R, q0)
  BY <1>13, <1>14, <1>16, <1>a DEF CommandsOK, CAge
<1>18. /\ InStep(Q, xHc.deq[CommandRing], xHc.ccs[CommandRing])
       /\ U(CommandRing)' = u + 1
  <2>1. u <= MaxTrIndex - 2
    BY <1>14, <1>16, <1>17, Sizes
  <2>2. xHc.deq[CommandRing] \in 0..MaxTrIndex /\ xHc.ccs[CommandRing] \in {0, 1}
    BY <1>0, <1>a, RingTypes
  <2>3. /\ InStep(Q, xHc.deq[CommandRing], xHc.ccs[CommandRing])
        /\ Unread(Q, xHc.deq[CommandRing], xHc.ccs[CommandRing]) = u + 1
    BY <1>4, <1>5, <1>16, <2>1, <2>2, IssuedInStep
  <2> QED BY <2>3, <1>2, <1>9 DEF U
<1>19. \A a \in Sched : PosOf(a) # at /\ Age(R, PosOf(a)) \in Nat /\ Age(Q, PosOf(a)) = Age(R, PosOf(a)) + 1
  BY <1>7, <1>8, <1>12, <1>14, <1>15
<1>20. \A q : CAge(q)' = Age(Q, q)
  BY <1>9 DEF CAge
<1>21. \A a \in Sched : CAge(PosOf(a))' = Age(R, PosOf(a)) + 1
  BY <1>9, <1>12, <1>19 DEF CAge
<1>22. CAge(PosOf(b))' = 1
  BY <1>7, <1>9, <1>11 DEF CAge
<1>23. \A i \in EventSlots : LiveCmd(i)' <=> LiveCmd(i)
  BY <1>2 DEF LiveCmd, Live, Backlog, Handling
<1>24. \A i \in EventSlots : Turn(i)' = Turn(i)
  BY <1>2 DEF Turn, Handling
<1>25. ASSUME NEW i \in EventSlots, LiveCmd(i)
       PROVE  /\ xEvent.slot[i].ptr \in Pos /\ xEvent.slot[i].ptr # at
              /\ Age(R, xEvent.slot[i].ptr) \in Nat /\ Age(R, xEvent.slot[i].ptr) > u
              /\ \E a \in Sched : PosOf(a) = xEvent.slot[i].ptr
              /\ xEvent.slot[i].tag = R.trb[xEvent.slot[i].ptr].tag
              /\ CAge(xEvent.slot[i].ptr)' = Age(R, xEvent.slot[i].ptr) + 1
  <2>1. PICK a \in Sched : PosOf(a) = xEvent.slot[i].ptr
    BY <1>25, <1>a DEF CommandsOK
  <2>2. CAge(xEvent.slot[i].ptr)' = Age(Q, xEvent.slot[i].ptr)
    BY <1>2, <1>9 DEF CAge
  <2> QED BY <2>1, <2>2, <1>12, <1>19, <1>25, <1>a DEF CommandsOK, CAge
<1>30. InStep(xRing[CommandRing], xHc.deq[CommandRing], xHc.ccs[CommandRing])'
  BY <1>2, <1>9, <1>18
<1>31. (\A a \in Sched : xCrb[a].at # -1)'
  BY <1>10, <1>11, <1>12, <1>a DEF CommandsOK
<1>32. (\A a, d \in Sched : PosOf(a) = PosOf(d) => a = d)'
  BY <1>10, <1>11, <1>12, <1>19, <1>a DEF CommandsOK
<1>33. (\A d \in Sched, q \in Pos : CAge(q) <= CAge(PosOf(d)) => \E a \in Sched : PosOf(a) = q)'
  <2> SUFFICES ASSUME NEW d \in Sched', NEW q \in Pos, CAge(q)' <= CAge(PosOf(d))'
               PROVE  \E a \in Sched' : PosOf(a)' = q
    BY DEF Pos, MaxTrIndex
  <2>1. CASE q = at
    BY <2>1, <1>10, <1>11
  <2>2. CASE q # at
    <3>1. CAge(q)' = Age(R, q) + 1 /\ Age(R, q) \in Nat /\ Age(R, q) >= 1
      BY <2>2, <1>7, <1>8, <1>20, Sizes
    <3>2. d \in Sched
      BY <3>1, <1>10, <1>22
    <3>3. Age(R, q) <= Age(R, PosOf(d))
      BY <3>1, <3>2, <1>19, <1>21
    <3>4. PICK a \in Sched : PosOf(a) = q
      BY <3>2, <3>3, <1>a DEF CommandsOK, CAge
    <3> QED BY <3>4, <1>10, <1>12
  <2> QED BY <2>1, <2>2
<1>34. (\A q \in Pos : CAge(q) <= U(CommandRing) => \E a \in Sched : PosOf(a) = q)'
  <2> SUFFICES ASSUME NEW q \in Pos, CAge(q)' <= U(CommandRing)'
               PROVE  \E a \in Sched' : PosOf(a)' = q
    BY DEF Pos, MaxTrIndex
  <2>1. CASE q = at
    BY <2>1, <1>10, <1>11
  <2>2. CASE q # at
    <3>1. CAge(q)' = Age(R, q) + 1 /\ Age(R, q) \in Nat
      BY <2>2, <1>7, <1>8, <1>20, Sizes
    <3>3. Age(R, q) <= u
      BY <3>1, <1>16, <1>18
    <3>4. PICK a \in Sched : PosOf(a) = q
      BY <3>3, <1>a DEF CommandsOK, CAge
    <3> QED BY <3>4, <1>10, <1>12
  <2> QED BY <2>1, <2>2
<1>35. (\A i \in EventSlots : LiveCmd(i) =>
         /\ \E a \in Sched : PosOf(a) = xEvent.slot[i].ptr
         /\ xEvent.slot[i].tag = xRing[CommandRing].trb[xEvent.slot[i].ptr].tag
         /\ CAge(xEvent.slot[i].ptr) > U(CommandRing))'
  <2> SUFFICES ASSUME NEW i \in EventSlots, LiveCmd(i)
               PROVE  /\ \E a \in Sched' : PosOf(a)' = xEvent.slot[i].ptr
                      /\ xEvent.slot[i].tag = Q.trb[xEvent.slot[i].ptr].tag
                      /\ CAge(xEvent.slot[i].ptr)' > U(CommandRing)'
    BY <1>2, <1>9, <1>23
  <2>1. \E a \in Sched' : PosOf(a)' = xEvent.slot[i].ptr
    BY <1>10, <1>12, <1>25
  <2>2. xEvent.slot[i].tag = Q.trb[xEvent.slot[i].ptr].tag
    BY <1>6, <1>25
  <2>3. CAge(xEvent.slot[i].ptr)' > U(CommandRing)'
    BY <1>16, <1>18, <1>25
  <2> QED BY <2>1, <2>2, <2>3
<1>36. (\A d \in Sched : \/ CAge(PosOf(d)) <= U(CommandRing)
                        \/ \E i \in EventSlots : LiveCmd(i) /\ xEvent.slot[i].ptr = PosOf(d))'
  <2> SUFFICES ASSUME NEW d \in Sched'
               PROVE  \/ CAge(PosOf(d))' <= U(CommandRing)'
                      \/ \E i \in EventSlots : LiveCmd(i)' /\ xEvent'.slot[i].ptr = PosOf(d)'
    OBVIOUS
  <2>1. CASE d = b
    BY <2>1, <1>16, <1>18, <1>22
  <2>2. CASE d \in Sched
    <3>1. \/ Age(R, PosOf(d)) <= u
          \/ \E i \in EventSlots : LiveCmd(i) /\ xEvent.slot[i].ptr = PosOf(d)
      BY <2>2, <1>a DEF CommandsOK, CAge
    <3>2. CASE Age(R, PosOf(d)) <= u
      BY <2>2, <3>2, <1>16, <1>18, <1>19, <1>21
    <3>3. CASE \E i \in EventSlots : LiveCmd(i) /\ xEvent.slot[i].ptr = PosOf(d)
      BY <2>2, <3>3, <1>2, <1>12, <1>23
    <3> QED BY <3>1, <3>2, <3>3
  <2> QED BY <2>1, <2>2, <1>10
<1>37. (\A i, j \in EventSlots : LiveCmd(i) /\ LiveCmd(j) /\ Turn(i) < Turn(j) =>
         CAge(xEvent.slot[i].ptr) > CAge(xEvent.slot[j].ptr))'
  <2> SUFFICES ASSUME NEW i \in EventSlots, NEW j \in EventSlots, LiveCmd(i), LiveCmd(j), Turn(i) < Turn(j)
               PROVE  CAge(xEvent.slot[i].ptr)' > CAge(xEvent.slot[j].ptr)'
    BY <1>23, <1>24
  <2>1. Age(R, xEvent.slot[i].ptr) > Age(R, xEvent.slot[j].ptr)
    BY <1>a DEF CommandsOK, CAge
  <2> QED BY <2>1, <1>25
<1>38. CommandsOK'
  BY <1>30, <1>31, <1>32, <1>33, <1>34, <1>35, <1>36, <1>37 DEF CommandsOK
<1>39. CommandTagsOK'
  <2>0. /\ Request(c)' = Request(c) /\ TagOf(c)' = TagOf(c) /\ xClient'[c].crb = b
        /\ xClient'[c].n = xClient[c].n
        /\ \A d \in XClients : d # c => xClient'[d] = xClient[d]
    BY <1>1, SameRequest DEF Moves
  <2>1. CmdTag(c)' = CmdTag(c) /\ CmdType(c)' = CmdType(c)
    BY <1>1, <1>2, <2>0 DEF CmdTag, CmdType, Moves, ResetPcs, IssuePcs
  <2>2. ASSUME NEW d \in XClients, OnCommand(d)', xClient'[d].crb \in Sched'
        PROVE  /\ xRing'[CommandRing].trb[PosOf(xClient[d].crb)'].type = CmdType(d)'
               /\ xRing'[CommandRing].trb[PosOf(xClient[d].crb)'].tag = CmdTag(d)'
    <3>1. CASE d = c
      <4>1. PosOf(xClient[d].crb)' = at
        BY <2>0, <3>1, <1>11 DEF PosOf
      <4> QED BY <3>1, <4>1, <2>1, <1>6, <1>9 DEF Trb
    <3>2. CASE d # c
      <4>1. /\ OnCommand(d) /\ xClient'[d].crb = xClient[d].crb
            /\ CmdTag(d)' = CmdTag(d) /\ CmdType(d)' = CmdType(d)
        BY <2>0, <2>2, <3>2, OtherStays
      <4>2. xClient[d].crb # b
        BY <3>2, <1>1, <1>a DEF BlocksOK
      <4>3. xClient[d].crb \in Sched
        BY <2>2, <4>1, <4>2, <1>10
      <4>4. PosOf(xClient[d].crb)' = PosOf(xClient[d].crb)
        BY <4>1, <4>3, <1>12 DEF PosOf
      <4>5. Q.trb[PosOf(xClient[d].crb)] = R.trb[PosOf(xClient[d].crb)]
        BY <4>3, <1>6, <1>12, <1>19
      <4> QED BY <4>1, <4>3, <4>4, <4>5, <1>9, <1>a DEF CommandTagsOK
    <3> QED BY <3>1, <3>2
  <2> QED BY <2>2 DEF CommandTagsOK
<1> QED BY <1>38, <1>39

\* What the controller finds in the command ring is a command.
LEMMA CommandRead ==
    ASSUME XInv, xHc.deq[CommandRing] \in Pos, Consumable(CommandRing)
    PROVE  /\ CAge(xHc.deq[CommandRing]) = U(CommandRing) /\ U(CommandRing) \in Nat
           /\ U(CommandRing) > 0
           /\ \E a \in Sched : PosOf(a) = xHc.deq[CommandRing]
           /\ \E c \in XClients :
                /\ OnCommand(c) /\ xClient[c].pc \notin IssuePcs
                /\ xRing[CommandRing].trb[xHc.deq[CommandRing]].type = CmdType(c)
                /\ xRing[CommandRing].trb[xHc.deq[CommandRing]].tag = CmdTag(c)
<1>a. XTypes /\ BlocksOK /\ CommandsOK /\ CommandTagsOK /\ EventRingOK /\ Producers /\ ClientsOK
  BY DEF XInv
<1> DEFINE R == xRing[CommandRing]
           deq == xHc.deq[CommandRing]
           ccs == xHc.ccs[CommandRing]
<1>0. CommandRing \in Rings
  BY DEF Rings
<1>1. /\ R \in RingSet /\ deq \in 0..MaxTrIndex /\ ccs \in {0, 1} /\ Produced(R) /\ InStep(R, deq, ccs)
      /\ R.trb[MaxTrIndex].type = "RESERVED" => ccs = 1
  BY <1>0, <1>a, RingTypes DEF CommandsOK, Producers
<1>2. deq # MaxTrIndex /\ R.trb[deq].cycle = ccs
  BY Sizes DEF Pos, Consumable
<1>3. Unread(R, deq, ccs) \in 0..2 * MaxTrIndex /\ Unread(R, deq, ccs) > 0 /\ Age(R, deq) = Unread(R, deq, ccs)
  BY <1>1, <1>2, Reading
<1>4. CAge(deq) = U(CommandRing) /\ U(CommandRing) \in Nat /\ U(CommandRing) > 0
  BY <1>3, Sizes DEF CAge, U
<1>5. PICK a \in Sched : PosOf(a) = deq
  BY <1>4, <1>a DEF CommandsOK
<1>6. PICK c \in XClients : OnCommand(c) /\ xClient[c].crb = a
  BY <1>a DEF BlocksOK, Sched
<1>7. xClient[c].pc \notin IssuePcs
  BY <1>6, <1>a DEF BlocksOK, Sched, IssuePcs
<1>8. R.trb[deq].type = CmdType(c) /\ R.trb[deq].tag = CmdTag(c)
  BY <1>5, <1>6, <1>a DEF CommandTagsOK
<1> QED BY <1>4, <1>5, <1>6, <1>7, <1>8

\* The link changes neither what is left to read nor who is ahead.
LEMMA LinkStep ==
    ASSUME NEW ring \in RingSet, NEW ccs \in {0, 1}, InStep(ring, MaxTrIndex, ccs), ccs # ring.pcs
    PROVE  /\ InStep(ring, 0, 1 - ccs)
           /\ Unread(ring, 0, 1 - ccs) = Unread(ring, MaxTrIndex, ccs)
<1>1. ring.index \in 0..MaxTrIndex /\ ring.pcs \in {0, 1}
  BY DEF RingSet
<1> QED BY <1>1, Sizes DEF InStep, Unread

LEMMA EntryStep ==
    ASSUME NEW ring \in RingSet, NEW deq \in Pos, NEW ccs \in {0, 1}, InStep(ring, deq, ccs),
           Unread(ring, deq, ccs) > 0
    PROVE  /\ InStep(ring, deq + 1, ccs)
           /\ Unread(ring, deq + 1, ccs) = Unread(ring, deq, ccs) - 1
<1>1. ring.index \in 0..MaxTrIndex /\ ring.pcs \in {0, 1}
  BY DEF RingSet
<1> QED BY <1>1, Sizes DEF InStep, Unread, Pos

\* The controller reads a command and posts its completion.
LEMMA CommandReported ==
    ASSUME XInv, HcConsume(CommandRing), Reports(xRing[CommandRing].trb[xHc.deq[CommandRing]].type)
    PROVE  CommandsOK'
<1>a. XTypes /\ BlocksOK /\ CommandsOK /\ CommandTagsOK /\ EventRingOK /\ Producers /\ ClientsOK
  BY DEF XInv
<1>0. CommandRing \in Rings /\ Consumable(CommandRing) /\ xRing' = xRing /\ xCrb' = xCrb
  BY DEF Rings, HcConsume
<1> PICK p : p = xHc.deq[CommandRing]
  OBVIOUS
<1> PICK e : e = PostedEvent(CommandRing, "SUCCESS")
  OBVIOUS
<1> PICK k : k = xHc.enq
  OBVIOUS
<1> PICK u : u = U(CommandRing)
  BY SMTT(60)
<1>1. /\ p \in Pos /\ NextEnq # xEvent.erdp
      /\ ReadsOn(CommandRing, p + 1, xHc.ccs[CommandRing])
      /\ xHc'.enq = NextEnq /\ xHc'.pcs = Enqueued
      /\ xEvent' = [xEvent EXCEPT !.slot[xHc.enq] = e]
      /\ xThread'.pc = xThread.pc /\ xThread'.at = xThread.at
  BY <1>0, <1>a, ReportRead DEF Interrupts
<1>2. /\ e \in EventSet /\ e.cycle = xHc.pcs /\ (e.kind = "command" <=> e.ring = CommandRing)
      /\ e.kind = "command" /\ e.ptr = p /\ e.tag = xRing[CommandRing].trb[p].tag
  BY <1>0, <1>1, <1>a, PostedTyped
<1>3. /\ k \in EventSlots /\ xEvent'.slot[k] = e /\ ~Live(k) /\ Live(k)'
      /\ \A i \in EventSlots \ {k} :
           /\ Live(i)' <=> Live(i)
           /\ xEvent'.slot[i] = xEvent.slot[i] /\ Turn(i)' = Turn(i)
           /\ Live(i) => Turn(i) < Turn(k)'
  BY <1>1, <1>2, <1>a, EventPosted
<1>4. /\ CAge(p) = u /\ u \in Nat /\ u > 0 /\ \E a \in Sched : PosOf(a) = p
  BY <1>0, <1>1, CommandRead
<1>5. /\ xRing[CommandRing] \in RingSet /\ xHc.ccs[CommandRing] \in {0, 1}
      /\ InStep(xRing[CommandRing], p, xHc.ccs[CommandRing])
      /\ Unread(xRing[CommandRing], p, xHc.ccs[CommandRing]) = u
  BY <1>0, <1>a, RingTypes DEF CommandsOK, U
<1>6. /\ InStep(xRing[CommandRing], p + 1, xHc.ccs[CommandRing])
      /\ Unread(xRing[CommandRing], p + 1, xHc.ccs[CommandRing]) = u - 1
  BY <1>1, <1>4, <1>5, EntryStep
<1>7. InStep(xRing[CommandRing], xHc.deq[CommandRing], xHc.ccs[CommandRing])' /\ U(CommandRing)' = u - 1
  BY <1>0, <1>1, <1>6 DEF ReadsOn, U
<1>8. Sched' = Sched /\ (\A a : PosOf(a)' = PosOf(a)) /\ \A q : CAge(q)' = CAge(q)
  BY <1>0 DEF Sched, PosOf, CAge
<1>9. /\ LiveCmd(k)' /\ ~LiveCmd(k)
      /\ \A i \in EventSlots \ {k} : LiveCmd(i)' <=> LiveCmd(i)
  BY <1>2, <1>3 DEF LiveCmd
<1>10. ASSUME NEW i \in EventSlots, i # k, LiveCmd(i)
       PROVE  /\ CAge(xEvent.slot[i].ptr)' = CAge(xEvent.slot[i].ptr)
              /\ CAge(xEvent.slot[i].ptr) > u /\ xEvent.slot[i].ptr \in Pos
  <2>1. xEvent'.slot[i] = xEvent.slot[i]
    BY <1>3, <1>10
  <2>2. xEvent.slot[i].ptr \in Pos
    BY <1>10, <1>a DEF LiveCmd, EventRingOK, EventSet
  <2> QED BY <2>1, <2>2, <1>0, <1>10, <1>a DEF CommandsOK, CAge
<1>11. CAge(xEvent.slot[k].ptr)' = u
  BY <1>0, <1>2, <1>3, <1>4 DEF CAge
<1>12. \A q \in Pos : CAge(q) \in Nat
  BY <1>5, Ages, Sizes DEF CAge
<1>31. (\A a \in Sched : xCrb[a].at # -1)'
  BY <1>0, <1>8, <1>a DEF CommandsOK
<1>32. (\A a, d \in Sched : PosOf(a) = PosOf(d) => a = d)'
  BY <1>8, <1>a DEF CommandsOK
<1>33. (\A d \in Sched, q \in Pos : CAge(q) <= CAge(PosOf(d)) => \E a \in Sched : PosOf(a) = q)'
  <2>1. \A d \in Sched : CAge(PosOf(d))' = CAge(PosOf(d))
    BY <1>0 DEF CAge, PosOf
  <2> QED BY <2>1, <1>8, <1>a DEF CommandsOK
<1>34. (\A q \in Pos : CAge(q) <= U(CommandRing) => \E a \in Sched : PosOf(a) = q)'
  BY <1>4, <1>7, <1>8, <1>12, <1>a DEF CommandsOK
<1>35. (\A i \in EventSlots : LiveCmd(i) =>
         /\ \E a \in Sched : PosOf(a) = xEvent.slot[i].ptr
         /\ xEvent.slot[i].tag = xRing[CommandRing].trb[xEvent.slot[i].ptr].tag
         /\ CAge(xEvent.slot[i].ptr) > U(CommandRing))'
  <2> SUFFICES ASSUME NEW i \in EventSlots, LiveCmd(i)'
               PROVE  /\ \E a \in Sched : PosOf(a) = xEvent'.slot[i].ptr
                      /\ xEvent'.slot[i].tag = xRing[CommandRing].trb[xEvent'.slot[i].ptr].tag
                      /\ CAge(xEvent.slot[i].ptr)' > u - 1
    BY <1>0, <1>7, <1>8
  <2>1. CASE i = k
    BY <2>1, <1>2, <1>3, <1>4, <1>11
  <2>2. CASE i # k
    <3>1. LiveCmd(i) /\ xEvent'.slot[i] = xEvent.slot[i]
      BY <2>2, <1>3, <1>9
    <3>2. CAge(xEvent.slot[i].ptr)' = CAge(xEvent.slot[i].ptr) /\ CAge(xEvent.slot[i].ptr) > u
          /\ CAge(xEvent.slot[i].ptr) \in Nat
      BY <2>2, <3>1, <1>10, <1>12
    <3>3. CAge(xEvent.slot[i].ptr)' > u - 1
      BY <3>2, <1>4
    <3> QED BY <3>1, <3>3, <1>a DEF CommandsOK
  <2> QED BY <2>1, <2>2
<1>36. (\A d \in Sched : \/ CAge(PosOf(d)) <= U(CommandRing)
                        \/ \E i \in EventSlots : LiveCmd(i) /\ xEvent.slot[i].ptr = PosOf(d))'
  <2> SUFFICES ASSUME NEW d \in Sched
               PROVE  \/ CAge(PosOf(d))' <= u - 1
                      \/ \E i \in EventSlots : LiveCmd(i)' /\ xEvent'.slot[i].ptr = PosOf(d)
    BY <1>7, <1>8
  <2>0. CAge(PosOf(d))' = CAge(PosOf(d))
    BY <1>0 DEF CAge, PosOf
  <2>1. CASE \E i \in EventSlots : LiveCmd(i) /\ xEvent.slot[i].ptr = PosOf(d)
    BY <2>1, <1>3, <1>9
  <2>2. CASE CAge(PosOf(d)) <= u
    <3>1. PosOf(d) \in Pos
      <4>1. xCrb[d].at \in -1..MaxTrIndex /\ xCrb[d].at # -1
        BY Zenon, <1>a DEF XTypes, CrbSet, CommandsOK, Sched
      <4> QED BY <4>1, Sizes DEF PosOf, Pos
    <3>2. CAge(PosOf(d)) \in Nat
      BY <3>1, <1>12
    <3>3. CASE CAge(PosOf(d)) = u
      <4>1. PosOf(d) = p
        BY <3>1, <3>3, <1>1, <1>4, <1>5, Ages DEF CAge
      <4> QED BY <4>1, <1>2, <1>3, <1>9
    <3>4. CASE CAge(PosOf(d)) # u
      BY <2>0, <2>2, <3>2, <3>4, <1>4
    <3> QED BY <3>3, <3>4
  <2> QED BY <2>1, <2>2, <1>a DEF CommandsOK
<1>37. (\A i, j \in EventSlots : LiveCmd(i) /\ LiveCmd(j) /\ Turn(i) < Turn(j) =>
         CAge(xEvent.slot[i].ptr) > CAge(xEvent.slot[j].ptr))'
  <2> SUFFICES ASSUME NEW i \in EventSlots, NEW j \in EventSlots, LiveCmd(i)', LiveCmd(j)', Turn(i)' < Turn(j)'
               PROVE  CAge(xEvent.slot[i].ptr)' > CAge(xEvent.slot[j].ptr)'
    OBVIOUS
  <2>0. \A h \in EventSlots : Turn(h)' \in Int
    BY <1>1, <1>3, <1>a, EventTypes, Sizes DEF Turn, Rank, EventSlots
  <2>1. CASE i = k
    <3>1. CASE j = k
      BY <2>0, <2>1, <3>1
    <3>2. CASE j # k
      <4>1. Live(j) /\ Turn(j)' < Turn(k)'
        BY <3>2, <1>3, <1>9 DEF LiveCmd
      <4> QED BY <2>0, <2>1, <4>1
    <3> QED BY <3>1, <3>2
  <2>2. CASE i # k /\ j = k
    <3>1. LiveCmd(i)
      BY <2>2, <1>9
    <3> QED BY <2>2, <3>1, <1>10, <1>11
  <2>3. CASE i # k /\ j # k
    <3>1. LiveCmd(i) /\ LiveCmd(j) /\ Turn(i) < Turn(j)
      BY <2>3, <1>3, <1>9
    <3> QED BY <2>3, <3>1, <1>10, <1>a DEF CommandsOK
  <2> QED BY <2>1, <2>2, <2>3
<1> QED BY <1>7, <1>31, <1>32, <1>33, <1>34, <1>35, <1>36, <1>37 DEF CommandsOK

\* A completion is dealt with: it was the oldest command.
LEMMA CommandCompleted ==
    ASSUME XInv, Handling, Event.kind = "command", xRing' = xRing, xHc' = xHc, xEvent' = xEvent,
           ThreadGoes("dequeue", xThread.torn), NEW b \in 1..CrbCount,
           xCrb[b].state = "Scheduled", xCrb[b].at = Event.ptr,
           xCrb'[b].state = "Completed", \A a \in 1..CrbCount : a # b => xCrb'[a] = xCrb[a]
    PROVE  CommandsOK'
<1>a. XTypes /\ BlocksOK /\ CommandsOK /\ CommandTagsOK /\ EventRingOK /\ Producers /\ ClientsOK
  BY DEF XInv
<1> PICK p : p = Event.ptr
  OBVIOUS
<1> PICK t : t = xThread.at
  OBVIOUS
<1> PICK u : u = U(CommandRing)
  OBVIOUS
<1>1. p \in Pos /\ Live(t) /\ t \in EventSlots /\ Event = xEvent.slot[t]
  BY <1>a, InHand
<1>2. LiveCmd(t) /\ xEvent.slot[t].ptr = p
  BY <1>1 DEF LiveCmd
<1>3. PosOf(b) = p
  BY <1>1, Sizes DEF PosOf, Pos
<1>4. b \in Sched /\ Sched' = Sched \ {b}
  BY DEF Sched
<1>5. \A a \in Sched' : a \in Sched /\ xCrb'[a] = xCrb[a] /\ PosOf(a)' = PosOf(a) /\ CAge(PosOf(a))' = CAge(PosOf(a))
  BY <1>4 DEF Sched, PosOf, CAge
<1>6. (\A q : CAge(q)' = CAge(q)) /\ U(CommandRing)' = u
  BY DEF CAge, U
<1>7. /\ \A i \in EventSlots :
           /\ Live(i)' <=> (Live(i) /\ i # t)
           /\ i # t => Turn(i)' = Turn(i)
           /\ Live(i) /\ i # t => Turn(i) > Turn(t)
  BY <1>a, Dealt DEF ThreadGoes
<1>8. \A i \in EventSlots : LiveCmd(i)' <=> (LiveCmd(i) /\ i # t)
  BY <1>7 DEF LiveCmd
<1>9. \A i \in EventSlots : CAge(xEvent.slot[i].ptr)' = CAge(xEvent.slot[i].ptr)
  BY DEF CAge
<1>10. CommandRing \in Rings /\ xRing[CommandRing] \in RingSet
  BY <1>a, RingTypes DEF Rings
<1>11. /\ \A q \in Pos : CAge(q) \in Nat
       /\ \A q, v \in Pos : CAge(q) = CAge(v) => q = v
  BY <1>10, Ages, Sizes DEF CAge
<1>12. \A a \in Sched : PosOf(a) \in Pos
  <2> TAKE a \in Sched
  <2>1. xCrb[a].at \in -1..MaxTrIndex /\ xCrb[a].at # -1
    BY Zenon, <1>a DEF XTypes, CrbSet, CommandsOK, Sched
  <2> QED BY <2>1, Sizes DEF PosOf, Pos
<1>13. \A i \in EventSlots : Turn(i) \in Int
  BY <1>a, EventTypes, Sizes DEF Turn, Rank, EventSlots
<1>14. \A i \in EventSlots : LiveCmd(i) => xEvent.slot[i].ptr \in Pos
  BY <1>a DEF LiveCmd, EventRingOK, EventSet
<1>15. ASSUME NEW i \in EventSlots, LiveCmd(i), i # t PROVE CAge(xEvent.slot[i].ptr) < CAge(p)
  <2>1. Turn(t) < Turn(i)
    BY <1>1, <1>7, <1>13, <1>15 DEF LiveCmd
  <2>2. CAge(xEvent.slot[t].ptr) > CAge(xEvent.slot[i].ptr)
    BY <2>1, <1>1, <1>2, <1>15, <1>a DEF CommandsOK
  <2> QED BY <2>2, <1>1, <1>2, <1>11, <1>14, <1>15
<1>16. CAge(p) > u /\ u \in Int
  <2>1. CAge(p) > u
    BY <1>1, <1>2, <1>a DEF CommandsOK
  <2>2. /\ xHc.deq[CommandRing] \in 0..MaxTrIndex /\ xHc.ccs[CommandRing] \in {0, 1}
        /\ xRing[CommandRing].index \in 0..MaxTrIndex
    BY <1>10, <1>a, RingTypes
  <2> QED BY <2>1, <2>2, Sizes DEF U, Unread
<1>17. \A a \in Sched : a # b => CAge(PosOf(a)) < CAge(p)
  <2> SUFFICES ASSUME NEW a \in Sched, a # b PROVE CAge(PosOf(a)) < CAge(p)
    OBVIOUS
  <2>0. PosOf(a) # p
    BY <1>3, <1>4, <1>a DEF CommandsOK
  <2>1. CASE CAge(PosOf(a)) <= u
    BY <2>1, <1>1, <1>11, <1>12, <1>16
  <2>2. ASSUME NEW i \in EventSlots, LiveCmd(i), xEvent.slot[i].ptr = PosOf(a) PROVE CAge(PosOf(a)) < CAge(p)
    <3>1. i # t
      BY <2>0, <2>2, <1>2
    <3> QED BY <2>2, <3>1, <1>15
  <2> QED BY <2>1, <2>2, <1>a DEF CommandsOK
<1>30. InStep(xRing[CommandRing], xHc.deq[CommandRing], xHc.ccs[CommandRing])'
  BY <1>a DEF CommandsOK
<1>31. (\A a \in Sched : xCrb[a].at # -1)'
  BY <1>5, <1>a DEF CommandsOK
<1>32. (\A a, d \in Sched : PosOf(a) = PosOf(d) => a = d)'
  BY <1>5, <1>a DEF CommandsOK
<1>33. (\A d \in Sched, q \in Pos : CAge(q) <= CAge(PosOf(d)) => \E a \in Sched : PosOf(a) = q)'
  <2> SUFFICES ASSUME NEW d \in Sched', NEW q \in Pos, CAge(q) <= CAge(PosOf(d))
               PROVE  \E a \in Sched' : PosOf(a)' = q
    BY <1>5, <1>6
  <2>1. PICK a \in Sched : PosOf(a) = q
    BY <1>5, <1>a DEF CommandsOK
  <2>2. a # b
    <3>1. d \in Sched /\ d # b /\ PosOf(d) \in Pos
      BY <1>4, <1>12
    <3> QED BY <2>1, <3>1, <1>1, <1>3, <1>11, <1>17
  <2> QED BY <2>1, <2>2, <1>4, <1>5
<1>34. (\A q \in Pos : CAge(q) <= U(CommandRing) => \E a \in Sched : PosOf(a) = q)'
  <2> SUFFICES ASSUME NEW q \in Pos, CAge(q) <= u
               PROVE  \E a \in Sched' : PosOf(a)' = q
    BY <1>6
  <2>1. PICK a \in Sched : PosOf(a) = q
    BY <1>a DEF CommandsOK
  <2>2. a # b
    BY <2>1, <1>3, <1>11, <1>16
  <2> QED BY <2>1, <2>2, <1>4, <1>5
<1>35. (\A i \in EventSlots : LiveCmd(i) =>
         /\ \E a \in Sched : PosOf(a) = xEvent.slot[i].ptr
         /\ xEvent.slot[i].tag = xRing[CommandRing].trb[xEvent.slot[i].ptr].tag
         /\ CAge(xEvent.slot[i].ptr) > U(CommandRing))'
  <2> SUFFICES ASSUME NEW i \in EventSlots, LiveCmd(i), i # t
               PROVE  \E a \in Sched' : PosOf(a)' = xEvent.slot[i].ptr
    BY <1>6, <1>8, <1>9, <1>a DEF CommandsOK
  <2>1. PICK a \in Sched : PosOf(a) = xEvent.slot[i].ptr
    BY <1>a DEF CommandsOK
  <2>2. a # b
    BY <2>1, <1>1, <1>3, <1>11, <1>14, <1>15
  <2> QED BY <2>1, <2>2, <1>4, <1>5
<1>36. (\A d \in Sched : \/ CAge(PosOf(d)) <= U(CommandRing)
                        \/ \E i \in EventSlots : LiveCmd(i) /\ xEvent.slot[i].ptr = PosOf(d))'
  <2> SUFFICES ASSUME NEW d \in Sched'
               PROVE  \/ CAge(PosOf(d)) <= u
                      \/ \E i \in EventSlots : LiveCmd(i)' /\ xEvent.slot[i].ptr = PosOf(d)
    BY <1>5, <1>6
  <2>1. d \in Sched /\ d # b /\ PosOf(d) # p
    BY <1>3, <1>4, <1>a DEF CommandsOK
  <2>2. ASSUME NEW i \in EventSlots, LiveCmd(i), xEvent.slot[i].ptr = PosOf(d) PROVE LiveCmd(i)'
    BY <2>1, <2>2, <1>2, <1>8
  <2> QED BY <2>1, <2>2, <1>a DEF CommandsOK
<1>37. (\A i, j \in EventSlots : LiveCmd(i) /\ LiveCmd(j) /\ Turn(i) < Turn(j) =>
         CAge(xEvent.slot[i].ptr) > CAge(xEvent.slot[j].ptr))'
  BY <1>7, <1>8, <1>9, <1>a DEF CommandsOK
<1> QED BY <1>30, <1>31, <1>32, <1>33, <1>34, <1>35, <1>36, <1>37 DEF CommandsOK

\* An event of a transfer is no concern of the commands.
LEMMA TransferPosted ==
    ASSUME XTypes, EventRingOK, NEW r \in EndpointRings, NEW code \in {"SUCCESS", "STALL", "TRANSACTION"},
           xHc.deq[r] \in Pos, NextEnq # xEvent.erdp, xHc'.enq = NextEnq, xHc'.pcs = Enqueued, Interrupts,
           xEvent' = [xEvent EXCEPT !.slot[xHc.enq] = PostedEvent(r, code)]
    PROVE  CmdEventsSame
<1> PICK k : k = xHc.enq
  OBVIOUS
<1> PICK e : e = PostedEvent(r, code)
  OBVIOUS
<1>0. r \in Rings /\ r # CommandRing
  BY XhciAssumption DEF Rings
<1>1. e \in EventSet /\ e.cycle = xHc.pcs /\ (e.kind = "command" <=> e.ring = CommandRing) /\ e.kind # "command"
  BY <1>0, PostedTyped
<1>2. /\ k \in EventSlots /\ xEvent'.slot[k] = e /\ ~Live(k)
      /\ \A i \in EventSlots \ {k} :
           /\ Live(i)' <=> Live(i)
           /\ xEvent'.slot[i] = xEvent.slot[i] /\ Turn(i)' = Turn(i)
  BY <1>1, EventPosted DEF Interrupts
<1>3. ~LiveCmd(k)' /\ ~LiveCmd(k)
  BY <1>1, <1>2 DEF LiveCmd
<1>4. \A i \in EventSlots : LiveCmd(i)' <=> LiveCmd(i)
  BY <1>2, <1>3 DEF LiveCmd
<1> QED BY <1>2, <1>3, <1>4 DEF CmdEventsSame

LEMMA TransferDealt ==
    ASSUME XTypes, EventRingOK, Handling, Event.kind = "transfer", xEvent' = xEvent, xHc' = xHc,
           ThreadGoes("dequeue", xThread.torn)
    PROVE  CmdEventsSame
<1> PICK t : t = xThread.at
  OBVIOUS
<1>1. t \in EventSlots /\ Event = xEvent.slot[t]
  BY InHand
<1>2. \A i \in EventSlots : (Live(i)' <=> (Live(i) /\ i # t)) /\ (i # t => Turn(i)' = Turn(i))
  BY Dealt DEF ThreadGoes
<1>3. ~LiveCmd(t)' /\ ~LiveCmd(t)
  BY <1>1 DEF LiveCmd
<1> QED BY <1>2, <1>3 DEF CmdEventsSame, LiveCmd

LEMMA CommandsKept ==
    ASSUME XInv, XNext
    PROVE  CommandsOK' /\ CommandTagsOK'
<1>a. XTypes /\ BlocksOK /\ CommandsOK /\ CommandTagsOK /\ EventRingOK /\ Producers /\ ClientsOK /\ RespondOK /\ PermitsOK
  BY DEF XInv
<1>b. CommandRing \in Rings /\ CommandRing \notin EndpointRings
  BY XhciAssumption DEF Rings
<1>c. \A b \in 1..CrbCount : xCrb[b] \in CrbSet
  BY Zenon, <1>a DEF XTypes
<1>d. ASSUME xClient' = xClient, xCrb' = xCrb, xRing'[CommandRing].trb = xRing[CommandRing].trb PROVE CommandTagsOK'
  BY <1>a, <1>d, CommandTagsRest, OtherStays
<1>e. ASSUME xCrb' = xCrb PROVE SchedSame
  BY <1>e DEF SchedSame
<1>f. ASSUME EventsUntouched, xHc'.deq = xHc.deq, xHc'.ccs = xHc.ccs, Rests(CommandRing), SchedSame
      PROVE  CommandsOK'
  BY <1>a, <1>f, EventsStay, CmdEventsStay, CommandsRest
<1>1. ASSUME NEW c \in XClients, XClientStep(c) PROVE CommandsOK' /\ CommandTagsOK'
  <2>0. ClientOK(c) /\ \A d \in XClients : ClientOK(d)
    BY <1>a DEF ClientsOK
  <2>y. EventsUntouched /\ xHc'.deq = xHc.deq /\ xHc'.ccs = xHc.ccs
    BY <1>1, <1>a, ClientUntouched
  <2>z. ASSUME Rests(CommandRing), xCrb' = xCrb, KeepsBlock(c), OnCommand(c) => CmdType(c)' = CmdType(c),
               \A d \in XClients : d # c => xClient'[d] = xClient[d]
        PROVE  CommandsOK' /\ CommandTagsOK'
    <3>1. CommandsOK'
      BY <2>y, <2>z, <1>e, <1>f
    <3>2. \A d \in XClients : OnCommand(d)' /\ xClient'[d].crb \in Sched' =>
                /\ OnCommand(d) /\ xClient'[d].crb = xClient[d].crb
                /\ CmdTag(d)' = CmdTag(d) /\ CmdType(d)' = CmdType(d)
      BY <2>z, OtherStays DEF KeepsBlock
    <3> QED BY <3>1, <3>2, <2>z, <1>a, CommandTagsRest DEF Rests
  <2>1. CASE AllocateCrb(c)
    <3>1. PICK b \in 1..CrbCount :
             /\ xCrb[b].state = "Available"
             /\ xCrb'[b] = [xCrb[b] EXCEPT !.state = "Acquired"]
             /\ \A a \in 1..CrbCount : a # b => xCrb'[a] = xCrb[a]
             /\ Moves(c, IF xClient[c].pc = "reset" THEN "resetIssue" ELSE "cmdIssue",
                      xClient[c].n, xClient[c].todo, b, xClient[c].got)
      BY <2>1, <1>a, AllocateFacts
    <3>2. xCrb'[b].state = "Acquired"
      BY <3>1, <1>c DEF CrbSet
    <3>3. SchedSame
      BY <3>1, <3>2 DEF SchedSame
    <3>4. xRing' = xRing
      BY <2>1 DEF AllocateCrb
    <3>5. CommandsOK'
      BY <2>y, <3>3, <3>4, <1>f DEF Rests
    <3>6. xClient'[c].crb = b /\ b \notin Sched' /\ \A d \in XClients : d # c => xClient'[d] = xClient[d]
      BY <3>1, <3>2 DEF Moves, Sched
    <3>7. CommandTagsOK'
      BY <3>3, <3>4, <3>6, <1>a, OtherStays, CommandTagsRest DEF SchedSame
    <3> QED BY <3>5, <3>7
  <2>2. CASE NoCrb(c)
    <3>1. xRing' = xRing /\ xCrb' = xCrb /\ xClient' = xClient
      BY <2>2 DEF NoCrb
    <3> QED BY <3>1, <2>y, <1>d, <1>e, <1>f DEF Rests
  <2>3. CASE IssueCommand(c)
    BY <2>3, CommandIssued
  <2>4. CASE RingCommandDoorbell(c)
    <3>1. /\ Moves(c, IF xClient[c].pc = "cmdBell" THEN "cmdWait" ELSE "resetWait",
                    xClient[c].n, xClient[c].todo, xClient[c].crb, xClient[c].got)
          /\ xCrb' = xCrb /\ xRing' = xRing /\ xClient[c].pc \in {"cmdBell", "resetBell"}
      BY <2>0, <2>4, <1>a, DoorbellFacts
    <3>3. Request(c)' = Request(c) /\ TagOf(c)' = TagOf(c)
      BY <3>1, SameRequest DEF Moves
    <3>5. KeepsBlock(c) /\ CmdType(c)' = CmdType(c)
      BY <3>1, <3>3 DEF KeepsBlock, Moves, OnCommand, CmdPcs, ResetPcs, IssuePcs, CmdTag, CmdType
    <3> QED BY <3>1, <3>5, <2>z DEF Moves, Rests
  <2>5. CASE FinishCommand(c)
    <3> PICK b : b = xClient[c].crb
      OBVIOUS
    <3>1. /\ OnCommand(c) /\ b \in 1..CrbCount /\ xCrb[b].signal = 1
          /\ Reblocks(b, [xCrb[b] EXCEPT !.signal = 0, !.state = "Available", !.delayed = TRUE])
          /\ \E got : Moves(c, "idle", xClient[c].n + 1, xClient[c].todo, 0, got)
      BY Zenon, <2>0, <2>5, <1>a, FinishCommandFacts
    <3>2. xCrb'[b].state = "Available" /\ xCrb[b].state # "Scheduled"
      BY <3>1, <1>a, <1>c DEF Reblocks, CrbSet, BlocksOK
    <3>3. SchedSame
      BY <3>1, <3>2 DEF SchedSame, Reblocks
    <3>4. Rests(CommandRing)
      <4>1. CASE xClient[c].pc = "cmdWait"
        BY Zenon, <4>1, <2>0, <2>5, <1>a, FinishCommandFacts DEF Rests
      <4>2. CASE xClient[c].pc = "resetWait"
        BY Zenon, <4>2, <2>0, <2>5, <1>a, <1>b, FinishCommandFacts DEF Rests, Rewrites
      <4> QED BY <4>1, <4>2, <2>5 DEF FinishCommand
    <3>5. CommandsOK'
      BY <2>y, <3>3, <3>4, <1>f
    <3>6. ~OnCommand(c)' /\ \A d \in XClients : d # c => xClient'[d] = xClient[d]
      BY <3>1 DEF Moves, OnCommand, CmdPcs, ResetPcs
    <3>7. CommandTagsOK'
      BY <3>3, <3>4, <3>6, <1>a, OtherStays, CommandTagsRest DEF SchedSame, Rests
    <3> QED BY <3>5, <3>7
  <2>6. CASE Scope(c) \/ ScopeGranted(c)
    <3>1. /\ Moves(c, "issue", xClient[c].n, TrbsOf(Request(c)), xClient[c].crb, xClient[c].got)
          /\ xClient[c].pc \in {"idle", "scopeWait"} /\ Request(c).ring \in EndpointRings
          /\ Rewrites(Request(c).ring, [xRing[Request(c).ring] EXCEPT !.scope = 0, !.state = "Scheduled"])
      BY Zenon, <2>0, <2>6, <1>a, ScopeFacts
    <3>2. xCrb' = xCrb
      BY <2>6 DEF Scope, ScopeGranted
    <3>4. Rests(CommandRing)
      BY <3>1, <1>b DEF Rests, Rewrites
    <3>5. KeepsBlock(c) /\ ~OnCommand(c)
      BY <3>1 DEF KeepsBlock, Moves, OnCommand, CmdPcs, ResetPcs
    <3> QED BY <3>1, <3>2, <3>4, <3>5, <2>z DEF Moves
  <2>7. CASE ScopeWait(c)
    <3>1. /\ Moves(c, "scopeWait", xClient[c].n, xClient[c].todo, xClient[c].crb, xClient[c].got)
          /\ xClient[c].pc = "idle" /\ xCrb' = xCrb /\ xRing' = xRing
      BY <2>7, <1>a, ScopeWaitFacts
    <3>5. KeepsBlock(c) /\ ~OnCommand(c)
      BY <3>1 DEF KeepsBlock, Moves, OnCommand, CmdPcs, ResetPcs
    <3> QED BY <3>1, <3>5, <2>z DEF Moves, Rests
  <2>8. CASE IssueStage(c)
    <3>1. /\ Moves(c, IF Len(xClient[c].todo) = 1 THEN "bell" ELSE "issue", xClient[c].n,
                    Tail(xClient[c].todo), xClient[c].crb, xClient[c].got)
          /\ xClient[c].pc = "issue" /\ Request(c).ring \in EndpointRings
          /\ Rewrites(Request(c).ring,
                       IssueTrb(xRing[Request(c).ring], Head(xClient[c].todo), TagOf(c)))
      BY <2>0, <2>8, <1>a, IssueStageFacts
    <3>2. xCrb' = xCrb
      BY <2>8 DEF IssueStage
    <3>4. Rests(CommandRing)
      BY <3>1, <1>b DEF Rests, Rewrites
    <3>5. KeepsBlock(c) /\ ~OnCommand(c)
      BY <3>1 DEF KeepsBlock, Moves, OnCommand, CmdPcs, ResetPcs
    <3> QED BY <3>1, <3>2, <3>4, <3>5, <2>z DEF Moves
  <2>9. CASE RingDoorbell(c)
    <3>1. /\ Moves(c, "wait", xClient[c].n, xClient[c].todo, xClient[c].crb, xClient[c].got)
          /\ xClient[c].pc = "bell" /\ xCrb' = xCrb /\ xRing' = xRing
      BY <2>0, <2>9, <1>a, BellFacts
    <3>5. KeepsBlock(c) /\ ~OnCommand(c)
      BY <3>1 DEF KeepsBlock, Moves, OnCommand, CmdPcs, ResetPcs
    <3> QED BY <3>1, <3>5, <2>z DEF Moves, Rests
  <2>10. CASE FinishTransfer(c)
    <3>1. xCrb' = xCrb /\ xClient[c].pc = "wait"
      BY <2>10 DEF FinishTransfer
    <3>2. \E pc \in {"reset", "idle"} : \E n, got : Moves(c, pc, n, xClient[c].todo, xClient[c].crb, got)
      BY Zenon, <2>0, <2>10, <1>a, FinishTransferFacts
    <3>3. Rests(CommandRing)
      BY Zenon, <2>0, <2>10, <1>a, <1>b, FinishTransferFacts DEF Rewrites, Rests
    <3>5. KeepsBlock(c) /\ ~OnCommand(c)
      BY <3>1, <3>2 DEF KeepsBlock, Moves, OnCommand, CmdPcs, ResetPcs
    <3> QED BY <3>1, <3>2, <3>3, <3>5, <2>z DEF Moves
  <2> QED BY <1>1, <2>1, <2>2, <2>3, <2>4, <2>5, <2>6, <2>7, <2>8, <2>9, <2>10 DEF XClientStep
<1>2. ASSUME NEW b \in 1..CrbCount, ReuseDelayEnds(b) PROVE CommandsOK' /\ CommandTagsOK'
  <2>1. /\ xClient' = xClient /\ xRing' = xRing /\ EventsUntouched /\ xHc' = xHc
        /\ \A a \in 1..CrbCount : xCrb'[a].state = xCrb[a].state /\ xCrb'[a].at = xCrb[a].at
    BY Zenon, <1>2, <1>a DEF ReuseDelayEnds, XTypes, CrbSet, EventsUntouched
  <2>2. SchedSame
    BY <2>1 DEF SchedSame
  <2>3. CommandsOK'
    BY <2>1, <2>2, <1>f DEF Rests
  <2>4. CommandTagsOK'
    BY <2>1, <1>a, OtherStays, CommandTagsRest
  <2> QED BY <2>3, <2>4
<1>3. ASSUME NEW r \in Rings, HcConsume(r) PROVE CommandsOK' /\ CommandTagsOK'
  <2>1. xRing' = xRing /\ xCrb' = xCrb /\ xClient' = xClient /\ Consumable(r)
    BY <1>3 DEF HcConsume
  <2>2. CommandTagsOK' /\ SchedSame /\ Rests(CommandRing)
    BY <2>1, <1>d, <1>e DEF Rests
  <2>3. CASE r = CommandRing /\ xRing[r].trb[xHc.deq[r]].type = "LINK"
    <3>1. /\ xHc.deq[r] = MaxTrIndex /\ ReadsOn(r, 0, 1 - xHc.ccs[r]) /\ EventsUntouched
      BY <2>3, <1>3, <1>a, LinkRead DEF EventsUntouched
    <3>2. /\ xRing[r] \in RingSet /\ xHc.deq[r] \in 0..MaxTrIndex /\ xHc.ccs[r] \in {0, 1} /\ Produced(xRing[r])
          /\ InStep(xRing[r], xHc.deq[r], xHc.ccs[r])
          /\ xRing[r].trb[MaxTrIndex].type = "RESERVED" => xHc.ccs[r] = 1
      BY <2>3, <1>a, RingTypes DEF CommandsOK, Producers
    <3>3. xHc.ccs[r] # xRing[r].pcs
      BY <2>1, <3>1, <3>2, Reading DEF Consumable
    <3>4. /\ InStep(xRing[r], 0, 1 - xHc.ccs[r])
          /\ Unread(xRing[r], 0, 1 - xHc.ccs[r]) = Unread(xRing[r], xHc.deq[r], xHc.ccs[r])
      BY <3>1, <3>2, <3>3, LinkStep
    <3>5. /\ InStep(xRing[CommandRing], xHc.deq[CommandRing], xHc.ccs[CommandRing])'
          /\ U(CommandRing)' = U(CommandRing)
      BY <2>1, <2>3, <3>1, <3>4 DEF U, ReadsOn
    <3>6. EventsSame /\ xEvent' = xEvent
      BY <3>1, <1>a, EventsStay DEF EventsUntouched
    <3>7. /\ Sched' = Sched /\ (\A a : PosOf(a)' = PosOf(a)) /\ (\A q : CAge(q)' = CAge(q))
          /\ (\A a : CAge(PosOf(a))' = CAge(PosOf(a)))
          /\ (\A i \in EventSlots : CAge(xEvent.slot[i].ptr)' = CAge(xEvent.slot[i].ptr))
      BY <2>1, <3>6 DEF Sched, PosOf, CAge
    <3>8. \A i \in EventSlots : /\ LiveCmd(i)' <=> LiveCmd(i)
                                /\ \A j \in EventSlots : LiveCmd(i) /\ LiveCmd(j) /\ Turn(i)' < Turn(j)' => Turn(i) < Turn(j)
      BY <3>6, CmdEventsStay DEF CmdEventsSame
    <3>10. (\A b \in Sched : xCrb[b].at # -1)' /\ (\A a, b \in Sched : PosOf(a) = PosOf(b) => a = b)'
      BY <2>1, <3>7, <1>a DEF CommandsOK
    <3>11. (\A b \in Sched, q \in Pos : CAge(q) <= CAge(PosOf(b)) => \E a \in Sched : PosOf(a) = q)'
      BY <3>7, <1>a DEF CommandsOK
    <3>12. (\A q \in Pos : CAge(q) <= U(CommandRing) => \E a \in Sched : PosOf(a) = q)'
      BY <3>5, <3>7, <1>a DEF CommandsOK
    <3>13. (\A i \in EventSlots : LiveCmd(i) =>
             /\ \E a \in Sched : PosOf(a) = xEvent.slot[i].ptr
             /\ xEvent.slot[i].tag = xRing[CommandRing].trb[xEvent.slot[i].ptr].tag
             /\ CAge(xEvent.slot[i].ptr) > U(CommandRing))'
      BY <2>1, <3>5, <3>6, <3>7, <3>8, <1>a DEF CommandsOK
    <3>14. (\A b \in Sched : \/ CAge(PosOf(b)) <= U(CommandRing)
                        \/ \E i \in EventSlots : LiveCmd(i) /\ xEvent.slot[i].ptr = PosOf(b))'
      BY <3>5, <3>6, <3>7, <3>8, <1>a DEF CommandsOK
    <3>15. (\A i, j \in EventSlots : LiveCmd(i) /\ LiveCmd(j) /\ Turn(i) < Turn(j) =>
             CAge(xEvent.slot[i].ptr) > CAge(xEvent.slot[j].ptr))'
      BY <3>7, <3>8, <1>a DEF CommandsOK
    <3>16. CommandsOK'
      BY <3>5, <3>10, <3>11, <3>12, <3>13, <3>14, <3>15 DEF CommandsOK
    <3> QED BY <2>2, <3>16
  <2>4. CASE r = CommandRing /\ xRing[r].trb[xHc.deq[r]].type # "LINK"
    <3>1. xHc.deq[CommandRing] \in Pos
      BY <2>1, <2>4, <1>a, EntryRead
    <3>2. Reports(xRing[CommandRing].trb[xHc.deq[CommandRing]].type)
      BY <2>1, <2>4, <3>1, CommandRead DEF CmdType, Reports
    <3> QED BY <2>2, <2>4, <3>2, <1>3, CommandReported
  <2>5. CASE r # CommandRing
    <3>0. r \in EndpointRings
      BY <2>5 DEF Rings
    <3>1. CASE xRing[r].trb[xHc.deq[r]].type = "LINK"
      <4>1. EventsUntouched /\ xHc'.deq[CommandRing] = xHc.deq[CommandRing] /\ xHc'.ccs[CommandRing] = xHc.ccs[CommandRing]
        BY <2>5, <3>1, <1>3, <1>a, <1>b, LinkRead DEF EventsUntouched, ReadsOn
      <4> QED BY <2>2, <4>1, <1>a, EventsStay, CmdEventsStay, CommandsRest
    <3>2. CASE xRing[r].trb[xHc.deq[r]].type # "LINK" /\ ~Reports(xRing[r].trb[xHc.deq[r]].type)
      <4>1. EventsUntouched /\ xHc'.deq[CommandRing] = xHc.deq[CommandRing] /\ xHc'.ccs[CommandRing] = xHc.ccs[CommandRing]
        BY <2>5, <3>2, <1>3, <1>a, <1>b, StageRead DEF EventsUntouched, ReadsOn
      <4> QED BY <2>2, <4>1, <1>a, EventsStay, CmdEventsStay, CommandsRest
    <3>3. CASE Reports(xRing[r].trb[xHc.deq[r]].type)
      <4>1. /\ xHc.deq[r] \in Pos /\ NextEnq # xEvent.erdp /\ xHc'.enq = NextEnq /\ xHc'.pcs = Enqueued
            /\ xEvent' = [xEvent EXCEPT !.slot[xHc.enq] = PostedEvent(r, "SUCCESS")] /\ Interrupts
            /\ xHc'.deq[CommandRing] = xHc.deq[CommandRing] /\ xHc'.ccs[CommandRing] = xHc.ccs[CommandRing]
        BY <2>5, <3>3, <1>3, <1>a, <1>b, ReportRead DEF ReadsOn
      <4>2. CmdEventsSame
        BY <3>0, <4>1, <1>a, TransferPosted
      <4> QED BY SMTT(60), <2>2, <4>1, <4>2, <1>a, CommandsRest
    <3> QED BY <3>1, <3>2, <3>3
  <2> QED BY <2>3, <2>4, <2>5
<1>4. ASSUME NEW r \in Rings, HcStop(r) PROVE CommandsOK' /\ CommandTagsOK'
  <2>1. EventsUntouched /\ xHc'.deq = xHc.deq /\ xHc'.ccs = xHc.ccs
    BY Zenon, <1>4, <1>a DEF HcStop, XTypes, HcSet, EventsUntouched
  <2>2. xRing' = xRing /\ xCrb' = xCrb /\ xClient' = xClient
    BY <1>4 DEF HcStop
  <2> QED BY <2>1, <2>2, <1>d, <1>e, <1>f DEF Rests
<1>5. ASSUME NEW r \in Rings, NEW code \in {"STALL", "TRANSACTION"}, HcFail(r, code)
      PROVE  CommandsOK' /\ CommandTagsOK'
  <2>1. xRing' = xRing /\ xCrb' = xCrb /\ xClient' = xClient
    BY <1>5 DEF HcFail
  <2>2. /\ r \in EndpointRings /\ xHc.deq[r] \in Pos /\ NextEnq # xEvent.erdp /\ xHc'.enq = NextEnq
        /\ xHc'.pcs = Enqueued /\ Interrupts /\ ReadsOn(r, xHc.deq[r], xHc.ccs[r])
        /\ xEvent' = [xEvent EXCEPT !.slot[xHc.enq] = PostedEvent(r, code)]
    BY <1>5, <1>a, FailRead
  <2>3. CmdEventsSame
    BY <2>2, <1>a, TransferPosted
  <2>4. xHc'.deq[CommandRing] = xHc.deq[CommandRing] /\ xHc'.ccs[CommandRing] = xHc.ccs[CommandRing]
    BY <2>2, <1>b DEF ReadsOn
  <2> QED BY <2>1, <2>3, <2>4, <1>a, <1>d, <1>e, CommandsRest DEF Rests
<1>6. CASE MsiHandler \/ EventThreadWakes
  <2>1. EventsUntouched /\ xHc' = xHc /\ xRing' = xRing /\ xCrb' = xCrb /\ xClient' = xClient
    BY Zenon, <1>6, <1>a DEF MsiHandler, EventThreadWakes, EventsUntouched, XTypes, ThreadSet
  <2> QED BY <2>1, <1>d, <1>e, <1>f DEF Rests
<1>7. CASE DequeueEvent
  <2>1. xHc' = xHc /\ xRing' = xRing /\ xCrb' = xCrb /\ xClient' = xClient
    BY <1>7 DEF DequeueEvent
  <2>2. CmdEventsSame
    BY <1>7, <1>a, Dequeued, CmdEventsStay
  <2> QED BY <2>1, <2>2, <1>a, <1>d, <1>e, CommandsRest DEF Rests
<1>8. CASE HandleCommand
  <2>1. CASE xPanic' # xPanic
    <3>1. EventsUntouched /\ xHc' = xHc /\ xRing' = xRing /\ xCrb' = xCrb /\ xClient' = xClient
      BY Zenon, <2>1, <1>8, <1>a, HandleCommandFacts DEF EventsUntouched
    <3> QED BY <3>1, <1>d, <1>e, <1>f DEF Rests
  <2>2. CASE xPanic' = xPanic
    <3>1. PICK b \in 1..CrbCount :
                /\ xCrb[b].state = "Scheduled" /\ xCrb[b].at = Event.ptr
                /\ Reblocks(b, [xCrb[b] EXCEPT !.response = Event.tag, !.state = "Completed", !.signal = 1])
      BY Zenon, <2>2, <1>8, <1>a, HandleCommandFacts DEF HandleCommand, Running
    <3>2. /\ Handling /\ Event.kind = "command" /\ xRing' = xRing /\ xHc' = xHc /\ xEvent' = xEvent /\ xClient' = xClient
          /\ ThreadGoes("dequeue", xThread.torn)
      BY Zenon, <2>2, <1>8, <1>a, HandleCommandFacts DEF HandleCommand, Running
    <3>3. xCrb'[b].state = "Completed" /\ \A a \in 1..CrbCount : a # b => xCrb'[a] = xCrb[a]
      BY <3>1, <1>c DEF Reblocks, CrbSet
    <3>4. CommandsOK'
      BY <3>1, <3>2, <3>3, CommandCompleted
    <3>5. CommandTagsOK'
      BY <3>2, <3>3, <1>a, OtherStays, CommandTagsRest
    <3> QED BY <3>4, <3>5
  <2> QED BY <2>1, <2>2
<1>9. CASE HandleFailure
  <2>1. EventsUntouched /\ xHc' = xHc /\ xCrb' = xCrb /\ xClient' = xClient /\ Event.ring \in EndpointRings
    BY Zenon, <1>9, <1>a, HandleFailureFacts, InHand DEF EventsUntouched, ThreadGoes
  <2>2. Rests(CommandRing)
    BY Zenon, <2>1, <1>9, <1>a, <1>b, HandleFailureFacts DEF Rests, Rewrites
  <2> QED BY <2>1, <2>2, <1>d, <1>e, <1>f DEF Rests
<1>10. CASE HandleTransfer
  <2>1. /\ Handling /\ Event.kind = "transfer" /\ Event.ring \in EndpointRings
        /\ ThreadGoes("dequeue", xThread.torn)
        /\ UNCHANGED <<xCrb, xEvent, xHc, xLock, xClient, xPanic>>
    BY <1>10, <1>a, HandleTransferFacts
  <2>2. Rests(CommandRing)
    BY <2>1, <1>10, <1>a, <1>b, HandleTransferFacts DEF Rests, Rewrites
  <2>3. CmdEventsSame
    BY <2>1, <1>a, TransferDealt
  <2> QED BY <2>1, <2>2, <2>3, <1>a, <1>d, <1>e, CommandsRest DEF Rests
<1> QED BY <1>1, <1>2, <1>3, <1>4, <1>5, <1>6, <1>7, <1>8, <1>9, <1>10 DEF XNext, EventThread

-----------------------------------------------------------------------------
(* The transfers *)

\* The entry the controller is at is the oldest that it has not read.
LEMMA FirstUnread ==
    ASSUME NEW ring \in RingSet, NEW deq \in Pos, NEW ccs \in {0, 1}, InStep(ring, deq, ccs),
           Unread(ring, deq, ccs) > 0
    PROVE  Age(ring, deq) = Unread(ring, deq, ccs)
<1>1. ring.index \in 0..MaxTrIndex /\ ring.pcs \in {0, 1}
  BY DEF RingSet
<1> QED BY <1>1, Sizes DEF InStep, Unread, Age, Pos

LEMMA UnreadInt ==
    ASSUME XTypes, NEW r \in Rings
    PROVE  U(r) \in Int
<1>1. /\ xHc.deq[r] \in 0..MaxTrIndex /\ xHc.ccs[r] \in {0, 1} /\ xRing[r].index \in 0..MaxTrIndex
  BY RingTypes
<1> QED BY <1>1, Sizes DEF U, Unread

\* The entry after an unread one, through the link, was written next.
LEMMA NextAge ==
    ASSUME NEW ring \in RingSet, Produced(ring), NEW p \in Pos, Age(ring, p) >= 2,
           p >= ring.index => ring.trb[MaxTrIndex].type = "LINK"
    PROVE  /\ NextTrb(ring.trb, p) \in Pos /\ Age(ring, NextTrb(ring.trb, p)) = Age(ring, p) - 1
           /\ p + 1 # MaxTrIndex => NextTrb(ring.trb, p) = p + 1
<1>1. ring.index \in 0..MaxTrIndex /\ p \in Nat /\ p < MaxTrIndex /\ p + 1 \in 0..MaxTrIndex
  BY Sizes DEF RingSet, Pos
<1>2. CASE p + 1 = MaxTrIndex
  <2>1. p >= ring.index
    BY <1>1, <1>2, Sizes DEF Age
  <2>2. NextTrb(ring.trb, p) = 0
    BY <2>1, <1>2 DEF NextTrb
  <2>3. Age(ring, p) = 1 + ring.index /\ ring.index > 0
    BY <2>1, <1>1, <1>2, Sizes DEF Age
  <2>4. Age(ring, 0) = ring.index
    BY <2>3, <1>1 DEF Age
  <2> QED BY <2>2, <2>3, <2>4, <1>1, <1>2, Sizes DEF Pos
<1>3. CASE p + 1 # MaxTrIndex
  <2>1. p + 1 \in Pos
    BY <1>1, <1>3, Sizes DEF Pos
  <2>2. NextTrb(ring.trb, p) = p + 1
    BY <2>1 DEF NextTrb, Produced
  <2>3. Age(ring, p + 1) = Age(ring, p) - 1
    BY <1>1, Sizes DEF Age
  <2> QED BY <2>1, <2>2, <2>3
<1> QED BY <1>2, <1>3

\* What the other steps leave of an endpoint: what is unread of its ring, its
\* events, and what its holder has asked for and written.
RingStays(r) ==
    /\ Rests(r) /\ U(r)' = U(r) /\ InStep(xRing[r], xHc.deq[r], xHc.ccs[r])'
    /\ \/ r \notin xHc.halted
       \/ r \in xHc'.halted /\ xHc'.deq[r] = xHc.deq[r]
       \/ \A i \in EventSlots : ~LiveOf(r, i)
    /\ Responding(r)' <=> Responding(r)
    /\ \A i \in EventSlots :
         /\ LiveOf(r, i)' <=> LiveOf(r, i)
         /\ LiveOf(r, i) => xEvent'.slot[i] = xEvent.slot[i]
HolderStays(d, r) == Holds(d, r)' =>
    /\ Holds(d, r) /\ TagOf(d)' = TagOf(d) /\ Written(d)' = Written(d) /\ Request(d)' = Request(d)
    /\ xClient'[d].pc = "issue" <=> xClient[d].pc = "issue"

LEMMA TransferRests ==
    ASSUME NEW r \in EndpointRings, TransferOK(r), RingStays(r), \A d \in XClients : HolderStays(d, r),
           xRing'[r].state = xRing[r].state,
           xRing'[r].signal = 1 => xRing[r].signal = 1 /\ xRing'[r].response = xRing[r].response
    PROVE  TransferOK(r)'
<1>1. /\ \A p : Age(xRing[r], p)' = Age(xRing[r], p)
      /\ \A i : Age(xRing[r], i)' = Age(xRing'[r], i)
      /\ \A p : xRing'[r].trb[p] = xRing[r].trb[p]
  BY DEF RingStays, Rests, Age
<1>2. AllNop(r) => AllNop(r)'
  BY <1>1 DEF AllNop, RingStays
<1>3. ASSUME NEW c \in XClients, Holds(c, r)', Stages(r, c) PROVE Stages(r, c)'
  <2>1. Written(c)' = Written(c) /\ TagOf(c)' = TagOf(c) /\ Request(c)' = Request(c)
    BY <1>3 DEF HolderStays
  <2> QED BY <2>1, <1>1, <1>3 DEF Stages, RingStays
<1>4. ASSUME NEW c \in XClients, Holds(c, r)', NEW i \in EventSlots, LiveOf(r, i), Reported(r, c, i)
      PROVE  Reported(r, c, i)'
  <2>1. TagOf(c)' = TagOf(c) /\ (xClient'[c].pc = "issue" <=> xClient[c].pc = "issue")
    BY <1>4 DEF HolderStays
  <2>2. xEvent'.slot[i] = xEvent.slot[i] /\ \A j \in EventSlots : LiveOf(r, j)' => i = j
    BY <1>4 DEF RingStays, Reported
  <2>3. xEvent'.slot[i].tag = TagOf(c)'
    BY <2>1, <2>2, <1>4 DEF Reported
  <2>4. CASE Responding(r)
    BY <2>2, <2>3, <2>4 DEF Reported, RingStays
  <2>5. CASE ~Responding(r) /\ r \notin xHc.halted
    BY <2>1, <2>2, <2>3, <2>5, <1>1, <1>4 DEF Reported, RingStays
  <2>6. CASE ~Responding(r) /\ r \in xHc'.halted /\ xHc'.deq[r] = xHc.deq[r]
    BY <2>1, <2>2, <2>3, <2>6, <1>1, <1>4 DEF Reported, RingStays
  <2> QED BY <2>4, <2>5, <2>6, <1>4 DEF RingStays
<1>5. \A c \in XClients : Holds(c, r)' => Holds(c, r)
  BY DEF HolderStays
<1>6. xRing'[r].state # "Scheduled" => AllNop(r)' /\ \A i \in EventSlots : ~LiveOf(r, i)'
  BY <1>2 DEF TransferOK, RingStays
<1>7. xRing'[r].state = "Scheduled" /\ Responding(r)' => AllNop(r)'
  BY <1>2 DEF TransferOK, RingStays
<1>8. ASSUME xRing'[r].state = "Scheduled", NEW c \in XClients, Holds(c, r)'
      PROVE  /\ Responding(r)' => xClient'[c].pc # "issue"
             /\ ~Responding(r)' => Stages(r, c)'
             /\ \A i \in EventSlots : LiveOf(r, i)' => Reported(r, c, i)'
  <2>1. /\ Responding(r) => xClient[c].pc # "issue"
        /\ ~Responding(r) => Stages(r, c)
        /\ \A i \in EventSlots : LiveOf(r, i) => Reported(r, c, i)
    BY <1>5, <1>8 DEF TransferOK
  <2> QED BY <2>1, <1>3, <1>4, <1>8 DEF RingStays, HolderStays
<1>9. xRing'[r].signal = 1 =>
         \A c \in XClients : Holds(c, r)' => xRing'[r].response = TagOf(c)' /\ xClient'[c].pc # "issue"
  BY DEF TransferOK, HolderStays
<1>10. InStep(xRing[r], xHc.deq[r], xHc.ccs[r])'
  BY DEF RingStays
<1> QED BY <1>6, <1>7, <1>8, <1>9, <1>10 DEF TransferOK

\* A client takes the permit of an endpoint: all that is unread are no-ops.
LEMMA TransferScoped ==
    ASSUME XInv, NEW c \in XClients, Scope(c) \/ ScopeGranted(c), NEW r \in EndpointRings, r = Request(c).ring,
           TransferOK(r)
    PROVE  TransferOK(r)'
<1>a. XTypes /\ EventRingOK /\ PermitsOK /\ ClientsOK /\ ClientOK(c) /\ PermitOK(r)
  BY DEF XInv, ClientsOK, PermitsOK
<1>0. r \in Rings /\ xRing[r] \in RingSet
  BY Zenon, <1>a DEF Rings, XTypes
<1>1. /\ xRing[r].scope = 1 /\ HasRequest(c) /\ Request(c).kind # "command"
      /\ Rewrites(r, [xRing[r] EXCEPT !.scope = 0, !.state = "Scheduled"])
      /\ Moves(c, "issue", xClient[c].n, TrbsOf(Request(c)), xClient[c].crb, xClient[c].got)
  BY Zenon, <1>a, ScopeFacts
<1>2. EventsUntouched /\ xThread' = xThread /\ xHc'.deq = xHc.deq /\ xHc'.ccs = xHc.ccs /\ XClientStep(c)
  BY <1>a, ClientUntouched DEF XClientStep
<1>3. EventsSame /\ xEvent' = xEvent
  BY <1>2, <1>a, EventsStay DEF EventsUntouched
<1>4. /\ Rests(r) /\ xRing'[r].state = "Scheduled" /\ xRing'[r].signal = xRing[r].signal
  BY <1>0, <1>1 DEF Rewrites, Rests, RingSet
<1>5. xRing[r].state # "Scheduled" /\ xRing[r].signal # 1
  BY <1>1, <1>a DEF PermitOK
<1>6. AllNop(r) /\ InStep(xRing[r], xHc.deq[r], xHc.ccs[r]) /\ \A i \in EventSlots : ~LiveOf(r, i)
  BY <1>5 DEF TransferOK
<1>7. \A i \in EventSlots : ~LiveOf(r, i)'
  BY <1>3, <1>6 DEF EventsSame, LiveOf
<1>8. ~Responding(r)'
  <2>1. ~Responding(r)
    BY <1>6, <1>a, InHand DEF Responding, Handling, LiveOf
  <2> QED BY <2>1, <1>2, <1>3 DEF Responding, Event
<1>9. \A d \in XClients : Holds(d, r)' => d = c
  <2>1. \A d \in XClients : d # c => (Holds(d, r)' <=> Holds(d, r))
    BY <1>1, OtherStays DEF Moves
  <2> QED BY <2>1, <1>1, <1>a DEF PermitOK
<1>10. Written(c)' = 0
  <2>1. Request(c)' = Request(c)
    BY <1>1, SameRequest DEF Moves
  <2>2. Len(TrbsOf(Request(c))) \in 1..3
    BY <1>1, <1>a, RequestTypes, StagesTyped
  <2> QED BY <2>1, <2>2, <1>1 DEF Moves, Written
<1>11. /\ U(r)' = U(r) /\ U(r) \in Int /\ InStep(xRing[r], xHc.deq[r], xHc.ccs[r])'
       /\ \A p \in Pos : Age(xRing[r], p)' = Age(xRing[r], p) /\ Age(xRing[r], p) \in 1..MaxTrIndex
  BY <1>0, <1>2, <1>4, <1>6, <1>a, Ages, UnreadInt DEF U, Unread, InStep, Age, Rests
<1>12. Stages(r, c)'
  <2>1. \A p \in Pos : ~(Age(xRing[r], p)' <= 0)
    BY <1>11, Sizes
  <2>2. \A p \in Pos : Age(xRing[r], p)' <= U(r)' => xRing'[r].trb[p].type = "NOP"
    BY <1>4, <1>6, <1>11 DEF AllNop, Rests
  <2>3. U(r)' <= 0 + 3
    BY <1>6, <1>11 DEF AllNop
  <2> QED BY <2>1, <2>2, <2>3, <1>10 DEF Stages
<1> QED BY <1>4, <1>5, <1>7, <1>8, <1>9, <1>11, <1>12 DEF TransferOK

\* A client writes a stage: everything is one older.
LEMMA StageIssued ==
    ASSUME XInv, NEW c \in XClients, IssueStage(c), NEW r \in EndpointRings, r = Request(c).ring,
           TransferOK(r)
    PROVE  TransferOK(r)'
<1>a. XTypes /\ EventRingOK /\ PermitsOK /\ ClientsOK /\ ClientOK(c) /\ PermitOK(r)
  BY DEF XInv, ClientsOK, PermitsOK
<1>0. r \in Rings /\ xRing[r] \in RingSet /\ xHc.deq[r] \in 0..MaxTrIndex /\ xHc.ccs[r] \in {0, 1}
      /\ MaxTrIndex \in Nat /\ MaxTrIndex >= 7
  BY <1>a, RingTypes, Sizes DEF Rings
<1> PICK type : type = Head(xClient[c].todo)
  OBVIOUS
<1> PICK tag : tag = TagOf(c)
  OBVIOUS
<1> PICK ring : ring = xRing[r]
  OBVIOUS
<1> PICK new : new = IssueTrb(ring, type, tag)
  OBVIOUS
<1> PICK at : at = IssuedAt(ring)
  OBVIOUS
<1> PICK T : T = TrbsOf(Request(c))
  OBVIOUS
<1> PICK w : w = Written(c)
  OBVIOUS
<1> PICK u : u = U(r)
  OBVIOUS
<1>1. /\ HasRequest(c) /\ Request(c).kind # "command" /\ xClient[c].pc = "issue"
      /\ xClient[c].todo # <<>> /\ type \in StageTypes /\ tag \in Tags
      /\ Rewrites(r, new)
      /\ Moves(c, IF Len(xClient[c].todo) = 1 THEN "bell" ELSE "issue", xClient[c].n,
               Tail(xClient[c].todo), xClient[c].crb, xClient[c].got)
  BY <1>a, IssueStageFacts
<1>2. EventsUntouched /\ xThread' = xThread /\ xHc'.deq = xHc.deq /\ xHc'.ccs = xHc.ccs
      /\ xHc'.halted = xHc.halted
  BY <1>a, ClientUntouched DEF XClientStep
<1>3. EventsSame /\ xEvent' = xEvent
  BY <1>2, <1>a, EventsStay DEF EventsUntouched
<1>4. Holds(c, r) /\ xClient[c].pc \in ActivePcs
  BY <1>1 DEF Holds, ActivePcs
<1>5. xRing[r].state = "Scheduled" /\ xRing[r].signal # 1
  BY <1>1, <1>4, <1>a DEF PermitOK, TransferOK
<1>6. /\ ~Responding(r) /\ Stages(r, c) /\ InStep(ring, xHc.deq[r], xHc.ccs[r])
      /\ \A i \in EventSlots : LiveOf(r, i) => Reported(r, c, i)
  BY <1>1, <1>4, <1>5 DEF TransferOK
<1>7. ~Responding(r)' /\ \A i \in EventSlots : (LiveOf(r, i)' <=> LiveOf(r, i)) /\ xEvent'.slot[i] = xEvent.slot[i]
  BY <1>2, <1>3, <1>6 DEF Responding, Event, EventsSame, LiveOf
<1>8. Request(c)' = Request(c) /\ TagOf(c)' = tag /\ xClient'[c].todo = Tail(xClient[c].todo)
      /\ TrbsOf(Request(c))' = T
  BY <1>1, SameRequest DEF Moves
<1>9. /\ Len(T) \in 1..3 /\ xClient[c].todo \in Seq(StageTypes) /\ Len(xClient[c].todo) <= Len(T)
      /\ \A j \in 1..Len(xClient[c].todo) : xClient[c].todo[j] = T[Len(T) - Len(xClient[c].todo) + j]
  BY <1>1, <1>4, <1>a, RequestTypes, StagesTyped, ClientTypes DEF XInv, TodoOK, Written
<1>10. /\ w \in 0..2 /\ Written(c)' = w + 1 /\ type = T[w + 1]
  <2> PICK s : s = xClient[c].todo
    OBVIOUS
  <2> PICK n : n = Len(T)
    OBVIOUS
  <2>1. s \in Seq(StageTypes) /\ s # <<>> /\ n \in Nat /\ n <= 3 /\ Len(s) <= n
    BY <1>1, <1>9
  <2>a. \A j \in 1..Len(s) : s[j] = T[n - Len(s) + j]
    BY <1>9, Zenon
  <2>2. /\ Len(Tail(s)) = Len(s) - 1 /\ n - Len(Tail(s)) = n - Len(s) + 1
        /\ Head(s) = T[n - Len(Tail(s))]
    BY <2>1, <2>a, TodoIssued
  <2>3. Len(s) \in Nat /\ Len(s) > 0
    BY <2>1, EmptySeq
  <2>4. w = n - Len(s) /\ Written(c)' = n - Len(Tail(s))
    BY <1>8 DEF Written
  <2>b. \A m \in Nat : m > 0 /\ m <= n => n - m \in 0..2
    BY <2>1
  <2>c. w \in 0..2
    BY <2>b, <2>1, <2>3, <2>4
  <2>5. w \in 0..2 /\ Written(c)' = w + 1
    BY <2>c, <2>2, <2>4
  <2>6. n - Len(Tail(s)) = w + 1
    BY <2>4, <2>5
  <2> QED BY <2>2, <2>5, <2>6
<1>11. u <= w + 3 /\ u \in Int /\ u <= MaxTrIndex - 2
  <2>1. u <= w + 3 /\ u \in Int
    BY <1>0, <1>6, <1>a, UnreadInt DEF Stages
  <2> QED BY <2>1, <1>0, <1>10
<1>12. type \in TrbTypes
  BY <1>1 DEF TrbTypes
<1>13. /\ InStep(new, xHc.deq[r], xHc.ccs[r])
       /\ Unread(new, xHc.deq[r], xHc.ccs[r]) = u + 1
  BY <1>0, <1>1, <1>6, <1>11, <1>12, IssuedInStep DEF U
<1>14. xRing'[r] = new /\ U(r)' = u + 1 /\ InStep(xRing[r], xHc.deq[r], xHc.ccs[r])'
  BY <1>1, <1>2, <1>13 DEF Rewrites, U
<1>15. /\ at \in Pos /\ new.trb[at] = Trb(type, new.pcs, tag)
       /\ \A i \in Pos : i # at => new.trb[i] = ring.trb[i]
       /\ new.state = ring.state /\ new.signal = ring.signal
  BY <1>0, <1>1, <1>12, Issued
<1>16. /\ Age(ring, at) = MaxTrIndex /\ Age(new, at) = 1
       /\ \A p \in Pos : p # at => Age(new, p) = Age(ring, p) + 1
  BY <1>0, <1>1, <1>12, IssuedAges
<1>17. \A p \in Pos : Age(ring, p) \in 1..MaxTrIndex
  BY <1>0, Ages
<1>18. \A p : Age(xRing[r], p)' = Age(new, p)
  BY <1>14 DEF Age
<1>19. Stages(r, c)'
  <2>1. U(r)' <= Written(c)' + 3
    BY <1>10, <1>11, <1>14
  <2>2. ASSUME NEW p \in Pos, Age(new, p) <= w + 1
        PROVE  new.trb[p].type = T[w + 2 - Age(new, p)] /\ new.trb[p].tag = tag
    <3>1. CASE p = at
      <4>1. w + 2 - Age(new, p) = w + 1
        BY <3>1, <1>10, <1>16
      <4> QED BY <3>1, <4>1, <1>10, <1>15 DEF Trb
    <3>2. CASE p # at
      <4>1. Age(ring, p) \in Nat /\ Age(ring, p) <= w /\ w + 2 - Age(new, p) = w + 1 - Age(ring, p)
        BY <2>2, <3>2, <1>0, <1>10, <1>16, <1>17
      <4>2. ring.trb[p].type = T[w + 1 - Age(ring, p)] /\ ring.trb[p].tag = tag
        BY <4>1, <1>6 DEF Stages
      <4> QED BY <3>2, <4>1, <4>2, <1>15
    <3> QED BY <3>1, <3>2
  <2>3. ASSUME NEW p \in Pos, Age(new, p) > w + 1, Age(new, p) <= u + 1
        PROVE  new.trb[p].type = "NOP"
    <3>1. p # at
      BY <2>3, <1>10, <1>16
    <3>2. Age(ring, p) > w /\ Age(ring, p) <= u
      BY <2>3, <3>1, <1>0, <1>10, <1>11, <1>16, <1>17
    <3> QED BY <3>1, <3>2, <1>6, <1>15 DEF Stages
  <2>4. (w + 1) + 1 = w + 2
    BY <1>10
  <2>5. \A p \in Pos : Age(xRing[r], p)' <= Written(c)' =>
         /\ xRing'[r].trb[p].type = TrbsOf(Request(c))'[Written(c)' + 1 - Age(xRing[r], p)']
         /\ xRing'[r].trb[p].tag = TagOf(c)'
    <3> SUFFICES ASSUME NEW p \in Pos, Age(new, p) <= w + 1
                 PROVE  /\ new.trb[p].type = T[(w + 1) + 1 - Age(new, p)] /\ new.trb[p].tag = tag
      BY <1>8, <1>10, <1>14, <1>18
    <3>1. Age(new, p) \in Int
      BY <1>16, <1>17
    <3>2. (w + 1) + 1 - Age(new, p) = w + 2 - Age(new, p)
      BY <3>1, <1>10
    <3> QED BY <2>2, <3>2
  <2>6. \A p \in Pos : Age(xRing[r], p)' > Written(c)' /\ Age(xRing[r], p)' <= U(r)' => xRing'[r].trb[p].type = "NOP"
    <3> SUFFICES ASSUME NEW p \in Pos, Age(new, p) > w + 1, Age(new, p) <= u + 1
                 PROVE  new.trb[p].type = "NOP"
      BY <1>10, <1>14, <1>18
    <3> QED BY <2>3
  <2> QED BY <2>1, <2>5, <2>6 DEF Stages
<1>20. ASSUME NEW i \in EventSlots, LiveOf(r, i) PROVE Reported(r, c, i)'
  <2>1. Reported(r, c, i) /\ xEvent.slot[i].ptr \in Pos
    <3>1. Reported(r, c, i)
      BY Zenon, <1>6, <1>20
    <3>2. xEvent.slot[i] \in EventSet
      BY Zenon, <1>20, <1>a DEF LiveOf, EventRingOK
    <3> QED BY <3>1, <3>2 DEF EventSet
  <2>2. /\ ring.trb[xEvent.slot[i].ptr].type \in {"SETUP", "DATA"}
        /\ r \in xHc.halted /\ xEvent.slot[i].ptr = xHc.deq[r] /\ u > 0
    BY <2>1, <1>1, <1>6 DEF Reported
  <2>3. Age(ring, xEvent.slot[i].ptr) = u
    BY <2>1, <2>2, <1>0, <1>6, FirstUnread DEF U
  <2>4. xEvent.slot[i].ptr # at
    BY SMTT(60), <2>3, <1>0, <1>11, <1>16
  <2>5. /\ new.trb[xEvent.slot[i].ptr].type \in {"SETUP", "DATA"} /\ u + 1 > 0
    BY <2>1, <2>2, <2>4, <1>11, <1>15
  <2> QED BY Zenon, <2>1, <2>2, <2>5, <1>2, <1>7, <1>8, <1>14 DEF Reported
<1>21. \A d \in XClients : Holds(d, r)' => d = c
  <2>1. \A d \in XClients : d # c => (Holds(d, r)' <=> Holds(d, r))
    BY <1>1, OtherStays DEF Moves
  <2> QED BY <2>1, <1>4, <1>a DEF PermitOK
<1> QED BY <1>5, <1>7, <1>14, <1>15, <1>19, <1>20, <1>21 DEF TransferOK

\* What the controller finds in the ring of an endpoint: a no-op, or a stage of
\* the transfer of the holder, for which there is no event yet.
LEMMA EndpointRead ==
    ASSUME XInv, NEW r \in EndpointRings, TransferOK(r), xHc.deq[r] \in Pos, Consumable(r), r \notin xHc.halted
    PROVE  /\ U(r) \in Nat /\ U(r) > 0 /\ Age(xRing[r], xHc.deq[r]) = U(r)
           /\ ~Responding(r) => \A i \in EventSlots : ~LiveOf(r, i)
           /\ xRing[r].trb[xHc.deq[r]].type # "NOP" =>
                /\ xRing[r].state = "Scheduled" /\ ~Responding(r)
                /\ \A c \in XClients : Holds(c, r) =>
                     /\ Stages(r, c) /\ U(r) <= Written(c)
                     /\ xRing[r].trb[xHc.deq[r]].type = TrbsOf(Request(c))[Written(c) + 1 - U(r)]
                     /\ xRing[r].trb[xHc.deq[r]].tag = TagOf(c)
<1>a. XTypes /\ EventRingOK /\ PermitOK(r) /\ Producers
  BY DEF XInv, PermitsOK
<1> PICK p : p = xHc.deq[r]
  OBVIOUS
<1> PICK u : u = U(r)
  OBVIOUS
<1>0. /\ r \in Rings /\ xRing[r] \in RingSet /\ p \in 0..MaxTrIndex /\ xHc.ccs[r] \in {0, 1}
      /\ Produced(xRing[r]) /\ InStep(xRing[r], p, xHc.ccs[r])
      /\ xRing[r].trb[MaxTrIndex].type = "RESERVED" => xHc.ccs[r] = 1
  BY <1>a, RingTypes DEF Rings, Producers, TransferOK
<1>1. p # MaxTrIndex /\ xRing[r].trb[p].cycle = xHc.ccs[r] /\ p \in Pos
  BY Sizes DEF Pos, Consumable
<1>2. u \in 0..2 * MaxTrIndex /\ u > 0 /\ Age(xRing[r], p) = u
  BY <1>0, <1>1, Reading DEF U
<1>3. u \in Nat
  BY <1>2, Sizes
<1>4. ASSUME ~Responding(r), NEW i \in EventSlots, LiveOf(r, i) PROVE FALSE
  <2>1. xRing[r].state = "Scheduled"
    BY <1>4 DEF TransferOK
  <2>2. PICK c \in XClients : Holds(c, r)
    BY <2>1, <1>a DEF PermitOK
  <2>3. Reported(r, c, i)
    BY <2>1, <2>2, <1>4 DEF TransferOK
  <2> QED BY <2>3, <1>2, <1>4 DEF Reported
<1>5. ASSUME xRing[r].trb[p].type # "NOP"
      PROVE  /\ xRing[r].state = "Scheduled" /\ ~Responding(r)
             /\ \A c \in XClients : Holds(c, r) =>
                  /\ Stages(r, c) /\ u <= Written(c)
                  /\ xRing[r].trb[p].type = TrbsOf(Request(c))[Written(c) + 1 - u]
                  /\ xRing[r].trb[p].tag = TagOf(c)
  <2>1. u <= u
    BY <1>3
  <2>2. ~AllNop(r)
    BY <2>1, <1>1, <1>2, <1>5 DEF AllNop
  <2>3. xRing[r].state = "Scheduled" /\ ~Responding(r)
    BY <2>2 DEF TransferOK
  <2>4. ASSUME NEW c \in XClients, Holds(c, r)
        PROVE  /\ Stages(r, c) /\ u <= Written(c)
               /\ xRing[r].trb[p].type = TrbsOf(Request(c))[Written(c) + 1 - u]
               /\ xRing[r].trb[p].tag = TagOf(c)
    <3>1. Stages(r, c)
      BY <2>3, <2>4 DEF TransferOK
    <3>2. Written(c) \in Int
      <4>1. xClient[c].todo \in Seq(StageTypes) /\ ClientOK(c)
        BY <1>a, ClientTypes DEF XInv, ClientsOK
      <4>2. HasRequest(c) /\ Request(c).kind # "command"
        BY <2>4, <4>1 DEF ClientOK, Holds, ActivePcs, ResetPcs
      <4>3. Len(TrbsOf(Request(c))) \in 1..3
        BY <4>2, <1>a, RequestTypes, StagesTyped
      <4>4. Len(xClient[c].todo) \in Nat
        BY <4>1
      <4> QED BY <4>3, <4>4 DEF Written
    <3>3. ~(u > Written(c))
      BY <3>1, <2>1, <1>1, <1>2, <1>5 DEF Stages
    <3>4. u <= Written(c)
      BY <3>2, <3>3, <1>3
    <3> QED BY <3>1, <3>4, <1>1, <1>2 DEF Stages
  <2> QED BY <2>3, <2>4
<1> QED BY <1>2, <1>3, <1>4, <1>5

\* What a holder has written of its transfer.
LEMMA HolderFacts ==
    ASSUME XInv, NEW r \in EndpointRings, NEW c \in XClients, Holds(c, r)
    PROVE  /\ HasRequest(c) /\ Request(c).kind # "command" /\ ClientOK(c)
           /\ Len(TrbsOf(Request(c))) \in 1..3 /\ Written(c) \in Int
           /\ TrbsOf(Request(c)) \in {<<"NORMAL">>, <<"SETUP", "STATUS">>, <<"SETUP", "DATA", "STATUS">>}
           /\ Written(c) <= Len(TrbsOf(Request(c)))
           /\ Written(c) = Len(TrbsOf(Request(c))) => xClient[c].pc # "issue"
           /\ xClient[c].pc \in {"bell", "wait"} => Written(c) = Len(TrbsOf(Request(c)))
<1>1. XTypes /\ ClientOK(c) /\ xClient[c].todo \in Seq(StageTypes)
  BY ClientTypes DEF XInv, ClientsOK
<1>2. HasRequest(c) /\ Request(c).kind # "command"
  BY <1>1 DEF ClientOK, Holds, ActivePcs, ResetPcs
<1>3. /\ Len(TrbsOf(Request(c))) \in 1..3
      /\ TrbsOf(Request(c)) \in {<<"NORMAL">>, <<"SETUP", "STATUS">>, <<"SETUP", "DATA", "STATUS">>}
  BY <1>1, <1>2, RequestTypes, StagesTyped
<1>4. Len(xClient[c].todo) \in Nat /\ (Len(xClient[c].todo) = 0 <=> xClient[c].todo = <<>>)
  BY <1>1, EmptySeq
<1> QED BY <1>1, <1>2, <1>3, <1>4 DEF Written, ClientOK

\* The controller reads an entry that it does not report.
LEMMA TransferRead ==
    ASSUME XInv, NEW r \in EndpointRings, TransferOK(r), HcConsume(r), xRing[r].trb[xHc.deq[r]].type # "LINK",
           ~Reports(xRing[r].trb[xHc.deq[r]].type)
    PROVE  TransferOK(r)'
<1>a. XTypes /\ EventRingOK /\ PermitOK(r) /\ Producers /\ r \in Rings
  BY DEF XInv, PermitsOK, Rings
<1> PICK p : p = xHc.deq[r]
  OBVIOUS
<1> PICK u : u = U(r)
  OBVIOUS
<1>1. /\ p \in Pos /\ ReadsOn(r, p + 1, xHc.ccs[r]) /\ xHc'.halted = xHc.halted
      /\ xHc'.enq = xHc.enq /\ xHc'.pcs = xHc.pcs /\ UNCHANGED <<xEvent, xThread>>
  BY <1>a, StageRead
<1>2. xRing' = xRing /\ xClient' = xClient /\ Consumable(r) /\ r \notin xHc.halted
  BY DEF HcConsume
<1>3. /\ u \in Nat /\ u > 0 /\ (~Responding(r) => \A i \in EventSlots : ~LiveOf(r, i))
  BY <1>1, <1>2, EndpointRead
<1>4. /\ xRing[r] \in RingSet /\ xHc.ccs[r] \in {0, 1} /\ InStep(xRing[r], p, xHc.ccs[r])
      /\ Unread(xRing[r], p, xHc.ccs[r]) = u
  BY <1>a, RingTypes DEF TransferOK, U
<1>5. /\ InStep(xRing[r], p + 1, xHc.ccs[r]) /\ Unread(xRing[r], p + 1, xHc.ccs[r]) = u - 1
  BY <1>1, <1>3, <1>4, EntryStep
<1>6. InStep(xRing[r], xHc.deq[r], xHc.ccs[r])' /\ U(r)' = u - 1
  BY <1>1, <1>2, <1>5 DEF ReadsOn, U
<1>7. EventsSame
  BY <1>1, <1>a, EventsStay DEF EventsUntouched
<1>8. /\ Responding(r)' <=> Responding(r)
      /\ \A i \in EventSlots : LiveOf(r, i)' <=> LiveOf(r, i)
  BY <1>1, <1>7 DEF Responding, Event, EventsSame, LiveOf
<1>9. /\ \A p1 \in Pos : Age(xRing[r], p1)' = Age(xRing[r], p1) /\ Age(xRing[r], p1) \in Nat
      /\ \A d \in XClients : /\ Holds(d, r)' <=> Holds(d, r)
                             /\ TagOf(d)' = TagOf(d) /\ Request(d)' = Request(d) /\ Written(d)' = Written(d)
  <2>1. \A p1 \in Pos : Age(xRing[r], p1)' = Age(xRing[r], p1) /\ Age(xRing[r], p1) \in Nat
    BY <1>2, <1>4, Ages, Sizes DEF Age
  <2> QED BY <2>1, <1>2, OtherStays
<1>10. AllNop(r) => AllNop(r)'
  BY <1>2, <1>3, <1>6, <1>9 DEF AllNop
<1>11. ASSUME NEW c \in XClients, Holds(c, r), Stages(r, c) PROVE Stages(r, c)'
  <2>0. Written(c) \in Int
    BY <1>11, HolderFacts
  <2>1. U(r)' <= Written(c)' + 3
    BY <2>0, <1>3, <1>6, <1>9, <1>11 DEF Stages
  <2>2. \A p1 \in Pos : Age(xRing[r], p1)' <= U(r)' => Age(xRing[r], p1) <= u
    BY <1>3, <1>6, <1>9
  <2> QED BY <2>1, <2>2, <1>2, <1>9, <1>11 DEF Stages
<1>12. ASSUME NEW c \in XClients, Holds(c, r), NEW i \in EventSlots, LiveOf(r, i), Reported(r, c, i) PROVE Reported(r, c, i)'
  BY <1>1, <1>3, <1>8, <1>9, <1>12 DEF Reported
<1>13. xRing[r].state # "Scheduled" => AllNop(r)' /\ \A i \in EventSlots : ~LiveOf(r, i)'
  BY <1>8, <1>10 DEF TransferOK
<1>14. xRing[r].state = "Scheduled" /\ Responding(r)' => AllNop(r)'
  BY <1>8, <1>10 DEF TransferOK
<1>15. ASSUME xRing[r].state = "Scheduled", NEW c \in XClients, Holds(c, r)'
       PROVE  /\ Responding(r)' => xClient'[c].pc # "issue"
              /\ ~Responding(r)' => Stages(r, c)'
              /\ \A i \in EventSlots : LiveOf(r, i)' => Reported(r, c, i)'
  <2>1. Holds(c, r)
    BY <1>9, <1>15
  <2> QED BY <2>1, <1>2, <1>8, <1>11, <1>12, <1>15 DEF TransferOK
<1>16. xRing'[r].signal = 1 =>
         \A c \in XClients : Holds(c, r)' => xRing'[r].response = TagOf(c)' /\ xClient'[c].pc # "issue"
  BY <1>2, <1>9 DEF TransferOK
<1> QED BY <1>2, <1>6, <1>13, <1>14, <1>15, <1>16 DEF TransferOK

\* A new event is one more for its ring and none for the others.
LEMMA EventFor ==
    ASSUME XTypes, EventRingOK, NEW r \in Rings, NEW code \in {"SUCCESS", "STALL", "TRANSACTION"},
           xHc.deq[r] \in Pos, NextEnq # xEvent.erdp, xHc'.enq = NextEnq, xHc'.pcs = Enqueued, Interrupts,
           xEvent' = [xEvent EXCEPT !.slot[xHc.enq] = PostedEvent(r, code)], NEW k, k = xHc.enq
    PROVE  /\ k \in EventSlots /\ xEvent'.slot[k].ptr = xHc.deq[r]
           /\ xEvent'.slot[k].tag = xRing[r].trb[xHc.deq[r]].tag
           /\ LiveOf(r, k)' /\ \A i \in EventSlots : i # k => (LiveOf(r, i)' <=> LiveOf(r, i))
           /\ \A q \in Rings : (Responding(q)' <=> Responding(q))
           /\ \A q \in Rings : q # r => \A i \in EventSlots :
                (LiveOf(q, i)' <=> LiveOf(q, i)) /\ (LiveOf(q, i) => xEvent'.slot[i] = xEvent.slot[i])
<1> PICK e : e = PostedEvent(r, code)
  OBVIOUS
<1>1. /\ e \in EventSet /\ e.cycle = xHc.pcs /\ (e.kind = "command" <=> e.ring = CommandRing)
      /\ e.ring = r /\ e.ptr = xHc.deq[r] /\ e.tag = xRing[r].trb[xHc.deq[r]].tag
  BY PostedTyped
<1>2. xThread'.pc = xThread.pc /\ xThread'.at = xThread.at
  BY DEF Interrupts
<1>3. /\ k \in EventSlots /\ xEvent'.slot[k] = e /\ ~Live(k) /\ Live(k)'
      /\ \A i \in EventSlots \ {k} : (Live(i)' <=> Live(i)) /\ xEvent'.slot[i] = xEvent.slot[i]
  BY <1>1, <1>2, EventPosted
<1>4. ASSUME xThread.pc = "respond" PROVE Event' = Event
  <2>1. xThread.at \in EventSlots /\ Live(xThread.at)
    BY <1>4, InHand DEF Handling
  <2> QED BY <2>1, <1>2, <1>3 DEF Event
<1>5. \A q \in Rings : (Responding(q)' <=> Responding(q))
  BY <1>2, <1>4 DEF Responding
<1>6. \A q \in Rings : LiveOf(q, k)' <=> q = r
  BY <1>1, <1>3 DEF LiveOf
<1>7. \A q \in Rings : ~LiveOf(q, k)
  BY <1>3 DEF LiveOf
<1>8. \A q \in Rings, i \in EventSlots : i # k => (LiveOf(q, i)' <=> LiveOf(q, i)) /\ xEvent'.slot[i] = xEvent.slot[i]
  BY <1>3 DEF LiveOf
<1> QED BY <1>1, <1>3, <1>5, <1>6, <1>7, <1>8

\* The controller reads the last stage of a transfer and reports it.
LEMMA TransferReported ==
    ASSUME XInv, NEW r \in EndpointRings, TransferOK(r), HcConsume(r),
           Reports(xRing[r].trb[xHc.deq[r]].type)
    PROVE  TransferOK(r)'
<1>a. XTypes /\ EventRingOK /\ PermitOK(r) /\ Producers /\ r \in Rings /\ r # CommandRing
  BY XhciAssumption DEF XInv, PermitsOK, Rings
<1> PICK p : p = xHc.deq[r]
  OBVIOUS
<1> PICK u : u = U(r)
  OBVIOUS
<1> PICK k : k = xHc.enq
  BY SMTT(60)
<1>1. /\ p \in Pos /\ ReadsOn(r, p + 1, xHc.ccs[r]) /\ NextEnq # xEvent.erdp
      /\ xHc'.enq = NextEnq /\ xHc'.pcs = Enqueued /\ Interrupts
      /\ xEvent' = [xEvent EXCEPT !.slot[xHc.enq] = PostedEvent(r, "SUCCESS")]
  BY <1>a, ReportRead
<1>2. xRing' = xRing /\ xClient' = xClient /\ Consumable(r) /\ r \notin xHc.halted
  BY DEF HcConsume
<1>3. xRing[r].trb[p].type \in {"NORMAL", "STATUS"}
  BY <1>1, <1>a DEF Producers, TypesOf, Reports, StageTypes
<1>4. /\ u \in Nat /\ u > 0 /\ (~Responding(r) => \A i \in EventSlots : ~LiveOf(r, i))
      /\ xRing[r].trb[p].type # "NOP" =>
                /\ xRing[r].state = "Scheduled" /\ ~Responding(r)
                /\ \A c \in XClients : Holds(c, r) =>
                     /\ Stages(r, c) /\ u <= Written(c)
                     /\ xRing[r].trb[p].type = TrbsOf(Request(c))[Written(c) + 1 - u]
                     /\ xRing[r].trb[p].tag = TagOf(c)
  BY <1>1, <1>2, EndpointRead
<1>5. /\ xRing[r].state = "Scheduled" /\ ~Responding(r) /\ xRing[r].signal # 1
      /\ \A i \in EventSlots : ~LiveOf(r, i)
  BY <1>3, <1>4, <1>a DEF PermitOK
<1>6. /\ xRing[r] \in RingSet /\ xHc.ccs[r] \in {0, 1} /\ InStep(xRing[r], p, xHc.ccs[r])
      /\ Unread(xRing[r], p, xHc.ccs[r]) = u
  BY <1>a, RingTypes DEF TransferOK, U
<1>7. /\ InStep(xRing[r], p + 1, xHc.ccs[r]) /\ Unread(xRing[r], p + 1, xHc.ccs[r]) = u - 1
  BY <1>1, <1>4, <1>6, EntryStep
<1>8. InStep(xRing[r], xHc.deq[r], xHc.ccs[r])' /\ U(r)' = u - 1
  BY <1>1, <1>2, <1>7 DEF ReadsOn, U
<1>9. /\ k \in EventSlots /\ xEvent'.slot[k].ptr = p /\ xEvent'.slot[k].tag = xRing[r].trb[p].tag
      /\ \A i \in EventSlots : LiveOf(r, i)' <=> i = k
      /\ ~Responding(r)'
  BY <1>1, <1>5, <1>a, EventFor
<1>10. /\ \A q \in Pos : Age(xRing[r], q)' = Age(xRing[r], q) /\ Age(xRing[r], q) \in Nat
       /\ \A d \in XClients : /\ Holds(d, r)' <=> Holds(d, r)
                              /\ TagOf(d)' = TagOf(d) /\ Request(d)' = Request(d) /\ Written(d)' = Written(d)
  <2>1. \A q \in Pos : Age(xRing[r], q)' = Age(xRing[r], q) /\ Age(xRing[r], q) \in Nat
    BY <1>2, <1>6, Ages, Sizes DEF Age
  <2> QED BY <2>1, <1>2, OtherStays
<1>11. ASSUME NEW c \in XClients, Holds(c, r)
       PROVE  Stages(r, c)' /\ Reported(r, c, k)'
  <2> PICK T : T = TrbsOf(Request(c))
    OBVIOUS
  <2> PICK w : w = Written(c)
    OBVIOUS
  <2>1. /\ Len(T) \in 1..3 /\ w \in Int /\ w <= Len(T)
        /\ T \in {<<"NORMAL">>, <<"SETUP", "STATUS">>, <<"SETUP", "DATA", "STATUS">>}
        /\ w = Len(T) => xClient[c].pc # "issue"
    BY <1>11, HolderFacts
  <2>2. /\ Stages(r, c) /\ u <= w /\ xRing[r].trb[p].type = T[w + 1 - u] /\ xRing[r].trb[p].tag = TagOf(c)
    BY <1>3, <1>4, <1>11
  <2> PICK m : m = w + 1 - u
    OBVIOUS
  <2>3. m \in 1..Len(T) /\ T[m] \in {"NORMAL", "STATUS"}
    BY <2>1, <2>2, <1>3, <1>4
  <2>4. \A j \in 1..Len(T) : T[j] \in {"NORMAL", "STATUS"} => j = Len(T)
    <3>1. CASE T = <<"NORMAL">>
      BY <3>1
    <3>2. CASE T = <<"SETUP", "STATUS">>
      BY <3>2
    <3>3. CASE T = <<"SETUP", "DATA", "STATUS">>
      BY <3>3
    <3> QED BY <2>1, <3>1, <3>2, <3>3
  <2>a. m = Len(T)
    BY <2>3, <2>4
  <2>5. u = 1 /\ w = Len(T)
    BY <2>1, <2>a, <1>4
  <2>6. U(r)' = 0
    BY <2>5, <1>8
  <2>7. U(r)' <= Written(c)' + 3
    <3>1. Written(c)' = w /\ w \in Int /\ u \in Nat /\ u <= w
      BY <2>1, <2>2, <1>4, <1>10, <1>11
    <3>2. 0 <= w + 3
      BY <3>1
    <3> QED BY <2>6, <3>1, <3>2
  <2>8. \A q \in Pos : Age(xRing[r], q)' <= U(r)' => Age(xRing[r], q) <= u
    BY <2>5, <2>6, <1>10
  <2>9. Stages(r, c)'
    BY <2>2, <2>7, <2>8, <1>2, <1>10 DEF Stages
  <2>10. Reported(r, c, k)'
    BY <2>1, <2>2, <2>5, <2>6, <1>2, <1>3, <1>9, <1>10 DEF Reported
  <2> QED BY <2>9, <2>10
<1> QED BY <1>2, <1>5, <1>8, <1>9, <1>10, <1>11 DEF TransferOK

\* The controller fails a stage: the ring is halted there.
LEMMA TransferFailed ==
    ASSUME XInv, NEW r \in EndpointRings, TransferOK(r), NEW code \in {"STALL", "TRANSACTION"}, HcFail(r, code)
    PROVE  TransferOK(r)'
<1>a. XTypes /\ EventRingOK /\ PermitOK(r) /\ Producers /\ r \in Rings
  BY DEF XInv, PermitsOK, Rings
<1> PICK p : p = xHc.deq[r]
  OBVIOUS
<1> PICK u : u = U(r)
  OBVIOUS
<1> PICK k : k = xHc.enq
  OBVIOUS
<1>1. /\ p \in Pos /\ ReadsOn(r, p, xHc.ccs[r]) /\ NextEnq # xEvent.erdp /\ r \notin xHc.halted
      /\ xHc'.enq = NextEnq /\ xHc'.pcs = Enqueued /\ Interrupts /\ xHc'.halted = xHc.halted \cup {r}
      /\ xEvent' = [xEvent EXCEPT !.slot[xHc.enq] = PostedEvent(r, code)]
      /\ Consumable(r) /\ xRing[r].trb[p].type \in {"SETUP", "DATA"}
  BY <1>a, FailRead
<1>2. xRing' = xRing /\ xClient' = xClient
  BY DEF HcFail
<1>4. /\ u \in Nat /\ u > 0 /\ (~Responding(r) => \A i \in EventSlots : ~LiveOf(r, i))
      /\ xRing[r].trb[p].type # "NOP" =>
                /\ xRing[r].state = "Scheduled" /\ ~Responding(r)
                /\ \A c \in XClients : Holds(c, r) =>
                     /\ Stages(r, c) /\ xRing[r].trb[p].tag = TagOf(c)
  BY <1>1, <1>2, EndpointRead
<1>5. /\ xRing[r].state = "Scheduled" /\ ~Responding(r) /\ xRing[r].signal # 1
      /\ \A i \in EventSlots : ~LiveOf(r, i)
  BY <1>1, <1>4, <1>a DEF PermitOK
<1>8. /\ InStep(xRing[r], xHc.deq[r], xHc.ccs[r])' /\ U(r)' = u /\ xHc'.deq[r] = p /\ r \in xHc'.halted
  BY <1>1, <1>2 DEF ReadsOn, U, TransferOK
<1>9. /\ k \in EventSlots /\ xEvent'.slot[k].ptr = p /\ xEvent'.slot[k].tag = xRing[r].trb[p].tag
      /\ \A i \in EventSlots : LiveOf(r, i)' <=> i = k
      /\ ~Responding(r)'
  BY ZenonT(60), <1>1, <1>5, <1>a, EventFor
<1>10. /\ \A q : Age(xRing[r], q)' = Age(xRing[r], q)
       /\ \A d \in XClients : /\ Holds(d, r)' <=> Holds(d, r)
                              /\ TagOf(d)' = TagOf(d) /\ Request(d)' = Request(d) /\ Written(d)' = Written(d)
  BY <1>2, OtherStays DEF Age
<1>11. ASSUME NEW c \in XClients, Holds(c, r)
       PROVE  Stages(r, c)' /\ Reported(r, c, k)'
  <2>1. Stages(r, c) /\ xRing[r].trb[p].tag = TagOf(c)
    BY <1>1, <1>4, <1>11
  <2>2. Stages(r, c)'
    BY <2>1, <1>2, <1>8, <1>10 DEF Stages
  <2>3. Reported(r, c, k)'
    BY <2>1, <1>1, <1>2, <1>4, <1>8, <1>9, <1>10 DEF Reported
  <2> QED BY <2>2, <2>3
<1> QED BY <1>2, <1>5, <1>8, <1>9, <1>10, <1>11 DEF TransferOK

\* The last entries of a ring are a transfer.
LastAre(ring, T) ==
    \A q \in Pos : Age(ring, q) <= Len(T) => ring.trb[q].type = T[Len(T) + 1 - Age(ring, q)]

\* All that was written since p is found, or it is at the end of the lap.
AllFound(ring, p) ==
    \/ /\ FailedStages(ring.trb, p) = {} /\ p = MaxTrIndex - 2
       /\ ring.trb[MaxTrIndex].type = "LINK"
    \/ \A q \in Pos : Age(ring, q) <= Age(ring, p) => q \in FailedStages(ring.trb, p)

\* What the driver looks for after a failure: the stages of a transfer that are
\* in the ring from position p on, three, two or none of them to be found.
LEMMA StagesFound ==
    ASSUME NEW ring \in RingSet, Produced(ring), NEW p \in Pos, NEW u \in Nat, u = Age(ring, p),
           p >= ring.index => ring.trb[MaxTrIndex].type = "LINK",
           NEW T \in {<<"NORMAL">>, <<"SETUP", "STATUS">>, <<"SETUP", "DATA", "STATUS">>},
           u <= Len(T), ring.trb[p].type \notin {"NORMAL", "STATUS"}, LastAre(ring, T)
    PROVE  u <= 3 /\ AllFound(ring, p)
<1> USE DEF LastAre, AllFound
<1> PICK next : next = NextTrb(ring.trb, p)
  OBVIOUS
<1>0. /\ MaxTrIndex \in Nat /\ MaxTrIndex >= 7 /\ ring.index \in 0..MaxTrIndex /\ p \in 0..MaxTrIndex - 1
      /\ \A q \in Pos : q \in 0..MaxTrIndex - 1
  BY Sizes DEF RingSet, Pos
<1>1. /\ \A q \in Pos : Age(ring, q) \in 1..MaxTrIndex
      /\ \A q, v \in Pos : Age(ring, q) = Age(ring, v) => q = v
  BY Ages
<1>2. u \in 1..3 /\ Len(T) \in 1..3
  <2>1. Len(T) \in 1..3
    <3>1. CASE T = <<"NORMAL">>
      BY <3>1
    <3>2. CASE T = <<"SETUP", "STATUS">>
      BY <3>2
    <3>3. CASE T = <<"SETUP", "DATA", "STATUS">>
      BY <3>3
    <3> QED BY <3>1, <3>2, <3>3
  <2>2. u >= 1
    BY <1>1
  <2> PICK n : n = Len(T)
    OBVIOUS
  <2>3. n \in 1..3 /\ u <= n
    BY <2>1
  <2>4. u \in 1..3
    BY <2>2, <2>3
  <2> QED BY <2>1, <2>4
<1>3. ring.trb[p].type = T[Len(T) + 1 - u]
  OBVIOUS
<1>4. ASSUME u >= 2
      PROVE  /\ next \in Pos /\ Age(ring, next) = u - 1 /\ ring.trb[next].type = T[Len(T) + 2 - u]
             /\ p + 1 # MaxTrIndex => next = p + 1
  <2>1. next \in Pos /\ Age(ring, next) = u - 1 /\ (p + 1 # MaxTrIndex => next = p + 1)
    BY <1>4, NextAge
  <2>2. Age(ring, next) <= Len(T) /\ Len(T) + 1 - Age(ring, next) = Len(T) + 2 - u
    BY <2>1, <1>2
  <2>3. ring.trb[next].type = T[Len(T) + 1 - Age(ring, next)]
    BY <2>1, <2>2
  <2> QED BY <2>1, <2>2, <2>3
<1>5. ASSUME u = 2, ring.trb[p].type \in {"SETUP", "DATA"}, T[Len(T)] = "STATUS"
      PROVE  \A q \in Pos : Age(ring, q) <= u => q \in FailedStages(ring.trb, p)
  <2>1. next \in Pos /\ Age(ring, next) = 1 /\ Len(T) + 2 - u = Len(T)
    BY <1>2, <1>4, <1>5
  <2>2. ring.trb[next].type = "STATUS"
    BY <2>1, <1>2, <1>4, <1>5
  <2>3. FailedStages(ring.trb, p) = {p, next}
    <3>1. CASE ring.trb[p].type = "SETUP"
      BY <2>2, <3>1 DEF FailedStages
    <3>2. CASE ring.trb[p].type = "DATA"
      BY <2>2, <3>2 DEF FailedStages
    <3> QED BY <3>1, <3>2, <1>5
  <2>4. ASSUME NEW q \in Pos, Age(ring, q) <= 2 PROVE q \in {p, next}
    <3>1. Age(ring, q) = 1 \/ Age(ring, q) = 2
      BY <2>4, <1>1, <1>0
    <3> QED BY ZenonT(60), <3>1, <2>1, <2>4, <1>1, <1>5
  <2> QED BY <2>3, <2>4, <1>5
<1>6. CASE T = <<"NORMAL">>
  <2>1. u = 1 /\ T[1] = "NORMAL" /\ Len(T) + 1 - u = 1
    BY <1>2, <1>6
  <2> QED BY <2>1, <1>3
<1>7. CASE T = <<"SETUP", "STATUS">>
  <2>1. Len(T) = 2 /\ T[1] = "SETUP" /\ T[2] = "STATUS"
    BY <1>7
  <2>2. u # 1
    BY <2>1, <1>3
  <2>3. u = 2 /\ Len(T) + 1 - u = 1
    BY <2>1, <2>2, <1>2
  <2>4. ring.trb[p].type = "SETUP"
    BY <2>1, <2>3, <1>3
  <2> QED BY <2>1, <2>3, <2>4, <1>5
<1>8. CASE T = <<"SETUP", "DATA", "STATUS">>
  <2>1. Len(T) = 3 /\ T[1] = "SETUP" /\ T[2] = "DATA" /\ T[3] = "STATUS"
    BY <1>8
  <2>2. u # 1
    BY <2>1, <1>3
  <2>3. CASE u = 2
    <3>1. Len(T) + 1 - u = 2
      BY <2>1, <2>3
    <3>2. ring.trb[p].type = "DATA"
      BY <2>1, <3>1, <1>3
    <3> QED BY <2>1, <2>3, <3>2, <1>5
  <2>4. CASE u = 3
    <3>1. Len(T) + 1 - u = 1 /\ Len(T) + 2 - u = 2 /\ u - 1 = 2
      BY <2>1, <2>4
    <3>2. ring.trb[p].type = "SETUP"
      BY <2>1, <3>1, <1>3
    <3>3. next \in Pos /\ Age(ring, next) = 2 /\ ring.trb[next].type = "DATA"
          /\ (p + 1 # MaxTrIndex => next = p + 1) /\ (p + 1 = MaxTrIndex => next = 0)
      <4>1. next \in Pos /\ Age(ring, next) = 2 /\ ring.trb[next].type = "DATA"
            /\ (p + 1 # MaxTrIndex => next = p + 1)
        BY <2>1, <2>4, <3>1, <1>4
      <4>2. p + 1 = MaxTrIndex => next = 0
        BY <4>1, <1>0 DEF NextTrb, Pos
      <4> QED BY <4>1, <4>2
    <3>4. p < ring.index => p + 3 = ring.index
      BY <2>4, <1>0 DEF Age
    <3>5. CASE next + 1 = MaxTrIndex
      <4>1. p = MaxTrIndex - 2
        BY <3>3, <3>5, <1>0
      <4>2. ring.trb[MaxTrIndex].type = "LINK"
        BY <3>4, <4>1, <1>0
      <4>3. FailedStages(ring.trb, p) = {}
        BY <3>2, <3>3, <3>5, <4>2 DEF FailedStages
      <4> QED BY <4>1, <4>2, <4>3, <1>2
    <3>6. CASE next + 1 # MaxTrIndex
      <4>1. next >= ring.index => ring.trb[MaxTrIndex].type = "LINK"
        BY <3>3, <3>4, <1>0
      <4>a. Age(ring, next) >= 2
        BY <3>3
      <4>2. next + 1 \in Pos /\ Age(ring, next + 1) = 1
        <5>1. NextTrb(ring.trb, next) = next + 1 /\ NextTrb(ring.trb, next) \in Pos
              /\ Age(ring, NextTrb(ring.trb, next)) = Age(ring, next) - 1
          BY <3>3, <3>6, <4>1, <4>a, NextAge
        <5> QED BY <3>3, <5>1
      <4>3. ring.trb[next + 1].type = "STATUS"
        <5>1. Age(ring, next + 1) <= Len(T) /\ Len(T) + 1 - Age(ring, next + 1) = 3
          BY <4>2, <2>1
        <5>2. ring.trb[next + 1].type = T[Len(T) + 1 - Age(ring, next + 1)]
          BY <4>2, <5>1
        <5> QED BY <5>1, <5>2, <2>1
      <4>4. FailedStages(ring.trb, p) = {p, next, next + 1}
        BY <3>2, <3>3, <4>3 DEF FailedStages
      <4>5. ASSUME NEW q \in Pos, Age(ring, q) <= 3 PROVE q \in {p, next, next + 1}
        <5>1. Age(ring, q) = 1 \/ Age(ring, q) = 2 \/ Age(ring, q) = 3
          BY <4>5, <1>1, <1>0
        <5>2. CASE Age(ring, q) = 1
          <6>1. q = next + 1
            BY <4>2, <5>2, <1>1
          <6> QED BY <6>1
        <5>3. CASE Age(ring, q) = 2
          <6>1. q = next
            BY <3>3, <5>3, <1>1
          <6> QED BY <6>1
        <5>4. CASE Age(ring, q) = 3
          <6>1. q = p
            BY <2>4, <5>4, <1>1
          <6> QED BY <6>1
        <5> QED BY <5>1, <5>2, <5>3, <5>4
      <4> QED BY <2>4, <4>4, <4>5, <1>2
    <3> QED BY <3>5, <3>6
  <2> QED BY <2>2, <2>3, <2>4, <1>2
<1> QED BY <1>6, <1>7, <1>8

\* A failure whose transfer is written: what is unread of the ring is its
\* stages from the failed one on.
LEMMA FailureAnalysis ==
    ASSUME XInv, xThread.pc = "handle", Event.kind = "transfer", NEW r \in EndpointRings, r = Event.ring,
           TransferOK(r), xRing[r].trb[Event.ptr].type \notin {"NORMAL", "STATUS"},
           \A c \in XClients : ~Writing(c, r)
    PROVE  /\ xRing[r].state = "Scheduled" /\ U(r) <= 3 /\ Age(xRing[r], Event.ptr) <= U(r)
           /\ \/ /\ FailedStages(xRing[r].trb, Event.ptr) = {} /\ Event.ptr = MaxTrIndex - 2
                 /\ xRing[r].trb[MaxTrIndex].type = "LINK"
              \/ \A q \in Pos : Age(xRing[r], q) <= U(r) => q \in FailedStages(xRing[r].trb, Event.ptr)
<1>a. XTypes /\ EventRingOK /\ PermitOK(r) /\ Producers /\ r \in Rings /\ Handling
  BY DEF XInv, PermitsOK, Rings, Handling
<1> PICK p : p = Event.ptr
  OBVIOUS
<1> PICK ring : ring = xRing[r]
  OBVIOUS
<1> PICK u : u = U(r)
  OBVIOUS
<1> PICK t : t = xThread.at
  OBVIOUS
<1>1. t \in EventSlots /\ LiveOf(r, t) /\ xEvent.slot[t] = Event /\ p \in Pos
  BY <1>a, InHand DEF LiveOf
<1>2. ring.state = "Scheduled"
  BY <1>1 DEF TransferOK
<1>3. PICK c \in XClients : Holds(c, r) /\ xClient[c].pc \in ActivePcs
  BY <1>2, <1>a DEF PermitOK
<1>4. xClient[c].pc \in {"bell", "wait"}
  BY <1>3 DEF Holds, Writing, ActivePcs
<1>5. ~Responding(r)
  BY DEF Responding
<1>6. Stages(r, c) /\ Reported(r, c, t) /\ InStep(ring, xHc.deq[r], xHc.ccs[r])
  BY <1>1, <1>2, <1>3, <1>5 DEF TransferOK
<1>7. ring.trb[p].type \in {"SETUP", "DATA"} /\ p = xHc.deq[r] /\ u > 0
  BY <1>1, <1>5, <1>6 DEF Reported
<1>8. /\ ring \in RingSet /\ Produced(ring) /\ xHc.ccs[r] \in {0, 1} /\ xHc.deq[r] \in 0..MaxTrIndex
      /\ ring.trb[MaxTrIndex].type = "RESERVED" => xHc.ccs[r] = 1
  BY <1>a, RingTypes DEF Producers
<1>9. Age(ring, p) = u /\ u \in Nat
  <2>1. Age(ring, p) = u
    BY <1>1, <1>6, <1>7, <1>8, FirstUnread DEF U
  <2>2. u \in 1..MaxTrIndex
    BY <2>1, <1>1, <1>8, Ages
  <2> QED BY <2>1, <2>2, Sizes
<1>10. p >= ring.index => ring.trb[MaxTrIndex].type = "LINK"
  <2>1. xHc.ccs[r] # ring.pcs => ring.trb[MaxTrIndex].type = "LINK"
    BY <1>6, <1>8, Reading
  <2>2. ring.index \in 0..MaxTrIndex /\ ring.pcs \in {0, 1} /\ p \in 0..MaxTrIndex
    BY <1>7, <1>8 DEF RingSet
  <2>3. xHc.ccs[r] = ring.pcs => p <= ring.index /\ u = ring.index - p
    BY <1>6, <1>7 DEF InStep, U, Unread
  <2> QED BY <2>1, <2>2, <2>3, <1>7, Sizes
<1> PICK T : T = TrbsOf(Request(c))
  OBVIOUS
<1>11. /\ T \in {<<"NORMAL">>, <<"SETUP", "STATUS">>, <<"SETUP", "DATA", "STATUS">>}
       /\ Len(T) \in 1..3 /\ Written(c) = Len(T)
  BY <1>3, <1>4, HolderFacts
<1>12. u <= Len(T)
  <2>1. ~(Age(ring, p) > Written(c) /\ Age(ring, p) <= u)
    BY <1>1, <1>6, <1>7 DEF Stages
  <2> QED BY <2>1, <1>9, <1>11
<1>13. \A q \in Pos : Age(ring, q) <= Len(T) => ring.trb[q].type = T[Len(T) + 1 - Age(ring, q)]
  BY <1>6, <1>11 DEF Stages
<1>14. /\ u <= 3
       /\ \/ /\ FailedStages(ring.trb, p) = {} /\ p = MaxTrIndex - 2
             /\ ring.trb[MaxTrIndex].type = "LINK"
          \/ \A q \in Pos : Age(ring, q) <= u => q \in FailedStages(ring.trb, p)
  <2>1. ring.trb[p].type \notin {"NORMAL", "STATUS"}
    BY <1>7
  <2>2. ring \in RingSet /\ Produced(ring) /\ p \in Pos /\ u \in Nat /\ u = Age(ring, p) /\ LastAre(ring, T)
    BY <1>1, <1>8, <1>9, <1>13 DEF LastAre
  <2>3. u <= 3 /\ AllFound(ring, p)
    BY <2>1, <2>2, <1>10, <1>11, <1>12, StagesFound
  <2> QED BY <2>2, <2>3 DEF AllFound
<1>15. Age(ring, p) <= u
  BY <1>9
<1> QED BY <1>2, <1>14, <1>15

\* The stages of a failed transfer are patched.
LEMMA TransferPatched ==
    ASSUME XInv, HandleFailure, NEW r \in EndpointRings, r = Event.ring, TransferOK(r),
           xPanic' = xPanic, r \notin xThread'.torn
    PROVE  TransferOK(r)'
<1>a. XTypes /\ EventRingOK /\ PermitOK(r) /\ Producers /\ r \in Rings
  BY DEF XInv, PermitsOK, Rings
<1> PICK p : p = Event.ptr
  OBVIOUS
<1> PICK ring : ring = xRing[r]
  OBVIOUS
<1> PICK new : new = Patch(ring.trb, p)
  OBVIOUS
<1>1. /\ Handling /\ xThread.pc = "handle" /\ Event.kind = "transfer" /\ ring.trb[p].type \notin {"NORMAL", "STATUS"}
      /\ UNCHANGED <<xCrb, xEvent, xHc, xLock, xClient, xPanic>> /\ FailedStages(ring.trb, p) # {}
      /\ ThreadGoes("respond", IF \E c \in XClients : Writing(c, r)
                               THEN xThread.torn \cup {r} ELSE xThread.torn)
      /\ Rewrites(r, [ring EXCEPT !.trb = new])
  BY <1>a, HandleFailureFacts DEF HandleFailure, Running
<1>2. \A c \in XClients : ~Writing(c, r)
  BY <1>1 DEF ThreadGoes
<1>3. /\ ring.state = "Scheduled" /\ U(r) <= 3
      /\ \A q \in Pos : Age(ring, q) <= U(r) => q \in FailedStages(ring.trb, p)
  BY <1>1, <1>2, FailureAnalysis
<1>4. EventsUntouched /\ xThread'.pc = "respond" /\ xThread'.at = xThread.at
  BY <1>1 DEF EventsUntouched, ThreadGoes
<1>5. EventsSame /\ xEvent' = xEvent /\ Responding(r)' /\ ~Responding(r)
  BY Zenon, <1>1, <1>4, <1>a, EventsStay DEF EventsUntouched, Responding, Event
<1>6. /\ ring \in RingSet /\ p \in Pos /\ InStep(ring, xHc.deq[r], xHc.ccs[r])
  BY <1>1, <1>a, RingTypes, InHand DEF TransferOK
<1>7. /\ xRing'[r].trb = new /\ xRing'[r].index = ring.index /\ xRing'[r].pcs = ring.pcs
      /\ xRing'[r].state = ring.state /\ xRing'[r].signal = ring.signal
  BY <1>1, <1>6 DEF Rewrites, RingSet
<1>8. U(r)' = U(r) /\ InStep(xRing[r], xHc.deq[r], xHc.ccs[r])' /\ \A q : Age(xRing[r], q)' = Age(ring, q)
  BY <1>1, <1>6, <1>7 DEF U, Unread, InStep, Age
<1>9. ring.trb \in [0..MaxTrIndex -> TrbSet] /\ \A q \in Pos : q \in 0..MaxTrIndex
  BY <1>6, Sizes DEF RingSet, Pos
<1>10. \A q \in Pos : q \in FailedStages(ring.trb, p) => new[q].type = "NOP"
  BY <1>6, <1>9, Patched
<1>11. AllNop(r)'
  BY <1>3, <1>7, <1>8, <1>10 DEF AllNop
<1>12. xRing'[r].signal # 1
  <2>1. xRing[r].signal = 1 => xRing[r].state = "Completed"
    BY Zenon, <1>a DEF PermitOK
  <2> QED BY <2>1, <1>3, <1>7
<1>13. ASSUME NEW c \in XClients, Holds(c, r)'
       PROVE  /\ xClient'[c].pc # "issue" /\ \A i \in EventSlots : LiveOf(r, i)' => Reported(r, c, i)'
  <2>1. Holds(c, r) /\ TagOf(c)' = TagOf(c)
    BY <1>1, <1>13, OtherStays
  <2>2. xClient[c].pc # "issue"
    BY <2>1, <1>2 DEF Writing, Holds
  <2>3. \A i \in EventSlots : LiveOf(r, i)' <=> LiveOf(r, i)
    BY <1>5 DEF EventsSame, LiveOf
  <2>4. \A i \in EventSlots : LiveOf(r, i) => Reported(r, c, i)
    BY <2>1, <1>3 DEF TransferOK
  <2> QED BY <2>1, <2>2, <2>3, <2>4, <1>1, <1>5 DEF Reported
<1> QED BY <1>3, <1>5, <1>7, <1>8, <1>11, <1>12, <1>13 DEF TransferOK

\* The answer is given: it was the only event, and all that is unread are
\* no-ops.
LEMMA TransferAnswered ==
    ASSUME XInv, HandleTransfer, NEW r \in EndpointRings, r = Event.ring, TransferOK(r)
    PROVE  TransferOK(r)'
<1>a. XTypes /\ EventRingOK /\ PermitOK(r) /\ PermitsOK /\ RespondOK /\ r \in Rings
  BY DEF XInv, PermitsOK, Rings
<1> PICK t : t = xThread.at
  OBVIOUS
<1> PICK ring : ring = xRing[r]
  OBVIOUS
<1> PICK new : new = xRing'[r]
  OBVIOUS
<1>1. /\ Handling /\ Event.kind = "transfer"
      /\ xThread.pc = "handle" => ring.trb[Event.ptr].type \in {"NORMAL", "STATUS"}
      /\ ThreadGoes("dequeue", xThread.torn) /\ UNCHANGED <<xCrb, xEvent, xHc, xLock, xClient, xPanic>>
  BY <1>a, HandleTransferFacts
<1>2. t \in EventSlots /\ LiveOf(r, t) /\ xEvent.slot[t] = Event /\ Event.ptr \in Pos
  BY <1>1, <1>a, InHand DEF LiveOf
<1>3. ring.state = "Scheduled"
  BY <1>2 DEF TransferOK
<1>4. Rewrites(r, [ring EXCEPT !.state = "Completed", !.response = Event.tag, !.code = Event.code, !.signal = 1])
  BY <1>3, <1>a, HandleTransferFacts
<1>5. ring \in RingSet
  BY Zenon, <1>a DEF XTypes
<1>6. /\ Rests(r) /\ new.state = "Completed" /\ new.response = Event.tag
  BY <1>4, <1>5 DEF Rewrites, Rests, RingSet
<1>7. PICK c \in XClients : Holds(c, r)
  BY <1>3, <1>a DEF PermitOK
<1>8. Reported(r, c, t)
  BY <1>2, <1>3, <1>7 DEF TransferOK
<1>9. \A i \in EventSlots : Live(i)' <=> (Live(i) /\ i # t)
  BY SMTT(60), <1>1, <1>a, Dealt DEF ThreadGoes
<1>10. \A i \in EventSlots : ~LiveOf(r, i)'
  BY <1>1, <1>8, <1>9 DEF LiveOf, Reported
<1>11. \A q \in Pos : Age(ring, q) \in 1..MaxTrIndex
  BY <1>5, Ages
<1>12. AllNop(r) /\ xClient[c].pc # "issue"
  <2>1. CASE Responding(r)
    BY <2>1, <1>3, <1>7 DEF TransferOK
  <2>2. CASE ~Responding(r)
    <3>1. xThread.pc = "handle"
      BY <2>2, <1>1 DEF Responding, Handling
    <3>2. U(r) = 0 /\ xClient[c].pc # "issue"
      BY <2>2, <3>1, <1>1, <1>2, <1>8 DEF Reported
    <3>3. \A q \in Pos : ~(Age(ring, q) <= 0)
      BY <1>11, Sizes
    <3> QED BY <3>2, <3>3 DEF AllNop
  <2> QED BY <2>1, <2>2
<1>13. U(r)' = U(r) /\ InStep(xRing[r], xHc.deq[r], xHc.ccs[r])' /\ \A q : Age(xRing[r], q)' = Age(ring, q)
  BY <1>1, <1>6 DEF U, Unread, InStep, Age, Rests, TransferOK
<1>14. AllNop(r)'
  BY <1>6, <1>12, <1>13 DEF AllNop, Rests
<1>15. ASSUME NEW d \in XClients, Holds(d, r)' PROVE new.response = TagOf(d)' /\ xClient'[d].pc # "issue"
  <2>1. Holds(d, r) /\ TagOf(d)' = TagOf(d) /\ d = c
    BY <1>1, <1>7, <1>15, <1>a, OtherStays DEF PermitOK
  <2> QED BY <2>1, <1>1, <1>2, <1>6, <1>8, <1>12 DEF Reported
<1> QED BY <1>6, <1>10, <1>13, <1>14, <1>15 DEF TransferOK

HoldPcs == ActivePcs \cup ResetPcs \cup {"reset"}

LEMMA HolderGoesOn ==
    ASSUME NEW c \in XClients, NEW r, xClient'[c].plan = xClient[c].plan, xClient'[c].n = xClient[c].n,
           xClient'[c].todo = xClient[c].todo, xClient'[c].pc \in HoldPcs => xClient[c].pc \in HoldPcs,
           xClient'[c].pc = "issue" <=> xClient[c].pc = "issue"
    PROVE  HolderStays(c, r)
<1>1. Request(c)' = Request(c) /\ TagOf(c)' = TagOf(c)
  BY SameRequest
<1> QED BY <1>1 DEF HolderStays, Holds, Written, HoldPcs

LEMMA HolderRests ==
    ASSUME NEW d \in XClients, NEW r, xClient'[d] = xClient[d]
    PROVE  HolderStays(d, r)
BY OtherStays DEF HolderStays

LEMMA HolderElsewhere ==
    ASSUME NEW c \in XClients, NEW r, xClient'[c].pc \notin HoldPcs \/ Request(c)'.ring # r
    PROVE  HolderStays(c, r)
BY DEF HolderStays, Holds, HoldPcs

\* The events of a ring, where the thread is not at another one.
LEMMA EndpointEvents ==
    ASSUME EventsSame, xEvent' = xEvent, NEW r, Responding(r)' <=> Responding(r)
    PROVE  \A i \in EventSlots : /\ LiveOf(r, i)' <=> LiveOf(r, i)
                                 /\ LiveOf(r, i) => xEvent'.slot[i] = xEvent.slot[i]
BY DEF EventsSame, LiveOf

LEMMA EndpointStays ==
    ASSUME XTypes, EventRingOK, EventsUntouched, NEW r \in EndpointRings, TransferOK(r), Rests(r),
           xHc'.deq[r] = xHc.deq[r], xHc'.ccs[r] = xHc.ccs[r], xHc'.halted = xHc.halted,
           xThread'.pc = "respond" <=> xThread.pc = "respond"
    PROVE  RingStays(r)
<1>1. EventsSame /\ xEvent' = xEvent
  BY EventsStay DEF EventsUntouched
<1>2. Responding(r)' <=> Responding(r)
  BY <1>1 DEF Responding, Event, EventsUntouched
<1>3. U(r)' = U(r) /\ InStep(xRing[r], xHc.deq[r], xHc.ccs[r])'
  BY DEF U, Unread, InStep, Rests, TransferOK
<1> QED BY <1>1, <1>2, <1>3, EndpointEvents DEF RingStays

LEMMA ClientTransfers ==
    ASSUME XInv, NEW c \in XClients, XClientStep(c), NEW r \in EndpointRings, TransferOK(r)
    PROVE  TransferOK(r)'
<1>a. XTypes /\ EventRingOK /\ PermitsOK /\ PermitOK(r) /\ ClientsOK /\ ClientOK(c) /\ r \in Rings
      /\ xRing[r] \in RingSet /\ CommandRing \in Rings /\ r # CommandRing
  BY Zenon, XhciAssumption DEF XInv, ClientsOK, PermitsOK, Rings, XTypes
<1>b. EventsUntouched /\ xThread' = xThread /\ xHc'.deq = xHc.deq /\ xHc'.ccs = xHc.ccs
      /\ xHc'.halted = xHc.halted
  BY <1>a, ClientUntouched
<1>c. ASSUME Rests(r), HolderStays(c, r), \A d \in XClients : d # c => xClient'[d] = xClient[d],
             xRing'[r].state = xRing[r].state,
             xRing'[r].signal = 1 => xRing[r].signal = 1 /\ xRing'[r].response = xRing[r].response
      PROVE  TransferOK(r)'
  <2>1. RingStays(r)
    BY <1>a, <1>b, <1>c, EndpointStays
  <2>2. \A d \in XClients : HolderStays(d, r)
    BY <1>c, HolderRests
  <2> QED BY <2>1, <2>2, <1>c, TransferRests
<1>d. ASSUME xRing'[r] = xRing[r], HolderStays(c, r), \A d \in XClients : d # c => xClient'[d] = xClient[d]
      PROVE  TransferOK(r)'
  BY <1>c, <1>d DEF Rests
<1> USE DEF HoldPcs, ActivePcs, ResetPcs
<1>1. CASE AllocateCrb(c)
  <2>1. PICK b \in 1..CrbCount :
             Moves(c, IF xClient[c].pc = "reset" THEN "resetIssue" ELSE "cmdIssue",
                      xClient[c].n, xClient[c].todo, b, xClient[c].got)
    BY <1>1, <1>a, AllocateFacts
  <2>2. xRing' = xRing /\ xClient[c].pc \in {"idle", "reset"}
    BY <1>1 DEF AllocateCrb
  <2>3. HolderStays(c, r)
    BY <2>1, <2>2, HolderGoesOn DEF Moves
  <2> QED BY <2>1, <2>2, <2>3, <1>d DEF Moves
<1>2. CASE NoCrb(c)
  <2>1. xRing' = xRing /\ xClient' = xClient
    BY <1>2 DEF NoCrb
  <2> QED BY <2>1, <1>d, HolderRests
<1>3. CASE IssueCommand(c)
  <2>1. /\ Moves(c, IF xClient[c].pc \in ResetPcs THEN "resetBell" ELSE "cmdBell",
                    xClient[c].n, xClient[c].todo, xClient[c].crb, xClient[c].got)
        /\ Rewrites(CommandRing, IssueTrb(xRing[CommandRing], CmdType(c), CmdTag(c)))
    BY Zenon, <1>3, <1>a, IssueCommandFacts
  <2>2. xClient[c].pc \in {"cmdIssue", "resetIssue"} /\ xRing'[r] = xRing[r]
    BY <2>1, <1>3, <1>a DEF IssueCommand, Rewrites
  <2>3. HolderStays(c, r)
    BY <2>1, <2>2, HolderGoesOn DEF Moves
  <2> QED BY <2>1, <2>2, <2>3, <1>d DEF Moves
<1>4. CASE RingCommandDoorbell(c)
  <2>1. /\ Moves(c, IF xClient[c].pc = "cmdBell" THEN "cmdWait" ELSE "resetWait",
                    xClient[c].n, xClient[c].todo, xClient[c].crb, xClient[c].got)
        /\ xRing' = xRing /\ xClient[c].pc \in {"cmdBell", "resetBell"}
    BY <1>4, <1>a, DoorbellFacts
  <2>3. HolderStays(c, r)
    BY <2>1, HolderGoesOn DEF Moves
  <2> QED BY <2>1, <2>3, <1>d DEF Moves
<1>5. CASE FinishCommand(c)
  <2>1. \E got : Moves(c, "idle", xClient[c].n + 1, xClient[c].todo, 0, got)
    BY Zenon, <1>5, <1>a, FinishCommandFacts
  <2>2. HolderStays(c, r)
    BY <2>1, HolderElsewhere DEF Moves
  <2>3. CASE xRing' = xRing
    BY <2>1, <2>2, <2>3, <1>d DEF Moves
  <2>4. CASE xRing' # xRing
    <3>1. /\ Request(c).ring \in EndpointRings
          /\ Rewrites(Request(c).ring, [xRing[Request(c).ring] EXCEPT !.scope = 1])
      BY Zenon, <2>4, <1>5, <1>a, FinishCommandFacts
    <3>2. /\ xRing'[r].trb = xRing[r].trb /\ xRing'[r].index = xRing[r].index /\ xRing'[r].pcs = xRing[r].pcs
          /\ xRing'[r].state = xRing[r].state /\ xRing'[r].signal = xRing[r].signal
          /\ xRing'[r].response = xRing[r].response
      <4>1. CASE r = Request(c).ring
        BY <3>1, <4>1, <1>a DEF Rewrites, RingSet
      <4>2. CASE r # Request(c).ring
        BY <3>1, <4>2, <1>a DEF Rewrites
      <4> QED BY <4>1, <4>2
    <3> QED BY <2>1, <2>2, <3>2, <1>c DEF Moves, Rests
  <2> QED BY <2>3, <2>4
<1>6. CASE Scope(c) \/ ScopeGranted(c)
  <2>1. CASE r = Request(c).ring
    BY <2>1, <1>6, TransferScoped
  <2>2. CASE r # Request(c).ring
    <3>1. /\ Rewrites(Request(c).ring, [xRing[Request(c).ring] EXCEPT !.scope = 0, !.state = "Scheduled"])
          /\ Moves(c, "issue", xClient[c].n, TrbsOf(Request(c)), xClient[c].crb, xClient[c].got)
      BY Zenon, <1>6, <1>a, ScopeFacts
    <3>2. Request(c)' = Request(c) /\ xRing'[r] = xRing[r]
      BY <2>2, <3>1, <1>a, SameRequest DEF Moves, Rewrites
    <3>3. HolderStays(c, r)
      BY <2>2, <3>2, HolderElsewhere
    <3> QED BY <3>1, <3>2, <3>3, <1>d DEF Moves
  <2> QED BY <2>1, <2>2
<1>7. CASE ScopeWait(c)
  <2>1. /\ Moves(c, "scopeWait", xClient[c].n, xClient[c].todo, xClient[c].crb, xClient[c].got)
        /\ xRing' = xRing
    BY <1>7, <1>a, ScopeWaitFacts
  <2>2. HolderStays(c, r)
    BY <2>1, HolderElsewhere DEF Moves
  <2> QED BY <2>1, <2>2, <1>d DEF Moves
<1>8. CASE IssueStage(c)
  <2>1. CASE r = Request(c).ring
    BY <2>1, <1>8, StageIssued
  <2>2. CASE r # Request(c).ring
    <3>1. /\ Rewrites(Request(c).ring,
                       IssueTrb(xRing[Request(c).ring], Head(xClient[c].todo), TagOf(c)))
          /\ Moves(c, IF Len(xClient[c].todo) = 1 THEN "bell" ELSE "issue", xClient[c].n,
                    Tail(xClient[c].todo), xClient[c].crb, xClient[c].got)
      BY <1>8, <1>a, IssueStageFacts
    <3>2. Request(c)' = Request(c) /\ xRing'[r] = xRing[r]
      BY <2>2, <3>1, <1>a, SameRequest DEF Moves, Rewrites
    <3>3. HolderStays(c, r)
      BY <2>2, <3>2, HolderElsewhere
    <3> QED BY <3>1, <3>2, <3>3, <1>d DEF Moves
  <2> QED BY <2>1, <2>2
<1>9. CASE RingDoorbell(c)
  <2>1. /\ Moves(c, "wait", xClient[c].n, xClient[c].todo, xClient[c].crb, xClient[c].got)
        /\ xClient[c].pc = "bell" /\ xRing' = xRing
    BY <1>9, <1>a, BellFacts
  <2>3. HolderStays(c, r)
    BY <2>1, HolderGoesOn DEF Moves
  <2> QED BY <2>1, <2>3, <1>d DEF Moves
<1>10. CASE FinishTransfer(c)
  <2> PICK q : q = Request(c).ring
    OBVIOUS
  <2>0. xClient[c].pc = "wait"
    BY <1>10 DEF FinishTransfer
  <2>1. /\ q \in EndpointRings
        /\ \/ /\ Rewrites(q, [xRing[q] EXCEPT !.signal = 0])
              /\ Moves(c, "reset", xClient[c].n, xClient[c].todo, xClient[c].crb, xRing[q].response)
           \/ /\ Rewrites(q, [xRing[q] EXCEPT !.signal = 0, !.scope = 1])
              /\ Moves(c, "idle", xClient[c].n + 1, xClient[c].todo, xClient[c].crb, xRing[q].response)
    BY Zenon, <1>10, <1>a, FinishTransferFacts
  <2>2. HolderStays(c, r) /\ \A d \in XClients : d # c => xClient'[d] = xClient[d]
    <3>1. CASE Moves(c, "reset", xClient[c].n, xClient[c].todo, xClient[c].crb, xRing[q].response)
      BY <2>0, <3>1, HolderGoesOn DEF Moves
    <3>2. CASE Moves(c, "idle", xClient[c].n + 1, xClient[c].todo, xClient[c].crb, xRing[q].response)
      BY <3>2, HolderElsewhere DEF Moves
    <3> QED BY <2>1, <3>1, <3>2
  <2>3. CASE r = q
    <3>1. /\ xRing'[r].trb = xRing[r].trb /\ xRing'[r].index = xRing[r].index /\ xRing'[r].pcs = xRing[r].pcs
          /\ xRing'[r].state = xRing[r].state /\ xRing'[r].signal = 0
      <4>1. CASE Rewrites(r, [xRing[r] EXCEPT !.signal = 0])
        BY <4>1, <1>a DEF Rewrites, RingSet
      <4>2. CASE Rewrites(r, [xRing[r] EXCEPT !.signal = 0, !.scope = 1])
        BY <4>2, <1>a DEF Rewrites, RingSet
      <4> QED BY <2>1, <2>3, <4>1, <4>2
    <3> QED BY <2>2, <3>1, <1>c DEF Rests
  <2>4. CASE r # q
    <3>1. xRing'[r] = xRing[r]
      BY <2>1, <2>4, <1>a DEF Rewrites
    <3> QED BY <2>2, <3>1, <1>d
  <2> QED BY <2>3, <2>4
<1> QED BY <1>1, <1>2, <1>3, <1>4, <1>5, <1>6, <1>7, <1>8, <1>9, <1>10 DEF XClientStep

\* The controller reads: the ring it reads, and the other rings.
LEMMA ReadTransfers ==
    ASSUME XInv, NEW q \in Rings, HcConsume(q), NEW r \in EndpointRings, TransferOK(r)
    PROVE  TransferOK(r)'
<1>a. XTypes /\ EventRingOK /\ PermitsOK /\ PermitOK(r) /\ ClientsOK /\ Producers /\ r \in Rings
      /\ xRing[r] \in RingSet /\ CommandRing \in Rings /\ r # CommandRing
  BY Zenon, XhciAssumption DEF XInv, PermitsOK, Rings, XTypes
<1>b. xRing' = xRing /\ xClient' = xClient /\ Rests(r) /\ q \notin xHc.halted /\ Consumable(q)
  BY DEF HcConsume, Rests
<1>c. ASSUME RingStays(r) PROVE TransferOK(r)'
  BY <1>b, <1>c, HolderRests, TransferRests
<1>1. CASE xRing[q].trb[xHc.deq[q]].type = "LINK"
  <2>1. /\ xHc.deq[q] = MaxTrIndex /\ ReadsOn(q, 0, 1 - xHc.ccs[q]) /\ EventsUntouched /\ xThread' = xThread
        /\ xHc'.halted = xHc.halted
    BY <1>1, <1>a, LinkRead DEF EventsUntouched
  <2>2. CASE q = r
    <3>1. /\ xHc.deq[r] \in 0..MaxTrIndex /\ xHc.ccs[r] \in {0, 1} /\ Produced(xRing[r])
          /\ InStep(xRing[r], xHc.deq[r], xHc.ccs[r])
          /\ xRing[r].trb[MaxTrIndex].type = "RESERVED" => xHc.ccs[r] = 1
      BY <1>a, RingTypes DEF TransferOK, Producers
    <3>2. xHc.ccs[r] # xRing[r].pcs
      BY <2>1, <2>2, <3>1, <1>a, <1>b, Reading DEF Consumable
    <3>3. /\ InStep(xRing[r], 0, 1 - xHc.ccs[r])
          /\ Unread(xRing[r], 0, 1 - xHc.ccs[r]) = Unread(xRing[r], xHc.deq[r], xHc.ccs[r])
      BY <2>1, <2>2, <3>1, <3>2, <1>a, LinkStep
    <3>4. InStep(xRing[r], xHc.deq[r], xHc.ccs[r])' /\ U(r)' = U(r)
      BY <2>1, <2>2, <3>3, <1>b DEF U, ReadsOn
    <3>5. EventsSame /\ xEvent' = xEvent
      BY <2>1, <1>a, EventsStay DEF EventsUntouched
    <3>6. Responding(r)' <=> Responding(r)
      BY <2>1, <3>5 DEF Responding, Event
    <3>7. RingStays(r)
      BY <2>2, <3>4, <3>5, <3>6, <1>b, EndpointEvents DEF RingStays
    <3> QED BY <3>7, <1>c
  <2>3. CASE q # r
    <3>1. xHc'.deq[r] = xHc.deq[r] /\ xHc'.ccs[r] = xHc.ccs[r]
      BY <2>1, <2>3, <1>a DEF ReadsOn
    <3>2. RingStays(r)
      BY <2>1, <3>1, <1>a, <1>b, EndpointStays
    <3> QED BY <3>2, <1>c
  <2> QED BY <2>2, <2>3
<1>2. CASE xRing[q].trb[xHc.deq[q]].type # "LINK" /\ ~Reports(xRing[q].trb[xHc.deq[q]].type)
  <2>1. CASE q = r
    BY <2>1, <1>2, TransferRead
  <2>2. CASE q # r
    <3>1. /\ xHc'.deq[r] = xHc.deq[r] /\ xHc'.ccs[r] = xHc.ccs[r] /\ EventsUntouched /\ xThread' = xThread
          /\ xHc'.halted = xHc.halted
      BY <2>2, <1>2, <1>a, StageRead DEF EventsUntouched, ReadsOn
    <3>2. RingStays(r)
      BY <3>1, <1>a, <1>b, EndpointStays
    <3> QED BY <3>2, <1>c
  <2> QED BY <2>1, <2>2
<1>3. CASE Reports(xRing[q].trb[xHc.deq[q]].type)
  <2>1. CASE q = r
    BY <2>1, <1>3, TransferReported
  <2>2. CASE q # r
    <3> PICK trb : trb = xRing[q].trb[xHc.deq[q]]
      OBVIOUS
    <3>1. /\ xHc.deq[q] \in Pos /\ NextEnq # xEvent.erdp /\ ReadsOn(q, xHc.deq[q] + 1, xHc.ccs[q])
          /\ xHc'.enq = NextEnq /\ xHc'.pcs = Enqueued /\ Interrupts
          /\ xHc'.halted = IF trb.type = "RESET_ENDPOINT" THEN xHc.halted \ {trb.tag[3]} ELSE xHc.halted
          /\ xEvent' = [xEvent EXCEPT !.slot[xHc.enq] = PostedEvent(q, "SUCCESS")]
      BY ZenonT(60), <1>3, <1>a, ReportRead
    <3>2. /\ Responding(r)' <=> Responding(r)
          /\ \A i \in EventSlots :
               (LiveOf(r, i)' <=> LiveOf(r, i)) /\ (LiveOf(r, i) => xEvent'.slot[i] = xEvent.slot[i])
      BY <2>2, <3>1, <1>a, EventFor
    <3>3. xHc'.deq[r] = xHc.deq[r] /\ xHc'.ccs[r] = xHc.ccs[r]
      BY <2>2, <3>1, <1>a DEF ReadsOn
    <3>4. U(r)' = U(r) /\ InStep(xRing[r], xHc.deq[r], xHc.ccs[r])'
      BY <3>3, <1>b DEF U, TransferOK
    <3>5. r \in xHc.halted => r \in xHc'.halted \/ \A i \in EventSlots : ~LiveOf(r, i)
      <4>1. ASSUME trb.type = "RESET_ENDPOINT", trb.tag[3] = r PROVE \A i \in EventSlots : ~LiveOf(r, i)
        <5>1. q = CommandRing
          <6>1. trb.type \in {"RESERVED", "NOP"} \cup TypesOf(q)
            BY Zenon, <3>1, <1>a DEF Producers
          <6> QED BY <6>1, <4>1 DEF TypesOf, StageTypes
        <5>2. PICK c \in XClients : OnCommand(c) /\ trb.type = CmdType(c) /\ trb.tag = CmdTag(c)
          BY <3>1, <5>1, <1>b, CommandRead
        <5>3. xClient[c].pc \in ResetPcs
          BY <4>1, <5>2 DEF CmdType
        <5>4. trb.tag = <<c, xClient[c].n, Request(c).ring>>
          BY <5>2, <5>3 DEF CmdTag
        <5>5. Request(c).ring = r
          BY <4>1, <5>4
        <5>6. Holds(c, r) /\ xClient[c].pc \notin ActivePcs
          BY <5>3, <5>5 DEF Holds, ResetPcs, ActivePcs
        <5>7. xRing[r].state # "Scheduled"
          BY <5>6, <1>a DEF PermitOK
        <5> QED BY <5>7 DEF TransferOK
      <4> QED BY <3>1, <4>1
    <3>6. RingStays(r)
      BY <3>2, <3>3, <3>4, <3>5, <1>b DEF RingStays
    <3> QED BY <3>6, <1>c
  <2> QED BY <2>1, <2>2
<1> QED BY <1>1, <1>2, <1>3

LEMMA FailTransfers ==
    ASSUME XInv, NEW q \in Rings, NEW code \in {"STALL", "TRANSACTION"}, HcFail(q, code),
           NEW r \in EndpointRings, TransferOK(r)
    PROVE  TransferOK(r)'
<1>a. XTypes /\ EventRingOK /\ Producers /\ r \in Rings
  BY DEF XInv, Rings
<1>b. xRing' = xRing /\ xClient' = xClient /\ Rests(r)
  BY DEF HcFail, Rests
<1>1. CASE q = r
  BY <1>1, TransferFailed
<1>2. CASE q # r
  <2>1. /\ xHc.deq[q] \in Pos /\ NextEnq # xEvent.erdp /\ ReadsOn(q, xHc.deq[q], xHc.ccs[q])
        /\ xHc'.enq = NextEnq /\ xHc'.pcs = Enqueued /\ Interrupts /\ xHc'.halted = xHc.halted \cup {q}
        /\ xEvent' = [xEvent EXCEPT !.slot[xHc.enq] = PostedEvent(q, code)]
    BY <1>a, FailRead
  <2>2. /\ Responding(r)' <=> Responding(r)
        /\ \A i \in EventSlots :
             (LiveOf(r, i)' <=> LiveOf(r, i)) /\ (LiveOf(r, i) => xEvent'.slot[i] = xEvent.slot[i])
    BY <2>1, <1>2, <1>a, EventFor
  <2>3. xHc'.deq[r] = xHc.deq[r] /\ xHc'.ccs[r] = xHc.ccs[r]
    BY <2>1, <1>2, <1>a DEF ReadsOn
  <2>4. U(r)' = U(r) /\ InStep(xRing[r], xHc.deq[r], xHc.ccs[r])'
    BY <2>3, <1>b DEF U, TransferOK
  <2>5. RingStays(r)
    BY <2>1, <2>2, <2>3, <2>4, <1>b DEF RingStays
  <2> QED BY <2>5, <1>b, HolderRests, TransferRests
<1> QED BY <1>1, <1>2

\* The event in hand goes: nothing of the other rings.
LEMMA OthersDealt ==
    ASSUME XTypes, EventRingOK, Handling, xEvent' = xEvent, xHc' = xHc,
           xThread'.pc = "dequeue", xThread'.at = xThread.at, NEW r \in EndpointRings, r # Event.ring,
           TransferOK(r), Rests(r)
    PROVE  RingStays(r)
<1>1. \A i \in EventSlots : Live(i)' <=> (Live(i) /\ i # xThread.at)
  BY Dealt
<1>2. \A i \in EventSlots : LiveOf(r, i)' <=> LiveOf(r, i)
  BY <1>1 DEF LiveOf, Event
<1>3. ~Responding(r)' /\ ~Responding(r)
  BY DEF Responding
<1>4. U(r)' = U(r) /\ InStep(xRing[r], xHc.deq[r], xHc.ccs[r])'
  BY DEF U, Unread, InStep, Rests, TransferOK
<1> QED BY <1>2, <1>3, <1>4 DEF RingStays

LEMMA TransfersKept ==
    ASSUME XInv, XNext
    PROVE  TransfersOK'
<1>a. XTypes /\ EventRingOK /\ PermitsOK /\ BlocksOK /\ RespondOK /\ Producers /\ ClientsOK
  BY DEF XInv
<1>b. ASSUME NEW r \in EndpointRings, r \notin xThread.torn PROVE TransferOK(r) /\ r \in Rings /\ r # CommandRing
  BY <1>b, XhciAssumption DEF XInv, TransfersOK, Rings
<1>c. ASSUME NEW r \in EndpointRings, r \notin xThread.torn, xRing'[r] = xRing[r], xClient' = xClient, RingStays(r)
      PROVE  TransferOK(r)'
  BY <1>b, <1>c, HolderRests, TransferRests
<1>1. ASSUME NEW c \in XClients, XClientStep(c) PROVE TransfersOK'
  <2>1. xThread' = xThread
    BY <1>1, <1>a, ClientUntouched
  <2> QED BY <2>1, <1>1, <1>b, ClientTransfers DEF TransfersOK
<1>d. ASSUME EventsUntouched, xThread'.pc = "respond" <=> xThread.pc = "respond", xThread'.torn = xThread.torn,
             xHc'.deq = xHc.deq, xHc'.ccs = xHc.ccs, xHc'.halted = xHc.halted, xRing' = xRing, xClient' = xClient
      PROVE  TransfersOK'
  <2> SUFFICES ASSUME NEW r \in EndpointRings, r \notin xThread.torn PROVE TransferOK(r)'
    BY <1>d DEF TransfersOK
  <2>1. Rests(r)
    BY <1>d DEF Rests
  <2>2. RingStays(r)
    BY <2>1, <1>a, <1>b, <1>d, EndpointStays
  <2> QED BY <2>2, <1>c, <1>d
<1>2. ASSUME NEW b \in 1..CrbCount, ReuseDelayEnds(b) PROVE TransfersOK'
  BY <1>2, <1>d DEF ReuseDelayEnds, EventsUntouched
<1>3. ASSUME NEW q \in Rings, HcConsume(q) PROVE TransfersOK'
  <2>1. xThread'.torn = xThread.torn
    <3>1. xThread' = xThread \/ xThread' = [xThread EXCEPT !.msi = TRUE]
      BY <1>3 DEF HcConsume
    <3> QED BY Zenon, <3>1, <1>a DEF XTypes, ThreadSet
  <2> QED BY <2>1, <1>3, <1>b, ReadTransfers DEF TransfersOK
<1>4. ASSUME NEW q \in Rings, HcStop(q) PROVE TransfersOK'
  <2>1. EventsUntouched /\ xHc'.deq = xHc.deq /\ xHc'.ccs = xHc.ccs /\ xHc'.halted = xHc.halted
    BY Zenon, <1>4, <1>a DEF HcStop, XTypes, HcSet, EventsUntouched
  <2>2. xRing' = xRing /\ xClient' = xClient /\ xThread' = xThread
    BY <1>4 DEF HcStop
  <2> QED BY <2>1, <2>2, <1>d
<1>5. ASSUME NEW q \in Rings, NEW code \in {"STALL", "TRANSACTION"}, HcFail(q, code) PROVE TransfersOK'
  <2>1. xThread'.torn = xThread.torn
    BY <1>5, <1>a, FailRead DEF Interrupts
  <2> QED BY <2>1, <1>5, <1>b, FailTransfers DEF TransfersOK
<1>6. CASE MsiHandler \/ EventThreadWakes
  <2>1. /\ EventsUntouched /\ xHc' = xHc /\ xRing' = xRing /\ xClient' = xClient
        /\ (xThread'.pc = "respond" <=> xThread.pc = "respond") /\ xThread'.torn = xThread.torn
    BY Zenon, <1>6, <1>a DEF MsiHandler, EventThreadWakes, EventsUntouched, XTypes, ThreadSet
  <2> QED BY <2>1, <1>d
<1>7. CASE DequeueEvent
  <2>1. /\ xHc' = xHc /\ xRing' = xRing /\ xClient' = xClient /\ xThread.pc = "dequeue"
        /\ xThread'.pc \in {"wait", "handle"} /\ xThread'.torn = xThread.torn
        /\ xEvent'.slot = xEvent.slot
    BY Zenon, <1>7, <1>a DEF DequeueEvent, XTypes, ThreadSet
  <2>2. EventsSame
    BY <1>7, <1>a, Dequeued
  <2> SUFFICES ASSUME NEW r \in EndpointRings, r \notin xThread.torn PROVE TransferOK(r)'
    BY <2>1 DEF TransfersOK
  <2>3. ~Responding(r)' /\ ~Responding(r)
    BY <2>1 DEF Responding
  <2>4. \A i \in EventSlots : LiveOf(r, i)' <=> LiveOf(r, i)
    BY <2>1, <2>2 DEF EventsSame, LiveOf
  <2>5. U(r)' = U(r) /\ InStep(xRing[r], xHc.deq[r], xHc.ccs[r])' /\ Rests(r)
    BY <2>1, <1>b DEF U, TransferOK, Rests
  <2>6. RingStays(r)
    BY <2>1, <2>3, <2>4, <2>5 DEF RingStays
  <2> QED BY <2>1, <2>6, <1>c
<1>8. CASE HandleCommand
  <2>0. Handling /\ Event.kind = "command" /\ Event.ring = CommandRing
    BY Zenon, <1>8, <1>a, HandleCommandFacts, InHand
  <2>1. CASE xPanic' # xPanic
    <3>1. EventsUntouched /\ xHc' = xHc /\ xRing' = xRing /\ xThread' = xThread /\ xClient' = xClient
      BY Zenon, <2>1, <1>8, <1>a, HandleCommandFacts DEF EventsUntouched
    <3> QED BY <3>1, <1>d
  <2>2. CASE xPanic' = xPanic
    <3>1. /\ xRing' = xRing /\ xHc' = xHc /\ xEvent' = xEvent /\ xClient' = xClient
          /\ ThreadGoes("dequeue", xThread.torn)
      BY Zenon, <2>2, <1>8, <1>a, HandleCommandFacts DEF HandleCommand, Running
    <3> SUFFICES ASSUME NEW r \in EndpointRings, r \notin xThread.torn PROVE TransferOK(r)'
      BY <3>1 DEF TransfersOK, ThreadGoes
    <3>2. RingStays(r)
      BY <2>0, <3>1, <1>a, <1>b, OthersDealt DEF ThreadGoes, Rests
    <3> QED BY <3>1, <3>2, <1>c
  <2> QED BY <2>1, <2>2
<1>9. CASE HandleFailure
  <2>1. CASE xPanic' # xPanic
    <3>1. EventsUntouched /\ xHc' = xHc /\ xRing' = xRing /\ xThread' = xThread /\ xClient' = xClient
      BY Zenon, <2>1, <1>9, <1>a, HandleFailureFacts DEF EventsUntouched
    <3> QED BY <3>1, <1>d
  <2>2. CASE xPanic' = xPanic
    <3>1. /\ xThread.pc = "handle" /\ UNCHANGED <<xCrb, xEvent, xHc, xLock, xClient, xPanic>>
          /\ ThreadGoes("respond", IF \E c \in XClients : Writing(c, Event.ring)
                                   THEN xThread.torn \cup {Event.ring} ELSE xThread.torn)
          /\ Rewrites(Event.ring, [xRing[Event.ring] EXCEPT
                                            !.trb = Patch(xRing[Event.ring].trb, Event.ptr)])
      BY <2>2, <1>9, <1>a, HandleFailureFacts DEF HandleFailure, Running
    <3> SUFFICES ASSUME NEW r \in EndpointRings, r \notin xThread'.torn PROVE TransferOK(r)'
      BY DEF TransfersOK
    <3>2. r \notin xThread.torn
      BY <3>1 DEF ThreadGoes
    <3>3. CASE r = Event.ring
      BY <2>2, <3>2, <3>3, <1>9, <1>b, TransferPatched
    <3>4. CASE r # Event.ring
      <4>1. EventsSame /\ xEvent' = xEvent
        BY <3>1, <1>a, EventsStay DEF EventsUntouched, ThreadGoes
      <4>2. ~Responding(r)' /\ ~Responding(r)
        BY <3>1, <3>4, <4>1 DEF Responding, Event, ThreadGoes
      <4>3. xRing'[r] = xRing[r] /\ Rests(r)
        BY <3>1, <3>2, <3>4, <1>b DEF Rewrites, Rests
      <4>4. U(r)' = U(r) /\ InStep(xRing[r], xHc.deq[r], xHc.ccs[r])'
        BY <3>1, <3>2, <4>3, <1>b DEF U, TransferOK
      <4>5. RingStays(r)
        BY <3>1, <4>1, <4>2, <4>3, <4>4, EndpointEvents DEF RingStays
      <4> QED BY <3>1, <3>2, <4>3, <4>5, <1>c
    <3> QED BY <3>3, <3>4
  <2> QED BY <2>1, <2>2
<1>10. CASE HandleTransfer
  <2>1. /\ Handling /\ ThreadGoes("dequeue", xThread.torn) /\ Event.ring \in EndpointRings
        /\ UNCHANGED <<xCrb, xEvent, xHc, xLock, xClient, xPanic>>
        /\ \A r \in Rings : r # Event.ring => xRing'[r] = xRing[r]
    BY <1>10, <1>a, HandleTransferFacts DEF Rewrites
  <2> SUFFICES ASSUME NEW r \in EndpointRings, r \notin xThread.torn PROVE TransferOK(r)'
    BY <2>1 DEF TransfersOK, ThreadGoes
  <2>2. CASE r = Event.ring
    BY <2>2, <1>10, <1>b, TransferAnswered
  <2>3. CASE r # Event.ring
    <3>1. xRing'[r] = xRing[r] /\ Rests(r)
      BY <2>1, <2>3, <1>b DEF Rests
    <3>2. RingStays(r)
      BY <2>1, <2>3, <3>1, <1>a, <1>b, OthersDealt DEF ThreadGoes
    <3> QED BY <2>1, <3>1, <3>2, <1>c
  <2> QED BY <2>2, <2>3
<1> QED BY <1>1, <1>2, <1>3, <1>4, <1>5, <1>6, <1>7, <1>8, <1>9, <1>10 DEF XNext, EventThread

-----------------------------------------------------------------------------
(* The answers *)

AnsweredAs(c) == IF xClient[c].pc \in {"reset", "resetIssue", "resetBell", "resetWait"}
                 THEN xClient[c].n ELSE xClient[c].n - 1
AnswerOK(c) == xClient[c].got # NoTag =>
    \/ xClient[c].got = <<c, AnsweredAs(c)>>
    \/ /\ xClient[c].plan[AnsweredAs(c) + 1].kind # "command"
       /\ xClient[c].plan[AnsweredAs(c) + 1].ring \in xThread.torn

LEMMA AnswersAre == AnswersMatch <=> \A c \in XClients : AnswerOK(c)
BY DEF AnswersMatch, AnswerOK, AnsweredAs

LEMMA AnswerRests ==
    ASSUME NEW c \in XClients, AnswerOK(c), xClient'[c].got = xClient[c].got, xClient'[c].plan = xClient[c].plan,
           AnsweredAs(c)' = AnsweredAs(c), xThread.torn \subseteq xThread'.torn
    PROVE  AnswerOK(c)'
BY DEF AnswerOK

LEMMA AnswersStay ==
    ASSUME AnswersMatch, xClient' = xClient, xThread.torn \subseteq xThread'.torn
    PROVE  AnswersMatch'
BY DEF AnswersMatch

LEMMA AnswersKept ==
    ASSUME XInv, XNext, AnswersMatch
    PROVE  AnswersMatch'
<1>a. XTypes /\ EventRingOK /\ PermitsOK /\ BlocksOK /\ RespondOK /\ Producers /\ ClientsOK
  BY DEF XInv
<1>1. ASSUME NEW c \in XClients, XClientStep(c) PROVE AnswersMatch'
  <2>0. ClientOK(c) /\ AnswerOK(c) /\ xClient[c].n \in Nat
    BY <1>a, AnswersAre, ClientTypes DEF ClientsOK
  <2>1. xThread' = xThread
    BY <1>1, <1>a, ClientUntouched
  <2>2. ASSUME NEW d \in XClients, xClient'[d] = xClient[d] PROVE AnswerOK(d)'
    BY <2>1, <2>2, AnswersAre DEF AnswerOK, AnsweredAs
  <2>3. ASSUME AnswerOK(c)', \A d \in XClients : d # c => xClient'[d] = xClient[d] PROVE AnswersMatch'
    <3>1. \A d \in XClients : AnswerOK(d)'
      BY <2>2, <2>3
    <3> QED BY <3>1 DEF AnswersMatch, AnswerOK, AnsweredAs
  <2>4. ASSUME NEW pc, NEW todo, NEW crb, Moves(c, pc, xClient[c].n, todo, crb, xClient[c].got),
               pc \in {"reset"} \cup ResetPcs <=> xClient[c].pc \in {"reset"} \cup ResetPcs
        PROVE  AnswersMatch'
    <3>1. AnsweredAs(c)' = AnsweredAs(c)
      BY <2>4 DEF Moves, AnsweredAs, ResetPcs
    <3>2. AnswerOK(c)'
      BY <2>0, <2>1, <2>4, <3>1, AnswerRests DEF Moves
    <3> QED BY <2>3, <2>4, <3>2 DEF Moves
  <2> USE DEF ResetPcs, ActivePcs
  <2>5. CASE AllocateCrb(c)
    <3>1. PICK b \in 1..CrbCount :
               Moves(c, IF xClient[c].pc = "reset" THEN "resetIssue" ELSE "cmdIssue",
                        xClient[c].n, xClient[c].todo, b, xClient[c].got)
      BY <2>5, <1>a, AllocateFacts
    <3>2. xClient[c].pc \in {"idle", "reset"}
      BY <2>5 DEF AllocateCrb
    <3> QED BY <3>1, <3>2, <2>4
  <2>6. CASE NoCrb(c)
    BY <2>6, AnswersStay DEF NoCrb
  <2>7. CASE IssueCommand(c)
    <3>1. Moves(c, IF xClient[c].pc \in ResetPcs THEN "resetBell" ELSE "cmdBell",
                      xClient[c].n, xClient[c].todo, xClient[c].crb, xClient[c].got)
      BY Zenon, <2>0, <2>7, <1>a, IssueCommandFacts
    <3>2. xClient[c].pc \in {"cmdIssue", "resetIssue"}
      BY <2>7 DEF IssueCommand
    <3> QED BY <3>1, <3>2, <2>4
  <2>8. CASE RingCommandDoorbell(c)
    <3>1. /\ Moves(c, IF xClient[c].pc = "cmdBell" THEN "cmdWait" ELSE "resetWait",
                      xClient[c].n, xClient[c].todo, xClient[c].crb, xClient[c].got)
          /\ xClient[c].pc \in {"cmdBell", "resetBell"}
      BY <2>8, <1>a, DoorbellFacts
    <3> QED BY <3>1, <2>4
  <2>9. CASE FinishCommand(c)
    <3>1. CASE xClient[c].pc = "cmdWait"
      <4>1. /\ Moves(c, "idle", xClient[c].n + 1, xClient[c].todo, 0, xCrb[xClient[c].crb].response)
            /\ OnCommand(c) /\ xClient[c].crb \in 1..CrbCount /\ xCrb[xClient[c].crb].signal = 1
        BY Zenon, <3>1, <2>0, <2>9, <1>a, FinishCommandFacts
      <4>2. xCrb[xClient[c].crb].response = CmdTag(c)
        BY <4>1, <1>a DEF BlocksOK
      <4>3. CmdTag(c) = <<c, xClient[c].n>>
        BY <3>1 DEF CmdTag, TagOf
      <4>4. AnsweredAs(c)' = xClient[c].n
        BY <4>1, <2>0 DEF Moves, AnsweredAs
      <4>5. AnswerOK(c)'
        BY <4>1, <4>2, <4>3, <4>4 DEF Moves, AnswerOK
      <4> QED BY <4>1, <4>5, <2>3 DEF Moves
    <3>2. CASE xClient[c].pc = "resetWait"
      <4>1. Moves(c, "idle", xClient[c].n + 1, xClient[c].todo, 0, xClient[c].got)
        BY Zenon, <3>2, <2>0, <2>9, <1>a, FinishCommandFacts
      <4>2. AnsweredAs(c)' = xClient[c].n /\ AnsweredAs(c) = xClient[c].n
        BY <4>1, <3>2, <2>0 DEF Moves, AnsweredAs
      <4>3. AnswerOK(c)'
        BY <4>1, <4>2, <2>0, <2>1, AnswerRests DEF Moves
      <4> QED BY <4>1, <4>3, <2>3 DEF Moves
    <3> QED BY <3>1, <3>2, <2>9 DEF FinishCommand
  <2>10. CASE Scope(c) \/ ScopeGranted(c)
    <3>1. /\ Moves(c, "issue", xClient[c].n, TrbsOf(Request(c)), xClient[c].crb, xClient[c].got)
          /\ xClient[c].pc \in {"idle", "scopeWait"}
      BY Zenon, <2>0, <2>10, <1>a, ScopeFacts
    <3> QED BY <3>1, <2>4
  <2>11. CASE ScopeWait(c)
    <3>1. /\ Moves(c, "scopeWait", xClient[c].n, xClient[c].todo, xClient[c].crb, xClient[c].got)
          /\ xClient[c].pc = "idle"
      BY <2>11, <1>a, ScopeWaitFacts
    <3> QED BY <3>1, <2>4
  <2>12. CASE IssueStage(c)
    <3>1. /\ Moves(c, IF Len(xClient[c].todo) = 1 THEN "bell" ELSE "issue", xClient[c].n,
                      Tail(xClient[c].todo), xClient[c].crb, xClient[c].got)
          /\ xClient[c].pc = "issue"
      BY <2>0, <2>12, <1>a, IssueStageFacts
    <3> PICK pc : pc = IF Len(xClient[c].todo) = 1 THEN "bell" ELSE "issue"
      OBVIOUS
    <3>2. pc \in {"bell", "issue"} /\ Moves(c, pc, xClient[c].n, Tail(xClient[c].todo), xClient[c].crb, xClient[c].got)
      BY <3>1
    <3> QED BY <3>1, <3>2, <2>4
  <2>13. CASE RingDoorbell(c)
    <3>1. /\ Moves(c, "wait", xClient[c].n, xClient[c].todo, xClient[c].crb, xClient[c].got)
          /\ xClient[c].pc = "bell"
      BY <2>0, <2>13, <1>a, BellFacts
    <3> QED BY <3>1, <2>4
  <2>14. CASE FinishTransfer(c)
    <3> PICK r : r = Request(c).ring
      OBVIOUS
    <3>1. /\ r \in EndpointRings /\ Request(c).kind # "command" /\ xClient[c].pc = "wait" /\ xRing[r].signal = 1
          /\ \/ Moves(c, "reset", xClient[c].n, xClient[c].todo, xClient[c].crb, xRing[r].response)
             \/ Moves(c, "idle", xClient[c].n + 1, xClient[c].todo, xClient[c].crb, xRing[r].response)
      BY Zenon, <2>0, <2>14, <1>a, FinishTransferFacts
    <3>2. r \notin xThread.torn => xRing[r].response = <<c, xClient[c].n>>
      <4>1. Holds(c, r)
        BY <3>1 DEF Holds
      <4> QED BY <3>1, <4>1 DEF XInv, TransfersOK, TransferOK, TagOf
    <3>3. AnsweredAs(c)' = xClient[c].n
      <4>1. CASE Moves(c, "reset", xClient[c].n, xClient[c].todo, xClient[c].crb, xRing[r].response)
        BY <4>1 DEF Moves, AnsweredAs
      <4>2. CASE Moves(c, "idle", xClient[c].n + 1, xClient[c].todo, xClient[c].crb, xRing[r].response)
        BY <4>2, <2>0 DEF Moves, AnsweredAs
      <4> QED BY <3>1, <4>1, <4>2
    <3>4. /\ xClient'[c].got = xRing[r].response /\ xClient'[c].plan = xClient[c].plan
          /\ \A d \in XClients : d # c => xClient'[d] = xClient[d]
      BY <3>1 DEF Moves
    <3>5. AnswerOK(c)'
      BY Zenon, <3>1, <3>2, <3>3, <3>4, <2>1 DEF AnswerOK, Request
    <3> QED BY <3>4, <3>5, <2>3
  <2> QED BY <1>1, <2>5, <2>6, <2>7, <2>8, <2>9, <2>10, <2>11, <2>12, <2>13, <2>14 DEF XClientStep
<1>2. ASSUME NEW b \in 1..CrbCount, ReuseDelayEnds(b) PROVE AnswersMatch'
  BY <1>2, AnswersStay DEF ReuseDelayEnds
<1>3. ASSUME NEW r \in Rings, HcConsume(r) PROVE AnswersMatch'
  <2>1. xClient' = xClient /\ (xThread' = xThread \/ xThread' = [xThread EXCEPT !.msi = TRUE])
    BY <1>3 DEF HcConsume
  <2>2. xThread'.torn = xThread.torn
    BY Zenon, <2>1, <1>a DEF XTypes, ThreadSet
  <2> QED BY <2>1, <2>2, AnswersStay
<1>4. ASSUME NEW r \in Rings, HcStop(r) PROVE AnswersMatch'
  BY <1>4, AnswersStay DEF HcStop
<1>5. ASSUME NEW r \in Rings, NEW code \in {"STALL", "TRANSACTION"}, HcFail(r, code) PROVE AnswersMatch'
  BY Zenon, <1>5, <1>a, FailRead, AnswersStay DEF Interrupts, HcFail
<1>6. CASE MsiHandler \/ EventThreadWakes \/ DequeueEvent
  <2>1. xClient' = xClient /\ xThread'.torn = xThread.torn
    BY Zenon, <1>6, <1>a DEF MsiHandler, EventThreadWakes, DequeueEvent, XTypes, ThreadSet
  <2> QED BY <2>1, AnswersStay
<1>7. CASE HandleCommand
  <2>1. xClient' = xClient /\ xThread'.torn = xThread.torn
    BY Zenon, <1>7, <1>a, HandleCommandFacts DEF ThreadGoes
  <2> QED BY <2>1, AnswersStay
<1>8. CASE HandleFailure
  <2>1. xClient' = xClient /\ xThread.torn \subseteq xThread'.torn
    BY Zenon, <1>8, <1>a, HandleFailureFacts DEF ThreadGoes
  <2> QED BY <2>1, AnswersStay
<1>9. CASE HandleTransfer
  <2>1. xClient' = xClient /\ xThread'.torn = xThread.torn
    BY <1>9, <1>a, HandleTransferFacts DEF ThreadGoes
  <2> QED BY <2>1, AnswersStay
<1> QED BY <1>1, <1>2, <1>3, <1>4, <1>5, <1>6, <1>7, <1>8, <1>9 DEF XNext, EventThread

-----------------------------------------------------------------------------
(* Where the driver stops *)

LEMMA StopsKept ==
    ASSUME XInv, XNext
    PROVE  StopsOnlyAtWrap'
<1>a. XTypes /\ EventRingOK /\ PermitsOK /\ BlocksOK /\ RespondOK /\ Producers /\ ClientsOK /\ CommandsOK
  BY DEF XInv
<1>b. ASSUME xPanic' \in {"none", "crb"} PROVE StopsOnlyAtWrap'
  BY Zenon, <1>b DEF StopsOnlyAtWrap
<1>1. ASSUME NEW c \in XClients, XClientStep(c) PROVE StopsOnlyAtWrap'
  <2>0. ClientOK(c)
    BY <1>a DEF ClientsOK
  <2>1. CASE FinishTransfer(c)
    BY Zenon, <2>0, <2>1, <1>a, <1>b, FinishTransferFacts DEF FinishTransfer, Running
  <2>2. CASE ~FinishTransfer(c)
    BY Zenon, <2>2, <1>1, <1>b DEF XClientStep, AllocateCrb, NoCrb, IssueCommand, RingCommandDoorbell, FinishCommand,
                            Scope, ScopeWait, ScopeGranted, IssueStage, RingDoorbell, Running
  <2> QED BY <2>1, <2>2
<1>2. ASSUME NEW b \in 1..CrbCount, ReuseDelayEnds(b) PROVE StopsOnlyAtWrap'
  BY <1>2, <1>b DEF ReuseDelayEnds, Running
<1>3. ASSUME NEW r \in Rings, HcConsume(r) \/ HcStop(r) PROVE StopsOnlyAtWrap'
  BY <1>3, <1>b DEF HcConsume, HcStop, Running
<1>4. ASSUME NEW r \in Rings, NEW code \in {"STALL", "TRANSACTION"}, HcFail(r, code) PROVE StopsOnlyAtWrap'
  BY <1>4, <1>b DEF HcFail, Running
<1>5. CASE MsiHandler \/ EventThreadWakes \/ DequeueEvent \/ HandleTransfer
  BY <1>5, <1>b DEF MsiHandler, EventThreadWakes, DequeueEvent, HandleTransfer, Running
<1>6. CASE HandleCommand
  <2>1. xPanic = "none" /\ Handling /\ Event.kind = "command"
    BY Zenon, <1>6, <1>a, HandleCommandFacts DEF HandleCommand, Running
  <2>2. CASE FindCrb(Event.ptr) = {}
    <3>1. LiveCmd(xThread.at) /\ xThread.at \in EventSlots /\ Event = xEvent.slot[xThread.at]
      BY <2>1, <1>a, InHand DEF LiveCmd
    <3>2. PICK a \in Sched : PosOf(a) = Event.ptr
      BY <3>1, <1>a DEF CommandsOK
    <3>3. xCrb[a].at # Event.ptr
      BY <2>2 DEF FindCrb, Sched
    <3>4. Event.ptr = 0
      BY <3>2, <3>3 DEF PosOf
    <3>5. xPanic' = "todo command" /\ Event' = Event
      BY Zenon, <2>2, <1>6 DEF HandleCommand, Event
    <3> QED BY Zenon, <3>4, <3>5 DEF StopsOnlyAtWrap
  <2>3. CASE FindCrb(Event.ptr) # {}
    BY Zenon, <2>1, <2>3, <1>6, <1>b DEF HandleCommand
  <2> QED BY <2>2, <2>3
<1>7. CASE HandleFailure
  <2>1. xPanic = "none" /\ xThread.pc = "handle" /\ Handling /\ Event.kind = "transfer"
        /\ xRing[Event.ring].trb[Event.ptr].type \notin {"NORMAL", "STATUS"}
    BY Zenon, <1>7, <1>a, HandleFailureFacts DEF HandleFailure, Running
  <2>2. CASE FailedStages(xRing[Event.ring].trb, Event.ptr) = {}
    <3>1. /\ xPanic' = "todo stages" /\ UNCHANGED <<xRing, xEvent, xThread, xClient>>
      BY Zenon, <2>2, <1>7 DEF HandleFailure
    <3>2. Event' = Event /\ \A c \in XClients : Writing(c, Event.ring)' <=> Writing(c, Event.ring)
      BY Zenon, <3>1 DEF Event, Writing, Request
    <3>3. Event.ring \in EndpointRings /\ Event.ptr \in Pos
      BY <2>1, <1>a, InHand
    <3>4. ASSUME \A c \in XClients : ~Writing(c, Event.ring), Event.ring \notin xThread.torn
          PROVE  Event.ptr = MaxTrIndex - 2 /\ xRing[Event.ring].trb[MaxTrIndex].type = "LINK"
      <4>1. TransferOK(Event.ring)
        BY <3>3, <3>4 DEF XInv, TransfersOK
      <4> QED BY <2>1, <2>2, <3>3, <3>4, <4>1, FailureAnalysis
    <3>5. \/ Event.ptr = MaxTrIndex - 2 /\ xRing[Event.ring].trb[MaxTrIndex].type = "LINK"
          \/ \E c \in XClients : Writing(c, Event.ring)
          \/ Event.ring \in xThread.torn
      BY <3>4
    <3>6. \/ Event'.ptr = MaxTrIndex - 2 /\ xRing'[Event'.ring].trb[MaxTrIndex].type = "LINK"
          \/ \E c \in XClients : Writing(c, Event.ring)'
          \/ Event'.ring \in xThread'.torn
      BY Zenon, <3>1, <3>2, <3>5
    <3> QED BY Zenon, <3>1, <3>6 DEF StopsOnlyAtWrap
  <2>3. CASE FailedStages(xRing[Event.ring].trb, Event.ptr) # {}
    BY Zenon, <2>1, <2>3, <1>7, <1>b DEF HandleFailure
  <2> QED BY <2>2, <2>3
<1> QED BY <1>1, <1>2, <1>3, <1>4, <1>5, <1>6, <1>7 DEF XNext, EventThread

-----------------------------------------------------------------------------
(* The initial states, the stuttering steps, and the theorem *)

LEMMA RingsInitially ==
    ASSUME NEW n \in 0..MaxTrIndex
    PROVE  /\ EpRingContext(n) \in RingSet /\ Produced(EpRingContext(n))
           /\ InStep(EpRingContext(n), n, 1) /\ Unread(EpRingContext(n), n, 1) = 0
           /\ \A i \in Pos : EpRingContext(n).trb[i].type \in {"RESERVED", "NOP"}
<1> DEFINE v == EpRingContext(n)
           trb == [i \in 0..MaxTrIndex |-> IF i < n THEN Trb("NOP", 1, NoTag) ELSE EmptyTrb]
<1>1. /\ v.trb = trb /\ v.index = n /\ v.pcs = 1 /\ v.state = "Available" /\ v.response = NoTag
      /\ v.code = "none" /\ v.scope = 1 /\ v.signal = 0
  BY DEF EpRingContext
<1>2. Trb("NOP", 1, NoTag) \in TrbSet /\ EmptyTrb \in TrbSet
  BY DEF Trb, EmptyTrb, TrbSet, TrbTypes, Tags
<1>3. trb \in [0..MaxTrIndex -> TrbSet]
  BY <1>2
<1>4. ASSUME NEW i \in 0..MaxTrIndex
      PROVE  /\ trb[i].cycle = IF i < n THEN 1 ELSE 0
             /\ trb[i].type = IF i < n THEN "NOP" ELSE "RESERVED"
  BY DEF Trb, EmptyTrb
<1> HIDE DEF trb
<1>5. v \in RingSet
  BY <1>3 DEF EpRingContext, RingSet, Tags, trb
<1> HIDE DEF v
<1>6. Produced(v)
  BY <1>1, <1>4, Sizes DEF Produced, Pos
<1>7. InStep(v, n, 1) /\ Unread(v, n, 1) = 0
  BY <1>1, Sizes DEF InStep, Unread
<1>8. \A i \in Pos : v.trb[i].type \in {"RESERVED", "NOP"}
  BY <1>1, <1>4, Sizes DEF Pos
<1> QED BY <1>5, <1>6, <1>7, <1>8 DEF v

LEMMA Initially ==
    ASSUME XInit
    PROVE  XInv /\ AnswersMatch /\ StopsOnlyAtWrap
<1>1. PICK n \in XStarts :
        /\ xRing = [r \in Rings |-> EpRingContext(n)]
        /\ xHc = [deq |-> [r \in Rings |-> n], ccs |-> [r \in Rings |-> 1],
                  bells |-> {}, halted |-> {}, enq |-> 0, pcs |-> 1]
  BY DEF XInit
<1>2. n \in 0..MaxTrIndex
  BY XhciAssumption
<1>3. PICK plan \in XPlans :
        xClient = [c \in XClients |->
                    [pc |-> "idle", plan |-> plan[c], n |-> 0, todo |-> <<>>, crb |-> 0, got |-> NoTag]]
  BY DEF XInit
<1>4. plan \in [XClients -> Seq(XRequests)]
  BY XhciAssumption
<1>5. ASSUME NEW r \in Rings
      PROVE  /\ xRing[r] = EpRingContext(n) /\ xHc.deq[r] = n /\ xHc.ccs[r] = 1
             /\ xRing[r].state = "Available" /\ xRing[r].scope = 1 /\ xRing[r].signal = 0
             /\ xRing[r] \in RingSet /\ Produced(xRing[r]) /\ InStep(xRing[r], xHc.deq[r], xHc.ccs[r])
             /\ U(r) = 0 /\ \A i \in Pos : xRing[r].trb[i].type \in {"RESERVED", "NOP"}
  <2>1. xRing[r] = EpRingContext(n) /\ xHc.deq[r] = n /\ xHc.ccs[r] = 1
    BY <1>1
  <2>2. EpRingContext(n).state = "Available" /\ EpRingContext(n).scope = 1 /\ EpRingContext(n).signal = 0
    BY DEF EpRingContext
  <2> QED BY <2>1, <2>2, <1>2, RingsInitially DEF U
<1>6. ASSUME NEW c \in XClients
      PROVE  /\ xClient[c].pc = "idle" /\ xClient[c].n = 0 /\ xClient[c].crb = 0 /\ xClient[c].got = NoTag
             /\ xClient[c] \in ClientSet
  BY <1>3, <1>4, Sizes DEF ClientSet, Tags
<1>7. ASSUME NEW b \in 1..CrbCount
      PROVE  xCrb[b].state = "Available" /\ xCrb[b].signal = 0 /\ xCrb[b] \in CrbSet
  <2>1. xCrb[b] = CommandRequestBlock
    BY DEF XInit
  <2> QED BY <2>1, Sizes DEF CommandRequestBlock, CrbSet, Tags
<1>8. /\ xEvent = [slot |-> [i \in EventSlots |-> NoEvent], erdp |-> 0, cycle |-> 1]
      /\ xThread.pc = "wait" /\ xThread.at = 0 /\ xThread.torn = {} /\ xThread.sem = 0 /\ xThread.msi = FALSE
      /\ xLock = Nobody /\ xPanic = "none"
      /\ xHc.enq = 0 /\ xHc.pcs = 1 /\ xEvent.erdp = 0 /\ xEvent.cycle = 1
  BY <1>1 DEF XInit, EventSlots, NoEvent
<1>9. XTypes
  <2>1. xRing \in [Rings -> RingSet]
    BY <1>1, <1>5
  <2>2. xCrb \in [1..CrbCount -> CrbSet]
    BY <1>7 DEF XInit
  <2>3. 0 \in EventSlots
    BY Sizes DEF EventSlots
  <2>4. xEvent \in [slot : [EventSlots -> {NoEvent} \cup EventSet], erdp : EventSlots, cycle : {0, 1}]
    BY <1>8, <2>3
  <2>5. xHc \in HcSet
    BY <1>1, <1>2, <2>3 DEF HcSet
  <2>6. xThread \in ThreadSet
    BY <2>3 DEF XInit, ThreadSet
  <2>7. xClient \in [XClients -> ClientSet]
    BY <1>3, <1>6
  <2> QED BY <2>1, <2>2, <2>4, <2>5, <2>6, <2>7, <1>8 DEF XTypes
<1>10. Producers
  BY <1>5 DEF Producers
<1>11. ~Handling /\ \A i \in EventSlots : ~Live(i)
  <2>1. ~Handling
    BY <1>8 DEF Handling
  <2>2. Backlog = 0
    BY <1>8 DEF Backlog
  <2>3. ASSUME NEW i \in EventSlots PROVE Rank(xEvent.erdp, i) >= 0
    BY <1>8, Sizes DEF Rank, EventSlots
  <2>4. \A i \in EventSlots : Rank(xEvent.erdp, i) \in Int
    BY <1>8, Sizes DEF Rank, EventSlots
  <2> QED BY <2>1, <2>2, <2>3, <2>4 DEF Live
<1>12. EventRingOK /\ RespondOK
  <2>1. \A i \in EventSlots : xEvent.slot[i].cycle = 0 /\ i >= 0
    BY <1>8, Sizes DEF NoEvent, EventSlots
  <2>2. EventCycles
    BY <2>1, <1>8, Sizes DEF EventCycles, EventSlots
  <2> QED BY <2>2, <1>8, <1>11 DEF EventRingOK, RespondOK
<1>13. ClientsOK
  <2>1. Nobody \notin XClients
    BY XhciAssumption
  <2>2. ASSUME NEW c \in XClients PROVE ClientOK(c)
    BY <2>1, <1>6, <1>8 DEF ClientOK, OnCommand, CmdPcs, ResetPcs, ActivePcs
  <2> QED BY <2>2 DEF ClientsOK
<1>14. \A c \in XClients : ~OnCommand(c) /\ xClient[c].pc \notin ActivePcs /\ \A r : ~Holds(c, r)
  BY <1>6 DEF OnCommand, Holds, CmdPcs, ResetPcs, ActivePcs
<1>15. BlocksOK
  BY <1>7, <1>14 DEF BlocksOK
<1>16. Rings = {CommandRing} \cup EndpointRings
  BY DEF Rings
<1>17. PermitsOK
  <2>1. ASSUME NEW r \in EndpointRings PROVE PermitOK(r)
    <3>1. xRing[r].scope = 1 /\ xRing[r].signal = 0 /\ xRing[r].state = "Available"
      BY <1>5, <1>16
    <3> QED BY <3>1, <1>14 DEF PermitOK
  <2> QED BY <2>1 DEF PermitsOK
<1>18. CommandsOK /\ CommandTagsOK
  <2>1. Sched = {}
    BY <1>7 DEF Sched
  <2>2. \A i \in EventSlots : ~LiveCmd(i)
    BY <1>11 DEF LiveCmd
  <2>3. U(CommandRing) = 0 /\ InStep(xRing[CommandRing], xHc.deq[CommandRing], xHc.ccs[CommandRing])
        /\ xRing[CommandRing] \in RingSet
    BY <1>5, <1>16
  <2>4. \A q \in Pos : ~(CAge(q) <= U(CommandRing))
    <3>1. \A q \in Pos : CAge(q) \in 1..MaxTrIndex
      BY <2>3, Ages DEF CAge
    <3> QED BY <3>1, <2>3, Sizes
  <2> QED BY <2>1, <2>2, <2>3, <2>4 DEF CommandsOK, CommandTagsOK
<1>19. TodoOK
  BY <1>14 DEF TodoOK
<1>20. TransfersOK
  <2>1. ASSUME NEW r \in EndpointRings PROVE TransferOK(r)
    <3>1. /\ xRing[r].state = "Available" /\ xRing[r].signal = 0 /\ U(r) = 0 /\ xRing[r] \in RingSet
          /\ InStep(xRing[r], xHc.deq[r], xHc.ccs[r])
      BY <1>5, <1>16
    <3>2. \A q \in Pos : Age(xRing[r], q) \in 1..MaxTrIndex
      BY <3>1, Ages
    <3>3. \A q \in Pos : ~(Age(xRing[r], q) <= U(r))
      BY <3>1, <3>2, Sizes
    <3>4. AllNop(r)
      BY <3>1, <3>3 DEF AllNop
    <3> QED BY <3>1, <3>4, <1>11 DEF TransferOK, LiveOf
  <2> QED BY <2>1 DEF TransfersOK
<1>21. AnswersMatch /\ StopsOnlyAtWrap
  BY <1>6, <1>8 DEF AnswersMatch, StopsOnlyAtWrap
<1> QED BY <1>9, <1>10, <1>12, <1>13, <1>15, <1>17, <1>18, <1>19, <1>20, <1>21 DEF XInv

LEMMA Stuttering ==
    ASSUME XInv, AnswersMatch, StopsOnlyAtWrap, UNCHANGED xVars
    PROVE  (XInv /\ AnswersMatch /\ StopsOnlyAtWrap)'
<1>1. /\ xRing' = xRing /\ xCrb' = xCrb /\ xEvent' = xEvent /\ xHc' = xHc
      /\ xThread' = xThread /\ xLock' = xLock /\ xClient' = xClient /\ xPanic' = xPanic
  BY DEF xVars
<1>2. /\ XTypes /\ Producers /\ EventRingOK /\ RespondOK /\ ClientsOK /\ BlocksOK /\ PermitsOK
      /\ CommandsOK /\ CommandTagsOK /\ TodoOK /\ TransfersOK
  BY DEF XInv
<1>3. XTypes'
  BY Zenon, <1>1, <1>2 DEF XTypes
<1>4. \A r \in Rings : Rests(r) /\ xHc'.ccs[r] = xHc.ccs[r]
  BY <1>1 DEF Rests
<1>5. Producers'
  BY <1>2, <1>4, ProducersRest
<1>6. EventsUntouched
  BY <1>1 DEF EventsUntouched
<1>7. EventRingOK' /\ EventsSame
  BY <1>2, <1>6, EventsStay
<1>8. Event' = Event
  BY <1>1 DEF Event
<1>9. RespondOK'
  BY <1>1, <1>2, <1>8 DEF RespondOK
<1>10. ClientsOK'
  <2>1. ASSUME NEW c \in XClients PROVE ClientOK(c)'
    BY <1>1, <1>2, ClientRests DEF ClientsOK
  <2> QED BY <2>1 DEF ClientsOK
<1>11. BlocksOK'
  BY <1>1, <1>2, BlocksRest, OtherKeeps
<1>12. PermitsOK'
  <2>1. ASSUME NEW r \in EndpointRings PROVE PermitOK(r)'
    <3>1. SamePermit(r) /\ PermitOK(r)
      BY <1>1, <1>2 DEF SamePermit, PermitsOK
    <3>2. \A d \in XClients : KeepsPermit(d, r)
      BY <1>1, OtherPermits
    <3> QED BY <3>1, <3>2, PermitRests
  <2> QED BY <2>1 DEF PermitsOK
<1>13. CommandRing \in Rings
  BY DEF Rings
<1>14. CommandsOK'
  <2>1. SchedSame
    BY <1>1 DEF SchedSame
  <2>2. CmdEventsSame
    BY <1>7, CmdEventsStay
  <2> QED BY <2>1, <2>2, <1>1, <1>2, <1>4, <1>13, CommandsRest
<1>15. CommandTagsOK'
  <2>1. \A d \in XClients : (OnCommand(d)' <=> OnCommand(d)) /\ CmdTag(d)' = CmdTag(d) /\ CmdType(d)' = CmdType(d)
    BY <1>1, OtherStays
  <2>2. \A d \in XClients : OnCommand(d)' /\ xClient'[d].crb \in Sched' =>
                /\ OnCommand(d) /\ xClient'[d].crb = xClient[d].crb
                /\ CmdTag(d)' = CmdTag(d) /\ CmdType(d)' = CmdType(d)
    BY <2>1, <1>1
  <2> QED BY <2>2, <1>1, <1>2, CommandTagsRest
<1>16. TodoOK'
  <2>1. ASSUME NEW c \in XClients PROVE TodoOf(c)'
    <3>1. TodoOf(c) /\ Request(c)' = Request(c)
      BY <1>1, <1>2, OtherStays DEF TodoOK, TodoOf
    <3> QED BY <3>1, <1>1, TodoRests
  <2> QED BY <2>1 DEF TodoOK, TodoOf
<1>17. TransfersOK'
  <2>1. ASSUME NEW r \in EndpointRings, r \notin xThread.torn PROVE TransferOK(r)'
    <3>1. TransferOK(r) /\ r \in Rings
      BY <2>1, <1>2 DEF TransfersOK, Rings
    <3>2. RingStays(r)
      BY <3>1, <1>1, <1>2, <1>4, <1>6, EndpointStays
    <3>3. ASSUME NEW d \in XClients PROVE HolderStays(d, r)
      BY <1>1, OtherStays DEF HolderStays
    <3> QED BY <3>1, <3>2, <3>3, <1>1, TransferRests
  <2> QED BY <2>1, <1>1 DEF TransfersOK
<1>18. AnswersMatch'
  BY <1>1, AnswersStay
<1>19. StopsOnlyAtWrap'
  <2>1. \A c \in XClients : Writing(c, Event.ring)' <=> Writing(c, Event.ring)
    BY <1>1, <1>8 DEF Writing, Request
  <2> QED BY Zenon, <2>1, <1>1, <1>8 DEF StopsOnlyAtWrap
<1> QED BY <1>3, <1>5, <1>7, <1>9, <1>10, <1>11, <1>12, <1>14, <1>15, <1>16, <1>17, <1>18, <1>19 DEF XInv

\* A ring that is produced and in step is as RingInStep says.
LEMMA StepsAgree ==
    ASSUME XTypes, NEW r \in Rings, Produced(xRing[r]), InStep(xRing[r], xHc.deq[r], xHc.ccs[r])
    PROVE  /\ \A i \in Outstanding(xRing[r], xHc.deq[r]) :
                xRing[r].trb[i].cycle = IF i >= xHc.deq[r] THEN xHc.ccs[r] ELSE 1 - xHc.ccs[r]
           /\ xRing[r].trb[xRing[r].index].cycle # xRing[r].pcs
           /\ xRing[r].index >= xHc.deq[r] => xRing[r].pcs = xHc.ccs[r]
<1>1. /\ xRing[r].index \in 0..MaxTrIndex /\ xRing[r].pcs \in {0, 1}
      /\ xHc.deq[r] \in 0..MaxTrIndex /\ xHc.ccs[r] \in {0, 1}
  BY Zenon DEF XTypes, RingSet, HcSet
<1>2. \A i \in 0..MaxTrIndex :
        xRing[r].trb[i].cycle = IF i < xRing[r].index THEN xRing[r].pcs ELSE 1 - xRing[r].pcs
  BY DEF Produced
<1>3. /\ xHc.ccs[r] = xRing[r].pcs => xHc.deq[r] <= xRing[r].index
      /\ xHc.ccs[r] # xRing[r].pcs => xHc.deq[r] > xRing[r].index
  BY DEF InStep
<1>4. ASSUME NEW i \in Outstanding(xRing[r], xHc.deq[r])
      PROVE  xRing[r].trb[i].cycle = IF i >= xHc.deq[r] THEN xHc.ccs[r] ELSE 1 - xHc.ccs[r]
  <2>1. /\ i \in 0..MaxTrIndex
        /\ \/ xHc.deq[r] <= xRing[r].index /\ i >= xHc.deq[r] /\ i < xRing[r].index
           \/ xHc.deq[r] > xRing[r].index /\ (i >= xHc.deq[r] \/ i < xRing[r].index)
    BY <1>1, Sizes DEF Outstanding
  <2>2. xRing[r].trb[i].cycle = IF i < xRing[r].index THEN xRing[r].pcs ELSE 1 - xRing[r].pcs
    BY <2>1, <1>2
  <2> QED BY <2>1, <2>2, <1>1, <1>3, Sizes
<1>5. xRing[r].trb[xRing[r].index].cycle = 1 - xRing[r].pcs
  BY <1>1, <1>2, Sizes
<1> QED BY <1>1, <1>3, <1>4, <1>5

LEMMA InvariantMeans ==
    ASSUME XInv, AnswersMatch, StopsOnlyAtWrap
    PROVE  XhciInv
<1>1. /\ XTypes /\ Producers /\ ClientsOK /\ PermitsOK /\ CommandsOK /\ TransfersOK
  BY DEF XInv
<1>2. XTypeOK
  <2>1. ASSUME NEW r \in Rings
        PROVE  /\ xRing[r].index \in 0..MaxTrIndex /\ xRing[r].pcs \in {0, 1}
               /\ xRing[r].scope \in {0, 1} /\ xRing[r].signal \in Nat
    <3>1. xRing[r] \in RingSet
      BY Zenon, <1>1 DEF XTypes
    <3> QED BY <3>1 DEF RingSet
  <2>2. ASSUME NEW b \in 1..CrbCount
        PROVE  xCrb[b].state \in {"Available", "Acquired", "Scheduled", "Completed"}
    BY Zenon, <1>1 DEF XTypes, CrbSet
  <2>3. /\ xEvent.erdp \in 0..EventRingSize - 1 /\ xEvent.cycle \in {0, 1}
        /\ xThread.pc \in {"wait", "dequeue", "handle", "respond"} /\ xLock \in XClients \cup {Nobody}
    BY Zenon, <1>1 DEF XTypes, EventSlots, ThreadSet
  <2> QED BY <2>1, <2>2, <2>3 DEF XTypeOK
<1>3. RingInStep
  <2>1. ASSUME NEW r \in Rings \ xThread.torn
        PROVE  Produced(xRing[r]) /\ InStep(xRing[r], xHc.deq[r], xHc.ccs[r])
    <3>1. CASE r = CommandRing
      BY <3>1, <1>1 DEF Producers, CommandsOK
    <3>2. CASE r \in EndpointRings
      BY <3>2, <1>1 DEF Producers, TransfersOK, TransferOK
    <3> QED BY <3>1, <3>2 DEF Rings
  <2> QED BY <2>1, <1>1, StepsAgree DEF RingInStep
<1>4. LockedOutOnlyWhenShared
  <2>1. ASSUME xLock # Nobody
        PROVE  \/ xRing[Request(xLock).ring].scope = 1
               \/ \E c \in XClients \ {xLock} :
                    /\ xClient[c].pc # "idle" /\ Request(c).kind # "command"
                    /\ Request(c).ring = Request(xLock).ring
    <3>1. PICK c \in XClients : c = xLock
      BY Zenon, <2>1, <1>1 DEF XTypes
    <3>2. xClient[c].pc = "scopeWait" /\ HasRequest(c) /\ Request(c).kind # "command"
      BY <3>1, <1>1 DEF ClientsOK, ClientOK
    <3>3. PICK r : r = Request(c).ring
      OBVIOUS
    <3>4. r \in EndpointRings
      BY <3>2, <3>3, <1>1, RequestTypes
    <3>5. xRing[r].scope \in {0, 1}
      BY Zenon, <3>4, <1>1 DEF XTypes, RingSet, Rings
    <3>6. CASE xRing[r].scope = 0
      <4>1. PICK d \in XClients : Holds(d, r)
        BY <3>4, <3>6, <1>1 DEF PermitsOK, PermitOK
      <4>2. d # c /\ xClient[d].pc # "idle" /\ Request(d).ring = r
        BY <4>1, <3>2 DEF Holds, ActivePcs, ResetPcs
      <4>3. Request(d).kind # "command"
        <5>1. ClientOK(d) /\ xClient[d].pc \in ActivePcs \cup ResetPcs \cup {"reset"}
          BY <4>1, <1>1 DEF ClientsOK, Holds
        <5> QED BY <5>1 DEF ClientOK
      <4> QED BY <4>2, <4>3, <3>1, <3>3
    <3> QED BY <3>1, <3>3, <3>5, <3>6
  <2> QED BY <2>1 DEF LockedOutOnlyWhenShared
<1> QED BY <1>2, <1>3, <1>4 DEF XhciInv

(* For any number of clients, endpoints and request blocks, any rings of     *)
(* eight entries or more and any event ring, whatever the clients ask for:   *)
(* the producer and the controller agree on what was issued (`issue_trb`),   *)
(* a request returns its own completion (`process_event`, `find_crb`,        *)
(* `set_response`), the lock of ring_context is kept across an await only    *)
(* for an endpoint in use (`scoped`), and the driver stops only where a ring *)
(* wraps or a transfer failed before it was written.                         *)
THEOREM XhciHolds == XSpec => []XhciInv
<1> DEFINE Inv == XInv /\ AnswersMatch /\ StopsOnlyAtWrap
<1>1. XInit => Inv
  BY Initially
<1>2. Inv /\ [XNext]_xVars => Inv'
  <2> SUFFICES ASSUME XInv, AnswersMatch, StopsOnlyAtWrap, [XNext]_xVars PROVE Inv'
    OBVIOUS
  <2>1. CASE XNext
    <3>1. /\ XTypes' /\ Producers' /\ ClientsOK' /\ BlocksOK' /\ PermitsOK' /\ TodoOK'
      BY <2>1, XTypesKept, ProducersKept, ClientsKept, BlocksKept, PermitsKept, TodoKept
    <3>2. EventRingOK' /\ RespondOK' /\ CommandsOK' /\ CommandTagsOK' /\ TransfersOK'
      BY <2>1, EventsKept, CommandsKept, TransfersKept
    <3>3. AnswersMatch' /\ StopsOnlyAtWrap'
      BY <2>1, AnswersKept, StopsKept
    <3> QED BY <3>1, <3>2, <3>3 DEF XInv
  <2>2. CASE UNCHANGED xVars
    BY <2>2, Stuttering
  <2> QED BY <2>1, <2>2
<1>3. Inv => XhciInv
  BY InvariantMeans
<1> QED BY <1>1, <1>2, <1>3, PTL DEF XSpec
=============================================================================
