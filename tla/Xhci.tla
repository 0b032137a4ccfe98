-------------------------------- MODULE Xhci --------------------------------
(***************************************************************************)
(* The xHCI host controller driver: transfer rings with their producer     *)
(* cycle bit and link TRB, the command request blocks, the event ring and  *)
(* the event thread, and the two asynchronous transfers.  The controller   *)
(* itself is external and is modelled from how the driver uses it.         *)
(*                                                                         *)
(* The address of a TRB is its index in its ring, `tag' names the request  *)
(* a TRB was issued for, and the content of a transfer is the tag.  The    *)
(* lock of ring_context is taken and released within one action except     *)
(* where the code keeps it across an await (ScopeWait).                    *)
(*                                                                         *)
(* One history variable: xThread.torn, the endpoints on which a transfer   *)
(* failed while its client was still writing it.  process_event takes the  *)
(* entries behind the failed one for its stages, without a look at their   *)
(* cycle bits; there they may be what an earlier lap left.                 *)
(***************************************************************************)
EXTENDS Integers, Sequences, FiniteSets

CONSTANTS XClients,       \* threads and tasks that use the controller
          EndpointRings,  \* the (slot, dci) pairs that have a transfer ring
          RingSize,       \* Xhci::SIZE_EP_RING
          EventRingSize,  \* InterrupterRegisterSet::SIZE_EVENT_RING
          CrbCount,       \* Xhci::MAX_CRB
          XStarts,        \* how much of each ring earlier requests have used
          XPlans          \* the requests each client makes, in order

CommandRing == "command"
Rings == {CommandRing} \cup EndpointRings
MaxTrIndex == RingSize - 1
Nobody == "nobody"

\* What a client may ask for: a command, or a transfer on an endpoint, which
\* is bulk or interrupt ("normal") or control with or without a data stage.
XRequests ==
    [kind : {"command"}]
    \cup [kind : {"normal"}, ring : EndpointRings]
    \cup [kind : {"control"}, ring : EndpointRings, data : BOOLEAN]

\* A ring has room for two control transfers besides the entry to be written
\* and the link.  A client waits for its command, so that there are never
\* more commands than clients: fewer than the entries of the ring.
ASSUME XhciAssumption ==
    /\ RingSize \in Nat /\ RingSize > 7
    /\ EventRingSize \in Nat /\ EventRingSize > 1
    /\ CrbCount \in Nat \ {0}
    /\ IsFiniteSet(XClients) /\ Cardinality(XClients) < MaxTrIndex
    /\ CommandRing \notin EndpointRings /\ Nobody \notin XClients
    /\ XStarts \subseteq 0..MaxTrIndex
    /\ XPlans \subseteq [XClients -> Seq(XRequests)]

VARIABLES xRing,    \* ring_context: the transfer and command rings
          xCrb,     \* crbs
          xEvent,   \* the event ring: slots, ERDP and event_cycle
          xHc,      \* the controller's own state
          xThread,  \* the event thread, its semaphore and the pending MSI
          xLock,    \* who keeps the write lock of ring_context across an await
          xClient,  \* the clients' programs
          xPanic    \* where the driver stopped, or "none"

xVars == <<xRing, xCrb, xEvent, xHc, xThread, xLock, xClient, xPanic>>

NoTag == <<>>

Trb(type, cycle, tag) == [type |-> type, cycle |-> cycle, tag |-> tag]
EmptyTrb == Trb("RESERVED", 0, NoTag)
TrbLink(cycle) == Trb("LINK", cycle, NoTag)
TrbNop(old) == Trb("NOP", old.cycle, NoTag)      \* copy_without_cycle

\* EpRingContext::alloc and CycleBit::reset: the first lap has cycle 1.  The
\* first n entries have been issued and consumed before.
EpRingContext(n) ==
    [trb |-> [i \in 0..MaxTrIndex |-> IF i < n THEN Trb("NOP", 1, NoTag) ELSE EmptyTrb],
     index |-> n, pcs |-> 1,
     state |-> "Available", response |-> NoTag, code |-> "none",
     scope |-> 1, signal |-> 0]

CommandRequestBlock ==
    [state |-> "Available", at |-> -1, signal |-> 0, delayed |-> FALSE,
     response |-> NoTag]

XInit ==
    /\ \E n \in XStarts :
         /\ xRing = [r \in Rings |-> EpRingContext(n)]
         /\ xHc = [deq |-> [r \in Rings |-> n], ccs |-> [r \in Rings |-> 1],
                   bells |-> {}, halted |-> {}, enq |-> 0, pcs |-> 1]
    /\ xCrb = [b \in 1..CrbCount |-> CommandRequestBlock]
    /\ xEvent = [slot |-> [i \in 0..EventRingSize - 1 |-> [kind |-> "none", cycle |-> 0]],
                 erdp |-> 0, cycle |-> 1]
    /\ xThread = [pc |-> "wait", sem |-> 0, msi |-> FALSE, at |-> 0, torn |-> {}]
    /\ xLock = Nobody
    /\ \E plan \in XPlans :
         xClient = [c \in XClients |->
                     [pc |-> "idle", plan |-> plan[c], n |-> 0, todo |-> <<>>,
                      crb |-> 0, got |-> NoTag]]
    /\ xPanic = "none"

-----------------------------------------------------------------------------
(* Producing TRBs *)

\* Mutant: the producer's cycle bit is not toggled at the link.
IssueTrbNoToggle(ring, type, tag) ==
    LET wraps == ring.index = MaxTrIndex
        at    == IF wraps THEN 0 ELSE ring.index
        trb   == IF wraps THEN [ring.trb EXCEPT ![MaxTrIndex] = TrbLink(ring.pcs)]
                          ELSE ring.trb
    IN [ring EXCEPT !.trb = [trb EXCEPT ![at] = Trb(type, ring.pcs, tag)],
                    !.index = at + 1]

\* issue_trb: at the last entry a link goes first, the producer's cycle bit
\* is toggled, and the TRB becomes the first of the next lap.
IssueTrb(ring, type, tag) ==
    LET wraps == ring.index = MaxTrIndex
        at    == IF wraps THEN 0 ELSE ring.index
        pcs   == IF wraps THEN 1 - ring.pcs ELSE ring.pcs
        trb   == IF wraps THEN [ring.trb EXCEPT ![MaxTrIndex] = TrbLink(ring.pcs)]
                          ELSE ring.trb
    IN [ring EXCEPT !.trb = [trb EXCEPT ![at] = Trb(type, pcs, tag)],
                    !.index = at + 1, !.pcs = pcs]

\* The address recorded in the request block is computed before the wrap.
ScheduledTrb(ring) == ring.index

Request(c) == xClient[c].plan[xClient[c].n + 1]
TagOf(c) == <<c, xClient[c].n>>
HasRequest(c) == xClient[c].n < Len(xClient[c].plan)
Step(c, pc) == xClient' = [xClient EXCEPT ![c].pc = pc]
Running == xPanic = "none"

-----------------------------------------------------------------------------
(* Commands: execute_command *)

Acquirable(b) == ~xCrb[b].delayed /\ xCrb[b].state = "Available"

\* allocate_crb: the first block whose state goes from Available to Acquired.
AllocateCrb(c) ==
    /\ Running
    /\ \/ xClient[c].pc = "idle" /\ HasRequest(c) /\ Request(c).kind = "command"
       \/ xClient[c].pc = "reset"
    /\ \E b \in 1..CrbCount :
         /\ Acquirable(b)
         /\ \A a \in 1..b - 1 : ~Acquirable(a)
         /\ xCrb' = [xCrb EXCEPT ![b].state = "Acquired"]
         /\ xClient' = [xClient EXCEPT ![c].crb = b,
                          ![c].pc = IF @ = "reset" THEN "resetIssue" ELSE "cmdIssue"]
    /\ UNCHANGED <<xRing, xEvent, xHc, xThread, xLock, xPanic>>

\* No block is free: the unwrap of execute_command stops the system.
NoCrb(c) ==
    /\ Running
    /\ \/ xClient[c].pc = "idle" /\ HasRequest(c) /\ Request(c).kind = "command"
       \/ xClient[c].pc = "reset"
    /\ \A b \in 1..CrbCount : ~Acquirable(b)
    /\ xPanic' = "crb"
    /\ UNCHANGED <<xRing, xCrb, xEvent, xHc, xThread, xLock, xClient>>

\* issue_trb with a request block, then the doorbell of the command ring.
IssueCommand(c) ==
    /\ Running /\ xLock = Nobody
    /\ xClient[c].pc \in {"cmdIssue", "resetIssue"}
    /\ LET b     == xClient[c].crb
           reset == xClient[c].pc = "resetIssue"
           tag   == IF reset THEN <<c, xClient[c].n, Request(c).ring>> ELSE TagOf(c)
       IN /\ xCrb' = [xCrb EXCEPT ![b].state = "Scheduled", ![b].response = NoTag,
                                  ![b].at = ScheduledTrb(xRing[CommandRing])]
          /\ xRing' = [xRing EXCEPT ![CommandRing] = IssueTrb(@,
                           IF reset THEN "RESET_ENDPOINT" ELSE "COMMAND", tag)]
          /\ Step(c, IF reset THEN "resetBell" ELSE "cmdBell")
    /\ UNCHANGED <<xEvent, xHc, xThread, xLock, xPanic>>

RingCommandDoorbell(c) ==
    /\ Running
    /\ xClient[c].pc \in {"cmdBell", "resetBell"}
    /\ xHc' = [xHc EXCEPT !.bells = @ \cup {CommandRing}]
    /\ Step(c, IF xClient[c].pc = "cmdBell" THEN "cmdWait" ELSE "resetWait")
    /\ UNCHANGED <<xRing, xCrb, xEvent, xThread, xLock, xPanic>>

\* crb.wait, the response, and dispose_ref with its reuse delay.
FinishCommand(c) ==
    LET b == xClient[c].crb IN
    /\ Running
    /\ xClient[c].pc \in {"cmdWait", "resetWait"}
    /\ xCrb[b].signal > 0
    /\ xCrb' = [xCrb EXCEPT ![b].signal = @ - 1, ![b].state = "Available",
                            ![b].delayed = TRUE]
    /\ IF xClient[c].pc = "cmdWait"
       THEN /\ xClient' = [xClient EXCEPT ![c].pc = "idle", ![c].n = @ + 1, ![c].crb = 0,
                                          ![c].got = xCrb[b].response]
            /\ UNCHANGED xRing
       ELSE /\ xClient' = [xClient EXCEPT ![c].pc = "idle", ![c].n = @ + 1, ![c].crb = 0]
            /\ xRing' = [xRing EXCEPT ![Request(c).ring].scope = @ + 1]
    /\ UNCHANGED <<xEvent, xHc, xThread, xLock, xPanic>>

\* The reuse delay of a request block ends (Timer::is_alive).
ReuseDelayEnds(b) ==
    /\ Running /\ xCrb[b].delayed
    /\ xCrb' = [xCrb EXCEPT ![b].delayed = FALSE]
    /\ UNCHANGED <<xRing, xEvent, xHc, xThread, xLock, xClient, xPanic>>

-----------------------------------------------------------------------------
(* Transfers: control_async and transfer_async *)

TrbsOf(req) ==
    CASE req.kind = "normal"  -> <<"NORMAL">>
      [] req.kind = "control" -> IF req.data THEN <<"SETUP", "DATA", "STATUS">>
                                             ELSE <<"SETUP", "STATUS">>

Scheduled(c) ==
    xClient' = [xClient EXCEPT ![c].pc = "issue", ![c].todo = TrbsOf(Request(c))]

\* scoped(): the permit of the endpoint is free.  set_scheduled follows.
Scope(c) ==
    /\ Running /\ xLock = Nobody
    /\ xClient[c].pc = "idle" /\ HasRequest(c) /\ Request(c).kind # "command"
    /\ LET r == Request(c).ring
       IN /\ xRing[r].scope > 0
          /\ xRing' = [xRing EXCEPT ![r].scope = @ - 1, ![r].state = "Scheduled"]
    /\ Scheduled(c)
    /\ UNCHANGED <<xCrb, xEvent, xHc, xThread, xLock, xPanic>>

\* scoped(): another transfer holds the permit.  The guard of
\* ring_context.write() lives to the end of the block that awaits.
ScopeWait(c) ==
    /\ Running /\ xLock = Nobody
    /\ xClient[c].pc = "idle" /\ HasRequest(c) /\ Request(c).kind # "command"
    /\ xRing[Request(c).ring].scope = 0
    /\ xLock' = c
    /\ Step(c, "scopeWait")
    /\ UNCHANGED <<xRing, xCrb, xEvent, xHc, xThread, xPanic>>

\* The permit arrives: the block ends, its guard is dropped, set_scheduled.
ScopeGranted(c) ==
    /\ Running
    /\ xClient[c].pc = "scopeWait"
    /\ LET r == Request(c).ring
       IN /\ xRing[r].scope > 0
          /\ xRing' = [xRing EXCEPT ![r].scope = @ - 1, ![r].state = "Scheduled"]
    /\ xLock' = Nobody
    /\ Scheduled(c)
    /\ UNCHANGED <<xCrb, xEvent, xHc, xThread, xPanic>>

\* One TRB of the transfer, under the lock.
IssueStage(c) ==
    /\ Running /\ xLock = Nobody
    /\ xClient[c].pc = "issue"
    /\ xRing' = [xRing EXCEPT ![Request(c).ring] = IssueTrb(@, Head(xClient[c].todo), TagOf(c))]
    /\ xClient' = [xClient EXCEPT ![c].todo = Tail(@),
                                  ![c].pc = IF Len(xClient[c].todo) = 1 THEN "bell" ELSE @]
    /\ UNCHANGED <<xCrb, xEvent, xHc, xThread, xLock, xPanic>>

\* ring_a_doorbell_async and, later, ring_a_doorbell by the scheduling task.
RingDoorbell(c) ==
    /\ Running
    /\ xClient[c].pc = "bell"
    /\ xHc' = [xHc EXCEPT !.bells = @ \cup {Request(c).ring}]
    /\ Step(c, "wait")
    /\ UNCHANGED <<xRing, xCrb, xEvent, xThread, xLock, xPanic>>

\* The signal arrives; the guard of the scope is dropped, except on a STALL
\* of a control transfer, which resets the endpoint first.
FinishTransfer(c) ==
    LET r == Request(c).ring IN
    /\ Running
    /\ xClient[c].pc = "wait"
    /\ xRing[r].signal > 0
    /\ IF xRing[r].state # "Completed"
       THEN /\ xPanic' = "unreachable"
            /\ UNCHANGED <<xRing, xClient>>
       ELSE /\ IF xRing[r].code = "STALL" /\ Request(c).kind = "control"
               THEN /\ xRing' = [xRing EXCEPT ![r].signal = @ - 1]
                    /\ xClient' = [xClient EXCEPT ![c].pc = "reset", ![c].got = xRing[r].response]
               ELSE /\ xRing' = [xRing EXCEPT ![r].signal = @ - 1, ![r].scope = @ + 1]
                    /\ xClient' = [xClient EXCEPT ![c].pc = "idle", ![c].n = @ + 1,
                                                  ![c].got = xRing[r].response]
            /\ UNCHANGED xPanic
    /\ UNCHANGED <<xCrb, xEvent, xHc, xThread, xLock>>

-----------------------------------------------------------------------------
(* The controller (external) *)

Consumable(r) == xRing[r].trb[xHc.deq[r]].cycle = xHc.ccs[r]
Reports(type) == type \in {"NORMAL", "STATUS", "COMMAND", "RESET_ENDPOINT"}
NextEnq == (xHc.enq + 1) % EventRingSize

PostedEvent(r, code) ==
    [kind |-> IF r = CommandRing THEN "command" ELSE "transfer", cycle |-> xHc.pcs,
     ring |-> r, ptr |-> xHc.deq[r], code |-> code, tag |-> xRing[r].trb[xHc.deq[r]].tag]

Enqueued == IF NextEnq = 0 THEN 1 - xHc.pcs ELSE xHc.pcs

\* A ring whose doorbell rang is followed while its entries carry the
\* consumer's cycle bit; a TRB that reports posts an event and an MSI.
HcConsume(r) ==
    LET trb == xRing[r].trb[xHc.deq[r]] IN
    /\ Running
    /\ r \in xHc.bells \ xHc.halted
    /\ Consumable(r)
    /\ IF trb.type = "LINK"
       THEN /\ xHc' = [xHc EXCEPT !.deq[r] = 0, !.ccs[r] = 1 - @]
            /\ UNCHANGED <<xEvent, xThread>>
       ELSE IF Reports(trb.type)
       THEN /\ NextEnq # xEvent.erdp
            /\ xEvent' = [xEvent EXCEPT !.slot[xHc.enq] = PostedEvent(r, "SUCCESS")]
            /\ xHc' = [xHc EXCEPT !.deq[r] = @ + 1, !.enq = NextEnq, !.pcs = Enqueued,
                          !.halted = IF trb.type = "RESET_ENDPOINT" THEN @ \ {trb.tag[3]} ELSE @]
            /\ xThread' = [xThread EXCEPT !.msi = TRUE]
       ELSE /\ xHc' = [xHc EXCEPT !.deq[r] = @ + 1]
            /\ UNCHANGED <<xEvent, xThread>>
    /\ UNCHANGED <<xRing, xCrb, xLock, xClient, xPanic>>

\* A transfer fails: the endpoint halts at the failing TRB.
HcFail(r, code) ==
    /\ Running
    /\ r \in (xHc.bells \ xHc.halted) \ {CommandRing}
    /\ Consumable(r)
    /\ xRing[r].trb[xHc.deq[r]].type \in {"SETUP", "DATA"}
    /\ NextEnq # xEvent.erdp
    /\ xEvent' = [xEvent EXCEPT !.slot[xHc.enq] = PostedEvent(r, code)]
    /\ xHc' = [xHc EXCEPT !.enq = NextEnq, !.pcs = Enqueued, !.halted = @ \cup {r}]
    /\ xThread' = [xThread EXCEPT !.msi = TRUE]
    /\ UNCHANGED <<xRing, xCrb, xLock, xClient, xPanic>>

\* The end of what was issued: the controller waits for the next doorbell.
HcStop(r) ==
    /\ Running
    /\ r \in xHc.bells \ xHc.halted
    /\ ~Consumable(r)
    /\ xHc' = [xHc EXCEPT !.bells = @ \ {r}]
    /\ UNCHANGED <<xRing, xCrb, xEvent, xThread, xLock, xClient, xPanic>>

-----------------------------------------------------------------------------
(* The interrupt and the event thread *)

\* _msi_handler
MsiHandler ==
    /\ Running /\ xThread.msi
    /\ xThread' = [xThread EXCEPT !.msi = FALSE, !.sem = @ + 1]
    /\ UNCHANGED <<xRing, xCrb, xEvent, xHc, xLock, xClient, xPanic>>

EventThreadWakes ==
    /\ Running /\ xThread.pc = "wait" /\ xThread.sem > 0
    /\ xThread' = [xThread EXCEPT !.pc = "dequeue", !.sem = @ - 1]
    /\ UNCHANGED <<xRing, xCrb, xEvent, xHc, xLock, xClient, xPanic>>

\* dequeue_event: ERDP moves on before the entry is looked at.
DequeueEvent ==
    LET next == (xEvent.erdp + 1) % EventRingSize IN
    /\ Running /\ xThread.pc = "dequeue"
    /\ IF xEvent.slot[xEvent.erdp].cycle = xEvent.cycle
       THEN /\ xEvent' = [xEvent EXCEPT !.erdp = next,
                              !.cycle = IF next = 0 THEN 1 - @ ELSE @]
            /\ xThread' = [xThread EXCEPT !.pc = "handle", !.at = xEvent.erdp]
       ELSE /\ xThread' = [xThread EXCEPT !.pc = "wait"]
            /\ UNCHANGED xEvent
    /\ UNCHANGED <<xRing, xCrb, xHc, xLock, xClient, xPanic>>

Event == xEvent.slot[xThread.at]

\* find_crb with the state Scheduled
FindCrb(at) == {b \in 1..CrbCount : xCrb[b].state = "Scheduled" /\ xCrb[b].at = at}

\* A command completion: the block's response and its semaphore, or todo!().
HandleCommand ==
    /\ Running /\ xThread.pc = "handle" /\ Event.kind = "command"
    /\ IF FindCrb(Event.ptr) = {}
       THEN xPanic' = "todo command" /\ UNCHANGED <<xCrb, xThread>>
       ELSE \E b \in FindCrb(Event.ptr) :
              /\ \A a \in FindCrb(Event.ptr) : b <= a
              /\ xCrb' = [xCrb EXCEPT ![b].response = Event.tag, ![b].state = "Completed",
                                      ![b].signal = @ + 1]
              /\ xThread' = [xThread EXCEPT !.pc = "dequeue"]
              /\ UNCHANGED xPanic
    /\ UNCHANGED <<xRing, xEvent, xHc, xLock, xClient>>

\* The entry after position i, following a link.
NextTrb(trb, i) == IF trb[i + 1].type = "LINK" THEN 0 ELSE i + 1

\* Where the stages of a failed control transfer are, {} where the code has
\* todo!().  The third stage is looked for with the wrong link: when it is
\* in the next lap, what is read is the data buffer and not a TRB.
FailedStages(trb, i) ==
    LET next == NextTrb(trb, i)
        last == next + 1
    IN CASE trb[i].type = "DATA" /\ trb[next].type = "STATUS" -> {i, next}
         [] trb[i].type = "SETUP" /\ trb[next].type = "STATUS" -> {i, next}
         [] trb[i].type = "SETUP" /\ trb[next].type = "DATA"
              /\ trb[last].type = "STATUS" -> {i, next, last}
         [] OTHER -> {}

\* The failed stages become no-ops that keep their cycle bits.
Patch(trb, i) ==
    [k \in DOMAIN trb |-> IF k \in FailedStages(trb, i) THEN TrbNop(trb[k]) ELSE trb[k]]

\* The client has not written all stages of its transfer.
Writing(c, r) == xClient[c].pc = "issue" /\ Request(c).ring = r

\* A transfer event on a stage other than the last: the rest is patched.
HandleFailure ==
    LET trb == xRing[Event.ring].trb IN
    /\ Running /\ xThread.pc = "handle" /\ Event.kind = "transfer"
    /\ trb[Event.ptr].type \notin {"NORMAL", "STATUS"}
    /\ IF FailedStages(trb, Event.ptr) = {}
       THEN xPanic' = "todo stages" /\ UNCHANGED <<xRing, xThread>>
       ELSE /\ xRing' = [xRing EXCEPT ![Event.ring].trb = Patch(@, Event.ptr)]
            /\ xThread' = [xThread EXCEPT !.pc = "respond",
                   !.torn = IF \E c \in XClients : Writing(c, Event.ring)
                            THEN @ \cup {Event.ring} ELSE @]
            /\ UNCHANGED xPanic
    /\ UNCHANGED <<xCrb, xEvent, xHc, xLock, xClient>>

\* ep_ring_index and set_response: both take the lock of ring_context.
HandleTransfer ==
    LET r == Event.ring IN
    /\ Running /\ xLock = Nobody
    /\ \/ xThread.pc = "respond"
       \/ /\ xThread.pc = "handle" /\ Event.kind = "transfer"
          /\ xRing[r].trb[Event.ptr].type \in {"NORMAL", "STATUS"}
    /\ xRing' = IF xRing[r].state = "Scheduled"
                THEN [xRing EXCEPT ![r].state = "Completed", ![r].response = Event.tag,
                                   ![r].code = Event.code, ![r].signal = @ + 1]
                ELSE xRing
    /\ xThread' = [xThread EXCEPT !.pc = "dequeue"]
    /\ UNCHANGED <<xCrb, xEvent, xHc, xLock, xClient, xPanic>>

-----------------------------------------------------------------------------
XClientStep(c) ==
    \/ AllocateCrb(c) \/ NoCrb(c) \/ IssueCommand(c) \/ RingCommandDoorbell(c)
    \/ FinishCommand(c) \/ Scope(c) \/ ScopeWait(c) \/ ScopeGranted(c)
    \/ IssueStage(c) \/ RingDoorbell(c) \/ FinishTransfer(c)

EventThread ==
    \/ EventThreadWakes \/ DequeueEvent
    \/ HandleCommand \/ HandleFailure \/ HandleTransfer

XNext ==
    \/ \E c \in XClients : XClientStep(c)
    \/ \E b \in 1..CrbCount : ReuseDelayEnds(b)
    \/ \E r \in Rings : HcConsume(r) \/ HcStop(r)
    \/ \E r \in Rings, code \in {"STALL", "TRANSACTION"} : HcFail(r, code)
    \/ MsiHandler
    \/ EventThread

XSpec == XInit /\ [][XNext]_xVars

-----------------------------------------------------------------------------
(* Properties *)

XTypeOK ==
    /\ \A r \in Rings :
         /\ xRing[r].index \in 0..MaxTrIndex /\ xRing[r].pcs \in {0, 1}
         /\ xRing[r].scope \in {0, 1} /\ xRing[r].signal \in Nat
    /\ \A b \in 1..CrbCount :
         xCrb[b].state \in {"Available", "Acquired", "Scheduled", "Completed"}
    /\ xEvent.erdp \in 0..EventRingSize - 1 /\ xEvent.cycle \in {0, 1}
    /\ xThread.pc \in {"wait", "dequeue", "handle", "respond"}
    /\ xLock \in XClients \cup {Nobody}

\* Positions from i up to the producer's index, through the link.
Outstanding(ring, i) ==
    IF i <= ring.index THEN i..ring.index - 1
    ELSE (i..MaxTrIndex) \cup (0..ring.index - 1)

\* The producer and the controller agree on the ring: exactly the entries
\* from the controller's position to the producer's index carry the cycle bit
\* the controller will expect there, so it executes every TRB issued, once
\* and in order, and stops at the first entry not issued (issue_trb).  It is
\* not claimed of an endpoint that is torn, where stages of transfers that
\* were answered are left to read and a client does not wait for them.
RingInStep ==
    \A r \in Rings \ xThread.torn :
      LET ring == xRing[r]
          deq  == xHc.deq[r]
      IN /\ \A i \in Outstanding(ring, deq) :
              ring.trb[i].cycle = IF i >= deq THEN xHc.ccs[r] ELSE 1 - xHc.ccs[r]
         /\ ring.trb[ring.index].cycle # ring.pcs
         /\ ring.index >= deq => ring.pcs = xHc.ccs[r]

\* What a request returns is the completion of that request and of no other:
\* commands are matched by the address of their TRB, transfers by endpoint.
\* The exception is an endpoint that is torn: what a client wrote there after
\* its transfer had been answered may answer the next one.
AnswersMatch ==
    \A c \in XClients : xClient[c].got # NoTag =>
        LET n == IF xClient[c].pc \in {"reset", "resetIssue", "resetBell", "resetWait"}
                 THEN xClient[c].n ELSE xClient[c].n - 1
            request == xClient[c].plan[n + 1]
        IN \/ xClient[c].got = <<c, n>>
           \/ request.kind # "command" /\ request.ring \in xThread.torn

\* A client that keeps the lock of ring_context across its await waits for
\* the permit of an endpoint another client has in use: while each endpoint
\* has one user, the event thread is never locked out.
LockedOutOnlyWhenShared ==
    xLock # Nobody =>
        LET r == Request(xLock).ring
        IN \/ xRing[r].scope = 1
           \/ \E c \in XClients \ {xLock} :
                /\ xClient[c].pc # "idle" /\ Request(c).kind # "command"
                /\ Request(c).ring = r

\* The driver stops in todo!() in three situations only: a command whose
\* request block holds the address of the link, a control transfer that fails
\* with its last stage in the next lap, and one that fails before its last
\* stage is written, the controller still following the ring from the doorbell
\* of the transfer before.  unreachable!() is never reached.
StopsOnlyAtWrap ==
    /\ xPanic # "unreachable"
    /\ xPanic = "todo command" => Event.ptr = 0
    /\ xPanic = "todo stages" =>
         \/ Event.ptr = MaxTrIndex - 2 /\ xRing[Event.ring].trb[MaxTrIndex].type = "LINK"
         \/ \E c \in XClients : Writing(c, Event.ring)
         \/ Event.ring \in xThread.torn

\* No client waits for a completion, unless the driver stopped, an endpoint is
\* halted by an error that is not a STALL, or the lock of ring_context is kept
\* by another (control_async, execute_command).
RequestsAnswered ==
    \/ \A c \in XClients : xClient[c].pc \notin {"cmdWait", "wait"}
    \/ xPanic # "none" \/ xHc.halted # {} \/ xLock # Nobody

\* All that the rings, the request blocks and the event thread keep: their
\* types, RingInStep, AnswersMatch, LockedOutOnlyWhenShared, StopsOnlyAtWrap.
XhciInv ==
    XTypeOK /\ RingInStep /\ AnswersMatch /\ LockedOutOnlyWhenShared /\ StopsOnlyAtWrap
=============================================================================
