--------------------------- MODULE ConcurrentFifo ---------------------------
(***************************************************************************)
(* The lock-free ring buffer `ConcurrentFifo<T>` of                        *)
(* system/src/sync/fifo.rs, one action per atomic access of shared memory. *)
(*                                                                         *)
(* head and tail count positions for ever; position p lives in slot        *)
(* p & mask, that is p % OneLap.  A slot's stamp is p while the slot waits *)
(* for position p to be enqueued and p + 1 while it holds position p.      *)
(* head, tail and the stamps are natural numbers: 2^64 operations are out  *)
(* of reach.                                                               *)
(***************************************************************************)
EXTENDS Naturals, Sequences

CONSTANTS
    Thread,     \* the callers: threads or interrupt handlers of any CPU
    Value,      \* the payload type T
    NoValue,    \* a slot never written, a call that carries no value
    OneLap,     \* `one_lap`, the number of slots
    MaxCalls    \* bound: how many calls of enqueue and dequeue are made

(* with_capacity(capacity): the number of slots for a requested capacity.  *)
with_capacity(capacity) ==
    CHOOSE c \in {2 ^ k : k \in 0 .. capacity + 1} :
        /\ c >= capacity + 1
        /\ \A k \in 0 .. capacity + 1 : 2 ^ k >= capacity + 1 => c <= 2 ^ k

ASSUME FifoAssumption == /\ NoValue \notin Value
                         /\ OneLap \in Nat \ {0}
                         /\ OneLap = with_capacity(OneLap - 1)
                         /\ MaxCalls \in Nat

VARIABLES
    head, tail, \* `head`, `tail`
    stamp,      \* stamp[i] is `data[i].stamp`
    value,      \* value[i] is `data[i].value`
    pc,         \* where each thread is in _enqueue or _dequeue
    pos,        \* the local `tail` of _enqueue, the local `head` of _dequeue
    data,       \* the local `data` of either call
    calls       \* calls made so far

vars == <<head, tail, stamp, value, pc, pos, data, calls>>

Slots == 0 .. OneLap - 1

\* `p & self.mask`: OneLap is a power of two.
Index(p) == p % OneLap

EnqPC == {"e_tail", "e_head", "e_stamp", "e_cas", "e_value", "e_publish"}
DeqPC == {"d_head", "d_tail", "d_stamp", "d_cas", "d_read", "d_release"}

TypeOK == /\ head \in Nat /\ tail \in Nat
          /\ stamp \in [Slots -> Nat]
          /\ value \in [Slots -> Value \cup {NoValue}]
          /\ pc \in [Thread -> EnqPC \cup DeqPC \cup {"idle"}]
          /\ pos \in [Thread -> Nat]
          /\ data \in [Thread -> Value \cup {NoValue}]
          /\ calls \in 0 .. MaxCalls

-----------------------------------------------------------------------------
Init == /\ head = 0 /\ tail = 0
        /\ stamp = [i \in Slots |-> i]
        /\ value = [i \in Slots |-> NoValue]
        /\ pc = [t \in Thread |-> "idle"]
        /\ pos = [t \in Thread |-> 0]
        /\ data = [t \in Thread |-> NoValue]
        /\ calls = 0

Goto(t, from, to) == pc[t] = from /\ pc' = [pc EXCEPT ![t] = to]

\* A call returns; the locals die with its frame.
Return(t, from) == /\ Goto(t, from, "idle")
                   /\ pos' = [pos EXCEPT ![t] = 0]
                   /\ data' = [data EXCEPT ![t] = NoValue]

-----------------------------------------------------------------------------
(* _enqueue                                                                *)

CallEnqueue(t, v) ==
    /\ calls < MaxCalls
    /\ Goto(t, "idle", "e_tail")
    /\ data' = [data EXCEPT ![t] = v]
    /\ calls' = calls + 1
    /\ UNCHANGED <<head, tail, stamp, value, pos>>

EnqLoadTail(t) ==
    /\ Goto(t, "e_tail", "e_head")
    /\ pos' = [pos EXCEPT ![t] = tail]
    /\ UNCHANGED <<head, tail, stamp, value, data, calls>>

\* `(tail + 1) & mask == head & mask` with the head of this instant.
LooksFull(t) == Index(pos[t] + 1) = Index(head)

EnqReturnErr(t) ==
    /\ LooksFull(t)
    /\ Return(t, "e_head")
    /\ UNCHANGED <<head, tail, stamp, value, calls>>

EnqNotFull(t) ==
    /\ ~LooksFull(t)
    /\ Goto(t, "e_head", "e_stamp")
    /\ UNCHANGED <<head, tail, stamp, value, pos, data, calls>>

\* Mutant: the stamp is not looked at.
EnqLoadStampIgnored(t) ==
    /\ Goto(t, "e_stamp", "e_cas")
    /\ UNCHANGED <<head, tail, stamp, value, pos, data, calls>>

\* The slot is claimed only when its stamp says that it awaits this position.
EnqLoadStamp(t) ==
    /\ Goto(t, "e_stamp",
            IF stamp[Index(pos[t])] = pos[t] THEN "e_cas" ELSE "e_tail")
    /\ UNCHANGED <<head, tail, stamp, value, pos, data, calls>>

\* Mutant: a store instead of a compare-exchange.
EnqStoreTail(t) ==
    /\ Goto(t, "e_cas", "e_value")
    /\ tail' = pos[t] + 1
    /\ UNCHANGED <<head, stamp, value, pos, data, calls>>

EnqCas(t) ==
    \/ /\ tail = pos[t]
       /\ Goto(t, "e_cas", "e_value")
       /\ tail' = pos[t] + 1
       /\ UNCHANGED <<head, stamp, value, pos, data, calls>>
    \/ /\ tail # pos[t]
       /\ Goto(t, "e_cas", "e_tail")
       /\ UNCHANGED <<head, tail, stamp, value, pos, data, calls>>

EnqWriteValue(t) ==
    /\ Goto(t, "e_value", "e_publish")
    /\ value' = [value EXCEPT ![Index(pos[t])] = data[t]]
    /\ UNCHANGED <<head, tail, stamp, pos, data, calls>>

EnqWriteStamp(t) ==
    /\ Return(t, "e_publish")
    /\ stamp' = [stamp EXCEPT ![Index(pos[t])] = pos[t] + 1]
    /\ UNCHANGED <<head, tail, value, calls>>

-----------------------------------------------------------------------------
(* _dequeue                                                                *)

CallDequeue(t) ==
    /\ calls < MaxCalls
    /\ Goto(t, "idle", "d_head")
    /\ calls' = calls + 1
    /\ UNCHANGED <<head, tail, stamp, value, pos, data>>

DeqLoadHead(t) ==
    /\ Goto(t, "d_head", "d_tail")
    /\ pos' = [pos EXCEPT ![t] = head]
    /\ UNCHANGED <<head, tail, stamp, value, data, calls>>

\* Mutant: the last element counts as none.
LooksEmptyOffByOne(t) == Index(pos[t] + 1) = Index(tail)

\* `index == tail & mask` with the tail of this instant.
LooksEmpty(t) == Index(pos[t]) = Index(tail)

DeqReturnNone(t) ==
    /\ LooksEmpty(t)
    /\ Return(t, "d_tail")
    /\ UNCHANGED <<head, tail, stamp, value, calls>>

DeqNotEmpty(t) ==
    /\ ~LooksEmpty(t)
    /\ Goto(t, "d_tail", "d_stamp")
    /\ UNCHANGED <<head, tail, stamp, value, pos, data, calls>>

DeqLoadStamp(t) ==
    /\ Goto(t, "d_stamp",
            IF stamp[Index(pos[t])] = pos[t] + 1 THEN "d_cas" ELSE "d_head")
    /\ UNCHANGED <<head, tail, stamp, value, pos, data, calls>>

DeqCas(t) ==
    \/ /\ head = pos[t]
       /\ Goto(t, "d_cas", "d_read")
       /\ head' = pos[t] + 1
       /\ UNCHANGED <<tail, stamp, value, pos, data, calls>>
    \/ /\ head # pos[t]
       /\ Goto(t, "d_cas", "d_head")
       /\ UNCHANGED <<head, tail, stamp, value, pos, data, calls>>

DeqRead(t) ==
    /\ Goto(t, "d_read", "d_release")
    /\ data' = [data EXCEPT ![t] = value[Index(pos[t])]]
    /\ UNCHANGED <<head, tail, stamp, value, pos, calls>>

\* Mutants: the slot is not released for the next lap, or for the last one.
DeqWriteStampNoLap(t) ==
    /\ Return(t, "d_release")
    /\ stamp' = [stamp EXCEPT ![Index(pos[t])] = pos[t] + 1]
    /\ UNCHANGED <<head, tail, value, calls>>

DeqWriteStampBackwards(t) ==
    /\ Return(t, "d_release")
    /\ stamp' = [stamp EXCEPT ![Index(pos[t])] = pos[t] - OneLap]
    /\ UNCHANGED <<head, tail, value, calls>>

DeqWriteStamp(t) ==
    /\ Return(t, "d_release")
    /\ stamp' = [stamp EXCEPT ![Index(pos[t])] = pos[t] + OneLap]
    /\ UNCHANGED <<head, tail, value, calls>>

-----------------------------------------------------------------------------
\* The steps a call takes once it has begun.
EnqStep(t) == \/ EnqLoadTail(t) \/ EnqReturnErr(t) \/ EnqNotFull(t)
              \/ EnqLoadStamp(t) \/ EnqCas(t)
              \/ EnqWriteValue(t) \/ EnqWriteStamp(t)

DeqStep(t) == \/ DeqLoadHead(t) \/ DeqReturnNone(t) \/ DeqNotEmpty(t)
              \/ DeqLoadStamp(t) \/ DeqCas(t)
              \/ DeqRead(t) \/ DeqWriteStamp(t)

Step(t) == EnqStep(t) \/ DeqStep(t)

Next == \E t \in Thread : \/ \E v \in Value : CallEnqueue(t, v)
                          \/ CallDequeue(t)
                          \/ Step(t)

Spec == Init /\ [][Next]_vars

\* Both calls run with interrupts disabled (`without_interrupts!`), so the
\* CPU that runs one keeps executing it.
FairSpec == Spec /\ \A t \in Thread : WF_vars(Step(t))

-----------------------------------------------------------------------------
(* Refinement mapping: the positions head .. tail - 1 are the queue.  The  *)
(* element of a position that is claimed but not yet published is still    *)
(* the argument of the enqueuer that claimed it.                           *)

Claims(t, p) == pc[t] \in {"e_value", "e_publish"} /\ pos[t] = p

ElementAt(p) == IF \E t \in Thread : Claims(t, p)
                THEN data[CHOOSE t \in Thread : Claims(t, p)]
                ELSE value[Index(p)]

queueBar == [n \in 1 .. tail - head |-> ElementAt(head + n - 1)]

takenBar == [t \in Thread |-> CASE pc[t] = "d_read" -> value[Index(pos[t])]
                                [] pc[t] = "d_release" -> data[t]
                                [] OTHER -> NoValue]

Abstract == INSTANCE FifoQueue WITH Limit <- OneLap - 1,
                                    queue <- queueBar, taken <- takenBar

-----------------------------------------------------------------------------
(* The ring buffer implements the abstract queue: whatever the interleaving *)
(* of enqueuers and dequeuers, elements are neither lost, duplicated nor    *)
(* reordered, and a successful dequeue returns the element that was oldest  *)
(* when it advanced `head` (fifo.rs, `_enqueue` and `_dequeue`).            *)
ImplementsFifo == Abstract!Spec

InSlot(t) == pc[t] \in {"e_value", "e_publish", "d_read", "d_release"}

(* Between its compare-exchange and its stamp, a call owns its slot: no two *)
(* threads write, or write and read, the same `value` cell.  `Slot::write`  *)
(* takes &mut of a cell other threads reach, so this is what makes it sound.*)
SlotExclusive == \A t, u \in Thread :
    t # u /\ InSlot(t) /\ InSlot(u) => Index(pos[t]) # Index(pos[u])

(* A dequeue only hands out a cell that has been written: `transmute_copy`  *)
(* of the `MaybeUninit` cell never yields the zeroed initial contents.      *)
ReadsWritten == \A t \in Thread :
    pc[t] = "d_read" => value[Index(pos[t])] \in Value

(* One slot always stays free, so head = tail means empty and never full.   *)
OneSlotFree == head <= tail /\ tail - head <= OneLap - 1

(* The cells of the ring are used as their stamps promise, by one thread at *)
(* a time and only once they have been written (fifo.rs, `Slot`).           *)
SlotsInv == SlotExclusive /\ ReadsWritten /\ OneSlotFree

(* `Err` with no other enqueue in between means that the queue is full, and *)
(* `None` with no other dequeue in between means that it is empty: a failure*)
(* is spurious only under contention for the same end of the queue.         *)
UncontendedFailureIsReal == [][\A t \in Thread :
    /\ EnqReturnErr(t) /\ tail = pos[t] => tail - head = OneLap - 1
    /\ DeqReturnNone(t) /\ head = pos[t] => tail = head]_vars

(* Every call returns: the spinning of a caller that meets a slot in use    *)
(* ends, because the thread using the slot cannot be preempted.             *)
CallsReturn == \A t \in Thread : pc[t] # "idle" ~> pc[t] = "idle"
=============================================================================
