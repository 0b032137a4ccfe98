----------------------------- MODULE FifoQueue -----------------------------
(***************************************************************************)
(* What `ConcurrentFifo<T>` promises its users: a bounded first-in         *)
(* first-out queue whose `enqueue` and `dequeue` take effect atomically.   *)
(*                                                                         *)
(* `taken[t]` is the element that thread t's `dequeue` removed and has yet *)
(* to hand to its caller.  Calls that fail (`Err(data)`, `None`) change    *)
(* nothing, so they are stuttering steps here; when they may fail is the   *)
(* subject of properties of module ConcurrentFifo.                         *)
(***************************************************************************)
EXTENDS Sequences, Naturals

CONSTANTS Thread, Value, NoValue, Limit

VARIABLES queue, taken

TypeOK == /\ queue \in Seq(Value)
          /\ taken \in [Thread -> Value \cup {NoValue}]

Init == /\ queue = << >>
        /\ taken = [t \in Thread |-> NoValue]

\* A successful enqueue: there is room and the element goes last.
Put(v) == /\ Len(queue) < Limit
          /\ queue' = Append(queue, v)
          /\ UNCHANGED taken

\* A successful dequeue removes the oldest element for exactly one thread.
Take(t) == /\ queue # << >>
           /\ taken[t] = NoValue
           /\ taken' = [taken EXCEPT ![t] = Head(queue)]
           /\ queue' = Tail(queue)

\* The dequeue returns the element it removed.
Deliver(t) == /\ taken[t] # NoValue
              /\ taken' = [taken EXCEPT ![t] = NoValue]
              /\ UNCHANGED queue

Next == \/ \E v \in Value : Put(v)
        \/ \E t \in Thread : Take(t) \/ Deliver(t)

Spec == Init /\ [][Next]_<<queue, taken>>
=============================================================================
