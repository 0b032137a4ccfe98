---------------------------- MODULE MCFifoFull ----------------------------
(***************************************************************************)
(* ConcurrentFifo with a history variable that tells, for every enqueue in *)
(* progress, whether the queue was full at some instant since it began.    *)
(***************************************************************************)
EXTENDS ConcurrentFifo

VARIABLE wasFull

Full == tail - head = OneLap - 1

HInit == Init /\ wasFull = [t \in Thread |-> FALSE]

HNext == /\ Next
         /\ wasFull' = [t \in Thread |-> pc[t] \in EnqPC /\ (wasFull[t] \/ Full)]

HSpec == HInit /\ [][HNext]_<<vars, wasFull>>

(* An enqueue fails only if the queue was full at some instant of the call. *)
(* This is how its callers read `Err`: executor.rs:37 unwraps it with       *)
(* expect("task queue full"), and Scheduler::_enqueue panics on it.         *)
ErrOnlyWhenFull == [][\A t \in Thread :
    EnqReturnErr(t) => wasFull[t] \/ Full]_<<vars, wasFull>>
=============================================================================
