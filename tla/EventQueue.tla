----------------------------- MODULE EventQueue -----------------------------
(***************************************************************************)
(* `EventQueue` and `AsyncEventQueue` of system/src/sync/fifo.rs: a        *)
(* ConcurrentFifo and a semaphore that is signalled after every enqueue.   *)
(* Every queue of the system has many who post and one who waits.          *)
(*                                                                         *)
(* The queue is the sequence that module FifoQueue makes of it: with one   *)
(* consumer None is only returned when it is empty.  The semaphore and the *)
(* thread or task that waits on it are those of module Semaphore, where    *)
(* "idle" now is the head of the loop of wait_event, or a poster between   *)
(* two posts.                                                              *)
(***************************************************************************)
EXTENDS Semaphore

CONSTANTS EvReader,     \* the thread that waits
          EvTask,       \* the task that waits
          EvLimit       \* what the queue has room for

\* What the constants must satisfy.
EvAssumption == SemAssumption /\ IsFiniteSet(Thread) /\ EvReader \in Thread /\ EvTask \in SemTask /\ EvLimit \in Nat

VARIABLES
    events,     \* `fifo` of the EventQueue
    posting,    \* threads that have enqueued and not signalled yet
    passed,     \* the reader has a permit and has not dequeued since
    aevents, aposting, apassed   \* the same of the AsyncEventQueue; a number

onlyEv == <<events, posting, passed>>
onlyAEv == <<aevents, aposting, apassed>>
evVars == <<semVars, onlyEv, onlyAEv>>

EvInit ==
    /\ SignalInit("idle") /\ value = 0 /\ signals = 0 /\ passes = 0 /\ raced = {}
    /\ avalue = 0 /\ asignals = 0 /\ apasses = 0 /\ owed = 0 /\ fifo = <<>>
    /\ apc = [k \in SemTask |-> "ready"]
    /\ events = <<>> /\ posting = {} /\ passed = FALSE /\ aevents = <<>> /\ aposting = 0 /\ apassed = FALSE

-----------------------------------------------------------------------------
(* EventQueue *)

\* post: the enqueue, which fails when there is no room, and then the signal.
PostEvent(t) ==
    /\ t # EvReader /\ pc[t] = "idle" /\ t \notin posting /\ signals + Cardinality(posting) < MaxSignals
    /\ IF Len(events) < EvLimit THEN events' = Append(events, t) /\ posting' = posting \cup {t}
       ELSE UNCHANGED <<events, posting>>
    /\ UNCHANGED <<passed, semVars, onlyAEv>>
PostSignal(t) ==
    /\ t \in posting /\ posting' = posting \ {t} /\ Signal(t) /\ UNCHANGED <<events, passed, onlyAEv>>
PostRest(t) == t # EvReader /\ (SignalTake(t) \/ SemRest(t)) /\ UNCHANGED <<onlyEv, onlyAEv>>

\* wait_event: an event, or a wait and another turn of the loop.  get_event
\* is the first disjunct.
GetEvent ==
    /\ pc[EvReader] = "idle" /\ events # <<>> /\ events' = Tail(events) /\ passed' = FALSE
    /\ UNCHANGED <<posting, semVars, onlyAEv>>
WaitEvent == events = <<>> /\ wait(EvReader) /\ passed' = FALSE /\ UNCHANGED <<events, posting, onlyAEv>>
ReaderTries ==
    TryPermit(EvReader) /\ passed' = (value >= 1) /\ UNCHANGED <<events, posting, onlyAEv>>
ReaderRest == SemRest(EvReader) /\ UNCHANGED <<onlyEv, onlyAEv>>
Reader == GetEvent \/ WaitEvent \/ ReaderTries \/ ReaderRest

-----------------------------------------------------------------------------
(* AsyncEventQueue *)

APostEvent ==
    /\ asignals + aposting < MaxSignals
    /\ IF Len(aevents) < EvLimit THEN aevents' = Append(aevents, EvTask) /\ aposting' = aposting + 1
       ELSE UNCHANGED <<aevents, aposting>>
    /\ UNCHANGED <<apassed, semVars, onlyEv>>
APostSignal == aposting > 0 /\ aposting' = aposting - 1 /\ ASignal /\ UNCHANGED <<aevents, apassed, onlyEv>>
AWake == WakeFirst /\ UNCHANGED <<onlyEv, onlyAEv>>

\* The future of wait_event: dequeue, and if there is nothing a new future of
\* wait, which is polled at once.
AGetEvent ==
    /\ apc[EvTask] = "ready" /\ apassed' = FALSE
    /\ IF aevents # <<>> THEN aevents' = Tail(aevents) /\ UNCHANGED semVars
       ELSE /\ apc' = [apc EXCEPT ![EvTask] = "poll"]
            /\ UNCHANGED <<aevents, avalue, asignals, apasses, owed, fifo, SyncVars>>
    /\ UNCHANGED <<aposting, onlyEv>>
APoll == Poll(EvTask) /\ apassed' = (avalue >= 1) /\ UNCHANGED <<aevents, aposting, onlyEv>>
AEnqueue == EnqueueWaker(EvTask) /\ UNCHANGED <<onlyEv, onlyAEv>>
AReader == AGetEvent \/ APoll \/ AEnqueue \/ AWake

EventsNext == Reader \/ \E t \in Thread : PostEvent(t) \/ PostSignal(t) \/ PostRest(t)
AsyncEventsNext == APostEvent \/ APostSignal \/ AReader
EvNext == EventsNext \/ AsyncEventsNext
EvSpec == EvInit /\ [][EvNext]_evVars

-----------------------------------------------------------------------------
(* Properties *)

One(b) == IF b THEN 1 ELSE 0

(* For every event in the queue there is a permit, a poster about to make   *)
(* one, or a reader that has taken one and is about to dequeue: so a reader *)
(* that waits for a permit does not wait next to an event.  The two counts  *)
(* are kept by different atomics, and events are dequeued without permits.  *)
EventsCovered ==
    /\ Len(events) <= value + Cardinality(posting) + One(passed)
    /\ Len(aevents) <= avalue + aposting + One(apassed)

(* A reader that sleeps, or a task that is pending, next to an event when   *)
(* nobody is posting is one that a signal has missed (signal.rs:71,         *)
(* semaphore.rs:177).                                                       *)
EventMissedOnlyByRace ==
    /\ events # <<>> /\ posting = {} /\ pc[EvReader] = "asleep" /\ slot = EvReader
           /\ (\A t \in Thread : pc[t] # "take") => EvReader \in raced
    /\ aevents # <<>> /\ aposting = 0 /\ owed = 0 => apc[EvTask] # "pending"

EventsInv == EventsCovered /\ EventMissedOnlyByRace /\ StrandedOnlyByRace

\* The reader has got everything, or a signal has missed it.
EventsServed == (events = <<>> \/ EvReader \in raced) /\ (aevents = <<>> \/ apc[EvTask] = "lost")
=============================================================================
