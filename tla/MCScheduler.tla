---------------------------- MODULE MCScheduler ----------------------------
(* Instances of Scheduler for TLC. *)
EXTENDS Scheduler, TLC

CONSTANTS c1, c2, t1, t2, t3

AllNormal == [t \in Thread |-> "Normal"]
OneTick == [t \in Thread |-> 1]
Mixed == [t \in Thread |-> IF t = t2 THEN "Realtime" ELSE IF t = t3 THEN "Low" ELSE "Normal"]
Ticks == [t \in Thread |-> IF t = t1 THEN 2 ELSE 1]
SamePackage == [c \in CPU |-> "Normal"]
Smt == [c \in CPU |-> IF c = c1 THEN "Normal" ELSE "Sub"]

Symmetry == Permutations(CPU)
=============================================================================
