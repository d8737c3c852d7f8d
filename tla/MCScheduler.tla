----------------------------- MODULE MCScheduler -----------------------------
(***************************************************************************)
(* Instances of Scheduler for TLC.  Two tasks share the highest priority,  *)
(* one of them by clamping, so that its queue need never be empty.         *)
(***************************************************************************)
EXTENDS Scheduler

CONSTANTS a, b, c, d

(* Three priorities; a and d were given priorities out of range.           *)
MixedPriorities == [t \in Tasks |-> CASE t = a -> -1 [] t = b -> 0
                                      [] t = c -> 1  [] t = d -> 12]

(* One task at each of three priorities, as in the test.                   *)
OneEach == [t \in Tasks |-> CASE t = a -> 0 [] t = b -> 1 [] t = c -> 2]
=============================================================================
