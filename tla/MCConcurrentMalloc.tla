------------------------- MODULE MCConcurrentMalloc -------------------------
(***************************************************************************)
(* Instances of ConcurrentMalloc for TLC.  With a header of 2 the requests *)
(* give blocks of 2 and 6 in a heap of 6: a split, an exact fit, and one   *)
(* whose retry, which adds a second header, fails the size check.          *)
(***************************************************************************)
EXTENDS ConcurrentMalloc, TLC

MCRequests == {0, 3}
Symmetry   == Permutations(Threads)
=============================================================================
