---------------------------- MODULE MCHeapBlocks ----------------------------
(***************************************************************************)
(* Instances of HeapBlocks for TLC.  With a header of 2 the requests below *)
(* give blocks of 2, 4, 6 and 8: an empty block, exact fits, splits, and a *)
(* request that only a whole heap can answer.                              *)
(***************************************************************************)
EXTENDS HeapBlocks

MCRequests == {0, 1, 3, 6, 7}
=============================================================================
