----------------------------- MODULE MCListHeap -----------------------------
(***************************************************************************)
(* Instances of ListHeap for TLC.  With a header of 2 the requests below   *)
(* give blocks of 2, 4 and 8.                                              *)
(***************************************************************************)
EXTENDS ListHeap

MCRequests == {0, 2, 5}
=============================================================================
