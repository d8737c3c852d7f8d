---------------------------- MODULE MCTestMalloc ----------------------------
(***************************************************************************)
(* Iterations whose sizes fall with their number, as in the test.  Their   *)
(* blocks need 20 bytes: MCTestMalloc.cfg gives them a heap that has to be *)
(* extended, so that my_malloc calls itself with the mutex held.           *)
(***************************************************************************)
EXTENDS TestMalloc

MCSize     == [i \in Iterations |-> 2 * (4 - i)]
MCRequests == {MCSize[i] : i \in Iterations}
=============================================================================
