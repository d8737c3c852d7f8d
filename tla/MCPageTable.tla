------------------------------ MODULE MCPageTable ------------------------------
(***************************************************************************)
(* Instances of PageTable for TLC.  With pages of 4 and two entries per    *)
(* table there are 16 addresses.  Pages 0 and 4 share a table; 1 is inside *)
(* a page, and so is 9, which is no frame.                                 *)
(***************************************************************************)
EXTENDS PageTable, TLC

MCInputs == {0, 1, 4}
MCFrames == {8, 9}
MCRights == {<<"read", "user">>, <<"write", "kernel">>}
Symmetry == Permutations(Directories) \cup Permutations(Heap)
=============================================================================
