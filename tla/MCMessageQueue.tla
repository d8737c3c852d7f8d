---------------------------- MODULE MCMessageQueue ----------------------------
(***************************************************************************)
(* Instances of MessageQueue for TLC.                                      *)
(***************************************************************************)
EXTENDS MessageQueue, TLC

Symmetry == Permutations(Servers) \cup Permutations(Clients)
=============================================================================
