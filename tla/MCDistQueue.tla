---------------------------- MODULE MCDistQueue ----------------------------
(***************************************************************************)
(* Instances of DistQueue for TLC.                                         *)
(***************************************************************************)
EXTENDS DistQueue, TLC

PeerSymmetry == Permutations(Clients) \cup Permutations(Execs)
=============================================================================
