---------------------------- MODULE MCHuntStore ----------------------------
(* Small instances of HuntStore for TLC.                                   *)
EXTENDS HuntStore, TLC

Symmetry == Permutations(Territories) \cup Permutations(RunIds)
=============================================================================
