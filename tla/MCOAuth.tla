------------------------------ MODULE MCOAuth ------------------------------
(* Instances of OAuth for TLC.                                              *)
EXTENDS OAuth, TLC

SlotSymmetry == Permutations(Slots)
=============================================================================
