---- MODULE MCUpdateSystem ----
(***************************************************************************)
(* Instances of UpdateSystem for TLC.                                      *)
(***************************************************************************)
EXTENDS UpdateSystem, TLC

ImageSymmetry == Permutations(Images)
====
