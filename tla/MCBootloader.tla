---- MODULE MCBootloader ----
(***************************************************************************)
(* Instances of Bootloader for TLC.                                        *)
(***************************************************************************)
EXTENDS Bootloader, TLC

ImageSymmetry == Permutations(Images)
====
