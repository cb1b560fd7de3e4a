---- MODULE MCOtaClient ----
(***************************************************************************)
(* Instances of OtaClient for TLC.  A sector is 4 units and one receive    *)
(* callback carries up to 6, the ratio of a 4096-byte sector to a TCP      *)
(* window of four 1460-byte segments.                                      *)
(***************************************************************************)
EXTENDS OtaClient, TLC

ConnSymmetry == Permutations(Conns)
====
