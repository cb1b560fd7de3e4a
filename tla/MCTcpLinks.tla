---- MODULE MCTcpLinks ----
(***************************************************************************)
(* Instances of TcpLinks for TLC: two of the remote addresses differ in    *)
(* the port only.                                                          *)
(***************************************************************************)
EXTENDS TcpLinks

TwoHosts == {<<1, 1>>, <<1, 2>>}
====
