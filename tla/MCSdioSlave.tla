---- MODULE MCSdioSlave ----
(***************************************************************************)
(* Instances of SdioSlave for TLC, with the buffers numbered.              *)
(***************************************************************************)
EXTENDS SdioSlave

\* One order of the free buffers stands for all: they are interchangeable.
MCInit == Init /\ sended = SetToSortSeq(Bufs, <)
MCSpec == MCInit /\ [][Next]_vars /\ Fairness
====
