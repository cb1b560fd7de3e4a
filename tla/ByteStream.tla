---- MODULE ByteStream ----
(***************************************************************************)
(* What the SDIO driver (at_lobo/driver/sdio_slv.c) promises for the       *)
(* replies of the AT interpreter: of each reply a first part, possibly all *)
(* of it, is taken over, and the bytes taken over reach the host once      *)
(* each, in their order.  Bytes are numbered as they are taken over.       *)
(***************************************************************************)
EXTENDS Naturals, Sequences

CONSTANT MaxTake    \* the most bytes one step moves: what a buffer holds

VARIABLES
    pending,   \* bytes taken over that the host has not read
    got        \* how many bytes the host has read

vars == <<pending, got>>

Init == pending = <<>> /\ got = 0

\* The number of the byte taken over last.
Newest == got + Len(pending)

TakeOver(n) ==
    /\ pending' = pending \o [i \in 1 .. n |-> Newest + i]
    /\ UNCHANGED got

\* The host reads a block: the oldest n bytes.
Read(n) ==
    /\ n <= Len(pending)
    /\ \A i \in 1 .. n : pending[i] = got + i
    /\ got' = got + n
    /\ pending' = SubSeq(pending, n + 1, Len(pending))

Next ==
    \E n \in 1 .. MaxTake : TakeOver(n) \/ Read(n)

Spec == Init /\ [][Next]_vars
====
