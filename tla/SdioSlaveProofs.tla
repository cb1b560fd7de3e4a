---- MODULE SdioSlaveProofs ----
(***************************************************************************)
(* Proofs about SdioSlave, for every number of buffers, buffer size,       *)
(* length of the replies and order of the free buffers: the lists keep     *)
(* their buffers, their tail pointers and the contents of the buffers, and *)
(* the driver implements ByteStream.                                       *)
(***************************************************************************)
EXTENDS SdioSlave, SequenceFacts

\* The buffer the main program fills.
Filling == IF pc = "copy" THEN {temp} ELSE {}

\* Every buffer is in one place, once.
Placed ==
    /\ NoRepeats(toSend) /\ NoRepeats(sended)
    /\ Range(toSend) \cap Range(sended) = {}
    /\ Filling \cap (Range(toSend) \cup Range(sended)) = {}
    /\ Range(toSend) \cup Range(sended) \cup Filling = Bufs

\* When the buffer being filled was the last free one, the tail pointer of the
\* free ones still names it: PutBack relies on it.
LastTaken == pc = "copy" /\ sended = <<>> => sTail = temp

\* has_read is set exactly when nothing is queued; only the first buffer queued
\* is loaded, with something in it, and not while its interrupt is pending.
LinkRight ==
    /\ has_read <=> toSend = <<>>
    /\ rx # NoBuf => toSend # <<>> /\ rx = Head(toSend) /\ ~eof /\ buf[rx] # <<>>
    /\ eof => toSend # <<>>

\* Only the first free buffer holds anything, and it is not full; the part of
\* the reply being copied is not empty and within the bound.
Contents ==
    /\ \A i \in 1 .. Len(sended) : i > 1 \/ pc = "copy" => buf[sended[i]] = <<>>
    /\ \A b \in Range(sended) \cup Filling : Len(buf[b]) < RxSize
    /\ \A b \in Bufs : Len(buf[b]) <= RxSize
    /\ accepted + len <= MaxBytes
    /\ pc \in {"next", "again", "copy"} => len > 0

\* The buffers U hold the bytes a + 1 .. z in this order: buffer i those up to
\* e[i].
Covers(U, bf, a, z) ==
    \E e \in [0 .. Len(U) -> Nat] :
        /\ e[0] = a /\ e[Len(U)] = z
        /\ \A i, j \in 0 .. Len(U) : i <= j => e[i] <= e[j]
        /\ \A i \in 1 .. Len(U) :
             /\ e[i] = e[i - 1] + Len(bf[U[i]])
             /\ \A k \in 1 .. Len(bf[U[i]]) : bf[U[i]][k] = e[i - 1] + k

\* The unread buffers hold the bytes taken over that the host has not read.
Chained == Covers(Unread, buf, Len(received), accepted)

\* The host has read the first bytes taken over, in their order.
InOrder == \A i \in 1 .. Len(received) : received[i] = i

\* The inductive invariant, whatever the host's speed.
IInv ==
    /\ TypeOK
    /\ TailsRight
    /\ LastTaken
    /\ Placed
    /\ LinkRight
    /\ Contents
    /\ Chained
    /\ InOrder

\* What a host that does not outrun the end of the loop adds: nothing empty is
\* queued, and something is queued when the loop was left for lack of buffers.
Busy ==
    /\ NeverWedged
    /\ \A b \in Range(toSend) : buf[b] # <<>>
    /\ pc = "broke" => Len(toSend) > (IF eof THEN 1 ELSE 0)
    /\ pc = "check" /\ toSend = <<>> => sended # <<>> /\ buf[Head(sended)] # <<>>

-----------------------------------------------------------------------------
(* The chain of unread bytes. *)

\* The bytes a + 1 .. z.
Bytes(a, z) == [i \in 1 .. z - a |-> a + i]

\* Another content of buffers that are not in the chain.
LEMMA ChainElsewhere ==
    ASSUME NEW U \in Seq(Bufs), NEW bf, NEW bg, NEW a, NEW z, Covers(U, bf, a, z),
           \A b \in Range(U) : bg[b] = bf[b]
    PROVE  Covers(U, bg, a, z)
<1>1. \A i \in 1 .. Len(U) : bg[U[i]] = bf[U[i]]
  BY RangeFacts
<1> QED BY <1>1 DEF Covers

\* A new last buffer with nothing in it.
LEMMA ChainLonger ==
    ASSUME NEW U \in Seq(Bufs), NEW b \in Bufs, NEW bf, NEW a, NEW z, Covers(U, bf, a, z),
           bf[b] = <<>>
    PROVE  Covers(Append(U, b), bf, a, z)
<1>1. PICK e \in [0 .. Len(U) -> Nat] :
        /\ e[0] = a /\ e[Len(U)] = z
        /\ \A i, j \in 0 .. Len(U) : i <= j => e[i] <= e[j]
        /\ \A i \in 1 .. Len(U) :
             /\ e[i] = e[i - 1] + Len(bf[U[i]])
             /\ \A k \in 1 .. Len(bf[U[i]]) : bf[U[i]][k] = e[i - 1] + k
  BY DEF Covers
<1> DEFINE W == Append(U, b)
           n == Len(U)
           d == [i \in 0 .. n + 1 |-> IF i = n + 1 THEN z ELSE e[i]]
<1>2. n \in Nat /\ Len(W) = n + 1 /\ W[n + 1] = b /\ \A i \in 1 .. n : W[i] = U[i]
  BY AppendProperties, LenProperties
<1>3. d \in [0 .. Len(W) -> Nat] /\ d[0] = a /\ d[Len(W)] = z
  BY <1>1, <1>2
<1>4. \A i, j \in 0 .. Len(W) : i <= j => d[i] <= d[j]
  <2>1. \A i \in 0 .. n : e[i] <= z /\ e[i] \in Nat
    BY <1>1, <1>2
  <2>2. z \in Nat
    BY <1>1, <1>2
  <2> QED BY <1>1, <1>2, <2>1, <2>2
<1>5. ASSUME NEW i \in 1 .. Len(W)
      PROVE  /\ d[i] = d[i - 1] + Len(bf[W[i]])
             /\ \A k \in 1 .. Len(bf[W[i]]) : bf[W[i]][k] = d[i - 1] + k
  <2>1. CASE i = n + 1
    <3>1. d[i] = z /\ d[i - 1] = z /\ z \in Nat /\ bf[W[i]] = <<>>
      BY <1>1, <1>2, <2>1
    <3> QED BY <3>1, EmptyFacts
  <2>2. CASE i # n + 1
    <3>1. i \in 1 .. n /\ i - 1 \in 0 .. n /\ W[i] = U[i] /\ d[i] = e[i] /\ d[i - 1] = e[i - 1]
      BY <1>2, <2>2
    <3> QED BY <1>1, <3>1
  <2> QED BY <2>1, <2>2
<1> HIDE DEF d, W
<1> QED BY <1>3, <1>4, <1>5 DEF Covers, W

\* The first buffer leaves the chain with the first bytes.
LEMMA ChainShorter ==
    ASSUME NEW U \in Seq(Bufs), U # <<>>, NEW bf, NEW a, NEW z, Covers(U, bf, a, z)
    PROVE  /\ Covers(Tail(U), bf, a + Len(bf[Head(U)]), z)
           /\ \A k \in 1 .. Len(bf[Head(U)]) : bf[Head(U)][k] = a + k
<1>1. PICK e \in [0 .. Len(U) -> Nat] :
        /\ e[0] = a /\ e[Len(U)] = z
        /\ \A i, j \in 0 .. Len(U) : i <= j => e[i] <= e[j]
        /\ \A i \in 1 .. Len(U) :
             /\ e[i] = e[i - 1] + Len(bf[U[i]])
             /\ \A k \in 1 .. Len(bf[U[i]]) : bf[U[i]][k] = e[i - 1] + k
  BY DEF Covers
<1> DEFINE W == Tail(U)
           n == Len(U)
           d == [i \in 0 .. n - 1 |-> e[i + 1]]
<1>2. /\ n \in Nat \ {0} /\ Len(W) = n - 1 /\ Head(U) = U[1]
      /\ \A i \in 1 .. n - 1 : W[i] = U[i + 1]
  BY TailFacts
<1>3. e[1] = a + Len(bf[Head(U)]) /\ \A k \in 1 .. Len(bf[Head(U)]) : bf[Head(U)][k] = a + k
  BY <1>1, <1>2
<1>4. d \in [0 .. Len(W) -> Nat] /\ d[0] = e[1] /\ d[Len(W)] = z
  BY <1>1, <1>2
<1>5. \A i, j \in 0 .. Len(W) : i <= j => d[i] <= d[j]
  BY <1>1, <1>2
<1>6. ASSUME NEW i \in 1 .. Len(W)
      PROVE  /\ d[i] = d[i - 1] + Len(bf[W[i]])
             /\ \A k \in 1 .. Len(bf[W[i]]) : bf[W[i]][k] = d[i - 1] + k
  <2>1. i + 1 \in 1 .. n /\ (i + 1) - 1 = i /\ W[i] = U[i + 1] /\ d[i] = e[i + 1] /\ d[i - 1] = e[i]
    BY <1>2
  <2> QED BY <1>1, <2>1
<1> HIDE DEF d, W
<1>7. Covers(W, bf, e[1], z)
  BY <1>4, <1>5, <1>6 DEF Covers
<1> QED BY <1>3, <1>7 DEF W

\* Copying n more bytes into the last buffer.
LEMMA ChainFilled ==
    ASSUME NEW V \in Seq(Bufs), NEW b \in Bufs, b \notin Range(V), NEW n \in Nat,
           NEW T, NEW bf \in [Bufs -> Seq(T)], NEW a, NEW z, z \in Nat,
           Covers(Append(V, b), bf, a, z), \A i \in 1 .. n : z + i \in T
    PROVE  Covers(Append(V, b), [bf EXCEPT ![b] = @ \o [i \in 1 .. n |-> z + i]], a, z + n)
<1> DEFINE U == Append(V, b)
           m == Len(V) + 1
           bg == [bf EXCEPT ![b] = @ \o [i \in 1 .. n |-> z + i]]
<1>1. PICK e \in [0 .. Len(U) -> Nat] :
        /\ e[0] = a /\ e[Len(U)] = z
        /\ \A i, j \in 0 .. Len(U) : i <= j => e[i] <= e[j]
        /\ \A i \in 1 .. Len(U) :
             /\ e[i] = e[i - 1] + Len(bf[U[i]])
             /\ \A k \in 1 .. Len(bf[U[i]]) : bf[U[i]][k] = e[i - 1] + k
  BY DEF Covers
<1>2. m \in Nat \ {0} /\ Len(U) = m /\ U[m] = b /\ \A i \in 1 .. m - 1 : U[i] = V[i] /\ U[i] # b
  <2>1. Len(V) \in Nat
    BY LenProperties
  <2>2. Len(U) = m /\ U[m] = b /\ \A i \in 1 .. Len(V) : U[i] = V[i]
    BY AppendProperties
  <2>3. \A i \in 1 .. Len(V) : V[i] # b
    BY RangeFacts
  <2> QED BY <2>1, <2>2, <2>3
<1> DEFINE new == [i \in 1 .. n |-> z + i]
           d == [e EXCEPT ![m] = z + n]
<1>3. /\ bg[b] = bf[b] \o new /\ \A c \in Bufs \ {b} : bg[c] = bf[c]
      /\ bf[b] \in Seq(T) /\ new \in Seq(T) /\ Len(new) = n /\ Len(bf[b]) \in Nat
  <2>1. bf[b] \in Seq(T) /\ bg[b] = bf[b] \o new /\ \A c \in Bufs \ {b} : bg[c] = bf[c]
    OBVIOUS
  <2>2. new \in Seq(T)
    BY IsASeq
  <2>3. Len(new) = n
    BY <2>2, LenProperties
  <2> QED BY <2>1, <2>2, <2>3, LenProperties
<1>4. /\ Len(bg[b]) = Len(bf[b]) + n
      /\ \A k \in 1 .. Len(bf[b]) + n :
            bg[b][k] = IF k <= Len(bf[b]) THEN bf[b][k] ELSE z + (k - Len(bf[b]))
  <2>1. /\ Len(bg[b]) = Len(bf[b]) + Len(new)
        /\ \A k \in 1 .. Len(bf[b]) + Len(new) :
              bg[b][k] = IF k <= Len(bf[b]) THEN bf[b][k] ELSE new[k - Len(bf[b])]
    BY <1>3, ConcatProperties
  <2>2. \A k \in 1 .. Len(bf[b]) + n : k > Len(bf[b]) => k - Len(bf[b]) \in 1 .. n
    BY <1>3
  <2> QED BY <1>3, <2>1, <2>2
<1>5. /\ d \in [0 .. m -> Nat] /\ d[0] = a /\ d[m] = z + n /\ z = e[m - 1] + Len(bf[b])
      /\ \A i \in 0 .. m - 1 : d[i] = e[i] /\ e[i] \in Nat /\ e[i] <= z
  <2>1. /\ e \in [0 .. m -> Nat] /\ e[0] = a /\ e[m] = z
        /\ \A i, j \in 0 .. m : i <= j => e[i] <= e[j]
    BY <1>1, <1>2
  <2>2. e[m] = e[m - 1] + Len(bf[b])
    <3>1. m \in 1 .. m
      BY <1>2
    <3> QED BY <1>1, <1>2, <3>1
  <2>3. m \in 0 .. m /\ 0 \in 0 .. m - 1 /\ \A i \in 0 .. m - 1 : i \in 0 .. m /\ i <= m /\ i # m
    BY <1>2
  <2>4. z + n \in Nat
    OBVIOUS
  <2> QED BY <2>1, <2>2, <2>3, <2>4
<1>6. \A i, j \in 0 .. m : i <= j => d[i] <= d[j]
  <2>1. \A i, j \in 0 .. m - 1 : i <= j => e[i] <= e[j]
    BY <1>1, <1>2
  <2> HIDE DEF d
  <2>2. ASSUME NEW i \in 0 .. m, NEW j \in 0 .. m, i <= j PROVE d[i] <= d[j]
    <3>1. CASE j = m /\ i = m
      BY <1>5, <3>1
    <3>2. CASE j = m /\ i # m
      <4>1. i \in 0 .. m - 1
        BY <1>2, <3>2
      <4>2. d[i] <= z /\ d[i] \in Nat
        BY <1>5, <4>1
      <4> QED BY <1>5, <3>2, <4>2
    <3>3. CASE j # m
      <4>1. i \in 0 .. m - 1 /\ j \in 0 .. m - 1
        BY <1>2, <2>2, <3>3
      <4> QED BY <1>5, <2>1, <2>2, <4>1
    <3> QED BY <3>1, <3>2, <3>3
  <2> QED BY <2>2
<1>7. ASSUME NEW i \in 1 .. m
      PROVE  /\ d[i] = d[i - 1] + Len(bg[U[i]])
             /\ \A k \in 1 .. Len(bg[U[i]]) : bg[U[i]][k] = d[i - 1] + k
  <2>1. CASE i = m
    <3>1. U[i] = b /\ d[i] = z + n /\ d[i - 1] = e[m - 1] /\ e[m - 1] \in Nat
      BY <1>2, <1>5, <2>1
    <3>2. \A k \in 1 .. Len(bf[b]) : bf[b][k] = e[m - 1] + k
      <4>1. m \in 1 .. Len(U) /\ U[m] = b
        BY <1>2
      <4> QED BY <1>1, <4>1
    <3> HIDE DEF d, U, bg, new
    <3>3. d[i] = d[i - 1] + Len(bg[b])
      BY <1>3, <1>4, <1>5, <3>1, SMTT(30)
    <3>4. ASSUME NEW k \in 1 .. Len(bg[b]) PROVE bg[b][k] = d[i - 1] + k
      <4>1. CASE k <= Len(bf[b])
        <5>1. k \in 1 .. Len(bf[b]) /\ bg[b][k] = bf[b][k]
          BY <1>3, <1>4, <4>1
        <5> QED BY <3>1, <3>2, <5>1
      <4>2. CASE k > Len(bf[b])
        <5>1. bg[b][k] = z + (k - Len(bf[b]))
          BY <1>3, <1>4, <4>2
        <5>2. k \in Nat /\ Len(bf[b]) \in Nat /\ e[m - 1] \in Nat /\ z = e[m - 1] + Len(bf[b])
          BY <1>3, <1>5, <3>1
        <5> QED BY <3>1, <5>1, <5>2, SMTT(30)
      <4> QED BY <1>3, <4>1, <4>2
    <3> QED BY <3>1, <3>3, <3>4
  <2>2. CASE i # m
    <3>1. i \in 1 .. m - 1 /\ i - 1 \in 0 .. m - 1 /\ U[i] # b /\ U[i] \in Bufs
      <4>1. i \in 1 .. m - 1 /\ i - 1 \in 0 .. m - 1 /\ i \in 0 .. m - 1
        BY <1>2, <2>2
      <4>2. U[i] = V[i] /\ U[i] # b /\ i \in 1 .. Len(V)
        BY <1>2, <4>1
      <4>3. V[i] \in Bufs
        BY <4>2, ElementOfSeq
      <4> QED BY <4>1, <4>2, <4>3
    <3>2. d[i] = e[i] /\ d[i - 1] = e[i - 1] /\ bg[U[i]] = bf[U[i]]
      <4>1. i \in 0 .. m - 1
        BY <1>2, <3>1
      <4> QED BY <1>3, <1>5, <3>1, <4>1
    <3>3. /\ e[i] = e[i - 1] + Len(bf[U[i]])
          /\ \A k \in 1 .. Len(bf[U[i]]) : bf[U[i]][k] = e[i - 1] + k
      <4>1. i \in 1 .. Len(U)
        BY <1>2
      <4> QED BY <1>1, <4>1
    <3> HIDE DEF d, U, bg
    <3> QED BY <3>2, <3>3
  <2> QED BY <2>1, <2>2
<1> HIDE DEF d, U, bg
<1>8. Covers(U, bg, a, z + n)
  <2>1. d \in [0 .. Len(U) -> Nat] /\ d[Len(U)] = z + n
    BY <1>2, <1>5
  <2>2. \A i, j \in 0 .. Len(U) : i <= j => d[i] <= d[j]
    BY <1>2, <1>6
  <2>3. \A i \in 1 .. Len(U) :
           /\ d[i] = d[i - 1] + Len(bg[U[i]])
           /\ \A k \in 1 .. Len(bg[U[i]]) : bg[U[i]][k] = d[i - 1] + k
    BY <1>2, <1>7
  <2> QED BY <1>5, <2>1, <2>2, <2>3 DEF Covers
<1> QED BY <1>8 DEF U, bg

\* The contents of the chain, one after the other, are its bytes in order.
LEMMA ChainFlattens ==
    ASSUME NEW U \in Seq(Bufs), NEW bf \in [Bufs -> Seq(Nat)], NEW a \in Nat, NEW z \in Nat,
           Covers(U, bf, a, z)
    PROVE  a <= z /\ FlattenSeq([i \in DOMAIN U |-> bf[U[i]]]) = Bytes(a, z)
<1> DEFINE n == Len(U)
           s == [i \in DOMAIN U |-> bf[U[i]]]
<1>1. PICK e \in [0 .. n -> Nat] :
        /\ e[0] = a /\ e[n] = z
        /\ \A i, j \in 0 .. n : i <= j => e[i] <= e[j]
        /\ \A i \in 1 .. n :
             /\ e[i] = e[i - 1] + Len(bf[U[i]])
             /\ \A k \in 1 .. Len(bf[U[i]]) : bf[U[i]][k] = e[i - 1] + k
  BY DEF Covers
<1>2. n \in Nat /\ DOMAIN U = 1 .. n /\ \A i \in 1 .. n : U[i] \in Bufs
  BY LenProperties, ElementOfSeq
<1>3. s \in Seq(Seq(Nat)) /\ Len(s) = n /\ \A i \in 1 .. n : s[i] = bf[U[i]] /\ s[i] \in Seq(Nat)
  <2>1. \A i \in 1 .. n : bf[U[i]] \in Seq(Nat)
    BY <1>2
  <2>2. s \in [1 .. n -> Seq(Nat)]
    BY <1>2, <2>1
  <2>3. s \in Seq(Seq(Nat))
    BY <1>2, <2>2, SeqDef
  <2>4. Len(s) = n
    BY <1>2, <2>2, <2>3, LenProperties
  <2> QED BY <1>2, <2>1, <2>3, <2>4
<1>4. a <= z /\ \A i \in 0 .. n : e[i] \in Nat /\ a <= e[i]
  <2>1. e[0] = a /\ e[n] = z /\ \A i, j \in 0 .. n : i <= j => e[i] <= e[j]
    BY <1>1
  <2>2. 0 \in 0 .. n /\ n \in 0 .. n /\ \A i \in 0 .. n : 0 <= i
    BY <1>2
  <2> QED BY <2>1, <2>2
<1>5. \A x \in Nat : x >= a => Bytes(a, x) \in Seq(Nat) /\ Len(Bytes(a, x)) = x - a
  <2>1. ASSUME NEW x \in Nat, x >= a PROVE Bytes(a, x) \in Seq(Nat) /\ Len(Bytes(a, x)) = x - a
    <3>1. Bytes(a, x) \in [1 .. x - a -> Nat] /\ x - a \in Nat
      BY <2>1 DEF Bytes
    <3>2. Bytes(a, x) \in Seq(Nat)
      BY <3>1, SeqDef
    <3> QED BY <3>1, <3>2, LenProperties
  <2> QED BY <2>1
<1>6. CASE n = 0
  <2>1. s = <<>> /\ FlattenSeq(s) = <<>> /\ a = z
    <3>1. s = <<>>
      BY <1>3, <1>6, EmptySeq
    <3> QED BY <1>1, <1>3, <1>6, <3>1 DEF FlattenSeq
  <2>2. Bytes(a, z) = <<>>
    BY <1>5, <2>1, EmptySeq
  <2> QED BY <1>4, <2>1, <2>2
<1>7. CASE n # 0
  <2> DEFINE f == [i \in 1 .. n |-> Bytes(a, e[i])]
  <2>1. \A i \in 1 .. n : e[i] \in Nat /\ e[i] >= a /\ e[i - 1] \in Nat /\ e[i - 1] >= a
    <3>1. \A i \in 1 .. n : i \in 0 .. n /\ i - 1 \in 0 .. n
      BY <1>2
    <3> QED BY <1>4, <3>1
  <2>2. f \in [1 .. n -> Seq(Nat)]
    BY <1>5, <2>1
  <2>3. f[1] = s[1]
    <3>1. e[1] = a + Len(s[1]) /\ \A k \in 1 .. Len(s[1]) : s[1][k] = a + k
      BY <1>1, <1>2, <1>3, <1>7
    <3>2. 1 \in 1 .. n
      BY <1>2, <1>7
    <3>3. f[1] = Bytes(a, e[1]) /\ f[1] \in Seq(Nat) /\ s[1] \in Seq(Nat)
      <4>1. s[1] \in Seq(Nat)
        BY <1>3, <3>2
      <4>2. f[1] \in Seq(Nat)
        BY <2>2, <3>2
      <4>3. f[1] = Bytes(a, e[1])
        BY <3>2
      <4> QED BY <4>1, <4>2, <4>3
    <3>4. Len(s[1]) \in Nat
      BY <3>3, LenProperties
    <3> HIDE DEF f, s
    <3>5. Len(f[1]) = Len(s[1])
      <4>1. Len(f[1]) = e[1] - a
        BY <1>5, <2>1, <3>2, <3>3
      <4> QED BY <3>1, <3>4, <4>1
    <3>6. \A k \in 1 .. Len(s[1]) : f[1][k] = a + k
      <4>1. e[1] - a = Len(s[1])
        BY <3>1, <3>4
      <4> QED BY <3>3, <4>1 DEF Bytes
    <3>7. \A k \in 1 .. Len(f[1]) : f[1][k] = s[1][k]
      BY <3>1, <3>5, <3>6
    <3> QED BY <3>3, <3>5, <3>7, SeqEqual
  <2>4. ASSUME NEW i \in 2 .. n PROVE f[i] = f[i - 1] \o s[i]
    <3> DEFINE p == e[i - 1]
               q == Len(s[i])
    <3>1. i \in 1 .. n /\ i - 1 \in 1 .. n /\ s[i] \in Seq(Nat)
      BY <1>2, <1>3
    <3>2. p \in Nat /\ p >= a /\ q \in Nat /\ e[i] = p + q /\ \A k \in 1 .. q : s[i][k] = p + k
      BY <1>1, <1>3, <2>1, <3>1, LenProperties
    <3>3. /\ f[i] = Bytes(a, p + q) /\ f[i - 1] = Bytes(a, p) /\ f[i] \in Seq(Nat) /\ f[i - 1] \in Seq(Nat)
          /\ Len(f[i]) = p + q - a /\ Len(f[i - 1]) = p - a
      <4>1. e[i] >= a /\ e[i] \in Nat /\ f[i] = Bytes(a, e[i]) /\ f[i - 1] = Bytes(a, p)
        BY <2>1, <3>1
      <4>2. Bytes(a, e[i]) \in Seq(Nat) /\ Len(Bytes(a, e[i])) = e[i] - a
        BY <1>5, <4>1
      <4>3. Bytes(a, p) \in Seq(Nat) /\ Len(Bytes(a, p)) = p - a
        BY <1>5, <3>2
      <4> HIDE DEF f, p, q
      <4> QED BY <3>2, <4>1, <4>2, <4>3
    <3>4. /\ f[i - 1] \o s[i] \in Seq(Nat) /\ Len(f[i - 1] \o s[i]) = (p - a) + q
          /\ \A k \in 1 .. (p - a) + q :
                (f[i - 1] \o s[i])[k] = IF k <= p - a THEN f[i - 1][k] ELSE s[i][k - (p - a)]
      <4>1. Len(f[i - 1]) + Len(s[i]) = (p - a) + q
        BY <3>3
      <4> HIDE DEF p, q, f, s
      <4>2. /\ f[i - 1] \o s[i] \in Seq(Nat) /\ Len(f[i - 1] \o s[i]) = Len(f[i - 1]) + Len(s[i])
            /\ \A k \in 1 .. Len(f[i - 1]) + Len(s[i]) :
                  (f[i - 1] \o s[i])[k] = IF k <= Len(f[i - 1]) THEN f[i - 1][k] ELSE s[i][k - Len(f[i - 1])]
        BY <3>1, <3>3, ConcatProperties
      <4> QED BY <3>3, <4>1, <4>2
    <3> HIDE DEF p, q, f, s
    <3>5. ASSUME NEW k \in 1 .. (p - a) + q PROVE f[i][k] = (f[i - 1] \o s[i])[k]
      <4>0. p \in Nat /\ q \in Nat /\ p - a \in Nat /\ k \in Nat
        BY <3>2
      <4>1. f[i][k] = a + k
        <5>1. k \in 1 .. (p + q) - a
          BY <3>2
        <5> QED BY <3>3, <5>1 DEF Bytes
      <4>2. CASE k <= p - a
        <5>1. k \in 1 .. p - a
          BY <3>2, <4>2
        <5>2. f[i - 1][k] = a + k
          BY <3>3, <5>1 DEF Bytes
        <5> QED BY <3>4, <4>1, <4>2, <5>2
      <4>3. CASE k > p - a
        <5>1. k - (p - a) \in 1 .. q
          BY <3>2, <4>3
        <5>2. s[i][k - (p - a)] = p + (k - (p - a))
          BY <3>2, <5>1
        <5>3. (f[i - 1] \o s[i])[k] = s[i][k - (p - a)]
          <6>1. ~(k <= p - a)
            BY <4>0, <4>3
          <6> QED BY <3>4, <6>1
        <5> QED BY <3>2, <4>1, <5>2, <5>3
      <4>4. k <= p - a \/ k > p - a
        BY <4>0
      <4> QED BY <4>2, <4>3, <4>4
    <3>6. Len(f[i]) = (p - a) + q
      BY <3>2, <3>3
    <3> QED BY <3>3, <3>4, <3>5, <3>6, SeqEqual, ZenonT(40)
  <2>5. s # <<>>
    BY <1>3, <1>7, EmptySeq
  <2> HIDE DEF s, f
  <2>6. FlattenSeq(s) = f[n]
    <3>1. f \in [1 .. Len(s) -> Seq(Nat)] /\ \A i \in 2 .. Len(s) : f[i] = f[i - 1] \o s[i]
      BY <1>3, <2>2, <2>4
    <3>2. FlattenSeq(s) = f[Len(s)]
      BY <1>3, <2>3, <2>5, <3>1, FlattenIs
    <3> QED BY <1>3, <3>2
  <2> USE DEF s, f
  <2>7. f[n] = Bytes(a, z)
    BY <1>1, <1>2, <1>7
  <2> QED BY <1>4, <2>6, <2>7
<1> QED BY <1>6, <1>7
-----------------------------------------------------------------------------
(* The lists. *)

\* Linking behind the true tail of a list that is not empty.
LEMMA LinkedAtEnd ==
    ASSUME NEW s \in Seq(Bufs), s # <<>>, NoRepeats(s), NEW b
    PROVE  Linked(s, Last(s), b) = Append(s, b)
  BY RangeFacts, UpToLast DEF Linked

\* The buffer read goes to the end of the free ones.
LEMMA FreedIs ==
    ASSUME IInv, toSend # <<>>
    PROVE  Freed = Append(sended, Head(toSend))
<1>1. CASE sended # <<>>
  BY <1>1, LinkedAtEnd DEF Freed, IInv, TypeOK, TailsRight, Placed
<1>2. CASE sended = <<>>
  BY <1>2, TailFacts DEF Freed, IInv, TypeOK
<1> QED BY <1>1, <1>2

\* Unread, of the lists t and s: what is queued and still to be read, and the
\* buffer that is or may be partly filled.
Queued(t, e) == IF e THEN Tail(t) ELSE t
Partial(s, p, b) == IF p = "copy" THEN <<b>> ELSE IF s # <<>> THEN <<Head(s)>> ELSE <<>>
Chain(t, s, e, p, b) == Queued(t, e) \o Partial(s, p, b)

LEMMA ChainCases ==
    ASSUME NEW t \in Seq(Bufs), NEW s \in Seq(Bufs), NEW e \in BOOLEAN, e => t # <<>>,
           NEW p, NEW b, p = "copy" => b \in Bufs
    PROVE  /\ Queued(t, e) \in Seq(Bufs) /\ Range(Queued(t, e)) \subseteq Range(t)
           /\ Chain(t, s, e, p, b) \in Seq(Bufs)
           /\ p = "copy" => Chain(t, s, e, p, b) = Append(Queued(t, e), b)
           /\ p # "copy" /\ s # <<>> => Chain(t, s, e, p, b) = Append(Queued(t, e), Head(s))
           /\ p # "copy" /\ s = <<>> => Chain(t, s, e, p, b) = Queued(t, e)
<1> DEFINE q == Queued(t, e)
<1>1. q \in Seq(Bufs) /\ Range(q) \subseteq Range(t)
  BY TailFacts DEF Queued
<1> HIDE DEF q
<1>2. CASE p = "copy"
  <2>1. q \o <<b>> = Append(q, b) /\ Append(q, b) \in Seq(Bufs)
    BY <1>1, <1>2, AppendIsConcat, AppendFacts
  <2> QED BY <1>1, <1>2, <2>1 DEF Chain, Partial, q
<1>3. CASE p # "copy" /\ s # <<>>
  <2>1. Head(s) \in Bufs
    BY <1>3, TailFacts
  <2>2. q \o <<Head(s)>> = Append(q, Head(s)) /\ Append(q, Head(s)) \in Seq(Bufs)
    BY <1>1, <2>1, AppendIsConcat, AppendFacts
  <2> QED BY <1>1, <1>3, <2>2 DEF Chain, Partial, q
<1>4. CASE p # "copy" /\ s = <<>>
  BY <1>1, <1>4, ConcatEmptySeq DEF Chain, Partial, q
<1> QED BY <1>1, <1>2, <1>3, <1>4 DEF q

LEMMA UnreadIs == Unread = Chain(toSend, sended, eof, pc, temp)
  BY DEF Unread, Chain, Queued, Partial

\* What the invariant says in the terms the proofs of the actions use.
LEMMA Facts ==
    ASSUME IInv
    PROVE  /\ Bufs # {} /\ MaxBytes \in Nat /\ RxSize \in Nat /\ NoBuf \notin Bufs
           /\ pc = "copy" => temp \in Bufs
           /\ toSend = <<>> => ~eof /\ Queued(toSend, eof) = <<>>
           /\ toSend = <<>> /\ pc # "copy" => sended # <<>>
           /\ sended # <<>> => Head(sended) \notin Range(toSend)
           /\ Unread \in Seq(Bufs) /\ Queued(toSend, eof) \in Seq(Bufs)
           /\ Range(Queued(toSend, eof)) \subseteq Range(toSend)
           /\ pc = "copy" => Unread = Append(Queued(toSend, eof), temp)
           /\ pc # "copy" /\ sended # <<>> => Unread = Append(Queued(toSend, eof), Head(sended))
           /\ pc # "copy" /\ sended = <<>> => Unread = Queued(toSend, eof)
           /\ Covers(Unread, buf, Len(received), accepted)
<1>1. /\ toSend \in Seq(Bufs) /\ sended \in Seq(Bufs) /\ eof \in BOOLEAN
      /\ eof => toSend # <<>>
      /\ Range(toSend) \cup Range(sended) \cup Filling = Bufs
      /\ Range(toSend) \cap Range(sended) = {}
      /\ Covers(Unread, buf, Len(received), accepted)
  BY DEF IInv, TypeOK, LinkRight, Placed, Chained
<1>2. Bufs # {} /\ MaxBytes \in Nat /\ RxSize \in Nat /\ NoBuf \notin Bufs
  BY SdioAssumption, FS_EmptySet
<1>3. pc = "copy" => temp \in Bufs
  BY <1>1 DEF Filling
<1>4. toSend = <<>> /\ pc # "copy" => sended # <<>>
  BY <1>1, <1>2, EmptyFacts DEF Filling
<1>5. sended # <<>> => Head(sended) \notin Range(toSend)
  BY <1>1, TailFacts
<1>6. toSend = <<>> => ~eof /\ Queued(toSend, eof) = <<>>
  BY <1>1 DEF Queued
<1> QED BY <1>1, <1>2, <1>3, <1>4, <1>5, <1>6, ChainCases, UnreadIs

LEMMA UnreadRange ==
    ASSUME IInv
    PROVE  Range(Unread) \subseteq Range(Queued(toSend, eof)) \cup Filling \cup Range(sended)
<1> DEFINE q == Queued(toSend, eof)
<1>1. q \in Seq(Bufs) /\ sended \in Seq(Bufs)
  BY Facts DEF IInv, TypeOK
<1>2. CASE pc = "copy"
  <2>1. Unread = Append(q, temp) /\ temp \in Bufs /\ Filling = {temp}
    BY <1>2, Facts DEF Filling
  <2> HIDE DEF q
  <2>2. Range(Append(q, temp)) = Range(q) \cup {temp}
    BY <1>1, <2>1, AppendFacts
  <2> QED BY <2>1, <2>2 DEF q
<1>3. CASE pc # "copy" /\ sended # <<>>
  <2> DEFINE h == Head(sended)
  <2>1. Unread = Append(q, h) /\ h \in Bufs /\ h \in Range(sended)
    BY <1>1, <1>3, Facts, TailFacts
  <2> HIDE DEF q, h
  <2>2. Range(Append(q, h)) = Range(q) \cup {h}
    BY <1>1, <2>1, AppendFacts
  <2> QED BY <2>1, <2>2 DEF q
<1>4. CASE pc # "copy" /\ sended = <<>>
  BY <1>4, Facts
<1> QED BY <1>2, <1>3, <1>4

-----------------------------------------------------------------------------
(* The invariant holds initially and is kept. *)

LEMMA InitKeepsIInv ==
    ASSUME Init
    PROVE  IInv
<1> DEFINE n == Cardinality(Bufs)
<1>1. n \in Nat /\ n >= 2 /\ IsFiniteSet(Bufs) /\ MaxBytes \in Nat /\ RxSize \in Nat \ {0}
  BY SdioAssumption, FS_CardinalityType
<1>2. sended \in [1 .. n -> Bufs] /\ Range(sended) = Bufs
  BY DEF Init
<1>3. sended \in Seq(Bufs) /\ Len(sended) = n /\ DOMAIN sended = 1 .. n /\ sended # <<>>
  <2>1. sended \in Seq(Bufs)
    BY <1>1, <1>2, SeqDef
  <2>2. Len(sended) = n
    BY <1>1, <1>2, <2>1, LenProperties
  <2> QED BY <1>1, <1>2, <2>1, <2>2, EmptySeq
<1>4. NoRepeats(sended)
  <2>1. sended \in Surjection(1 .. n, Bufs)
    BY <1>2, <1>3, RangeFacts DEF Surjection
  <2>2. IsFiniteSet(1 .. n) /\ Cardinality(1 .. n) = n
    BY <1>1, FS_Interval
  <2>3. sended \in Injection(1 .. n, Bufs)
    BY <1>1, <2>1, <2>2, FS_SurjSameCardinalityImpliesInj
  <2> QED BY <1>3, <2>3 DEF Injection, IsInjective, NoRepeats
<1>5. sTail = Last(sended) /\ sTail \in Bufs
  BY <1>3, RangeFacts DEF Init
<1>6. buf = [b \in Bufs |-> <<>>] /\ <<>> \in Seq(1 .. MaxBytes) /\ Len(<<>>) = 0
  BY DEF Init
<1>7. TypeOK
  <2>1. <<>> \in Seq(Bufs) /\ <<>> \in Seq(1 .. MaxBytes) /\ Len(<<>>) <= RxSize
    BY <1>1, EmptySeq
  <2>2. buf \in [Bufs -> Seq(1 .. MaxBytes)] /\ \A b \in Bufs : Len(buf[b]) <= RxSize
    BY <1>6, <2>1
  <2>3. len \in 0 .. MaxLen /\ accepted \in 0 .. MaxBytes
    BY SdioAssumption DEF Init
  <2> QED BY <1>3, <1>5, <2>1, <2>2, <2>3 DEF Init, TypeOK
<1>8. TailsRight /\ LastTaken
  BY <1>5 DEF Init, TailsRight, LastTaken
<1>9. Placed
  BY <1>2, <1>4, EmptyFacts DEF Init, Placed, Filling
<1>10. LinkRight
  BY DEF Init, LinkRight
<1>11. Contents
  <2>1. \A i \in 1 .. Len(sended) : buf[sended[i]] = <<>>
    BY <1>3, <1>6, ElementOfSeq
  <2> QED BY <1>1, <1>2, <1>6, <2>1 DEF Init, Contents, Filling
<1>12. Chained
  <2> DEFINE h == Head(sended)
  <2>1. h \in Bufs /\ <<>> \in Seq(Bufs) /\ buf[h] = <<>>
    BY <1>3, <1>6, TailFacts, EmptySeq
  <2>2. Covers(<<>>, buf, 0, 0)
    <3> DEFINE e == [i \in 0 .. 0 |-> 0]
    <3>1. e \in [0 .. Len(<<>>) -> Nat] /\ e[0] = 0 /\ e[Len(<<>>)] = 0
      BY EmptyFacts
    <3>2. /\ \A i, j \in 0 .. Len(<<>>) : i <= j => e[i] <= e[j]
          /\ 1 .. Len(<<>>) = {}
      BY EmptyFacts
    <3> HIDE DEF e
    <3> QED BY <3>1, <3>2 DEF Covers
  <2>3. Covers(Append(<<>>, h), buf, 0, 0)
    BY <2>1, <2>2, ChainLonger
  <2>4. Unread = Append(<<>>, h)
    <3>1. toSend \in Seq(Bufs) /\ eof \in BOOLEAN /\ ~eof /\ pc # "copy" /\ Queued(toSend, eof) = <<>>
      BY <2>1 DEF Init, Queued
    <3>2. Chain(toSend, sended, eof, pc, temp) = Append(Queued(toSend, eof), h)
      <4>1. /\ toSend \in Seq(Bufs) /\ sended \in Seq(Bufs) /\ eof \in BOOLEAN
            /\ eof => toSend # <<>>
            /\ pc = "copy" => temp \in Bufs
        BY <1>3, <3>1
      <4>2. pc # "copy" /\ sended # <<>>
        BY <1>3, <3>1
      <4> HIDE DEF h, n
      <4>3. pc # "copy" /\ sended # <<>> =>
              Chain(toSend, sended, eof, pc, temp) = Append(Queued(toSend, eof), Head(sended))
        BY <4>1, ChainCases
      <4> QED BY <4>2, <4>3 DEF h
    <3> QED BY <3>1, <3>2, UnreadIs
  <2>5. Len(received) = 0 /\ accepted = 0
    BY EmptyFacts DEF Init
  <2> QED BY <2>3, <2>4, <2>5 DEF Chained
<1>13. InOrder
  BY DEF Init, InOrder
<1> QED BY <1>7, <1>8, <1>9, <1>10, <1>11, <1>12, <1>13 DEF IInv

LEMMA UnreadNext == Unread' = Chain(toSend', sended', eof', pc', temp')
  BY DEF Unread, Chain, Queued, Partial

\* Steps that leave the lists alone.
LEMMA SameLists ==
    ASSUME UNCHANGED <<lists, eof>>, pc # "copy", pc' # "copy"
    PROVE  Unread' = Unread /\ Filling' = {} /\ Filling = {}
  BY DEF lists, Unread, Filling

LEMMA ResponseKeepsIInv ==
    ASSUME IInv, NEW n \in 1 .. MaxLen, at_sdio_response(n)
    PROVE  IInv'
<1>1. /\ UNCHANGED <<toSend, tTail, sended, sTail, buf, has_read, rx, eof, temp, accepted, received>>
      /\ pc = "idle" /\ pc' = "next" /\ len' = n /\ accepted + n <= MaxBytes
  BY DEF at_sdio_response, lists, link
<1>2. Unread' = Unread /\ Filling' = {} /\ Filling = {}
  BY <1>1, SameLists DEF lists
<1>3. n \in Nat /\ n > 0 /\ n \in 0 .. MaxLen
  BY SdioAssumption
<1>4. TypeOK'
  BY <1>1, <1>3 DEF IInv, TypeOK
<1>5. TailsRight' /\ LastTaken' /\ LinkRight'
  BY <1>1 DEF IInv, TailsRight, LastTaken, LinkRight
<1>6. Placed'
  BY <1>1, <1>2 DEF IInv, Placed
<1>7. Contents'
  BY <1>1, <1>2, <1>3 DEF IInv, Contents
<1>8. Chained' /\ InOrder'
  BY <1>1, <1>2 DEF IInv, Chained, InOrder
<1> QED BY <1>4, <1>5, <1>6, <1>7, <1>8 DEF IInv

LEMMA TakeKeepsIInv ==
    ASSUME IInv, Take
    PROVE  IInv'
<1>1. /\ UNCHANGED <<toSend, tTail, sTail, buf, has_read, rx, eof, len, accepted, received>>
      /\ pc \in {"next", "again"}
  BY DEF Take, link
<1>2. CASE sended = <<>> /\ pc' = "broke" /\ UNCHANGED <<sended, temp>>
  <2>1. Unread' = Unread /\ Filling' = {} /\ Filling = {}
    BY <1>1, <1>2, SameLists DEF lists
  <2>2. TypeOK' /\ TailsRight' /\ LastTaken' /\ LinkRight'
    BY <1>1, <1>2 DEF IInv, TypeOK, TailsRight, LastTaken, LinkRight
  <2>3. Placed'
    BY <1>1, <1>2, <2>1 DEF IInv, Placed
  <2>4. Contents'
    BY <1>1, <1>2, <2>1 DEF IInv, Contents
  <2>5. Chained' /\ InOrder'
    BY <1>1, <1>2, <2>1 DEF IInv, Chained, InOrder
  <2> QED BY <2>2, <2>3, <2>4, <2>5 DEF IInv
<1>3. CASE sended # <<>> /\ pc' = "copy" /\ temp' = Head(sended) /\ sended' = Tail(sended)
  <2>1. /\ sended \in Seq(Bufs) /\ temp' \in Bufs /\ sended' \in Seq(Bufs)
        /\ Len(sended) \in Nat \ {0} /\ Len(sended') = Len(sended) - 1 /\ temp' = sended[1]
        /\ \A i \in 1 .. Len(sended') : sended'[i] = sended[i + 1]
        /\ Range(sended) = {temp'} \cup Range(sended')
        /\ sended' # <<>> => Last(sended') = Last(sended)
        /\ NoRepeats(sended') /\ temp' \notin Range(sended')
    BY <1>3, TailFacts, SMTT(30) DEF IInv, TypeOK, Placed
  <2>2. Filling = {} /\ Filling' = {temp'}
    BY <1>1, <1>3 DEF Filling
  <2>3. TypeOK'
    BY <1>1, <1>3, <2>1 DEF IInv, TypeOK
  <2>4. TailsRight' /\ LinkRight'
    BY <1>1, <1>3, <2>1 DEF IInv, TailsRight, LinkRight
  <2>5. LastTaken'
    <3>1. sended' = <<>> => Len(sended') = 0
      BY EmptyFacts
    <3>2. sended' = <<>> => sTail = sended[1]
      BY <1>3, <2>1, <3>1 DEF IInv, TailsRight, Last
    <3> QED BY <1>1, <2>1, <3>2 DEF LastTaken
  <2>6. Placed'
    BY <1>1, <2>1, <2>2 DEF IInv, Placed
  <2>7. Contents'
    <3>1. \A i \in 1 .. Len(sended') : buf'[sended'[i]] = <<>>
      <4>1. \A i \in 1 .. Len(sended') : i + 1 \in 1 .. Len(sended) /\ i + 1 > 1
        BY <2>1
      <4> QED BY <1>1, <2>1, <4>1 DEF IInv, Contents
    <3> QED BY <1>1, <1>3, <2>1, <2>2, <3>1 DEF IInv, Contents
  <2>8. Unread' = Unread
    BY <1>1, <1>3 DEF Unread
  <2>9. Chained' /\ InOrder'
    BY <1>1, <2>8 DEF IInv, Chained, InOrder
  <2> QED BY <2>3, <2>4, <2>6, <2>7, <2>9, <2>5 DEF IInv
<1> QED BY <1>2, <1>3 DEF Take

LEMMA HostReadKeepsIInv ==
    ASSUME IInv, HostRead
    PROVE  IInv'
<1>1. /\ UNCHANGED <<toSend, tTail, sended, sTail, buf, has_read, pc, temp, len, accepted>>
      /\ rx # NoBuf /\ received' = received \o buf[rx] /\ rx' = NoBuf /\ eof' = TRUE
  BY DEF HostRead, lists, caller
<1>2. toSend # <<>> /\ rx = Head(toSend) /\ ~eof /\ toSend \in Seq(Bufs) /\ rx \in Bufs
  BY <1>1, TailFacts DEF IInv, LinkRight, TypeOK
<1>3. Unread # <<>> /\ Head(Unread) = rx /\ Unread' = Tail(Unread) /\ Unread \in Seq(Bufs)
  <2>1. Unread = toSend \o Partial(sended, pc, temp) /\ Unread' = Tail(toSend) \o Partial(sended, pc, temp)
    BY <1>1, <1>2 DEF Unread, Partial
  <2>2. Partial(sended, pc, temp) = <<>> \/ \E b \in Bufs : Partial(sended, pc, temp) = <<b>>
    BY Facts, TailFacts DEF Partial, IInv, TypeOK
  <2>3. CASE Partial(sended, pc, temp) = <<>>
    <3>1. toSend \o <<>> = toSend /\ Tail(toSend) \o <<>> = Tail(toSend)
      BY <1>2, TailFacts, ConcatEmptySeq
    <3> QED BY <1>2, <2>1, <2>3, <3>1
  <2>4. CASE \E b \in Bufs : Partial(sended, pc, temp) = <<b>>
    <3>1. PICK b \in Bufs : Partial(sended, pc, temp) = <<b>>
      BY <2>4
    <3>2. toSend \o <<b>> = Append(toSend, b) /\ Tail(toSend) \o <<b>> = Append(Tail(toSend), b)
      BY <1>2, TailFacts, AppendIsConcat
    <3>3. /\ Append(toSend, b) # <<>> /\ Append(toSend, b) \in Seq(Bufs)
          /\ Head(Append(toSend, b)) = Head(toSend) /\ Tail(Append(toSend, b)) = Append(Tail(toSend), b)
      BY <1>2, AppendFacts
    <3> QED BY <1>2, <2>1, <3>1, <3>2, <3>3
  <2> QED BY <2>2, <2>3, <2>4
<1>4. received \in Seq(1 .. MaxBytes) /\ buf[rx] \in Seq(1 .. MaxBytes)
  BY <1>2 DEF IInv, TypeOK
<1>5. /\ received' \in Seq(1 .. MaxBytes) /\ Len(received') = Len(received) + Len(buf[rx])
      /\ Len(received) \in Nat /\ Len(buf[rx]) \in Nat
      /\ \A i \in 1 .. Len(received) + Len(buf[rx]) :
            received'[i] = IF i <= Len(received) THEN received[i] ELSE buf[rx][i - Len(received)]
  BY <1>1, <1>4, ConcatProperties, LenProperties
<1>6. /\ Covers(Tail(Unread), buf, Len(received) + Len(buf[rx]), accepted)
      /\ \A k \in 1 .. Len(buf[rx]) : buf[rx][k] = Len(received) + k
  <2>1. Covers(Unread, buf, Len(received), accepted)
    BY Facts
  <2>2. /\ Covers(Tail(Unread), buf, Len(received) + Len(buf[Head(Unread)]), accepted)
        /\ \A k \in 1 .. Len(buf[Head(Unread)]) : buf[Head(Unread)][k] = Len(received) + k
    BY <1>3, <2>1, ChainShorter
  <2> QED BY <1>3, <2>2
<1>7. TypeOK'
  BY <1>1, <1>5 DEF IInv, TypeOK
<1>8. TailsRight' /\ LastTaken' /\ LinkRight'
  BY <1>1, <1>2 DEF IInv, TailsRight, LastTaken, LinkRight
<1>9. Placed' /\ Contents'
  BY <1>1 DEF IInv, Placed, Contents, Filling
<1>10. Chained'
  BY <1>1, <1>3, <1>5, <1>6 DEF Chained
<1>11. InOrder'
  <2>1. ASSUME NEW i \in 1 .. Len(received') PROVE received'[i] = i
    <3>1. CASE i <= Len(received)
      BY <1>5, <3>1 DEF IInv, InOrder
    <3>2. CASE i > Len(received)
      <4>1. i - Len(received) \in 1 .. Len(buf[rx])
        BY <1>5, <3>2
      <4> QED BY <1>5, <1>6, <3>2, <4>1
    <3> QED BY <1>5, <3>1, <3>2
  <2> QED BY <2>1 DEF InOrder
<1> QED BY <1>7, <1>8, <1>9, <1>10, <1>11 DEF IInv

\* n bytes of the reply are copied into the buffer being filled.
LEMMA Copied ==
    ASSUME IInv, pc = "copy", NEW n \in Nat, n <= len, n <= Room, Copy(n),
           received' = received
    PROVE  /\ temp \in Bufs /\ Len(buf[temp]) \in Nat /\ Len(buf[temp]) < RxSize
           /\ buf' \in [Bufs -> Seq(1 .. MaxBytes)]
           /\ Len(buf'[temp]) = Len(buf[temp]) + n
           /\ \A b \in Bufs : b # temp => buf'[b] = buf[b]
           /\ \A b \in Bufs : Len(buf'[b]) <= RxSize
           /\ accepted' = accepted + n /\ accepted' \in 0 .. MaxBytes
           /\ len' = len - n /\ len' \in 0 .. MaxLen /\ accepted' + len' <= MaxBytes
           /\ temp \notin Range(toSend) /\ temp \notin Range(sended)
           /\ Covers(Append(Queued(toSend, eof), temp), buf', Len(received'), accepted')
<1> DEFINE new == [i \in 1 .. n |-> accepted + i]
           q == Queued(toSend, eof)
<1>1. /\ temp \in Bufs /\ buf \in [Bufs -> Seq(1 .. MaxBytes)]
      /\ Filling = {temp} /\ len \in 0 .. MaxLen /\ MaxLen \in Nat /\ MaxBytes \in Nat
      /\ accepted \in 0 .. MaxBytes /\ accepted + len <= MaxBytes /\ RxSize \in Nat
      /\ \A b \in Bufs : Len(buf[b]) <= RxSize
      /\ Len(buf[temp]) < RxSize /\ temp \notin Range(toSend) /\ temp \notin Range(sended)
  BY Facts, SdioAssumption DEF IInv, TypeOK, Filling, Contents, Placed
<1>2. /\ buf' = [buf EXCEPT ![temp] = @ \o new] /\ accepted' = accepted + n /\ len' = len - n
  BY DEF Copy
<1>3. \A i \in 1 .. n : accepted + i \in 1 .. MaxBytes
  BY <1>1
<1>4. new \in Seq(1 .. MaxBytes) /\ Len(new) = n
  <2>1. new \in Seq(1 .. MaxBytes)
    BY <1>3, IsASeq
  <2> QED BY <2>1, LenProperties
<1>5. /\ accepted' \in 0 .. MaxBytes /\ len' \in 0 .. MaxLen /\ accepted' + len' <= MaxBytes
  BY <1>1, <1>2
<1> HIDE DEF new
<1>6. buf[temp] \in Seq(1 .. MaxBytes) /\ buf[temp] \o new \in Seq(1 .. MaxBytes)
      /\ Len(buf[temp] \o new) = Len(buf[temp]) + n /\ Len(buf[temp]) \in Nat
  <2>1. buf[temp] \in Seq(1 .. MaxBytes)
    BY <1>1
  <2> QED BY <1>4, <2>1, ConcatProperties, LenProperties
<1>7. /\ buf' \in [Bufs -> Seq(1 .. MaxBytes)] /\ buf'[temp] = buf[temp] \o new
      /\ \A b \in Bufs : b # temp => buf'[b] = buf[b]
  BY <1>1, <1>2, <1>6
<1>8. \A b \in Bufs : Len(buf'[b]) <= RxSize
  <2>1. Len(buf'[temp]) <= RxSize
    BY <1>1, <1>6, <1>7 DEF Room
  <2> QED BY <1>1, <1>7, <2>1
<1>9. Covers(Append(q, temp), buf', Len(received'), accepted')
  <2>1. q \in Seq(Bufs) /\ temp \notin Range(q) /\ Covers(Append(q, temp), buf, Len(received), accepted)
    BY <1>1, Facts
  <2> HIDE DEF q
  <2>2. accepted \in Nat
    BY <1>1
  <2>3. Covers(Append(q, temp), [buf EXCEPT ![temp] = @ \o [i \in 1 .. n |-> accepted + i]],
               Len(received), accepted + n)
    BY <1>1, <1>3, <2>1, <2>2, ChainFilled
  <2> QED BY <1>2, <2>3 DEF new
<1> QED BY <1>1, <1>2, <1>5, <1>6, <1>7, <1>8, <1>9

LEMMA PutBackKeepsIInv ==
    ASSUME IInv, PutBack
    PROVE  IInv'
<1> DEFINE q == Queued(toSend, eof)
<1>1. /\ UNCHANGED <<toSend, tTail, sTail, has_read, rx, eof, received>>
      /\ pc = "copy" /\ pc' = "check" /\ temp' = NoBuf /\ sended' = <<temp>> \o sended
      /\ len < Room /\ Copy(len)
  BY DEF PutBack, link
<1>2. len \in Nat /\ len <= len /\ len <= Room
  BY <1>1, Facts, LenProperties, SMTT(30) DEF IInv, TypeOK, Room
<1>3. /\ temp \in Bufs /\ Len(buf[temp]) \in Nat
      /\ buf' \in [Bufs -> Seq(1 .. MaxBytes)] /\ Len(buf'[temp]) = Len(buf[temp]) + len
      /\ \A b \in Bufs : b # temp => buf'[b] = buf[b]
      /\ \A b \in Bufs : Len(buf'[b]) <= RxSize
      /\ accepted' \in 0 .. MaxBytes /\ len' \in 0 .. MaxLen /\ accepted' + len' <= MaxBytes
      /\ temp \notin Range(toSend) /\ temp \notin Range(sended)
      /\ Covers(Append(q, temp), buf', Len(received'), accepted')
  BY <1>1, <1>2, Copied
<1>4. /\ sended \in Seq(Bufs) /\ sended' \in Seq(Bufs) /\ sended' # <<>> /\ Len(sended) \in Nat
      /\ Range(sended') = Range(sended) \cup {temp} /\ Head(sended') = temp
      /\ Len(sended') = Len(sended) + 1
      /\ \A i \in 2 .. Len(sended) + 1 : sended'[i] = sended[i - 1]
      /\ sended # <<>> => Last(sended') = Last(sended)
      /\ sended = <<>> => Last(sended') = temp
      /\ NoRepeats(sended')
  <2>1. sended \in Seq(Bufs) /\ NoRepeats(sended)
    BY DEF IInv, TypeOK, Placed
  <2> QED BY <1>1, <1>3, <2>1, ConsFacts, LenProperties, SMTT(30)
<1>5. Filling = {temp} /\ Filling' = {}
  BY <1>1 DEF Filling
<1>6. TypeOK'
  BY <1>1, <1>3, <1>4 DEF IInv, TypeOK
<1>7. TailsRight' /\ LastTaken'
  <2>1. sended = <<>> => sTail = temp
    BY <1>1 DEF IInv, LastTaken
  <2> QED BY <1>1, <1>4, <2>1 DEF IInv, TailsRight, LastTaken
<1>8. Placed'
  BY <1>1, <1>3, <1>4, <1>5 DEF IInv, Placed
<1>9. LinkRight'
  <2>1. rx # NoBuf => rx \in Bufs /\ rx # temp
    <3>1. toSend \in Seq(Bufs) /\ (rx # NoBuf => toSend # <<>> /\ rx = Head(toSend))
      BY DEF IInv, TypeOK, LinkRight
    <3>2. rx # NoBuf => rx \in Bufs /\ rx \in Range(toSend)
      BY <3>1, TailFacts
    <3> QED BY <1>3, <3>2
  <2> QED BY <1>1, <1>3, <2>1 DEF IInv, LinkRight
<1>10. Contents'
  <2>1. ASSUME NEW i \in 1 .. Len(sended'), i > 1 PROVE buf'[sended'[i]] = <<>>
    <3>1. i - 1 \in 1 .. Len(sended) /\ i \in 2 .. Len(sended) + 1
      BY <1>4, <2>1
    <3>2. sended'[i] = sended[i - 1] /\ sended[i - 1] \in Range(sended) /\ sended[i - 1] \in Bufs
      BY <1>4, <3>1, RangeFacts, ElementOfSeq
    <3>3. buf[sended[i - 1]] = <<>>
      BY <1>1, <3>1 DEF IInv, Contents
    <3> QED BY <1>3, <3>2, <3>3
  <2>2. ASSUME NEW b \in Range(sended') PROVE Len(buf'[b]) < RxSize
    <3>1. CASE b = temp
      <4>1. len < RxSize - Len(buf[temp]) /\ RxSize \in Nat
        BY <1>1, Facts DEF Room
      <4> QED BY <1>2, <1>3, <3>1, <4>1
    <3>2. CASE b # temp
      BY <1>3, <1>4, <3>2, RangeFacts DEF IInv, Contents
    <3> QED BY <3>1, <3>2
  <2> QED BY <1>1, <1>3, <1>5, <2>1, <2>2 DEF Contents
<1>11. Unread' = Append(q, temp)
  <2>1. /\ toSend \in Seq(Bufs) /\ sended' \in Seq(Bufs) /\ eof \in BOOLEAN
        /\ eof => toSend # <<>>
        /\ pc' = "copy" => temp' \in Bufs
    BY <1>1, <1>4 DEF IInv, TypeOK, LinkRight
  <2>2. pc' # "copy" /\ sended' # <<>>
    BY <1>1, <1>4
  <2>3. Chain(toSend, sended', eof, pc', temp') = Append(Queued(toSend, eof), Head(sended'))
    <3>1. pc' # "copy" /\ sended' # <<>> =>
            Chain(toSend, sended', eof, pc', temp') = Append(Queued(toSend, eof), Head(sended'))
      BY <2>1, ChainCases
    <3> QED BY <2>2, <3>1
  <2> QED BY <1>1, <1>4, <2>3, UnreadNext
<1>12. Chained' /\ InOrder'
  BY <1>1, <1>3, <1>11 DEF IInv, Chained, InOrder
<1> QED BY <1>6, <1>7, <1>8, <1>9, <1>10, <1>12 DEF IInv

LEMMA QueueKeepsIInv ==
    ASSUME IInv, Queue
    PROVE  IInv'
<1> DEFINE q == Queued(toSend, eof)
<1>1. /\ UNCHANGED <<sended, sTail, eof, received>>
      /\ pc = "copy" /\ temp' = NoBuf /\ tTail' = temp /\ len >= Room /\ Copy(Room)
      /\ pc' = IF len > Room THEN "again" ELSE "check"
  BY DEF Queue
<1>2. Room \in Nat /\ Room <= len /\ Room <= Room /\ len \in Nat /\ RxSize \in Nat \ {0}
      /\ Room = RxSize - Len(buf[temp]) /\ Len(buf[temp]) \in Nat
  <2>1. temp \in Bufs /\ Len(buf[temp]) < RxSize /\ buf[temp] \in Seq(1 .. MaxBytes)
    BY <1>1, Facts DEF IInv, Contents, Filling, TypeOK
  <2>2. Len(buf[temp]) \in Nat
    BY <2>1, LenProperties
  <2>3. len \in Nat
    BY SdioAssumption DEF IInv, TypeOK
  <2> QED BY <1>1, <2>1, <2>2, <2>3, SdioAssumption DEF Room
<1>3. /\ temp \in Bufs
      /\ buf' \in [Bufs -> Seq(1 .. MaxBytes)] /\ Len(buf'[temp]) = Len(buf[temp]) + Room
      /\ \A b \in Bufs : b # temp => buf'[b] = buf[b]
      /\ \A b \in Bufs : Len(buf'[b]) <= RxSize
      /\ accepted' \in 0 .. MaxBytes /\ len' \in 0 .. MaxLen /\ accepted' + len' <= MaxBytes
      /\ len' = len - Room
      /\ temp \notin Range(toSend) /\ temp \notin Range(sended)
      /\ Covers(Append(q, temp), buf', Len(received'), accepted')
  BY <1>1, <1>2, Copied
<1>4. buf'[temp] # <<>>
  BY <1>2, <1>3, EmptyFacts
<1>5. toSend \in Seq(Bufs) /\ sended \in Seq(Bufs) /\ eof \in BOOLEAN /\ (eof => toSend # <<>>)
  BY DEF IInv, TypeOK, LinkRight
\* The queue, whether there was one or not.
<1>6. /\ toSend' = Append(toSend, temp)
      /\ toSend = <<>> => rx' = temp /\ has_read' = FALSE /\ Head(toSend') = temp
      /\ toSend # <<>> => rx' = rx /\ has_read' = has_read /\ Head(toSend') = Head(toSend)
  <2>1. CASE toSend = <<>>
    <3>1. toSend' = <<temp>> /\ sdio_try_to_load(toSend') /\ toSend' # <<>> /\ Head(toSend') = temp
      BY <2>1 DEF Queue
    <3>2. has_read
      BY <2>1 DEF IInv, LinkRight
    <3>3. Load(temp)
      BY <3>1, <3>2 DEF sdio_try_to_load
    <3>4. toSend' = Append(toSend, temp)
      BY <2>1, <3>1
    <3> QED BY <1>4, <2>1, <3>1, <3>3, <3>4 DEF Load
  <2>2. CASE toSend # <<>>
    <3>1. toSend' = Linked(toSend, tTail, temp) /\ rx' = rx /\ has_read' = has_read
      BY <2>2 DEF Queue, link
    <3>2. tTail = Last(toSend) /\ NoRepeats(toSend)
      BY <2>2 DEF IInv, TailsRight, Placed
    <3>3. toSend' = Append(toSend, temp)
      BY <1>5, <2>2, <3>1, <3>2, LinkedAtEnd
    <3> QED BY <1>3, <1>5, <2>2, <3>1, <3>3, AppendFacts
  <2> QED BY <2>1, <2>2
<1>7. /\ toSend' \in Seq(Bufs) /\ toSend' # <<>> /\ Range(toSend') = Range(toSend) \cup {temp}
      /\ Last(toSend') = temp /\ NoRepeats(toSend')
  BY <1>3, <1>5, <1>6, AppendFacts, SMTT(30) DEF IInv, Placed
<1>8. Filling = {temp} /\ Filling' = {} /\ pc' # "copy" /\ pc' \in {"again", "check"}
  BY <1>1 DEF Filling
<1>9. rx' \in Bufs \cup {NoBuf} /\ has_read' \in BOOLEAN
  BY <1>3, <1>6 DEF IInv, TypeOK
<1>10. TypeOK'
  BY <1>1, <1>3, <1>7, <1>8, <1>9 DEF IInv, TypeOK
<1>11. TailsRight' /\ LastTaken'
  BY <1>1, <1>7, <1>8 DEF IInv, TailsRight, LastTaken
<1>12. Placed'
  BY <1>1, <1>3, <1>7, <1>8 DEF IInv, Placed
<1>13. LinkRight'
  <2>1. CASE toSend = <<>>
    BY <1>1, <1>4, <1>5, <1>6, <1>7, <2>1 DEF LinkRight
  <2>2. CASE toSend # <<>>
    <3>1. rx # NoBuf => rx = Head(toSend) /\ ~eof /\ buf[rx] # <<>> /\ rx \in Range(toSend) /\ rx \in Bufs
      BY <1>5, <2>2, TailFacts DEF IInv, LinkRight
    <3>2. rx # NoBuf => buf'[rx] = buf[rx]
      BY <1>3, <3>1
    <3> QED BY <1>1, <1>6, <1>7, <2>2, <3>1, <3>2 DEF IInv, LinkRight
  <2> QED BY <2>1, <2>2
<1>14. \A i \in 1 .. Len(sended) : buf'[sended[i]] = <<>> /\ sended[i] \in Range(sended)
  <2>1. ASSUME NEW i \in 1 .. Len(sended) PROVE buf'[sended[i]] = <<>> /\ sended[i] \in Range(sended)
    <3>1. sended[i] \in Range(sended) /\ sended[i] \in Bufs
      BY <1>5, RangeFacts, ElementOfSeq
    <3>2. buf[sended[i]] = <<>>
      BY <1>1 DEF IInv, Contents
    <3> QED BY <1>3, <3>1, <3>2
  <2> QED BY <2>1
<1>15. Contents'
  <2>1. \A b \in Range(sended) : Len(buf'[b]) < RxSize
    <3>1. \A b \in Range(sended) : b \in Bufs /\ b # temp /\ Len(buf[b]) < RxSize
      BY <1>3, <1>5, RangeFacts DEF IInv, Contents
    <3> QED BY <1>3, <3>1
  <2>2. pc' = "again" => len' > 0
    BY <1>1, <1>2, <1>3
  <2> QED BY <1>1, <1>3, <1>8, <1>14, <2>1, <2>2 DEF Contents
<1>16. Queued(toSend', eof') = Append(q, temp)
  <2>1. ASSUME toSend # <<>> PROVE Tail(Append(toSend, temp)) = Append(Tail(toSend), temp)
    BY <1>5, <2>1, HeadTailAppend
  <2> QED BY <1>1, <1>5, <1>6, <2>1 DEF Queued
<1>17. q \in Seq(Bufs) /\ Append(q, temp) \in Seq(Bufs)
  BY <1>3, Facts, AppendFacts
<1> HIDE DEF q
<1>18. Chained'
  <2>1. /\ toSend' \in Seq(Bufs) /\ sended' \in Seq(Bufs) /\ eof' \in BOOLEAN
        /\ eof' => toSend' # <<>>
        /\ pc' = "copy" => temp' \in Bufs
    BY <1>1, <1>5, <1>7, <1>8
  <2>2. CASE sended = <<>>
    <3>1. Partial(sended', pc', temp') = <<>>
      BY <1>1, <1>8, <2>2 DEF Partial
    <3>2. Unread' = Append(q, temp)
      BY <1>16, <1>17, <3>1, UnreadNext, ConcatEmptySeq DEF Chain
    <3> QED BY <1>3, <3>2 DEF Chained, q
  <2>3. CASE sended # <<>>
    <3> DEFINE h == Head(sended)
    <3>1. pc' # "copy" /\ sended' # <<>> =>
            Chain(toSend', sended', eof', pc', temp') = Append(Queued(toSend', eof'), Head(sended'))
      BY <2>1, ChainCases
    <3>2. Unread' = Append(Append(q, temp), h)
      BY <1>1, <1>8, <1>16, <2>3, <3>1, UnreadNext
    <3>3. h \in Bufs /\ buf'[h] = <<>>
      <4>1. h \in Bufs /\ h = sended[1] /\ 1 \in 1 .. Len(sended)
        BY <1>5, <2>3, TailFacts
      <4> QED BY <1>14, <4>1
    <3>4. Covers(Append(q, temp), buf', Len(received'), accepted')
      BY <1>3 DEF q
    <3> HIDE DEF h
    <3>5. Covers(Append(Append(q, temp), h), buf', Len(received'), accepted')
      BY <1>17, <3>3, <3>4, ChainLonger
    <3> QED BY <3>2, <3>5 DEF Chained
  <2> QED BY <2>2, <2>3
<1>19. InOrder'
  BY <1>1 DEF IInv, InOrder
<1> QED BY <1>10, <1>11, <1>12, <1>13, <1>15, <1>18, <1>19 DEF IInv

LEMMA FinishKeepsIInv ==
    ASSUME IInv, Finish
    PROVE  IInv'
<1>1. /\ UNCHANGED <<sTail, eof, temp, accepted, received>>
      /\ pc \in {"check", "broke"} /\ pc' = "idle" /\ len' = 0
  BY DEF Finish
<1>2. Filling = {} /\ Filling' = {} /\ 0 \in 0 .. MaxLen /\ accepted \in 0 .. MaxBytes
      /\ MaxBytes \in Nat
  BY <1>1, SdioAssumption DEF Filling, IInv, TypeOK
<1>3. CASE toSend # <<>>
  <2>1. UNCHANGED <<toSend, tTail, sended, buf, has_read, rx>>
    BY <1>3 DEF Finish, link
  <2>2. Unread' = Unread
    BY <1>1, <2>1, SameLists DEF lists
  <2>3. TypeOK' /\ TailsRight' /\ LastTaken' /\ LinkRight'
    BY <1>1, <1>2, <2>1 DEF IInv, TypeOK, TailsRight, LastTaken, LinkRight
  <2>4. Placed'
    BY <1>2, <2>1 DEF IInv, Placed
  <2>5. Contents'
    BY <1>1, <1>2, <2>1 DEF IInv, Contents
  <2>6. Chained' /\ InOrder'
    BY <1>1, <2>1, <2>2 DEF IInv, Chained, InOrder
  <2> QED BY <2>3, <2>4, <2>5, <2>6 DEF IInv
<1>4. CASE toSend = <<>>
  <2> DEFINE h == Head(sended)
             r == Tail(sended)
  <2>1. /\ toSend' = <<h>> /\ tTail' = h /\ sended' = r /\ buf' = buf
        /\ sdio_try_to_load(toSend')
    BY <1>4 DEF Finish
  <2>2. ~eof /\ Queued(toSend, eof) = <<>> /\ sended # <<>> /\ Unread = Append(<<>>, h)
    BY <1>1, <1>4, Facts
  <2>3. /\ h \in Bufs /\ h = sended[1] /\ r \in Seq(Bufs) /\ sended \in Seq(Bufs)
        /\ Len(sended) \in Nat \ {0} /\ Len(r) = Len(sended) - 1
        /\ \A i \in 1 .. Len(r) : r[i] = sended[i + 1]
        /\ Range(sended) = {h} \cup Range(r)
        /\ r # <<>> => Last(r) = Last(sended)
        /\ NoRepeats(r) /\ h \notin Range(r)
    BY <2>2, TailFacts, SMTT(30) DEF IInv, TypeOK, Placed
  <2>4. /\ toSend' \in Seq(Bufs) /\ toSend' # <<>> /\ Range(toSend') = {h} /\ NoRepeats(toSend')
        /\ Last(toSend') = h /\ Head(toSend') = h
    BY <2>1, <2>3, SingleFacts
  <2>5. has_read /\ rx = NoBuf /\ Load(h)
    <3>1. has_read /\ rx = NoBuf
      BY <1>4 DEF IInv, LinkRight
    <3> HIDE DEF h, r
    <3> QED BY <2>1, <2>4, <3>1 DEF sdio_try_to_load
  <2> HIDE DEF h, r
  <2>6. has_read' = FALSE /\ (rx' = NoBuf \/ (rx' = h /\ buf'[h] # <<>>))
    BY <2>5 DEF Load
  <2>7. TypeOK'
    BY <1>1, <1>2, <2>1, <2>3, <2>4, <2>6 DEF IInv, TypeOK
  <2>8. TailsRight' /\ LastTaken'
    BY <1>1, <2>1, <2>2, <2>3, <2>4 DEF IInv, TailsRight, LastTaken
  <2>9. Placed'
    <3>1. Range(toSend) = {}
      BY <1>4, EmptyFacts
    <3> QED BY <1>2, <2>1, <2>3, <2>4, <3>1 DEF IInv, Placed
  <2>10. LinkRight'
    BY <1>1, <2>2, <2>4, <2>6 DEF LinkRight
  <2>11. \A i \in 1 .. Len(r) : buf'[r[i]] = <<>>
    <3>1. \A i \in 1 .. Len(r) : i + 1 \in 1 .. Len(sended) /\ i + 1 > 1
      BY <2>3
    <3>2. \A i \in 1 .. Len(sended) : i > 1 => buf[sended[i]] = <<>>
      BY DEF IInv, Contents
    <3>3. \A i \in 1 .. Len(r) : buf[sended[i + 1]] = <<>>
      BY <3>1, <3>2
    <3> QED BY <2>1, <2>3, <3>3
  <2>12. Contents'
    BY <1>1, <1>2, <2>1, <2>3, <2>11 DEF IInv, Contents
  <2>13. Covers(Unread, buf', Len(received'), accepted') /\ Unread \in Seq(Bufs)
    BY <1>1, <2>1, Facts
  <2>14. Queued(toSend', eof') = Unread
    BY <1>1, <2>1, <2>2 DEF Queued
  <2>15. Chained'
    <3>1. CASE r = <<>>
      <4>1. Partial(sended', pc', temp') = <<>>
        BY <1>1, <2>1, <3>1 DEF Partial
      <4>2. Unread' = Unread
        BY <2>13, <2>14, <4>1, UnreadNext, ConcatEmptySeq DEF Chain
      <4> QED BY <2>13, <4>2 DEF Chained
    <3>2. CASE r # <<>>
      <4>1. Head(r) \in Bufs /\ buf'[Head(r)] = <<>>
        <5>1. Head(r) \in Bufs /\ Head(r) = r[1] /\ 1 \in 1 .. Len(r)
          BY <2>3, <3>2, TailFacts
        <5> QED BY <2>11, <5>1
      <4>2. Partial(sended', pc', temp') = <<Head(r)>>
        BY <1>1, <2>1, <3>2 DEF Partial
      <4>3. Unread' = Append(Unread, Head(r))
        BY <2>13, <2>14, <4>1, <4>2, UnreadNext, AppendIsConcat DEF Chain
      <4> QED BY <2>13, <4>1, <4>3, ChainLonger DEF Chained
    <3> QED BY <3>1, <3>2
  <2>16. InOrder'
    BY <1>1 DEF IInv, InOrder
  <2> QED BY <2>7, <2>8, <2>9, <2>10, <2>12, <2>15, <2>16 DEF IInv
<1> QED BY <1>3, <1>4

\* What the interrupt finds and what it does to the buffer that was read.
LEMMA ReadDone ==
    ASSUME IInv, sdio_read_done_process,
           NEW h, h = Head(toSend), NEW t, t = Tail(toSend), NEW f, f = Append(sended, h)
    PROVE  /\ UNCHANGED <<pc, temp, len, accepted, received>> /\ pc \notin {"again", "check"}
           /\ toSend # <<>> /\ eof' = FALSE /\ rx = NoBuf /\ Freed = f /\ h \in Bufs
           /\ Filling' = Filling /\ h \notin Filling
           /\ sTail' = h /\ buf' = Emptied /\ buf'[h] = <<>>
           /\ buf' \in [Bufs -> Seq(1 .. MaxBytes)] /\ \A b \in Bufs : Len(buf'[b]) <= RxSize
           /\ \A b \in Bufs : b # h => buf'[b] = buf[b]
           /\ t \in Seq(Bufs) /\ NoRepeats(t) /\ Range(toSend) = {h} \cup Range(t)
           /\ h \notin Range(t) /\ Len(t) \in Nat /\ Len(toSend) = Len(t) + 1
           /\ t # <<>> => toSend[2] = Head(t) /\ Last(t) = Last(toSend)
           /\ f \in Seq(Bufs) /\ f # <<>> /\ NoRepeats(f) /\ Range(f) = Range(sended) \cup {h}
           /\ Last(f) = h /\ Len(f) = Len(sended) + 1 /\ Len(sended) \in Nat
           /\ sended # <<>> => Head(f) = Head(sended)
           /\ sended = <<>> => Head(f) = h
           /\ \A i \in 1 .. Len(f) : i > 1 \/ pc = "copy" => buf'[f[i]] = <<>>
           /\ \A b \in Range(f) \cup Filling : Len(buf'[b]) < RxSize
           /\ Queued(toSend, eof) = t
           /\ Unread \in Seq(Bufs) /\ Covers(Unread, buf', Len(received), accepted)
<1>1. /\ UNCHANGED <<pc, temp, len, accepted, received>> /\ pc \notin {"again", "check"}
      /\ eof' = FALSE /\ sTail' = Head(toSend) /\ buf' = Emptied /\ eof
  BY DEF sdio_read_done_process, caller, Masked
<1>2. toSend # <<>> /\ rx = NoBuf
  BY <1>1 DEF IInv, LinkRight
<1>3. /\ toSend \in Seq(Bufs) /\ sended \in Seq(Bufs) /\ buf \in [Bufs -> Seq(1 .. MaxBytes)]
      /\ NoRepeats(toSend) /\ NoRepeats(sended) /\ Range(toSend) \cap Range(sended) = {}
      /\ Filling \cap (Range(toSend) \cup Range(sended)) = {}
      /\ Range(sended) \subseteq Bufs /\ Filling \subseteq Bufs
  BY DEF IInv, TypeOK, Placed
<1>4. /\ h \in Bufs /\ t \in Seq(Bufs) /\ NoRepeats(t) /\ Range(toSend) = {h} \cup Range(t)
      /\ h \notin Range(t) /\ Len(toSend) = Len(t) + 1 /\ Len(t) \in Nat
      /\ \A i \in 1 .. Len(t) : t[i] = toSend[i + 1]
      /\ t # <<>> => Last(t) = Last(toSend)
  BY <1>2, <1>3, TailFacts, LenProperties
<1>5. h \notin Filling /\ h \notin Range(sended) /\ Filling' = Filling
  BY <1>1, <1>3, <1>4 DEF Filling
<1>6. t # <<>> => toSend[2] = Head(t)
  <2>1. ASSUME t # <<>> PROVE toSend[2] = Head(t)
    <3>1. Head(t) = t[1] /\ Len(t) \in Nat \ {0}
      BY <1>4, <2>1, TailFacts
    <3> QED BY <1>4, <3>1
  <2> QED BY <2>1
<1>7. /\ f \in Seq(Bufs) /\ f # <<>> /\ NoRepeats(f) /\ Range(f) = Range(sended) \cup {h}
      /\ Last(f) = h /\ Len(f) = Len(sended) + 1 /\ Len(sended) \in Nat
      /\ \A i \in 1 .. Len(sended) : f[i] = sended[i]
      /\ f[Len(sended) + 1] = h
  <2>1. h \in Bufs /\ sended \in Seq(Bufs) /\ NoRepeats(sended) /\ h \notin Range(sended)
    BY <1>3, <1>4, <1>5
  <2> QED BY <2>1, AppendFacts, AppendProperties, LenProperties
<1>8. Head(f) = IF sended = <<>> THEN h ELSE Head(sended)
  BY <1>3, HeadTailAppend
<1>9. Freed = f
  BY <1>2, FreedIs
<1>10. /\ buf' \in [Bufs -> Seq(1 .. MaxBytes)] /\ buf'[h] = <<>>
       /\ \A b \in Bufs : b # h => buf'[b] = buf[b]
  <2>1. <<>> \in Seq(1 .. MaxBytes)
    BY EmptySeq
  <2> QED BY <1>1, <1>3, <1>4, <2>1 DEF Emptied
<1>11. RxSize \in Nat \ {0} /\ Len(buf'[h]) = 0
  BY <1>10, EmptyFacts, SdioAssumption
<1>12. \A b \in Bufs : Len(buf'[b]) <= RxSize
  <2>1. \A b \in Bufs : Len(buf[b]) <= RxSize
    BY DEF IInv, TypeOK
  <2>2. ASSUME NEW b \in Bufs PROVE Len(buf'[b]) <= RxSize
    BY <1>10, <1>11, <2>1, SMTT(30)
  <2> QED BY <2>2
<1>13. \A i \in 1 .. Len(f) : i > 1 \/ pc = "copy" => buf'[f[i]] = <<>>
  <2>1. ASSUME NEW i \in 1 .. Len(f), i > 1 \/ pc = "copy" PROVE buf'[f[i]] = <<>>
    <3>1. CASE i = Len(sended) + 1
      BY <1>7, <1>10, <3>1
    <3>2. CASE i # Len(sended) + 1
      <4>1. i \in 1 .. Len(sended) /\ f[i] = sended[i]
        BY <1>7, <3>2
      <4>2. buf[sended[i]] = <<>> /\ sended[i] \in Bufs
        BY <1>3, <2>1, <4>1, ElementOfSeq DEF IInv, Contents
      <4> QED BY <1>10, <4>1, <4>2
    <3> QED BY <3>1, <3>2
  <2> QED BY <2>1
<1>14. \A b \in Range(f) \cup Filling : Len(buf'[b]) < RxSize
  <2>1. \A b \in Range(sended) \cup Filling : Len(buf[b]) < RxSize
    BY DEF IInv, Contents
  <2>2. ASSUME NEW b \in Range(f) \cup Filling PROVE Len(buf'[b]) < RxSize
    <3>1. b = h \/ (b # h /\ b \in Bufs /\ b \in Range(sended) \cup Filling)
      BY <1>3, <1>7
    <3>2. b # h => buf'[b] = buf[b] /\ Len(buf[b]) < RxSize
      BY <1>10, <2>1, <3>1
    <3> QED BY <1>11, <3>1, <3>2
  <2> QED BY <2>2
<1>15. Queued(toSend, eof) = t
  BY <1>1 DEF Queued
<1>16. Unread \in Seq(Bufs) /\ h \notin Range(Unread) /\ Covers(Unread, buf, Len(received), accepted)
  <2>1. Unread \in Seq(Bufs) /\ Covers(Unread, buf, Len(received), accepted)
    BY Facts
  <2>2. Range(Unread) \subseteq Range(t) \cup Filling \cup Range(sended)
    BY <1>15, UnreadRange
  <2> QED BY <1>4, <1>5, <2>1, <2>2
<1>17. Covers(Unread, buf', Len(received), accepted)
  <2>1. \A b \in Range(Unread) : buf'[b] = buf[b]
    BY <1>10, <1>16, RangeFacts
  <2> QED BY <1>16, <2>1, ChainElsewhere
<1> QED BY <1>1, <1>2, <1>4, <1>5, <1>6, <1>7, <1>8, <1>9, <1>10, <1>12, <1>13, <1>14, <1>15,
           <1>16, <1>17

\* Two of the three ends of the interrupt: the rest of the queue stays, or there
\* is none and nothing waits.
LEMMA ReadDoneKeeps ==
    ASSUME IInv, sdio_read_done_process, toSend' = Tail(toSend), sended' = Freed, tTail' = tTail,
           has_read' \in BOOLEAN, has_read' <=> toSend' = <<>>,
           rx' # NoBuf => toSend' # <<>> /\ rx' = Head(toSend') /\ buf'[rx'] # <<>>
    PROVE  IInv'
<1> DEFINE h == Head(toSend)
           t == Tail(toSend)
           f == Append(sended, h)
<1>1. /\ UNCHANGED <<pc, temp, len, accepted, received>> /\ pc \notin {"again", "check"}
      /\ eof' = FALSE /\ Freed = f /\ h \in Bufs
      /\ Filling' = Filling /\ h \notin Filling
      /\ sTail' = h /\ buf'[h] = <<>>
      /\ buf' \in [Bufs -> Seq(1 .. MaxBytes)] /\ \A b \in Bufs : Len(buf'[b]) <= RxSize
      /\ t \in Seq(Bufs) /\ NoRepeats(t) /\ Range(toSend) = {h} \cup Range(t)
      /\ h \notin Range(t)
      /\ t # <<>> => Last(t) = Last(toSend)
      /\ f \in Seq(Bufs) /\ f # <<>> /\ NoRepeats(f) /\ Range(f) = Range(sended) \cup {h}
      /\ Last(f) = h
      /\ sended # <<>> => Head(f) = Head(sended)
      /\ sended = <<>> => Head(f) = h
      /\ \A i \in 1 .. Len(f) : i > 1 \/ pc = "copy" => buf'[f[i]] = <<>>
      /\ \A b \in Range(f) \cup Filling : Len(buf'[b]) < RxSize
      /\ Queued(toSend, eof) = t
      /\ Unread \in Seq(Bufs) /\ Covers(Unread, buf', Len(received), accepted)
      /\ toSend # <<>>
  <2>1. /\ UNCHANGED <<pc, temp, len, accepted, received>> /\ pc \notin {"again", "check"}
        /\ eof' = FALSE /\ Freed = f /\ h \in Bufs
        /\ Filling' = Filling /\ h \notin Filling
        /\ sTail' = h /\ buf'[h] = <<>>
    BY ReadDone
  <2>2. /\ buf' \in [Bufs -> Seq(1 .. MaxBytes)] /\ \A b \in Bufs : Len(buf'[b]) <= RxSize
        /\ t \in Seq(Bufs) /\ NoRepeats(t) /\ Range(toSend) = {h} \cup Range(t)
        /\ h \notin Range(t)
        /\ t # <<>> => Last(t) = Last(toSend)
    BY ReadDone
  <2>3. f \in Seq(Bufs) /\ f # <<>> /\ NoRepeats(f)
    BY ReadDone
  <2>4. Range(f) = Range(sended) \cup {h} /\ Last(f) = h
    BY ReadDone
  <2>5. (sended # <<>> => Head(f) = Head(sended)) /\ (sended = <<>> => Head(f) = h)
    BY ReadDone
  <2>6. \A i \in 1 .. Len(f) : i > 1 \/ pc = "copy" => buf'[f[i]] = <<>>
    BY ReadDone, ZenonT(40)
  <2>7. \A b \in Range(f) \cup Filling : Len(buf'[b]) < RxSize
    BY ReadDone
  <2>8. /\ Queued(toSend, eof) = t
        /\ Unread \in Seq(Bufs) /\ Covers(Unread, buf', Len(received), accepted)
        /\ toSend # <<>>
    BY ReadDone
  <2> QED BY <2>1, <2>2, <2>3, <2>4, <2>5, <2>6, <2>7, <2>8
<1>2. toSend' = t /\ sended' = f
  BY <1>1
<1> HIDE DEF h, t, f
<1>3. rx' \in Bufs \cup {NoBuf}
  <2>1. t # <<>> => Head(t) \in Bufs
    BY <1>1, TailFacts
  <2> QED BY <1>2, <2>1
<1>4. TypeOK'
  BY <1>1, <1>2, <1>3 DEF IInv, TypeOK
<1>5. TailsRight' /\ LastTaken'
  BY <1>1, <1>2 DEF IInv, TailsRight, LastTaken
<1>6. Placed'
  BY <1>1, <1>2, ZenonT(40) DEF IInv, Placed
<1>7. LinkRight'
  BY <1>1 DEF LinkRight
<1>8. Contents'
  BY <1>1, <1>2 DEF IInv, Contents
<1>9. Unread' = t \o Partial(f, pc, temp)
  BY <1>1, <1>2, UnreadNext DEF Chain, Queued
<1>10. Chained'
  <2>1. CASE pc = "copy"
    <3>1. temp \in Bufs /\ Unread = Append(t, temp) /\ Partial(f, pc, temp) = <<temp>>
      BY <1>1, <2>1, Facts DEF Partial
    <3>2. Unread' = Unread
      BY <1>1, <1>9, <3>1, AppendIsConcat
    <3> QED BY <1>1, <3>2 DEF Chained
  <2>2. CASE pc # "copy" /\ sended # <<>>
    <3>1. Unread = Append(t, Head(sended)) /\ Partial(f, pc, temp) = <<Head(sended)>> /\ Head(sended) \in Bufs
      BY <1>1, <2>2, Facts, TailFacts DEF Partial, IInv, TypeOK
    <3>2. Unread' = Unread
      BY <1>1, <1>9, <3>1, AppendIsConcat
    <3> QED BY <1>1, <3>2 DEF Chained
  <2>3. CASE pc # "copy" /\ sended = <<>>
    <3>1. Unread = t /\ Partial(f, pc, temp) = <<h>>
      BY <1>1, <2>3, Facts DEF Partial
    <3>2. Unread' = Append(Unread, h)
      BY <1>1, <1>9, <3>1, AppendIsConcat
    <3> QED BY <1>1, <3>2, ChainLonger DEF Chained
  <2> QED BY <2>1, <2>2, <2>3
<1>11. InOrder'
  BY <1>1 DEF IInv, InOrder
<1> QED BY <1>4, <1>5, <1>6, <1>7, <1>8, <1>10, <1>11 DEF IInv

\* The third: the queue ends, and the partly filled buffer is sent.
LEMMA PartSentKeeps ==
    ASSUME IInv, sdio_read_done_process, Len(toSend) = 1, PartWaits,
           toSend' = <<Head(Freed)>>, tTail' = Head(Freed), sended' = Tail(Freed), Load(Head(Freed))
    PROVE  IInv'
<1> DEFINE h == Head(toSend)
           f == Append(sended, h)
           g == Head(f)
           r == Tail(f)
<1>1. /\ UNCHANGED <<pc, temp, len, accepted, received>> /\ pc \notin {"again", "check"}
      /\ eof' = FALSE /\ Freed = f /\ h \in Bufs
      /\ Filling' = Filling /\ h \notin Filling
      /\ sTail' = h /\ buf'[h] = <<>> /\ buf' = Emptied
      /\ buf' \in [Bufs -> Seq(1 .. MaxBytes)] /\ \A b \in Bufs : Len(buf'[b]) <= RxSize
      /\ Range(toSend) = {h} \cup Range(Tail(toSend))
      /\ h \notin Range(Tail(toSend)) /\ Len(toSend) = Len(Tail(toSend)) + 1
      /\ Len(Tail(toSend)) \in Nat /\ Tail(toSend) \in Seq(Bufs)
      /\ f \in Seq(Bufs) /\ f # <<>> /\ NoRepeats(f) /\ Range(f) = Range(sended) \cup {h}
      /\ Last(f) = h /\ Len(f) = Len(sended) + 1 /\ Len(sended) \in Nat
      /\ sended # <<>> => Head(f) = Head(sended)
      /\ sended = <<>> => Head(f) = h
      /\ \A i \in 1 .. Len(f) : i > 1 \/ pc = "copy" => buf'[f[i]] = <<>>
      /\ \A b \in Range(f) \cup Filling : Len(buf'[b]) < RxSize
      /\ Queued(toSend, eof) = Tail(toSend)
      /\ Unread \in Seq(Bufs) /\ Covers(Unread, buf', Len(received), accepted)
      /\ toSend # <<>> /\ rx = NoBuf
  <2>1. /\ UNCHANGED <<pc, temp, len, accepted, received>> /\ pc \notin {"again", "check"}
        /\ eof' = FALSE /\ Freed = f /\ h \in Bufs
        /\ Filling' = Filling /\ h \notin Filling
        /\ sTail' = h /\ buf'[h] = <<>> /\ buf' = Emptied
    BY ReadDone
  <2>2. /\ buf' \in [Bufs -> Seq(1 .. MaxBytes)] /\ \A b \in Bufs : Len(buf'[b]) <= RxSize
        /\ Range(toSend) = {h} \cup Range(Tail(toSend))
        /\ h \notin Range(Tail(toSend)) /\ Len(toSend) = Len(Tail(toSend)) + 1
        /\ Len(Tail(toSend)) \in Nat /\ Tail(toSend) \in Seq(Bufs)
    BY ReadDone
  <2>3. /\ f \in Seq(Bufs) /\ f # <<>> /\ NoRepeats(f) /\ Range(f) = Range(sended) \cup {h}
        /\ Last(f) = h /\ Len(f) = Len(sended) + 1 /\ Len(sended) \in Nat
        /\ sended # <<>> => Head(f) = Head(sended)
        /\ sended = <<>> => Head(f) = h
    BY ReadDone
  <2>4. \A i \in 1 .. Len(f) : i > 1 \/ pc = "copy" => buf'[f[i]] = <<>>
    BY ReadDone, ZenonT(40)
  <2>5. \A b \in Range(f) \cup Filling : Len(buf'[b]) < RxSize
    BY ReadDone
  <2>6. Queued(toSend, eof) = Tail(toSend)
    BY ReadDone
  <2>7. Unread \in Seq(Bufs) /\ Covers(Unread, buf', Len(received), accepted)
    BY ReadDone
  <2>8. /\ toSend # <<>> /\ rx = NoBuf
    BY ReadDone
  <2> QED BY <2>1, <2>2, <2>3, <2>4, <2>5, <2>6, <2>7, <2>8
<1>2. toSend' = <<g>> /\ tTail' = g /\ sended' = r /\ Load(g) /\ buf'[g] # <<>>
  BY <1>1 DEF PartWaits
<1>3. Tail(toSend) = <<>> /\ Range(Tail(toSend)) = {}
  <2>1. Tail(toSend) = <<>>
    BY <1>1, TailFacts DEF IInv, TypeOK
  <2> QED BY <2>1, EmptyFacts
<1> HIDE DEF h, f
<1>4. /\ g \in Bufs /\ g = f[1] /\ r \in Seq(Bufs) /\ Len(r) = Len(f) - 1
      /\ \A i \in 1 .. Len(r) : r[i] = f[i + 1]
      /\ Range(f) = {g} \cup Range(r)
      /\ r # <<>> => Last(r) = Last(f)
      /\ NoRepeats(r) /\ g \notin Range(r)
  BY <1>1, TailFacts
<1> HIDE DEF g, r
<1>5. sended # <<>> /\ pc # "copy" /\ g = Head(sended)
  <2>1. sended # <<>> /\ g = Head(sended)
    BY <1>1, <1>2 DEF g
  <2>2. pc # "copy"
    <3>1. 1 \in 1 .. Len(f)
      BY <1>1
    <3> QED BY <1>1, <1>2, <1>4, <3>1
  <2> QED BY <2>1, <2>2
<1>6. r # <<>>
  <2>1. Len(sended) # 0
    BY <1>5, EmptySeq DEF IInv, TypeOK
  <2> QED BY <1>1, <1>4, <2>1, EmptyFacts
<1>7. /\ toSend' \in Seq(Bufs) /\ toSend' # <<>> /\ Range(toSend') = {g} /\ NoRepeats(toSend')
      /\ Last(toSend') = g /\ Head(toSend') = g
  BY <1>2, <1>4, SingleFacts
<1>8. rx' = g /\ has_read' = FALSE
  BY <1>2 DEF Load
<1>9. TypeOK'
  BY <1>1, <1>2, <1>4, <1>7, <1>8 DEF IInv, TypeOK
<1>10. TailsRight' /\ LastTaken'
  BY <1>1, <1>2, <1>4, <1>5, <1>6, <1>7 DEF IInv, TailsRight, LastTaken
<1>11. Placed'
  <2>1. Filling = {} /\ Filling' = {}
    BY <1>1, <1>5 DEF Filling
  <2>2. Range(toSend) = {h} /\ Range(toSend) \cup Range(sended) = Bufs
    BY <1>1, <1>3, <2>1 DEF IInv, Placed
  <2>3. {g} \cup Range(r) = Bufs
    BY <1>1, <1>4, <2>2
  <2> QED BY <1>2, <1>4, <1>7, <2>1, <2>3, ZenonT(40) DEF Placed
<1>12. LinkRight'
  BY <1>1, <1>2, <1>7, <1>8 DEF LinkRight
<1>13. \A i \in 1 .. Len(r) : buf'[r[i]] = <<>>
  <2>1. \A i \in 1 .. Len(r) : i + 1 \in 1 .. Len(f) /\ i + 1 > 1
    BY <1>1, <1>4
  <2>2. \A i \in 1 .. Len(f) : i > 1 => buf'[f[i]] = <<>>
    BY <1>1
  <2>3. \A i \in 1 .. Len(r) : buf'[f[i + 1]] = <<>>
    BY <2>1, <2>2
  <2> QED BY <1>4, <2>3
<1>14. Contents'
  BY <1>1, <1>2, <1>4, <1>13 DEF IInv, Contents
<1>15. Chained'
  <2>1. Unread = Append(<<>>, g)
    BY <1>1, <1>3, <1>5, Facts
  <2>2. Queued(toSend', eof') = Unread
    BY <1>1, <1>2, <2>1 DEF Queued
  <2>3. Head(r) \in Bufs /\ buf'[Head(r)] = <<>>
    <3>1. Head(r) \in Bufs /\ Head(r) = r[1] /\ 1 \in 1 .. Len(r)
      BY <1>4, <1>6, TailFacts
    <3> QED BY <1>13, <3>1
  <2>4. Partial(sended', pc', temp') = <<Head(r)>>
    BY <1>1, <1>2, <1>5, <1>6 DEF Partial
  <2>5. Unread' = Append(Unread, Head(r))
    BY <1>1, <2>2, <2>3, <2>4, UnreadNext, AppendIsConcat DEF Chain
  <2> QED BY <1>1, <2>3, <2>5, ChainLonger DEF Chained
<1>16. InOrder'
  BY <1>1 DEF IInv, InOrder
<1> QED BY <1>9, <1>10, <1>11, <1>12, <1>14, <1>15, <1>16 DEF IInv

LEMMA ReadDoneKeepsIInv ==
    ASSUME IInv, sdio_read_done_process
    PROVE  IInv'
<1>1. Freed = Append(sended, Head(toSend)) /\ rx = NoBuf /\ toSend # <<>> /\ NoBuf \notin Bufs
  BY ReadDone, SdioAssumption
<1>2. toSend \in Seq(Bufs) /\ Tail(toSend) \in Seq(Bufs) /\ Len(Tail(toSend)) = Len(toSend) - 1
      /\ Len(toSend) \in Nat \ {0}
  BY <1>1, TailFacts DEF IInv, TypeOK
<1>3. CASE /\ Len(toSend) > 1 /\ toSend' = Tail(toSend) /\ sended' = Freed
           /\ Load(toSend[2]) /\ UNCHANGED tTail
  <2>1. Tail(toSend) # <<>> /\ toSend[2] = Head(Tail(toSend))
    <3>1. Tail(toSend) # <<>>
      BY <1>1, <1>2, <1>3, TailFacts
    <3> QED BY <3>1, ReadDone
  <2> QED BY <1>1, <1>3, <2>1, ReadDoneKeeps DEF Load
<1>4. CASE /\ Len(toSend) = 1 /\ PartWaits
           /\ toSend' = <<Head(Freed)>> /\ tTail' = Head(Freed) /\ sended' = Tail(Freed)
           /\ Load(Head(Freed))
  BY <1>4, PartSentKeeps
<1>5. CASE /\ Len(toSend) = 1 /\ ~PartWaits
           /\ toSend' = <<>> /\ sended' = Freed /\ has_read' = TRUE /\ UNCHANGED <<tTail, rx>>
  <2>1. Tail(toSend) = <<>>
    BY <1>1, <1>2, <1>5, TailFacts
  <2> QED BY <1>1, <1>5, <2>1, ReadDoneKeeps
<1> QED BY <1>3, <1>4, <1>5 DEF sdio_read_done_process

LEMMA NextKeepsIInv ==
    ASSUME IInv, [Next]_vars
    PROVE  IInv'
<1>1. CASE UNCHANGED vars
  <2>1. /\ UNCHANGED <<toSend, tTail, sended, sTail, buf, has_read, rx, eof>>
        /\ UNCHANGED <<pc, temp, len, accepted, received>>
    BY <1>1 DEF vars, lists, link, caller
  <2>2. Unread' = Unread /\ Filling' = Filling
    BY <2>1 DEF Unread, Filling
  <2>3. TypeOK' /\ TailsRight' /\ LastTaken' /\ LinkRight'
    BY <2>1 DEF IInv, TypeOK, TailsRight, LastTaken, LinkRight
  <2>4. Placed' /\ Contents' /\ Chained' /\ InOrder'
    BY <2>1, <2>2 DEF IInv, Placed, Contents, Chained, InOrder
  <2> QED BY <2>3, <2>4 DEF IInv
<1>2. ASSUME NEW n \in 1 .. MaxLen, at_sdio_response(n) PROVE IInv'
  BY <1>2, ResponseKeepsIInv
<1>3. CASE sdio_load_data
  BY <1>3, TakeKeepsIInv, PutBackKeepsIInv, QueueKeepsIInv, FinishKeepsIInv DEF sdio_load_data
<1>4. CASE HostRead
  BY <1>4, HostReadKeepsIInv
<1>5. CASE sdio_read_done_process
  BY <1>5, ReadDoneKeepsIInv
<1> QED BY <1>1, <1>2, <1>3, <1>4, <1>5 DEF Next

LEMMA Inductive == Spec => []IInv
<1>1. Init => IInv
  BY InitKeepsIInv
<1>2. IInv /\ [Next]_vars => IInv'
  BY NextKeepsIInv
<1> QED BY <1>1, <1>2, PTL DEF Spec

\* Every variable of the driver keeps its type: the lists hold buffers, a buffer
\* no more than RX_BUFFER_SIZE bytes, and the counters stay in their bounds.
THEOREM TypesPreserved == Spec => []TypeOK
<1>1. IInv => TypeOK
  BY DEF IInv
<1> QED BY <1>1, Inductive, PTL

LEMMA AllHeld ==
    ASSUME IInv
    PROVE  BuffersConserved
<1> DEFINE both == toSend \o sended
           third == IF pc = "copy" THEN <<temp>> ELSE <<>>
<1>1. /\ toSend \in Seq(Bufs) /\ sended \in Seq(Bufs) /\ NoRepeats(toSend) /\ NoRepeats(sended)
      /\ Range(toSend) \cap Range(sended) = {}
      /\ Filling \cap (Range(toSend) \cup Range(sended)) = {}
      /\ Range(toSend) \cup Range(sended) \cup Filling = Bufs
  BY DEF IInv, TypeOK, Placed
<1>2. both \in Seq(Bufs) /\ NoRepeats(both) /\ Range(both) = Range(toSend) \cup Range(sended)
  BY <1>1, ConcatProperties, ConcatNoRepeats, RangeConcatenation
<1>3. third \in Seq(Bufs) /\ NoRepeats(third) /\ Range(third) = Filling
  <2>1. CASE pc = "copy"
    BY <2>1, Facts, SingleFacts DEF Filling
  <2>2. CASE pc # "copy"
    BY <2>2, EmptyFacts, EmptySeq DEF Filling
  <2> QED BY <2>1, <2>2
<1> HIDE DEF both, third
<1>4. both \o third \in Seq(Bufs) /\ NoRepeats(both \o third) /\ Range(both \o third) = Bufs
  <2>1. Range(both) \cap Range(third) = {}
    BY <1>1, <1>2, <1>3
  <2>2. both \o third \in Seq(Bufs) /\ NoRepeats(both \o third)
    BY <1>2, <1>3, <2>1, ConcatProperties, ConcatNoRepeats
  <2>3. Range(both \o third) = Range(both) \cup Range(third)
    BY <1>2, <1>3, RangeConcatenation
  <2> QED BY <1>1, <1>2, <1>3, <2>2, <2>3
<1>5. Held = both \o third
  BY DEF Held, both, third
<1> QED BY <1>4, <1>5, LenIsCardinality DEF BuffersConserved

\* No buffer is lost from the lists of sdio_slv.c or linked twice, whatever the
\* interrupt does while the main program has taken one out to fill it.
THEOREM NoBufferLost == Spec => []BuffersConserved
<1>1. IInv => BuffersConserved
  BY AllHeld
<1> QED BY <1>1, Inductive, PTL

\* The tail pointer of a list that is not empty names its last buffer, so that
\* linking behind it loses nothing: the code leaves the pointers of an empty list
\* stale and, when the buffer being filled was the last free one, counts on them.
THEOREM TailsKept == Spec => []TailsRight
<1>1. IInv => TailsRight
  BY DEF IInv
<1> QED BY <1>1, Inductive, PTL

\* What the host reads is what the driver took over, from the first byte on, in
\* its order: byte for byte, none twice and none left out.
THEOREM ReadInOrder == Spec => []InOrder
<1>1. IInv => InOrder
  BY DEF IInv
<1> QED BY <1>1, Inductive, PTL

-----------------------------------------------------------------------------
(* A host that does not outrun the end of the loop. *)

\* All buffers are queued when none is free and none is being filled.
LEMMA AllQueued ==
    ASSUME IInv, sended = <<>>, pc # "copy"
    PROVE  Len(toSend) >= 2
<1>1. toSend \in Seq(Bufs) /\ NoRepeats(toSend) /\ Range(toSend) = Bufs
  <2>1. Range(sended) = {} /\ Filling = {}
    BY EmptyFacts DEF Filling
  <2> QED BY <2>1 DEF IInv, TypeOK, Placed
<1>2. Len(toSend) = Cardinality(Bufs)
  BY <1>1, LenIsCardinality
<1> QED BY <1>2, SdioAssumption

LEMMA InitBusy ==
    ASSUME Init
    PROVE  Busy
  BY EmptyFacts DEF Init, Busy, NeverWedged

LEMMA TakeKeepsBusy ==
    ASSUME IInv, Busy, Take
    PROVE  Busy'
<1>1. UNCHANGED <<toSend, buf, has_read, rx, eof>> /\ pc \in {"next", "again"}
  BY DEF Take, link
<1>2. NeverWedged' /\ \A b \in Range(toSend') : buf'[b] # <<>>
  BY <1>1 DEF Busy, NeverWedged
<1>3. pc' = "copy" \/ (pc' = "broke" /\ sended = <<>>)
  BY DEF Take
<1>4. pc' = "broke" => Len(toSend') > IF eof' THEN 1 ELSE 0
  <2>1. ASSUME pc' = "broke" PROVE Len(toSend) >= 2
    BY <1>1, <1>3, <2>1, AllQueued
  <2>2. Len(toSend) \in Nat
    BY LenProperties DEF IInv, TypeOK
  <2> QED BY <1>1, <2>1, <2>2
<1> QED BY <1>2, <1>3, <1>4 DEF Busy

LEMMA HostReadKeepsBusy ==
    ASSUME IInv, Busy, SlowHost, HostRead
    PROVE  Busy'
<1>1. /\ UNCHANGED <<toSend, sended, buf, pc>> /\ eof' = TRUE
      /\ pc = "broke" => Len(toSend) > 1
  BY DEF HostRead, lists, caller
<1>2. NeverWedged'
  BY <1>1 DEF NeverWedged
<1> QED BY <1>1, <1>2 DEF Busy

LEMMA ReadDoneKeepsBusy ==
    ASSUME IInv, Busy, sdio_read_done_process
    PROVE  Busy'
<1> DEFINE h == Head(toSend)
           t == Tail(toSend)
           f == Append(sended, h)
<1>1. /\ UNCHANGED <<pc, temp, len, accepted, received>> /\ pc \notin {"again", "check"}
      /\ eof' = FALSE /\ Freed = f /\ buf' = Emptied /\ toSend # <<>>
      /\ \A b \in Bufs : b # h => buf'[b] = buf[b]
      /\ t \in Seq(Bufs) /\ Range(toSend) = {h} \cup Range(t) /\ h \notin Range(t)
      /\ Len(t) \in Nat /\ Len(toSend) = Len(t) + 1
      /\ f \in Seq(Bufs) /\ f # <<>>
  <2>1. /\ UNCHANGED <<pc, temp, len, accepted, received>> /\ pc \notin {"again", "check"}
        /\ eof' = FALSE /\ Freed = f /\ buf' = Emptied /\ toSend # <<>>
    BY ReadDone
  <2>2. \A b \in Bufs : b # h => buf'[b] = buf[b]
    BY ReadDone
  <2>3. /\ t \in Seq(Bufs) /\ Range(toSend) = {h} \cup Range(t) /\ h \notin Range(t)
        /\ Len(t) \in Nat /\ Len(toSend) = Len(t) + 1
        /\ f \in Seq(Bufs) /\ f # <<>>
    BY ReadDone
  <2> QED BY <2>1, <2>2, <2>3
<1>2. t = <<>> <=> Len(toSend) = 1
  BY <1>1, TailFacts DEF IInv, TypeOK
<1>3. NoBuf \notin Bufs
  BY SdioAssumption
<1> HIDE DEF h, t, f
<1>4. \A b \in Range(t) : b \in Bufs /\ b # h /\ buf'[b] # <<>>
  <2>1. \A b \in Range(t) : b \in Bufs /\ b # h /\ buf[b] # <<>>
    BY <1>1, RangeFacts DEF Busy
  <2> QED BY <1>1, <2>1
<1>5. CASE Len(toSend) > 1 /\ toSend' = t /\ Load(toSend[2])
  <2>1. t # <<>> /\ Head(t) \in Range(t) /\ toSend[2] = Head(t)
    <3>1. t # <<>>
      BY <1>1, <1>2, <1>5
    <3>2. toSend[2] = Head(t)
      BY <3>1, ReadDone DEF t
    <3> QED BY <1>1, <3>1, <3>2, TailFacts
  <2>2. rx' = Head(t) /\ rx' # NoBuf
    BY <1>1, <1>4, <1>5, <1>3, <2>1 DEF Load
  <2>3. Len(toSend') > 0
    BY <1>1, <1>5
  <2> QED BY <1>1, <1>4, <1>5, <2>1, <2>2, <2>3 DEF Busy, NeverWedged
<1>6. CASE Len(toSend) = 1 /\ PartWaits /\ toSend' = <<Head(Freed)>> /\ Load(Head(Freed))
  <2> DEFINE g == Head(Freed)
  <2>1. g \in Bufs /\ buf'[g] # <<>>
    BY <1>1, <1>6, TailFacts DEF PartWaits
  <2> HIDE DEF g
  <2>2. toSend' = <<g>> /\ Load(g)
    BY <1>6 DEF g
  <2>3. Range(toSend') = {g} /\ Len(toSend') = 1 /\ toSend' # <<>>
    BY <2>1, <2>2, SingleFacts
  <2>4. rx' = g /\ rx' # NoBuf
    BY <1>1, <1>3, <2>1, <2>2 DEF Load
  <2> QED BY <1>1, <2>1, <2>3, <2>4 DEF Busy, NeverWedged
<1>7. CASE Len(toSend) = 1 /\ toSend' = <<>> /\ has_read' = TRUE
  <2>1. pc # "broke"
    BY <1>7 DEF Busy, sdio_read_done_process
  <2> QED BY <1>1, <1>7, <2>1, EmptyFacts DEF Busy, NeverWedged
<1> QED BY <1>1, <1>5, <1>6, <1>7 DEF sdio_read_done_process, t

LEMMA PutBackKeepsBusy ==
    ASSUME IInv, Busy, PutBack
    PROVE  Busy'
<1>1. /\ UNCHANGED <<toSend, has_read, rx, eof, received>>
      /\ pc = "copy" /\ pc' = "check" /\ sended' = <<temp>> \o sended /\ len < Room /\ Copy(len)
  BY DEF PutBack, link
<1>2. len \in Nat /\ len > 0 /\ len <= len /\ len <= Room
  BY <1>1, Facts, LenProperties, SMTT(30) DEF IInv, TypeOK, Room, Contents
<1>3. /\ temp \in Bufs /\ Len(buf[temp]) \in Nat /\ Len(buf'[temp]) = Len(buf[temp]) + len
      /\ \A b \in Bufs : b # temp => buf'[b] = buf[b]
      /\ temp \notin Range(toSend)
  BY <1>1, <1>2, Copied
<1>4. \A b \in Range(toSend') : buf'[b] # <<>>
  <2>1. \A b \in Range(toSend) : b \in Bufs /\ buf[b] # <<>>
    BY RangeFacts DEF IInv, TypeOK, Busy
  <2> QED BY <1>1, <1>3, <2>1
<1>5. sended' # <<>> /\ Head(sended') = temp
  BY <1>1, <1>3, ConsFacts DEF IInv, TypeOK
<1>6. buf'[temp] # <<>>
  BY <1>2, <1>3, EmptyFacts
<1> QED BY <1>1, <1>4, <1>5, <1>6 DEF Busy, NeverWedged

LEMMA QueueKeepsBusy ==
    ASSUME IInv, Busy, Queue
    PROVE  Busy'
<1>1. /\ eof' = eof /\ received' = received /\ pc = "copy" /\ len >= Room /\ Copy(Room)
      /\ pc' = IF len > Room THEN "again" ELSE "check"
  BY DEF Queue
<1>2. pc' \in {"again", "check"}
  BY <1>1
<1>3. Room \in Nat /\ Room <= len /\ Room <= Room /\ Room > 0
  <2>1. temp \in Bufs /\ Len(buf[temp]) < RxSize /\ buf[temp] \in Seq(1 .. MaxBytes)
    BY <1>1, Facts DEF IInv, Contents, Filling, TypeOK
  <2>2. Len(buf[temp]) \in Nat /\ RxSize \in Nat
    BY <2>1, LenProperties, SdioAssumption
  <2> QED BY <1>1, <2>1, <2>2 DEF Room
<1>4. /\ temp \in Bufs /\ Len(buf[temp]) \in Nat /\ Len(buf'[temp]) = Len(buf[temp]) + Room
      /\ \A b \in Bufs : b # temp => buf'[b] = buf[b]
      /\ temp \notin Range(toSend)
  BY <1>1, <1>3, Copied
<1>5. buf'[temp] # <<>>
  BY <1>3, <1>4, EmptyFacts
<1>6. \A b \in Range(toSend) : buf'[b] # <<>>
  <2>1. \A b \in Range(toSend) : b \in Bufs /\ buf[b] # <<>>
    BY RangeFacts DEF IInv, TypeOK, Busy
  <2> QED BY <1>4, <2>1
<1>7. CASE toSend = <<>>
  <2>1. toSend' = <<temp>> /\ sdio_try_to_load(toSend') /\ has_read
    BY <1>7 DEF Queue, IInv, LinkRight
  <2>2. Range(toSend') = {temp} /\ toSend' # <<>> /\ Head(toSend') = temp
    BY <1>4, <2>1, SingleFacts
  <2>3. rx' = temp /\ rx' # NoBuf
    BY <1>4, <1>5, <2>1, <2>2, SdioAssumption DEF sdio_try_to_load, Load
  <2> QED BY <1>2, <1>5, <2>2, <2>3 DEF Busy, NeverWedged
<1>8. CASE toSend # <<>>
  <2>1. toSend' = Linked(toSend, tTail, temp) /\ rx' = rx /\ has_read' = has_read
    BY <1>8 DEF Queue, link
  <2>2. toSend \in Seq(Bufs) /\ tTail = Last(toSend) /\ NoRepeats(toSend)
    BY <1>8 DEF IInv, TypeOK, TailsRight, Placed
  <2>3. toSend' = Append(toSend, temp)
    BY <1>8, <2>1, <2>2, LinkedAtEnd
  <2>4. Range(toSend') = Range(toSend) \cup {temp} /\ toSend' # <<>>
    BY <1>4, <2>2, <2>3, AppendFacts
  <2> QED BY <1>1, <1>2, <1>5, <1>6, <2>1, <2>4 DEF Busy, NeverWedged
<1> QED BY <1>7, <1>8

LEMMA FinishKeepsBusy ==
    ASSUME IInv, Busy, Finish
    PROVE  Busy'
<1>1. eof' = eof /\ pc \in {"check", "broke"} /\ pc' = "idle"
  BY DEF Finish
<1>2. CASE toSend # <<>>
  <2>1. UNCHANGED <<toSend, buf, has_read, rx>>
    BY <1>2 DEF Finish, link
  <2> QED BY <1>1, <2>1 DEF Busy, NeverWedged
<1>3. CASE toSend = <<>>
  <2> DEFINE h == Head(sended)
  <2>1. toSend' = <<h>> /\ buf' = buf /\ sdio_try_to_load(toSend') /\ has_read
    BY <1>3 DEF Finish, IInv, LinkRight
  <2>2. pc = "check"
    BY <1>1, <1>3, EmptyFacts DEF Busy
  <2>3. h \in Bufs /\ buf[h] # <<>>
    BY <1>3, <2>2, TailFacts DEF Busy, IInv, TypeOK
  <2> HIDE DEF h
  <2>4. Range(toSend') = {h} /\ toSend' # <<>> /\ Head(toSend') = h
    BY <2>1, <2>3, SingleFacts
  <2>5. rx' = h /\ rx' # NoBuf
    BY <2>1, <2>3, <2>4, SdioAssumption DEF sdio_try_to_load, Load
  <2> QED BY <1>1, <2>1, <2>3, <2>4, <2>5 DEF Busy, NeverWedged
<1> QED BY <1>2, <1>3

LEMMA NextKeepsBusy ==
    ASSUME IInv, Busy, SlowHost, [Next]_vars
    PROVE  Busy'
<1>1. CASE UNCHANGED vars
  BY <1>1 DEF vars, lists, link, caller, Busy, NeverWedged
<1>2. ASSUME NEW n \in 1 .. MaxLen, at_sdio_response(n) PROVE Busy'
  BY <1>2 DEF at_sdio_response, lists, link, Busy, NeverWedged
<1>3. CASE sdio_load_data
  BY <1>3, TakeKeepsBusy, PutBackKeepsBusy, QueueKeepsBusy, FinishKeepsBusy DEF sdio_load_data
<1>4. CASE HostRead
  BY <1>4, HostReadKeepsBusy
<1>5. CASE sdio_read_done_process
  BY <1>5, ReadDoneKeepsBusy
<1> QED BY <1>1, <1>2, <1>3, <1>4, <1>5 DEF Next

\* With a host that does not read every queued buffer in the instructions after
\* the loop was left for lack of a free one: while has_read is clear, a buffer is
\* loaded or its interrupt is pending, so the driver never waits for an interrupt
\* that cannot come.
THEOREM LoadedOrPending == SlowHost => (Spec => []NeverWedged)
<1> SUFFICES ASSUME SlowHost PROVE Spec => []NeverWedged
  OBVIOUS
<1>1. Init => Busy
  BY InitBusy
<1>2. IInv /\ Busy /\ [Next]_vars => Busy'
  BY NextKeepsBusy
<1>3. Busy => NeverWedged
  BY DEF Busy
<1> QED BY <1>1, <1>2, <1>3, Inductive, PTL DEF Spec

-----------------------------------------------------------------------------
(* The driver implements ByteStream. *)

LEMMA BytesFacts ==
    ASSUME NEW a \in Nat, NEW z \in Nat, a <= z
    PROVE  /\ Bytes(a, z) \in Seq(Nat) /\ Len(Bytes(a, z)) = z - a
           /\ \A i \in 1 .. z - a : Bytes(a, z)[i] = a + i
<1>1. z - a \in Nat /\ \A i \in 1 .. z - a : a + i \in Nat
  OBVIOUS
<1>2. Bytes(a, z) \in Seq(Nat)
  BY <1>1, IsASeq DEF Bytes
<1>3. \A i \in 1 .. z - a : Bytes(a, z)[i] = a + i
  BY DEF Bytes
<1>4. DOMAIN Bytes(a, z) = 1 .. z - a
  BY DEF Bytes
<1>5. Len(Bytes(a, z)) = z - a
  BY <1>1, <1>2, <1>4, LenProperties
<1> QED BY <1>2, <1>3, <1>5

\* n more bytes.
LEMMA BytesLonger ==
    ASSUME NEW a \in Nat, NEW z \in Nat, a <= z, NEW n \in Nat
    PROVE  Bytes(a, z + n) = Bytes(a, z) \o [i \in 1 .. n |-> z + i]
<1> DEFINE new == [i \in 1 .. n |-> z + i]
           s == Bytes(a, z)
           t == Bytes(a, z + n)
<1>1. z - a \in Nat /\ z + n \in Nat /\ a <= z + n
  OBVIOUS
<1>2. s \in Seq(Nat) /\ Len(s) = z - a /\ \A i \in 1 .. z - a : s[i] = a + i
  BY BytesFacts
<1>3. t \in Seq(Nat) /\ Len(t) = (z + n) - a /\ \A i \in 1 .. (z + n) - a : t[i] = a + i
  BY <1>1, BytesFacts
<1>4. new \in Seq(Nat) /\ Len(new) = n /\ \A i \in 1 .. n : new[i] = z + i
  <2>1. \A i \in 1 .. n : z + i \in Nat
    OBVIOUS
  <2>2. new \in Seq(Nat)
    BY <2>1, IsASeq
  <2> QED BY <2>2, LenProperties
<1> HIDE DEF new, s, t
<1>5. /\ s \o new \in Seq(Nat) /\ Len(s \o new) = (z - a) + n
      /\ \A i \in 1 .. (z - a) + n : (s \o new)[i] = IF i <= z - a THEN s[i] ELSE new[i - (z - a)]
  <2>1. /\ s \o new \in Seq(Nat) /\ Len(s \o new) = Len(s) + Len(new)
        /\ \A i \in 1 .. Len(s) + Len(new) :
              (s \o new)[i] = IF i <= Len(s) THEN s[i] ELSE new[i - Len(s)]
    BY <1>2, <1>4, ConcatProperties
  <2> QED BY <1>2, <1>4, <2>1
<1>6. ASSUME NEW i \in 1 .. Len(t) PROVE t[i] = (s \o new)[i]
  <2>1. t[i] = a + i /\ i \in 1 .. (z - a) + n
    BY <1>3
  <2>2. CASE i <= z - a
    <3>1. i \in 1 .. z - a
      BY <1>1, <2>1, <2>2
    <3> QED BY <1>2, <1>5, <2>1, <2>2, <3>1
  <2>3. CASE ~(i <= z - a)
    <3>1. i - (z - a) \in 1 .. n /\ z + (i - (z - a)) = a + i
      BY <1>1, <2>1, <2>3
    <3> QED BY <1>4, <1>5, <2>1, <2>3, <3>1
  <2> QED BY <2>2, <2>3
<1>7. Len(t) = Len(s \o new)
  BY <1>1, <1>3, <1>5
<1>8. t = s \o new
  BY <1>3, <1>5, <1>6, <1>7, SeqEqual
<1> QED BY <1>8 DEF new, s, t

\* The first n of them gone.
LEMMA BytesShorter ==
    ASSUME NEW a \in Nat, NEW z \in Nat, NEW n \in Nat, a + n <= z
    PROVE  Bytes(a + n, z) = SubSeq(Bytes(a, z), n + 1, Len(Bytes(a, z)))
<1> DEFINE s == Bytes(a, z)
           t == Bytes(a + n, z)
           u == SubSeq(s, n + 1, z - a)
<1>1. z - a \in Nat /\ a <= z /\ a + n \in Nat /\ n <= z - a
  OBVIOUS
<1>2. s \in Seq(Nat) /\ Len(s) = z - a /\ \A i \in 1 .. z - a : s[i] = a + i
  BY <1>1, BytesFacts
<1>3. t \in Seq(Nat) /\ Len(t) = z - (a + n) /\ \A i \in 1 .. z - (a + n) : t[i] = (a + n) + i
  BY <1>1, BytesFacts
<1> HIDE DEF s, t
<1>4. /\ u \in Seq(Nat)
      /\ Len(u) = IF n + 1 <= z - a THEN (z - a) - (n + 1) + 1 ELSE 0
      /\ \A i \in 1 .. (z - a) - (n + 1) + 1 : u[i] = s[(n + 1) + i - 1]
  <2>1. \A i \in n + 1 .. z - a : s[i] \in Nat
    BY <1>1, <1>2
  <2>2. n + 1 \in Int /\ z - a \in Int
    BY <1>1
  <2> QED BY <2>1, <2>2, SubSeqProperties
<1> HIDE DEF u
<1>5. Len(u) = z - (a + n)
  BY <1>1, <1>4
<1>6. ASSUME NEW i \in 1 .. Len(t) PROVE t[i] = u[i]
  <2>1. i \in 1 .. (z - a) - (n + 1) + 1 /\ (n + 1) + i - 1 \in 1 .. z - a
        /\ a + ((n + 1) + i - 1) = (a + n) + i
    BY <1>1, <1>3
  <2> QED BY <1>2, <1>3, <1>4, <2>1
<1>7. t = u
  BY <1>3, <1>4, <1>5, <1>6, SeqEqual
<1> QED BY <1>2, <1>7 DEF s, t, u

\* What waits are the bytes between what was read and what was taken over.
WaitingRight ==
    /\ Waiting = Bytes(Len(received), accepted)
    /\ Len(received) \in Nat /\ accepted \in Nat /\ Len(received) <= accepted
    /\ Len(Waiting) = accepted - Len(received)

LEMMA WaitingIs ==
    ASSUME IInv
    PROVE  WaitingRight
<1>1. Unread \in Seq(Bufs) /\ Covers(Unread, buf, Len(received), accepted)
  BY Facts
<1>2. received \in Seq(1 .. MaxBytes) /\ accepted \in 0 .. MaxBytes /\ buf \in [Bufs -> Seq(1 .. MaxBytes)]
      /\ MaxBytes \in Nat
  BY SdioAssumption DEF IInv, TypeOK
<1>3. Len(received) \in Nat /\ accepted \in Nat
  BY <1>2, LenProperties
<1>4. buf \in [Bufs -> Seq(Nat)]
  <2>1. \A s \in Seq(1 .. MaxBytes) : s \in Seq(Nat)
    <3>1. ASSUME NEW s \in Seq(1 .. MaxBytes) PROVE s \in Seq(Nat)
      <4>1. Len(s) \in Nat /\ s \in [1 .. Len(s) -> 1 .. MaxBytes]
        BY LenProperties
      <4>2. s \in [1 .. Len(s) -> Nat]
        BY <4>1
      <4> QED BY <4>1, <4>2, SeqDef
    <3> QED BY <3>1
  <2> QED BY <1>2, <2>1
<1>5. /\ Len(received) <= accepted
      /\ FlattenSeq([i \in DOMAIN Unread |-> buf[Unread[i]]]) = Bytes(Len(received), accepted)
  BY <1>1, <1>3, <1>4, ChainFlattens
<1> QED BY <1>3, <1>5, BytesFacts DEF Waiting, WaitingRight

\* Steps that move no byte.
LEMMA StreamHidden ==
    ASSUME WaitingRight, WaitingRight', UNCHANGED <<accepted, received>>
    PROVE  UNCHANGED Stream!vars
  BY DEF WaitingRight, Stream!vars

LEMMA CopyTakesOver ==
    ASSUME WaitingRight, WaitingRight', NEW n \in 1 .. RxSize,
           accepted' = accepted + n, received' = received
    PROVE  Stream!Next
<1>1. n \in Nat /\ RxSize \in Nat
  BY SdioAssumption
<1>2. Stream!Newest = accepted
  BY DEF WaitingRight, Stream!Newest
<1>3. Waiting' = Waiting \o [i \in 1 .. n |-> accepted + i]
  BY <1>1, BytesLonger, ZenonT(40) DEF WaitingRight
<1>4. Stream!TakeOver(n)
  BY <1>2, <1>3 DEF Stream!TakeOver
<1> QED BY <1>4 DEF Stream!Next

LEMMA HostReadReads ==
    ASSUME IInv, WaitingRight, WaitingRight', HostRead
    PROVE  Stream!Next
<1> DEFINE n == Len(buf[rx])
<1>1. rx # NoBuf /\ received' = received \o buf[rx] /\ accepted' = accepted
  BY DEF HostRead, caller
<1>2. rx \in Bufs /\ buf[rx] # <<>>
  BY <1>1 DEF IInv, TypeOK, LinkRight
<1>3. received \in Seq(1 .. MaxBytes) /\ buf[rx] \in Seq(1 .. MaxBytes)
  BY <1>2 DEF IInv, TypeOK
<1>4. n \in 1 .. RxSize /\ Len(received') = Len(received) + n
  <2>1. n \in Nat /\ n # 0
    BY <1>2, <1>3, LenProperties, EmptySeq
  <2>2. n <= RxSize /\ RxSize \in Nat
    BY <1>2, SdioAssumption DEF IInv, TypeOK
  <2>3. Len(received') = Len(received) + n
    BY <1>1, <1>3, ConcatProperties
  <2> QED BY <2>1, <2>2, <2>3
<1> HIDE DEF n
<1>5. n \in Nat /\ Len(received) + n <= accepted /\ n <= Len(Waiting)
  BY <1>1, <1>4, SdioAssumption DEF WaitingRight
<1>6. \A i \in 1 .. n : Waiting[i] = Len(received) + i
  <2> DEFINE a == Len(received)
  <2>1. a \in Nat /\ accepted \in Nat /\ a <= accepted /\ Waiting = Bytes(a, accepted)
    BY DEF WaitingRight
  <2> HIDE DEF a
  <2>2. \A i \in 1 .. accepted - a : Bytes(a, accepted)[i] = a + i
    BY <2>1, BytesFacts
  <2>3. \A i \in 1 .. n : i \in 1 .. accepted - a
    BY <1>5, <2>1 DEF a
  <2>4. \A i \in 1 .. n : Waiting[i] = a + i
    BY <2>1, <2>2, <2>3
  <2> QED BY <2>4 DEF a
<1>7. Waiting' = SubSeq(Waiting, n + 1, Len(Waiting))
  <2> DEFINE a == Len(received)
  <2>1. /\ a \in Nat /\ accepted \in Nat /\ a + n <= accepted
        /\ Waiting = Bytes(a, accepted) /\ Waiting' = Bytes(a + n, accepted)
    BY <1>1, <1>4, <1>5 DEF WaitingRight
  <2> HIDE DEF a
  <2>2. Bytes(a + n, accepted) = SubSeq(Bytes(a, accepted), n + 1, Len(Bytes(a, accepted)))
    BY <1>5, <2>1, BytesShorter
  <2> QED BY <2>1, <2>2
<1>8. Stream!Read(n)
  BY <1>4, <1>5, <1>6, <1>7 DEF Stream!Read
<1> QED BY <1>4, <1>8 DEF Stream!Next

LEMMA NextStreams ==
    ASSUME IInv, WaitingRight, WaitingRight', [Next]_vars
    PROVE  [Stream!Next]_(Stream!vars)
<1>1. ASSUME UNCHANGED <<accepted, received>> PROVE UNCHANGED Stream!vars
  BY <1>1, StreamHidden
<1>2. CASE UNCHANGED vars
  BY <1>1, <1>2 DEF vars, caller
<1>3. ASSUME NEW n \in 1 .. MaxLen, at_sdio_response(n) PROVE UNCHANGED Stream!vars
  BY <1>1, <1>3 DEF at_sdio_response
<1>4. CASE Take \/ Finish \/ sdio_read_done_process
  BY <1>1, <1>4 DEF Take, Finish, sdio_read_done_process, caller
<1>5. CASE HostRead
  BY <1>5, HostReadReads
<1>6. ASSUME pc = "copy", NEW n \in Nat, n > 0, n <= Room, Copy(n), received' = received
      PROVE  Stream!Next
  <2>1. temp \in Bufs /\ buf[temp] \in Seq(1 .. MaxBytes)
    BY <1>6, Facts DEF IInv, TypeOK
  <2>2. n \in 1 .. RxSize
    BY <1>6, <2>1, LenProperties, SdioAssumption DEF Room
  <2> QED BY <1>6, <2>2, CopyTakesOver DEF Copy
<1>7. CASE PutBack
  <2>1. pc = "copy" /\ len < Room /\ Copy(len) /\ received' = received
    BY <1>7 DEF PutBack
  <2>2. len \in Nat /\ len > 0 /\ len <= Room
    <3>1. Room \in Int
      BY <2>1, Facts, LenProperties DEF Room, IInv, TypeOK
    <3> QED BY <2>1, <3>1, SdioAssumption DEF IInv, TypeOK, Contents
  <2> QED BY <1>6, <2>1, <2>2
<1>8. CASE Queue
  <2>1. pc = "copy" /\ Copy(Room) /\ received' = received
    BY <1>8 DEF Queue
  <2>2. Room \in Nat /\ Room > 0 /\ Room <= Room
    <3>1. temp \in Bufs /\ Len(buf[temp]) < RxSize /\ buf[temp] \in Seq(1 .. MaxBytes)
      BY <2>1, Facts DEF IInv, Contents, Filling, TypeOK
    <3> QED BY <3>1, LenProperties, SdioAssumption DEF Room
  <2> QED BY <1>6, <2>1, <2>2
<1> QED BY <1>2, <1>3, <1>4, <1>5, <1>7, <1>8 DEF Next, sdio_load_data

\* The driver of sdio_slv.c is the stream of bytes its callers use it as, for
\* every number and size of buffers and however the interrupt comes between the
\* steps of sdio_load_data: what waits are exactly the bytes taken over and not
\* yet read, in their order, and the host reads the oldest of them.
THEOREM ImplementsStream == Spec => StreamSpec
<1>1. Init => Stream!Init
  <2>1. ASSUME Init PROVE Waiting = <<>> /\ Len(received) = 0
    <3>1. Len(received) = 0 /\ accepted = 0
      BY <2>1, EmptyFacts DEF Init
    <3>2. Waiting = Bytes(0, 0)
      BY <2>1, <3>1, InitKeepsIInv, WaitingIs DEF WaitingRight
    <3>3. Bytes(0, 0) \in Seq(Nat) /\ Len(Bytes(0, 0)) = 0
      BY BytesFacts
    <3>4. Bytes(0, 0) = <<>>
      BY <3>3, EmptySeq
    <3> QED BY <3>1, <3>2, <3>4
  <2> QED BY <2>1 DEF Stream!Init
<1>2. IInv => WaitingRight
  BY WaitingIs
<1>3. IInv /\ WaitingRight /\ WaitingRight' /\ [Next]_vars => [Stream!Next]_(Stream!vars)
  BY NextStreams
<1> QED BY <1>1, <1>2, <1>3, Inductive, PTL DEF Spec, StreamSpec, Stream!Spec
====
