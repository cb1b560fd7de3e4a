---- MODULE SequenceFacts ----
(***************************************************************************)
(* Facts about sequences for the proofs about the buffer lists of          *)
(* at_lobo/driver/sdio_slv.c: what taking from the front and putting at    *)
(* either end do to a list without repetitions, and what FlattenSeq        *)
(* computes.                                                               *)
(***************************************************************************)
EXTENDS SequencesExt, SequenceTheorems, FiniteSetTheorems, WellFoundedInduction, TLAPS

NoRepeats(s) == \A i, j \in 1 .. Len(s) : s[i] = s[j] => i = j

-----------------------------------------------------------------------------

LEMMA AppendFacts ==
    ASSUME NEW S, NEW s \in Seq(S), NEW x \in S
    PROVE  /\ Append(s, x) \in Seq(S) /\ Append(s, x) # <<>>
           /\ Range(Append(s, x)) = Range(s) \cup {x}
           /\ Last(Append(s, x)) = x
           /\ Len(Append(s, x)) = Len(s) + 1
           /\ s # <<>> => Head(Append(s, x)) = Head(s) /\ Tail(Append(s, x)) = Append(Tail(s), x)
           /\ NoRepeats(s) /\ x \notin Range(s) => NoRepeats(Append(s, x))
<1> DEFINE t == Append(s, x)
<1>1. /\ t \in Seq(S) /\ t # <<>> /\ Len(t) = Len(s) + 1
      /\ \A i \in 1 .. Len(s) : t[i] = s[i]
      /\ t[Len(s) + 1] = x
  BY AppendProperties
<1>2. Range(s) = {s[i] : i \in 1 .. Len(s)} /\ Range(t) = {t[i] : i \in 1 .. Len(t)}
  BY <1>1, RangeEquality
<1>3. Len(s) \in Nat
  BY LenProperties
<1>4. Range(t) = Range(s) \cup {x}
  BY <1>1, <1>2, <1>3
<1>5. Last(t) = x
  BY <1>1 DEF Last
<1>6. s # <<>> => Head(t) = Head(s) /\ Tail(t) = Append(Tail(s), x)
  BY HeadTailAppend
<1>7. ASSUME NoRepeats(s), x \notin Range(s) PROVE NoRepeats(t)
  BY <1>1, <1>2, <1>3, <1>7 DEF NoRepeats
<1> QED BY <1>1, <1>4, <1>5, <1>6, <1>7

LEMMA ConsFacts ==
    ASSUME NEW S, NEW s \in Seq(S), NEW x \in S
    PROVE  /\ <<x>> \o s \in Seq(S) /\ <<x>> \o s # <<>>
           /\ Range(<<x>> \o s) = Range(s) \cup {x}
           /\ Head(<<x>> \o s) = x
           /\ Len(<<x>> \o s) = Len(s) + 1
           /\ \A i \in 2 .. Len(s) + 1 : (<<x>> \o s)[i] = s[i - 1]
           /\ s # <<>> => Last(<<x>> \o s) = Last(s)
           /\ s = <<>> => Last(<<x>> \o s) = x
           /\ NoRepeats(s) /\ x \notin Range(s) => NoRepeats(<<x>> \o s)
<1> DEFINE t == <<x>> \o s
<1>1. <<x>> \in Seq(S) /\ Len(<<x>>) = 1 /\ <<x>>[1] = x
  OBVIOUS
<1>2. Len(s) \in Nat /\ (s # <<>> => Len(s) > 0) /\ (s = <<>> => Len(s) = 0)
  BY LenProperties, EmptySeq
<1>3. /\ t \in Seq(S) /\ Len(t) = Len(s) + 1 /\ t[1] = x
      /\ \A i \in 2 .. Len(t) : t[i] = s[i - 1]
  BY <1>1, <1>2, ConcatProperties
<1>4. t # <<>> /\ Head(t) = x
  BY <1>2, <1>3
<1>5. Range(s) = {s[i] : i \in 1 .. Len(s)} /\ Range(t) = {t[i] : i \in 1 .. Len(t)}
  BY <1>3, RangeEquality
<1>6. Range(t) = Range(s) \cup {x}
  <2>1. \A i \in 1 .. Len(s) : i + 1 \in 2 .. Len(t) /\ t[i + 1] = s[i]
    BY <1>2, <1>3
  <2>2. \A i \in 1 .. Len(t) : i = 1 \/ i - 1 \in 1 .. Len(s)
    BY <1>2, <1>3
  <2>3. 1 \in 1 .. Len(t)
    BY <1>2, <1>3
  <2>4. Range(t) \subseteq Range(s) \cup {x}
    BY <1>2, <1>3, <1>5, <2>2
  <2>5. Range(s) \cup {x} \subseteq Range(t)
    <3>1. \A i \in 1 .. Len(s) : i + 1 \in 1 .. Len(t)
      BY <1>2, <1>3
    <3> QED BY <1>3, <1>5, <2>1, <2>3, <3>1
  <2> QED BY <2>4, <2>5
<1>7. (s # <<>> => Last(t) = Last(s)) /\ (s = <<>> => Last(t) = x)
  BY <1>2, <1>3 DEF Last
<1>8. ASSUME NoRepeats(s), x \notin Range(s) PROVE NoRepeats(t)
  <2>1. \A i \in 2 .. Len(t) : i - 1 \in 1 .. Len(s) /\ t[i] # x
    BY <1>2, <1>3, <1>5, <1>8
  <2> SUFFICES ASSUME NEW i \in 1 .. Len(t), NEW j \in 1 .. Len(t), t[i] = t[j] PROVE i = j
    BY DEF NoRepeats
  <2>2. (i = 1 \/ i \in 2 .. Len(t)) /\ (j = 1 \/ j \in 2 .. Len(t))
    BY <1>2, <1>3
  <2>3. CASE i = 1 \/ j = 1
    BY <1>3, <2>1, <2>2, <2>3
  <2>4. CASE i \in 2 .. Len(t) /\ j \in 2 .. Len(t)
    <3>1. s[i - 1] = s[j - 1] /\ i - 1 \in 1 .. Len(s) /\ j - 1 \in 1 .. Len(s)
      BY <1>3, <2>1, <2>4
    <3>2. i - 1 = j - 1
      BY <1>8, <3>1 DEF NoRepeats
    <3> QED BY <3>2, <2>4
  <2> QED BY <2>2, <2>3, <2>4
<1> QED BY <1>3, <1>4, <1>6, <1>7, <1>8

LEMMA TailFacts ==
    ASSUME NEW S, NEW s \in Seq(S), s # <<>>
    PROVE  /\ Head(s) \in S /\ Head(s) = s[1] /\ Tail(s) \in Seq(S)
           /\ Len(s) \in Nat \ {0} /\ Len(Tail(s)) = Len(s) - 1
           /\ Tail(s) = <<>> <=> Len(s) = 1
           /\ \A i \in 1 .. Len(Tail(s)) : Tail(s)[i] = s[i + 1]
           /\ Range(s) = {Head(s)} \cup Range(Tail(s))
           /\ Tail(s) # <<>> => Last(Tail(s)) = Last(s)
           /\ NoRepeats(s) => NoRepeats(Tail(s)) /\ Head(s) \notin Range(Tail(s))
<1> DEFINE t == Tail(s)
<1>1. /\ Head(s) \in S /\ t \in Seq(S) /\ Len(t) = Len(s) - 1
      /\ \A i \in 1 .. Len(t) : t[i] = s[i + 1]
  BY HeadTailProperties
<1>2. Head(s) = s[1] /\ Len(s) \in Nat \ {0} /\ (t # <<>> => Len(t) \in Nat \ {0})
  BY <1>1, EmptySeq
<1>3. Range(s) = {s[i] : i \in 1 .. Len(s)} /\ Range(t) = {t[i] : i \in 1 .. Len(t)}
  BY <1>1, RangeEquality
<1>4. t = <<>> <=> Len(s) = 1
  <2>1. t = <<>> <=> Len(t) = 0
    BY <1>1, EmptySeq
  <2> QED BY <1>1, <1>2, <2>1
<1>5. \A i \in 1 .. Len(t) : i + 1 \in 1 .. Len(s)
  BY <1>1, <1>2
<1>6. \A i \in 1 .. Len(s) : i = 1 \/ (i - 1 \in 1 .. Len(t) /\ t[i - 1] = s[i])
  BY <1>1, <1>2
<1>7. Range(s) = {Head(s)} \cup Range(t)
  <2>1. 1 \in 1 .. Len(s)
    BY <1>2
  <2>2. {Head(s)} \cup Range(t) \subseteq Range(s)
    BY <1>1, <1>2, <1>3, <1>5, <2>1
  <2>3. ASSUME NEW i \in 1 .. Len(s) PROVE s[i] \in {Head(s)} \cup Range(t)
    BY <1>2, <1>3, <1>6
  <2> QED BY <1>3, <2>2, <2>3
<1>8. t # <<>> => Last(t) = Last(s)
  BY <1>1, <1>2 DEF Last
<1>9. ASSUME NoRepeats(s) PROVE NoRepeats(t) /\ Head(s) \notin Range(t)
  <2>1. NoRepeats(t)
    BY <1>1, <1>2, <1>5, <1>9 DEF NoRepeats
  <2>2. \A i \in 1 .. Len(t) : t[i] # s[1]
    BY <1>1, <1>2, <1>5, <1>9 DEF NoRepeats
  <2> QED BY <1>2, <1>3, <2>1, <2>2
<1> QED BY <1>1, <1>2, <1>7, <1>8, <1>9, <1>4

\* The list of one element.
LEMMA SingleFacts ==
    ASSUME NEW S, NEW x \in S
    PROVE  /\ <<x>> \in Seq(S) /\ <<x>> # <<>> /\ Len(<<x>>) = 1 /\ <<x>>[1] = x
           /\ Range(<<x>>) = {x} /\ NoRepeats(<<x>>) /\ Last(<<x>>) = x /\ Head(<<x>>) = x
           /\ Tail(<<x>>) = <<>>
<1>1. <<x>> \in Seq(S) /\ <<x>> # <<>> /\ Len(<<x>>) = 1 /\ <<x>>[1] = x
  OBVIOUS
<1>2. Range(<<x>>) = {<<x>>[i] : i \in 1 .. Len(<<x>>)}
  BY <1>1, RangeEquality
<1>3. Range(<<x>>) = {x} /\ NoRepeats(<<x>>) /\ Last(<<x>>) = x /\ Head(<<x>>) = x
  BY <1>1, <1>2 DEF NoRepeats, Last
<1>4. Tail(<<x>>) = <<>>
  BY <1>1, HeadTailProperties, EmptySeq
<1> QED BY <1>1, <1>3, <1>4

LEMMA EmptyFacts == Range(<<>>) = {} /\ NoRepeats(<<>>) /\ Len(<<>>) = 0
<1>1. <<>> \in Seq({}) /\ Len(<<>>) = 0
  BY EmptySeq
<1>2. Range(<<>>) = {<<>>[i] : i \in 1 .. Len(<<>>)}
  BY <1>1, RangeEquality
<1> QED BY <1>1, <1>2 DEF NoRepeats

\* Members of a list are what its positions hold.
LEMMA RangeFacts ==
    ASSUME NEW S, NEW s \in Seq(S)
    PROVE  /\ Range(s) \subseteq S
           /\ \A i \in 1 .. Len(s) : s[i] \in Range(s)
           /\ \A x \in Range(s) : \E i \in 1 .. Len(s) : x = s[i]
           /\ s # <<>> => Last(s) \in Range(s) /\ Len(s) \in 1 .. Len(s)
<1>1. Range(s) = {s[i] : i \in 1 .. Len(s)} /\ Len(s) \in Nat
  BY RangeEquality, LenProperties
<1>2. \A i \in 1 .. Len(s) : s[i] \in S
  BY ElementOfSeq
<1>3. s # <<>> => Len(s) \in 1 .. Len(s)
  BY EmptySeq
<1> QED BY <1>1, <1>2, <1>3 DEF Last

\* Two lists without repetitions that share nothing, one behind the other.
LEMMA ConcatNoRepeats ==
    ASSUME NEW S, NEW s \in Seq(S), NEW t \in Seq(S), NoRepeats(s), NoRepeats(t),
           Range(s) \cap Range(t) = {}
    PROVE  NoRepeats(s \o t)
<1> DEFINE u == s \o t
<1>1. /\ Len(s) \in Nat /\ Len(t) \in Nat /\ Len(u) = Len(s) + Len(t)
      /\ \A i \in 1 .. Len(s) + Len(t) : u[i] = IF i <= Len(s) THEN s[i] ELSE t[i - Len(s)]
  BY ConcatProperties, LenProperties
<1>2. /\ \A i \in 1 .. Len(s) : s[i] \in Range(s)
      /\ \A i \in 1 .. Len(t) : t[i] \in Range(t)
  BY RangeFacts
<1> HIDE DEF u
<1>3. \A i \in 1 .. Len(u) :
        \/ i \in 1 .. Len(s) /\ u[i] = s[i]
        \/ i - Len(s) \in 1 .. Len(t) /\ u[i] = t[i - Len(s)]
  BY <1>1
<1>4. ASSUME NEW i \in 1 .. Len(u), NEW j \in 1 .. Len(u), u[i] = u[j]
      PROVE  i = j
  <2>1. CASE i \in 1 .. Len(s) /\ j \in 1 .. Len(s) /\ u[i] = s[i] /\ u[j] = s[j]
    BY <1>4, <2>1 DEF NoRepeats
  <2>2. CASE i \in 1 .. Len(s) /\ u[i] = s[i] /\ j - Len(s) \in 1 .. Len(t) /\ u[j] = t[j - Len(s)]
    BY <1>2, <1>4, <2>2
  <2>3. CASE j \in 1 .. Len(s) /\ u[j] = s[j] /\ i - Len(s) \in 1 .. Len(t) /\ u[i] = t[i - Len(s)]
    BY <1>2, <1>4, <2>3
  <2>4. CASE /\ i - Len(s) \in 1 .. Len(t) /\ u[i] = t[i - Len(s)]
             /\ j - Len(s) \in 1 .. Len(t) /\ u[j] = t[j - Len(s)]
    <3>1. i - Len(s) = j - Len(s)
      BY <1>4, <2>4 DEF NoRepeats
    <3> QED BY <1>1, <3>1
  <2> QED BY <1>3, <2>1, <2>2, <2>3, <2>4
<1> QED BY <1>4 DEF NoRepeats, u

\* A list without repetitions is as long as it has members.
LEMMA LenIsCardinality ==
    ASSUME NEW S, NEW s \in Seq(S), NoRepeats(s)
    PROVE  Len(s) = Cardinality(Range(s))
<1>1. Len(s) \in Nat /\ DOMAIN s = 1 .. Len(s)
  BY LenProperties
<1>2. IsFiniteSet(1 .. Len(s)) /\ Cardinality(1 .. Len(s)) = Len(s)
  BY <1>1, FS_Interval
<1>3. s \in [1 .. Len(s) -> Range(s)]
  <2>1. s \in [1 .. Len(s) -> S] /\ \A i \in 1 .. Len(s) : s[i] \in Range(s)
    BY LenProperties, RangeFacts
  <2> QED BY <2>1
<1>4. \A x \in Range(s) : \E i \in 1 .. Len(s) : s[i] = x
  BY RangeFacts
<1>5. s \in Bijection(1 .. Len(s), Range(s))
  BY <1>1, <1>3, <1>4 DEF Bijection, Injection, Surjection, IsInjective, NoRepeats
<1> QED BY <1>2, <1>5, FS_Bijection DEF ExistsBijection

\* What a list without repetitions holds up to its last member is all of it.
LEMMA UpToLast ==
    ASSUME NEW S, NEW s \in Seq(S), s # <<>>, NoRepeats(s)
    PROVE  SubSeq(s, 1, CHOOSE i \in DOMAIN s : s[i] = Last(s)) = s
<1>1. Len(s) \in DOMAIN s /\ DOMAIN s = 1 .. Len(s) /\ s[Len(s)] = Last(s)
  BY LenProperties, RangeFacts DEF Last
<1>2. PICK j \in DOMAIN s : j = CHOOSE i \in DOMAIN s : s[i] = Last(s)
  BY <1>1
<1>3. s[j] = Last(s)
  BY <1>1, <1>2
<1>4. j = Len(s)
  BY <1>1, <1>3 DEF NoRepeats
<1> QED BY <1>2, <1>4, SubSeqFull

-----------------------------------------------------------------------------

\* Every set of naturals has a least element: the form of induction used below.
LEMMA Least ==
    ASSUME NEW T \in SUBSET Nat, T # {}
    PROVE  \E n \in T : \A m \in T : n <= m
<1>1. PICK n \in T : \A m \in T : <<m, n>> \notin OpToRel(<, Nat)
  BY NatLessThanWellFounded, WFMin
<1>2. \A m \in T : ~(m < n)
  BY <1>1 DEF OpToRel
<1> QED BY <1>2

\* FlattenSeq concatenates: the concatenations f of the first 1, 2, ... pieces
\* end in its result.
LEMMA FlattenIs ==
    ASSUME NEW S, NEW s \in Seq(Seq(S)), s # <<>>,
           NEW f \in [1 .. Len(s) -> Seq(S)], f[1] = s[1],
           \A i \in 2 .. Len(s) : f[i] = f[i - 1] \o s[i]
    PROVE  FlattenSeq(s) = f[Len(s)]
<1> DEFINE n == Len(s)
           fl == CHOOSE g : g = [i \in 1 .. n |-> IF i = 1 THEN s[i] ELSE g[i - 1] \o s[i]]
<1>1. n \in Nat \ {0} /\ n \in 1 .. n
  BY EmptySeq
<1>2. FlattenSeq(s) = fl[n]
  BY <1>1 DEF FlattenSeq
<1>3. f = [i \in 1 .. n |-> IF i = 1 THEN s[i] ELSE f[i - 1] \o s[i]]
  <2>1. \A i \in 1 .. n : f[i] = IF i = 1 THEN s[i] ELSE f[i - 1] \o s[i]
    <3>1. \A i \in 1 .. n : i = 1 \/ i \in 2 .. n
      BY <1>1
    <3> QED BY <3>1
  <2> QED BY <2>1
<1>4. fl = [i \in 1 .. n |-> IF i = 1 THEN s[i] ELSE fl[i - 1] \o s[i]]
  BY <1>3
<1> HIDE DEF fl
<1> DEFINE T == {i \in 1 .. n : fl[i] # f[i]}
<1>5. ASSUME T # {} PROVE FALSE
  <2>1. T \in SUBSET Nat
    BY <1>1
  <2>2. PICK i \in T : \A j \in T : i <= j
    BY <1>5, <2>1, Least
  <2>3. i \in 1 .. n /\ fl[i] # f[i]
    OBVIOUS
  <2>4. i # 1
    BY <1>4, <2>3
  <2>5. i - 1 \notin T /\ i - 1 \in 1 .. n /\ i \in 2 .. n
    BY <1>1, <2>2, <2>3, <2>4
  <2>6. fl[i - 1] = f[i - 1]
    BY <2>5
  <2>7. fl[i] = f[i - 1] \o s[i]
    <3>1. fl[i] = fl[i - 1] \o s[i]
      BY <1>4, <2>3, <2>4
    <3> QED BY <2>6, <3>1
  <2>8. f[i] = f[i - 1] \o s[i]
    BY <2>5
  <2> QED BY <2>3, <2>7, <2>8
<1> QED BY <1>1, <1>2, <1>5
====
