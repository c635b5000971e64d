-------------------------- MODULE LxmfWire_proofs --------------------------
(***************************************************************************)
(* What is written is read back, for every number, every text and every    *)
(* count; a message packed is unpacked as what it was and matched as the   *)
(* command it spells; what the node sends fits in a packet and is one      *)
(* value to skip(), and no bytes make skip() read further than they go.    *)
(* First the facts on sequences of bytes that all of it rests on.          *)
(***************************************************************************)
EXTENDS LxmfSkip, SequenceTheorems, WellFoundedInduction, TLAPS

Bytes == Seq(Byte)

LEMMA Cat ==
    ASSUME NEW s \in Bytes, NEW t \in Bytes
    PROVE  /\ s \o t \in Bytes /\ Len(s \o t) = Len(s) + Len(t)
           /\ Len(s) \in Nat /\ Len(t) \in Nat
           /\ \A i \in 1 .. Len(s) : (s \o t)[i] = s[i]
           /\ \A i \in 1 .. Len(t) : (s \o t)[Len(s) + i] = t[i]
<1>1. /\ s \o t \in Bytes /\ Len(s \o t) = Len(s) + Len(t)
      /\ \A i \in 1 .. Len(s) + Len(t) : (s \o t)[i] =
              IF i <= Len(s) THEN s[i] ELSE t[i - Len(s)]
  BY ConcatProperties DEF Bytes
<1>2. Len(s) \in Nat /\ Len(t) \in Nat
  BY LenProperties DEF Bytes
<1>3. ASSUME NEW i \in 1 .. Len(t) PROVE (s \o t)[Len(s) + i] = t[i]
  <2>1. Len(s) + i \in 1 .. Len(s) + Len(t) /\ ~(Len(s) + i <= Len(s))
        /\ (Len(s) + i) - Len(s) = i
    BY <1>2
  <2> QED BY <1>1, <2>1
<1> QED BY <1>1, <1>2, <1>3

LEMMA CatLen ==
    ASSUME NEW s \in Bytes, NEW t \in Bytes
    PROVE  s \o t \in Bytes /\ Len(s \o t) = Len(s) + Len(t) /\ Len(s) \in Nat /\ Len(t) \in Nat
BY Cat

LEMMA LenNat == ASSUME NEW s \in Bytes PROVE Len(s) \in Nat
BY LenProperties DEF Bytes

LEMMA Assoc ==
    ASSUME NEW s \in Bytes, NEW t \in Bytes, NEW u \in Bytes
    PROVE  (s \o t) \o u = s \o (t \o u)
BY ConcatAssociative DEF Bytes

LEMMA Empty == /\ <<>> \in Bytes /\ Len(<<>>) = 0
               /\ \A s \in Bytes : s \o <<>> = s /\ <<>> \o s = s
BY EmptySeq, ConcatEmptySeq DEF Bytes

LEMMA One == ASSUME NEW c \in Byte
             PROVE  <<c>> \in Bytes /\ Len(<<c>>) = 1 /\ <<c>>[1] = c
BY DEF Bytes

LEMMA Same ==
    ASSUME NEW s \in Bytes, NEW t \in Bytes, Len(s) = Len(t),
           \A i \in 1 .. Len(s) : s[i] = t[i]
    PROVE  s = t
BY SeqEqual DEF Bytes

LEMMA Sub ==
    ASSUME NEW s \in Bytes, NEW m \in 1 .. Len(s) + 1, NEW n \in m - 1 .. Len(s)
    PROVE  /\ SubSeq(s, m, n) \in Bytes /\ Len(SubSeq(s, m, n)) = n - m + 1
           /\ \A i \in 1 .. n - m + 1 : SubSeq(s, m, n)[i] = s[m + i - 1]
<1>1. Len(s) \in Nat /\ \A i \in 1 .. Len(s) : s[i] \in Byte
  BY LenProperties, ElementOfSeq DEF Bytes
<1>2. m \in Int /\ n \in Int /\ \A i \in m .. n : s[i] \in Byte
  BY <1>1
<1>3. /\ SubSeq(s, m, n) \in Seq(Byte)
      /\ Len(SubSeq(s, m, n)) = IF m <= n THEN n - m + 1 ELSE 0
      /\ \A i \in 1 .. n - m + 1 : SubSeq(s, m, n)[i] = s[m + i - 1]
  BY <1>2, SubSeqProperties
<1> QED BY <1>1, <1>3 DEF Bytes

LEMMA Top ==
    ASSUME NEW s \in Bytes, NEW k \in 0 .. Len(s)
    PROVE  /\ SubSeq(s, 1, k) \in Bytes /\ Len(SubSeq(s, 1, k)) = k
           /\ \A i \in 1 .. k : SubSeq(s, 1, k)[i] = s[i]
<1>1. Len(s) \in Nat
  BY LenProperties DEF Bytes
<1>2. 1 \in 1 .. Len(s) + 1 /\ k \in 1 - 1 .. Len(s) /\ k - 1 + 1 = k
      /\ \A i \in 1 .. k : 1 + i - 1 = i
  BY <1>1
<1> DEFINE p == SubSeq(s, 1, k)
<1>3. /\ p \in Bytes /\ Len(p) = k - 1 + 1
      /\ \A i \in 1 .. k - 1 + 1 : p[i] = s[1 + i - 1]
  BY <1>2, Sub
<1> HIDE DEF p
<1>4. /\ p \in Bytes /\ Len(p) = k
      /\ \A i \in 1 .. k : p[i] = s[i]
  BY <1>2, <1>3
<1> QED BY <1>4 DEF p

LEMMA Prefix ==
    ASSUME NEW s \in Bytes, NEW t \in Bytes, NEW k \in 0 .. Len(s) + Len(t)
    PROVE  /\ k <= Len(s) => SubSeq(s \o t, 1, k) = SubSeq(s, 1, k)
           /\ k > Len(s) => SubSeq(s \o t, 1, k) = s \o SubSeq(t, 1, k - Len(s))
<1>1. /\ s \o t \in Bytes /\ Len(s \o t) = Len(s) + Len(t)
      /\ Len(s) \in Nat /\ Len(t) \in Nat
      /\ \A i \in 1 .. Len(s) : (s \o t)[i] = s[i]
      /\ \A i \in 1 .. Len(t) : (s \o t)[Len(s) + i] = t[i]
  BY Cat
<1> DEFINE p == SubSeq(s \o t, 1, k)
<1>2. /\ p \in Bytes /\ Len(p) = k
      /\ \A i \in 1 .. k : p[i] = (s \o t)[i]
  BY <1>1, Top
<1> HIDE DEF p
<1>3. ASSUME k <= Len(s) PROVE p = SubSeq(s, 1, k)
  <2>1. k \in 0 .. Len(s) /\ \A i \in 1 .. k : i \in 1 .. Len(s)
    BY <1>1, <1>3
  <2>2. /\ SubSeq(s, 1, k) \in Bytes /\ Len(SubSeq(s, 1, k)) = k
        /\ \A i \in 1 .. k : SubSeq(s, 1, k)[i] = s[i]
    BY <2>1, Top
  <2> QED BY <1>1, <1>2, <2>1, <2>2, Same
<1>4. ASSUME k > Len(s) PROVE p = s \o SubSeq(t, 1, k - Len(s))
  <2> DEFINE j == k - Len(s)  q == SubSeq(t, 1, j)
  <2>1. /\ j \in 0 .. Len(t) /\ Len(s) + j = k
        /\ \A i \in 1 .. j : i \in 1 .. Len(t)
    BY <1>1, <1>4
  <2> HIDE DEF j
  <2>2. /\ q \in Bytes /\ Len(q) = j
        /\ \A i \in 1 .. j : q[i] = t[i]
    BY <2>1, Top
  <2> HIDE DEF q
  <2>3. /\ s \o q \in Bytes /\ Len(s \o q) = k
        /\ \A i \in 1 .. Len(s) : (s \o q)[i] = s[i]
        /\ \A i \in 1 .. j : (s \o q)[Len(s) + i] = q[i]
    BY <2>1, <2>2, Cat
  <2>5. ASSUME NEW i \in 1 .. k PROVE p[i] = (s \o q)[i]
    <3>1. CASE i <= Len(s)
      BY <1>1, <1>2, <2>3, <3>1
    <3>2. ASSUME i > Len(s) PROVE p[i] = (s \o q)[i]
      <4>1. PICK h \in 1 .. j : i = Len(s) + h
        <5>1. i - Len(s) \in 1 .. j /\ i = Len(s) + (i - Len(s))
          BY <1>1, <2>1, <3>2
        <5> QED BY <5>1
      <4>2. p[i] = t[h] /\ (s \o q)[i] = q[h] /\ q[h] = t[h]
        BY <1>1, <1>2, <2>1, <2>2, <2>3, <4>1
      <4> QED BY <4>2
    <3>3. i <= Len(s) \/ i > Len(s)
      BY <1>1
    <3> QED BY <3>1, <3>2, <3>3
  <2>6. p = s \o q
    BY <1>2, <2>3, <2>5, Same
  <2> QED BY <2>6 DEF q, j
<1> QED BY <1>3, <1>4 DEF p

LEMMA Rest ==
    ASSUME NEW s \in Bytes, NEW t \in Bytes
    PROVE  SubSeq(s \o t, Len(s) + 1, Len(s) + Len(t)) = t
<1>1. /\ s \o t \in Bytes /\ Len(s \o t) = Len(s) + Len(t)
      /\ Len(s) \in Nat /\ Len(t) \in Nat
      /\ \A i \in 1 .. Len(t) : (s \o t)[Len(s) + i] = t[i]
  BY Cat
<1>. DEFINE m == Len(s) + 1  n == Len(s) + Len(t)
<1>2. m \in 1 .. Len(s \o t) + 1 /\ n \in m - 1 .. Len(s \o t) /\ n - m + 1 = Len(t)
  BY <1>1
<1>3. /\ SubSeq(s \o t, m, n) \in Bytes /\ Len(SubSeq(s \o t, m, n)) = Len(t)
      /\ \A i \in 1 .. Len(t) : SubSeq(s \o t, m, n)[i] = (s \o t)[m + i - 1]
  <2> HIDE DEF m, n
  <2> QED BY <1>1, <1>2, Sub
<1>4. \A i \in 1 .. Len(t) : m + i - 1 = Len(s) + i
  BY <1>1
<1>5. \A i \in 1 .. Len(t) : SubSeq(s \o t, m, n)[i] = t[i]
  BY <1>1, <1>3, <1>4
<1> HIDE DEF m, n
<1>6. SubSeq(s \o t, m, n) = t
  BY <1>3, <1>5, Same
<1> QED BY <1>6 DEF m, n

LEMMA SubAll ==
    ASSUME NEW s \in Bytes
    PROVE  SubSeq(s, 1, Len(s)) = s
BY SubSeqFull DEF Bytes

LEMMA TakeAll ==
    ASSUME NEW s \in Bytes, NEW t \in Bytes
    PROVE  Take(s \o t, Len(s)) = Read(s, t)
<1>1. Len(s) \in Nat /\ Len(t) \in Nat /\ Len(s \o t) = Len(s) + Len(t)
  BY Cat
<1>2. Len(s) \in 0 .. Len(s) + Len(t) /\ ~(Len(s \o t) < Len(s))
  BY <1>1
<1>3. SubSeq(s \o t, 1, Len(s)) = s
  BY <1>1, <1>2, Prefix, SubAll
<1>4. SubSeq(s \o t, Len(s) + 1, Len(s \o t)) = t
  BY <1>1, Rest
<1> QED BY <1>2, <1>3, <1>4, Zenon DEF Take

LEMMA TakeShort ==
    ASSUME NEW s \in Bytes, NEW n \in Nat, Len(s) < n
    PROVE  Take(s, n) = Fail
BY DEF Take

\* What the reader of a number does once it has the tag.
LEMMA NumberTag ==
    ASSUME NEW c \in Byte, NEW s \in Bytes
    PROVE  /\ c <= 127 => ReadNumber(<<c>> \o s) = Read(Natural(<<c>>), s)
           /\ c >= 224 => ReadNumber(<<c>> \o s) = Read(Whole(<<c>>), s)
           /\ c \in 202..211 =>
                ReadNumber(<<c>> \o s) =
                  IF Take(s, WidthOf(c)).ok
                  THEN Read(NumberOf(c, Take(s, WidthOf(c)).val), Take(s, WidthOf(c)).rest)
                  ELSE Fail
<1> DEFINE r == Take(<<c>> \o s, 1)
<1>1. r = Read(<<c>>, s)
  BY One, TakeAll
<1>2. r.ok /\ r.val = <<c>> /\ r.rest = s /\ <<c>>[1] = c
  BY <1>1 DEF Read
<1>3. ReadNumber(<<c>> \o s) = Then(r, LAMBDA t, more :
        CASE t[1] <= 127 -> Read(Natural(t), more)
          [] t[1] >= 224 -> Read(Whole(t), more)
          [] t[1] \in 202..211 ->
               Then(Take(more, WidthOf(t[1])),
                    LAMBDA b, rest : Read(NumberOf(t[1], b), rest))
          [] OTHER -> Fail)
  BY DEF ReadNumber
<1> HIDE DEF r
<1>4. ReadNumber(<<c>> \o s) =
        CASE c <= 127 -> Read(Natural(<<c>>), s)
          [] c >= 224 -> Read(Whole(<<c>>), s)
          [] c \in 202..211 ->
               IF Take(s, WidthOf(c)).ok
               THEN Read(NumberOf(c, Take(s, WidthOf(c)).val), Take(s, WidthOf(c)).rest)
               ELSE Fail
          [] OTHER -> Fail
  BY <1>2, <1>3, Zenon DEF Then
<1>5. c \in Int
  BY DEF Byte
<1>6. CASE c <= 127
  <2>1. ~(c >= 224) /\ c \notin 202..211
    BY <1>5, <1>6
  <2> QED BY <1>4, <1>6, <2>1, Zenon
<1>7. CASE c >= 224
  <2>1. ~(c <= 127) /\ c \notin 202..211
    BY <1>5, <1>7
  <2> QED BY <1>4, <1>7, <2>1, Zenon
<1>8. CASE c \in 202..211
  <2>1. ~(c <= 127) /\ ~(c >= 224)
    BY <1>5, <1>8
  <2> QED BY <1>4, <1>8, <2>1, Zenon
<1> QED BY <1>6, <1>7, <1>8, Zenon

-----------------------------------------------------------------------------
(***************************************************************************)
(* Numbers                                                                 *)
(***************************************************************************)
Number == [1..Wide -> Byte]

\* The bytes e are read as the number n, whatever follows, and refused when they
\* are cut short.
NumberIs(e, n) ==
    /\ e \in Bytes
    /\ \A s \in Bytes : ReadNumber(e \o s) = Read(n, s)
    /\ \A k \in 0 .. Len(e) - 1 : ~ReadNumber(SubSeq(e, 1, k)).ok

LEMMA NothingThere == ~ReadNumber(<<>>).ok /\ ~ReadBytes(<<>>).ok /\ ~ReadArrayHeader(<<>>).ok
<1>1. Take(<<>>, 1) = Fail
  BY Empty, TakeShort
<1>2. ~Fail.ok
  BY DEF Fail
<1> QED BY <1>1, <1>2, Zenon DEF ReadNumber, ReadBytes, ReadArrayHeader, Then

LEMMA CutAll == ASSUME NEW s PROVE SubSeq(s, 1, 0) = <<>>
BY SubSeqEmpty

\* A prefix, from the end of its first part on.
LEMMA PrefixFrom ==
    ASSUME NEW s \in Bytes, NEW t \in Bytes, NEW j \in 0 .. Len(t)
    PROVE  SubSeq(s \o t, 1, Len(s) + j) = s \o SubSeq(t, 1, j)
<1>1. Len(s) \in Nat /\ Len(t) \in Nat
  BY Cat
<1>2. CASE j = 0
  <2>1. SubSeq(t, 1, j) = <<>> /\ s \o <<>> = s
    BY <1>2, CutAll, Empty
  <2>2. Len(s) + j = Len(s) /\ Len(s) \in 0 .. Len(s) + Len(t) /\ Len(s) <= Len(s)
    BY <1>1, <1>2
  <2>3. SubSeq(s \o t, 1, Len(s)) = SubSeq(s, 1, Len(s))
    BY <2>2, Prefix
  <2> QED BY <2>1, <2>2, <2>3, SubAll
<1>3. CASE j # 0
  <2> DEFINE k == Len(s) + j
  <2>1. k \in 0 .. Len(s) + Len(t) /\ k > Len(s) /\ k - Len(s) = j
    BY <1>1, <1>3
  <2> HIDE DEF k
  <2>2. SubSeq(s \o t, 1, k) = s \o SubSeq(t, 1, k - Len(s))
    BY <2>1, Prefix
  <2> QED BY <2>1, <2>2 DEF k
<1> QED BY <1>2, <1>3

\* What is left when bytes that begin with a tag are cut short.
LEMMA CutTag ==
    ASSUME NEW c \in Byte, NEW b \in Bytes, NEW k \in 0 .. Len(<<c>> \o b) - 1
    PROVE  \/ SubSeq(<<c>> \o b, 1, k) = <<>>
           \/ \E j \in 0 .. Len(b) - 1 : SubSeq(<<c>> \o b, 1, k) = <<c>> \o SubSeq(b, 1, j)
<1>1. Len(<<c>>) = 1 /\ <<c>> \in Bytes /\ Len(<<c>> \o b) = 1 + Len(b) /\ Len(b) \in Nat
  BY One, Cat
<1>2. CASE k = 0
  BY <1>2, CutAll
<1>3. CASE k # 0
  <2>1. k - 1 \in 0 .. Len(b) - 1 /\ k - 1 \in 0 .. Len(b) /\ Len(<<c>>) + (k - 1) = k
    BY <1>1, <1>3
  <2> DEFINE j == k - 1
  <2> HIDE DEF j
  <2>2. SubSeq(<<c>> \o b, 1, Len(<<c>>) + j) = <<c>> \o SubSeq(b, 1, j)
    BY <1>1, <2>1, PrefixFrom DEF j
  <2> QED BY <2>1, <2>2 DEF j
<1> QED BY <1>2, <1>3

LEMMA SmallNumber ==
    ASSUME NEW c \in Byte, NEW n,
           \/ c <= 127 /\ n = Natural(<<c>>)
           \/ c >= 224 /\ n = Whole(<<c>>)
    PROVE  NumberIs(<<c>>, n)
<1>1. ASSUME NEW s \in Bytes PROVE ReadNumber(<<c>> \o s) = Read(n, s)
  <2>1. CASE c <= 127 /\ n = Natural(<<c>>)
    BY NumberTag, <2>1, Zenon
  <2>2. CASE c >= 224 /\ n = Whole(<<c>>)
    BY NumberTag, <2>2, Zenon
  <2> QED BY <2>1, <2>2
<1>2. ASSUME NEW k \in 0 .. Len(<<c>>) - 1 PROVE ~ReadNumber(SubSeq(<<c>>, 1, k)).ok
  <2>1. k = 0
    BY One
  <2> QED BY <2>1, CutAll, NothingThere
<1> QED BY One, <1>1, <1>2 DEF NumberIs

LEMMA TaggedNumber ==
    ASSUME NEW c \in 202..211, NEW b \in Bytes, Len(b) = WidthOf(c)
    PROVE  NumberIs(<<c>> \o b, NumberOf(c, b))
<1>1. c \in Byte
  BY DEF Byte
<1>2. ASSUME NEW s \in Bytes
      PROVE ReadNumber(<<c>> \o s) =
              IF Take(s, WidthOf(c)).ok
              THEN Read(NumberOf(c, Take(s, WidthOf(c)).val), Take(s, WidthOf(c)).rest)
              ELSE Fail
  BY <1>1, NumberTag
<1>3. ASSUME NEW s \in Bytes PROVE ReadNumber((<<c>> \o b) \o s) = Read(NumberOf(c, b), s)
  <2>1. (<<c>> \o b) \o s = <<c>> \o (b \o s) /\ b \o s \in Bytes
    <3>1. <<c>> \in Bytes
      BY <1>1, One
    <3>2. b \o s \in Bytes
      BY Cat
    <3> QED BY <3>1, <3>2, Assoc
  <2> DEFINE r == Take(b \o s, WidthOf(c))
  <2>2. r = Read(b, s)
    BY TakeAll
  <2>3. r.ok /\ r.val = b /\ r.rest = s
    BY <2>2 DEF Read
  <2>4. ReadNumber(<<c>> \o (b \o s)) = IF r.ok THEN Read(NumberOf(c, r.val), r.rest) ELSE Fail
    BY <1>2, <2>1
  <2> HIDE DEF r
  <2> QED BY <2>1, <2>3, <2>4
<1>4. ASSUME NEW k \in 0 .. Len(<<c>> \o b) - 1
      PROVE ~ReadNumber(SubSeq(<<c>> \o b, 1, k)).ok
  <2>1. CASE SubSeq(<<c>> \o b, 1, k) = <<>>
    BY <2>1, NothingThere
  <2>2. ASSUME NEW j \in 0 .. Len(b) - 1, SubSeq(<<c>> \o b, 1, k) = <<c>> \o SubSeq(b, 1, j)
        PROVE  ~ReadNumber(SubSeq(<<c>> \o b, 1, k)).ok
    <3> DEFINE t == SubSeq(b, 1, j)
    <3>1. t \in Bytes /\ Len(t) < WidthOf(c) /\ WidthOf(c) \in Nat
      <4>1. Len(b) \in Nat /\ j \in 0 .. Len(b) /\ j < Len(b)
        BY Cat
      <4> QED BY <4>1, Top
    <3>2. Take(t, WidthOf(c)) = Fail /\ ~Fail.ok
      BY <3>1, TakeShort DEF Fail
    <3> HIDE DEF t
    <3>3. ReadNumber(<<c>> \o t) = Fail
      BY <1>2, <3>1, <3>2
    <3> QED BY <2>2, <3>2, <3>3 DEF t
  <2>3. c \in Byte
    BY <1>1
  <2> QED BY <2>1, <2>2, <2>3, CutTag
<1> QED BY <1>1, <1>3, <1>4, One, Cat DEF NumberIs

LEMMA RangeLength ==
    ASSUME NEW m \in Nat, NEW n \in Nat, 1..m = 1..n
    PROVE  m = n
<1>1. ASSUME m < n PROVE FALSE
  <2>1. n \in 1..n /\ n \notin 1..m
    BY <1>1
  <2> QED BY <2>1
<1>2. ASSUME n < m PROVE FALSE
  <2>1. m \in 1..m /\ m \notin 1..n
    BY <1>2
  <2> QED BY <2>1
<1> QED BY <1>1, <1>2

LEMMA NumberBytes ==
    ASSUME NEW v \in Number
    PROVE  v \in Bytes /\ Len(v) = 8 /\ \A i \in 1..8 : v[i] \in Byte
<1>1. v \in [1..8 -> Byte]
  BY DEF Number, Wide
<1>2. [1..8 -> Byte] \subseteq Bytes
  BY SeqDef DEF Bytes
<1>3. v \in Bytes
  BY <1>1, <1>2
<1>4. DOMAIN v = 1 .. Len(v) /\ DOMAIN v = 1..8 /\ Len(v) \in Nat
  BY <1>1, <1>3, LenProperties DEF Bytes
<1>5. Len(v) = 8
  BY <1>4, RangeLength
<1> QED BY <1>1, <1>3, <1>5

LEMMA LowestBytes ==
    ASSUME NEW v \in Number, NEW w \in 1..8
    PROVE  /\ Lowest(v, w) \in Bytes /\ Len(Lowest(v, w)) = w
           /\ \A i \in 1..w : Lowest(v, w)[i] = v[8 - w + i]
<1>0. Len(v) = 8
  BY NumberBytes
<1>1. /\ 9 - w \in 1 .. Len(v) + 1 /\ 8 \in (9 - w) - 1 .. Len(v) /\ 8 - (9 - w) + 1 = w
      /\ \A i \in 1..w : (9 - w) + i - 1 = 8 - w + i
  BY <1>0
<1> DEFINE m == 9 - w  p == SubSeq(v, m, 8)
<1>2. /\ p \in Bytes /\ Len(p) = 8 - m + 1
      /\ \A i \in 1 .. 8 - m + 1 : p[i] = v[m + i - 1]
  <2> HIDE DEF m
  <2> QED BY <1>1, NumberBytes, Sub DEF m
<1>3. p = Lowest(v, w)
  BY DEF Lowest, Wide
<1> HIDE DEF p
<1> QED BY <1>1, <1>2, <1>3

LEMMA Extended ==
    ASSUME NEW v \in Number, NEW w \in 1..8, NEW x \in Byte,
           \A i \in 1 .. 8 - w : v[i] = x
    PROVE  Padding(Lowest(v, w), x) \o Lowest(v, w) = v
<1> DEFINE l == Lowest(v, w)  h == Padding(l, x)
<1>1. l \in Bytes /\ Len(l) = w /\ \A i \in 1..w : l[i] = v[8 - w + i]
  BY LowestBytes
<1> HIDE DEF l
<1>2. h = [i \in 1 .. 8 - w |-> x]
  BY <1>1 DEF Wide, Padding
<1> DEFINE g == [i \in 1 .. 8 - w |-> x]
<1>3. g \in Bytes /\ Len(g) = 8 - w /\ \A i \in 1 .. 8 - w : g[i] = x
  <2>1. g \in [1 .. 8 - w -> Byte] /\ 8 - w \in Nat
    OBVIOUS
  <2>2. g \in Bytes
    BY <2>1, SeqDef DEF Bytes
  <2>3. DOMAIN g = 1 .. Len(g) /\ DOMAIN g = 1 .. 8 - w /\ Len(g) \in Nat
    BY <2>1, <2>2, LenProperties DEF Bytes
  <2>4. Len(g) = 8 - w
    BY <2>1, <2>3, RangeLength
  <2> QED BY <2>2, <2>4
<1> HIDE DEF g
<1>4. /\ g \o l \in Bytes /\ Len(g \o l) = 8
      /\ \A i \in 1 .. 8 - w : (g \o l)[i] = g[i]
      /\ \A i \in 1 .. w : (g \o l)[8 - w + i] = l[i]
  <2>1. /\ g \o l \in Bytes /\ Len(g \o l) = Len(g) + Len(l)
        /\ \A i \in 1 .. Len(g) : (g \o l)[i] = g[i]
        /\ \A i \in 1 .. Len(l) : (g \o l)[Len(g) + i] = l[i]
    BY <1>1, <1>3, Cat, Zenon
  <2>2. (8 - w) + w = 8
    OBVIOUS
  <2> QED BY <1>1, <1>3, <2>1, <2>2
<1>5. ASSUME NEW i \in 1..8 PROVE (g \o l)[i] = v[i]
  <2>1. CASE i \in 1 .. 8 - w
    BY <1>3, <1>4, <2>1
  <2>2. CASE i \notin 1 .. 8 - w
    <3>1. PICK j \in 1..w : i = 8 - w + j
      <4>1. i - (8 - w) \in 1..w /\ i = 8 - w + (i - (8 - w))
        BY <2>2
      <4> QED BY <4>1
    <3>2. (g \o l)[i] = l[j] /\ l[j] = v[i]
      BY <1>1, <1>4, <3>1
    <3> QED BY <3>2
  <2> QED BY <2>1, <2>2
<1>6. g \o l = v
  BY <1>4, <1>5, NumberBytes, Same
<1> QED BY <1>2, <1>6 DEF g, l

LEMMA UnsignedLowest ==
    ASSUME NEW v \in Number, NEW w \in 1..8, Below(v, w)
    PROVE  Unsigned(Lowest(v, w)) = v
<1>1. 0 \in Byte /\ \A i \in 1 .. 8 - w : v[i] = 0
  BY DEF Below, Byte, Wide
<1> QED BY <1>1, Extended DEF Unsigned

LEMMA SignedLowest ==
    ASSUME NEW v \in Number, NEW w \in 1..8, Above(v, w)
    PROVE  Whole(Lowest(v, w)) = [kind |-> "negative", bytes |-> v]
<1>1. 255 \in Byte /\ (\A i \in 1 .. 8 - w : v[i] = 255) /\ v[9 - w] >= 128
  BY DEF Above, Byte, Wide
<1>2. Lowest(v, w)[1] = v[9 - w]
  <2>1. 1 \in 1..w /\ 8 - w + 1 = 9 - w
    OBVIOUS
  <2>2. \A i \in 1..w : Lowest(v, w)[i] = v[8 - w + i]
    BY LowestBytes
  <2> QED BY <2>1, <2>2
<1>3. Lowest(v, w)[1] >= 128
  BY <1>1, <1>2
<1>4. Padding(Lowest(v, w), 255) \o Lowest(v, w) = v
  <2>1. \A x \in Byte : (\A i \in 1 .. 8 - w : v[i] = x) =>
          Padding(Lowest(v, w), x) \o Lowest(v, w) = v
    BY Extended
  <2> QED BY <1>1, <2>1, Zenon
<1>5. Signed(Lowest(v, w)) = v
  BY <1>3, <1>4, Zenon DEF Signed
<1> QED BY <1>3, <1>5 DEF Whole

LEMMA LowestAll ==
    ASSUME NEW v \in Number
    PROVE  Lowest(v, 8) = v
<1>1. 9 - 8 = 1 /\ Len(v) = 8 /\ v \in Bytes
  BY NumberBytes
<1> QED BY <1>1, SubAll DEF Lowest, Wide

LEMMA LowestOne ==
    ASSUME NEW v \in Number
    PROVE  Lowest(v, 1) = <<v[8]>>
<1>1. /\ Lowest(v, 1) \in Bytes /\ Len(Lowest(v, 1)) = 1
      /\ \A i \in 1..1 : Lowest(v, 1)[i] = v[8 - 1 + i]
  BY LowestBytes
<1>2. Lowest(v, 1)[1] = v[8]
  BY <1>1
<1>3. <<v[8]>> \in Bytes /\ Len(<<v[8]>>) = 1 /\ <<v[8]>>[1] = v[8]
  BY NumberBytes, One
<1>4. \A i \in 1 .. 1 : Lowest(v, 1)[i] = <<v[8]>>[i]
  BY <1>2, <1>3
<1> QED BY <1>1, <1>3, <1>4, Same

LEMMA NaturalLowest ==
    ASSUME NEW v \in Number, NEW w \in 1..8, Below(v, w)
    PROVE  Natural(Lowest(v, w)) = Natural(v)
<1>1. Unsigned(Lowest(v, w)) = v
  BY UnsignedLowest
<1>2. Below(v, 8)
  BY DEF Below, Wide
<1>3. Unsigned(v) = v
  <2>1. Unsigned(Lowest(v, 8)) = v
    BY <1>2, UnsignedLowest
  <2> QED BY <2>1, LowestAll
<1> QED BY <1>1, <1>3 DEF Natural

LEMMA NaturalWidth ==
    ASSUME NEW v \in Number, NEW c \in 204..207, NEW w \in 1..8, w = WidthOf(c), Below(v, w)
    PROVE  NumberIs(<<c>> \o Lowest(v, w), Natural(v))
<1>1. NumberIs(<<c>> \o Lowest(v, w), NumberOf(c, Lowest(v, w)))
  <2>1. c \in 202..211
    OBVIOUS
  <2>2. Lowest(v, w) \in Bytes /\ Len(Lowest(v, w)) = WidthOf(c)
    BY LowestBytes
  <2> QED BY <2>1, <2>2, TaggedNumber, Zenon
<1>2. NumberOf(c, Lowest(v, w)) = Natural(Lowest(v, w))
  BY DEF NumberOf
<1> QED BY <1>1, <1>2, NaturalLowest

\* Every unsigned number the node writes is read as it was.
THEOREM UintsReadBack == \A v \in Number : NumberIs(Uint(v), Natural(v))
<1> SUFFICES ASSUME NEW v \in Number PROVE NumberIs(Uint(v), Natural(v))
  OBVIOUS
<1>0. v[8] \in Byte /\ v[8] \in Int
  BY NumberBytes DEF Byte
<1>1. CASE Below(v, 1) /\ v[Wide] < 128
  <2>1. Uint(v) = <<v[8]>>
    <3>1. ~(v[Wide] >= 128) /\ Below(v, 2) /\ Below(v, 4)
      BY <1>0, <1>1 DEF Wide, Below
    <3>2. Uint(v) = Lowest(v, 1)
      BY <1>1, <3>1, Zenon DEF Uint
    <3> QED BY <3>2, LowestOne
  <2>2. v[8] <= 127 /\ v[8] \in Byte
    BY <1>0, <1>1 DEF Wide
  <2>3. NumberIs(<<v[8]>>, Natural(<<v[8]>>))
    BY <2>2, SmallNumber
  <2>4. Natural(<<v[8]>>) = Natural(v)
    BY <1>1, NaturalLowest, LowestOne
  <2> QED BY <2>1, <2>3, <2>4
<1>2. CASE Below(v, 1) /\ v[Wide] >= 128
  <2>1. ~(v[Wide] < 128) /\ Below(v, 2) /\ Below(v, 4)
    BY <1>0, <1>2 DEF Wide, Below
  <2>2. Uint(v) = <<204>> \o Lowest(v, 1)
    BY <1>2, <2>1, Zenon DEF Uint
  <2>3. WidthOf(204) = 1
    BY DEF WidthOf
  <2> QED BY <1>2, <2>2, <2>3, NaturalWidth
<1>3. CASE Below(v, 2) /\ ~Below(v, 1)
  <2>1. Below(v, 4)
    BY <1>3 DEF Wide, Below
  <2>2. Uint(v) = <<205>> \o Lowest(v, 2)
    BY <1>3, <2>1, Zenon DEF Uint
  <2>3. WidthOf(205) = 2
    BY DEF WidthOf
  <2> QED BY <1>3, <2>2, <2>3, NaturalWidth
<1>4. CASE Below(v, 4) /\ ~Below(v, 2)
  <2>1. ~Below(v, 1)
    BY <1>4 DEF Wide, Below
  <2>2. Uint(v) = <<206>> \o Lowest(v, 4)
    BY <1>4, <2>1, Zenon DEF Uint
  <2>3. WidthOf(206) = 4
    BY DEF WidthOf
  <2> QED BY <1>4, <2>2, <2>3, NaturalWidth
<1>5. CASE ~Below(v, 4)
  <2>1. ~Below(v, 1) /\ ~Below(v, 2)
    BY <1>5 DEF Wide, Below
  <2>2. Uint(v) = <<207>> \o Lowest(v, 8)
    BY <1>5, <2>1, LowestAll, Zenon DEF Uint
  <2>3. WidthOf(207) = 8 /\ Below(v, 8)
    BY DEF WidthOf, Below, Wide
  <2> QED BY <2>2, <2>3, NaturalWidth
<1>6. v[Wide] < 128 \/ v[Wide] >= 128
  BY <1>0 DEF Wide
<1> QED BY <1>1, <1>2, <1>3, <1>4, <1>5, <1>6

LEMMA NegativeWidth ==
    ASSUME NEW v \in Number, NEW c \in 208..211, NEW w \in 1..8, w = WidthOf(c), Above(v, w)
    PROVE  NumberIs(<<c>> \o Lowest(v, w), [kind |-> "negative", bytes |-> v])
<1>1. NumberIs(<<c>> \o Lowest(v, w), NumberOf(c, Lowest(v, w)))
  <2>1. c \in 202..211
    OBVIOUS
  <2>2. Lowest(v, w) \in Bytes /\ Len(Lowest(v, w)) = WidthOf(c)
    BY LowestBytes
  <2> QED BY <2>1, <2>2, TaggedNumber, Zenon
<1>2. NumberOf(c, Lowest(v, w)) = Whole(Lowest(v, w))
  BY DEF NumberOf
<1> QED BY <1>1, <1>2, SignedLowest

LEMMA SignedAll ==
    ASSUME NEW v \in Number
    PROVE  Signed(v) = v /\ Unsigned(v) = v
<1>1. ASSUME NEW x \in Byte PROVE Padding(v, x) \o v = v
  <2>1. 8 \in 1..8 /\ \A i \in 1 .. 8 - 8 : v[i] = x
    OBVIOUS
  <2>2. Padding(Lowest(v, 8), x) \o Lowest(v, 8) = v
    BY <2>1, Extended, Zenon
  <2> QED BY <2>2, LowestAll
<1>2. 0 \in Byte /\ 255 \in Byte
  BY DEF Byte
<1>3. Padding(v, 0) \o v = v /\ Padding(v, 255) \o v = v
  BY <1>1, <1>2, Zenon
<1>4. Unsigned(v) = v
  BY <1>3 DEF Unsigned
<1>5. CASE v[1] >= 128
  BY <1>3, <1>4, <1>5, Zenon DEF Signed
<1>6. CASE ~(v[1] >= 128)
  BY <1>3, <1>4, <1>6, Zenon DEF Signed
<1> QED BY <1>5, <1>6

\* Every signed number the node writes is read as it was.
THEOREM IntegersReadBack == \A v \in Number : NumberIs(Integer(v), Whole(v))
<1> SUFFICES ASSUME NEW v \in Number PROVE NumberIs(Integer(v), Whole(v))
  OBVIOUS
<1>0. v[8] \in Byte /\ v[8] \in Int
  BY NumberBytes DEF Byte
<1>1. CASE ~Negative(v)
  <2>1. Integer(v) = Uint(v)
    <3>1. ~Above(v, 1) /\ ~Above(v, 2) /\ ~Above(v, 4)
      BY <1>1 DEF Above, Negative, Wide
    <3> QED BY <1>1, <3>1, Zenon DEF Integer
  <2>2. Whole(v) = Natural(v)
    BY <1>1, SignedAll DEF Whole, Natural, Negative
  <2> QED BY <2>1, <2>2, UintsReadBack
<1>2. CASE Negative(v)
  <2> DEFINE n == [kind |-> "negative", bytes |-> v]
  <2>0. Whole(v) = n
    BY <1>2, SignedAll DEF Whole, Negative
  <2> HIDE DEF n
  <2>1. CASE Above(v, 1) /\ v[Wide] >= 224
    <3>1. v[Wide] \notin 128..223 /\ Above(v, 2) /\ Above(v, 4)
      BY <1>0, <2>1 DEF Wide, Above
    <3>2. Integer(v) = <<v[8]>>
      BY <1>2, <2>1, <3>1, LowestOne, Zenon DEF Integer
    <3>3. v[8] >= 224 /\ v[8] \in Byte
      BY <1>0, <2>1 DEF Wide
    <3>4. NumberIs(<<v[8]>>, Whole(<<v[8]>>))
      BY <3>3, SmallNumber
    <3>5. Whole(<<v[8]>>) = n
      BY <2>1, SignedLowest, LowestOne DEF n
    <3> QED BY <2>0, <3>2, <3>4, <3>5
  <2>2. CASE Above(v, 1) /\ v[Wide] \in 128..223
    <3>1. ~(v[Wide] >= 224) /\ Above(v, 2) /\ Above(v, 4)
      BY <1>0, <2>2 DEF Wide, Above
    <3>2. Integer(v) = <<208>> \o Lowest(v, 1)
      BY <1>2, <2>2, <3>1, Zenon DEF Integer
    <3>3. WidthOf(208) = 1
      BY DEF WidthOf
    <3>4. NumberIs(<<208>> \o Lowest(v, 1), n)
      BY <2>2, <3>3, NegativeWidth DEF n
    <3> QED BY <2>0, <3>2, <3>4
  <2>3. CASE Above(v, 2) /\ ~Above(v, 1)
    <3>1. Above(v, 4)
      BY <2>3 DEF Wide, Above
    <3>2. Integer(v) = <<209>> \o Lowest(v, 2)
      BY <1>2, <2>3, <3>1, Zenon DEF Integer
    <3>3. WidthOf(209) = 2
      BY DEF WidthOf
    <3>4. NumberIs(<<209>> \o Lowest(v, 2), n)
      BY <2>3, <3>3, NegativeWidth DEF n
    <3> QED BY <2>0, <3>2, <3>4
  <2>4. CASE Above(v, 4) /\ ~Above(v, 2)
    <3>1. ~Above(v, 1)
      <4>1. ASSUME Above(v, 1) PROVE Above(v, 2)
        BY <4>1 DEF Wide, Above
      <4> QED BY <2>4, <4>1
    <3>2. Integer(v) = <<210>> \o Lowest(v, 4)
      BY <1>2, <2>4, <3>1, Zenon DEF Integer
    <3>3. WidthOf(210) = 4
      BY DEF WidthOf
    <3>4. NumberIs(<<210>> \o Lowest(v, 4), n)
      BY <2>4, <3>3, NegativeWidth DEF n
    <3> QED BY <2>0, <3>2, <3>4
  <2>5. CASE ~Above(v, 4)
    <3>1. ~Above(v, 1) /\ ~Above(v, 2)
      <4>1. Above(v, 1) => Above(v, 4)
        BY DEF Wide, Above
      <4>2. Above(v, 2) => Above(v, 4)
        BY DEF Wide, Above
      <4> QED BY <2>5, <4>1, <4>2
    <3>2. Integer(v) = <<211>> \o Lowest(v, 8)
      BY <1>2, <2>5, <3>1, LowestAll, Zenon DEF Integer
    <3>3. WidthOf(211) = 8 /\ Above(v, 8)
      BY <1>2 DEF WidthOf, Above, Wide, Negative
    <3>4. NumberIs(<<211>> \o Lowest(v, 8), n)
      BY <3>3, NegativeWidth DEF n
    <3> QED BY <2>0, <3>2, <3>4
  <2>6. Above(v, 1) => v[Wide] >= 224 \/ v[Wide] \in 128..223
    BY <1>0 DEF Above, Wide
  <2> QED BY <2>1, <2>2, <2>3, <2>4, <2>5, <2>6
<1> QED BY <1>1, <1>2

\* Every double the node writes is read as it was.
THEOREM FloatsReadBack == \A v \in Number : NumberIs(Float64(v), Real(v))
<1> SUFFICES ASSUME NEW v \in Number PROVE NumberIs(Float64(v), Real(v))
  OBVIOUS
<1>1. WidthOf(203) = 8 /\ NumberOf(203, v) = Real(v)
  BY DEF WidthOf, NumberOf
<1>2. v \in Bytes /\ Len(v) = WidthOf(203)
  BY <1>1, NumberBytes
<1>3. 203 \in 202..211
  OBVIOUS
<1> QED BY <1>1, <1>2, <1>3, TaggedNumber DEF Float64
-----------------------------------------------------------------------------
(***************************************************************************)
(* Texts and counts                                                        *)
(***************************************************************************)
\* The bytes e are read as the text t.
TextIs(e, t) ==
    /\ e \in Bytes
    /\ \A s \in Bytes : ReadBytes(e \o s) = Read(t, s)
    /\ \A k \in 0 .. Len(e) - 1 : ~ReadBytes(SubSeq(e, 1, k)).ok

\* The bytes e are read as the number of elements that follow.
CountIs(e, n) ==
    /\ e \in Bytes
    /\ \A s \in Bytes : ReadArrayHeader(e \o s) = Read(n, s)
    /\ \A k \in 0 .. Len(e) - 1 : ~ReadArrayHeader(SubSeq(e, 1, k)).ok

LEMMA Be16Read ==
    ASSUME NEW n \in Nat, n < 65536
    PROVE  /\ Be16(n) \in Bytes /\ Len(Be16(n)) = 2 /\ Value(Be16(n)) = n
           /\ Be16(n)[1] = n \div 256 /\ Be16(n)[2] = n % 256
<1> DEFINE h == n \div 256  l == n % 256
<1>1. h \in Byte /\ l \in Byte /\ 256 * h + l = n
  BY DEF Byte
<1> HIDE DEF h, l
<1>2. <<h, l>> \in Bytes /\ Len(<<h, l>>) = 2 /\ <<h, l>>[1] = h /\ <<h, l>>[2] = l
  BY <1>1 DEF Bytes
<1>3. Value(<<h, l>>) = n
  BY <1>1, <1>2 DEF Value
<1> QED BY <1>2, <1>3 DEF Be16, h, l

LEMMA Be32Read ==
    ASSUME NEW n \in Nat, n < Huge
    PROVE  Be32(n) \in Bytes /\ Len(Be32(n)) = 4 /\ Value(Be32(n)) = n
<1> DEFINE h == n \div 65536  l == n % 65536
<1>0. n < 8192 * 65536
  BY DEF Huge
<1>1. h \in Nat /\ h < 8192 /\ h < 65536 /\ l \in Nat /\ l < 65536 /\ 65536 * h + l = n
  BY <1>0
<1> HIDE DEF h, l
<1> DEFINE a == Be16(h)  b == Be16(l)
<1>2. /\ a \in Bytes /\ Len(a) = 2 /\ a[1] = h \div 256 /\ a[2] = h % 256
      /\ b \in Bytes /\ Len(b) = 2 /\ b[1] = l \div 256 /\ b[2] = l % 256
  <2>1. ASSUME NEW m \in Nat, m < 65536
        PROVE /\ Be16(m) \in Bytes /\ Len(Be16(m)) = 2
              /\ Be16(m)[1] = m \div 256 /\ Be16(m)[2] = m % 256
    BY <2>1, Be16Read
  <2> QED BY <1>1, <2>1
<1> HIDE DEF a, b
<1>3. /\ a \o b \in Bytes /\ Len(a \o b) = 4
      /\ (a \o b)[1] = h \div 256 /\ (a \o b)[2] = h % 256
      /\ (a \o b)[3] = l \div 256 /\ (a \o b)[4] = l % 256
  <2>0. a \in Bytes /\ b \in Bytes
    BY <1>2
  <2>1. /\ a \o b \in Bytes /\ Len(a \o b) = Len(a) + Len(b)
        /\ \A i \in 1 .. Len(a) : (a \o b)[i] = a[i]
        /\ \A i \in 1 .. Len(b) : (a \o b)[Len(a) + i] = b[i]
    BY <2>0, Cat, Zenon
  <2>2. 1 \in 1..2 /\ 2 \in 1..2 /\ 2 + 1 = 3 /\ 2 + 2 = 4
    OBVIOUS
  <2> QED BY <1>2, <2>1, <2>2
<1>4. h \div 256 < 32 /\ 256 * (h \div 256) + (h % 256) = h /\ 256 * (l \div 256) + (l % 256) = l
      /\ h \div 256 \in Nat /\ h % 256 \in Nat /\ l \div 256 \in Nat /\ l % 256 \in Nat
  BY <1>1
<1>5. Value(a \o b) = 256 * (256 * (256 * (h \div 256) + (h % 256)) + (l \div 256)) + (l % 256)
  BY <1>3, <1>4 DEF Value
<1>6. Value(a \o b) = n
  BY <1>1, <1>4, <1>5
<1> QED BY <1>3, <1>6 DEF Be32, a, b, h, l

\* What the reader of a text does once it has the tag.
TextTags == (217..219) \cup (196..198)

LEMMA TextTag ==
    ASSUME NEW c \in Byte, NEW s \in Bytes
    PROVE  /\ c \in 160..191 => ReadBytes(<<c>> \o s) = Take(s, c - 160)
           /\ c \in TextTags =>
                ReadBytes(<<c>> \o s) =
                  IF Take(s, LengthOf(c)).ok
                  THEN Take(Take(s, LengthOf(c)).rest, Value(Take(s, LengthOf(c)).val))
                  ELSE Fail
<1> DEFINE r == Take(<<c>> \o s, 1)
<1>1. r = Read(<<c>>, s)
  BY One, TakeAll
<1>2. r.ok /\ r.val = <<c>> /\ r.rest = s /\ <<c>>[1] = c
  BY <1>1 DEF Read
<1>3. ReadBytes(<<c>> \o s) = Then(r, LAMBDA t, more :
        CASE t[1] \in 160..191 -> Take(more, t[1] - 160)
          [] t[1] \in TextTags ->
               Then(Take(more, LengthOf(t[1])), LAMBDA n, rest : Take(rest, Value(n)))
          [] OTHER -> Fail)
  BY DEF ReadBytes, TextTags
<1> HIDE DEF r
<1>4. ReadBytes(<<c>> \o s) =
        CASE c \in 160..191 -> Take(s, c - 160)
          [] c \in TextTags ->
               IF Take(s, LengthOf(c)).ok
               THEN Take(Take(s, LengthOf(c)).rest, Value(Take(s, LengthOf(c)).val))
               ELSE Fail
          [] OTHER -> Fail
  BY <1>2, <1>3, Zenon DEF Then
<1>5. c \in 160..191 => c \notin TextTags
  BY DEF TextTags
<1> QED BY <1>4, <1>5, Zenon

LEMMA ShortText ==
    ASSUME NEW c \in 160..191, NEW t \in Bytes, Len(t) = c - 160
    PROVE  TextIs(<<c>> \o t, t)
<1>1. c \in Byte /\ Len(t) \in Nat
  BY DEF Byte
<1>2. <<c>> \in Bytes /\ <<c>> \o t \in Bytes
  BY <1>1, One, CatLen
<1>3. ASSUME NEW s \in Bytes PROVE ReadBytes((<<c>> \o t) \o s) = Read(t, s)
  <2>1. (<<c>> \o t) \o s = <<c>> \o (t \o s) /\ t \o s \in Bytes
    <3>1. t \o s \in Bytes
      BY CatLen
    <3> QED BY <1>2, <3>1, Assoc
  <2>2. ReadBytes(<<c>> \o (t \o s)) = Take(t \o s, Len(t))
    BY <1>1, <2>1, TextTag
  <2> QED BY <2>1, <2>2, TakeAll
<1>4. ASSUME NEW k \in 0 .. Len(<<c>> \o t) - 1
      PROVE  ~ReadBytes(SubSeq(<<c>> \o t, 1, k)).ok
  <2>1. CASE SubSeq(<<c>> \o t, 1, k) = <<>>
    BY <2>1, NothingThere
  <2>2. ASSUME NEW j \in 0 .. Len(t) - 1, SubSeq(<<c>> \o t, 1, k) = <<c>> \o SubSeq(t, 1, j)
        PROVE  ~ReadBytes(SubSeq(<<c>> \o t, 1, k)).ok
    <3> DEFINE q == SubSeq(t, 1, j)
    <3>1. q \in Bytes /\ Len(q) < Len(t)
      <4>1. j \in 0 .. Len(t) /\ j < Len(t)
        BY <1>1
      <4> QED BY <4>1, Top
    <3>2. Take(q, Len(t)) = Fail /\ ~Fail.ok
      BY <1>1, <3>1, TakeShort DEF Fail
    <3> HIDE DEF q
    <3>3. ReadBytes(<<c>> \o q) = Fail
      BY <1>1, <3>1, <3>2, TextTag
    <3> QED BY <2>2, <3>2, <3>3 DEF q
  <2> QED BY <1>1, <2>1, <2>2, CutTag
<1> QED BY <1>2, <1>3, <1>4 DEF TextIs

LEMMA LongText ==
    ASSUME NEW c \in TextTags, NEW b \in Bytes, Len(b) = LengthOf(c),
           NEW t \in Bytes, Value(b) = Len(t)
    PROVE  TextIs((<<c>> \o b) \o t, t)
<1>1. c \in Byte /\ Len(t) \in Nat /\ Len(b) \in Nat
  BY LenNat DEF Byte, TextTags
<1> DEFINE e == b \o t
<1>2. /\ <<c>> \in Bytes /\ e \in Bytes /\ <<c>> \o e \in Bytes /\ (<<c>> \o b) \o t = <<c>> \o e
      /\ Len(e) = Len(b) + Len(t)
  <2>1. <<c>> \in Bytes /\ e \in Bytes /\ Len(e) = Len(b) + Len(t)
    BY <1>1, One, CatLen
  <2>2. <<c>> \o e \in Bytes
    BY <2>1, CatLen
  <2> QED BY <2>1, <2>2, Assoc
<1>3. ASSUME NEW q \in Bytes PROVE ReadBytes(<<c>> \o (b \o q)) = Take(q, Len(t))
  <2> DEFINE r == Take(b \o q, LengthOf(c))
  <2>1. r.ok /\ r.val = b /\ r.rest = q
    <3>1. r = Read(b, q)
      BY TakeAll
    <3> QED BY <3>1 DEF Read
  <2>2. b \o q \in Bytes
    BY CatLen
  <2>3. ReadBytes(<<c>> \o (b \o q)) = IF r.ok THEN Take(r.rest, Value(r.val)) ELSE Fail
    BY <1>1, <2>2, TextTag
  <2> HIDE DEF r
  <2> QED BY <2>1, <2>3
<1>4. ASSUME NEW s \in Bytes PROVE ReadBytes((<<c>> \o e) \o s) = Read(t, s)
  <2>1. (<<c>> \o e) \o s = <<c>> \o (e \o s)
    BY <1>2, Assoc
  <2>2. e \o s = b \o (t \o s) /\ t \o s \in Bytes
    <3>1. t \o s \in Bytes
      BY CatLen
    <3> QED BY <3>1, Assoc
  <2>3. ReadBytes(<<c>> \o (b \o (t \o s))) = Take(t \o s, Len(t))
    BY <1>3, <2>2
  <2>4. Take(t \o s, Len(t)) = Read(t, s)
    BY TakeAll
  <2> HIDE DEF e
  <2> QED BY <2>1, <2>2, <2>3, <2>4
<1>5. ASSUME NEW k \in 0 .. Len(<<c>> \o e) - 1
      PROVE  ~ReadBytes(SubSeq(<<c>> \o e, 1, k)).ok
  <2>0. ~Fail.ok
    BY DEF Fail
  <2>1. CASE SubSeq(<<c>> \o e, 1, k) = <<>>
    BY <2>1, NothingThere
  <2>2. ASSUME NEW j \in 0 .. Len(e) - 1, SubSeq(<<c>> \o e, 1, k) = <<c>> \o SubSeq(e, 1, j)
        PROVE  ~ReadBytes(SubSeq(<<c>> \o e, 1, k)).ok
    <3>1. CASE j < Len(b)
      <4> DEFINE q == SubSeq(e, 1, j)
      <4>1. j \in 0 .. Len(e)
        BY <1>1, <1>2
      <4>2. q \in Bytes /\ Len(q) = j
        BY <1>2, <4>1, Top
      <4>3. Take(q, LengthOf(c)) = Fail
        <5>1. LengthOf(c) \in Nat /\ Len(q) < LengthOf(c)
          BY <1>1, <3>1, <4>2
        <5> HIDE DEF q
        <5> QED BY <4>2, <5>1, TakeShort
      <4> HIDE DEF q
      <4>4. ReadBytes(<<c>> \o q) = Fail
        BY <1>1, <2>0, <4>2, <4>3, TextTag
      <4> QED BY <2>0, <2>2, <4>4 DEF q
    <3>2. CASE j >= Len(b)
      <4> DEFINE i == j - Len(b)  q == SubSeq(t, 1, i)
      <4>1. i \in 0 .. Len(t) /\ i < Len(t) /\ Len(b) + i = j
        BY <1>1, <1>2, <3>2
      <4> HIDE DEF i
      <4>2. q \in Bytes /\ Len(q) = i
        BY <4>1, Top
      <4>3. SubSeq(e, 1, j) = b \o q
        BY <4>1, PrefixFrom
      <4>4. Take(q, Len(t)) = Fail
        BY <1>1, <4>1, <4>2, TakeShort
      <4> HIDE DEF q, e
      <4>5. ReadBytes(<<c>> \o (b \o q)) = Fail
        BY <1>3, <4>2, <4>4
      <4> QED BY <2>0, <2>2, <4>3, <4>5
    <3> QED BY <1>1, <3>1, <3>2
  <2> HIDE DEF e
  <2> QED BY <1>1, <1>2, <2>1, <2>2, CutTag
<1> QED BY <1>2, <1>4, <1>5 DEF TextIs

LEMMA Small1 == \A n \in Nat : n < 32 => 160 + n \in 160..191 /\ (160 + n) - 160 = n
OBVIOUS

LEMMA ByteRead ==
    ASSUME NEW n \in Nat, n < 256, NEW c \in Byte
    PROVE  <<n>> \in Bytes /\ Len(<<n>>) = 1 /\ Value(<<n>>) = n /\ <<c, n>> = <<c>> \o <<n>>
<1>1. n \in Byte
  BY DEF Byte
<1>2. <<n>> \in Bytes /\ Len(<<n>>) = 1 /\ <<n>>[1] = n
  BY <1>1, One
<1>3. <<c>> \in Bytes /\ Len(<<c>>) = 1 /\ <<c>>[1] = c
  BY One
<1>4. <<c, n>> = <<c>> \o <<n>>
  <2>1. /\ <<c>> \o <<n>> \in Bytes /\ Len(<<c>> \o <<n>>) = Len(<<c>>) + Len(<<n>>)
        /\ \A i \in 1 .. Len(<<c>>) : (<<c>> \o <<n>>)[i] = <<c>>[i]
        /\ \A i \in 1 .. Len(<<n>>) : (<<c>> \o <<n>>)[Len(<<c>>) + i] = <<n>>[i]
    BY <1>2, <1>3, Cat, Zenon
  <2>2. 1 \in 1..1 /\ 1 + 1 = 2
    OBVIOUS
  <2>3. Len(<<c>> \o <<n>>) = 2 /\ (<<c>> \o <<n>>)[1] = c /\ (<<c>> \o <<n>>)[2] = n
    BY <1>2, <1>3, <2>1, <2>2
  <2>4. <<c, n>> \in Bytes /\ Len(<<c, n>>) = 2 /\ <<c, n>>[1] = c /\ <<c, n>>[2] = n
    BY <1>1 DEF Bytes
  <2>5. \A i \in 1..2 : <<c, n>>[i] = (<<c>> \o <<n>>)[i]
    BY <2>3, <2>4
  <2> QED BY <2>1, <2>3, <2>4, <2>5, Same
<1>5. Value(<<n>>) = n
  BY <1>2 DEF Value
<1> QED BY <1>2, <1>4, <1>5

LEMMA LengthsOf ==
    /\ LengthOf(217) = 1 /\ LengthOf(218) = 2 /\ LengthOf(219) = 4
    /\ LengthOf(196) = 1 /\ LengthOf(197) = 2 /\ LengthOf(198) = 4
    /\ {196, 197, 198, 217, 218, 219} \subseteq TextTags
    /\ {196, 197, 198, 217, 218, 219} \subseteq Byte
BY DEF LengthOf, TextTags, Byte

\* Every text of a length a message can have is read as it was, whether the node
\* writes it as a string or as bytes.
THEOREM TextsReadBack ==
    \A t \in Bytes : Len(t) < Huge => TextIs(Str(t), t) /\ TextIs(Bin(t), t)
<1> SUFFICES ASSUME NEW t \in Bytes, Len(t) < Huge
             PROVE  TextIs(Str(t), t) /\ TextIs(Bin(t), t)
  OBVIOUS
<1> DEFINE n == Len(t)
<1>0. n \in Nat
  BY LenNat
<1>1. n = Len(t) /\ n < Huge
  OBVIOUS
<1> HIDE DEF n
<1>a. \A c \in TextTags, b \in Bytes :
        Len(b) = LengthOf(c) /\ Value(b) = n => TextIs((<<c>> \o b) \o t, t)
  BY <1>1, LongText
<1>2. ASSUME NEW c \in {196, 217}, n < 256 PROVE TextIs(<<c, n>> \o t, t)
  <2>1. c \in TextTags /\ c \in Byte /\ LengthOf(c) = 1
    BY LengthsOf
  <2>2. <<n>> \in Bytes /\ Len(<<n>>) = 1 /\ Value(<<n>>) = n /\ <<c, n>> = <<c>> \o <<n>>
    BY <1>0, <1>2, <2>1, ByteRead
  <2> QED BY <1>a, <2>1, <2>2
<1>3. ASSUME NEW c \in TextTags, LengthOf(c) = 2, n < 65536 PROVE TextIs((<<c>> \o Be16(n)) \o t, t)
  <2> DEFINE b == Be16(n)
  <2>1. b \in Bytes /\ Len(b) = 2 /\ Value(b) = n
    BY <1>0, <1>3, Be16Read
  <2> HIDE DEF b
  <2>2. b \in Bytes /\ Len(b) = LengthOf(c) /\ Value(b) = n
    BY <1>3, <2>1
  <2>3. TextIs((<<c>> \o b) \o t, t)
    BY <1>a, <2>2, Zenon
  <2> QED BY <2>3 DEF b
<1>4. ASSUME NEW c \in TextTags, LengthOf(c) = 4 PROVE TextIs((<<c>> \o Be32(n)) \o t, t)
  <2> DEFINE b == Be32(n)
  <2>1. b \in Bytes /\ Len(b) = 4 /\ Value(b) = n
    BY <1>0, <1>1, Be32Read
  <2> HIDE DEF b
  <2>2. b \in Bytes /\ Len(b) = LengthOf(c) /\ Value(b) = n
    BY <1>4, <2>1
  <2>3. TextIs((<<c>> \o b) \o t, t)
    BY <1>a, <2>2, Zenon
  <2> QED BY <2>3 DEF b
<1>5. TextIs(Bin(t), t)
  <2>1. CASE n < 256
    <3>1. Bin(t) = <<196, n>> \o t
      BY <1>1, <2>1 DEF Bin, BinHeader
    <3> QED BY <1>2, <2>1, <3>1
  <2>2. CASE ~(n < 256) /\ n < 65536
    <3>1. Bin(t) = (<<197>> \o Be16(n)) \o t
      BY <1>1, <2>2 DEF Bin, BinHeader
    <3> QED BY <1>3, <2>2, <3>1, LengthsOf
  <2>3. CASE ~(n < 256) /\ ~(n < 65536)
    <3>1. Bin(t) = (<<198>> \o Be32(n)) \o t
      BY <1>1, <2>3 DEF Bin, BinHeader
    <3> QED BY <1>4, <3>1, LengthsOf
  <2> QED BY <2>1, <2>2, <2>3
<1>6. TextIs(Str(t), t)
  <2>0. CASE n < 32
    <3>1. Str(t) = <<160 + n>> \o t
      BY <1>1, <2>0 DEF Str, StrHeader
    <3>2. 160 + n \in 160..191 /\ n = (160 + n) - 160
      BY <1>0, <2>0, Small1
    <3>3. \A c \in 160..191 : n = c - 160 => TextIs(<<c>> \o t, t)
      BY <1>1, ShortText
    <3> QED BY <3>1, <3>2, <3>3, Zenon
  <2>1. CASE ~(n < 32) /\ n < 256
    <3>1. Str(t) = <<217, n>> \o t
      BY <1>1, <2>1 DEF Str, StrHeader
    <3> QED BY <1>2, <2>1, <3>1
  <2>2. CASE ~(n < 32) /\ ~(n < 256) /\ n < 65536
    <3>1. Str(t) = (<<218>> \o Be16(n)) \o t
      BY <1>1, <2>2 DEF Str, StrHeader
    <3> QED BY <1>3, <2>2, <3>1, LengthsOf
  <2>3. CASE ~(n < 32) /\ ~(n < 256) /\ ~(n < 65536)
    <3>1. Str(t) = (<<219>> \o Be32(n)) \o t
      BY <1>1, <2>3 DEF Str, StrHeader
    <3> QED BY <1>4, <3>1, LengthsOf
  <2> QED BY <2>0, <2>1, <2>2, <2>3
<1> QED BY <1>5, <1>6

\* What the reader of a count does once it has the tag.
CountTags == {220, 221}
CountWidth(c) == IF c = 220 THEN 2 ELSE 4

LEMMA CountTag ==
    ASSUME NEW c \in Byte, NEW s \in Bytes
    PROVE  /\ c \in 144..159 => ReadArrayHeader(<<c>> \o s) = Read(c - 144, s)
           /\ c \in CountTags =>
                ReadArrayHeader(<<c>> \o s) =
                  IF Take(s, CountWidth(c)).ok
                  THEN Read(Value(Take(s, CountWidth(c)).val), Take(s, CountWidth(c)).rest)
                  ELSE Fail
<1> DEFINE r == Take(<<c>> \o s, 1)
<1>1. r = Read(<<c>>, s)
  BY One, TakeAll
<1>2. r.ok /\ r.val = <<c>> /\ r.rest = s /\ <<c>>[1] = c
  BY <1>1 DEF Read
<1>3. ReadArrayHeader(<<c>> \o s) = Then(r, LAMBDA t, more :
        CASE t[1] \in 144..159 -> Read(t[1] - 144, more)
          [] t[1] \in CountTags ->
               Then(Take(more, CountWidth(t[1])), LAMBDA n, rest : Read(Value(n), rest))
          [] OTHER -> Fail)
  BY DEF ReadArrayHeader, CountTags, CountWidth
<1> HIDE DEF r
<1>4. ReadArrayHeader(<<c>> \o s) =
        CASE c \in 144..159 -> Read(c - 144, s)
          [] c \in CountTags ->
               IF Take(s, CountWidth(c)).ok
               THEN Read(Value(Take(s, CountWidth(c)).val), Take(s, CountWidth(c)).rest)
               ELSE Fail
          [] OTHER -> Fail
  BY <1>2, <1>3, Zenon DEF Then
<1>5. c \in 144..159 => c \notin CountTags
  BY DEF CountTags
<1> QED BY <1>4, <1>5, Zenon

LEMMA ShortCount ==
    ASSUME NEW c \in 144..159
    PROVE  CountIs(<<c>>, c - 144)
<1>1. c \in Byte
  BY DEF Byte
<1>2. ASSUME NEW s \in Bytes PROVE ReadArrayHeader(<<c>> \o s) = Read(c - 144, s)
  BY <1>1, CountTag
<1>3. ASSUME NEW k \in 0 .. Len(<<c>>) - 1 PROVE ~ReadArrayHeader(SubSeq(<<c>>, 1, k)).ok
  <2>1. k = 0
    BY <1>1, One
  <2> QED BY <2>1, CutAll, NothingThere
<1> QED BY <1>1, One, <1>2, <1>3 DEF CountIs

LEMMA LongCount ==
    ASSUME NEW c \in CountTags, NEW b \in Bytes, Len(b) = CountWidth(c)
    PROVE  CountIs(<<c>> \o b, Value(b))
<1> DEFINE w == CountWidth(c)
<1>1. c \in Byte /\ Len(b) = w /\ w \in Nat
  BY DEF Byte, CountTags, CountWidth
<1>2. ASSUME NEW s \in Bytes
      PROVE  ReadArrayHeader(<<c>> \o s) =
               IF Take(s, w).ok THEN Read(Value(Take(s, w).val), Take(s, w).rest) ELSE Fail
  BY <1>1, CountTag
<1>w. w = Len(b)
  BY <1>1
<1> HIDE DEF w
<1>3. ASSUME NEW s \in Bytes PROVE ReadArrayHeader((<<c>> \o b) \o s) = Read(Value(b), s)
  <2>1. (<<c>> \o b) \o s = <<c>> \o (b \o s) /\ b \o s \in Bytes
    <3>1. <<c>> \in Bytes
      BY <1>1, One
    <3>2. b \o s \in Bytes
      BY CatLen
    <3> QED BY <3>1, <3>2, Assoc
  <2> DEFINE r == Take(b \o s, w)
  <2>2. r = Read(b, s)
    BY <1>1, TakeAll
  <2>3. r.ok /\ r.val = b /\ r.rest = s
    BY <2>2 DEF Read
  <2>4. ReadArrayHeader(<<c>> \o (b \o s)) = IF r.ok THEN Read(Value(r.val), r.rest) ELSE Fail
    BY <1>2, <2>1
  <2> HIDE DEF r
  <2> QED BY <2>1, <2>3, <2>4
<1>4. ASSUME NEW k \in 0 .. Len(<<c>> \o b) - 1
      PROVE ~ReadArrayHeader(SubSeq(<<c>> \o b, 1, k)).ok
  <2>1. CASE SubSeq(<<c>> \o b, 1, k) = <<>>
    BY <2>1, NothingThere
  <2>2. ASSUME NEW j \in 0 .. Len(b) - 1, SubSeq(<<c>> \o b, 1, k) = <<c>> \o SubSeq(b, 1, j)
        PROVE  ~ReadArrayHeader(SubSeq(<<c>> \o b, 1, k)).ok
    <3> DEFINE t == SubSeq(b, 1, j)
    <3>0. Len(b) \in Nat
      BY LenNat
    <3>1. t \in Bytes /\ Len(t) < Len(b)
      <4>1. j \in 0 .. Len(b) /\ j < Len(b)
        BY <3>0
      <4>2. t \in Bytes /\ Len(t) = j
        BY <4>1, Top
      <4> QED BY <4>1, <4>2
    <3> HIDE DEF t
    <3>2. Take(t, w) = Fail /\ ~Fail.ok
      <4>1. Take(t, Len(b)) = Fail
        BY <3>0, <3>1, TakeShort
      <4> QED BY <1>w, <4>1 DEF Fail
    <3>3. ReadArrayHeader(<<c>> \o t) = Fail
      BY <1>2, <3>1, <3>2
    <3> QED BY <2>2, <3>2, <3>3 DEF t
  <2>3. \/ SubSeq(<<c>> \o b, 1, k) = <<>>
        \/ \E j \in 0 .. Len(b) - 1 : SubSeq(<<c>> \o b, 1, k) = <<c>> \o SubSeq(b, 1, j)
    BY <1>1, CutTag
  <2> QED BY <2>1, <2>2, <2>3, Zenon
<1>5. <<c>> \o b \in Bytes
  BY <1>1, One, CatLen
<1> QED BY <1>3, <1>4, <1>5 DEF CountIs

LEMMA Small2 == \A n \in Nat : n < 16 => 144 + n \in 144..159 /\ (144 + n) - 144 = n
OBVIOUS

\* Every count of elements the node writes is read as it was.
THEOREM CountsReadBack == \A n \in Nat : n < Huge => CountIs(ArrayHeader(n), n)
<1> SUFFICES ASSUME NEW n \in Nat, n < Huge PROVE CountIs(ArrayHeader(n), n)
  OBVIOUS
<1>0. \A c \in CountTags, b \in Bytes : Len(b) = CountWidth(c) => CountIs(<<c>> \o b, Value(b))
  BY LongCount
<1>1. CASE n < 16
  <2>1. ArrayHeader(n) = <<144 + n>>
    BY <1>1 DEF ArrayHeader
  <2>2. 144 + n \in 144..159 /\ (144 + n) - 144 = n
    BY <1>1, Small2
  <2>3. CountIs(<<144 + n>>, (144 + n) - 144)
    BY <2>2, ShortCount
  <2> QED BY <2>1, <2>2, <2>3
<1>2. CASE ~(n < 16) /\ n < 65536
  <2> DEFINE b == Be16(n)
  <2>1. ArrayHeader(n) = <<220>> \o b
    BY <1>2 DEF ArrayHeader
  <2>2. b \in Bytes /\ Len(b) = 2 /\ Value(b) = n
    BY <1>2, Be16Read
  <2> HIDE DEF b
  <2>3. 220 \in CountTags /\ Len(b) = CountWidth(220)
    BY <2>2 DEF CountTags, CountWidth
  <2>4. CountIs(<<220>> \o b, Value(b))
    BY <1>0, <2>2, <2>3, Zenon
  <2> QED BY <2>1, <2>2, <2>4, Zenon
<1>3. CASE ~(n < 16) /\ ~(n < 65536)
  <2> DEFINE b == Be32(n)
  <2>1. ArrayHeader(n) = <<221>> \o b
    BY <1>3 DEF ArrayHeader
  <2>2. b \in Bytes /\ Len(b) = 4 /\ Value(b) = n
    BY Be32Read
  <2> HIDE DEF b
  <2>3. 221 \in CountTags /\ Len(b) = CountWidth(221)
    BY <2>2 DEF CountTags, CountWidth
  <2>4. CountIs(<<221>> \o b, Value(b))
    BY <1>0, <2>2, <2>3, Zenon
  <2> QED BY <2>1, <2>2, <2>4, Zenon
<1> QED BY <1>1, <1>2, <1>3
-----------------------------------------------------------------------------
(***************************************************************************)
(* Messages                                                                *)
(***************************************************************************)
Message(data, time, content) ==
    [dest |-> SubSeq(data, 1, HASH_LEN),
     source |-> SubSeq(data, HASH_LEN + 1, 2 * HASH_LEN),
     timestamp |-> time, content |-> Cut(Trim(content))]

\* What Unpack does once it is past the header.
Opened(data, body) ==
    Then(ReadArrayHeader(body), LAMBDA n, r1 :
    IF n < 4 THEN Fail
    ELSE Then(ReadNumber(r1), LAMBDA time, r2 :
         Then(ReadBytes(r2), LAMBDA title, r3 :
         Then(ReadBytes(r3), LAMBDA content, r4 :
             Read(Message(data, time, content), r4)))))

HeaderLen == 2 * HASH_LEN + SIG_LEN

LEMMA UnpackOpens ==
    ASSUME NEW data
    PROVE  Unpack(data) = IF Len(data) <= HeaderLen THEN Fail
                          ELSE Opened(data, SubSeq(data, HeaderLen + 1, Len(data)))
BY DEF Unpack, Opened, Message, HeaderLen

\* The four reads, one after the other.
LEMMA OpenedReads ==
    ASSUME NEW data, NEW body
    PROVE  LET q0 == ReadArrayHeader(body)
               q1 == ReadNumber(q0.rest)
               q2 == ReadBytes(q1.rest)
               q3 == ReadBytes(q2.rest)
           IN Opened(data, body) =
                IF q0.ok /\ ~(q0.val < 4) /\ q1.ok /\ q2.ok /\ q3.ok
                THEN Read(Message(data, q1.val, q3.val), q3.rest) ELSE Fail
<1> DEFINE q0 == ReadArrayHeader(body)
           q1 == ReadNumber(q0.rest)
           q2 == ReadBytes(q1.rest)
           q3 == ReadBytes(q2.rest)
           Four == Then(q3, LAMBDA content, r4 : Read(Message(data, q1.val, content), r4))
           Three == Then(q2, LAMBDA title, r3 :
                    Then(ReadBytes(r3), LAMBDA content, r4 :
                        Read(Message(data, q1.val, content), r4)))
           Two == Then(q1, LAMBDA time, r2 :
                  Then(ReadBytes(r2), LAMBDA title, r3 :
                  Then(ReadBytes(r3), LAMBDA content, r4 :
                      Read(Message(data, time, content), r4))))
<1>1. Four = IF q3.ok THEN Read(Message(data, q1.val, q3.val), q3.rest) ELSE Fail
  BY Zenon DEF Then
<1>2. Three = IF q2.ok THEN Four ELSE Fail
  BY Zenon DEF Then
<1>3. Two = IF q1.ok THEN Three ELSE Fail
  BY Zenon DEF Then
<1>4. Opened(data, body) = IF q0.ok THEN (IF q0.val < 4 THEN Fail ELSE Two) ELSE Fail
  BY Zenon DEF Then, Opened
<1> HIDE DEF q0, q1, q2, q3, Two, Three, Four
<1>5. Opened(data, body) =
        IF q0.ok /\ ~(q0.val < 4) /\ q1.ok /\ q2.ok /\ q3.ok
        THEN Read(Message(data, q1.val, q3.val), q3.rest) ELSE Fail
  BY <1>1, <1>2, <1>3, <1>4, Zenon
<1> QED BY <1>5 DEF q0, q1, q2, q3

\* A payload of four parts, read part by part.
Joined4(h, f, e, c, z) == h \o (f \o (e \o (c \o z)))
OpensAs(p, n, u, z) == \A data : Opened(data, p) = Read(Message(data, n, u), z)

LEMMA PayloadReads ==
    ASSUME NEW h, NEW f, NEW e, NEW c, NEW z \in Bytes, NEW n, NEW t, NEW u,
           CountIs(h, 4), NumberIs(f, n), TextIs(e, t), TextIs(c, u)
    PROVE  OpensAs(Joined4(h, f, e, c, z), n, u, z)
<1> SUFFICES ASSUME NEW data
             PROVE  Opened(data, h \o (f \o (e \o (c \o z)))) = Read(Message(data, n, u), z)
  BY DEF OpensAs, Joined4
<1>1. h \in Bytes /\ f \in Bytes /\ e \in Bytes /\ c \in Bytes
  BY DEF CountIs, NumberIs, TextIs
<1>2. c \o z \in Bytes
  BY <1>1, CatLen
<1>3. e \o (c \o z) \in Bytes
  BY <1>1, <1>2, CatLen
<1>4. f \o (e \o (c \o z)) \in Bytes
  BY <1>1, <1>3, CatLen
<1> DEFINE r3 == c \o z  r2 == e \o r3  r1 == f \o r2  body == h \o r1
<1>5. ReadArrayHeader(body) = Read(4, r1)
  BY <1>4, Zenon DEF CountIs
<1>6. ReadNumber(r1) = Read(n, r2)
  BY <1>3, Zenon DEF NumberIs
<1>7. ReadBytes(r2) = Read(t, r3)
  BY <1>2, Zenon DEF TextIs
<1>8. ReadBytes(r3) = Read(u, z)
  BY Zenon DEF TextIs
<1> HIDE DEF r1, r2, r3
<1>9. /\ Read(4, r1).ok /\ Read(4, r1).val = 4 /\ Read(4, r1).rest = r1 /\ ~(4 < 4)
      /\ Read(n, r2).ok /\ Read(n, r2).val = n /\ Read(n, r2).rest = r2
      /\ Read(t, r3).ok /\ Read(t, r3).rest = r3
      /\ Read(u, z).ok /\ Read(u, z).val = u /\ Read(u, z).rest = z
  BY DEF Read
<1>10. Opened(data, body) = Read(Message(data, n, u), z)
  <2> HIDE DEF body
  <2> DEFINE q0 == ReadArrayHeader(body)
             q1 == ReadNumber(q0.rest)
             q2 == ReadBytes(q1.rest)
             q3 == ReadBytes(q2.rest)
  <2>0. Opened(data, body) =
          IF q0.ok /\ ~(q0.val < 4) /\ q1.ok /\ q2.ok /\ q3.ok
          THEN Read(Message(data, q1.val, q3.val), q3.rest) ELSE Fail
    BY OpenedReads, Zenon
  <2>1. q0 = Read(4, r1)
    BY <1>5
  <2> HIDE DEF q0
  <2>2. q1 = Read(n, r2)
    BY <1>6, <1>9, <2>1
  <2> HIDE DEF q1
  <2>3. q2 = Read(t, r3)
    BY <1>7, <1>9, <2>2
  <2> HIDE DEF q2
  <2>4. q3 = Read(u, z)
    BY <1>8, <1>9, <2>3
  <2> HIDE DEF q3
  <2> QED BY <1>9, <2>0, <2>1, <2>2, <2>3, <2>4
<1> QED BY <1>10, Zenon DEF body, r1, r2, r3

\* A cut falls within the first part or behind it.
LEMMA CutWithin ==
    ASSUME NEW s \in Bytes, NEW t \in Bytes, NEW k \in 0 .. Len(s \o t) - 1
    PROVE  \/ \E j \in 0 .. Len(s) - 1 : SubSeq(s \o t, 1, k) = SubSeq(s, 1, j)
           \/ \E j \in 0 .. Len(t) - 1 : SubSeq(s \o t, 1, k) = s \o SubSeq(t, 1, j)
<1>1. Len(s \o t) = Len(s) + Len(t) /\ Len(s) \in Nat /\ Len(t) \in Nat
  BY CatLen
<1>2. CASE k < Len(s)
  <2>1. k \in 0 .. Len(s) - 1 /\ k \in 0 .. Len(s) + Len(t) /\ k <= Len(s)
    BY <1>1, <1>2
  <2>2. SubSeq(s \o t, 1, k) = SubSeq(s, 1, k)
    BY <2>1, Prefix
  <2> QED BY <2>1, <2>2
<1>3. CASE k >= Len(s)
  <2> DEFINE j == k - Len(s)
  <2>1. j \in 0 .. Len(t) - 1 /\ j \in 0 .. Len(t) /\ Len(s) + j = k
    BY <1>1, <1>3
  <2> HIDE DEF j
  <2>2. SubSeq(s \o t, 1, k) = s \o SubSeq(t, 1, j)
    BY <2>1, PrefixFrom
  <2> QED BY <2>1, <2>2
<1>4. k < Len(s) \/ k >= Len(s)
  BY <1>1
<1> QED BY <1>2, <1>3, <1>4, Zenon

\* A payload that ends before its fourth part does is refused.
LEMMA PayloadCut ==
    ASSUME NEW data, NEW h, NEW f, NEW e, NEW c, NEW n, NEW t, NEW u,
           CountIs(h, 4), NumberIs(f, n), TextIs(e, t), TextIs(c, u),
           NEW k \in 0 .. Len(h \o (f \o (e \o c))) - 1
    PROVE  Opened(data, SubSeq(h \o (f \o (e \o c)), 1, k)) = Fail
<1> DEFINE r2 == e \o c  r1 == f \o r2  p == SubSeq(h \o r1, 1, k)
           q0 == ReadArrayHeader(p)
           q1 == ReadNumber(q0.rest)
           q2 == ReadBytes(q1.rest)
           q3 == ReadBytes(q2.rest)
<1>1. /\ h \in Bytes /\ f \in Bytes /\ e \in Bytes /\ c \in Bytes
      /\ \A s \in Bytes : ReadArrayHeader(h \o s) = Read(4, s)
      /\ \A j \in 0 .. Len(h) - 1 : ~ReadArrayHeader(SubSeq(h, 1, j)).ok
      /\ \A s \in Bytes : ReadNumber(f \o s) = Read(n, s)
      /\ \A j \in 0 .. Len(f) - 1 : ~ReadNumber(SubSeq(f, 1, j)).ok
      /\ \A s \in Bytes : ReadBytes(e \o s) = Read(t, s)
      /\ \A j \in 0 .. Len(e) - 1 : ~ReadBytes(SubSeq(e, 1, j)).ok
      /\ \A j \in 0 .. Len(c) - 1 : ~ReadBytes(SubSeq(c, 1, j)).ok
  BY Zenon DEF CountIs, NumberIs, TextIs
<1>2. r2 \in Bytes
  BY <1>1, CatLen
<1> HIDE DEF r2
<1>3. r1 \in Bytes
  BY <1>1, <1>2, CatLen
<1>a. \A s \in Bytes : \A j \in 0 .. Len(s) - 1 : SubSeq(s, 1, j) \in Bytes
  <2> SUFFICES ASSUME NEW s \in Bytes, NEW j \in 0 .. Len(s) - 1 PROVE SubSeq(s, 1, j) \in Bytes
    OBVIOUS
  <2>1. Len(s) \in Nat
    BY LenNat
  <2>2. j \in 0 .. Len(s)
    BY <2>1
  <2> QED BY <2>2, Top
<1>b. \A m, s : Read(m, s).rest = s
  BY DEF Read
<1> HIDE DEF r1, p
<1>4. ASSUME NEW j \in 0 .. Len(h) - 1, p = SubSeq(h, 1, j) PROVE ~q0.ok
  BY <1>1, <1>4, Zenon
<1>5. ASSUME NEW j \in 0 .. Len(r1) - 1, p = h \o SubSeq(r1, 1, j)
      PROVE  ~(q1.ok /\ q2.ok /\ q3.ok)
  <2> DEFINE v2 == SubSeq(r1, 1, j)
  <2>0. v2 \in Bytes
    BY <1>3, <1>a
  <2>1. q0.rest = v2
    <3> HIDE DEF v2
    <3>1. ReadArrayHeader(h \o v2) = Read(4, v2) /\ Read(4, v2).rest = v2
      BY <1>1, <1>b, <2>0, Zenon
    <3> QED BY <1>5, <3>1 DEF v2
  <2> HIDE DEF q0
  <2>2. ASSUME NEW i \in 0 .. Len(f) - 1, SubSeq(r1, 1, j) = SubSeq(f, 1, i) PROVE ~q1.ok
    BY <1>1, <2>1, <2>2
  <2>3. ASSUME NEW i \in 0 .. Len(r2) - 1, SubSeq(r1, 1, j) = f \o SubSeq(r2, 1, i)
        PROVE  ~(q2.ok /\ q3.ok)
    <3> DEFINE v3 == SubSeq(r2, 1, i)
    <3>0. v3 \in Bytes
      BY <1>2, <1>a
    <3>1. q1.rest = v3
      <4> HIDE DEF v3
      <4>1. ReadNumber(f \o v3) = Read(n, v3) /\ Read(n, v3).rest = v3
        BY <1>1, <1>b, <3>0
      <4> QED BY <2>1, <2>3, <4>1 DEF v3
    <3> HIDE DEF q1
    <3>2. ASSUME NEW g \in 0 .. Len(e) - 1, SubSeq(r2, 1, i) = SubSeq(e, 1, g) PROVE ~q2.ok
      BY <1>1, <3>1, <3>2
    <3>3. ASSUME NEW g \in 0 .. Len(c) - 1, SubSeq(r2, 1, i) = e \o SubSeq(c, 1, g)
          PROVE  ~q3.ok
      <4> DEFINE v4 == SubSeq(c, 1, g)
      <4>0. v4 \in Bytes
        BY <1>1, <1>a
      <4>1. q2.rest = v4
        <5> HIDE DEF v4
        <5>1. ReadBytes(e \o v4) = Read(t, v4) /\ Read(t, v4).rest = v4
          BY <1>1, <1>b, <4>0
        <5> QED BY <3>1, <3>3, <5>1 DEF v4
      <4> HIDE DEF q2
      <4> QED BY <1>1, <4>1
    <3>4. \/ \E g \in 0 .. Len(e) - 1 : SubSeq(r2, 1, i) = SubSeq(e, 1, g)
          \/ \E g \in 0 .. Len(c) - 1 : SubSeq(r2, 1, i) = e \o SubSeq(c, 1, g)
      BY <1>1, CutWithin DEF r2
    <3> QED BY <3>2, <3>3, <3>4, Zenon
  <2>4. \/ \E i \in 0 .. Len(f) - 1 : SubSeq(r1, 1, j) = SubSeq(f, 1, i)
        \/ \E i \in 0 .. Len(r2) - 1 : SubSeq(r1, 1, j) = f \o SubSeq(r2, 1, i)
    BY <1>1, <1>2, CutWithin DEF r1
  <2> QED BY <2>2, <2>3, <2>4, Zenon
<1>6. \/ \E j \in 0 .. Len(h) - 1 : p = SubSeq(h, 1, j)
      \/ \E j \in 0 .. Len(r1) - 1 : p = h \o SubSeq(r1, 1, j)
  BY <1>1, <1>3, CutWithin DEF p, r1, r2
<1>7. ~(q0.ok /\ q1.ok /\ q2.ok /\ q3.ok)
  <2> HIDE DEF q0, q1, q2, q3, p
  <2> QED BY <1>4, <1>5, <1>6, Zenon
<1>8. Opened(data, p) =
        IF q0.ok /\ ~(q0.val < 4) /\ q1.ok /\ q2.ok /\ q3.ok
        THEN Read(Message(data, q1.val, q3.val), q3.rest) ELSE Fail
  BY OpenedReads, Zenon
<1> HIDE DEF q0, q1, q2, q3
<1>9. Opened(data, p) = Fail
  BY <1>7, <1>8, Zenon
<1> QED BY <1>9, Zenon DEF p, r1, r2

Hash == {s \in Bytes : Len(s) = HASH_LEN}
SignatureBytes == {s \in Bytes : Len(s) = SIG_LEN}

LEMMA Lengths16 == HASH_LEN = 16 /\ SIG_LEN = 64 /\ HeaderLen = 96
BY DEF HASH_LEN, SIG_LEN, HeaderLen

\* Behind the header lies the body, and in it the two hashes.
LEMMA BehindHeader ==
    ASSUME NEW h \in Bytes, Len(h) = HeaderLen, NEW q \in Bytes
    PROVE  /\ q = <<>> => Unpack(h \o q) = Fail
           /\ q # <<>> => Unpack(h \o q) = Opened(h \o q, q)
<1>1. Len(h \o q) = HeaderLen + Len(q) /\ Len(q) \in Nat /\ HeaderLen \in Nat
  BY CatLen, Lengths16
<1>2. q = <<>> <=> Len(q) = 0
  <2>1. Len(<<>>) = 0 /\ <<>> \in Bytes
    BY Empty
  <2>2. ASSUME Len(q) = 0 PROVE q = <<>>
    BY <2>1, <2>2, Same
  <2> QED BY <2>1, <2>2
<1>3. SubSeq(h \o q, HeaderLen + 1, HeaderLen + Len(q)) = q
  BY Rest
<1>4. (Len(h \o q) <= HeaderLen) <=> q = <<>>
  BY <1>1, <1>2
<1> QED BY <1>1, <1>3, <1>4, UnpackOpens, Zenon

\* A part of three is what lies between the other two.
LEMMA Middle ==
    ASSUME NEW s \in Bytes, NEW t \in Bytes, NEW u \in Bytes
    PROVE  /\ SubSeq(s \o (t \o u), 1, Len(s)) = s
           /\ SubSeq(s \o (t \o u), Len(s) + 1, Len(s) + Len(t)) = t
<1> DEFINE v == t \o u  x == s \o v
<1>1. /\ v \in Bytes /\ Len(v) = Len(t) + Len(u) /\ Len(t) \in Nat /\ Len(u) \in Nat
      /\ \A i \in 1 .. Len(t) : v[i] = t[i]
  BY Cat
<1> HIDE DEF v
<1>2. /\ x \in Bytes /\ Len(x) = Len(s) + Len(v) /\ Len(s) \in Nat
      /\ \A i \in 1 .. Len(v) : x[Len(s) + i] = v[i]
  BY <1>1, Cat
<1>3. SubSeq(x, 1, Len(s)) = s
  <2>1. Len(s) \in 0 .. Len(s) + Len(v) /\ Len(s) <= Len(s)
    BY <1>1, <1>2
  <2>2. SubSeq(x, 1, Len(s)) = SubSeq(s, 1, Len(s))
    BY <1>1, <2>1, Prefix
  <2> QED BY <2>2, SubAll
<1> HIDE DEF x
<1>4. SubSeq(x, Len(s) + 1, Len(s) + Len(t)) = t
  <2> DEFINE m == Len(s) + 1  n == Len(s) + Len(t)  y == SubSeq(x, m, n)
  <2>1. /\ m \in 1 .. Len(x) + 1 /\ n \in m - 1 .. Len(x) /\ n - m + 1 = Len(t)
        /\ \A i \in 1 .. Len(t) : m + i - 1 = Len(s) + i /\ i \in 1 .. Len(v)
    BY <1>1, <1>2
  <2> HIDE DEF m, n
  <2>2. y \in Bytes /\ Len(y) = n - m + 1 /\ \A i \in 1 .. n - m + 1 : y[i] = x[m + i - 1]
    BY <1>2, <2>1, Sub
  <2> HIDE DEF y
  <2>3. \A i \in 1 .. Len(t) : y[i] = t[i]
    BY <1>1, <1>2, <2>1, <2>2
  <2>4. Len(y) = Len(t)
    BY <2>1, <2>2
  <2>5. y = t
    BY <2>2, <2>3, <2>4, Same
  <2> QED BY <2>5 DEF y, m, n
<1> QED BY <1>3, <1>4 DEF x, v

HashesFirst(d, s, g, q) ==
    /\ SubSeq(((d \o s) \o g) \o q, 1, HASH_LEN) = d
    /\ SubSeq(((d \o s) \o g) \o q, HASH_LEN + 1, 2 * HASH_LEN) = s

LEMMA Hashes ==
    ASSUME NEW d \in Hash, NEW s \in Hash, NEW g \in SignatureBytes, NEW q \in Bytes
    PROVE  /\ (d \o s) \o g \in Bytes /\ Len((d \o s) \o g) = HeaderLen
           /\ HashesFirst(d, s, g, q)
<1>1. d \in Bytes /\ s \in Bytes /\ g \in Bytes
  BY DEF Hash, SignatureBytes
<1>2. Len(d) = HASH_LEN /\ Len(s) = HASH_LEN /\ Len(g) = SIG_LEN
  BY DEF Hash, SignatureBytes
<1>3. d \o s \in Bytes /\ Len(d \o s) = Len(d) + Len(s)
  BY <1>1, CatLen
<1>4. (d \o s) \o g \in Bytes /\ Len((d \o s) \o g) = Len(d \o s) + Len(g)
  BY <1>1, <1>3, CatLen
<1>5. Len((d \o s) \o g) = HeaderLen
  BY <1>2, <1>3, <1>4, Lengths16
<1>6. g \o q \in Bytes
  BY <1>1, CatLen
<1>7. ((d \o s) \o g) \o q = (d \o s) \o (g \o q)
  BY <1>1, <1>3, Assoc
<1>8. (d \o s) \o (g \o q) = d \o (s \o (g \o q))
  BY <1>1, <1>6, Assoc
<1> DEFINE x == ((d \o s) \o g) \o q
<1>9. SubSeq(x, 1, Len(d)) = d /\ SubSeq(x, Len(d) + 1, Len(d) + Len(s)) = s
  <2>1. /\ SubSeq(d \o (s \o (g \o q)), 1, Len(d)) = d
        /\ SubSeq(d \o (s \o (g \o q)), Len(d) + 1, Len(d) + Len(s)) = s
    BY <1>1, <1>6, Middle
  <2> QED BY <1>7, <1>8, <2>1
<1> HIDE DEF x
<1>10. Len(d) + Len(s) = 2 * HASH_LEN
  BY <1>2, Lengths16
<1>11. SubSeq(x, 1, HASH_LEN) = d /\ SubSeq(x, HASH_LEN + 1, 2 * HASH_LEN) = s
  BY <1>2, <1>9, <1>10, Zenon
<1> QED BY <1>4, <1>5, <1>11 DEF x, HashesFirst

FieldsOf(fields) == IF fields = <<>> THEN MapHeader(0) ELSE fields

LEMMA FieldBytes == ASSUME NEW fields \in Bytes PROVE FieldsOf(fields) \in Bytes
<1>1. 128 \in Byte /\ MapHeader(0) = <<128>>
  BY DEF Byte, MapHeader
<1>2. <<128>> \in Bytes
  BY <1>1, One
<1> QED BY <1>1, <1>2 DEF FieldsOf

\* The parts of a message in the order they are read in: what is before the
\* payload, the payload but for the fields, and the fields.
Parts(time, content) == ArrayHeader(4) \o (Float64(time) \o (Bin(NoContent) \o Bin(content)))

LEMMA PartsRead ==
    ASSUME NEW time \in Number, NEW content \in Bytes, Len(content) < Huge
    PROVE  /\ CountIs(ArrayHeader(4), 4) /\ NumberIs(Float64(time), Real(time))
           /\ TextIs(Bin(NoContent), NoContent) /\ TextIs(Bin(content), content)
<1>1. 4 \in Nat /\ 4 < Huge /\ 0 < Huge
  BY DEF Huge
<1>2. NoContent \in Bytes /\ Len(NoContent) = 0
  BY Empty DEF NoContent
<1>3. CountIs(ArrayHeader(4), 4)
  BY <1>1, CountsReadBack
<1>4. Len(NoContent) < Huge
  BY <1>1, <1>2
<1>5. TextIs(Bin(NoContent), NoContent)
  BY <1>2, <1>4, TextsReadBack, Zenon
<1> QED BY <1>3, <1>5, TextsReadBack, FloatsReadBack, Zenon

\* Associativity and the lemma above, without their sequences in sight.
Joined(s, t, u) == (s \o t) \o u = s \o (t \o u)
LEMMA AllJoined == \A s, t, u \in Bytes : Joined(s, t, u)
BY Assoc DEF Joined

PartsJoined(a, f, e, c, z) ==
    /\ a \o (f \o (e \o c)) \in Bytes
    /\ (a \o (f \o (e \o c))) \o z = a \o (f \o (e \o (c \o z)))
    /\ (((a \o f) \o e) \o c) \o z = a \o (f \o (e \o (c \o z)))

LEMMA AssocParts == \A a, f, e, c, z \in Bytes : PartsJoined(a, f, e, c, z)
<1> SUFFICES ASSUME NEW a \in Bytes, NEW f \in Bytes, NEW e \in Bytes, NEW c \in Bytes,
                    NEW z \in Bytes
             PROVE  PartsJoined(a, f, e, c, z)
  OBVIOUS
<1>1. e \o c \in Bytes /\ c \o z \in Bytes /\ a \o f \in Bytes
  BY CatLen
<1>2. f \o (e \o c) \in Bytes /\ e \o (c \o z) \in Bytes /\ (a \o f) \o e \in Bytes
  BY <1>1, CatLen
<1>3. a \o (f \o (e \o c)) \in Bytes
  BY <1>2, CatLen
<1>4. /\ Joined((a \o f) \o e, c, z) /\ Joined(a \o f, e, c \o z) /\ Joined(a, f, e \o (c \o z))
      /\ Joined(a, f \o (e \o c), z) /\ Joined(f, e \o c, z) /\ Joined(e, c, z)
  BY <1>1, <1>2, AllJoined, Zenon
<1> QED BY <1>3, <1>4, Zenon DEF Joined, PartsJoined

LEMMA MessageReads ==
    ASSUME NEW h \in Bytes, Len(h) = HeaderLen,
           NEW a, NEW f, NEW e, NEW c, NEW z \in Bytes, NEW n, NEW t, NEW u,
           CountIs(a, 4), NumberIs(f, n), TextIs(e, t), TextIs(c, u)
    PROVE  LET v == h \o ((a \o (f \o (e \o c))) \o z)
           IN Unpack(v) = Read(Message(v, n, u), z)
<1> DEFINE q == (a \o (f \o (e \o c))) \o z  p == a \o (f \o (e \o (c \o z)))  v == h \o q
           b == a \o (f \o (e \o c))
<1>1. a \in Bytes /\ f \in Bytes /\ e \in Bytes /\ c \in Bytes
  BY DEF CountIs, NumberIs, TextIs
<1>2. b \in Bytes /\ q = p
  <2>1. PartsJoined(a, f, e, c, z)
    BY <1>1, AssocParts
  <2> QED BY <2>1 DEF PartsJoined
<1>3. OpensAs(p, n, u, z)
  <2>1. OpensAs(Joined4(a, f, e, c, z), n, u, z)
    BY PayloadReads, SMT
  <2> QED BY <2>1 DEF Joined4
<1> HIDE DEF p, b
<1>4. q \in Bytes
  BY <1>2, CatLen DEF b
<1> HIDE DEF q
<1>5. Opened(v, q) = Read(Message(v, n, u), z)
  BY <1>2, <1>3 DEF OpensAs
<1>6. q # <<>>
  <2>1. \A data : Opened(data, <<>>) = Fail
    BY NothingThere, OpenedReads, Zenon
  <2>2. Read(Message(v, n, u), z).ok /\ ~Fail.ok
    BY DEF Read, Fail
  <2> QED BY <1>5, <2>1, <2>2, Zenon
<1>7. Unpack(v) = Opened(v, q)
  BY <1>4, <1>6, BehindHeader, Zenon
<1> QED BY <1>5, <1>7, Zenon DEF q, b

LEMMA MessageCut ==
    ASSUME NEW h \in Bytes, Len(h) = HeaderLen,
           NEW a, NEW f, NEW e, NEW c, NEW z \in Bytes, NEW n, NEW t, NEW u,
           CountIs(a, 4), NumberIs(f, n), TextIs(e, t), TextIs(c, u),
           NEW k \in Nat, k < Len(h \o ((a \o (f \o (e \o c))) \o z)) - Len(z)
    PROVE  ~Unpack(SubSeq(h \o ((a \o (f \o (e \o c))) \o z), 1, k)).ok
<1> DEFINE b == a \o (f \o (e \o c))  v == h \o (b \o z)
<1>1. b \in Bytes
  <2>1. a \in Bytes /\ f \in Bytes /\ e \in Bytes /\ c \in Bytes
    BY DEF CountIs, NumberIs, TextIs
  <2>2. PartsJoined(a, f, e, c, z)
    BY <2>1, AssocParts
  <2> QED BY <2>2 DEF PartsJoined
<1>2. ~Fail.ok
  BY DEF Fail
<1>a. \A data : \A j \in 0 .. Len(b) - 1 : Opened(data, SubSeq(b, 1, j)) = Fail
  BY PayloadCut, Zenon
<1> HIDE DEF b
<1>3. b \o z \in Bytes /\ Len(b \o z) = Len(b) + Len(z) /\ Len(b) \in Nat /\ Len(z) \in Nat
  BY <1>1, CatLen
<1>4. v \in Bytes /\ Len(v) = Len(h) + Len(b \o z) /\ Len(h) \in Nat
  BY <1>3, CatLen
<1>5. k < Len(v) - Len(z)
  BY DEF v, b
<1>6. CASE k < Len(h)
  <2> HIDE DEF v
  <2>1. k \in 0 .. Len(v) /\ k <= HeaderLen
    BY <1>3, <1>4, <1>6
  <2>2. Len(SubSeq(v, 1, k)) = k
    BY <1>4, <2>1, Top
  <2>3. ~Unpack(SubSeq(v, 1, k)).ok
    BY <1>2, <2>1, <2>2, UnpackOpens, Zenon
  <2> QED BY <2>3 DEF v, b
<1>7. CASE k >= Len(h)
  <2> DEFINE j == k - Len(h)  q == SubSeq(b, 1, j)
  <2>1. /\ j \in 0 .. Len(b) - 1 /\ j \in 0 .. Len(b \o z) /\ Len(h) + j = k
        /\ j \in 0 .. Len(b) + Len(z) /\ j \in 0 .. Len(b) /\ j <= Len(b)
    BY <1>3, <1>4, <1>5, <1>7
  <2> HIDE DEF j
  <2>2. SubSeq(v, 1, Len(h) + j) = h \o SubSeq(b \o z, 1, j)
    BY <1>3, <2>1, PrefixFrom
  <2>3. SubSeq(b \o z, 1, j) = q
    BY <1>1, <2>1, Prefix
  <2>4. q \in Bytes
    BY <1>1, <2>1, Top
  <2>5. \A data : Opened(data, q) = Fail
    BY <1>a, <2>1
  <2> HIDE DEF q, v
  <2>6. SubSeq(v, 1, k) = h \o q
    BY <2>1, <2>2, <2>3
  <2>7. Unpack(h \o q) = Fail
    BY <2>4, <2>5, BehindHeader, Zenon
  <2>8. ~Unpack(SubSeq(v, 1, k)).ok
    BY <1>2, <2>6, <2>7
  <2> QED BY <2>8 DEF v, b
<1>8. k < Len(h) \/ k >= Len(h)
  BY <1>4
<1> QED BY <1>6, <1>7, <1>8, Zenon

\* The bytes that make up a message.
LEMMA PackedParts ==
    ASSUME NEW h \in Bytes, NEW time \in Number, NEW content \in Bytes, NEW fields \in Bytes,
           Len(content) < Huge
    PROVE  h \o Payload(time, content, fields) = h \o (Parts(time, content) \o FieldsOf(fields))
<1> DEFINE a == ArrayHeader(4)  f == Float64(time)  e == Bin(NoContent)  c == Bin(content)
           z == FieldsOf(fields)
<1>1. a \in Bytes /\ f \in Bytes /\ e \in Bytes /\ c \in Bytes /\ z \in Bytes
  BY PartsRead, FieldBytes, Zenon DEF CountIs, NumberIs, TextIs
<1>2. Payload(time, content, fields) = (((a \o f) \o e) \o c) \o z
  BY DEF Payload, FieldsOf
<1>3. Parts(time, content) = a \o (f \o (e \o c))
  BY DEF Parts
<1> HIDE DEF a, f, e, c, z
<1>4. PartsJoined(a, f, e, c, z)
  BY <1>1, AssocParts
<1>5. Payload(time, content, fields) = Parts(time, content) \o z
  BY <1>2, <1>3, <1>4, Zenon DEF PartsJoined
<1> QED BY <1>5 DEF z

\* What unpack() makes of a message of these parts.
Unpacked(dest, source, time, content, fields) ==
    Read([dest |-> dest, source |-> source, timestamp |-> Real(time),
          content |-> Cut(Trim(content))], FieldsOf(fields))

\* The message v is read as it was packed, and refused when it is cut short
\* before its fields.
ReadAsSent(v, dest, source, time, content, fields) ==
    /\ Unpack(v) = Unpacked(dest, source, time, content, fields)
    /\ \A k \in Nat : k < Len(v) - Len(FieldsOf(fields)) => ~Unpack(SubSeq(v, 1, k)).ok

LEMMA PartsReadAsSent ==
    ASSUME NEW dest \in Hash, NEW source \in Hash, NEW signature \in SignatureBytes,
           NEW time \in Number, NEW content \in Bytes, NEW fields \in Bytes, Len(content) < Huge
    PROVE  ReadAsSent(((dest \o source) \o signature) \o Payload(time, content, fields),
                      dest, source, time, content, fields)
<1> DEFINE h == (dest \o source) \o signature  z == FieldsOf(fields)
           a == ArrayHeader(4)  f == Float64(time)  e == Bin(NoContent)  c == Bin(content)
           q == (a \o (f \o (e \o c))) \o z  v == h \o q
<1>1. z \in Bytes
  BY FieldBytes
<1>2. CountIs(a, 4) /\ NumberIs(f, Real(time)) /\ TextIs(e, NoContent) /\ TextIs(c, content)
  BY PartsRead
<1>3. h \in Bytes /\ Len(h) = HeaderLen
  <2>1. <<>> \in Bytes
    BY Empty
  <2> QED BY <2>1, Hashes
<1>4. q \in Bytes
  <2> HIDE DEF a, f, e, c, z
  <2>1. a \in Bytes /\ f \in Bytes /\ e \in Bytes /\ c \in Bytes
    BY <1>2 DEF CountIs, NumberIs, TextIs
  <2>2. PartsJoined(a, f, e, c, z)
    BY <1>1, <2>1, AssocParts
  <2>3. a \o (f \o (e \o c)) \in Bytes
    BY <2>2, Zenon DEF PartsJoined
  <2> HIDE DEF q
  <2> QED BY <1>1, <2>3, CatLen DEF q
<1>5. v = h \o Payload(time, content, fields)
  <2>1. Parts(time, content) \o z = q
    BY DEF Parts
  <2> HIDE DEF h, q
  <2>2. h \o Payload(time, content, fields) = h \o (Parts(time, content) \o FieldsOf(fields))
    BY <1>3, PackedParts, Zenon
  <2> QED BY <2>1, <2>2, Zenon
<1>6. SubSeq(v, 1, HASH_LEN) = dest /\ SubSeq(v, HASH_LEN + 1, 2 * HASH_LEN) = source
  <2> HIDE DEF q
  <2>1. /\ SubSeq(((dest \o source) \o signature) \o q, 1, HASH_LEN) = dest
        /\ SubSeq(((dest \o source) \o signature) \o q, HASH_LEN + 1, 2 * HASH_LEN) = source
    <3>1. HashesFirst(dest, source, signature, q)
      BY <1>4, Hashes
    <3> QED BY <3>1 DEF HashesFirst
  <2> QED BY <2>1
<1> HIDE DEF h, z, a, f, e, c
<1>7. Unpack(v) = Read(Message(v, Real(time), content), z)
  BY <1>1, <1>2, <1>3, MessageReads
<1>8. \A k \in Nat : k < Len(v) - Len(z) => ~Unpack(SubSeq(v, 1, k)).ok
  BY <1>1, <1>2, <1>3, MessageCut
<1> HIDE DEF v
<1>9. Message(v, Real(time), content) =
        [dest |-> dest, source |-> source, timestamp |-> Real(time),
         content |-> Cut(Trim(content))]
  BY <1>6 DEF Message
<1>10. ReadAsSent(v, dest, source, time, content, fields)
  BY <1>7, <1>8, <1>9, Zenon DEF ReadAsSent, Unpacked, z
<1> QED BY <1>5, <1>10, Zenon DEF h

\* A message packed by one node and unpacked by another has its hashes, its time,
\* its text, less the blanks around it and what is over MAX_CONTENT, and its
\* fields; cut short before the fields it is refused, wherever that is
\* (Lxmf.cpp:54-123 against LxmfCommand.cpp:13-41).
THEOREM SentIsRead ==
    ASSUME NEW dest \in Hash, NEW source \in Hash, NEW signature \in SignatureBytes,
           NEW time \in Number, NEW content \in Bytes, NEW fields \in Bytes, Len(content) < Huge,
           Pack(dest, source, signature, time, content, fields).ok
    PROVE  ReadAsSent(Pack(dest, source, signature, time, content, fields).val,
                      dest, source, time, content, fields)
<1> DEFINE payload == Payload(time, content, fields)
           v == ((dest \o source) \o signature) \o payload
           packed == Pack(dest, source, signature, time, content, fields)
<1>1. packed = IF Len(payload) > MAX_OPPORTUNISTIC_PAYLOAD THEN Fail ELSE Read(v, <<>>)
  BY Zenon DEF Pack
<1>2. ~Fail.ok /\ Read(v, <<>>).val = v
  BY DEF Fail, Read
<1>3. ReadAsSent(v, dest, source, time, content, fields)
  BY PartsReadAsSent
<1> HIDE DEF v, payload
<1>4. packed.val = v
  BY <1>1, <1>2, Zenon
<1> QED BY <1>3, <1>4, Zenon
-----------------------------------------------------------------------------
(***************************************************************************)
(* Blanks and commands                                                     *)
(***************************************************************************)
\* The one least, and the one greatest, of the places that are not blank.
LEMMA TrimFrom ==
    ASSUME NEW s \in Bytes, NEW m \in Nat, NEW n \in Nat,
           m \in 1 .. Len(s), n \in 1 .. Len(s), ~Space(s[m]), ~Space(s[n]),
           \A i \in 1 .. Len(s) : ~Space(s[i]) => m <= i /\ i <= n
    PROVE  Trim(s) = SubSeq(s, m, n)
<1> DEFINE kept == {i \in 1 .. Len(s) : ~Space(s[i])}
           low == CHOOSE i \in kept : \A j \in kept : i <= j
           high == CHOOSE i \in kept : \A j \in kept : i >= j
<1>1. Len(s) \in Nat /\ \A i \in kept : i \in Nat
  BY LenNat
<1>2. m \in kept /\ n \in kept /\ \A j \in kept : m <= j /\ n >= j
  BY <1>1
<1>3. Trim(s) = IF kept = {} THEN NoContent ELSE SubSeq(s, low, high)
  BY DEF Trim
<1> HIDE DEF kept
<1>4. low = m
  <2>1. low \in kept /\ \A j \in kept : low <= j
    BY <1>2
  <2> HIDE DEF low
  <2>2. low <= m /\ m <= low
    BY <1>2, <2>1
  <2> QED BY <1>1, <1>2, <2>1, <2>2
<1>5. high = n
  <2>1. high \in kept /\ \A j \in kept : high >= j
    BY <1>2
  <2> HIDE DEF high
  <2>2. high >= n /\ n >= high
    BY <1>2, <2>1
  <2> QED BY <1>1, <1>2, <2>1, <2>2
<1> HIDE DEF low, high
<1> QED BY <1>2, <1>3, <1>4, <1>5, Zenon

\* A text is found again between any blanks.
TrimsTo(front, core, back) == Trim((front \o core) \o back) = core

LEMMA TrimsPads ==
    \A front, core, back \in Bytes :
        Blank(front) /\ Blank(back) /\ Bare(core) => TrimsTo(front, core, back)
<1> SUFFICES ASSUME NEW front \in Bytes, NEW core \in Bytes, NEW back \in Bytes,
                    Blank(front), Blank(back), Bare(core)
             PROVE  TrimsTo(front, core, back)
  BY Zenon
<1> DEFINE rest == core \o back  s == front \o rest
           f == Len(front)  c == Len(core)  b == Len(back)
<1>1. (front \o core) \o back = s
  BY Assoc
<1>2. /\ rest \in Bytes /\ Len(rest) = c + b /\ c \in Nat /\ b \in Nat
      /\ \A i \in 1..c : rest[i] = core[i]
      /\ \A i \in 1..b : rest[c + i] = back[i]
  BY Cat
<1> HIDE DEF rest
<1>3. /\ s \in Bytes /\ Len(s) = f + Len(rest) /\ f \in Nat
      /\ \A i \in 1..f : s[i] = front[i]
      /\ \A i \in 1 .. Len(rest) : s[f + i] = rest[i]
  BY <1>2, Cat
<1> HIDE DEF s
<1>4. (\A i \in 1..f : Space(front[i])) /\ (\A i \in 1..b : Space(back[i]))
  BY DEF Blank
<1> HIDE DEF f, c, b
<1>5. \A i \in 1 .. f + c + b :
        \/ i \in 1..f /\ s[i] = front[i]
        \/ i - f \in 1..c /\ s[i] = core[i - f]
        \/ i - f - c \in 1..b /\ s[i] = back[i - f - c]
  <2> SUFFICES ASSUME NEW i \in 1 .. f + c + b
               PROVE  \/ i \in 1..f /\ s[i] = front[i]
                      \/ i - f \in 1..c /\ s[i] = core[i - f]
                      \/ i - f - c \in 1..b /\ s[i] = back[i - f - c]
    OBVIOUS
  <2>1. CASE i <= f
    <3>1. i \in 1..f
      BY <1>2, <1>3, <2>1
    <3> QED BY <1>3, <3>1
  <2>2. CASE i > f /\ i <= f + c
    <3> DEFINE j == i - f
    <3>1. j \in 1..c /\ j \in 1 .. Len(rest) /\ f + j = i
      BY <1>2, <1>3, <2>2
    <3> HIDE DEF j
    <3>2. s[f + j] = rest[j] /\ rest[j] = core[j]
      BY <1>2, <1>3, <3>1
    <3>3. s[i] = core[j]
      BY <3>1, <3>2
    <3> QED BY <3>1, <3>3 DEF j
  <2>3. CASE i > f + c
    <3> DEFINE j == i - f - c
    <3>1. j \in 1..b /\ c + j \in 1 .. Len(rest) /\ f + (c + j) = i
      BY <1>2, <1>3, <2>3
    <3> HIDE DEF j
    <3>2. s[f + (c + j)] = rest[c + j] /\ rest[c + j] = back[j]
      BY <1>2, <1>3, <3>1
    <3>3. s[i] = back[j]
      BY <3>1, <3>2
    <3> QED BY <3>1, <3>3 DEF j
  <2> QED BY <1>2, <1>3, <2>1, <2>2, <2>3
<1>6. CASE core = <<>>
  <2>1. c = 0
    BY <1>6, Empty DEF c
  <2>2. \A i \in 1 .. Len(s) : Space(s[i])
    BY <1>2, <1>3, <1>4, <1>5, <2>1
  <2>3. {i \in 1 .. Len(s) : ~Space(s[i])} = {}
    BY <2>2
  <2>4. Trim(s) = NoContent
    BY <2>3, Zenon DEF Trim
  <2> QED BY <1>1, <1>6, <2>4 DEF TrimsTo, NoContent
<1>7. CASE core # <<>>
  <2>1. c >= 1
    <3>1. c # 0
      BY <1>7, Empty, Same DEF c
    <3> QED BY <1>2, <3>1
  <2>2. ~Space(core[1]) /\ ~Space(core[c])
    BY <1>7 DEF Bare, c
  <2> DEFINE m == f + 1  n == f + c
  <2>3. /\ m \in Nat /\ n \in Nat /\ m \in 1 .. Len(s) /\ n \in 1 .. Len(s)
        /\ 1 \in 1..c /\ c \in 1..c /\ 1 \in 1 .. Len(rest) /\ c \in 1 .. Len(rest)
    BY <1>2, <1>3, <2>1
  <2>4. s[m] = core[1] /\ s[n] = core[c]
    BY <1>2, <1>3, <2>3
  <2>5. \A i \in 1 .. Len(s) : ~Space(s[i]) => m <= i /\ i <= n
    <3> SUFFICES ASSUME NEW i \in 1 .. Len(s), ~Space(s[i]) PROVE m <= i /\ i <= n
      OBVIOUS
    <3>1. i \in 1 .. f + c + b
      BY <1>2, <1>3
    <3>2. i - f \in 1..c
      BY <1>4, <1>5, <3>1
    <3> QED BY <1>2, <1>3, <3>2
  <2> HIDE DEF m, n
  <2>6. Trim(s) = SubSeq(s, m, n)
    BY <1>3, <2>2, <2>3, <2>4, <2>5, TrimFrom
  <2>7. SubSeq(s, m, n) = core
    BY Middle DEF s, rest, m, n, f, c
  <2> QED BY <1>1, <2>6, <2>7 DEF TrimsTo
<1> QED BY <1>6, <1>7

\* What the words have in common, and what tells them apart.
KindOf(n) == IF n = 6 THEN "STATUS" ELSE IF n = 4 THEN "HELP" ELSE "BATTERY"

\* A sequence of small letters.
Small26(w) == w \in Bytes /\ \A i \in 1 .. Len(w) : w[i] \in 97..122

LEMMA WordsAre ==
    \A k \in DOMAIN Words : \A w \in Words[k] :
        Small26(w) /\ Len(w) \in 3..7 /\ KindOf(Len(w)) = k
<1>1. /\ Words.STATUS = {<<115, 116, 97, 116, 117, 115>>}
      /\ Words.BATTERY = {<<98, 97, 116, 116, 101, 114, 121>>, <<98, 97, 116>>}
      /\ Words.HELP = {<<104, 101, 108, 112>>}
      /\ DOMAIN Words = {"STATUS", "BATTERY", "HELP"}
  BY DEF Words
<1>2. Small26(<<115, 116, 97, 116, 117, 115>>) /\ Len(<<115, 116, 97, 116, 117, 115>>) = 6
  BY DEF Small26, Bytes, Byte
<1>3. /\ Small26(<<98, 97, 116, 116, 101, 114, 121>>) /\ Len(<<98, 97, 116, 116, 101, 114, 121>>) = 7
      /\ Small26(<<98, 97, 116>>) /\ Len(<<98, 97, 116>>) = 3
  BY DEF Small26, Bytes, Byte
<1>4. Small26(<<104, 101, 108, 112>>) /\ Len(<<104, 101, 108, 112>>) = 4
  BY DEF Small26, Bytes, Byte
<1>5. \A w \in Words["STATUS"] : Small26(w) /\ Len(w) = 6
  BY <1>1, <1>2, Zenon
<1>6. \A w \in Words["BATTERY"] : Small26(w) /\ (Len(w) = 3 \/ Len(w) = 7)
  BY <1>1, <1>3, Zenon
<1>7. \A w \in Words["HELP"] : Small26(w) /\ Len(w) = 4
  BY <1>1, <1>4, Zenon
<1>8. /\ KindOf(6) = "STATUS" /\ KindOf(3) = "BATTERY" /\ KindOf(7) = "BATTERY" /\ KindOf(4) = "HELP"
      /\ {3, 4, 6, 7} \subseteq 3..7
  BY DEF KindOf
<1>9. ASSUME NEW w \in Words["STATUS"] PROVE Len(w) \in 3..7 /\ KindOf(Len(w)) = "STATUS"
  BY <1>5, <1>8
<1>10. ASSUME NEW w \in Words["BATTERY"] PROVE Len(w) \in 3..7 /\ KindOf(Len(w)) = "BATTERY"
  BY <1>6, <1>8
<1>11. ASSUME NEW w \in Words["HELP"] PROVE Len(w) \in 3..7 /\ KindOf(Len(w)) = "HELP"
  BY <1>7, <1>8
<1>12. DOMAIN Words = {"STATUS", "BATTERY", "HELP"}
  BY <1>1
<1> QED BY <1>5, <1>6, <1>7, <1>9, <1>10, <1>11, <1>12, Zenon

LEMMA FunctionBytes ==
    ASSUME NEW n \in Nat, NEW g \in [1..n -> Byte]
    PROVE  g \in Bytes /\ Len(g) = n
<1>1. g \in Bytes
  BY SeqDef DEF Bytes
<1>2. DOMAIN g = 1 .. Len(g) /\ DOMAIN g = 1..n /\ Len(g) \in Nat
  BY <1>1, LenProperties DEF Bytes
<1> QED BY <1>1, <1>2, RangeLength

LEMMA Element == ASSUME NEW s \in Bytes, NEW i \in 1 .. Len(s) PROVE s[i] \in 0..255
BY ElementOfSeq DEF Bytes, Byte

LEMMA LowerBytes ==
    ASSUME NEW t \in Bytes
    PROVE  /\ Lower(t) \in Bytes /\ Len(Lower(t)) = Len(t)
           /\ \A i \in 1 .. Len(t) : Lower(t)[i] = IF t[i] \in 65..90 THEN t[i] + 32 ELSE t[i]
<1> DEFINE n == Len(t)  g == [i \in 1..n |-> IF t[i] \in 65..90 THEN t[i] + 32 ELSE t[i]]
<1>1. n \in Nat /\ \A i \in 1..n : t[i] \in 0..255
  BY LenNat, Element
<1>2. Lower(t) = g
  BY DEF Lower
<1> HIDE DEF n
<1>3. g \in [1..n -> Byte]
  BY <1>1 DEF Byte
<1>4. \A i \in 1..n : g[i] = IF t[i] \in 65..90 THEN t[i] + 32 ELSE t[i]
  OBVIOUS
<1> HIDE DEF g
<1>5. g \in Bytes /\ Len(g) = n
  BY <1>1, <1>3, FunctionBytes
<1> QED BY <1>2, <1>4, <1>5 DEF n

LowerOf(c) == IF c \in 65..90 THEN c + 32 ELSE c

LEMMA LetterLower ==
    \A c \in 0..255, d \in 97..122 : LowerOf(c) = d <=> SameLetter(c, d)
BY DEF SameLetter, LowerOf

LEMMA SlashLetter ==
    /\ SameLetter(47, 47)
    /\ \A c : SameLetter(c, 47) <=> c = 47
    /\ \A d \in 97..122 : ~SameLetter(47, d)
BY DEF SameLetter

\* The text, with its letters made small, is the word.
LEMMA LowerSpells ==
    ASSUME NEW t \in Bytes, NEW w, Small26(w)
    PROVE  Lower(t) = w <=> Spells(t, w)
<1> DEFINE l == Lower(t)
<1>1. Len(t) \in Nat /\ \A i \in 1 .. Len(t) : t[i] \in 0..255
  BY LenNat, Element
<1>2. /\ l \in Bytes /\ Len(l) = Len(t)
      /\ \A i \in 1 .. Len(t) : l[i] = LowerOf(t[i])
  BY LowerBytes DEF LowerOf
<1>3. w \in Bytes /\ \A i \in 1 .. Len(w) : w[i] \in 97..122
  BY DEF Small26
<1> HIDE DEF l
<1>4. ASSUME l = w PROVE Spells(t, w)
  <2>1. Len(t) = Len(w)
    BY <1>2, <1>4
  <2>2. ASSUME NEW i \in 1 .. Len(w)
        PROVE  SameLetter(t[i], w[i])
    <3>1. i \in 1 .. Len(t)
      BY <2>1
    <3>2. w[i] = LowerOf(t[i])
      BY <1>2, <1>4, <3>1
    <3>3. t[i] \in 0..255 /\ w[i] \in 97..122
      BY <1>1, <1>3, <3>1
    <3> QED BY <3>2, <3>3, LetterLower, Zenon
  <2> QED BY <2>1, <2>2 DEF Spells
<1>5. ASSUME Spells(t, w) PROVE l = w
  <2>1. Len(t) = Len(w)
    BY <1>5 DEF Spells
  <2>2. ASSUME NEW i \in 1 .. Len(w) PROVE l[i] = w[i]
    <3>1. i \in 1 .. Len(t)
      BY <2>1
    <3>2. SameLetter(t[i], w[i])
      BY <1>5 DEF Spells
    <3>3. l[i] = LowerOf(t[i])
      BY <1>2, <3>1
    <3>4. t[i] \in 0..255 /\ w[i] \in 97..122
      BY <1>1, <1>3, <3>1
    <3> QED BY <3>2, <3>3, <3>4, LetterLower, Zenon
  <2>3. Len(l) = Len(w) /\ \A i \in 1 .. Len(l) : l[i] = w[i]
    BY <1>2, <2>1, <2>2
  <2> QED BY <1>2, <1>3, <2>3, Same
<1> QED BY <1>4, <1>5, Zenon DEF l

\* With the slash before it that a command may have.
LEMMA SlashSpells ==
    ASSUME NEW t \in Bytes, NEW w, Small26(w), Len(w) \in 3..7
    PROVE  /\ t # <<>> /\ t[1] = 47 => /\ ~Spells(t, w)
                                       /\ Spells(t, Slash \o w) <=> Spells(Tail(t), w)
           /\ ~(t # <<>> /\ t[1] = 47) => ~Spells(t, Slash \o w)
<1> DEFINE v == Slash \o w
<1>1. w \in Bytes /\ Slash \in Bytes /\ Len(Slash) = 1 /\ Slash[1] = 47
  <2>1. 47 \in Byte
    BY DEF Byte
  <2> QED BY <2>1, One DEF Slash, Small26
<1>2. /\ Len(w) \in Nat /\ Len(w) >= 1 /\ \A i \in 1 .. Len(w) : w[i] \in 97..122
  <2>1. \A n \in 3..7 : n \in Nat /\ n >= 1
    OBVIOUS
  <2> QED BY <2>1 DEF Small26
<1>3. /\ Len(v) = 1 + Len(w) /\ v[1] = 47 /\ \A i \in 1 .. Len(w) : v[1 + i] = w[i]
  <2>1. /\ Len(v) = Len(Slash) + Len(w) /\ \A i \in 1 .. Len(Slash) : v[i] = Slash[i]
        /\ \A i \in 1 .. Len(w) : v[Len(Slash) + i] = w[i]
    BY <1>1, Cat
  <2> HIDE DEF v
  <2> QED BY <1>1, <2>1
<1> HIDE DEF v
<1>4. ASSUME t # <<>>, t[1] = 47 PROVE ~Spells(t, w)
  <2>1. 1 \in 1 .. Len(w) /\ w[1] \in 97..122
    BY <1>2
  <2>2. SameLetter(t[1], w[1]) => ~Spells(t, w) \/ ~(t[1] = 47)
    BY <2>1, SlashLetter
  <2> QED BY <1>4, <2>1, <2>2, Zenon DEF Spells
<1>5. ASSUME t # <<>>, t[1] = 47 PROVE Spells(t, v) <=> Spells(Tail(t), w)
  <2> DEFINE u == Tail(t)
  <2>0. Len(t) \in Nat /\ Len(t) >= 1
    BY <1>5
  <2>1. Len(u) = Len(t) - 1 /\ \A i \in 1 .. Len(u) : u[i] = t[1 + i]
    BY <1>5, <2>0 DEF Bytes
  <2> HIDE DEF u
  <2>2. ASSUME Spells(t, v) PROVE Spells(u, w)
    <3>1. Len(u) = Len(w)
      BY <1>2, <1>3, <2>0, <2>1, <2>2 DEF Spells
    <3>2. ASSUME NEW i \in 1 .. Len(w)
          PROVE  SameLetter(u[i], w[i])
      <4>1. 1 + i \in 1 .. Len(v) /\ v[1 + i] = w[i] /\ u[i] = t[1 + i]
        BY <1>2, <1>3, <2>1, <3>1
      <4> QED BY <2>2, <4>1 DEF Spells
    <3> QED BY <3>1, <3>2 DEF Spells
  <2>3. ASSUME Spells(u, w) PROVE Spells(t, v)
    <3>1. Len(t) = Len(v)
      BY <1>2, <1>3, <2>0, <2>1, <2>3 DEF Spells
    <3>2. ASSUME NEW i \in 1 .. Len(v)
          PROVE  SameLetter(t[i], v[i])
      <4>1. CASE i = 1
        BY <1>3, <1>5, <4>1, SlashLetter
      <4>2. CASE i # 1
        <5> DEFINE j == i - 1
        <5>1. j \in 1 .. Len(w) /\ 1 + j = i
          BY <1>2, <1>3, <4>2
        <5> HIDE DEF j
        <5>2. v[1 + j] = w[j] /\ u[j] = t[1 + j]
          BY <1>2, <1>3, <2>1, <2>3, <5>1 DEF Spells
        <5>3. SameLetter(u[j], w[j])
          BY <2>3, <5>1 DEF Spells
        <5> QED BY <5>1, <5>2, <5>3
      <4> QED BY <4>1, <4>2
    <3> QED BY <3>1, <3>2 DEF Spells
  <2> QED BY <2>2, <2>3 DEF u
<1>6. ASSUME Spells(t, v) PROVE t # <<>> /\ t[1] = 47
  <2>1. Len(t) = 1 + Len(w) /\ 1 \in 1 .. Len(v)
    BY <1>2, <1>3, <1>6 DEF Spells
  <2>2. SameLetter(t[1], v[1])
    BY <1>6, <2>1, Zenon DEF Spells
  <2>3. t[1] = 47
    BY <1>3, <2>2, SlashLetter, Zenon
  <2>4. t # <<>>
    BY <1>2, <2>1
  <2> QED BY <2>3, <2>4
<1> QED BY <1>4, <1>5, <1>6 DEF v

LEMMA WordBytes ==
    ASSUME NEW t \in Bytes
    PROVE  WithoutSlash(t) \in Bytes /\ Len(WithoutSlash(t)) >= Len(t) - 1 /\ Len(WithoutSlash(t)) <= Len(t)
<1>1. Len(t) \in Nat
  BY LenNat
<1>2. CASE t # <<>>
  <2>1. Tail(t) \in Bytes /\ Len(Tail(t)) = Len(t) - 1
    BY <1>2 DEF Bytes
  <2> QED BY <1>1, <2>1 DEF WithoutSlash
<1>3. CASE t = <<>>
  BY <1>1, <1>3 DEF WithoutSlash
<1> QED BY <1>2, <1>3

NoZero(t) == \A i \in 1 .. Len(t) : t[i] # 0

LEMMA EndedAll == ASSUME NEW t, NoZero(t) PROVE Ended(t) = t
BY Zenon DEF NoZero, Ended

LEMMA CutNoZero == ASSUME NEW t \in Bytes, NoZero(t) PROVE NoZero(Cut(t))
<1>1. Len(t) \in Nat /\ MAX_CONTENT \in Nat
  BY LenNat DEF MAX_CONTENT
<1>2. CASE Len(t) > MAX_CONTENT
  <2> DEFINE c == SubSeq(t, 1, MAX_CONTENT)
  <2>1. MAX_CONTENT \in 0 .. Len(t)
    BY <1>1, <1>2
  <2>2. Len(c) = MAX_CONTENT /\ \A i \in 1 .. MAX_CONTENT : c[i] = t[i]
    BY <2>1, Top, Zenon
  <2>3. Cut(t) = c
    BY <1>2, Zenon DEF Cut
  <2> HIDE DEF c
  <2>4. \A i \in 1 .. MAX_CONTENT : i \in 1 .. Len(t)
    BY <1>1, <1>2
  <2> QED BY <2>2, <2>3, <2>4, Zenon DEF NoZero
<1>3. CASE ~(Len(t) > MAX_CONTENT)
  BY <1>3, Zenon DEF Cut
<1> QED BY <1>2, <1>3

\* No text is two commands, and so it matches a command just if one of its words it is.
LEMMA MatchIs ==
    ASSUME NEW t \in Bytes, NoZero(t), NEW k \in DOMAIN Words
    PROVE  Match(t) = k <=> \E w \in Words[k] : Lower(WithoutSlash(t)) = w
<1> DEFINE l == Lower(WithoutSlash(Ended(t)))  named == {j \in DOMAIN Words : l \in Words[j]}
<1>0. l = Lower(WithoutSlash(t))
  BY EndedAll, Zenon
<1>1. Match(t) = IF named = {} THEN "NONE" ELSE CHOOSE j \in named : TRUE
  BY Zenon DEF Match
<1>2. \A j \in DOMAIN Words : l \in Words[j] => KindOf(Len(l)) = j
  BY WordsAre, Zenon
<1>3. k # "NONE"
  BY DEF Words
<1> HIDE DEF l
<1>4. ASSUME l \in Words[k] PROVE Match(t) = k
  <2>1. k \in named
    BY <1>4
  <2>2. \A j \in named : j = k
    BY <1>2, <1>4
  <2> HIDE DEF named
  <2>3. named # {} /\ (CHOOSE j \in named : TRUE) \in named
    BY <2>1, Zenon
  <2> QED BY <1>1, <2>2, <2>3, Zenon
<1>5. ASSUME Match(t) = k PROVE l \in Words[k]
  <2>1. named # {}
    BY <1>1, <1>3, <1>5, Zenon
  <2>2. (CHOOSE j \in named : TRUE) \in named
    BY <2>1, Zenon
  <2>3. k \in named
    BY <1>1, <1>5, <2>1, <2>2, Zenon
  <2> QED BY <2>3, Zenon
<1> QED BY <1>0, <1>4, <1>5, Zenon

LEMMA MeansIs ==
    ASSUME NEW t \in Bytes, NEW k \in DOMAIN Words
    PROVE  Means(t, k) <=> \E w \in Words[k] : Spells(WithoutSlash(t), w)
<1>1. \A w \in Words[k] : Small26(w) /\ Len(w) \in 3..7
  BY WordsAre, Zenon
<1>2. CASE t # <<>> /\ t[1] = 47
  <2>1. \A w \in Words[k] : ~Spells(t, w) /\ (Spells(t, Slash \o w) <=> Spells(Tail(t), w))
    BY <1>1, <1>2, SlashSpells, Zenon
  <2>2. WithoutSlash(t) = Tail(t)
    BY <1>2, Zenon DEF WithoutSlash
  <2> QED BY <2>1, <2>2, Zenon DEF Means
<1>3. CASE ~(t # <<>> /\ t[1] = 47)
  <2>1. \A w \in Words[k] : ~Spells(t, Slash \o w)
    BY <1>1, <1>3, SlashSpells, Zenon
  <2>2. WithoutSlash(t) = t
    BY <1>3, Zenon DEF WithoutSlash
  <2> QED BY <2>1, <2>2, Zenon DEF Means
<1> QED BY <1>2, <1>3, Zenon

LEMMA MatchMeans ==
    ASSUME NEW t \in Bytes, NoZero(t), NEW k \in DOMAIN Words
    PROVE  Match(t) = k <=> Means(t, k)
<1>1. WithoutSlash(t) \in Bytes
  BY WordBytes
<1>2. \A w \in Words[k] : Small26(w)
  BY WordsAre, Zenon
<1>3. \A w \in Words[k] : Lower(WithoutSlash(t)) = w <=> Spells(WithoutSlash(t), w)
  BY <1>1, <1>2, LowerSpells, Zenon
<1> QED BY <1>3, MatchIs, MeansIs, Zenon

\* A text of which something is cut off is no command, and neither is what is kept of it.
LEMMA LongMeansNone ==
    ASSUME NEW t \in Bytes, NEW k \in DOMAIN Words, Len(t) >= MAX_CONTENT
    PROVE  ~Means(t, k)
<1>1. WithoutSlash(t) \in Bytes /\ Len(WithoutSlash(t)) >= 47
  <2>1. Len(t) \in Nat /\ Len(t) >= 48
    BY LenNat DEF MAX_CONTENT
  <2> QED BY <2>1, WordBytes
<1>2. \A w \in Words[k] : Len(w) \in 3..7
  BY WordsAre, Zenon
<1>3. ASSUME NEW w \in Words[k] PROVE ~Spells(WithoutSlash(t), w)
  <2>1. Len(w) \in 3..7
    BY <1>2, Zenon
  <2>2. Len(WithoutSlash(t)) \in Nat /\ \A n \in 3..7 : \A m \in Nat : m >= 47 => n # m
    BY <1>1, LenNat
  <2>3. Len(w) # Len(WithoutSlash(t))
    BY <1>1, <2>1, <2>2, Zenon
  <2> QED BY <2>3, Zenon DEF Spells
<1> QED BY <1>3, MeansIs, Zenon

\* The node sees a command in what it keeps of a text exactly if the text is that
\* command: in any letters, with the slash or without it, and nothing behind it.
\* Of a text with a zero in it only what is before the zero is seen (LxmfCommand.cpp:29-58).
THEOREM CommandIsMeant ==
    \A t \in Bytes : NoZero(t) => \A k \in DOMAIN Words : Match(Cut(t)) = k <=> Means(t, k)
<1> SUFFICES ASSUME NEW t \in Bytes, NoZero(t), NEW k \in DOMAIN Words
             PROVE  Match(Cut(t)) = k <=> Means(t, k)
  OBVIOUS
<1>0. NoZero(Cut(t))
  BY CutNoZero
<1>1. Len(t) \in Nat /\ MAX_CONTENT \in Nat
  BY LenNat DEF MAX_CONTENT
<1>2. CASE Len(t) > MAX_CONTENT
  <2>1. Cut(t) = SubSeq(t, 1, MAX_CONTENT)
    BY <1>2, Zenon DEF Cut
  <2>2. SubSeq(t, 1, MAX_CONTENT) \in Bytes /\ Len(SubSeq(t, 1, MAX_CONTENT)) = MAX_CONTENT
    <3>1. MAX_CONTENT \in 0 .. Len(t)
      BY <1>1, <1>2
    <3> QED BY <3>1, Top, Zenon
  <2> DEFINE c == SubSeq(t, 1, MAX_CONTENT)
  <2>3. c \in Bytes /\ Len(c) >= MAX_CONTENT /\ Len(t) >= MAX_CONTENT
    BY <1>1, <1>2, <2>2
  <2> HIDE DEF c
  <2>4. ~Means(c, k) /\ ~Means(t, k)
    BY <2>3, LongMeansNone, Zenon
  <2> QED BY <1>0, <2>1, <2>3, <2>4, MatchMeans, Zenon DEF c
<1>3. CASE ~(Len(t) > MAX_CONTENT)
  BY <1>3, MatchMeans, Zenon DEF Cut
<1> QED BY <1>2, <1>3

\* What one node packs another unpacks: its sender, its time, its text without the
\* blanks around it, and the command that was meant if one was.
Arrives(got, dest, source, time, core) ==
    /\ got.ok /\ got.val.dest = dest /\ got.val.source = source
    /\ got.val.timestamp = Real(time) /\ got.val.content = Cut(core)
    /\ \A k \in DOMAIN Words : Match(got.val.content) = k <=> Means(core, k)

\* An operator's message of any length, in any letters and with any blanks around
\* it, is the command it spells and no other when it comes out of unpack() and
\* match(), and it is no command if it spells none (Lxmf.cpp:54-123 against
\* LxmfCommand.cpp:13-58).
THEOREM CommandArrives ==
    ASSUME NEW dest \in Hash, NEW source \in Hash, NEW signature \in SignatureBytes,
           NEW time \in Number, NEW front \in Bytes, NEW core \in Bytes, NEW back \in Bytes,
           Blank(front), Blank(back), Bare(core), Len((front \o core) \o back) < Huge,
           Pack(dest, source, signature, time, (front \o core) \o back, <<>>).ok
    PROVE  Arrives(Unpack(Pack(dest, source, signature, time, (front \o core) \o back, <<>>).val),
                   dest, source, time, core)
<1> DEFINE content == (front \o core) \o back
           v == Pack(dest, source, signature, time, content, <<>>).val
<1>1. <<>> \in Bytes
  BY Empty
<1>2. content \in Bytes
  <2>1. front \o core \in Bytes
    BY CatLen, Zenon
  <2> QED BY <2>1, CatLen, Zenon
<1>3. TrimsTo(front, core, back)
  BY TrimsPads, Zenon
<1>4. Trim(content) = core
  BY <1>3 DEF TrimsTo
<1>5. Len(content) < Huge /\ Pack(dest, source, signature, time, content, <<>>).ok
  OBVIOUS
<1> HIDE DEF content
<1>6. ReadAsSent(v, dest, source, time, content, <<>>)
  BY <1>1, <1>2, <1>5, SentIsRead, Zenon
<1> HIDE DEF v
<1>7. Unpack(v) = Read([dest |-> dest, source |-> source, timestamp |-> Real(time),
                        content |-> Cut(core)], FieldsOf(<<>>))
  BY <1>4, <1>6, Zenon DEF ReadAsSent, Unpacked
<1>8. \A k \in DOMAIN Words : Match(Cut(core)) = k <=> Means(core, k)
  BY CommandIsMeant, Zenon DEF Bare, NoZero
<1> DEFINE got == Unpack(v)
<1>9. /\ got.ok /\ got.val.dest = dest /\ got.val.source = source
      /\ got.val.timestamp = Real(time) /\ got.val.content = Cut(core)
  BY <1>7 DEF Read
<1> HIDE DEF got
<1>10. Arrives(got, dest, source, time, core)
  BY <1>8, <1>9, Zenon DEF Arrives
<1> QED BY <1>10 DEF got, v, content

-----------------------------------------------------------------------------
(***************************************************************************)
(* What fits in a packet                                                   *)
(***************************************************************************)
Fits(s, n) == s \in Bytes /\ Len(s) <= n

LEMMA FitsBoth ==
    ASSUME NEW m \in Nat, NEW n \in Nat, NEW s, NEW t, Fits(s, m), Fits(t, n)
    PROVE  Fits(s \o t, m + n)
<1>1. s \in Bytes /\ t \in Bytes /\ Len(s) <= m /\ Len(t) <= n
  BY DEF Fits
<1>2. s \o t \in Bytes /\ Len(s \o t) = Len(s) + Len(t) /\ Len(s) \in Nat /\ Len(t) \in Nat
  BY <1>1, CatLen
<1>3. Len(s \o t) <= m + n
  BY <1>1, <1>2
<1> QED BY <1>2, <1>3, Zenon DEF Fits

LEMMA FitsMore ==
    ASSUME NEW m \in Nat, NEW n \in Nat, m <= n, NEW s, Fits(s, m)
    PROVE  Fits(s, n)
<1>1. s \in Bytes /\ Len(s) \in Nat /\ Len(s) <= m
  BY LenNat DEF Fits
<1> QED BY <1>1 DEF Fits

LEMMA FitsOne == ASSUME NEW c \in Byte PROVE Fits(<<c>>, 1)
<1>1. <<c>> \in Bytes /\ Len(<<c>>) = 1
  BY One
<1> QED BY <1>1 DEF Fits

LEMMA FitsNone == Fits(<<>>, 0)
BY Empty DEF Fits

LEMMA FitsTag ==
    \A c \in Byte, n \in Nat : \A t : Fits(t, n) => Fits(<<c>> \o t, 1 + n)
<1>1. 1 \in Nat
  OBVIOUS
<1> QED BY <1>1, FitsOne, FitsBoth, Zenon

LEMMA FitsUint == \A v \in Number : Fits(Uint(v), 9)
<1> SUFFICES ASSUME NEW v \in Number PROVE Fits(Uint(v), 9)
  OBVIOUS
<1>1. ASSUME NEW w \in 1..8 PROVE Fits(Lowest(v, w), w)
  <2>1. Lowest(v, w) \in Bytes /\ Len(Lowest(v, w)) = w
    BY LowestBytes
  <2> QED BY <2>1 DEF Fits
<1>2. ASSUME NEW c \in Byte, NEW w \in 1..8 PROVE Fits(<<c>> \o Lowest(v, w), 9)
  <2>1. w \in Nat /\ 1 + w \in Nat /\ 1 + w <= 9 /\ 9 \in Nat
    OBVIOUS
  <2>2. Fits(<<c>> \o Lowest(v, w), 1 + w)
    BY <1>1, <2>1, FitsTag, Zenon
  <2> QED BY <2>1, <2>2, FitsMore, Zenon
<1>3. Lowest(v, 8) = v
  BY LowestAll
<1>4. Fits(Lowest(v, 1), 9)
  <2>1. 1 \in 1..8 /\ 1 \in Nat /\ 9 \in Nat /\ 1 <= 9
    OBVIOUS
  <2> QED BY <1>1, <2>1, FitsMore, Zenon
<1>5. v \in Bytes /\ Len(v) = 8 /\ \A i \in 1..8 : v[i] \in 0..255
  BY NumberBytes DEF Byte
<1>6. \/ Below(v, 1) /\ v[Wide] < 128
      \/ Below(v, 1) /\ v[Wide] >= 128
      \/ Below(v, 2) /\ ~Below(v, 1)
      \/ Below(v, 4) /\ ~Below(v, 2)
      \/ ~Below(v, 4)
  <2>1. v[Wide] < 128 \/ v[Wide] >= 128
    BY <1>5 DEF Wide
  <2> QED BY <2>1
<1>7. \A w \in {1, 2, 4, 8} : w \in 1..8
  OBVIOUS
<1>8. 204 \in Byte /\ 205 \in Byte /\ 206 \in Byte /\ 207 \in Byte
  BY DEF Byte
<1>9. /\ Fits(<<204>> \o Lowest(v, 1), 9) /\ Fits(<<205>> \o Lowest(v, 2), 9)
      /\ Fits(<<206>> \o Lowest(v, 4), 9) /\ Fits(<<207>> \o v, 9)
  BY <1>2, <1>3, <1>7, <1>8
<1> QED BY <1>4, <1>6, <1>9 DEF Uint

LEMMA FitsFloat == \A v \in Number : Fits(Float64(v), 9)
<1> SUFFICES ASSUME NEW v \in Number PROVE Fits(Float64(v), 9)
  OBVIOUS
<1>1. v \in Bytes /\ Len(v) = 8
  BY NumberBytes
<1>2. Fits(v, 8)
  BY <1>1 DEF Fits
<1>3. 203 \in Byte /\ 8 \in Nat /\ 1 + 8 = 9
  BY DEF Byte
<1>4. Fits(<<203>> \o v, 1 + 8)
  BY <1>2, <1>3, FitsTag
<1> QED BY <1>3, <1>4 DEF Float64

\* Fewer bytes than 256 take two more, as bytes or as a string.
LEMMA FitsText ==
    ASSUME NEW n \in Nat, n < 256, NEW t, Fits(t, n)
    PROVE  Fits(Bin(t), 2 + n) /\ Fits(Str(t), 2 + n)
<1> DEFINE l == Len(t)
<1>0. t \in Bytes /\ l <= n
  BY DEF Fits
<1>1. l \in Nat /\ l < 256
  <2>1. l \in Nat
    BY <1>0, LenNat
  <2> HIDE DEF l
  <2> QED BY <1>0, <2>1
<1>2. Fits(BinHeader(l), 2) /\ Fits(StrHeader(l), 2)
  <2> HIDE DEF l
  <2>1. l \in Byte /\ 196 \in Byte /\ 217 \in Byte
    BY <1>1 DEF Byte
  <2>2. ASSUME NEW c \in Byte, NEW d \in Byte PROVE Fits(<<c, d>>, 2)
    <3>1. <<c, d>> \in Bytes /\ Len(<<c, d>>) = 2
      BY DEF Bytes
    <3> QED BY <3>1 DEF Fits
  <2>3. ASSUME NEW c \in Byte PROVE Fits(<<c>>, 2)
    <3>1. <<c>> \in Bytes /\ Len(<<c>>) = 1
      BY One
    <3> QED BY <3>1 DEF Fits
  <2>4. Fits(<<196, l>>, 2) /\ Fits(<<217, l>>, 2)
    BY <2>1, <2>2
  <2>5. BinHeader(l) = <<196, l>>
    BY <1>1 DEF BinHeader
  <2>6. CASE l < 32
    <3>1. StrHeader(l) = <<160 + l>> /\ 160 + l \in Byte
      BY <1>1, <2>6 DEF StrHeader, Byte
    <3> QED BY <2>3, <2>4, <2>5, <3>1
  <2>7. CASE ~(l < 32)
    <3>1. StrHeader(l) = <<217, l>>
      BY <1>1, <2>7 DEF StrHeader
    <3> QED BY <2>4, <2>5, <3>1
  <2> QED BY <2>6, <2>7
<1>3. Bin(t) = BinHeader(l) \o t /\ Str(t) = StrHeader(l) \o t
  BY DEF Bin, Str
<1>4. 2 \in Nat
  OBVIOUS
<1> HIDE DEF l
<1> QED BY <1>2, <1>3, <1>4, FitsBoth

LEMMA FitsPayload ==
    ASSUME NEW time \in Number, NEW m \in Nat, NEW n \in Nat, m < 256,
           NEW content, Fits(content, m), NEW fields, Fits(FieldsOf(fields), n)
    PROVE  Fits(Payload(time, content, fields), 14 + m + n)
<1> DEFINE a == ArrayHeader(4)  f == Float64(time)  e == Bin(NoContent)  c == Bin(content)
           z == FieldsOf(fields)
<1>1. Fits(a, 1)
  <2>1. ArrayHeader(4) = <<148>> /\ 148 \in Byte
    BY DEF ArrayHeader, Byte
  <2> QED BY <2>1, FitsOne
<1>2. Fits(f, 9)
  BY FitsFloat
<1>3. Fits(e, 2 + 0)
  BY FitsNone, FitsText DEF NoContent
<1>4. Fits(c, 2 + m)
  BY FitsText
<1>5. Fits(z, n)
  OBVIOUS
<1>6. Payload(time, content, fields) = (((a \o f) \o e) \o c) \o z
  BY DEF Payload, FieldsOf
<1> HIDE DEF a, f, e, c, z
<1>7. Fits(a \o f, 1 + 9)
  BY <1>1, <1>2, FitsBoth
<1>8. Fits((a \o f) \o e, (1 + 9) + (2 + 0))
  BY <1>3, <1>7, FitsBoth
<1>9. Fits(((a \o f) \o e) \o c, ((1 + 9) + (2 + 0)) + (2 + m))
  BY <1>4, <1>8, FitsBoth
<1>10. Fits((((a \o f) \o e) \o c) \o z, (((1 + 9) + (2 + 0)) + (2 + m)) + n)
  BY <1>5, <1>9, FitsBoth
<1>11. (((1 + 9) + (2 + 0)) + (2 + m)) + n = 14 + m + n
  OBVIOUS
<1> QED BY <1>6, <1>10, <1>11, Zenon

LEMMA FitsPack ==
    ASSUME NEW dest, NEW source, NEW signature, NEW time \in Number,
           NEW m \in Nat, NEW n \in Nat, m < 256, 14 + m + n <= 295,
           NEW content, Fits(content, m), NEW fields, Fits(FieldsOf(fields), n)
    PROVE  Pack(dest, source, signature, time, content, fields).ok
<1> DEFINE p == Payload(time, content, fields)
<1>1. p \in Bytes /\ Len(p) <= 14 + m + n
  BY FitsPayload, Zenon DEF Fits
<1>2. ~(Len(p) > MAX_OPPORTUNISTIC_PAYLOAD)
  <2> HIDE DEF p
  <2>1. Len(p) \in Nat
    BY <1>1, LenNat
  <2> QED BY <1>1, <2>1 DEF MAX_OPPORTUNISTIC_PAYLOAD
<1>3. Pack(dest, source, signature, time, content, fields) =
        Read(dest \o source \o signature \o p, <<>>)
  BY <1>2, Zenon DEF Pack
<1>4. \A v : Read(v, <<>>).ok
  BY DEF Read
<1> QED BY <1>3, <1>4, Zenon

LEMMA FitsNoFields == Fits(FieldsOf(<<>>), 1)
<1>1. FieldsOf(<<>>) = <<128>> /\ 128 \in Byte
  BY DEF FieldsOf, MapHeader, Byte
<1> QED BY <1>1, FitsOne

\* No reply is too long for a packet (Lxmf.cpp:93-96 against the MAX_REPLY bytes
\* its formatting stops at).
THEOREM RepliesFit ==
    ASSUME NEW dest, NEW source, NEW signature, NEW time \in Number,
           NEW content \in Bytes, Len(content) <= MAX_REPLY
    PROVE  Pack(dest, source, signature, time, content, <<>>).ok
<1>1. Fits(content, 200) /\ 200 < 256 /\ 14 + 200 + 1 <= 295
  BY DEF Fits, MAX_REPLY
<1> QED BY <1>1, FitsNoFields, FitsPack

Info == {s \in Bytes : Len(s) <= 95}
Field == {s \in Bytes : Len(s) = 4}

LEMMA FilledBytes ==
    ASSUME NEW n \in Nat, NEW b \in Byte
    PROVE  Filled(n, b) \in Bytes /\ Len(Filled(n, b)) = n /\ \A i \in 1..n : Filled(n, b)[i] = b
<1>1. Filled(n, b) \in [1..n -> Byte] /\ \A i \in 1..n : Filled(n, b)[i] = b
  BY DEF Filled
<1> QED BY <1>1, FunctionBytes

LEMMA NumberOfBytes == ASSUME NEW s \in Bytes, Len(s) = 8 PROVE s \in Number
<1>1. DOMAIN s = 1..8 /\ \A i \in 1..8 : s[i] \in Byte
  BY LenProperties, ElementOfSeq DEF Bytes
<1>2. s = [i \in 1..8 |-> s[i]]
  BY <1>1, LenProperties DEF Bytes
<1> QED BY <1>1, <1>2 DEF Number, Wide

LEMMA SmallIs == ASSUME NEW n \in Byte PROVE Small(n) \in Number
<1>1. <<n>> \in Bytes /\ Len(<<n>>) = 1
  BY One
<1>2. Padding(<<n>>, 0) = Filled(7, 0)
  BY <1>1 DEF Padding, Filled, Wide
<1>3. 7 \in Nat /\ 0 \in Byte
  BY DEF Byte
<1> DEFINE z == Filled(7, 0)
<1>4. z \in Bytes /\ Len(z) = 7
  BY <1>3, FilledBytes
<1>5. Small(n) = z \o <<n>>
  BY <1>2, Zenon DEF Small, Unsigned
<1> HIDE DEF z
<1>6. z \o <<n>> \in Bytes /\ Len(z \o <<n>>) = 8
  <2> DEFINE o == <<n>>
  <2>1. o \in Bytes /\ Len(o) = 1
    BY <1>1
  <2> HIDE DEF o
  <2>2. z \o o \in Bytes /\ Len(z \o o) = Len(z) + Len(o)
    BY <1>4, <2>1, CatLen, Zenon
  <2>3. Len(z \o o) = 8
    BY <1>4, <2>1, <2>2
  <2> QED BY <2>2, <2>3, Zenon DEF o
<1> QED BY <1>5, <1>6, NumberOfBytes, Zenon

LEMMA FitsHeader == \A n \in {2, 3, 4} : Fits(MapHeader(n), 1)
<1> SUFFICES ASSUME NEW n \in {2, 3, 4} PROVE Fits(MapHeader(n), 1)
  OBVIOUS
<1>1. MapHeader(n) = <<128 + n>> /\ 128 + n \in Byte
  BY DEF MapHeader, Byte
<1> QED BY <1>1, FitsOne

\* A telemeter takes no more than this, whatever is in it.
LEMMA TeleFits ==
    ASSUME NEW now \in Number, NEW percent \in Number, NEW position \in [1..3 -> Field],
           NEW info \in Info, NEW located \in BOOLEAN, NEW powered \in BOOLEAN
    PROVE  Fits(Telemeter(now, located, position, powered, percent, info), 199)
<1> DEFINE h == MapHeader(Sensors(located, powered))
           u1 == Uint(Small(1))  u2 == Uint(Small(2))  u4 == Uint(Small(4))  u15 == Uint(Small(15))
           un == Uint(now)  a7 == ArrayHeader(7)  a3 == ArrayHeader(3)
           p1 == Bin(position[1])  p2 == Bin(position[2])  p3 == Bin(position[3])
           z4 == Bin(Zeros(4))  z2 == Bin(Zeros(2))
           f == Float64(percent)  b == Boolean(FALSE)  i == Str(info)
           located1 == u2 \o a7 \o p1 \o p2 \o p3 \o z4 \o z4 \o z2 \o un
           powered1 == u4 \o a3 \o f \o b \o Nil
           l == IF ~located THEN <<>> ELSE located1
           p == IF ~powered THEN <<>> ELSE powered1
<1>1. Telemeter(now, located, position, powered, percent, info) =
        h \o u1 \o un \o l \o p \o u15 \o i
  BY Zenon DEF Telemeter
<1>2. \A m \in Nat, n \in Nat : \A s, t : Fits(s, m) /\ Fits(t, n) => Fits(s \o t, m + n)
  BY FitsBoth
<1>3. Fits(h, 1)
  <2>1. Sensors(located, powered) \in {2, 3, 4}
    BY DEF Sensors
  <2>2. \A n \in {2, 3, 4} : Fits(MapHeader(n), 1)
    BY FitsHeader
  <2> QED BY <2>1, <2>2, Zenon
<1>4. Fits(u1, 9) /\ Fits(u2, 9) /\ Fits(u4, 9) /\ Fits(u15, 9) /\ Fits(un, 9)
  <2>1. 1 \in Byte /\ 2 \in Byte /\ 4 \in Byte /\ 15 \in Byte
    BY DEF Byte
  <2>2. Small(1) \in Number /\ Small(2) \in Number /\ Small(4) \in Number /\ Small(15) \in Number
    BY <2>1, SmallIs
  <2> QED BY <2>2, FitsUint
<1>5. Fits(a7, 1) /\ Fits(a3, 1)
  <2>1. ArrayHeader(7) = <<151>> /\ ArrayHeader(3) = <<147>> /\ 151 \in Byte /\ 147 \in Byte
    BY DEF ArrayHeader, Byte
  <2> QED BY <2>1, FitsOne
<1>6. Fits(p1, 6) /\ Fits(p2, 6) /\ Fits(p3, 6) /\ Fits(z4, 6) /\ Fits(z2, 4)
  <2>1. \A s \in Bytes : \A n \in 0..255 : Len(s) = n => Fits(Bin(s), 2 + n)
    <3> SUFFICES ASSUME NEW s \in Bytes, NEW n \in 0..255, Len(s) = n PROVE Fits(Bin(s), 2 + n)
      OBVIOUS
    <3>1. n \in Nat /\ n < 256 /\ Fits(s, n)
      BY DEF Fits
    <3> QED BY <3>1, FitsText
  <2>2. /\ position[1] \in Bytes /\ Len(position[1]) = 4
        /\ position[2] \in Bytes /\ Len(position[2]) = 4
        /\ position[3] \in Bytes /\ Len(position[3]) = 4
    BY DEF Field
  <2>3. Zeros(4) = Filled(4, 0) /\ Zeros(2) = Filled(2, 0) /\ 0 \in Byte
    BY DEF Zeros, Filled, Byte
  <2>4. \A n \in Nat : Filled(n, 0) \in Bytes /\ Len(Filled(n, 0)) = n
    BY <2>3, FilledBytes
  <2>5. Zeros(4) \in Bytes /\ Len(Zeros(4)) = 4 /\ Zeros(2) \in Bytes /\ Len(Zeros(2)) = 2
    BY <2>3, <2>4
  <2>6. 4 \in 0..255 /\ 2 \in 0..255 /\ 2 + 4 = 6 /\ 2 + 2 = 4
    OBVIOUS
  <2> QED BY <2>1, <2>2, <2>5, <2>6
<1>7. Fits(f, 9) /\ Fits(b, 1) /\ Fits(Nil, 1) /\ Fits(i, 97)
  <2>1. \E c, d \in Byte : b = <<c>> /\ Nil = <<d>>
    BY DEF Boolean, Nil, Byte
  <2>2. Fits(info, 95) /\ 95 \in Nat /\ 95 < 256 /\ 2 + 95 = 97
    BY DEF Info, Fits
  <2>3. Fits(i, 2 + 95)
    BY <2>2, FitsText
  <2>5. Fits(b, 1) /\ Fits(Nil, 1)
    BY <2>1, FitsOne, Zenon
  <2>6. Fits(i, 97)
    BY <2>2, <2>3
  <2> QED BY <2>5, <2>6, FitsFloat, Zenon
<1> HIDE DEF h, u1, u2, u4, u15, un, a7, a3, p1, p2, p3, z4, z2, f, b, i
<1>8. Fits(l, 53)
  <2>1. Fits(u2 \o a7, 9 + 1)
    BY <1>2, <1>4, <1>5
  <2>2. Fits(u2 \o a7 \o p1, 10 + 6)
    BY <1>2, <1>6, <2>1
  <2>3. Fits(u2 \o a7 \o p1 \o p2, 16 + 6)
    BY <1>2, <1>6, <2>2
  <2>4. Fits(u2 \o a7 \o p1 \o p2 \o p3, 22 + 6)
    BY <1>2, <1>6, <2>3
  <2>5. Fits(u2 \o a7 \o p1 \o p2 \o p3 \o z4, 28 + 6)
    BY <1>2, <1>6, <2>4
  <2>6. Fits(u2 \o a7 \o p1 \o p2 \o p3 \o z4 \o z4, 34 + 6)
    BY <1>2, <1>6, <2>5
  <2>7. Fits(u2 \o a7 \o p1 \o p2 \o p3 \o z4 \o z4 \o z2, 40 + 4)
    BY <1>2, <1>6, <2>6
  <2>8. Fits(located1, 44 + 9)
    BY <1>2, <1>4, <2>7
  <2> HIDE DEF located1
  <2>9. Fits(<<>>, 53) /\ Fits(located1, 53)
    BY <2>8, FitsNone, FitsMore
  <2> QED BY <2>9
<1>9. Fits(p, 21)
  <2>1. Fits(u4 \o a3, 9 + 1)
    BY <1>2, <1>4, <1>5
  <2>2. Fits(u4 \o a3 \o f, 10 + 9)
    BY <1>2, <1>7, <2>1
  <2>3. Fits(u4 \o a3 \o f \o b, 19 + 1)
    BY <1>2, <1>7, <2>2
  <2>4. Fits(powered1, 20 + 1)
    BY <1>2, <1>7, <2>3
  <2> HIDE DEF powered1
  <2>5. Fits(<<>>, 21) /\ Fits(powered1, 21)
    BY <2>4, FitsNone, FitsMore
  <2> QED BY <2>5
<1> HIDE DEF l, p
<1>10. Fits(h \o u1, 1 + 9)
  BY <1>2, <1>3, <1>4
<1>11. Fits(h \o u1 \o un, 10 + 9)
  BY <1>2, <1>4, <1>10
<1>12. Fits(h \o u1 \o un \o l, 19 + 53)
  BY <1>2, <1>8, <1>11
<1>13. Fits(h \o u1 \o un \o l \o p, 72 + 21)
  BY <1>2, <1>9, <1>12
<1>14. Fits(h \o u1 \o un \o l \o p \o u15, 93 + 9)
  BY <1>2, <1>4, <1>13
<1>15. Fits(h \o u1 \o un \o l \o p \o u15 \o i, 102 + 97)
  BY <1>2, <1>7, <1>14
<1> QED BY <1>1, <1>15

\* Whatever the node measures of itself fits in a packet, with the time and the
\* place and the battery and the longest line of information (Telemetry.cpp:
\* 106-181 against Lxmf.cpp:93-96).
THEOREM TelemetryFits ==
    ASSUME NEW dest, NEW source, NEW signature, NEW time \in Number,
           NEW now \in Number, NEW percent \in Number, NEW position \in [1..3 -> Field],
           NEW info \in Info, NEW located \in BOOLEAN, NEW powered \in BOOLEAN
    PROVE  Pack(dest, source, signature, time, <<>>,
                TelemetryFields(Telemeter(now, located, position, powered, percent, info))).ok
<1> DEFINE t == Telemeter(now, located, position, powered, percent, info)
           fields == TelemetryFields(t)
<1>1. Fits(t, 199)
  BY TeleFits
<1> HIDE DEF t
<1>2. Fits(fields, (1 + 9) + (2 + 199))
  <2>1. Fits(Bin(t), 2 + 199)
    BY <1>1, FitsText
  <2>2. 2 \in Byte
    BY DEF Byte
  <2>3. Fits(Uint(Small(2)), 9)
    BY <2>2, SmallIs, FitsUint
  <2>4. MapHeader(1) = <<129>> /\ 129 \in Byte
    BY DEF MapHeader, Byte
  <2>5. Fits(MapHeader(1), 1)
    BY <2>4, FitsOne
  <2>6. fields = MapHeader(1) \o Uint(Small(2)) \o Bin(t)
    BY DEF TelemetryFields
  <2> HIDE DEF fields
  <2> DEFINE m == MapHeader(1)  u == Uint(Small(2))  b == Bin(t)
  <2> HIDE DEF m, u, b
  <2>7. Fits(m, 1) /\ Fits(u, 9) /\ Fits(b, 2 + 199) /\ fields = m \o u \o b
    BY <2>1, <2>3, <2>5, <2>6 DEF m, u, b
  <2>8. Fits(m \o u, 1 + 9)
    BY <2>7, FitsBoth
  <2> QED BY <2>7, <2>8, FitsBoth
<1> HIDE DEF fields
<1>3. Fits(fields, 211)
  BY <1>2
<1>4. Fits(FieldsOf(fields), 211)
  <2>1. Fits(FieldsOf(<<>>), 211)
    BY FitsNoFields, FitsMore
  <2> QED BY <1>3, <2>1 DEF FieldsOf
<1>5. Fits(<<>>, 0) /\ 0 \in Nat /\ 211 \in Nat /\ 0 < 256 /\ 14 + 0 + 211 <= 295
  BY FitsNone
<1>6. Pack(dest, source, signature, time, <<>>, fields).ok
  BY <1>4, <1>5, FitsPack
<1> QED BY <1>6 DEF fields, t

-----------------------------------------------------------------------------
(***************************************************************************)
(* The cases that are run                                                  *)
(***************************************************************************)
LEMMA Next1Bytes == Next1 \in Bytes
<1>1. 192 \in Byte
  BY DEF Byte
<1> QED BY <1>1, One DEF Next1

LEMMA NumbersAre == Numbers \subseteq Number
<1> SUFFICES ASSUME NEW w \in Widths, NEW sign \in Ends, NEW top \in Tops, NEW low \in Ends
             PROVE  Around(w, sign, top, low) \in Number
  BY DEF Numbers
<1>1. sign \in Byte /\ low \in Byte /\ top \in Byte
  BY DEF Byte, Ends, Tops
<1> DEFINE m == Wide - w  n == w - 1
<1>2. m \in Nat /\ n \in Nat /\ (m + 1) + n = 8
  BY DEF Wide, Widths
<1> HIDE DEF m, n
<1> DEFINE a == Filled(m, sign)  b == <<top>>  c == Filled(n, low)
<1>3. a \in Bytes /\ Len(a) = m /\ c \in Bytes /\ Len(c) = n
  BY <1>1, <1>2, FilledBytes, Zenon
<1>4. b \in Bytes /\ Len(b) = 1
  BY <1>1, One
<1> HIDE DEF a, b, c
<1>5. a \o b \in Bytes /\ Len(a \o b) = Len(a) + Len(b)
  BY <1>3, <1>4, CatLen, Zenon
<1>6. (a \o b) \o c \in Bytes /\ Len((a \o b) \o c) = Len(a \o b) + Len(c)
  BY <1>3, <1>5, CatLen, Zenon
<1>7. Len((a \o b) \o c) = 8
  BY <1>2, <1>3, <1>4, <1>5, <1>6
<1>8. (a \o b) \o c \in Number
  BY <1>6, <1>7, NumberOfBytes, Zenon
<1> QED BY <1>8, Zenon DEF Around, a, b, c, m, n

LEMMA StringsAre == \A t \in Strings : t \in Bytes /\ Len(t) < Huge
<1> SUFFICES ASSUME NEW n \in Lengths, NEW x \in {0, 196}
             PROVE  Filled(n, x) \in Bytes /\ Len(Filled(n, x)) < Huge
  BY DEF Strings
<1>1. n \in Nat /\ n < Huge /\ x \in Byte
  BY DEF Lengths, Huge, Byte
<1> QED BY <1>1, FilledBytes

LEMMA CutsAre == \A e : \A s \in CutShort(e) : \E k \in 0 .. Len(e) - 1 : s = SubSeq(e, 1, k)
BY DEF CutShort

\* What the node writes it reads back, in each of the cases of the runs.
THEOREM CasesReadBack == ReadsBack
<1>1. ASSUME NEW v \in Numbers
      PROVE  /\ NumberIs(Integer(v), Whole(v)) /\ NumberIs(Uint(v), Natural(v))
             /\ NumberIs(Float64(v), Real(v))
  BY NumbersAre, IntegersReadBack, UintsReadBack, FloatsReadBack
<1>2. ASSUME NEW t \in Strings PROVE TextIs(Str(t), t) /\ TextIs(Bin(t), t)
  BY StringsAre, TextsReadBack
<1>3. ASSUME NEW n \in Lengths PROVE CountIs(ArrayHeader(n), n)
  <2>1. n \in Nat /\ n < Huge
    BY DEF Lengths, Huge
  <2> QED BY <2>1, CountsReadBack
<1>4. \A e, n : NumberIs(e, n) => /\ ReadNumber(e \o Next1) = Read(n, Next1)
                                  /\ \A s \in CutShort(e) : ~ReadNumber(s).ok
  BY Next1Bytes, CutsAre, Zenon DEF NumberIs
<1>5. \A e, t : TextIs(e, t) => /\ ReadBytes(e \o Next1) = Read(t, Next1)
                                /\ \A s \in CutShort(e) : ~ReadBytes(s).ok
  BY Next1Bytes, CutsAre, Zenon DEF TextIs
<1>6. \A e, n : CountIs(e, n) => ReadArrayHeader(e \o Next1) = Read(n, Next1)
  BY Next1Bytes, Zenon DEF CountIs
<1>7. ASSUME NEW v \in Numbers
      PROVE  /\ ReadNumber(Integer(v) \o Next1) = Read(Whole(v), Next1)
             /\ ReadNumber(Uint(v) \o Next1) = Read(Natural(v), Next1)
             /\ ReadNumber(Float64(v) \o Next1) = Read(Real(v), Next1)
             /\ \A s \in CutShort(Integer(v)) \cup CutShort(Uint(v)) \cup CutShort(Float64(v)) :
                  ~ReadNumber(s).ok
  BY <1>1, <1>4, Zenon
<1>8. ASSUME NEW t \in Strings
      PROVE  /\ ReadBytes(Str(t) \o Next1) = Read(t, Next1)
             /\ ReadBytes(Bin(t) \o Next1) = Read(t, Next1)
             /\ \A s \in CutShort(Str(t)) \cup CutShort(Bin(t)) : ~ReadBytes(s).ok
  BY <1>2, <1>5, Zenon
<1>9. \A n \in Lengths : ReadArrayHeader(ArrayHeader(n) \o Next1) = Read(n, Next1)
  BY <1>3, <1>6, Zenon
<1> QED BY <1>7, <1>8, <1>9, Zenon DEF ReadsBack

LEMMA EndsAre ==
    /\ Here \in Hash /\ There \in Hash /\ Signature \in SignatureBytes /\ Now \in Number
    /\ \A s \in Pads : Blank(s) /\ Fits(s, 60)
<1>1. /\ 1 \in Byte /\ 2 \in Byte /\ 3 \in Byte /\ 32 \in Byte
      /\ 16 \in Nat /\ 64 \in Nat /\ 60 \in Nat /\ 0 <= 60 /\ 1 <= 60 /\ 3 <= 60
  BY DEF Byte
<1>2. /\ Filled(16, 1) \in Bytes /\ Len(Filled(16, 1)) = 16
      /\ Filled(16, 2) \in Bytes /\ Len(Filled(16, 2)) = 16
      /\ Filled(64, 3) \in Bytes /\ Len(Filled(64, 3)) = 64
      /\ Filled(60, 32) \in Bytes /\ Len(Filled(60, 32)) = 60
  BY <1>1, FilledBytes
<1>3. Here \in Hash /\ There \in Hash /\ Signature \in SignatureBytes
  BY <1>2 DEF Here, There, Signature, Hash, SignatureBytes, HASH_LEN, SIG_LEN
<1>4. Now \in Number
  <2>1. Now \in Bytes /\ Len(Now) = 8
    BY DEF Now, Bytes, Byte
  <2> QED BY <2>1, NumberOfBytes
<1>5. Blank(<<>>) /\ Fits(<<>>, 60)
  BY Empty DEF Blank, Fits
<1>6. Blank(<<32>>) /\ Fits(<<32>>, 60)
  <2>1. <<32>> \in Bytes /\ Len(<<32>>) = 1 /\ <<32>>[1] = 32
    BY <1>1, One
  <2> QED BY <2>1 DEF Blank, Fits, Space
<1>7. Blank(<<9, 13, 10>>) /\ Fits(<<9, 13, 10>>, 60)
  <2>1. <<9, 13, 10>> \in Bytes /\ Len(<<9, 13, 10>>) = 3
    BY DEF Bytes, Byte
  <2> QED BY <2>1 DEF Blank, Fits, Space
<1>8. Blank(Filled(60, 32)) /\ Fits(Filled(60, 32), 60)
  <2> DEFINE g == Filled(60, 32)
  <2>1. \A i \in 1..60 : g[i] = 32
    BY <1>1, FilledBytes
  <2>2. g \in Bytes /\ Len(g) = 60
    BY <1>2
  <2> HIDE DEF g
  <2>3. Fits(g, 60)
    BY <2>2 DEF Fits
  <2>4. Blank(g)
    BY <2>1, <2>2 DEF Blank, Space
  <2> QED BY <2>3, <2>4 DEF g
<1> QED BY <1>3, <1>4, <1>5, <1>6, <1>7, <1>8 DEF Pads

LEMMA TypedAre == \A s \in Typed : Fits(s, 200)
<1>1. ASSUME NEW k \in DOMAIN Words, NEW w \in Words[k]
      PROVE  Fits(w, 7) /\ Fits(w, 200)
  <2>1. w \in Bytes /\ Len(w) \in 3..7
    BY WordsAre, Zenon DEF Small26
  <2>2. \A n \in 3..7 : n <= 7 /\ n <= 200
    OBVIOUS
  <2>3. Len(w) <= 7 /\ Len(w) <= 200
    BY <2>1, <2>2, Zenon
  <2> QED BY <2>1, <2>3, Zenon DEF Fits
<1>2. 47 \in Byte /\ 98 \in Byte /\ 32 \in Byte
  BY DEF Byte
<1>3. Fits(Slash, 1) /\ Fits(Slash, 200)
  <2>1. Slash \in Bytes /\ Len(Slash) = 1
    BY <1>2, One DEF Slash
  <2> QED BY <2>1 DEF Fits
<1>4. \A s, t : Fits(s, 1) /\ Fits(t, 7) => Fits(s \o t, 200)
  <2> SUFFICES ASSUME NEW s, NEW t, Fits(s, 1), Fits(t, 7) PROVE Fits(s \o t, 200)
    OBVIOUS
  <2>1. 1 \in Nat /\ 7 \in Nat
    OBVIOUS
  <2>2. Fits(s \o t, 1 + 7)
    BY <2>1, FitsBoth, Zenon
  <2>3. Fits(s \o t, 8) /\ 8 \in Nat /\ 200 \in Nat /\ 8 <= 200
    BY <2>2
  <2> QED BY <2>3, FitsMore
<1>5. ASSUME NEW k \in DOMAIN Words, NEW w \in Words[k] PROVE Fits(Slash \o w, 200)
  BY <1>1, <1>3, <1>4
<1>6. \A n \in 0..200 : Fits(Filled(n, 98), 200)
  <2> SUFFICES ASSUME NEW n \in 0..200 PROVE Fits(Filled(n, 98), 200)
    OBVIOUS
  <2>1. Filled(n, 98) \in Bytes /\ Len(Filled(n, 98)) = n
    BY <1>2, FilledBytes
  <2> QED BY <2>1 DEF Fits
<1>7. Fits(<<98, 97, 116>>, 7) /\ Fits(<<98, 97, 116>>, 200)
  <2>1. <<98, 97, 116>> \in Bytes /\ Len(<<98, 97, 116>>) = 3
    BY DEF Bytes, Byte
  <2> QED BY <2>1 DEF Fits
<1>8. Fits(Slash \o Slash \o <<98, 97, 116>>, 200)
  <2>1. 1 \in Nat /\ 7 \in Nat
    OBVIOUS
  <2>2. Fits(Slash \o Slash, 1 + 1)
    BY <1>3, <2>1, FitsBoth, Zenon
  <2>3. 1 + 1 \in Nat /\ 1 + 1 + 7 \in Nat /\ 200 \in Nat /\ 1 + 1 + 7 <= 200
    OBVIOUS
  <2>4. Fits(Slash \o Slash \o <<98, 97, 116>>, 1 + 1 + 7)
    <3> DEFINE s == Slash \o Slash  t == <<98, 97, 116>>
    <3> HIDE DEF s, t
    <3>1. Fits(s, 1 + 1) /\ Fits(t, 7)
      BY <1>7, <2>2 DEF s, t
    <3>2. Fits(s \o t, 1 + 1 + 7)
      BY <2>1, <2>3, <3>1, FitsBoth, Zenon
    <3> QED BY <3>2 DEF s, t
  <2> QED BY <2>3, <2>4, FitsMore
<1>9. Fits(Slash \o <<72, 101, 76, 112>>, 200)
  <2>1. <<72, 101, 76, 112>> \in Bytes /\ Len(<<72, 101, 76, 112>>) = 4
    BY DEF Bytes, Byte
  <2>2. Fits(<<72, 101, 76, 112>>, 7)
    BY <2>1 DEF Fits
  <2> QED BY <1>3, <1>4, <2>2
<1>10. Fits(<<66, 65, 84>>, 200) /\ Fits(<<98, 97>>, 200) /\ Fits(<<66, 47, 84>>, 200)
  <2>1. /\ <<66, 65, 84>> \in Bytes /\ Len(<<66, 65, 84>>) = 3
        /\ <<98, 97>> \in Bytes /\ Len(<<98, 97>>) = 2
        /\ <<66, 47, 84>> \in Bytes /\ Len(<<66, 47, 84>>) = 3
    BY DEF Bytes, Byte
  <2> QED BY <2>1 DEF Fits
<1>11. Fits(<<98, 97, 116, 32, 98>>, 200) /\ Fits(<<98, 97, 116, 0, 98>>, 200)
  <2>1. /\ <<98, 97, 116, 32, 98>> \in Bytes /\ Len(<<98, 97, 116, 32, 98>>) = 5
        /\ <<98, 97, 116, 0, 98>> \in Bytes /\ Len(<<98, 97, 116, 0, 98>>) = 5
    BY DEF Bytes, Byte
  <2> QED BY <2>1 DEF Fits
<1>12. Fits(<<98, 97, 116>> \o Filled(60, 32) \o <<98>>, 200)
  <2> DEFINE s == <<98, 97, 116>>  t == Filled(60, 32)  u == <<98>>
  <2>1. Fits(s, 7) /\ Fits(u, 1)
    BY <1>2, <1>7, FitsOne
  <2>2. Fits(t, 60)
    <3>1. 60 \in Nat /\ t \in Bytes /\ Len(t) = 60
      BY <1>2, FilledBytes
    <3> HIDE DEF t
    <3> QED BY <3>1 DEF Fits
  <2> HIDE DEF s, t, u
  <2>3. 7 \in Nat /\ 60 \in Nat /\ 1 \in Nat /\ 7 + 60 \in Nat
    OBVIOUS
  <2>4. Fits(s \o t, 7 + 60)
    BY <2>1, <2>2, <2>3, FitsBoth
  <2>5. Fits((s \o t) \o u, (7 + 60) + 1)
    BY <2>1, <2>3, <2>4, FitsBoth
  <2>6. (7 + 60) + 1 \in Nat /\ 200 \in Nat /\ (7 + 60) + 1 <= 200
    OBVIOUS
  <2>7. Fits((s \o t) \o u, 200)
    BY <2>5, <2>6, FitsMore
  <2> QED BY <2>7 DEF s, t, u
<1>13. Fits(<<>>, 200)
  BY FitsNone, FitsMore
<1>14. /\ Fits(Filled(MAX_CONTENT, 98), 200) /\ Fits(Filled(MAX_CONTENT + 1, 98), 200)
       /\ Fits(Filled(199, 98), 200)
  <2>1. MAX_CONTENT \in 0..200 /\ MAX_CONTENT + 1 \in 0..200 /\ 199 \in 0..200
    BY DEF MAX_CONTENT
  <2> QED BY <1>6, <2>1, Zenon
<1> SUFFICES ASSUME NEW s \in Typed PROVE Fits(s, 200)
  OBVIOUS
<1>15. CASE \E k \in DOMAIN Words : s \in Words[k]
  BY <1>1, <1>15, Zenon
<1>16. CASE \E k \in DOMAIN Words : \E w \in Words[k] : s = Slash \o w
  BY <1>5, <1>16, Zenon
<1>17. CASE s \in Others
  <2> DEFINE c1 == <<>>  c2 == Slash  c3 == Slash \o Slash \o <<98, 97, 116>>
             c4 == <<66, 65, 84>>  c5 == <<98, 97>>  c6 == Slash \o <<72, 101, 76, 112>>
             c7 == <<66, 47, 84>>  c8 == <<98, 97, 116, 32, 98>>  c13 == <<98, 97, 116, 0, 98>>
             c9 == <<98, 97, 116>> \o Filled(60, 32) \o <<98>>
             c10 == Filled(MAX_CONTENT, 98)  c11 == Filled(MAX_CONTENT + 1, 98)
             c12 == Filled(199, 98)
  <2>1. /\ Fits(c1, 200) /\ Fits(c2, 200) /\ Fits(c3, 200) /\ Fits(c4, 200) /\ Fits(c5, 200)
        /\ Fits(c6, 200) /\ Fits(c7, 200) /\ Fits(c8, 200) /\ Fits(c9, 200) /\ Fits(c10, 200)
        /\ Fits(c11, 200) /\ Fits(c12, 200) /\ Fits(c13, 200)
    BY <1>3, <1>8, <1>9, <1>10, <1>11, <1>12, <1>13, <1>14
  <2>2. s \in {c1, c2, c3, c4, c5, c6, c7, c8, c13, c9, c10, c11, c12}
    BY <1>17 DEF Others
  <2> HIDE DEF c1, c2, c3, c4, c5, c6, c7, c8, c9, c10, c11, c12, c13
  <2> QED BY <2>1, <2>2
<1> QED BY <1>15, <1>16, <1>17 DEF Typed, Commands

LEMMA FieldsThere ==
    ASSUME NEW t, NEW n \in Nat, n < 256, Fits(t, n)
    PROVE  TelemetryFields(t) \in Bytes /\ FieldsOf(TelemetryFields(t)) = TelemetryFields(t)
<1> DEFINE m == MapHeader(1)  u == Uint(Small(2))  b == Bin(t)
<1>1. m \in Bytes /\ Len(m) = 1
  <2>1. MapHeader(1) = <<129>>
    BY DEF MapHeader
  <2>2. 129 \in Byte
    BY DEF Byte
  <2>3. <<129>> \in Bytes /\ Len(<<129>>) = 1
    BY <2>2, One
  <2> QED BY <2>1, <2>3
<1>2. u \in Bytes
  <2>1. Small(2) \in Number
    <3>1. 2 \in Byte
      BY DEF Byte
    <3> QED BY <3>1, SmallIs
  <2> QED BY <2>1, FitsUint DEF Fits
<1>3. b \in Bytes
  BY FitsText DEF Fits
<1>4. TelemetryFields(t) = (m \o u) \o b
  BY DEF TelemetryFields
<1> HIDE DEF m, u, b
<1>5. m \o u \in Bytes /\ Len(m \o u) = Len(m) + Len(u) /\ Len(u) \in Nat
  BY <1>1, <1>2, CatLen, Zenon
<1>6. (m \o u) \o b \in Bytes /\ Len((m \o u) \o b) = Len(m \o u) + Len(b) /\ Len(b) \in Nat
  BY <1>3, <1>5, CatLen, Zenon
<1>7. Len((m \o u) \o b) # 0
  BY <1>1, <1>5, <1>6
<1>8. (m \o u) \o b # <<>>
  BY <1>7, Empty, Zenon
<1> QED BY <1>4, <1>6, <1>8, Zenon DEF FieldsOf

LEMMA TopOfTop ==
    ASSUME NEW s \in Bytes, NEW l \in 0 .. Len(s), NEW k \in 0 .. l
    PROVE  SubSeq(SubSeq(s, 1, l), 1, k) = SubSeq(s, 1, k)
<1> DEFINE t == SubSeq(s, 1, l)
<1>1. Len(s) \in Nat
  BY LenNat
<1>2. t \in Bytes /\ Len(t) = l /\ \A i \in 1..l : t[i] = s[i]
  BY Top
<1> HIDE DEF t
<1>3. k \in 0 .. Len(t) /\ k \in 0 .. Len(s) /\ \A i \in 1..k : i \in 1..l
  BY <1>1, <1>2
<1> DEFINE a == SubSeq(t, 1, k)  b == SubSeq(s, 1, k)
<1>4. a \in Bytes /\ Len(a) = k /\ \A i \in 1..k : a[i] = t[i]
  BY <1>2, <1>3, Top
<1>5. b \in Bytes /\ Len(b) = k /\ \A i \in 1..k : b[i] = s[i]
  BY <1>3, Top
<1> HIDE DEF a, b
<1>6. \A i \in 1..k : a[i] = b[i]
  BY <1>2, <1>3, <1>4, <1>5
<1>7. a = b
  BY <1>4, <1>5, <1>6, Same
<1> QED BY <1>7 DEF a, b, t

LEMMA SentBytes ==
    ASSUME NEW n \in Nat, n < 256, NEW content, Fits(content, n), Sent(content, <<>>).ok
    PROVE  Sent(content, <<>>).val \in Bytes /\ Len(Sent(content, <<>>).val) >= 1
<1> DEFINE p == Payload(Now, content, <<>>)  h == (There \o Here) \o Signature
<1>1. p \in Bytes
  BY FitsPayload, FitsNoFields, EndsAre DEF Fits
<1>2. h \in Bytes /\ Len(h) >= 1
  <2>1. /\ There \in Bytes /\ Len(There) = 16 /\ Here \in Bytes /\ Signature \in Bytes
    BY EndsAre DEF Hash, SignatureBytes, HASH_LEN
  <2>2. There \o Here \in Bytes /\ Len(There \o Here) = Len(There) + Len(Here) /\ Len(Here) \in Nat
    BY <2>1, CatLen, Zenon
  <2>3. h \in Bytes /\ Len(h) = Len(There \o Here) + Len(Signature) /\ Len(Signature) \in Nat
    BY <2>1, <2>2, CatLen, Zenon
  <2> HIDE DEF h
  <2> QED BY <2>1, <2>2, <2>3
<1>3. Sent(content, <<>>) = IF Len(p) > MAX_OPPORTUNISTIC_PAYLOAD THEN Fail ELSE Read(h \o p, <<>>)
  BY Zenon DEF Sent, Pack
<1> HIDE DEF p, h
<1>4. Sent(content, <<>>).val = h \o p
  <2>1. ~Fail.ok /\ \A x, y : Read(x, y).val = x
    BY DEF Fail, Read
  <2> QED BY <1>3, <2>1, Zenon
<1>5. h \o p \in Bytes /\ Len(h \o p) = Len(h) + Len(p) /\ Len(h) \in Nat /\ Len(p) \in Nat
  BY <1>1, <1>2, CatLen, Zenon
<1>6. Len(h \o p) >= 1
  BY <1>2, <1>5
<1> QED BY <1>4, <1>5, <1>6, Zenon

LEMMA FilledNumber == ASSUME NEW b \in Byte PROVE Filled(8, b) \in Number
<1>1. 8 \in Nat
  OBVIOUS
<1>2. Filled(8, b) \in Bytes /\ Len(Filled(8, b)) = 8
  BY <1>1, FilledBytes
<1> QED BY <1>2, NumberOfBytes

LEMMA MeasuresAre ==
    /\ Uptimes \subseteq Number /\ Infos \subseteq Info /\ Filled(8, 64) \in Number
    /\ Position \in [1..3 -> Field]
<1>1. \A n \in Nat, b \in Byte : Filled(n, b) \in Bytes /\ Len(Filled(n, b)) = n
  BY FilledBytes
<1>2. /\ 0 \in Byte /\ 1 \in Byte /\ 127 \in Byte /\ 255 \in Byte /\ 64 \in Byte /\ 128 \in Byte
      /\ 117 \in Byte /\ 4 \in Nat
  BY DEF Byte
<1>3. Small(0) \in Number /\ Small(127) \in Number /\ Small(255) \in Number
  BY <1>2, SmallIs
<1>4. Filled(4, 0) \o Filled(4, 255) \in Number
  <2> DEFINE a == Filled(4, 0)  b == Filled(4, 255)
  <2>1. a \in Bytes /\ Len(a) = 4 /\ b \in Bytes /\ Len(b) = 4
    BY <1>1, <1>2
  <2> HIDE DEF a, b
  <2>2. a \o b \in Bytes /\ Len(a \o b) = Len(a) + Len(b)
    BY <2>1, CatLen, Zenon
  <2>3. Len(a \o b) = 8
    BY <2>1, <2>2
  <2>4. a \o b \in Number
    BY <2>2, <2>3, NumberOfBytes, Zenon
  <2> QED BY <2>4 DEF a, b
<1>5. Uptimes \subseteq Number
  BY <1>3, <1>4 DEF Uptimes
<1>6. ASSUME NEW n \in {0, 31, 32, 95} PROVE Filled(n, 117) \in Info
  <2>1. n \in Nat /\ n <= 95
    OBVIOUS
  <2>2. Filled(n, 117) \in Bytes /\ Len(Filled(n, 117)) = n
    BY <1>1, <1>2, <2>1
  <2> QED BY <2>1, <2>2 DEF Info
<1>7. Infos \subseteq Info
  BY <1>6 DEF Infos
<1>8. Filled(8, 64) \in Number
  BY <1>2, FilledNumber
<1>9. Filled(4, 255) \in Field /\ Filled(4, 128) \in Field /\ Filled(4, 1) \in Field
  BY <1>1, <1>2 DEF Field
<1>10. Position \in [1..3 -> Field]
  BY <1>9 DEF Position
<1> QED BY <1>5, <1>7, <1>8, <1>10

\* A message packed by one node is unpacked by another as what it was, in each of
\* the cases of the runs.
THEOREM CasesUnpack == PackedIsUnpacked
<1>1. <<>> \in Bytes /\ Fits(<<>>, 0)
  BY FitsNone DEF Fits
<1>2. ASSUME NEW content \in Bytes, NEW fields \in Bytes, Len(content) < Huge,
             Sent(content, fields).ok
      PROVE  ReadAsSent(Sent(content, fields).val, There, Here, Now, content, fields)
  BY <1>2, EndsAre, SentIsRead, Zenon DEF Sent
<1>3. \A n \in 0..320 : n < Huge
  BY DEF Huge
<1>4. ASSUME NEW front \in Pads, NEW core \in Typed, NEW back \in Pads, Bare(core),
             Sent(front \o core \o back, <<>>).ok
      PROVE  LET got == Unpack(Sent(front \o core \o back, <<>>).val)
             IN  /\ got.ok /\ got.val.dest = There /\ got.val.source = Here
                 /\ got.val.timestamp = Real(Now)
                 /\ got.val.content = Cut(core)
                 /\ \A k \in DOMAIN Words : Match(got.val.content) = k <=> Means(core, k)
  <2> DEFINE content == front \o core \o back
  <2>1. Fits(front, 60) /\ Fits(back, 60) /\ Fits(core, 200) /\ Blank(front) /\ Blank(back)
    BY EndsAre, TypedAre
  <2>2. Fits(content, (60 + 200) + 60)
    <3>1. 60 \in Nat /\ 200 \in Nat /\ 60 + 200 \in Nat
      OBVIOUS
    <3>2. Fits(front \o core, 60 + 200)
      BY <2>1, <3>1, FitsBoth
    <3> QED BY <2>1, <3>1, <3>2, FitsBoth
  <2>3. Len(content) \in 0..320
    <3> HIDE DEF content
    <3>1. content \in Bytes /\ Len(content) <= (60 + 200) + 60
      BY <2>2 DEF Fits
    <3>2. Len(content) \in Nat
      BY <3>1, LenNat
    <3>3. \A n \in Nat : n <= (60 + 200) + 60 => n \in 0..320
      OBVIOUS
    <3> QED BY <3>1, <3>2, <3>3, Zenon
  <2>4. front \in Bytes /\ core \in Bytes /\ back \in Bytes
    BY <2>1, Zenon DEF Fits
  <2>5. Len(content) < Huge
    BY <1>3, <2>3, Zenon
  <2>6. Pack(There, Here, Signature, Now, content, <<>>).ok
    BY <1>4, Zenon DEF Sent
  <2>7. Arrives(Unpack(Pack(There, Here, Signature, Now, content, <<>>).val), There, Here, Now, core)
    BY <1>4, <2>1, <2>4, <2>5, <2>6, EndsAre, CommandArrives, Zenon
  <2> QED BY <2>7, Zenon DEF Sent, Arrives
<1>5. Sent(Filled(MAX_REPLY, 98), <<>>).ok
  <2>1. MAX_REPLY \in Nat /\ 98 \in Byte
    BY DEF MAX_REPLY, Byte
  <2>2. Filled(MAX_REPLY, 98) \in Bytes /\ Len(Filled(MAX_REPLY, 98)) = MAX_REPLY
    BY <2>1, FilledBytes
  <2>3. Len(Filled(MAX_REPLY, 98)) <= MAX_REPLY
    BY <2>1, <2>2
  <2> QED BY <2>2, <2>3, EndsAre, RepliesFit, Zenon DEF Sent
<1>6. ASSUME NEW t \in Telemeters
      PROVE  LET packed == Sent(<<>>, TelemetryFields(t))
             IN  packed.ok /\ Unpack(packed.val).rest = TelemetryFields(t)
  <2> DEFINE fields == TelemetryFields(t)
  <2>1. PICK now \in Uptimes, info \in Infos, located \in BOOLEAN, powered \in BOOLEAN :
          t = Telemeter(now, located, Position, powered, Filled(8, 64), info)
    BY DEF Telemeters
  <2> DEFINE percent == Filled(8, 64)
  <2>2. now \in Number /\ percent \in Number /\ info \in Info
    BY MeasuresAre
  <2>3. Position \in [1..3 -> Field]
    BY MeasuresAre
  <2> HIDE DEF percent
  <2>4. t = Telemeter(now, located, Position, powered, percent, info)
    BY <2>1 DEF percent
  <2>5. Fits(t, 199) /\ 199 \in Nat /\ 199 < 256
    BY <2>2, <2>3, <2>4, TeleFits
  <2>6. fields \in Bytes /\ FieldsOf(fields) = fields
    BY <2>5, FieldsThere
  <2>7. Sent(<<>>, fields).ok
    BY <2>2, <2>3, <2>4, EndsAre, TelemetryFits, Zenon DEF Sent
  <2>8. Len(<<>>) \in 0..320
    BY Empty
  <2> HIDE DEF fields
  <2>9. ReadAsSent(Sent(<<>>, fields).val, There, Here, Now, <<>>, fields)
    BY <1>1, <1>2, <1>3, <2>6, <2>7, <2>8, Zenon
  <2>10. \A x, y : Read(x, y).rest = y
    BY DEF Read
  <2>11. Unpack(Sent(<<>>, fields).val).rest = fields
    BY <2>6, <2>9, <2>10, Zenon DEF ReadAsSent, Unpacked
  <2> QED BY <2>7, <2>11, Zenon DEF fields
<1>7. LET packed == Sent(<<98, 97, 116>>, <<>>).val
      IN  \A s \in CutShort(SubSeq(packed, 1, Len(packed) - 1)) : ~Unpack(s).ok
  <2> DEFINE bat == <<98, 97, 116>>  v == Sent(bat, <<>>).val  short == SubSeq(v, 1, Len(v) - 1)
  <2>1. bat \in Bytes /\ Len(bat) = 3 /\ 3 \in 0..320
    BY DEF Bytes, Byte
  <2> HIDE DEF bat
  <2>2. Sent(bat, <<>>).ok
    <3>1. Len(bat) <= MAX_REPLY
      BY <2>1 DEF MAX_REPLY
    <3> QED BY <2>1, <3>1, EndsAre, RepliesFit, Zenon DEF Sent
  <2>3. ReadAsSent(v, There, Here, Now, bat, <<>>)
    BY <1>1, <1>2, <1>3, <2>1, <2>2, Zenon
  <2>4. Len(FieldsOf(<<>>)) = 1
    <3>1. FieldsOf(<<>>) = <<128>>
      BY DEF FieldsOf, MapHeader
    <3> QED BY <3>1
  <2>5. v \in Bytes /\ Len(v) >= 1
    <3>1. Fits(bat, 3) /\ 3 \in Nat /\ 3 < 256
      BY <2>1 DEF Fits
    <3> QED BY <2>2, <3>1, SentBytes
  <2> HIDE DEF v
  <2>6. \A k \in Nat : k < Len(v) - 1 => ~Unpack(SubSeq(v, 1, k)).ok
    BY <2>3, <2>4 DEF ReadAsSent
  <2>7. ASSUME NEW s \in CutShort(short) PROVE ~Unpack(s).ok
    <3>1. PICK k \in 0 .. Len(short) - 1 : s = SubSeq(short, 1, k)
      BY CutsAre, Zenon
    <3>2. Len(v) \in Nat
      BY <2>5, LenNat
    <3> DEFINE l == Len(v) - 1
    <3>a. l \in 0 .. Len(v)
      BY <2>5, <3>2
    <3>3. Len(short) = Len(v) - 1
      <4> HIDE DEF l
      <4>1. Len(SubSeq(v, 1, l)) = l
        BY <2>5, <3>a, Top
      <4> QED BY <4>1 DEF l
    <3>4. k \in Nat /\ k < Len(v) - 1
      BY <3>2, <3>3
    <3>5. SubSeq(short, 1, k) = SubSeq(v, 1, k)
      <4> HIDE DEF l
      <4>1. k \in 0 .. l /\ k <= Len(v)
        BY <3>2, <3>3, <3>a DEF l
      <4>2. SubSeq(SubSeq(v, 1, l), 1, k) = SubSeq(v, 1, k)
        BY <2>5, <3>a, <4>1, TopOfTop
      <4> QED BY <4>2 DEF l
    <3> QED BY <2>6, <3>1, <3>4, <3>5
  <2> QED BY <2>7, Zenon DEF short, v, bat
<1> QED BY <1>4, <1>5, <1>6, <1>7, Zenon DEF PackedIsUnpacked
-----------------------------------------------------------------------------
(***************************************************************************)
(* Induction, for a set of natural numbers, and a function defined by it.  *)
(***************************************************************************)
LEMMA Inductive ==
    ASSUME NEW S, 0 \in S, \A n \in Nat : n \in S => n + 1 \in S
    PROVE  \A n \in Nat : n \in S
<1> DEFINE B == Nat \ S
<1> SUFFICES ASSUME B # {} PROVE FALSE
  OBVIOUS
<1>1. PICK R : R = OpToRel(<, Nat)
  OBVIOUS
<1>2. PICK n \in B : \A j \in B : <<j, n>> \notin R
  <2>1. IsWellFoundedOn(R, Nat)
    BY <1>1, NatLessThanWellFounded
  <2>2. B \in SUBSET Nat
    OBVIOUS
  <2> QED BY <2>1, <2>2, WFMin
<1>3. \A j \in B : ~(j < n)
  BY <1>1, <1>2 DEF OpToRel
<1>4. n \in Nat /\ n # 0 /\ n \notin S
  OBVIOUS
<1>5. n - 1 \in Nat /\ n - 1 < n /\ (n - 1) + 1 = n
  BY <1>4
<1>6. n - 1 \in S
  BY <1>3, <1>5
<1> QED BY <1>4, <1>5, <1>6

\* f is what is got from x by the steps F.
Steps(f, x, F, n) == f[0] = x /\ \A k \in 0 .. n - 1 : f[k + 1] = F[<<k, f[k]>>]

LEMMA StepsAgree ==
    ASSUME NEW x, NEW F, NEW f, NEW g, NEW m \in Nat, NEW n \in Nat, m <= n,
           Steps(f, x, F, m), Steps(g, x, F, n)
    PROVE  \A k \in 0 .. m : f[k] = g[k]
<1> DEFINE S == {k \in Nat : k <= m => f[k] = g[k]}
<1>1. 0 \in S
  BY DEF Steps
<1>2. ASSUME NEW k \in Nat, k \in S PROVE k + 1 \in S
  <2> SUFFICES ASSUME k + 1 <= m PROVE f[k + 1] = g[k + 1]
    OBVIOUS
  <2>1. k \in 0 .. m - 1 /\ k \in 0 .. n - 1 /\ k <= m
    OBVIOUS
  <2>2. f[k] = g[k]
    BY <1>2, <2>1
  <2>3. f[k + 1] = F[<<k, f[k]>>] /\ g[k + 1] = F[<<k, g[k]>>]
    BY <2>1 DEF Steps
  <2> QED BY <2>2, <2>3
<1> HIDE DEF S
<1>3. \A k \in Nat : k \in S
  BY <1>1, <1>2, Inductive
<1> QED BY <1>3 DEF S

StepOn(F, V) == F \in [Nat \X V -> V]
Iterates(f, V, x, F) ==
    f \in [Nat -> V] /\ f[0] = x /\ \A k \in Nat : f[k + 1] = F[<<k, f[k]>>]

LEMMA Iterated ==
    ASSUME NEW V, NEW x \in V, NEW F, StepOn(F, V)
    PROVE  \E f : Iterates(f, V, x, F)
<1>0. F \in [Nat \X V -> V]
  BY DEF StepOn
<1> DEFINE P(n) == \E f \in [0..n -> V] : Steps(f, x, F, n)
           S == {n \in Nat : P(n)}
<1>1. 0 \in S
  <2> DEFINE f == [k \in 0..0 |-> x]
  <2>1. f \in [0..0 -> V] /\ Steps(f, x, F, 0)
    BY DEF Steps
  <2> QED BY <2>1
<1>2. ASSUME NEW n \in Nat, n \in S PROVE n + 1 \in S
  <2>1. PICK f \in [0..n -> V] : Steps(f, x, F, n)
    BY <1>2
  <2> DEFINE g == [k \in 0 .. n + 1 |-> IF k <= n THEN f[k] ELSE F[<<n, f[n]>>]]
  <2>2. f[n] \in V /\ F[<<n, f[n]>>] \in V
    <3>1. f[n] \in V
      OBVIOUS
    <3>2. <<n, f[n]>> \in Nat \X V
      BY <3>1
    <3> QED BY <1>0, <3>1, <3>2
  <2>3. g \in [0 .. n + 1 -> V]
    BY <2>2
  <2>4. Steps(g, x, F, n + 1)
    <3>1. g[0] = x
      BY <2>1 DEF Steps
    <3>2. ASSUME NEW k \in 0 .. (n + 1) - 1 PROVE g[k + 1] = F[<<k, g[k]>>]
      <4>1. g[k] = f[k] /\ k \in 0 .. n
        OBVIOUS
      <4>2. CASE k = n
        <5>1. n + 1 \in 0 .. n + 1 /\ ~(n + 1 <= n)
          OBVIOUS
        <5>2. g[n + 1] = F[<<n, f[n]>>]
          BY <5>1
        <5> QED BY <4>1, <4>2, <5>2
      <4>3. CASE k # n
        <5>1. k \in 0 .. n - 1 /\ k + 1 \in 0 .. n /\ k + 1 <= n
          BY <4>3
        <5>2. g[k + 1] = f[k + 1]
          BY <5>1
        <5> QED BY <2>1, <4>1, <5>1, <5>2 DEF Steps
      <4> QED BY <4>2, <4>3
    <3> HIDE DEF g
    <3> QED BY <3>1, <3>2 DEF Steps
  <2> HIDE DEF g
  <2> QED BY <2>3, <2>4
<1> HIDE DEF S
<1>3. \A n \in Nat : n \in S
  BY <1>1, <1>2, Inductive
<1>4. \A n \in Nat : P(n)
  BY <1>3 DEF S
<1> DEFINE h == [n \in Nat |-> CHOOSE f \in [0..n -> V] : Steps(f, x, F, n)]
           g == [n \in Nat |-> h[n][n]]
<1>5. \A n \in Nat : h[n] \in [0..n -> V] /\ Steps(h[n], x, F, n)
  BY <1>4
<1> HIDE DEF h
<1>6. g \in [Nat -> V]
  BY <1>5
<1>7. g[0] = x
  BY <1>5 DEF Steps
<1>8. ASSUME NEW k \in Nat PROVE g[k + 1] = F[<<k, g[k]>>]
  <2>1. Steps(h[k], x, F, k) /\ Steps(h[k + 1], x, F, k + 1) /\ k <= k + 1 /\ k + 1 \in Nat
    BY <1>5
  <2>2. h[k][k] = h[k + 1][k]
    <3>1. \A i \in 0 .. k : h[k][i] = h[k + 1][i]
      BY <2>1, StepsAgree
    <3> QED BY <3>1
  <2>3. h[k + 1][k + 1] = F[<<k, h[k + 1][k]>>]
    BY <2>1 DEF Steps
  <2> QED BY <2>2, <2>3
<1> HIDE DEF g
<1> QED BY <1>6, <1>7, <1>8 DEF Iterates
-----------------------------------------------------------------------------
(***************************************************************************)
(* skip(): what it makes of any bytes.                                     *)
(***************************************************************************)
Results == {Fail} \cup {Read(<<>>, r) : r \in Bytes}

LEMMA ResultIs ==
    /\ Fail \in Results /\ ~Fail.ok
    /\ \A r \in Bytes : /\ Read(<<>>, r) \in Results /\ Read(<<>>, r).ok
                        /\ Read(<<>>, r).rest = r /\ Read(<<>>, r) # Fail
    /\ \A x \in Results : /\ x.ok \in BOOLEAN
                          /\ ~x.ok => x = Fail
                          /\ x.ok => x.rest \in Bytes /\ x = Read(<<>>, x.rest)
<1>1. /\ Fail.ok = FALSE
      /\ \A r : Read(<<>>, r).ok = TRUE /\ Read(<<>>, r).rest = r
  BY DEF Fail, Read
<1>2. \A r \in Bytes : Read(<<>>, r) \in Results /\ Read(<<>>, r) # Fail
  BY <1>1, Zenon DEF Results
<1>3. ASSUME NEW x \in Results
      PROVE  x.ok \in BOOLEAN /\ (~x.ok => x = Fail)
             /\ (x.ok => x.rest \in Bytes /\ x = Read(<<>>, x.rest))
  <2>1. CASE x = Fail
    BY <1>1, <2>1
  <2>2. ASSUME NEW r \in Bytes, x = Read(<<>>, r)
        PROVE  x.ok = TRUE /\ x.rest = r
    BY <1>1, <2>2
  <2>3. ASSUME NEW r \in Bytes, x = Read(<<>>, r)
        PROVE  x.ok = TRUE /\ x.rest \in Bytes /\ x = Read(<<>>, x.rest)
    BY <2>2, <2>3, Zenon
  <2>4. x = Fail \/ \E r \in Bytes : x = Read(<<>>, r)
    BY Zenon DEF Results
  <2> QED BY <2>1, <2>3, <2>4
<1>4. Fail \in Results
  BY Zenon DEF Results
<1> QED BY <1>1, <1>2, <1>3, <1>4

\* One pass of the loop more.
Onward(f, x) == IF x.ok THEN f[x.rest] ELSE Fail

LEMMA OnwardResult ==
    ASSUME NEW f \in [Bytes -> Results], NEW x \in Results
    PROVE  Onward(f, x) \in Results
BY ResultIs DEF Onward

LEMMA ManySteps ==
    ASSUME NEW f \in [Bytes -> Results], NEW s \in Bytes
    PROVE  /\ SkipMany(f, s, 0) = Read(<<>>, s)
           /\ \A n \in Nat : SkipMany(f, s, n) \in Results
           /\ \A n \in Nat : SkipMany(f, s, n + 1) = Onward(f, SkipMany(f, s, n))
<1> DEFINE Loop(g) == [k \in Nat |-> IF k = 0 THEN Read(<<>>, s) ELSE Onward(f, g[k - 1])]
           a == CHOOSE g : g = Loop(g)
           F == [p \in Nat \X Results |-> Onward(f, p[2])]
<1>1. StepOn(F, Results)
  BY OnwardResult DEF StepOn
<1>2. PICK g : Iterates(g, Results, Read(<<>>, s), F)
  BY <1>1, ResultIs, Iterated, Zenon
<1>0. g \in [Nat -> Results] /\ g[0] = Read(<<>>, s) /\ \A k \in Nat : g[k + 1] = F[<<k, g[k]>>]
  BY <1>2 DEF Iterates
<1>3. \A k \in Nat : g[k + 1] = Onward(f, g[k])
  <2> SUFFICES ASSUME NEW k \in Nat PROVE g[k + 1] = Onward(f, g[k])
    OBVIOUS
  <2>1. <<k, g[k]>> \in Nat \X Results
    BY <1>0
  <2> QED BY <1>0, <2>1
<1>4. g = Loop(g)
  <2>1. \A k \in Nat : g[k] = IF k = 0 THEN Read(<<>>, s) ELSE Onward(f, g[k - 1])
    <3> SUFFICES ASSUME NEW k \in Nat, k # 0 PROVE g[k] = Onward(f, g[k - 1])
      BY <1>0
    <3>1. k - 1 \in Nat /\ (k - 1) + 1 = k
      OBVIOUS
    <3> QED BY <1>3, <3>1
  <2> QED BY <1>0, <2>1
<1>5. a = Loop(a)
  BY <1>4
<1>6. \A n \in Nat : SkipMany(f, s, n) = a[n]
  BY DEF SkipMany, Then, Onward
<1> HIDE DEF a
<1>7. a[0] = Read(<<>>, s) /\ \A k \in Nat : a[k + 1] = Onward(f, a[k])
  <2>1. ASSUME NEW k \in Nat PROVE a[k] = IF k = 0 THEN Read(<<>>, s) ELSE Onward(f, a[k - 1])
    BY <1>5
  <2>2. ASSUME NEW k \in Nat PROVE a[k + 1] = Onward(f, a[k])
    <3>1. k + 1 \in Nat /\ k + 1 # 0 /\ (k + 1) - 1 = k
      OBVIOUS
    <3> QED BY <2>1, <3>1
  <2> QED BY <2>1, <2>2
<1> DEFINE S == {n \in Nat : a[n] \in Results}
<1>8. 0 \in S
  BY <1>7, ResultIs
<1>9. ASSUME NEW n \in Nat, n \in S PROVE n + 1 \in S
  <2>1. a[n] \in Results
    BY <1>9
  <2>2. a[n + 1] = Onward(f, a[n]) /\ n + 1 \in Nat
    BY <1>7
  <2>3. a[n + 1] \in Results
    BY <2>1, <2>2, OnwardResult
  <2> QED BY <2>2, <2>3
<1> HIDE DEF S
<1>10. \A n \in Nat : n \in S
  BY <1>8, <1>9, Inductive
<1>11. \A n \in Nat : a[n] \in Results
  BY <1>10 DEF S
<1>12. 0 \in Nat /\ \A n \in Nat : n + 1 \in Nat
  OBVIOUS
<1> QED BY <1>6, <1>7, <1>11, <1>12
LEMMA Split ==
    ASSUME NEW s \in Bytes, NEW n \in 0 .. Len(s)
    PROVE  /\ SubSeq(s, 1, n) \in Bytes /\ Len(SubSeq(s, 1, n)) = n
           /\ SubSeq(s, n + 1, Len(s)) \in Bytes
           /\ s = SubSeq(s, 1, n) \o SubSeq(s, n + 1, Len(s))
<1>1. Len(s) \in Nat
  BY LenNat
<1>2. SubSeq(s, 1, n) \in Bytes /\ Len(SubSeq(s, 1, n)) = n
  BY Top
<1>3. SubSeq(s, n + 1, Len(s)) \in Bytes
  <2> DEFINE m == n + 1  l == Len(s)
  <2>1. m \in 1 .. Len(s) + 1 /\ l \in m - 1 .. Len(s)
    BY <1>1
  <2> HIDE DEF m, l
  <2> QED BY <2>1, Sub DEF m, l
<1>4. s = SubSeq(s, 1, n) \o SubSeq(s, n + 1, Len(s))
  <2>1. s \in Seq(Byte) /\ 1 \in 1 .. Len(s) + 1 /\ n \in 1 - 1 .. Len(s) /\ Len(s) \in n .. Len(s)
    BY <1>1 DEF Bytes
  <2>2. SubSeq(s, 1, n) \o SubSeq(s, n + 1, Len(s)) = SubSeq(s, 1, Len(s))
    BY <2>1, ConcatAdjacentSubSeq
  <2> QED BY <2>2, SubAll
<1> QED BY <1>2, <1>3, <1>4

\* What take() makes of bytes: nothing, or the first n of them and the others.
LEMMA Takes ==
    ASSUME NEW s \in Bytes, NEW n \in Nat
    PROVE  \/ Take(s, n) = Fail /\ Pass(s, n) = Fail
           \/ \E v, r \in Bytes : /\ s = v \o r /\ Len(v) = n
                                  /\ Take(s, n) = Read(v, r) /\ Pass(s, n) = Read(<<>>, r)
<1>1. Len(s) \in Nat
  BY LenNat
<1>2. CASE Len(s) < n
  BY <1>2, Zenon DEF Take, Pass
<1>3. CASE ~(Len(s) < n)
  <2>1. n \in 0 .. Len(s)
    BY <1>1, <1>3
  <2> DEFINE v == SubSeq(s, 1, n)  r == SubSeq(s, n + 1, Len(s))
  <2>2. v \in Bytes /\ r \in Bytes /\ s = v \o r /\ Len(v) = n
    BY <2>1, Split
  <2>3. Take(s, n) = Read(v, r) /\ Pass(s, n) = Read(<<>>, r)
    BY <1>3, Zenon DEF Take, Pass
  <2> HIDE DEF v, r
  <2> QED BY <2>2, <2>3
<1> QED BY <1>2, <1>3

LEMMA PassAll ==
    ASSUME NEW v \in Bytes, NEW t \in Bytes
    PROVE  Pass(v \o t, Len(v)) = Read(<<>>, t)
<1>1. Len(v) \in Nat /\ Len(t) \in Nat /\ Len(v \o t) = Len(v) + Len(t)
  BY Cat
<1>2. ~(Len(v \o t) < Len(v))
  BY <1>1
<1>3. SubSeq(v \o t, Len(v) + 1, Len(v \o t)) = t
  BY <1>1, Rest
<1> QED BY <1>2, <1>3, Zenon DEF Pass

\* The tags of skip(): nothing behind them, so many bytes, a length and so many
\* bytes, so many elements, and a count and so many elements.
PlainTags == (0..127) \cup (224..255) \cup {192, 194, 195}
FixedTags == (160..191) \cup (202..216)
LengthTags == (196..201) \cup (217..219)
FewTags == 128..159
ManyTags == 220..223
Behind(c) == IF c <= 191 THEN c - 160
             ELSE IF c <= 211 THEN WidthOf(c) ELSE <<2, 3, 5, 9, 17>>[c - 211]
LengthWidth(c) == IF c \in 199..201 THEN LengthOf(c - 3) ELSE LengthOf(c)
LengthBehind(c, b) == IF c \in 199..201 THEN PlusOne(b) ELSE Value(b)
CountWidthOf(c) == IF c % 2 = 0 THEN 2 ELSE 4
CountBehind(c, b) == IF c >= 222 THEN Twice(b) ELSE Value(b)

TaggedLength(r, c) == IF r.ok THEN Pass(r.rest, LengthBehind(c, r.val)) ELSE Fail
TaggedCount(f, r, c) ==
    IF r.ok
    THEN IF CountBehind(c, r.val) > Len(r.rest) THEN Fail
         ELSE SkipMany(f, r.rest, CountBehind(c, r.val))
    ELSE Fail

LEMMA Tagged ==
    ASSUME NEW f, NEW c \in Byte, NEW s
    PROVE  /\ c \in PlainTags => SkipTagged(f, c, s) = Read(<<>>, s)
           /\ c \in FixedTags => SkipTagged(f, c, s) = Pass(s, Behind(c))
           /\ c \in LengthTags => SkipTagged(f, c, s) = TaggedLength(Take(s, LengthWidth(c)), c)
           /\ c \in FewTags => SkipTagged(f, c, s) = SkipMany(f, s, Elements(c))
           /\ c \in ManyTags => SkipTagged(f, c, s) = TaggedCount(f, Take(s, CountWidthOf(c)), c)
           /\ c = 193 => SkipTagged(f, c, s) = Fail
<1> DEFINE A == c <= 127 \/ c >= 224 \/ c \in {192, 194, 195}
           A2 == c \in 160..191  A3 == c \in 128..159  A4 == c \in 202..211  A5 == c \in 212..216
           A6 == c \in (196..198) \cup (217..219)  A7 == c \in 199..201  A8 == c \in 220..223
           l == Take(s, LengthOf(c))  e == Take(s, LengthOf(c - 3))  m == Take(s, CountWidthOf(c))
           L == IF l.ok THEN Pass(l.rest, Value(l.val)) ELSE Fail
           E == IF e.ok THEN Pass(e.rest, PlusOne(e.val)) ELSE Fail
           M == TaggedCount(f, m, c)
           B2 == Pass(s, c - 160)  B4 == Pass(s, WidthOf(c))
           B5 == Pass(s, <<2, 3, 5, 9, 17>>[c - 211])
           x == SkipTagged(f, c, s)
<1>1. x = CASE A -> Read(<<>>, s) [] A2 -> B2 [] A3 -> SkipMany(f, s, Elements(c)) [] A4 -> B4
            [] A5 -> B5 [] A6 -> L [] A7 -> E [] A8 -> M [] OTHER -> Fail
  BY Zenon DEF SkipTagged, Then, TaggedCount, CountBehind, CountWidthOf
<1>2. c \in 0..255
  BY DEF Byte
<1>3. /\ A => ~A2 /\ ~A3 /\ ~A4 /\ ~A5 /\ ~A6 /\ ~A7 /\ ~A8
      /\ A2 => ~A3 /\ ~A4 /\ ~A5 /\ ~A6 /\ ~A7 /\ ~A8
      /\ A3 => ~A4 /\ ~A5 /\ ~A6 /\ ~A7 /\ ~A8
      /\ A4 => ~A5 /\ ~A6 /\ ~A7 /\ ~A8
      /\ A5 => ~A6 /\ ~A7 /\ ~A8
      /\ A6 => ~A7 /\ ~A8
      /\ A7 => ~A8
  BY <1>2
<1>4. /\ A <=> c \in PlainTags
      /\ A3 <=> c \in FewTags
      /\ A8 <=> c \in ManyTags
      /\ c = 193 => ~A /\ ~A2 /\ ~A3 /\ ~A4 /\ ~A5 /\ ~A6 /\ ~A7 /\ ~A8
      /\ c \in FixedTags => A2 \/ A4 \/ A5
      /\ c \in LengthTags => A6 \/ A7
  BY <1>2 DEF PlainTags, FewTags, ManyTags, FixedTags, LengthTags
<1>5. /\ A2 => Behind(c) = c - 160
      /\ A4 => Behind(c) = WidthOf(c)
      /\ A5 => Behind(c) = <<2, 3, 5, 9, 17>>[c - 211]
  BY <1>2 DEF Behind
<1>6. /\ A6 => LengthWidth(c) = LengthOf(c) /\ \A b : LengthBehind(c, b) = Value(b)
      /\ A7 => LengthWidth(c) = LengthOf(c - 3) /\ \A b : LengthBehind(c, b) = PlusOne(b)
  BY <1>2 DEF LengthWidth, LengthBehind
<1>7. /\ A6 => L = TaggedLength(Take(s, LengthWidth(c)), c)
      /\ A7 => E = TaggedLength(Take(s, LengthWidth(c)), c)
      /\ A2 => B2 = Pass(s, Behind(c))
      /\ A4 => B4 = Pass(s, Behind(c))
      /\ A5 => B5 = Pass(s, Behind(c))
  <2>1. ASSUME A6 PROVE L = TaggedLength(Take(s, LengthWidth(c)), c)
    <3>1. LengthWidth(c) = LengthOf(c) /\ \A b : LengthBehind(c, b) = Value(b)
      BY <1>6, <2>1
    <3> HIDE DEF A6
    <3> QED BY <3>1, Zenon DEF TaggedLength
  <2>2. ASSUME A7 PROVE E = TaggedLength(Take(s, LengthWidth(c)), c)
    <3>1. LengthWidth(c) = LengthOf(c - 3) /\ \A b : LengthBehind(c, b) = PlusOne(b)
      BY <1>6, <2>2
    <3> HIDE DEF A7
    <3> QED BY <3>1, Zenon DEF TaggedLength
  <2>3. (A2 => B2 = Pass(s, Behind(c))) /\ (A4 => B4 = Pass(s, Behind(c)))
        /\ (A5 => B5 = Pass(s, Behind(c)))
    <3> HIDE DEF A2, A4, A5
    <3> QED BY <1>5
  <2> HIDE DEF A2, A4, A5, A6, A7, L, E, B2, B4, B5
  <2> QED BY <2>1, <2>2, <2>3
<1> HIDE DEF A, A2, A3, A4, A5, A6, A7, A8, L, E, M, B2, B4, B5
<1>8. /\ A => x = Read(<<>>, s)
      /\ A2 => x = B2
      /\ A3 => x = SkipMany(f, s, Elements(c))
      /\ A4 => x = B4
      /\ A5 => x = B5
      /\ A6 => x = L
      /\ A7 => x = E
      /\ A8 => x = M
      /\ ~A /\ ~A2 /\ ~A3 /\ ~A4 /\ ~A5 /\ ~A6 /\ ~A7 /\ ~A8 => x = Fail
  <2> HIDE DEF x
  <2> QED BY <1>1, <1>3
<1>9. c \in FixedTags => x = Pass(s, Behind(c))
  BY <1>4, <1>7, <1>8
<1>10. c \in LengthTags => x = TaggedLength(Take(s, LengthWidth(c)), c)
  BY <1>4, <1>7, <1>8
<1>11. /\ c \in PlainTags => x = Read(<<>>, s)
       /\ c \in FewTags => x = SkipMany(f, s, Elements(c))
       /\ c \in ManyTags => x = M
       /\ c = 193 => x = Fail
  <2> HIDE DEF x, M
  <2> QED BY <1>4, <1>8
<1> QED BY <1>9, <1>10, <1>11, Zenon DEF M
LEMMA BytesOf ==
    ASSUME NEW b \in Bytes, NEW n \in Nat, Len(b) = n
    PROVE  \A i \in 1..n : b[i] \in 0..255
<1> SUFFICES ASSUME NEW i \in 1..n PROVE b[i] \in 0..255
  OBVIOUS
<1>1. i \in 1 .. Len(b)
  OBVIOUS
<1> QED BY <1>1, Element

LEMMA ValueNat == ASSUME NEW b \in Bytes, Len(b) \in {1, 2, 4} PROVE Value(b) \in Nat
<1>1. Huge \in Nat
  BY DEF Huge
<1>2. CASE Len(b) = 1
  <2>1. \A i \in 1..1 : b[i] \in 0..255
    BY <1>2, BytesOf
  <2> QED BY <1>2, <2>1 DEF Value
<1>3. CASE Len(b) = 2
  <2>1. \A i \in 1..2 : b[i] \in 0..255
    BY <1>3, BytesOf
  <2>2. PICK i \in 0..255, j \in 0..255 : i = b[1] /\ j = b[2]
    <3>1. 1 \in 1..2 /\ 2 \in 1..2
      OBVIOUS
    <3> QED BY <2>1, <3>1, Zenon
  <2>3. Value(b) = 256 * b[1] + b[2]
    BY <1>3 DEF Value
  <2> QED BY <2>2, <2>3
<1>4. CASE Len(b) = 4
  <2>1. \A i \in 1..4 : b[i] \in 0..255
    BY <1>4, BytesOf
  <2>2. PICK i \in 0..255, j \in 0..255, k \in 0..255, l \in 0..255 :
           i = b[1] /\ j = b[2] /\ k = b[3] /\ l = b[4]
    <3>1. 1 \in 1..4 /\ 2 \in 1..4 /\ 3 \in 1..4 /\ 4 \in 1..4
      OBVIOUS
    <3> QED BY <2>1, <3>1, Zenon
  <2>3. Value(b) = IF i >= 32 THEN Huge ELSE 256 * (256 * (256 * i + j) + k) + l
    BY <1>4, <2>2 DEF Value
  <2> QED BY <1>1, <2>3
<1> QED BY <1>2, <1>3, <1>4

LEMMA TwiceNat == ASSUME NEW b \in Bytes, Len(b) \in {2, 4} PROVE Twice(b) \in Nat
<1>1. CASE Len(b) = 2
  BY <1>1, ValueNat DEF Twice
<1>2. CASE Len(b) = 4
  <2> DEFINE a == [b EXCEPT ![1] = @ % 128]
  <2>1. 1 \in 1 .. Len(b) /\ b[1] \in 0..255
    <3>1. \A i \in 1..4 : b[i] \in 0..255
      BY <1>2, BytesOf
    <3> QED BY <1>2, <3>1
  <2>2. b[1] % 128 \in Byte
    <3>1. \A i \in 0..255 : i % 128 \in 0..255
      OBVIOUS
    <3> QED BY <2>1, <3>1, Zenon DEF Byte
  <2>3. a \in Bytes /\ Len(a) = 4
    BY <1>2, <2>1, <2>2, ExceptSeq DEF Bytes
  <2>4. Twice(b) = 2 * Value(a)
    BY <1>2 DEF Twice
  <2> HIDE DEF a
  <2> QED BY <2>3, <2>4, ValueNat
<1> QED BY <1>1, <1>2

LEMMA CountsNat ==
    ASSUME NEW c \in Byte, NEW b \in Bytes
    PROVE  /\ LengthWidth(c) \in {1, 2, 4} /\ CountWidthOf(c) \in {2, 4}
           /\ Len(b) = LengthWidth(c) => LengthBehind(c, b) \in Nat
           /\ Len(b) = CountWidthOf(c) => CountBehind(c, b) \in Nat
           /\ c \in FixedTags => Behind(c) \in Nat
           /\ Elements(c) \in Nat
<1>1. LengthWidth(c) \in {1, 2, 4} /\ CountWidthOf(c) \in {2, 4}
  BY DEF LengthWidth, CountWidthOf, LengthOf
<1>2. ASSUME Len(b) = LengthWidth(c) PROVE LengthBehind(c, b) \in Nat
  <2>1. Value(b) \in Nat
    BY <1>1, <1>2, ValueNat
  <2> QED BY <2>1 DEF LengthBehind, PlusOne
<1>3. ASSUME Len(b) = CountWidthOf(c) PROVE CountBehind(c, b) \in Nat
  BY <1>1, <1>3, ValueNat, TwiceNat DEF CountBehind
<1>4. ASSUME c \in FixedTags PROVE Behind(c) \in Nat
  <2>1. c \in 160..191 \/ c \in 202..211 \/ c \in 212..216
    BY <1>4 DEF FixedTags
  <2>2. CASE c \in 160..191
    BY <2>2 DEF Behind
  <2>3. CASE c \in 202..211
    <3>1. WidthOf(c) \in {1, 2, 4, 8}
      BY <2>3 DEF WidthOf
    <3> QED BY <2>3, <3>1 DEF Behind
  <2>4. CASE c \in 212..216
    <3>1. c - 211 \in 1..5
      BY <2>4
    <3>2. \A i \in 1..5 : <<2, 3, 5, 9, 17>>[i] \in Nat
      OBVIOUS
    <3> QED BY <2>4, <3>1, <3>2 DEF Behind
  <2> QED BY <2>1, <2>2, <2>3, <2>4
<1>5. Elements(c) \in Nat
  <2>1. c % 16 \in Nat
    BY DEF Byte
  <2> QED BY <2>1 DEF Elements
<1> QED BY <1>1, <1>2, <1>3, <1>4, <1>5

\* f passes over the bytes v, or over n values that are v, whatever follows.
Passes(f, v) == \A t \in Bytes : f[v \o t] = Read(<<>>, t)
ManyPassed(f, v, n) == \A t \in Bytes : SkipMany(f, v \o t, n) = Read(<<>>, t)
TagPasses(f, c, v) == \A t \in Bytes : SkipTagged(f, c, v \o t) = Read(<<>>, t)

\* f refuses its bytes or passes over the first of them, and looks at no others.
Local(f) ==
    /\ f \in [Bytes -> Results]
    /\ \A s \in Bytes : \/ f[s] = Fail
                        \/ \E v, r \in Bytes : s = v \o r /\ Len(v) >= 1 /\ Passes(f, v)

LEMMA ManyNone == ASSUME NEW f \in [Bytes -> Results] PROVE ManyPassed(f, <<>>, 0)
BY ManySteps, Empty DEF ManyPassed

LEMMA ManyMore ==
    ASSUME NEW f \in [Bytes -> Results], NEW v \in Bytes, NEW w \in Bytes, NEW n \in Nat,
           ManyPassed(f, v, n), Passes(f, w)
    PROVE  ManyPassed(f, v \o w, n + 1)
<1> SUFFICES ASSUME NEW t \in Bytes PROVE SkipMany(f, (v \o w) \o t, n + 1) = Read(<<>>, t)
  BY DEF ManyPassed
<1> DEFINE s == (v \o w) \o t
<1>1. s = v \o (w \o t) /\ w \o t \in Bytes /\ s \in Bytes
  <2>1. w \o t \in Bytes
    BY CatLen
  <2>2. v \o (w \o t) \in Bytes
    BY <2>1, CatLen
  <2>3. s = v \o (w \o t)
    BY Assoc
  <2> QED BY <2>1, <2>2, <2>3
<1>2. SkipMany(f, s, n) = Read(<<>>, w \o t)
  BY <1>1 DEF ManyPassed
<1> HIDE DEF s
<1>3. SkipMany(f, s, n + 1) = Onward(f, SkipMany(f, s, n))
  BY <1>1, ManySteps
<1>4. SkipMany(f, s, n + 1) = f[w \o t]
  BY <1>1, <1>2, <1>3, ResultIs DEF Onward
<1> QED BY <1>4 DEF Passes, s

LEMMA ManyLocal ==
    ASSUME NEW f, Local(f), NEW s \in Bytes
    PROVE  \A n \in Nat : \/ SkipMany(f, s, n) = Fail
                          \/ \E v, r \in Bytes : s = v \o r /\ Len(v) >= n /\ ManyPassed(f, v, n)
<1> DEFINE Done(n) == \E v, r \in Bytes : s = v \o r /\ Len(v) >= n /\ ManyPassed(f, v, n)
           S == {n \in Nat : SkipMany(f, s, n) = Fail \/ Done(n)}
<1>1. f \in [Bytes -> Results]
  BY DEF Local
<1>2. 0 \in S
  <2>1. <<>> \in Bytes /\ s = <<>> \o s /\ Len(<<>>) >= 0 /\ ManyPassed(f, <<>>, 0)
    BY <1>1, Empty, ManyNone
  <2> QED BY <2>1
<1>3. ASSUME NEW n \in Nat, n \in S PROVE n + 1 \in S
  <2>1. SkipMany(f, s, n + 1) = Onward(f, SkipMany(f, s, n))
    BY <1>1, ManySteps
  <2>2. CASE SkipMany(f, s, n) = Fail
    BY <2>1, <2>2, ResultIs DEF Onward
  <2>3. CASE Done(n)
    <3>1. PICK v \in Bytes, r \in Bytes : s = v \o r /\ Len(v) >= n /\ ManyPassed(f, v, n)
      BY <2>3
    <3>2. SkipMany(f, s, n) = Read(<<>>, r)
      BY <3>1 DEF ManyPassed
    <3>3. SkipMany(f, s, n + 1) = f[r]
      BY <2>1, <3>2, ResultIs DEF Onward
    <3>4. CASE f[r] = Fail
      BY <3>3, <3>4
    <3>5. ASSUME NEW w \in Bytes, NEW q \in Bytes, r = w \o q, Len(w) >= 1, Passes(f, w)
          PROVE  Done(n + 1)
      <4>1. ManyPassed(f, v \o w, n + 1)
        BY <1>1, <3>1, <3>5, ManyMore
      <4>2. /\ s = (v \o w) \o q /\ v \o w \in Bytes /\ Len(v \o w) >= n + 1
        <5>1. v \o w \in Bytes /\ Len(v \o w) = Len(v) + Len(w) /\ Len(v) \in Nat /\ Len(w) \in Nat
          BY CatLen
        <5>2. (v \o w) \o q = v \o (w \o q)
          BY Assoc
        <5>3. s = (v \o w) \o q
          BY <3>1, <3>5, <5>2
        <5> QED BY <3>1, <3>5, <5>1, <5>3
      <4> QED BY <4>1, <4>2
    <3>6. f[r] = Fail \/ \E w, q \in Bytes : r = w \o q /\ Len(w) >= 1 /\ Passes(f, w)
      BY DEF Local
    <3> HIDE DEF Done
    <3>7. SkipMany(f, s, n + 1) = Fail \/ Done(n + 1)
      BY <3>4, <3>3, <3>5, <3>6
    <3> QED BY <3>7
  <2> HIDE DEF Done
  <2> QED BY <1>3, <2>2, <2>3
<1> HIDE DEF S, Done
<1>4. \A n \in Nat : n \in S
  BY <1>2, <1>3, Inductive
<1> QED BY <1>4 DEF S, Done
\* What each kind of tag wants behind it.
LEMMA TagPlain == ASSUME NEW f, NEW c \in PlainTags, c \in Byte PROVE TagPasses(f, c, <<>>)
BY Tagged, Empty DEF TagPasses

LEMMA TagFixed ==
    ASSUME NEW f, NEW c \in FixedTags, c \in Byte, NEW v \in Bytes, Len(v) = Behind(c)
    PROVE  TagPasses(f, c, v)
<1>1. \A t \in Bytes : v \o t \in Bytes
  BY CatLen
<1> QED BY <1>1, Tagged, PassAll DEF TagPasses

LEMMA TagLength ==
    ASSUME NEW f, NEW c \in LengthTags, c \in Byte, NEW b \in Bytes, NEW u \in Bytes,
           Len(b) = LengthWidth(c), Len(u) = LengthBehind(c, b)
    PROVE  TagPasses(f, c, b \o u)
<1> SUFFICES ASSUME NEW t \in Bytes PROVE SkipTagged(f, c, (b \o u) \o t) = Read(<<>>, t)
  BY DEF TagPasses
<1>1. (b \o u) \o t = b \o (u \o t) /\ u \o t \in Bytes
  <2>1. u \o t \in Bytes
    BY CatLen
  <2>2. (b \o u) \o t = b \o (u \o t)
    BY Assoc
  <2> QED BY <2>1, <2>2
<1>2. Take(b \o (u \o t), LengthWidth(c)) = Read(b, u \o t)
  BY <1>1, TakeAll
<1>3. Read(b, u \o t).ok /\ Read(b, u \o t).val = b /\ Read(b, u \o t).rest = u \o t
  BY DEF Read
<1>4. SkipTagged(f, c, b \o (u \o t)) = TaggedLength(Take(b \o (u \o t), LengthWidth(c)), c)
  BY Tagged
<1>5. TaggedLength(Read(b, u \o t), c) = Pass(u \o t, LengthBehind(c, b))
  BY <1>3, Zenon DEF TaggedLength
<1>6. Pass(u \o t, LengthBehind(c, b)) = Read(<<>>, t)
  BY PassAll
<1> QED BY <1>1, <1>2, <1>4, <1>5, <1>6

LEMMA TagFew ==
    ASSUME NEW f, NEW c \in FewTags, c \in Byte, NEW v \in Bytes, ManyPassed(f, v, Elements(c))
    PROVE  TagPasses(f, c, v)
BY Tagged DEF ManyPassed, TagPasses

LEMMA TagMany ==
    ASSUME NEW f, NEW c \in ManyTags, c \in Byte, NEW b \in Bytes, NEW u \in Bytes,
           Len(b) = CountWidthOf(c), Len(u) >= CountBehind(c, b),
           ManyPassed(f, u, CountBehind(c, b))
    PROVE  TagPasses(f, c, b \o u)
<1> SUFFICES ASSUME NEW t \in Bytes PROVE SkipTagged(f, c, (b \o u) \o t) = Read(<<>>, t)
  BY DEF TagPasses
<1>0. CountBehind(c, b) \in Nat
  BY CountsNat
<1>1. (b \o u) \o t = b \o (u \o t) /\ u \o t \in Bytes
  <2>1. u \o t \in Bytes
    BY CatLen
  <2>2. (b \o u) \o t = b \o (u \o t)
    BY Assoc
  <2> QED BY <2>1, <2>2
<1>2. Take(b \o (u \o t), CountWidthOf(c)) = Read(b, u \o t)
  BY <1>1, TakeAll
<1>3. Read(b, u \o t).ok /\ Read(b, u \o t).val = b /\ Read(b, u \o t).rest = u \o t
  BY DEF Read
<1>4. SkipTagged(f, c, b \o (u \o t)) = TaggedCount(f, Take(b \o (u \o t), CountWidthOf(c)), c)
  BY Tagged
<1>5. ~(CountBehind(c, b) > Len(u \o t))
  <2>1. Len(u \o t) = Len(u) + Len(t) /\ Len(u) \in Nat /\ Len(t) \in Nat
    BY CatLen
  <2> QED BY <1>0, <2>1
<1>6. TaggedCount(f, Read(b, u \o t), c) = SkipMany(f, u \o t, CountBehind(c, b))
  BY <1>3, <1>5, Zenon DEF TaggedCount
<1>7. SkipMany(f, u \o t, CountBehind(c, b)) = Read(<<>>, t)
  BY DEF ManyPassed
<1> QED BY <1>1, <1>2, <1>4, <1>6, <1>7

LEMMA TaggedLocal ==
    ASSUME NEW f, Local(f), NEW c \in Byte, NEW s \in Bytes
    PROVE  \/ SkipTagged(f, c, s) = Fail
           \/ \E v, r \in Bytes : s = v \o r /\ TagPasses(f, c, v)
<1> DEFINE Goal == \/ SkipTagged(f, c, s) = Fail
                   \/ \E v, r \in Bytes : s = v \o r /\ TagPasses(f, c, v)
<1>0. f \in [Bytes -> Results]
  BY DEF Local
<1>1. CASE c \in PlainTags
  <2>1. <<>> \in Bytes /\ s = <<>> \o s
    BY Empty
  <2> QED BY <1>1, <2>1, TagPlain
<1>2. CASE c \in FixedTags
  <2>1. Behind(c) \in Nat
    BY <1>2, CountsNat, Empty
  <2>2. \A t \in Bytes : SkipTagged(f, c, t) = Pass(t, Behind(c))
    BY <1>2, Tagged
  <2>3. CASE Pass(s, Behind(c)) = Fail
    BY <2>2, <2>3
  <2>4. ASSUME NEW v \in Bytes, NEW r \in Bytes, s = v \o r, Len(v) = Behind(c) PROVE Goal
    <3>1. TagPasses(f, c, v)
      BY <1>2, <2>4, TagFixed
    <3> QED BY <2>4, <3>1
  <2> QED BY <2>1, <2>3, <2>4, Takes
<1>3. CASE c \in LengthTags
  <2> DEFINE w == LengthWidth(c)
  <2>1. w \in Nat /\ \A b \in Bytes : Len(b) = w => LengthBehind(c, b) \in Nat
    BY CountsNat, Empty
  <2>2. \A t \in Bytes : SkipTagged(f, c, t) = TaggedLength(Take(t, w), c)
    BY <1>3, Tagged
  <2> HIDE DEF w
  <2>3. ASSUME Take(s, w) = Fail PROVE Goal
    BY <2>2, <2>3, ResultIs DEF TaggedLength
  <2>4. ASSUME NEW b \in Bytes, NEW q \in Bytes, s = b \o q, Len(b) = w, Take(s, w) = Read(b, q)
        PROVE  Goal
    <3> DEFINE n == LengthBehind(c, b)
    <3>1. n \in Nat
      BY <2>1, <2>4
    <3>2. SkipTagged(f, c, s) = Pass(q, n)
      <4>1. Read(b, q).ok /\ Read(b, q).val = b /\ Read(b, q).rest = q
        BY DEF Read
      <4> QED BY <2>2, <2>4, <4>1, Zenon DEF TaggedLength
    <3> HIDE DEF n
    <3>3. CASE Pass(q, n) = Fail
      BY <3>2, <3>3
    <3>4. ASSUME NEW u \in Bytes, NEW r \in Bytes, q = u \o r, Len(u) = n PROVE Goal
      <4>1. b \o u \in Bytes /\ s = (b \o u) \o r
        <5>1. b \o u \in Bytes
          BY CatLen
        <5>2. (b \o u) \o r = b \o (u \o r)
          BY Assoc
        <5> QED BY <2>4, <3>4, <5>1, <5>2
      <4>2. TagPasses(f, c, b \o u)
        BY <1>3, <2>4, <3>4, TagLength DEF n, w
      <4> QED BY <4>1, <4>2
    <3> HIDE DEF Goal
    <3> QED BY <3>1, <3>3, <3>4, Takes
  <2> HIDE DEF Goal
  <2>5. \/ Take(s, w) = Fail
        \/ \E b, q \in Bytes : s = b \o q /\ Len(b) = w /\ Take(s, w) = Read(b, q)
    BY <2>1, Takes, Zenon
  <2>6. Goal
    BY <2>3, <2>4, <2>5, Zenon
  <2> QED BY <2>6 DEF Goal
<1>4. CASE c \in FewTags
  <2>1. SkipTagged(f, c, s) = SkipMany(f, s, Elements(c))
    BY <1>4, Tagged
  <2>2. Elements(c) \in Nat
    BY CountsNat, Empty
  <2>3. \/ SkipMany(f, s, Elements(c)) = Fail
        \/ \E v, r \in Bytes : s = v \o r /\ Len(v) >= Elements(c) /\ ManyPassed(f, v, Elements(c))
    BY <2>2, ManyLocal
  <2> QED BY <1>4, <2>1, <2>3, TagFew
<1>5. CASE c \in ManyTags
  <2> DEFINE w == CountWidthOf(c)
  <2>1. w \in Nat /\ \A b \in Bytes : Len(b) = w => CountBehind(c, b) \in Nat
    BY CountsNat, Empty
  <2>2. \A t \in Bytes : SkipTagged(f, c, t) = TaggedCount(f, Take(t, w), c)
    BY <1>5, Tagged
  <2> HIDE DEF w
  <2>3. ASSUME Take(s, w) = Fail PROVE Goal
    BY <2>2, <2>3, ResultIs DEF TaggedCount
  <2>4. ASSUME NEW b \in Bytes, NEW q \in Bytes, s = b \o q, Len(b) = w, Take(s, w) = Read(b, q)
        PROVE  Goal
    <3> DEFINE n == CountBehind(c, b)
    <3>1. n \in Nat
      BY <2>1, <2>4
    <3>2. SkipTagged(f, c, s) = IF n > Len(q) THEN Fail ELSE SkipMany(f, q, n)
      <4>1. Read(b, q).ok /\ Read(b, q).val = b /\ Read(b, q).rest = q
        BY DEF Read
      <4> QED BY <2>2, <2>4, <4>1, Zenon DEF TaggedCount
    <3> HIDE DEF n
    <3>3. CASE n > Len(q) \/ SkipMany(f, q, n) = Fail
      BY <3>2, <3>3
    <3>4. ASSUME NEW u \in Bytes, NEW r \in Bytes, q = u \o r, Len(u) >= n, ManyPassed(f, u, n)
          PROVE  Goal
      <4>1. b \o u \in Bytes /\ s = (b \o u) \o r
        <5>1. b \o u \in Bytes
          BY CatLen
        <5>2. (b \o u) \o r = b \o (u \o r)
          BY Assoc
        <5> QED BY <2>4, <3>4, <5>1, <5>2
      <4>2. TagPasses(f, c, b \o u)
        BY <1>5, <2>4, <3>4, TagMany DEF n, w
      <4> QED BY <4>1, <4>2
    <3> HIDE DEF Goal
    <3>5. SkipMany(f, q, n) = Fail
          \/ \E u, r \in Bytes : q = u \o r /\ Len(u) >= n /\ ManyPassed(f, u, n)
      BY <3>1, ManyLocal
    <3> QED BY <3>3, <3>4, <3>5
  <2> HIDE DEF Goal
  <2>5. \/ Take(s, w) = Fail
        \/ \E b, q \in Bytes : s = b \o q /\ Len(b) = w /\ Take(s, w) = Read(b, q)
    BY <2>1, Takes, Zenon
  <2>6. Goal
    BY <2>3, <2>4, <2>5, Zenon
  <2> QED BY <2>6 DEF Goal
<1>6. CASE c = 193
  BY <1>6, Tagged
<1>7. c \in PlainTags \/ c \in FixedTags \/ c \in LengthTags \/ c \in FewTags \/ c \in ManyTags \/ c = 193
  BY DEF Byte, PlainTags, FixedTags, LengthTags, FewTags, ManyTags
<1> HIDE DEF Goal
<1> QED BY <1>1, <1>2, <1>3, <1>4, <1>5, <1>6, <1>7 DEF Goal

-----------------------------------------------------------------------------
(***************************************************************************)
(* The nine levels of skip(), the last of which refuses everything.        *)
(***************************************************************************)
Locals == {f \in [Bytes -> Results] : Local(f)}
Refuse == [s \in Bytes |-> Fail]
Untagged(f, r) == IF r.ok THEN SkipTagged(f, r.val[1], r.rest) ELSE Fail
Level(f) == [s \in Bytes |-> Untagged(f, Take(s, 1))]

LEMMA LocalsAre == \A f : f \in Locals <=> Local(f)
BY DEF Locals, Local

LEMMA RefuseLocal == Local(Refuse)
BY ResultIs DEF Local, Refuse

\* A byte is taken off.
LEMMA OneTaken ==
    ASSUME NEW c \in Byte, NEW t \in Bytes
    PROVE  Take(<<c>> \o t, 1) = Read(<<c>>, t)
<1>1. <<c>> \in Bytes /\ Len(<<c>>) = 1
  BY One
<1> QED BY <1>1, TakeAll

LEMMA UntaggedTag ==
    ASSUME NEW f, NEW c \in Byte, NEW t \in Bytes
    PROVE  Untagged(f, Take(<<c>> \o t, 1)) = SkipTagged(f, c, t)
<1>1. Take(<<c>> \o t, 1) = Read(<<c>>, t)
  BY OneTaken
<1>2. Read(<<c>>, t).ok = TRUE /\ Read(<<c>>, t).val = <<c>> /\ Read(<<c>>, t).rest = t
  BY DEF Read
<1>3. <<c>>[1] = c
  OBVIOUS
<1> QED BY <1>1, <1>2, <1>3, Zenon DEF Untagged

LEMMA LevelTag ==
    ASSUME NEW f, NEW c \in Byte, NEW t \in Bytes
    PROVE  Level(f)[<<c>> \o t] = SkipTagged(f, c, t)
<1>1. <<c>> \o t \in Bytes
  BY One, CatLen
<1> QED BY <1>1, UntaggedTag, Zenon DEF Level

LEMMA LevelPasses ==
    ASSUME NEW f, NEW c \in Byte, NEW v \in Bytes, TagPasses(f, c, v)
    PROVE  Passes(Level(f), <<c>> \o v)
<1> SUFFICES ASSUME NEW t \in Bytes PROVE Level(f)[(<<c>> \o v) \o t] = Read(<<>>, t)
  BY DEF Passes
<1>0. <<c>> \in Bytes
  BY One
<1>1. v \o t \in Bytes
  BY CatLen
<1>2. (<<c>> \o v) \o t = <<c>> \o (v \o t)
  BY <1>0, Assoc
<1>3. Level(f)[<<c>> \o (v \o t)] = SkipTagged(f, c, v \o t)
  BY <1>1, LevelTag
<1>4. SkipTagged(f, c, v \o t) = Read(<<>>, t)
  BY DEF TagPasses
<1> QED BY <1>2, <1>3, <1>4

LEMMA LevelLocal == ASSUME NEW f, Local(f) PROVE Local(Level(f))
<1>1. ASSUME NEW s \in Bytes
      PROVE  /\ Level(f)[s] \in Results
             /\ \/ Level(f)[s] = Fail
                \/ \E v, r \in Bytes : s = v \o r /\ Len(v) >= 1 /\ Passes(Level(f), v)
  <2> DEFINE Goal == /\ Level(f)[s] \in Results
                     /\ \/ Level(f)[s] = Fail
                        \/ \E v, r \in Bytes : s = v \o r /\ Len(v) >= 1 /\ Passes(Level(f), v)
  <2>1. Level(f)[s] = Untagged(f, Take(s, 1))
    BY DEF Level
  <2>2. ASSUME Take(s, 1) = Fail PROVE Goal
    <3>1. Level(f)[s] = Fail
      BY <2>1, <2>2, ResultIs DEF Untagged
    <3> QED BY <3>1, ResultIs
  <2>3. ASSUME NEW b \in Bytes, NEW q \in Bytes, s = b \o q, Len(b) = 1 PROVE Goal
    <3>1. PICK c \in Byte : b = <<c>>
      <4>1. 1 \in 1 .. Len(b)
        BY <2>3
      <4>2. b[1] \in Byte
        BY <4>1, Element DEF Byte
      <4>3. b = <<b[1]>>
        BY <2>3 DEF Bytes
      <4> QED BY <4>2, <4>3
    <3>2. Level(f)[s] = SkipTagged(f, c, q)
      BY <2>3, <3>1, LevelTag
    <3>3. CASE SkipTagged(f, c, q) = Fail
      BY <3>2, <3>3, ResultIs
    <3>4. ASSUME NEW v \in Bytes, NEW r \in Bytes, q = v \o r, TagPasses(f, c, v) PROVE Goal
      <4>1. SkipTagged(f, c, q) = Read(<<>>, r)
        BY <3>4 DEF TagPasses
      <4>2. Level(f)[s] \in Results
        BY <3>2, <4>1, ResultIs
      <4>3. /\ <<c>> \o v \in Bytes /\ Len(<<c>> \o v) >= 1
        <5>1. <<c>> \in Bytes /\ Len(<<c>>) = 1 /\ Len(v) \in Nat
          BY One, LenNat
        <5> QED BY <5>1, CatLen
      <4>4. s = (<<c>> \o v) \o r
        <5>1. <<c>> \in Bytes
          BY One
        <5>2. (<<c>> \o v) \o r = <<c>> \o (v \o r)
          BY <5>1, Assoc
        <5> QED BY <2>3, <3>1, <3>4, <5>2
      <4>5. Passes(Level(f), <<c>> \o v)
        BY <3>4, LevelPasses
      <4> QED BY <4>2, <4>3, <4>4, <4>5
    <3> HIDE DEF Goal
    <3>5. SkipTagged(f, c, q) = Fail \/ \E v, r \in Bytes : q = v \o r /\ TagPasses(f, c, v)
      BY TaggedLocal
    <3> QED BY <3>3, <3>4, <3>5
  <2> HIDE DEF Goal
  <2>4. Take(s, 1) = Fail \/ \E b, q \in Bytes : s = b \o q /\ Len(b) = 1
    BY Takes
  <2>5. Goal
    BY <2>2, <2>3, <2>4
  <2> QED BY <2>5 DEF Goal
<1>2. Level(f) \in [Bytes -> Results]
  <2>1. Level(f) = [s \in Bytes |-> Level(f)[s]]
    BY Zenon DEF Level
  <2> QED BY <1>1, <2>1, Zenon
<1> QED BY <1>1, <1>2 DEF Local

\* The recursion of skip(): the levels there are, and what one makes of the next.
LEMMA SkipUnfolds ==
    /\ SkipDepth[9] = Refuse
    /\ \A d \in 0..8 : SkipDepth[d] = Level(SkipDepth[d + 1])
    /\ \A d \in 0..9 : Local(SkipDepth[d])
<1> DEFINE F == [p \in Nat \X Locals |-> Level(p[2])]
           One9(f, d) == [s \in Bytes |-> IF d > 8 THEN Fail ELSE Untagged(f, Take(s, 1))]
           All(g) == [d \in 0..9 |-> One9(g[d + 1], d)]
           a == CHOOSE g : g = All(g)
<1>1. StepOn(F, Locals)
  BY LevelLocal, LocalsAre DEF StepOn
<1>2. Refuse \in Locals
  BY RefuseLocal, LocalsAre
<1>3. PICK h : Iterates(h, Locals, Refuse, F)
  BY <1>1, <1>2, Iterated, Zenon
<1>4. h \in [Nat -> Locals] /\ h[0] = Refuse /\ \A k \in Nat : h[k + 1] = Level(h[k])
  <2>1. h \in [Nat -> Locals] /\ h[0] = Refuse /\ \A k \in Nat : h[k + 1] = F[<<k, h[k]>>]
    BY <1>3 DEF Iterates
  <2> SUFFICES ASSUME NEW k \in Nat PROVE h[k + 1] = Level(h[k])
    BY <2>1
  <2>2. <<k, h[k]>> \in Nat \X Locals
    BY <2>1
  <2> QED BY <2>1, <2>2
<1> DEFINE g == [d \in 0..9 |-> h[9 - d]]
<1>5. \A f, d : d > 8 => One9(f, d) = Refuse
  BY DEF Refuse
<1>6. \A f, d : ~(d > 8) => One9(f, d) = Level(f)
  BY DEF Level
<1> HIDE DEF One9
<1>7. g = All(g)
  <2> SUFFICES ASSUME NEW d \in 0..9 PROVE h[9 - d] = One9(g[d + 1], d)
    OBVIOUS
  <2>1. CASE d = 9
    BY <1>4, <1>5, <2>1
  <2>2. CASE d # 9
    <3>1. d + 1 \in 0..9 /\ 9 - (d + 1) \in Nat /\ (9 - (d + 1)) + 1 = 9 - d /\ ~(d > 8)
      BY <2>2
    <3>2. g[d + 1] = h[9 - (d + 1)]
      BY <3>1
    <3>3. h[9 - d] = Level(h[9 - (d + 1)])
      BY <1>4, <3>1
    <3> QED BY <1>6, <3>1, <3>2, <3>3
  <2> QED BY <2>1, <2>2
<1>8. a = All(a)
  BY <1>7
<1>9. SkipDepth = a
  BY Zenon DEF SkipDepth, Then, One9, Untagged, Bytes
<1> HIDE DEF a
<1>10. \A d \in 0..9 : a[d] = One9(a[d + 1], d)
  BY <1>8
<1>11. a[9] = Refuse
  BY <1>5, <1>10
<1>12. \A d \in 0..8 : a[d] = Level(a[d + 1])
  BY <1>6, <1>10
<1>13. \A d \in 0..9 : Local(a[d])
  <2> DEFINE S == {k \in Nat : k <= 9 => Local(a[9 - k])}
  <2>1. 0 \in S
    BY <1>11, RefuseLocal
  <2>2. ASSUME NEW k \in Nat, k \in S PROVE k + 1 \in S
    <3> SUFFICES ASSUME k + 1 <= 9 PROVE Local(a[9 - (k + 1)])
      OBVIOUS
    <3>1. 9 - (k + 1) \in 0..8 /\ (9 - (k + 1)) + 1 = 9 - k /\ Local(a[9 - k])
      BY <2>2
    <3>2. a[9 - (k + 1)] = Level(a[9 - k])
      BY <1>12, <3>1
    <3> QED BY <3>1, <3>2, LevelLocal
  <2> HIDE DEF S
  <2>3. \A k \in Nat : k \in S
    BY <2>1, <2>2, Inductive
  <2> SUFFICES ASSUME NEW d \in 0..9 PROVE Local(a[d])
    OBVIOUS
  <2>4. 9 - d \in Nat /\ 9 - d <= 9 /\ 9 - (9 - d) = d /\ 9 - d \in S
    BY <2>3
  <2> QED BY <2>4 DEF S
<1> QED BY <1>9, <1>11, <1>12, <1>13

\* What is read is one value; a part of it is not.
LEMMA PartRefused ==
    ASSUME NEW f, Local(f), NEW e \in Bytes, Passes(f, e), NEW k \in 0 .. Len(e) - 1
    PROVE  f[SubSeq(e, 1, k)] = Fail
<1> DEFINE s == SubSeq(e, 1, k)  r == SubSeq(e, k + 1, Len(e))
<1>0. Len(e) \in Nat
  BY LenNat
<1>1. s \in Bytes /\ r \in Bytes /\ e = s \o r /\ Len(s) = k
  <2>1. k \in 0 .. Len(e)
    BY <1>0
  <2> QED BY <2>1, Split
<1> HIDE DEF s, r
<1>2. Len(r) >= 1
  <2>1. Len(e) = Len(s) + Len(r) /\ Len(r) \in Nat
    BY <1>1, CatLen
  <2> QED BY <1>0, <1>1, <2>1
<1>3. f[e] = Read(<<>>, <<>>)
  <2>1. e = e \o <<>>
    BY Empty
  <2> QED BY <2>1, Empty DEF Passes
<1>4. ASSUME NEW v \in Bytes, NEW q \in Bytes, s = v \o q, Passes(f, v) PROVE FALSE
  <2>1. q \o r \in Bytes /\ Len(q \o r) = Len(q) + Len(r) /\ Len(q) \in Nat /\ Len(r) \in Nat
    BY <1>1, CatLen
  <2>2. (v \o q) \o r = v \o (q \o r)
    BY <1>1, Assoc
  <2>3. f[v \o (q \o r)] = Read(<<>>, q \o r)
    <3>1. \A t \in Bytes : f[v \o t] = Read(<<>>, t)
      BY <1>4 DEF Passes
    <3> QED BY <2>1, <3>1
  <2>4. f[e] = Read(<<>>, q \o r)
    BY <1>1, <1>4, <2>2, <2>3
  <2>5. q \o r = <<>>
    BY <1>3, <2>4 DEF Read
  <2> QED BY <1>2, <2>1, <2>5, Empty
<1>5. f[s] = Fail \/ \E v, q \in Bytes : s = v \o q /\ Len(v) >= 1 /\ Passes(f, v)
  BY <1>1 DEF Local
<1> QED BY <1>4, <1>5 DEF s

\* e is a value with at most m levels of arrays and maps in it.
Deep(e, m) == e \in Bytes /\ Len(e) >= 1 /\ \A d \in 0 .. 8 - m : Passes(SkipDepth[d], e)

LEMMA DeepTag ==
    ASSUME NEW c \in Byte, NEW v \in Bytes, NEW m \in Nat,
           \A d \in 0 .. 8 - m : TagPasses(SkipDepth[d + 1], c, v)
    PROVE  Deep(<<c>> \o v, m)
<1>1. <<c>> \o v \in Bytes /\ Len(<<c>> \o v) >= 1
  <2>1. <<c>> \in Bytes /\ Len(<<c>>) = 1
    BY One
  <2>2. <<c>> \o v \in Bytes /\ Len(<<c>> \o v) = Len(<<c>>) + Len(v) /\ Len(v) \in Nat
    BY <2>1, CatLen
  <2> QED BY <2>1, <2>2
<1>2. ASSUME NEW d \in 0 .. 8 - m PROVE Passes(SkipDepth[d], <<c>> \o v)
  <2>1. SkipDepth[d] = Level(SkipDepth[d + 1])
    BY SkipUnfolds
  <2>2. TagPasses(SkipDepth[d + 1], c, v)
    OBVIOUS
  <2>3. Passes(Level(SkipDepth[d + 1]), <<c>> \o v)
    BY <2>2, LevelPasses
  <2> QED BY <2>1, <2>3
<1> QED BY <1>1, <1>2 DEF Deep

LEMMA DeepMore == ASSUME NEW e, Deep(e, 0), NEW m \in Nat PROVE Deep(e, m)
BY DEF Deep

LEMMA DeepPlain == ASSUME NEW c \in PlainTags PROVE Deep(<<c>>, 0)
<1>1. c \in Byte /\ <<c>> = <<c>> \o <<>>
  <2>1. c \in Byte
    BY DEF PlainTags, Byte
  <2>2. <<c>> = <<c>> \o <<>>
    BY <2>1, One, Empty
  <2> QED BY <2>1, <2>2
<1>2. Deep(<<c>> \o <<>>, 0)
  BY <1>1, TagPlain, Empty, DeepTag
<1> QED BY <1>1, <1>2

LEMMA DeepFixed ==
    ASSUME NEW c \in FixedTags, NEW v \in Bytes, Len(v) = Behind(c)
    PROVE  Deep(<<c>> \o v, 0)
<1>1. c \in Byte
  BY DEF FixedTags, Byte
<1> QED BY <1>1, TagFixed, DeepTag

LEMMA DeepLength ==
    ASSUME NEW c \in LengthTags, NEW b \in Bytes, NEW u \in Bytes,
           Len(b) = LengthWidth(c), Len(u) = LengthBehind(c, b)
    PROVE  Deep((<<c>> \o b) \o u, 0)
<1>1. c \in Byte
  BY DEF LengthTags, Byte
<1>2. b \o u \in Bytes
  BY CatLen
<1>3. Deep(<<c>> \o (b \o u), 0)
  BY <1>1, <1>2, TagLength, DeepTag
<1>4. (<<c>> \o b) \o u = <<c>> \o (b \o u)
  <2>1. <<c>> \in Bytes
    BY <1>1, One
  <2> QED BY <2>1, Assoc
<1> QED BY <1>3, <1>4

\* v is n values, each with at most m levels.
Row(v, n, m) == v \in Bytes /\ Len(v) >= n /\ \A d \in 0 .. 8 - m : ManyPassed(SkipDepth[d], v, n)

LEMMA RowNone == ASSUME NEW m \in Nat PROVE Row(<<>>, 0, m)
<1>1. ASSUME NEW d \in 0 .. 8 - m PROVE ManyPassed(SkipDepth[d], <<>>, 0)
  <2>1. d \in 0 .. 9
    OBVIOUS
  <2>2. SkipDepth[d] \in [Bytes -> Results]
    BY <2>1, SkipUnfolds DEF Local
  <2> QED BY <2>2, ManyNone
<1> QED BY <1>1, Empty DEF Row

LEMMA RowMore ==
    ASSUME NEW m \in Nat, NEW n \in Nat, NEW v, NEW w, Row(v, n, m), Deep(w, m)
    PROVE  Row(v \o w, n + 1, m)
<1>1. v \in Bytes /\ w \in Bytes /\ Len(v) >= n /\ Len(w) >= 1
  BY DEF Row, Deep
<1>2. v \o w \in Bytes /\ Len(v \o w) = Len(v) + Len(w) /\ Len(v) \in Nat /\ Len(w) \in Nat
  BY <1>1, CatLen
<1>3. Len(v \o w) >= n + 1
  BY <1>1, <1>2
<1>4. ASSUME NEW d \in 0 .. 8 - m PROVE ManyPassed(SkipDepth[d], v \o w, n + 1)
  <2>1. d \in 0 .. 9
    OBVIOUS
  <2>2. SkipDepth[d] \in [Bytes -> Results]
    BY <2>1, SkipUnfolds DEF Local
  <2>3. ManyPassed(SkipDepth[d], v, n) /\ Passes(SkipDepth[d], w)
    BY DEF Row, Deep
  <2> QED BY <1>1, <2>2, <2>3, ManyMore
<1> QED BY <1>2, <1>3, <1>4 DEF Row

LEMMA DeepFew ==
    ASSUME NEW c \in FewTags, NEW m \in Nat, NEW v, Row(v, Elements(c), m)
    PROVE  Deep(<<c>> \o v, m + 1)
<1>1. c \in Byte /\ v \in Bytes /\ m + 1 \in Nat
  BY DEF FewTags, Byte, Row
<1>2. ASSUME NEW d \in 0 .. 8 - (m + 1) PROVE TagPasses(SkipDepth[d + 1], c, v)
  <2>1. d + 1 \in 0 .. 8 - m
    OBVIOUS
  <2>2. ManyPassed(SkipDepth[d + 1], v, Elements(c))
    BY <2>1 DEF Row
  <2> QED BY <1>1, <2>2, TagFew
<1> QED BY <1>1, <1>2, DeepTag

LEMMA DeepMany ==
    ASSUME NEW c \in ManyTags, NEW b \in Bytes, Len(b) = CountWidthOf(c), NEW m \in Nat, NEW v,
           Row(v, CountBehind(c, b), m)
    PROVE  Deep((<<c>> \o b) \o v, m + 1)
<1>1. c \in Byte /\ v \in Bytes /\ m + 1 \in Nat
  BY DEF ManyTags, Byte, Row
<1>2. b \o v \in Bytes
  BY <1>1, CatLen
<1>3. ASSUME NEW d \in 0 .. 8 - (m + 1) PROVE TagPasses(SkipDepth[d + 1], c, b \o v)
  <2>1. d + 1 \in 0 .. 8 - m
    OBVIOUS
  <2>2. ManyPassed(SkipDepth[d + 1], v, CountBehind(c, b)) /\ Len(v) >= CountBehind(c, b)
    BY <2>1 DEF Row
  <2> QED BY <1>1, <2>2, TagMany
<1>4. Deep(<<c>> \o (b \o v), m + 1)
  BY <1>1, <1>2, <1>3, DeepTag
<1>5. (<<c>> \o b) \o v = <<c>> \o (b \o v)
  <2>1. <<c>> \in Bytes
    BY <1>1, One
  <2> QED BY <1>1, <2>1, Assoc
<1> QED BY <1>4, <1>5

-----------------------------------------------------------------------------
(***************************************************************************)
(* What the writer writes is passed over.                                  *)
(***************************************************************************)
LEMMA TagOfWidth ==
    ASSUME NEW v \in Number, NEW c \in 203..211, NEW w \in 1..8, w = WidthOf(c)
    PROVE  Deep(<<c>> \o Lowest(v, w), 0)
<1>1. c \in FixedTags /\ Behind(c) = w
  BY DEF FixedTags, Behind
<1>2. Lowest(v, w) \in Bytes /\ Len(Lowest(v, w)) = w
  BY LowestBytes
<1> QED BY <1>1, <1>2, DeepFixed

LEMMA DeepFloat == \A v \in Number : Deep(Float64(v), 0)
<1> SUFFICES ASSUME NEW v \in Number PROVE Deep(Float64(v), 0)
  OBVIOUS
<1>1. WidthOf(203) = 8
  BY DEF WidthOf
<1>2. Deep(<<203>> \o Lowest(v, 8), 0)
  BY <1>1, TagOfWidth
<1> QED BY <1>2, LowestAll DEF Float64

LEMMA DeepUint == \A v \in Number : Deep(Uint(v), 0)
<1> SUFFICES ASSUME NEW v \in Number PROVE Deep(Uint(v), 0)
  OBVIOUS
<1>0. v[8] \in 0..255
  BY NumberBytes DEF Byte
<1>1. /\ Deep(<<204>> \o Lowest(v, 1), 0) /\ Deep(<<205>> \o Lowest(v, 2), 0)
      /\ Deep(<<206>> \o Lowest(v, 4), 0) /\ Deep(<<207>> \o v, 0)
  <2>1. WidthOf(204) = 1 /\ WidthOf(205) = 2 /\ WidthOf(206) = 4 /\ WidthOf(207) = 8
    BY DEF WidthOf
  <2>2. Deep(<<207>> \o Lowest(v, 8), 0)
    BY <2>1, TagOfWidth
  <2> QED BY <2>1, <2>2, TagOfWidth, LowestAll
<1>2. ASSUME v[Wide] < 128 PROVE Deep(Lowest(v, 1), 0)
  <2>1. v[8] \in PlainTags
    BY <1>0, <1>2 DEF PlainTags, Wide
  <2> QED BY <2>1, DeepPlain, LowestOne
<1>3. \/ Below(v, 1) /\ v[Wide] < 128
      \/ Below(v, 1) /\ v[Wide] >= 128
      \/ Below(v, 2) /\ ~Below(v, 1)
      \/ Below(v, 4) /\ ~Below(v, 2)
      \/ ~Below(v, 4)
  <2>1. v[Wide] < 128 \/ v[Wide] >= 128
    BY <1>0 DEF Wide
  <2> QED BY <2>1
<1> QED BY <1>1, <1>2, <1>3 DEF Uint

LEMMA DeepInteger == \A v \in Number : Deep(Integer(v), 0)
<1> SUFFICES ASSUME NEW v \in Number PROVE Deep(Integer(v), 0)
  OBVIOUS
<1>0. v[8] \in 0..255
  BY NumberBytes DEF Byte
<1>1. /\ Deep(<<208>> \o Lowest(v, 1), 0) /\ Deep(<<209>> \o Lowest(v, 2), 0)
      /\ Deep(<<210>> \o Lowest(v, 4), 0) /\ Deep(<<211>> \o v, 0)
  <2>1. WidthOf(208) = 1 /\ WidthOf(209) = 2 /\ WidthOf(210) = 4 /\ WidthOf(211) = 8
    BY DEF WidthOf
  <2>2. Deep(<<211>> \o Lowest(v, 8), 0)
    BY <2>1, TagOfWidth
  <2> QED BY <2>1, <2>2, TagOfWidth, LowestAll
<1>2. ASSUME v[Wide] >= 224 PROVE Deep(Lowest(v, 1), 0)
  <2>1. v[8] \in PlainTags
    BY <1>0, <1>2 DEF PlainTags, Wide
  <2> QED BY <2>1, DeepPlain, LowestOne
<1>3. Deep(Uint(v), 0)
  BY DeepUint
<1>4. \/ ~Negative(v)
      \/ Above(v, 1) /\ v[Wide] >= 224
      \/ Above(v, 1) /\ v[Wide] \in 128..223
      \/ Above(v, 2) /\ ~Above(v, 1)
      \/ Above(v, 4) /\ ~Above(v, 2)
      \/ Negative(v) /\ ~Above(v, 4)
  <2>1. Above(v, 1) => v[Wide] >= 224 \/ v[Wide] \in 128..223
    BY <1>0 DEF Above, Wide
  <2> QED BY <2>1
<1> QED BY <1>1, <1>2, <1>3, <1>4 DEF Integer

LEMMA DeepFlags == Deep(Nil, 0) /\ \A v \in BOOLEAN : Deep(Boolean(v), 0)
<1>1. 192 \in PlainTags /\ 194 \in PlainTags /\ 195 \in PlainTags
  BY DEF PlainTags
<1> QED BY <1>1, DeepPlain DEF Nil, Boolean

LEMMA DeepTexts == \A t \in Bytes : Len(t) < Huge => Deep(Str(t), 0) /\ Deep(Bin(t), 0)
<1> SUFFICES ASSUME NEW t \in Bytes, Len(t) < Huge PROVE Deep(Str(t), 0) /\ Deep(Bin(t), 0)
  OBVIOUS
<1> DEFINE n == Len(t)
<1>0. n \in Nat
  BY LenNat
<1>1. n = Len(t) /\ n < Huge
  OBVIOUS
<1> HIDE DEF n
<1>2. ASSUME NEW c \in TextTags, NEW b \in Bytes, Len(b) = LengthOf(c),
             Value(b) = n
      PROVE  Deep((<<c>> \o b) \o t, 0)
  <2>1. c \in LengthTags /\ LengthWidth(c) = LengthOf(c) /\ LengthBehind(c, b) = Value(b)
    BY DEF TextTags, LengthTags, LengthWidth, LengthBehind
  <2> QED BY <1>1, <1>2, <2>1, DeepLength
<1>a. \A c \in TextTags, b \in Bytes :
        Len(b) = LengthOf(c) /\ Value(b) = n => Deep((<<c>> \o b) \o t, 0)
  BY <1>2
<1>3. ASSUME NEW c \in {196, 217}, n < 256 PROVE Deep(<<c, n>> \o t, 0)
  <2>1. c \in TextTags /\ c \in Byte /\ LengthOf(c) = 1
    BY LengthsOf
  <2>2. <<n>> \in Bytes /\ Len(<<n>>) = 1 /\ Value(<<n>>) = n /\ <<c, n>> = <<c>> \o <<n>>
    BY <1>0, <1>3, <2>1, ByteRead
  <2> QED BY <1>a, <2>1, <2>2
<1>4. ASSUME NEW c \in TextTags, LengthOf(c) = 2, n < 65536 PROVE Deep((<<c>> \o Be16(n)) \o t, 0)
  <2> DEFINE b == Be16(n)
  <2>1. b \in Bytes /\ Len(b) = 2 /\ Value(b) = n
    BY <1>0, <1>4, Be16Read
  <2> HIDE DEF b
  <2>2. b \in Bytes /\ Len(b) = LengthOf(c) /\ Value(b) = n
    BY <1>4, <2>1
  <2>3. Deep((<<c>> \o b) \o t, 0)
    BY <1>a, <2>2, Zenon
  <2> QED BY <2>3 DEF b
<1>5. ASSUME NEW c \in TextTags, LengthOf(c) = 4 PROVE Deep((<<c>> \o Be32(n)) \o t, 0)
  <2> DEFINE b == Be32(n)
  <2>1. b \in Bytes /\ Len(b) = 4 /\ Value(b) = n
    BY <1>0, <1>1, Be32Read
  <2> HIDE DEF b
  <2>2. b \in Bytes /\ Len(b) = LengthOf(c) /\ Value(b) = n
    BY <1>5, <2>1
  <2>3. Deep((<<c>> \o b) \o t, 0)
    BY <1>a, <2>2, Zenon
  <2> QED BY <2>3 DEF b
<1>6. Deep(Bin(t), 0)
  <2>1. CASE n < 256
    <3>1. Bin(t) = <<196, n>> \o t
      BY <1>1, <2>1 DEF Bin, BinHeader
    <3> QED BY <1>3, <2>1, <3>1
  <2>2. CASE ~(n < 256) /\ n < 65536
    <3>1. Bin(t) = (<<197>> \o Be16(n)) \o t
      BY <1>1, <2>2 DEF Bin, BinHeader
    <3> QED BY <1>4, <2>2, <3>1, LengthsOf
  <2>3. CASE ~(n < 256) /\ ~(n < 65536)
    <3>1. Bin(t) = (<<198>> \o Be32(n)) \o t
      BY <1>1, <2>3 DEF Bin, BinHeader
    <3> QED BY <1>5, <3>1, LengthsOf
  <2> QED BY <2>1, <2>2, <2>3
<1>7. Deep(Str(t), 0)
  <2>0. CASE n < 32
    <3>1. Str(t) = <<160 + n>> \o t
      BY <1>1, <2>0 DEF Str, StrHeader
    <3>2. 160 + n \in FixedTags /\ Behind(160 + n) = n
      BY <1>0, <2>0 DEF FixedTags, Behind
    <3>3. \A c \in FixedTags : Behind(c) = n => Deep(<<c>> \o t, 0)
      BY <1>1, DeepFixed
    <3> QED BY <3>1, <3>2, <3>3, Zenon
  <2>1. CASE ~(n < 32) /\ n < 256
    <3>1. Str(t) = <<217, n>> \o t
      BY <1>1, <2>1 DEF Str, StrHeader
    <3> QED BY <1>3, <2>1, <3>1
  <2>2. CASE ~(n < 32) /\ ~(n < 256) /\ n < 65536
    <3>1. Str(t) = (<<218>> \o Be16(n)) \o t
      BY <1>1, <2>2 DEF Str, StrHeader
    <3> QED BY <1>4, <2>2, <3>1, LengthsOf
  <2>3. CASE ~(n < 32) /\ ~(n < 256) /\ ~(n < 65536)
    <3>1. Str(t) = (<<219>> \o Be32(n)) \o t
      BY <1>1, <2>3 DEF Str, StrHeader
    <3> QED BY <1>5, <3>1, LengthsOf
  <2> QED BY <2>0, <2>1, <2>2, <2>3
<1> QED BY <1>6, <1>7

\* What a count of pairs is doubled to.
LEMMA TwiceIs ==
    ASSUME NEW n \in Nat, NEW b \in Bytes, Value(b) = n,
           Len(b) = 2 \/ (Len(b) = 4 /\ n < Huge)
    PROVE  Twice(b) = 2 * n
<1>1. CASE Len(b) = 2
  BY <1>1 DEF Twice
<1>2. CASE Len(b) = 4 /\ n < Huge
  <2>1. b[1] \in 0..255
    <3>1. \A i \in 1..4 : b[i] \in 0..255
      BY <1>2, BytesOf
    <3> QED BY <3>1
  <2>2. b[1] < 32
    BY <1>2, <2>1 DEF Value, Huge
  <2>3. b[1] % 128 = b[1]
    BY <2>1, <2>2
  <2>4. [b EXCEPT ![1] = @ % 128] = b
    BY <2>3 DEF Bytes
  <2> QED BY <1>2, <2>4 DEF Twice
<1> QED BY <1>1, <1>2

\* A count and as many values, or twice as many, are an array or a map.
LEMMA DeepHeaders ==
    ASSUME NEW n \in Nat, n < Huge, NEW m \in Nat, NEW v
    PROVE  /\ Row(v, n, m) => Deep(ArrayHeader(n) \o v, m + 1)
           /\ Row(v, 2 * n, m) => Deep(MapHeader(n) \o v, m + 1)
<1>1. CASE n < 16
  <2>1. /\ ArrayHeader(n) = <<144 + n>> /\ 144 + n \in FewTags /\ Elements(144 + n) = n
        /\ MapHeader(n) = <<128 + n>> /\ 128 + n \in FewTags /\ Elements(128 + n) = 2 * n
    <3>1. (144 + n) % 16 = n /\ (128 + n) % 16 = n
      BY <1>1
    <3> QED BY <1>1, <3>1 DEF ArrayHeader, MapHeader, FewTags, Elements
  <2>2. \A c \in FewTags : Row(v, Elements(c), m) => Deep(<<c>> \o v, m + 1)
    BY DeepFew
  <2> QED BY <2>1, <2>2
<1>2. ASSUME NEW c \in {220, 221}, NEW b \in Bytes, Len(b) = CountWidthOf(c), Value(b) = n,
             Row(v, n, m)
      PROVE  Deep((<<c>> \o b) \o v, m + 1)
  <2>1. c \in ManyTags /\ CountBehind(c, b) = n
    BY <1>2 DEF ManyTags, CountBehind
  <2> QED BY <1>2, <2>1, DeepMany
<1>3. ASSUME NEW c \in {222, 223}, NEW b \in Bytes, Len(b) = CountWidthOf(c), Value(b) = n,
             Row(v, 2 * n, m)
      PROVE  Deep((<<c>> \o b) \o v, m + 1)
  <2>1. Len(b) = 2 \/ Len(b) = 4
    BY <1>3 DEF CountWidthOf
  <2>3. Twice(b) = 2 * n
    BY <1>3, <2>1, TwiceIs
  <2>2. c \in ManyTags /\ CountBehind(c, b) = 2 * n
    BY <2>3 DEF ManyTags, CountBehind
  <2> QED BY <1>3, <2>2, DeepMany
<1>4. CASE ~(n < 16) /\ n < 65536
  <2> DEFINE b == Be16(n)
  <2>1. ArrayHeader(n) = <<220>> \o b /\ MapHeader(n) = <<222>> \o b
    BY <1>4 DEF ArrayHeader, MapHeader
  <2>2. b \in Bytes /\ Len(b) = 2 /\ Value(b) = n
    BY <1>4, Be16Read
  <2> HIDE DEF b
  <2>5. Len(b) = CountWidthOf(220) /\ Len(b) = CountWidthOf(222)
    BY <2>2 DEF CountWidthOf
  <2>3. Row(v, n, m) => Deep((<<220>> \o b) \o v, m + 1)
    BY <1>2, <2>2, <2>5
  <2>4. Row(v, 2 * n, m) => Deep((<<222>> \o b) \o v, m + 1)
    BY <1>3, <2>2, <2>5
  <2> QED BY <2>1, <2>3, <2>4
<1>5. CASE ~(n < 16) /\ ~(n < 65536)
  <2> DEFINE b == Be32(n)
  <2>1. ArrayHeader(n) = <<221>> \o b /\ MapHeader(n) = <<223>> \o b
    BY <1>5 DEF ArrayHeader, MapHeader
  <2>2. b \in Bytes /\ Len(b) = 4 /\ Value(b) = n
    BY Be32Read
  <2> HIDE DEF b
  <2>5. Len(b) = CountWidthOf(221) /\ Len(b) = CountWidthOf(223)
    BY <2>2 DEF CountWidthOf
  <2>3. Row(v, n, m) => Deep((<<221>> \o b) \o v, m + 1)
    BY <1>2, <2>2, <2>5
  <2>4. Row(v, 2 * n, m) => Deep((<<223>> \o b) \o v, m + 1)
    BY <1>3, <2>2, <2>5
  <2> QED BY <2>1, <2>3, <2>4
<1> QED BY <1>1, <1>4, <1>5

-----------------------------------------------------------------------------
(***************************************************************************)
(* The things the node sends                                               *)
(***************************************************************************)
\* skip() passes over e, whatever follows, and refuses e when it is cut short.
OneValue(e) ==
    /\ e \in Bytes
    /\ \A t \in Bytes : Skip(e \o t) = Read(<<>>, t)
    /\ \A k \in 0 .. Len(e) - 1 : ~Skip(SubSeq(e, 1, k)).ok

LEMMA DeepIsOneValue == ASSUME NEW m \in 0..8, NEW e, Deep(e, m) PROVE OneValue(e)
<1>1. e \in Bytes /\ Local(SkipDepth[0]) /\ Passes(SkipDepth[0], e)
  <2>1. 0 \in 0 .. 8 - m /\ 0 \in 0..9
    OBVIOUS
  <2> QED BY <2>1, SkipUnfolds DEF Deep
<1>2. \A k \in 0 .. Len(e) - 1 : SkipDepth[0][SubSeq(e, 1, k)] = Fail
  BY <1>1, PartRefused
<1>3. ~Fail.ok
  BY ResultIs
<1> QED BY <1>1, <1>2, <1>3 DEF OneValue, Skip, Passes

\* Whatever bytes come, skip() refuses them or passes over the first of them,
\* at least one, and what it makes of those does not depend on what follows: it
\* reads nothing behind the value, and cannot stand still (Msgpack.cpp:182-228).
THEOREM SkipReadsNoFurther ==
    \A s \in Bytes :
        \/ Skip(s) = Fail
        \/ \E v, r \in Bytes : s = v \o r /\ Len(v) >= 1 /\ OneValue(v)
<1>1. Local(SkipDepth[0])
  <2>1. 0 \in 0..9
    OBVIOUS
  <2> QED BY <2>1, SkipUnfolds
<1> SUFFICES ASSUME NEW s \in Bytes
             PROVE  \/ Skip(s) = Fail
                    \/ \E v, r \in Bytes : s = v \o r /\ Len(v) >= 1 /\ OneValue(v)
  OBVIOUS
<1>2. \/ Skip(s) = Fail
      \/ \E v, r \in Bytes : s = v \o r /\ Len(v) >= 1 /\ Passes(SkipDepth[0], v)
  BY <1>1 DEF Local, Skip
<1>3. ASSUME NEW v \in Bytes, Passes(SkipDepth[0], v) PROVE OneValue(v)
  <2>1. \A k \in 0 .. Len(v) - 1 : SkipDepth[0][SubSeq(v, 1, k)] = Fail
    BY <1>1, <1>3, PartRefused
  <2> QED BY <1>3, <2>1, ResultIs DEF OneValue, Skip, Passes
<1> QED BY <1>2, <1>3

\* Every number, flag and text the node writes is one value (Msgpack.cpp:47-105
\* against 182-228).
THEOREM WordsAreValues ==
    /\ \A v \in Number : OneValue(Integer(v)) /\ OneValue(Uint(v)) /\ OneValue(Float64(v))
    /\ \A t \in Bytes : Len(t) < Huge => OneValue(Str(t)) /\ OneValue(Bin(t))
    /\ OneValue(Nil) /\ \A v \in BOOLEAN : OneValue(Boolean(v))
<1>1. \A e : Deep(e, 0) => OneValue(e)
  <2>1. 0 \in 0..8
    OBVIOUS
  <2> QED BY <2>1, DeepIsOneValue
<1>2. \A v \in Number : OneValue(Integer(v)) /\ OneValue(Uint(v)) /\ OneValue(Float64(v))
  BY <1>1, DeepInteger, DeepUint, DeepFloat, Zenon
<1>3. \A t \in Bytes : Len(t) < Huge => OneValue(Str(t)) /\ OneValue(Bin(t))
  BY <1>1, DeepTexts, Zenon
<1>4. OneValue(Nil) /\ \A v \in BOOLEAN : OneValue(Boolean(v))
  BY <1>1, DeepFlags, Zenon
<1> QED BY <1>2, <1>3, <1>4, Zenon

\* s is the tag c and n values behind it, of m levels.
Held(s, c, n, m) == \E v : Row(v, n, m) /\ s = <<c>> \o v

LEMMA HeldNone == ASSUME NEW c \in Byte, NEW m \in Nat PROVE Held(<<c>>, c, 0, m)
<1>1. <<c>> = <<c>> \o <<>>
  BY One, Empty
<1> QED BY <1>1, RowNone DEF Held

LEMMA HeldMore ==
    ASSUME NEW m \in Nat, NEW n \in Nat, NEW c \in Byte, NEW s, NEW w,
           Held(s, c, n, m), Deep(w, m)
    PROVE  Held(s \o w, c, n + 1, m)
<1>1. PICK v : Row(v, n, m) /\ s = <<c>> \o v
  BY DEF Held
<1>2. Row(v \o w, n + 1, m)
  BY <1>1, RowMore
<1>3. <<c>> \in Bytes /\ v \in Bytes /\ w \in Bytes
  BY <1>1, One DEF Row, Deep
<1>4. (<<c>> \o v) \o w = <<c>> \o (v \o w)
  BY <1>3, Assoc
<1> QED BY <1>1, <1>2, <1>4 DEF Held

LEMMA HeldPair ==
    ASSUME NEW m \in Nat, NEW n \in Nat, NEW c \in Byte, NEW s, NEW w, NEW x,
           Held(s, c, n, m), Deep(w, m), Deep(x, m)
    PROVE  Held(s \o (w \o x), c, n + 2, m)
<1>1. PICK v : Row(v, n, m) /\ s = <<c>> \o v
  BY DEF Held
<1>2. s \in Bytes /\ w \in Bytes /\ x \in Bytes
  <2>1. <<c>> \in Bytes /\ v \in Bytes
    BY <1>1, One DEF Row
  <2>2. s \in Bytes
    BY <1>1, <2>1, CatLen
  <2> QED BY <2>2 DEF Deep
<1>3. Held(s \o w, c, n + 1, m)
  BY HeldMore
<1>4. Held((s \o w) \o x, c, (n + 1) + 1, m)
  <2> DEFINE k == n + 1  y == s \o w
  <2>1. k \in Nat /\ Held(y, c, k, m)
    BY <1>3
  <2> HIDE DEF k, y
  <2>2. Held(y \o x, c, k + 1, m)
    BY <2>1, HeldMore
  <2> QED BY <2>2 DEF k, y
<1>5. (s \o w) \o x = s \o (w \o x)
  BY <1>2, Assoc
<1>6. (n + 1) + 1 = n + 2
  OBVIOUS
<1> QED BY <1>4, <1>5, <1>6

LEMMA HeldAll ==
    ASSUME NEW c \in FewTags, NEW m \in Nat, NEW s, Held(s, c, Elements(c), m)
    PROVE  Deep(s, m + 1)
<1>1. PICK v : Row(v, Elements(c), m) /\ s = <<c>> \o v
  BY DEF Held
<1> QED BY <1>1, DeepFew

\* Whatever name a node has, what it announces is one value (LxmfPresence.cpp:
\* 69-76 against Msgpack.cpp:182-228).
THEOREM AnnouncesAreValues == \A name \in Bytes : Deep(AnnounceData(name), 1) /\ OneValue(AnnounceData(name))
<1> SUFFICES ASSUME NEW name \in Bytes PROVE Deep(AnnounceData(name), 1) /\ OneValue(AnnounceData(name))
  OBVIOUS
<1> DEFINE n == IF Len(name) > 200 THEN 200 ELSE Len(name)
           x == SubSeq(name, 1, n)
<1>1. n \in 0 .. Len(name) /\ n \in Nat /\ n < 256
  BY LenNat
<1>2. AnnounceData(name) = (<<146, 196, n>> \o x) \o <<192>>
  BY Zenon DEF AnnounceData
<1> HIDE DEF n
<1>3. x \in Bytes /\ Len(x) = n
  BY <1>1, Split
<1> HIDE DEF x
<1>4. 146 \in Byte /\ 196 \in Byte /\ n \in Byte /\ 146 \in FewTags /\ Elements(146) = 2
  BY <1>1 DEF Byte, FewTags, Elements
<1>5. <<146, 196, n>> = <<146>> \o <<196, n>> /\ <<196, n>> \in Bytes
  BY <1>4 DEF Bytes
<1>6. Deep(Bin(x), 0) /\ Bin(x) = <<196, n>> \o x
  <2>1. n < Huge
    BY <1>1 DEF Huge
  <2>2. Bin(x) = <<196, n>> \o x
    BY <1>1, <1>3 DEF Bin, BinHeader
  <2> QED BY <1>3, <2>1, <2>2, DeepTexts
<1>7. <<146, 196, n>> \o x = <<146>> \o Bin(x)
  <2>1. <<146>> \in Bytes
    BY <1>4, One
  <2>2. (<<146>> \o <<196, n>>) \o x = <<146>> \o (<<196, n>> \o x)
    BY <1>3, <1>5, <2>1, Assoc
  <2> QED BY <1>5, <1>6, <2>2
<1>8. Held(<<146>>, 146, 0, 0)
  BY <1>4, HeldNone
<1>9. Held(<<146>> \o Bin(x), 146, 1, 0)
  BY <1>4, <1>6, <1>8, HeldMore
<1>10. Deep(<<192>>, 0)
  BY DeepFlags DEF Nil
<1>11. Held((<<146>> \o Bin(x)) \o <<192>>, 146, 2, 0)
  <2> DEFINE y == <<146>> \o Bin(x)  z == <<192>>
  <2>1. Held(y, 146, 1, 0) /\ Deep(z, 0)
    BY <1>9, <1>10
  <2> HIDE DEF y, z
  <2>2. Held(y \o z, 146, 1 + 1, 0)
    BY <1>4, <2>1, HeldMore
  <2> QED BY <2>2 DEF y, z
<1>12. Deep(AnnounceData(name), 0 + 1)
  <2> DEFINE a == AnnounceData(name)
  <2>1. Held(a, 146, Elements(146), 0)
    BY <1>2, <1>4, <1>7, <1>11
  <2> HIDE DEF a
  <2> QED BY <1>4, <2>1, HeldAll DEF a
<1> QED BY <1>12, DeepIsOneValue

\* The place is a list of seven values, the battery one of three.
LEMMA PlaceAndPower ==
    ASSUME NEW now \in Number, NEW percent \in Number, NEW position \in [1..3 -> Field]
    PROVE  /\ \E a : /\ Uint(Small(2)) \o ArrayHeader(7) \o Bin(position[1]) \o Bin(position[2])
                           \o Bin(position[3]) \o Bin(Zeros(4)) \o Bin(Zeros(4)) \o Bin(Zeros(2))
                           \o Uint(now)
                         = Uint(Small(2)) \o a
                     /\ Deep(a, 1)
           /\ \E a : /\ Uint(Small(4)) \o ArrayHeader(3) \o Float64(percent) \o Boolean(FALSE) \o Nil
                         = Uint(Small(4)) \o a
                     /\ Deep(a, 1)
<1> DEFINE After(u, s, a, c, n) == Held(a, c, n, 0) /\ a \in Bytes /\ s = u \o a
           u2 == Uint(Small(2))  u4 == Uint(Small(4))  un == Uint(now)
           p1 == Bin(position[1])  p2 == Bin(position[2])  p3 == Bin(position[3])
           z4 == Bin(Zeros(4))  z2 == Bin(Zeros(2))
           f == Float64(percent)  b == Boolean(FALSE)  i == Nil
<1>1. ASSUME NEW u \in Bytes, NEW s, NEW a, NEW c \in Byte, NEW n \in Nat, After(u, s, a, c, n),
             NEW w, Deep(w, 0)
      PROVE  After(u, s \o w, a \o w, c, n + 1)
  <2>1. w \in Bytes /\ a \in Bytes /\ Held(a, c, n, 0) /\ s = u \o a
    BY <1>1 DEF Deep
  <2>2. Held(a \o w, c, n + 1, 0)
    BY <1>1, <2>1, HeldMore
  <2>3. a \o w \in Bytes
    BY <2>1, CatLen
  <2>4. (u \o a) \o w = u \o (a \o w)
    BY <2>1, Assoc
  <2> QED BY <2>1, <2>2, <2>3, <2>4
<1>2. Deep(u2, 0) /\ Deep(u4, 0) /\ Deep(un, 0)
  <2>1. Small(2) \in Number /\ Small(4) \in Number
    <3>1. 2 \in Byte /\ 4 \in Byte
      BY DEF Byte
    <3> QED BY <3>1, SmallIs
  <2> QED BY <2>1, DeepUint
<1>3. Deep(p1, 0) /\ Deep(p2, 0) /\ Deep(p3, 0) /\ Deep(z4, 0) /\ Deep(z2, 0)
  <2>1. 4 < Huge /\ 2 < Huge
    BY DEF Huge
  <2>2. position[1] \in Field /\ position[2] \in Field /\ position[3] \in Field
    OBVIOUS
  <2>3. Zeros(4) = Filled(4, 0) /\ Zeros(2) = Filled(2, 0) /\ 0 \in Byte
    BY DEF Zeros, Filled, Byte
  <2>4. Zeros(4) \in Bytes /\ Len(Zeros(4)) = 4 /\ Zeros(2) \in Bytes /\ Len(Zeros(2)) = 2
    <3>1. \A n \in Nat : Filled(n, 0) \in Bytes /\ Len(Filled(n, 0)) = n
      BY <2>3, FilledBytes
    <3> QED BY <2>3, <3>1
  <2>5. \A t \in Field : t \in Bytes /\ Len(t) = 4
    BY DEF Field
  <2>6. \A t \in Bytes : Len(t) \in {2, 4} => Deep(Bin(t), 0)
    BY <2>1, DeepTexts
  <2> QED BY <2>2, <2>4, <2>5, <2>6
<1>4. Deep(f, 0) /\ Deep(b, 0) /\ Deep(i, 0)
  BY DeepFloat, DeepFlags
<1>5. /\ ArrayHeader(7) = <<151>> /\ ArrayHeader(3) = <<147>> /\ 151 \in Byte /\ 147 \in Byte
      /\ 151 \in FewTags /\ Elements(151) = 7 /\ 147 \in FewTags /\ Elements(147) = 3
  BY DEF ArrayHeader, Byte, FewTags, Elements
<1>6. After(u2, u2 \o <<151>>, <<151>>, 151, 0) /\ After(u4, u4 \o <<147>>, <<147>>, 147, 0)
  BY <1>5, HeldNone, One
<1> HIDE DEF After, u2, u4, un, p1, p2, p3, z4, z2, f, b, i
<1>7. u2 \in Bytes /\ u4 \in Bytes
  BY <1>2 DEF Deep
<1> DEFINE Two(s, a, n) == After(u2, s, a, 151, n)  Four(s, a, n) == After(u4, s, a, 147, n)
<1>8. \A n \in Nat : \A s, a, w : Two(s, a, n) /\ Deep(w, 0) => Two(s \o w, a \o w, n + 1)
  BY <1>1, <1>5, <1>7
<1>9. \A n \in Nat : \A s, a, w : Four(s, a, n) /\ Deep(w, 0) => Four(s \o w, a \o w, n + 1)
  BY <1>1, <1>5, <1>7
<1> HIDE DEF Two, Four
<1>10. \E a : u2 \o <<151>> \o p1 \o p2 \o p3 \o z4 \o z4 \o z2 \o un = u2 \o a /\ Deep(a, 1)
  <2> DEFINE s == u2 \o <<151>> \o p1 \o p2 \o p3 \o z4 \o z4 \o z2 \o un
             a == <<151>> \o p1 \o p2 \o p3 \o z4 \o z4 \o z2 \o un
  <2>0. Two(u2 \o <<151>>, <<151>>, 0)
    BY <1>6 DEF Two
  <2>1. Two(u2 \o <<151>> \o p1, <<151>> \o p1, 0 + 1)
    BY <1>3, <1>8, <2>0
  <2>2. Two(u2 \o <<151>> \o p1 \o p2, <<151>> \o p1 \o p2, 1 + 1)
    BY <1>3, <1>8, <2>1
  <2>3. Two(u2 \o <<151>> \o p1 \o p2 \o p3, <<151>> \o p1 \o p2 \o p3, 2 + 1)
    BY <1>3, <1>8, <2>2
  <2>4. Two(u2 \o <<151>> \o p1 \o p2 \o p3 \o z4, <<151>> \o p1 \o p2 \o p3 \o z4, 3 + 1)
    BY <1>3, <1>8, <2>3
  <2>5. Two(u2 \o <<151>> \o p1 \o p2 \o p3 \o z4 \o z4, <<151>> \o p1 \o p2 \o p3 \o z4 \o z4, 4 + 1)
    BY <1>3, <1>8, <2>4
  <2>6. Two(u2 \o <<151>> \o p1 \o p2 \o p3 \o z4 \o z4 \o z2,
            <<151>> \o p1 \o p2 \o p3 \o z4 \o z4 \o z2, 5 + 1)
    BY <1>3, <1>8, <2>5
  <2>7. Two(s, a, 6 + 1)
    BY <1>2, <1>8, <2>6
  <2> HIDE DEF s, a
  <2>8. Held(a, 151, 7, 0) /\ s = u2 \o a
    BY <2>7 DEF Two, After
  <2>9. Deep(a, 0 + 1)
    BY <1>5, <2>8, HeldAll
  <2>10. \E x : s = u2 \o x /\ Deep(x, 1)
    BY <2>8, <2>9
  <2> QED BY <2>10 DEF s
<1>11. \E a : u4 \o <<147>> \o f \o b \o i = u4 \o a /\ Deep(a, 1)
  <2> DEFINE s == u4 \o <<147>> \o f \o b \o i  a == <<147>> \o f \o b \o i
  <2>0. Four(u4 \o <<147>>, <<147>>, 0)
    BY <1>6 DEF Four
  <2>1. Four(u4 \o <<147>> \o f, <<147>> \o f, 0 + 1)
    BY <1>4, <1>9, <2>0
  <2>2. Four(u4 \o <<147>> \o f \o b, <<147>> \o f \o b, 1 + 1)
    BY <1>4, <1>9, <2>1
  <2>3. Four(s, a, 2 + 1)
    BY <1>4, <1>9, <2>2
  <2> HIDE DEF s, a
  <2>4. Held(a, 147, 3, 0) /\ s = u4 \o a
    BY <2>3 DEF Four, After
  <2>5. Deep(a, 0 + 1)
    BY <1>5, <2>4, HeldAll
  <2>6. \E x : s = u4 \o x /\ Deep(x, 1)
    BY <2>4, <2>5
  <2> QED BY <2>6 DEF s
<1> QED BY <1>5, <1>10, <1>11, Zenon DEF u2, u4, un, p1, p2, p3, z4, z2, f, b, i

\* A telemeter, whatever is in it, is one value: the count at its head is that
\* of the sensors behind it (Telemetry.cpp:106-158 against Msgpack.cpp:182-228).
THEOREM TelemetersAreValues ==
    ASSUME NEW now \in Number, NEW percent \in Number, NEW position \in [1..3 -> Field],
           NEW info \in Bytes, Len(info) < Huge, NEW located \in BOOLEAN, NEW powered \in BOOLEAN
    PROVE  /\ Deep(Telemeter(now, located, position, powered, percent, info), 2)
           /\ OneValue(Telemeter(now, located, position, powered, percent, info))
<1> DEFINE k == Sensors(located, powered)  c == 128 + k  h == MapHeader(k)
           u1 == Uint(Small(1))  u2 == Uint(Small(2))  u4 == Uint(Small(4))  u15 == Uint(Small(15))
           un == Uint(now)  i == Str(info)
           placed == u2 \o ArrayHeader(7) \o Bin(position[1]) \o Bin(position[2])
                      \o Bin(position[3]) \o Bin(Zeros(4)) \o Bin(Zeros(4)) \o Bin(Zeros(2)) \o un
           fed == u4 \o ArrayHeader(3) \o Float64(percent) \o Boolean(FALSE) \o Nil
           l == IF ~located THEN <<>> ELSE placed
           p == IF ~powered THEN <<>> ELSE fed
           t == Telemeter(now, located, position, powered, percent, info)
           L == IF located THEN 4 ELSE 2
           P == IF powered THEN L + 2 ELSE L
<1>1. t = h \o u1 \o un \o l \o p \o u15 \o i
  BY Zenon DEF Telemeter
<1>2. Deep(u1, 0) /\ Deep(u2, 0) /\ Deep(u4, 0) /\ Deep(u15, 0) /\ Deep(un, 0) /\ Deep(i, 0)
  <2>1. 1 \in Byte /\ 2 \in Byte /\ 4 \in Byte /\ 15 \in Byte
    BY DEF Byte
  <2>2. Small(1) \in Number /\ Small(2) \in Number /\ Small(4) \in Number /\ Small(15) \in Number
    BY <2>1, SmallIs
  <2> QED BY <2>2, DeepUint, DeepTexts
<1>3. \A e : Deep(e, 0) => Deep(e, 1)
  BY DeepMore
<1>4. (\E a : placed = u2 \o a /\ Deep(a, 1)) /\ (\E a : fed = u4 \o a /\ Deep(a, 1))
  BY PlaceAndPower, Zenon
<1>5. k \in 2..4 /\ 2 * k = P + 2
  BY DEF Sensors
<1>6. L \in Nat /\ P \in Nat
  OBVIOUS
<1>7. h = <<c>> /\ c \in FewTags /\ c \in Byte /\ Elements(c) = P + 2
  <2> HIDE DEF k, P
  <2>1. (128 + k) % 16 = k
    BY <1>5
  <2> QED BY <1>5, <2>1 DEF MapHeader, FewTags, Byte, Elements
<1> DEFINE H(s, n) == Held(s, c, n, 1)
<1>8. \A n \in Nat : \A s, w : H(s, n) /\ Deep(w, 1) => H(s \o w, n + 1)
  BY <1>7, HeldMore
<1>9. \A n \in Nat : \A s, w, x : H(s, n) /\ Deep(w, 1) /\ Deep(x, 1) => H(s \o (w \o x), n + 2)
  BY <1>7, HeldPair
<1>10. H(h, 0)
  BY <1>7, HeldNone
<1> HIDE DEF H, h, c, k, u1, u2, u4, u15, un, i, placed, fed
<1>11. Deep(u1, 1) /\ Deep(u2, 1) /\ Deep(u4, 1) /\ Deep(u15, 1) /\ Deep(un, 1) /\ Deep(i, 1)
  BY <1>2, <1>3
<1>12. H(h \o u1, 0 + 1)
  BY <1>8, <1>10, <1>11
<1>13. H(h \o u1 \o un, 1 + 1)
  BY <1>8, <1>11, <1>12
<1> DEFINE s == h \o u1 \o un
<1>14. H(s, 2) /\ s \in Bytes
  <2>1. H(s, 2)
    BY <1>13
  <2>2. PICK v \in Bytes : s = <<c>> \o v
    BY <2>1 DEF H, Held, Row
  <2>3. <<c>> \in Bytes
    BY <1>7, One
  <2> HIDE DEF s
  <2> QED BY <2>1, <2>2, <2>3, CatLen
<1> HIDE DEF s
<1>15. H(s \o l, L) /\ s \o l \in Bytes
  <2>1. CASE ~located
    <3>1. s \o l = s
      BY <1>14, <2>1, Empty
    <3> QED BY <1>14, <2>1, <3>1
  <2>2. CASE located
    <3>1. PICK a : placed = u2 \o a /\ Deep(a, 1)
      BY <1>4
    <3>2. H(s \o (u2 \o a), 2 + 2)
      BY <1>9, <1>11, <1>14, <3>1
    <3>3. s \o (u2 \o a) \in Bytes
      <4>1. u2 \in Bytes /\ a \in Bytes
        BY <1>11, <3>1 DEF Deep
      <4>2. u2 \o a \in Bytes
        BY <4>1, CatLen
      <4> QED BY <1>14, <4>2, CatLen
    <3> QED BY <2>2, <3>1, <3>2, <3>3
  <2> QED BY <2>1, <2>2
<1> DEFINE sl == s \o l
<1> HIDE DEF l, L
<1>16. H(sl, L) /\ sl \in Bytes
  BY <1>15
<1> HIDE DEF sl
<1>17. H(sl \o p, P)
  <2>1. CASE ~powered
    <3>1. sl \o p = sl
      BY <1>16, <2>1, Empty
    <3> QED BY <1>16, <2>1, <3>1
  <2>2. CASE powered
    <3>1. PICK a : fed = u4 \o a /\ Deep(a, 1)
      BY <1>4
    <3>2. H(sl \o (u4 \o a), L + 2)
      BY <1>6, <1>9, <1>11, <1>16, <3>1
    <3> QED BY <2>2, <3>1, <3>2
  <2> QED BY <2>1, <2>2
<1> HIDE DEF p, P
<1>18. H(sl \o p \o u15, P + 1)
  BY <1>6, <1>8, <1>11, <1>17
<1>19. H(sl \o p \o u15 \o i, (P + 1) + 1)
  <2> DEFINE q == P + 1  y == sl \o p \o u15
  <2>1. q \in Nat /\ H(y, q)
    BY <1>6, <1>18
  <2> HIDE DEF q, y
  <2>2. H(y \o i, q + 1)
    BY <1>8, <1>11, <2>1
  <2> QED BY <2>2 DEF q, y
<1> HIDE DEF t
<1>20. Held(t, c, Elements(c), 1)
  <2>1. (P + 1) + 1 = P + 2
    BY <1>6
  <2>2. t = sl \o p \o u15 \o i
    BY <1>1 DEF sl, s
  <2> QED BY <1>7, <1>19, <2>1, <2>2 DEF H
<1>21. Deep(t, 1 + 1)
  BY <1>7, <1>20, HeldAll
<1>22. Deep(t, 2) /\ OneValue(t)
  BY <1>21, DeepIsOneValue
<1> QED BY <1>22 DEF t

\* So is the field of a message that carries a telemeter: a map of one entry, with
\* the telemeter as bytes in it (Telemetry.cpp:160-184 against Msgpack.cpp:182-228).
THEOREM FieldsAreValues ==
    \A tele \in Bytes : Len(tele) < Huge =>
        Deep(TelemetryFields(tele), 1) /\ OneValue(TelemetryFields(tele))
<1> SUFFICES ASSUME NEW tele \in Bytes, Len(tele) < Huge
             PROVE  Deep(TelemetryFields(tele), 1) /\ OneValue(TelemetryFields(tele))
  OBVIOUS
<1> DEFINE u == Uint(Small(2))  b == Bin(tele)
<1>1. TelemetryFields(tele) = <<129>> \o u \o b
  BY DEF TelemetryFields, MapHeader
<1>2. 129 \in Byte /\ 129 \in FewTags /\ Elements(129) = 2 /\ 2 \in Byte
  BY DEF Byte, FewTags, Elements
<1>3. Deep(u, 0) /\ Deep(b, 0)
  BY <1>2, SmallIs, DeepUint, DeepTexts
<1> HIDE DEF u, b
<1>4. Held(<<129>>, 129, 0, 0)
  BY <1>2, HeldNone
<1>5. Held(<<129>> \o u, 129, 0 + 1, 0)
  BY <1>2, <1>3, <1>4, HeldMore
<1>6. Held(<<129>> \o u \o b, 129, 1 + 1, 0)
  BY <1>2, <1>3, <1>5, HeldMore
<1>7. Deep(TelemetryFields(tele), 0 + 1)
  <2> DEFINE f == TelemetryFields(tele)
  <2>1. Held(f, 129, Elements(129), 0)
    BY <1>1, <1>2, <1>6
  <2> HIDE DEF f
  <2> QED BY <1>2, <2>1, HeldAll DEF f
<1> QED BY <1>7, DeepIsOneValue

\* So is the payload of every message the node packs, the answer to a command
\* and the telemetry it sends of its own accord: an array of the time, no title,
\* the text and the fields, a map that is empty or the caller's (Lxmf.cpp:72-85
\* against Msgpack.cpp:182-228).
THEOREM PayloadsAreValues ==
    ASSUME NEW time \in Number, NEW content \in Bytes, Len(content) < Huge,
           NEW fields, fields = <<>> \/ Deep(fields, 1)
    PROVE  /\ Deep(Payload(time, content, fields), 2)
           /\ OneValue(Payload(time, content, fields))
<1> DEFINE f == Float64(time)  e == Bin(NoContent)  b == Bin(content)  z == FieldsOf(fields)
           p == Payload(time, content, fields)
<1>1. p = (((<<148>> \o f) \o e) \o b) \o z
  <2>1. ArrayHeader(4) = <<148>>
    BY DEF ArrayHeader
  <2> QED BY <2>1 DEF Payload, FieldsOf
<1>2. /\ 148 \in Byte /\ 148 \in FewTags /\ Elements(148) = 4
      /\ 128 \in Byte /\ 128 \in FewTags /\ Elements(128) = 0
  BY DEF Byte, FewTags, Elements
<1>3. Deep(f, 1) /\ Deep(e, 1) /\ Deep(b, 1)
  <2>1. <<>> \in Bytes /\ Len(<<>>) = 0 /\ 0 < Huge
    BY DEF Bytes, Huge
  <2>2. Deep(f, 0) /\ Deep(e, 0) /\ Deep(b, 0)
    BY <2>1, DeepFloat, DeepTexts DEF NoContent
  <2> QED BY <2>2, DeepMore
<1>4. Deep(z, 1)
  <2>1. CASE fields = <<>>
    <3>1. Held(<<128>>, 128, Elements(128), 0)
      BY <1>2, HeldNone
    <3>2. Deep(<<128>>, 0 + 1)
      BY <1>2, <3>1, HeldAll
    <3>3. z = <<128>>
      BY <2>1 DEF FieldsOf, MapHeader
    <3> QED BY <3>2, <3>3
  <2>2. CASE fields # <<>>
    BY <2>2 DEF FieldsOf
  <2> QED BY <2>1, <2>2
<1> HIDE DEF f, e, b, z, p
<1> DEFINE H(s, n) == Held(s, 148, n, 1)
<1>5. \A n \in Nat : \A s, w : H(s, n) /\ Deep(w, 1) => H(s \o w, n + 1)
  BY <1>2, HeldMore
<1>6. H(<<148>>, 0)
  BY <1>2, HeldNone
<1> HIDE DEF H
<1>7. H(<<148>> \o f, 0 + 1)
  BY <1>3, <1>5, <1>6
<1>8. H((<<148>> \o f) \o e, 1 + 1)
  BY <1>3, <1>5, <1>7
<1>9. H(((<<148>> \o f) \o e) \o b, 2 + 1)
  BY <1>3, <1>5, <1>8
<1>10. H((((<<148>> \o f) \o e) \o b) \o z, 3 + 1)
  BY <1>4, <1>5, <1>9
<1>11. Held(p, 148, Elements(148), 1)
  BY <1>1, <1>2, <1>10 DEF H
<1>12. Deep(p, 1 + 1)
  BY <1>2, <1>11, HeldAll
<1> QED BY <1>12, DeepIsOneValue DEF p

-----------------------------------------------------------------------------
(***************************************************************************)
(* Values at the boundaries of the encodings                               *)
(***************************************************************************)
Front(k) == IF k % 2 = 0 THEN ArrayHeader(2) \o Nil ELSE MapHeader(1) \o Boolean(TRUE)
NestTag(k) == IF k % 2 = 0 THEN 146 ELSE 129
NestFirst(k) == IF k % 2 = 0 THEN Nil ELSE Boolean(TRUE)

LEMMA FrontIs ==
    ASSUME NEW k \in Nat
    PROVE  /\ Front(k) = <<NestTag(k)>> \o NestFirst(k) /\ Front(k) \in Bytes
           /\ Deep(NestFirst(k), 0) /\ NestTag(k) \in FewTags /\ NestTag(k) \in Byte
           /\ Elements(NestTag(k)) = 2
<1>1. ArrayHeader(2) = <<146>> /\ MapHeader(1) = <<129>>
  BY DEF ArrayHeader, MapHeader
<1>2. Front(k) = <<NestTag(k)>> \o NestFirst(k)
  BY <1>1 DEF Front, NestTag, NestFirst
<1>3. Deep(NestFirst(k), 0)
  BY DeepFlags DEF NestFirst
<1>4. NestTag(k) \in FewTags /\ NestTag(k) \in Byte /\ Elements(NestTag(k)) = 2
  BY DEF NestTag, FewTags, Byte, Elements
<1>5. Front(k) \in Bytes
  <2>1. <<NestTag(k)>> \in Bytes /\ NestFirst(k) \in Bytes
    BY <1>3, <1>4, One DEF Deep
  <2> QED BY <1>2, <2>1, CatLen
<1> QED BY <1>2, <1>3, <1>4, <1>5

LEMMA NestedUnfolds ==
    /\ Nested[0] = Nil
    /\ \A k \in Nat : Nested[k + 1] = Front(k + 1) \o Nested[k]
<1> DEFINE F == [p \in Nat \X Bytes |-> Front(p[1] + 1) \o p[2]]
           All(g) == [k \in Nat |-> IF k = 0 THEN Nil ELSE Front(k) \o g[k - 1]]
           a == CHOOSE g : g = All(g)
<1>1. StepOn(F, Bytes)
  <2>1. ASSUME NEW p \in Nat \X Bytes PROVE Front(p[1] + 1) \o p[2] \in Bytes
    <3>1. p[1] + 1 \in Nat /\ p[2] \in Bytes
      OBVIOUS
    <3> QED BY <3>1, FrontIs, CatLen
  <2> QED BY <2>1 DEF StepOn
<1>2. Nil \in Bytes
  BY DeepFlags DEF Deep
<1>3. PICK h : Iterates(h, Bytes, Nil, F)
  BY <1>1, <1>2, Iterated, Zenon
<1>4. h \in [Nat -> Bytes] /\ h[0] = Nil /\ \A k \in Nat : h[k + 1] = Front(k + 1) \o h[k]
  <2>1. h \in [Nat -> Bytes] /\ h[0] = Nil /\ \A k \in Nat : h[k + 1] = F[<<k, h[k]>>]
    BY <1>3 DEF Iterates
  <2> SUFFICES ASSUME NEW k \in Nat PROVE h[k + 1] = Front(k + 1) \o h[k]
    BY <2>1
  <2>2. <<k, h[k]>> \in Nat \X Bytes
    BY <2>1
  <2> QED BY <2>1, <2>2
<1>5. h = All(h)
  <2> SUFFICES ASSUME NEW k \in Nat, k # 0 PROVE h[k] = Front(k) \o h[k - 1]
    BY <1>4
  <2>1. k - 1 \in Nat /\ (k - 1) + 1 = k
    OBVIOUS
  <2> QED BY <1>4, <2>1
<1>6. a = All(a)
  BY <1>5
<1>7. Nested = a
  BY Zenon DEF Nested, Front
<1> HIDE DEF a
<1>8. a[0] = Nil
  BY <1>6
<1>9. \A k \in Nat : a[k + 1] = Front(k + 1) \o a[k]
  <2> SUFFICES ASSUME NEW k \in Nat PROVE a[k + 1] = Front(k + 1) \o a[k]
    OBVIOUS
  <2>1. k + 1 \in Nat /\ k + 1 # 0 /\ (k + 1) - 1 = k
    OBVIOUS
  <2> QED BY <1>6, <2>1
<1> QED BY <1>7, <1>8, <1>9

LEMMA NestedDeep == \A k \in Nat : Deep(Nested[k], k)
<1> DEFINE S == {k \in Nat : Deep(Nested[k], k)}
<1>1. 0 \in S
  BY NestedUnfolds, DeepFlags
<1>2. ASSUME NEW k \in Nat, k \in S PROVE k + 1 \in S
  <2> DEFINE f == NestFirst(k + 1)  c == NestTag(k + 1)  e == Nested[k]
  <2>1. /\ Front(k + 1) = <<c>> \o f /\ Deep(f, 0) /\ c \in FewTags /\ c \in Byte
        /\ Elements(c) = 2
    BY FrontIs
  <2>2. Nested[k + 1] = (<<c>> \o f) \o e /\ Deep(e, k)
    BY <1>2, <2>1, NestedUnfolds
  <2> HIDE DEF f, c, e
  <2>3. Held(<<c>>, c, 0, k) /\ Deep(f, k)
    BY <2>1, HeldNone, DeepMore
  <2>4. Held(<<c>> \o f, c, 0 + 1, k)
    BY <2>1, <2>3, HeldMore
  <2> DEFINE y == <<c>> \o f
  <2>5. Held(y, c, 1, k)
    BY <2>4
  <2> HIDE DEF y
  <2>6. Held(y \o e, c, 1 + 1, k)
    BY <2>1, <2>2, <2>5, HeldMore
  <2>7. Deep(y \o e, k + 1)
    BY <2>1, <2>6, HeldAll
  <2>8. Deep(Nested[k + 1], k + 1)
    BY <2>2, <2>7 DEF y
  <2> QED BY <2>8
<1> HIDE DEF S
<1>3. \A k \in Nat : k \in S
  BY <1>1, <1>2, Inductive
<1> QED BY <1>3 DEF S

\* A value nine deep is refused.
LEMMA NestedRefused == \A k \in 0..9 : SkipDepth[9 - k][Nested[k]] = Fail
<1> DEFINE S == {k \in Nat : k <= 9 => SkipDepth[9 - k][Nested[k]] = Fail}
<1>0. \A k \in Nat : Nested[k] \in Bytes
  BY NestedDeep DEF Deep
<1>1. 0 \in S
  <2>1. SkipDepth[9] = Refuse
    BY SkipUnfolds
  <2> QED BY <1>0, <2>1 DEF Refuse
<1>2. ASSUME NEW k \in Nat, k \in S PROVE k + 1 \in S
  <2> SUFFICES ASSUME k + 1 <= 9 PROVE SkipDepth[9 - (k + 1)][Nested[k + 1]] = Fail
    OBVIOUS
  <2> DEFINE f == NestFirst(k + 1)  c == NestTag(k + 1)  e == Nested[k]  g == SkipDepth[9 - k]
             s == f \o e
  <2>1. /\ Front(k + 1) = <<c>> \o f /\ Deep(f, 0) /\ c \in FewTags /\ c \in Byte
        /\ Elements(c) = 2
    BY FrontIs
  <2>2. Nested[k + 1] = (<<c>> \o f) \o e /\ e \in Bytes
    BY <1>0, <2>1, NestedUnfolds
  <2>3. 9 - (k + 1) \in 0..8 /\ (9 - (k + 1)) + 1 = 9 - k /\ 9 - k \in 0..9
    OBVIOUS
  <2>4. SkipDepth[9 - (k + 1)] = Level(g) /\ g[e] = Fail
    BY <1>2, <2>3, SkipUnfolds
  <2>5. Local(g)
    BY <2>3, SkipUnfolds
  <2>6. k # 0 => Passes(g, f)
    <3>1. k # 0 => 9 - k \in 0 .. 8 - 0
      BY <2>3
    <3> QED BY <2>1, <3>1 DEF Deep
  <2>7. k = 0 => g = Refuse
    BY SkipUnfolds
  <2> HIDE DEF f, c, e, g
  <2>8. f \in Bytes /\ s \in Bytes /\ <<c>> \in Bytes
    <3>1. f \in Bytes
      BY <2>1 DEF Deep
    <3> QED BY <2>1, <2>2, <3>1, CatLen, One
  <2>9. (<<c>> \o f) \o e = <<c>> \o s
    BY <2>2, <2>8, Assoc
  <2>10. g \in [Bytes -> Results]
    BY <2>5 DEF Local
  <2>11. g[s] = Fail \/ g[s] = Read(<<>>, e)
    BY <2>2, <2>6, <2>7, <2>8 DEF Passes, Refuse
  <2> HIDE DEF s
  <2>12. SkipMany(g, s, 0) = Read(<<>>, s)
    BY <2>8, <2>10, ManySteps
  <2>13. SkipMany(g, s, 0 + 1) = Onward(g, SkipMany(g, s, 0)) /\ SkipMany(g, s, 1 + 1) = Onward(g, SkipMany(g, s, 1))
    BY <2>8, <2>10, ManySteps
  <2>14. SkipMany(g, s, 1) = g[s]
    BY <2>8, <2>12, <2>13, ResultIs DEF Onward
  <2>15. SkipMany(g, s, 2) = Fail
    BY <2>2, <2>4, <2>11, <2>13, <2>14, ResultIs DEF Onward
  <2>16. SkipTagged(g, c, s) = SkipMany(g, s, 2)
    BY <2>1, Tagged
  <2>17. Level(g)[<<c>> \o s] = SkipTagged(g, c, s)
    BY <2>1, <2>8, LevelTag
  <2> QED BY <2>2, <2>4, <2>9, <2>15, <2>16, <2>17
<1> HIDE DEF S
<1>3. \A k \in Nat : k \in S
  BY <1>1, <1>2, Inductive
<1> QED BY <1>3 DEF S

\* n bytes that are numbers each
LEMMA RowOfFives == \A n \in Nat : Row(Filled(n, 5), n, 0)
<1> DEFINE S == {n \in Nat : Row(Filled(n, 5), n, 0)}
<1>0. 5 \in Byte /\ 5 \in PlainTags
  BY DEF Byte, PlainTags
<1>1. 0 \in S
  <2>1. Filled(0, 5) = <<>>
    <3>1. Filled(0, 5) \in Bytes /\ Len(Filled(0, 5)) = 0
      BY <1>0, FilledBytes
    <3> QED BY <3>1 DEF Bytes
  <2>2. Row(<<>>, 0, 0)
    BY RowNone
  <2> QED BY <2>1, <2>2
<1>2. ASSUME NEW n \in Nat, n \in S PROVE n + 1 \in S
  <2> DEFINE a == Filled(n, 5)  b == Filled(n + 1, 5)  c == <<5>>
  <2>1. /\ a \in Bytes /\ Len(a) = n /\ \A i \in 1..n : a[i] = 5
        /\ b \in Bytes /\ Len(b) = n + 1 /\ \A i \in 1 .. n + 1 : b[i] = 5
    <3>1. \A m \in Nat : /\ Filled(m, 5) \in Bytes /\ Len(Filled(m, 5)) = m
                         /\ \A i \in 1..m : Filled(m, 5)[i] = 5
      BY <1>0, FilledBytes
    <3> QED BY <3>1
  <2>2. c \in Bytes /\ Len(c) = 1 /\ c[1] = 5
    BY <1>0, One
  <2>3. Row(a, n, 0) /\ Deep(c, 0)
    BY <1>0, <1>2, DeepPlain
  <2> HIDE DEF a, b, c
  <2>4. Row(a \o c, n + 1, 0)
    BY <2>3, RowMore
  <2>5. a \o c = b
    <3>1. /\ a \o c \in Bytes /\ Len(a \o c) = Len(a) + Len(c)
          /\ \A i \in 1 .. Len(a) : (a \o c)[i] = a[i]
          /\ \A i \in 1 .. Len(c) : (a \o c)[Len(a) + i] = c[i]
      BY <2>1, <2>2, Cat, Zenon
    <3>2. Len(a \o c) = Len(b)
      BY <2>1, <2>2, <3>1
    <3>3. ASSUME NEW i \in 1 .. n + 1 PROVE (a \o c)[i] = b[i]
      <4>1. CASE i \in 1 .. n
        BY <2>1, <3>1, <4>1
      <4>2. CASE i = n + 1
        <5>1. 1 \in 1 .. Len(c)
          BY <2>2
        <5>2. (a \o c)[n + 1] = c[1]
          BY <2>1, <3>1, <5>1
        <5> QED BY <2>1, <2>2, <4>2, <5>2
      <4>3. i \in 1 .. n \/ i = n + 1
        OBVIOUS
      <4> QED BY <4>1, <4>2, <4>3
    <3> DEFINE ac == a \o c
    <3>4. ac \in Bytes /\ Len(ac) = Len(b) /\ \A i \in 1 .. Len(ac) : ac[i] = b[i]
      BY <2>1, <3>1, <3>2, <3>3
    <3> HIDE DEF ac
    <3>5. ac = b
      BY <2>1, <3>4, Same
    <3> QED BY <3>5 DEF ac
  <2>6. Row(b, n + 1, 0)
    BY <2>4, <2>5
  <2> QED BY <2>6 DEF b
<1> HIDE DEF S
<1>3. \A n \in Nat : n \in S
  BY <1>1, <1>2, Inductive
<1> QED BY <1>3 DEF S

LEMMA Lead ==
    ASSUME NEW c \in Byte, NEW b \in Bytes, NEW s \in Bytes, Len(s) = 1 + Len(b), s[1] = c,
           \A i \in 1 .. Len(b) : s[1 + i] = b[i]
    PROVE  <<c>> \o b = s
<1> DEFINE t == <<c>>  u == t \o b
<1>1. t \in Bytes /\ Len(t) = 1 /\ t[1] = c
  BY One
<1> HIDE DEF t
<1>2. /\ u \in Bytes /\ Len(u) = Len(t) + Len(b) /\ Len(b) \in Nat
      /\ \A i \in 1 .. Len(t) : u[i] = t[i]
      /\ \A i \in 1 .. Len(b) : u[Len(t) + i] = b[i]
  BY <1>1, Cat, Zenon
<1> HIDE DEF u
<1>3. ASSUME NEW i \in 1 .. Len(u) PROVE u[i] = s[i]
  <2>1. CASE i = 1
    <3>1. 1 \in 1 .. Len(t)
      BY <1>1
    <3> QED BY <1>1, <1>2, <2>1, <3>1
  <2>2. CASE i # 1
    <3>1. i - 1 \in 1 .. Len(b) /\ 1 + (i - 1) = i
      BY <1>1, <1>2, <2>2
    <3>2. u[1 + (i - 1)] = b[i - 1] /\ s[1 + (i - 1)] = b[i - 1]
      BY <1>1, <1>2, <3>1
    <3> QED BY <3>1, <3>2
  <2> QED BY <2>1, <2>2
<1>4. u = s
  BY <1>1, <1>2, <1>3, Same
<1> QED BY <1>4 DEF u, t

\* A tag and the bytes of a length, written as one.
LEMMA Spelled ==
    /\ <<199>> \o <<3>> = <<199, 3>>
    /\ <<200>> \o <<0, 3>> = <<200, 0, 3>>
    /\ <<201>> \o <<0, 0, 0, 3>> = <<201, 0, 0, 0, 3>>
    /\ <<220>> \o <<0, 2>> = <<220, 0, 2>>
    /\ <<221>> \o <<0, 0, 0, 1>> = <<221, 0, 0, 0, 1>>
    /\ <<222>> \o <<0, 1>> = <<222, 0, 1>>
    /\ <<223>> \o <<0, 0, 0, 1>> = <<223, 0, 0, 0, 1>>
<1>1. ASSUME NEW c \in Byte, NEW x \in Byte PROVE <<c>> \o <<x>> = <<c, x>>
  <2>1. /\ <<x>> \in Bytes /\ <<c, x>> \in Bytes /\ Len(<<x>>) = 1 /\ Len(<<c, x>>) = 1 + 1
        /\ <<c, x>>[1] = c /\ \A i \in 1..1 : <<c, x>>[1 + i] = <<x>>[i]
    BY DEF Bytes
  <2> QED BY <2>1, Lead
<1>2. ASSUME NEW c \in Byte, NEW x \in Byte, NEW y \in Byte PROVE <<c>> \o <<x, y>> = <<c, x, y>>
  <2>1. /\ <<x, y>> \in Bytes /\ <<c, x, y>> \in Bytes
        /\ Len(<<x, y>>) = 2 /\ Len(<<c, x, y>>) = 1 + 2
        /\ <<c, x, y>>[1] = c /\ \A i \in 1..2 : <<c, x, y>>[1 + i] = <<x, y>>[i]
    BY DEF Bytes
  <2> QED BY <2>1, Lead
<1>3. ASSUME NEW c \in Byte, NEW x \in Byte, NEW y \in Byte, NEW z \in Byte, NEW w \in Byte
      PROVE  <<c>> \o <<x, y, z, w>> = <<c, x, y, z, w>>
  <2>1. /\ <<x, y, z, w>> \in Bytes /\ <<c, x, y, z, w>> \in Bytes
        /\ Len(<<x, y, z, w>>) = 4 /\ Len(<<c, x, y, z, w>>) = 1 + 4
        /\ <<c, x, y, z, w>>[1] = c
        /\ \A i \in 1..4 : <<c, x, y, z, w>>[1 + i] = <<x, y, z, w>>[i]
    BY DEF Bytes
  <2> QED BY <2>1, Lead
<1>4. /\ 0 \in Byte /\ 1 \in Byte /\ 2 \in Byte /\ 3 \in Byte /\ 199 \in Byte /\ 200 \in Byte
      /\ 201 \in Byte /\ 220 \in Byte /\ 221 \in Byte /\ 222 \in Byte /\ 223 \in Byte
  BY DEF Byte
<1>5. <<199>> \o <<3>> = <<199, 3>>
  BY <1>1, <1>4
<1>6. /\ <<200>> \o <<0, 3>> = <<200, 0, 3>> /\ <<220>> \o <<0, 2>> = <<220, 0, 2>>
      /\ <<222>> \o <<0, 1>> = <<222, 0, 1>>
  BY <1>2, <1>4
<1>7. /\ <<201>> \o <<0, 0, 0, 3>> = <<201, 0, 0, 0, 3>>
      /\ <<221>> \o <<0, 0, 0, 1>> = <<221, 0, 0, 0, 1>>
      /\ <<223>> \o <<0, 0, 0, 1>> = <<223, 0, 0, 0, 1>>
  BY <1>3, <1>4
<1> QED BY <1>5, <1>6, <1>7

\* An extension, of a fixed length or of one given, and the counts of two bytes
\* and of four.
LEMMA ForeignAre == \A e \in Foreign : OneValue(e)
<1>0. \A n \in Nat, b \in Byte : Filled(n, b) \in Bytes /\ Len(Filled(n, b)) = n
  BY FilledBytes
<1>1. 1 \in Byte /\ 5 \in Byte /\ 7 \in Byte
  BY DEF Byte
<1>2. ASSUME NEW k \in 1..5 PROVE Deep(<<211 + k>> \o Filled(2 ^ (k - 1) + 1, 7), 0)
  <2> DEFINE n == <<2, 3, 5, 9, 17>>[k]
  <2>1. 2 ^ (k - 1) + 1 = n /\ n \in Nat
    <3>1. CASE k = 1
      BY <3>1
    <3>2. CASE k = 2
      BY <3>2
    <3>3. CASE k = 3
      BY <3>3
    <3>4. CASE k = 4
      BY <3>4
    <3>5. CASE k = 5
      BY <3>5
    <3> QED BY <3>1, <3>2, <3>3, <3>4, <3>5
  <2>2. 211 + k \in FixedTags /\ Behind(211 + k) = n
    BY DEF FixedTags, Behind
  <2> HIDE DEF n
  <2>3. Filled(n, 7) \in Bytes /\ Len(Filled(n, 7)) = n
    BY <1>0, <1>1, <2>1
  <2>4. Deep(<<211 + k>> \o Filled(n, 7), 0)
    BY <2>2, <2>3, DeepFixed
  <2> QED BY <2>1, <2>4
<1>3. ASSUME NEW c \in 199..201, NEW b \in Bytes, Len(b) = LengthOf(c - 3), PlusOne(b) = 4
      PROVE  Deep((<<c>> \o b) \o Filled(4, 7), 0)
  <2>1. c \in LengthTags /\ LengthWidth(c) = LengthOf(c - 3) /\ LengthBehind(c, b) = PlusOne(b)
    BY DEF LengthTags, LengthWidth, LengthBehind
  <2>2. Filled(4, 7) \in Bytes /\ Len(Filled(4, 7)) = 4
    BY <1>0, <1>1
  <2> DEFINE u == Filled(4, 7)
  <2> HIDE DEF u
  <2>3. u \in Bytes /\ Len(u) = LengthBehind(c, b) /\ Len(b) = LengthWidth(c)
    BY <1>3, <2>1, <2>2 DEF u
  <2>4. Deep((<<c>> \o b) \o u, 0)
    BY <2>1, <2>3, DeepLength
  <2> QED BY <2>4 DEF u
<1>b. \A c \in 199..201, b \in Bytes :
        Len(b) = LengthOf(c - 3) /\ PlusOne(b) = 4 => Deep((<<c>> \o b) \o Filled(4, 7), 0)
  BY <1>3
<1>4. /\ Deep(<<199, 3>> \o Filled(4, 7), 0)
      /\ Deep(<<200, 0, 3>> \o Filled(4, 7), 0)
      /\ Deep(<<201, 0, 0, 0, 3>> \o Filled(4, 7), 0)
  <2>1. /\ <<3>> \in Bytes /\ Len(<<3>>) = 1 /\ <<0, 3>> \in Bytes /\ Len(<<0, 3>>) = 2
        /\ <<0, 0, 0, 3>> \in Bytes /\ Len(<<0, 0, 0, 3>>) = 4
    BY DEF Bytes, Byte
  <2>a. /\ <<199>> \o <<3>> = <<199, 3>>
        /\ <<200>> \o <<0, 3>> = <<200, 0, 3>>
        /\ <<201>> \o <<0, 0, 0, 3>> = <<201, 0, 0, 0, 3>>
    BY <1>1, Spelled
  <2>2. Value(<<3>>) = 3 /\ Value(<<0, 3>>) = 3 /\ Value(<<0, 0, 0, 3>>) = 3
    BY DEF Value
  <2>3. <<3>> # <<255, 255, 255, 255>> /\ <<0, 3>> # <<255, 255, 255, 255>>
        /\ <<0, 0, 0, 3>> # <<255, 255, 255, 255>>
    OBVIOUS
  <2>4. PlusOne(<<3>>) = 4 /\ PlusOne(<<0, 3>>) = 4 /\ PlusOne(<<0, 0, 0, 3>>) = 4
    BY <2>2, <2>3 DEF PlusOne
  <2>5. LengthOf(199 - 3) = 1 /\ LengthOf(200 - 3) = 2 /\ LengthOf(201 - 3) = 4
    BY DEF LengthOf
  <2>6. Deep((<<199>> \o <<3>>) \o Filled(4, 7), 0)
    <3>1. 199 \in 199..201 /\ Len(<<3>>) = LengthOf(199 - 3)
      BY <2>1, <2>5
    <3> QED BY <1>b, <2>1, <2>4, <3>1, Zenon
  <2>7. Deep((<<200>> \o <<0, 3>>) \o Filled(4, 7), 0)
    <3>1. 200 \in 199..201 /\ Len(<<0, 3>>) = LengthOf(200 - 3)
      BY <2>1, <2>5
    <3> QED BY <1>b, <2>1, <2>4, <3>1, Zenon
  <2>8. Deep((<<201>> \o <<0, 0, 0, 3>>) \o Filled(4, 7), 0)
    <3>1. 201 \in 199..201 /\ Len(<<0, 0, 0, 3>>) = LengthOf(201 - 3)
      BY <2>1, <2>5
    <3> QED BY <1>b, <2>1, <2>4, <3>1, Zenon
  <2> QED BY <2>a, <2>6, <2>7, <2>8
<1>5. Row(Nil, 1, 0) /\ Row(Nil \o Nil, 2, 0) /\ Nil \in Bytes
  <2>1. Deep(Nil, 0)
    BY DeepFlags
  <2>2. Nil \in Bytes /\ <<>> \o Nil = Nil
    BY <2>1, Empty DEF Deep
  <2>3. Row(<<>> \o Nil, 0 + 1, 0)
    BY <2>1, RowNone, RowMore
  <2>4. Row(Nil, 1, 0)
    BY <2>2, <2>3
  <2>5. Row(Nil \o Nil, 1 + 1, 0)
    BY <2>1, <2>4, RowMore
  <2> QED BY <2>2, <2>4, <2>5
<1>6. ASSUME NEW c \in ManyTags, NEW b \in Bytes, Len(b) = CountWidthOf(c), NEW v, NEW n,
             CountBehind(c, b) = n, Row(v, n, 0)
      PROVE  Deep((<<c>> \o b) \o v, 1)
  <2>1. Deep((<<c>> \o b) \o v, 0 + 1)
    BY <1>6, DeepMany
  <2> QED BY <2>1
<1>7. /\ Deep(<<220, 0, 2>> \o Nil \o Nil, 1) /\ Deep(<<221, 0, 0, 0, 1>> \o Nil, 1)
      /\ Deep(<<222, 0, 1>> \o Nil \o Nil, 1) /\ Deep(<<223, 0, 0, 0, 1>> \o Nil \o Nil, 1)
  <2>1. /\ <<0, 1>> \in Bytes /\ Len(<<0, 1>>) = 2 /\ Value(<<0, 1>>) = 1
        /\ <<0, 2>> \in Bytes /\ Len(<<0, 2>>) = 2 /\ Value(<<0, 2>>) = 2
    BY DEF Bytes, Byte, Value
  <2>2. <<0, 0, 0, 1>> \in Bytes /\ Len(<<0, 0, 0, 1>>) = 4 /\ Value(<<0, 0, 0, 1>>) = 1
    BY DEF Bytes, Byte, Value
  <2>3. Twice(<<0, 1>>) = 2 /\ Twice(<<0, 0, 0, 1>>) = 2
    <3>1. 1 < Huge
      BY DEF Huge
    <3>2. \A b \in Bytes : Value(b) = 1 /\ Len(b) \in {2, 4} => Twice(b) = 2
      BY <3>1, TwiceIs
    <3> QED BY <2>1, <2>2, <3>2
  <2>4. /\ CountBehind(220, <<0, 2>>) = 2 /\ CountBehind(221, <<0, 0, 0, 1>>) = 1
        /\ CountBehind(222, <<0, 1>>) = 2 /\ CountBehind(223, <<0, 0, 0, 1>>) = 2
    BY <2>1, <2>2, <2>3 DEF CountBehind
  <2>5. /\ 220 \in ManyTags /\ CountWidthOf(220) = 2 /\ 221 \in ManyTags /\ CountWidthOf(221) = 4
        /\ 222 \in ManyTags /\ CountWidthOf(222) = 2 /\ 223 \in ManyTags /\ CountWidthOf(223) = 4
    BY DEF ManyTags, CountWidthOf
  <2>6. /\ <<220>> \o <<0, 2>> = <<220, 0, 2>> /\ <<222>> \o <<0, 1>> = <<222, 0, 1>>
        /\ <<220, 0, 2>> \in Bytes /\ <<222, 0, 1>> \in Bytes
    <3>1. <<220>> \o <<0, 2>> = <<220, 0, 2>> /\ <<222>> \o <<0, 1>> = <<222, 0, 1>>
      BY Spelled
    <3>2. <<220, 0, 2>> \in Bytes /\ <<222, 0, 1>> \in Bytes
      BY DEF Bytes, Byte
    <3> QED BY <3>1, <3>2
  <2>7. /\ <<221>> \o <<0, 0, 0, 1>> = <<221, 0, 0, 0, 1>>
        /\ <<223>> \o <<0, 0, 0, 1>> = <<223, 0, 0, 0, 1>> /\ <<223, 0, 0, 0, 1>> \in Bytes
    <3>1. /\ <<221>> \o <<0, 0, 0, 1>> = <<221, 0, 0, 0, 1>>
          /\ <<223>> \o <<0, 0, 0, 1>> = <<223, 0, 0, 0, 1>>
      BY Spelled
    <3>2. <<223, 0, 0, 0, 1>> \in Bytes
      BY DEF Bytes, Byte
    <3> QED BY <3>1, <3>2
  <2>8. \A s \in Bytes : (s \o Nil) \o Nil = s \o (Nil \o Nil)
    BY <1>5, Assoc
  <2>9. Deep((<<220>> \o <<0, 2>>) \o (Nil \o Nil), 1)
    BY <1>5, <1>6, <2>1, <2>4, <2>5
  <2>10. Deep((<<221>> \o <<0, 0, 0, 1>>) \o Nil, 1)
    BY <1>5, <1>6, <2>2, <2>4, <2>5
  <2>11. Deep((<<222>> \o <<0, 1>>) \o (Nil \o Nil), 1)
    BY <1>5, <1>6, <2>1, <2>4, <2>5
  <2>12. Deep((<<223>> \o <<0, 0, 0, 1>>) \o (Nil \o Nil), 1)
    BY <1>5, <1>6, <2>2, <2>4, <2>5
  <2>13. Deep(<<220, 0, 2>> \o Nil \o Nil, 1)
    BY <2>6, <2>8, <2>9
  <2>14. Deep(<<222, 0, 1>> \o Nil \o Nil, 1)
    BY <2>6, <2>8, <2>11
  <2>15. Deep(<<223, 0, 0, 0, 1>> \o Nil \o Nil, 1)
    <3>1. (<<223, 0, 0, 0, 1>> \o Nil) \o Nil = <<223, 0, 0, 0, 1>> \o (Nil \o Nil)
      BY <2>7, <2>8
    <3> QED BY <2>7, <2>12, <3>1
  <2>16. Deep(<<221, 0, 0, 0, 1>> \o Nil, 1)
    BY <2>7, <2>10
  <2> QED BY <2>13, <2>14, <2>15, <2>16
<1>8. Deep(<<202>> \o Filled(4, 1), 0)
  <2>1. 202 \in FixedTags /\ Behind(202) = 4
    BY DEF FixedTags, Behind, WidthOf
  <2>2. Filled(4, 1) \in Bytes /\ Len(Filled(4, 1)) = 4
    BY <1>0, <1>1
  <2> QED BY <2>1, <2>2, DeepFixed
<1>9. Deep(MapHeader(16) \o Filled(32, 5), 1)
  <2>1. Row(Filled(32, 5), 2 * 16, 0) /\ 16 < Huge
    BY RowOfFives DEF Huge
  <2>2. Deep(MapHeader(16) \o Filled(32, 5), 0 + 1)
    BY <2>1, DeepHeaders
  <2> QED BY <2>2
<1>10. \A e : Deep(e, 0) \/ Deep(e, 1) => OneValue(e)
  <2>1. 0 \in 0..8 /\ 1 \in 0..8
    OBVIOUS
  <2> QED BY <2>1, DeepIsOneValue
<1> SUFFICES ASSUME NEW e \in Foreign PROVE Deep(e, 0) \/ Deep(e, 1)
  BY <1>10
<1> DEFINE e1 == <<199, 3>> \o Filled(4, 7)  e2 == <<200, 0, 3>> \o Filled(4, 7)
           e3 == <<201, 0, 0, 0, 3>> \o Filled(4, 7)
           e4 == <<220, 0, 2>> \o Nil \o Nil  e5 == <<221, 0, 0, 0, 1>> \o Nil
           e6 == <<222, 0, 1>> \o Nil \o Nil  e7 == <<223, 0, 0, 0, 1>> \o Nil \o Nil
           e8 == <<202>> \o Filled(4, 1)  e9 == MapHeader(16) \o Filled(32, 5)
<1>11. \/ \E k \in 1..5 : e = <<211 + k>> \o Filled(2 ^ (k - 1) + 1, 7)
       \/ e \in {e1, e2, e3, e4, e5, e6, e7, e8, e9}
  BY Zenon DEF Foreign
<1>12. Deep(e1, 0) /\ Deep(e2, 0) /\ Deep(e3, 0) /\ Deep(e8, 0)
       /\ Deep(e4, 1) /\ Deep(e5, 1) /\ Deep(e6, 1) /\ Deep(e7, 1) /\ Deep(e9, 1)
  BY <1>4, <1>7, <1>8, <1>9, Zenon
<1> HIDE DEF e1, e2, e3, e4, e5, e6, e7, e8, e9
<1>13. CASE \E k \in 1..5 : e = <<211 + k>> \o Filled(2 ^ (k - 1) + 1, 7)
  BY <1>2, <1>13, Zenon
<1>14. CASE e \in {e1, e2, e3, e4, e5, e6, e7, e8, e9}
  BY <1>12, <1>14
<1> QED BY <1>11, <1>13, <1>14

LEMMA EncodedAre == \A e \in Encoded : OneValue(e)
<1> SUFFICES ASSUME NEW e \in Encoded PROVE OneValue(e)
  OBVIOUS
<1>1. CASE e \in {Integer(v) : v \in Numbers} \cup {Float64(v) : v \in Numbers}
  <2>1. \A v \in Numbers : OneValue(Integer(v)) /\ OneValue(Float64(v))
    BY NumbersAre, WordsAreValues
  <2> QED BY <1>1, <2>1, Zenon
<1>2. CASE e \in {Str(t) : t \in Strings} \cup {Bin(t) : t \in Strings}
  <2>1. \A t \in Strings : OneValue(Str(t)) /\ OneValue(Bin(t))
    BY StringsAre, WordsAreValues, Zenon
  <2> QED BY <1>2, <2>1, Zenon
<1>3. \A t \in Telemeters : OneValue(t) /\ t \in Bytes /\ Len(t) < Huge
  <2> SUFFICES ASSUME NEW t \in Telemeters PROVE OneValue(t) /\ t \in Bytes /\ Len(t) < Huge
    OBVIOUS
  <2>1. PICK now \in Uptimes, info \in Infos, located \in BOOLEAN, powered \in BOOLEAN :
          t = Telemeter(now, located, Position, powered, Filled(8, 64), info)
    BY DEF Telemeters
  <2> DEFINE percent == Filled(8, 64)
  <2>2. now \in Number /\ percent \in Number /\ info \in Info /\ Position \in [1..3 -> Field]
    BY MeasuresAre
  <2> HIDE DEF percent
  <2>3. t = Telemeter(now, located, Position, powered, percent, info)
    BY <2>1 DEF percent
  <2>4. Fits(t, 199)
    BY <2>2, <2>3, TeleFits
  <2>5. t \in Bytes /\ Len(t) < Huge
    <3>1. t \in Bytes /\ Len(t) <= 199 /\ Len(t) \in Nat
      BY <2>4, LenNat DEF Fits
    <3> QED BY <3>1 DEF Huge
  <2>6. info \in Bytes /\ Len(info) < Huge
    <3>1. info \in Bytes /\ Len(info) <= 95
      BY <2>2 DEF Info
    <3>2. Len(info) \in Nat
      BY <3>1, LenNat
    <3> QED BY <3>1, <3>2 DEF Huge
  <2>7. OneValue(t)
    BY <2>2, <2>3, <2>6, TelemetersAreValues
  <2> QED BY <2>5, <2>7
<1>4. CASE e \in Telemeters \cup {TelemetryFields(t) : t \in Telemeters}
  <2>1. \A t \in Telemeters : OneValue(TelemetryFields(t))
    BY <1>3, FieldsAreValues, Zenon
  <2> QED BY <1>3, <1>4, <2>1, Zenon
<1>5. CASE e \in {AnnounceData(n) : n \in Names}
  <2>1. \A n \in Nat : Filled(n, 78) \in Bytes
    <3>1. 78 \in Byte
      BY DEF Byte
    <3> QED BY <3>1, FilledBytes
  <2>2. \A n \in Names : n \in Bytes
    BY <2>1 DEF Names
  <2> QED BY <1>5, <2>2, AnnouncesAreValues, Zenon
<1>6. CASE e \in {Nested[k] : k \in 0..8}
  <2>1. \A k \in 0..8 : OneValue(Nested[k])
    BY NestedDeep, DeepIsOneValue
  <2> QED BY <1>6, <2>1, Zenon
<1>7. CASE e \in Foreign
  BY <1>7, ForeignAre
<1> QED BY <1>1, <1>2, <1>4, <1>5, <1>6, <1>7, Zenon DEF Encoded

\* Whatever the node writes, and what a client may, is one value, in each of the
\* cases of the runs; nested more than eight deep it is refused (Msgpack.cpp:182-228,
\* Telemetry.cpp:106-184, LxmfPresence.cpp:60-76).
THEOREM CasesSkipped == SkipsOneValue
<1>1. ASSUME NEW e \in Encoded
      PROVE  /\ Skip(e) = Read(<<>>, <<>>) /\ Skip(e \o Next1) = Read(<<>>, Next1)
             /\ \A s \in CutShort(e) : ~Skip(s).ok
  <2>1. e \in Bytes /\ (\A t \in Bytes : Skip(e \o t) = Read(<<>>, t))
        /\ \A k \in 0 .. Len(e) - 1 : ~Skip(SubSeq(e, 1, k)).ok
    BY EncodedAre DEF OneValue
  <2>2. e \o <<>> = e /\ <<>> \in Bytes
    BY <2>1, Empty
  <2>3. Skip(e) = Read(<<>>, <<>>)
    BY <2>1, <2>2
  <2>4. Skip(e \o Next1) = Read(<<>>, Next1)
    BY <2>1, Next1Bytes
  <2>5. \A s \in CutShort(e) : ~Skip(s).ok
    BY <2>1, CutsAre, Zenon
  <2> QED BY <2>3, <2>4, <2>5
<1>2. ~Skip(Nested[9]).ok
  <2>1. SkipDepth[9 - 9][Nested[9]] = Fail
    BY NestedRefused
  <2> QED BY <2>1, ResultIs DEF Skip
<1> QED BY <1>1, <1>2, Zenon DEF SkipsOneValue
=============================================================================
