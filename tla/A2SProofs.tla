------------------------------- MODULE A2SProofs -------------------------------
(***************************************************************************)
(* Theorems about A2S, for servers that say anything, datagrams cut at any *)
(* byte and every size of the buffer.                                      *)
(*                                                                         *)
(* The parser is followed field by field: what is left of a datagram after *)
(* a string is again a string's field cut somewhere (lemma PeelString), so *)
(* parseA2SInfo reads back what InfoBytes laid out (lemma ParseOfInfo).    *)
(***************************************************************************)
EXTENDS A2S, SequenceTheorems, TLAPS

-----------------------------------------------------------------------------
(* Sequences that are cut.                                                 *)

\* The first k bytes of s.
Cut(s, k) == SubSeq(s, 1, k)

LEMMA SubSeqIs ==
  ASSUME NEW X, NEW s \in Seq(X), NEW a \in Nat \ {0}, NEW b \in 0..Len(s),
         a <= b + 1
  PROVE  /\ SubSeq(s, a, b) \in Seq(X)
         /\ Len(SubSeq(s, a, b)) = b - a + 1
         /\ \A i \in 1..b - a + 1 : SubSeq(s, a, b)[i] = s[a + i - 1]
BY SMT

LEMMA JoinIs ==
  ASSUME NEW X, NEW s \in Seq(X), NEW t \in Seq(X), NEW a \in Nat, NEW b \in Nat,
         Len(s) = a, Len(t) = b
  PROVE  /\ s \o t \in Seq(X) /\ Len(s \o t) = a + b
         /\ \A i \in 1..a : (s \o t)[i] = s[i]
         /\ \A i \in 1..b : (s \o t)[a + i] = t[i]
<1>1. s \o t \in Seq(X) /\ Len(s \o t) = a + b
  BY ConcatProperties
<1>2. \A i \in 1..a : (s \o t)[i] = s[i]
  OBVIOUS
<1>3. \A i \in 1..b : (s \o t)[a + i] = t[i]
  OBVIOUS
<1>4. QED
  BY <1>1, <1>2, <1>3

LEMMA CutIs ==
  ASSUME NEW X, NEW s \in Seq(X), NEW k \in 0..Len(s)
  PROVE  /\ Cut(s, k) \in Seq(X)
         /\ Len(Cut(s, k)) = k
         /\ \A i \in 1..k : Cut(s, k)[i] = s[i]
BY SMT DEF Cut

LEMMA CutOfCut ==
  ASSUME NEW X, NEW s \in Seq(X), NEW k \in 0..Len(s), NEW j \in 0..k
  PROVE  Cut(Cut(s, k), j) = Cut(s, j)
<1>1. /\ Cut(s, k) \in Seq(X) /\ Len(Cut(s, k)) = k
      /\ \A i \in 1..k : Cut(s, k)[i] = s[i]
  BY CutIs
<1>2. j \in 0..Len(Cut(s, k)) /\ j \in 0..Len(s)
  BY <1>1
<1>3. /\ Cut(Cut(s, k), j) \in Seq(X) /\ Len(Cut(Cut(s, k), j)) = j
      /\ \A i \in 1..j : Cut(Cut(s, k), j)[i] = Cut(s, k)[i]
  BY <1>1, <1>2, CutIs
<1>4. /\ Cut(s, j) \in Seq(X) /\ Len(Cut(s, j)) = j
      /\ \A i \in 1..j : Cut(s, j)[i] = s[i]
  BY <1>2, CutIs
<1>5. \A i \in 1..j : Cut(Cut(s, k), j)[i] = Cut(s, j)[i]
  BY <1>1, <1>3, <1>4
<1>6. QED
  BY <1>3, <1>4, <1>5, SeqEqual

\* What is left of a cut t \o u behind t is a cut of u.
LEMMA CutBehind ==
  ASSUME NEW X, NEW t \in Seq(X), NEW u \in Seq(X),
         NEW k \in Len(t)..Len(t) + Len(u)
  PROVE  SubSeq(Cut(t \o u, k), Len(t) + 1, k) = Cut(u, k - Len(t))
<1> DEFINE s == t \o u
           c == Cut(s, k)
           l == SubSeq(c, Len(t) + 1, k)
           r == Cut(u, k - Len(t))
<1>1. /\ s \in Seq(X) /\ Len(s) = Len(t) + Len(u)
      /\ \A i \in 1..Len(u) : s[Len(t) + i] = u[i]
  BY SMT
<1>2. Len(t) \in Nat /\ Len(u) \in Nat /\ k \in Nat
  BY SMT
<1> HIDE DEF s
<1>3. /\ c \in Seq(X) /\ Len(c) = k /\ \A i \in 1..k : c[i] = s[i]
  BY <1>1, <1>2, CutIs
<1> HIDE DEF c
<1>4. /\ l \in Seq(X) /\ Len(l) = k - Len(t)
      /\ \A i \in 1..k - Len(t) : l[i] = c[Len(t) + i]
  <2>1. /\ Len(t) + 1 \in Nat \ {0} /\ k \in 0..Len(c) /\ Len(t) + 1 <= k + 1
        /\ k - (Len(t) + 1) + 1 = k - Len(t)
        /\ \A i \in Nat : Len(t) + 1 + i - 1 = Len(t) + i
    BY <1>2, <1>3
  <2>2. /\ l \in Seq(X) /\ Len(l) = k - (Len(t) + 1) + 1
        /\ \A i \in 1..k - (Len(t) + 1) + 1 : l[i] = c[Len(t) + 1 + i - 1]
    BY <1>3, <2>1, SubSeqIs
  <2>3. QED
    BY <2>1, <2>2
<1> HIDE DEF l
<1>5. /\ r \in Seq(X) /\ Len(r) = k - Len(t)
      /\ \A i \in 1..k - Len(t) : r[i] = u[i]
  <2>1. k - Len(t) \in 0..Len(u)
    BY <1>2
  <2>2. QED
    BY <2>1, CutIs
<1> HIDE DEF r
<1>6. \A i \in 1..k - Len(t) : l[i] = r[i]
  <2> SUFFICES ASSUME NEW i \in 1..k - Len(t) PROVE l[i] = r[i]
    OBVIOUS
  <2>1. Len(t) + i \in 1..k /\ i \in 1..Len(u)
    BY <1>2
  <2>2. QED
    BY <1>1, <1>3, <1>4, <1>5, <2>1
<1>7. l = r
  BY <1>4, <1>5, <1>6, SeqEqual
<1>8. QED
  BY <1>7 DEF l, c, s, r

-----------------------------------------------------------------------------
(* A reader.                                                               *)

LEMMA BytesAreBytes ==
  /\ \A a \in Text : a \in Seq(Byte) /\ \A i \in 1..Len(a) : a[i] # 0
  /\ <<0>> \in Seq(Byte) /\ Len(<<0>>) = 1 /\ <<0>>[1] = 0
  /\ \A b \in Byte : b \in Nat
<1>1. ASSUME NEW a \in Text PROVE a \in Seq(Byte) /\ \A i \in 1..Len(a) : a[i] # 0
  BY <1>1 DEF Text, Byte
<1>2. <<0>> \in Seq(Byte) /\ Len(<<0>>) = 1 /\ <<0>>[1] = 0
  BY DEF Byte
<1>3. QED
  BY <1>1, <1>2 DEF Byte

LEMMA LeastIsMin ==
  ASSUME NEW S \in SUBSET Nat, NEW x \in S, \A y \in S : x <= y
  PROVE  Min(S) = x
<1>1. Min(S) \in S /\ \A y \in S : Min(S) <= y
  <2>1. \E m \in S : \A y \in S : m <= y
    OBVIOUS
  <2>2. QED
    BY <2>1 DEF Min
<1>2. Min(S) <= x /\ x <= Min(S) /\ x \in Nat /\ Min(S) \in Nat
  BY <1>1
<1>3. QED
  BY <1>2

\* A string a with its terminator, and what follows.
Field(a, b) == (a \o <<0>>) \o b

LEMMA FieldType ==
  ASSUME NEW a \in Text, NEW b \in Seq(Byte)
  PROVE  /\ Field(a, b) \in Seq(Byte)
         /\ Len(Field(a, b)) = Len(a) + 1 + Len(b)
         /\ Len(a) \in Nat /\ Len(b) \in Nat
<1>1. a \in Seq(Byte) /\ <<0>> \in Seq(Byte) /\ Len(<<0>>) = 1
  BY BytesAreBytes
<1>2. a \o <<0>> \in Seq(Byte) /\ Len(a \o <<0>>) = Len(a) + 1
  BY <1>1, ConcatProperties
<1>3. QED
  BY <1>1, <1>2, ConcatProperties, LenProperties DEF Field

\* Reading a string from a field that was cut after k bytes.
LEMMA PeelString ==
  ASSUME NEW a \in Text, NEW b \in Seq(Byte), NEW k \in 0..Len(Field(a, b))
  PROVE  /\ k <= Len(a) => SkipString(Cut(Field(a, b), k)) = None
         /\ k > Len(a) =>
              /\ String(Cut(Field(a, b), k)) = a
              /\ SkipString(Cut(Field(a, b), k)) = Cut(b, k - (Len(a) + 1))
<1> DEFINE r == Cut(Field(a, b), k)
           t == a \o <<0>>
           I == {i \in 1..Len(r) : r[i] = 0}
<1>1. /\ a \in Seq(Byte) /\ Len(a) \in Nat /\ \A i \in 1..Len(a) : a[i] # 0
      /\ Len(b) \in Nat
  BY BytesAreBytes, LenProperties
<1>2. /\ t \in Seq(Byte) /\ Len(t) = Len(a) + 1 /\ t[Len(a) + 1] = 0
      /\ \A i \in 1..Len(a) : t[i] = a[i]
  BY <1>1, BytesAreBytes
<1> HIDE DEF t
<1>3. \A i \in 1..Len(t) : Field(a, b)[i] = t[i]
  BY <1>2 DEF Field, t
<1>4. Field(a, b) \in Seq(Byte) /\ Len(Field(a, b)) = Len(a) + 1 + Len(b)
  BY FieldType
<1>5. /\ r \in Seq(Byte) /\ Len(r) = k /\ k \in Nat
      /\ \A i \in 1..k : r[i] = Field(a, b)[i]
  BY <1>1, <1>4, CutIs
<1>6. r # None
  BY <1>5, NoneAssumption
<1> HIDE DEF r
<1>7. Zero(r) = IF I # {} THEN Min(I) ELSE 0
  BY DEF Zero, SelectInSeq
<1>8. \A i \in 1..k : i <= Len(a) => r[i] # 0
  BY <1>1, <1>2, <1>3, <1>5
<1>9. CASE k <= Len(a)
  <2>1. I = {}
    BY <1>1, <1>5, <1>8, <1>9
  <2>2. Zero(r) = 0
    BY <1>7, <2>1
  <2>3. SkipString(r) = None
    BY <2>2 DEF SkipString
  <2>4. QED
    BY <1>1, <1>5, <1>9, <2>3 DEF r
<1>10. CASE k > Len(a)
  <2>1. Len(a) + 1 \in I
    BY <1>1, <1>2, <1>3, <1>5, <1>10
  <2>2. I \in SUBSET Nat /\ \A i \in I : Len(a) + 1 <= i
    BY <1>1, <1>5, <1>8
  <2>3. Zero(r) = Len(a) + 1
    <3> HIDE DEF I
    <3>1. QED
      BY <1>7, <2>1, <2>2, LeastIsMin
  <2>4. String(r) = a
    <3>1. Len(a) + 1 - 1 = Len(a)
      BY <1>1
    <3>2. String(r) = Cut(r, Len(a))
      BY <2>3, <3>1 DEF String, Cut
    <3>3. Len(a) \in 0..Len(r)
      BY <1>1, <1>5, <1>10
    <3>4. /\ Cut(r, Len(a)) \in Seq(Byte) /\ Len(Cut(r, Len(a))) = Len(a)
          /\ \A i \in 1..Len(a) : Cut(r, Len(a))[i] = r[i]
      BY <1>5, <3>3, CutIs
    <3>5. \A i \in 1..Len(a) : Cut(r, Len(a))[i] = a[i]
      BY <1>1, <1>2, <1>3, <1>5, <1>10, <3>4
    <3>6. QED
      BY <1>1, <3>2, <3>4, <3>5, SeqEqual
  <2>5. SkipString(r) = Cut(b, k - (Len(a) + 1))
    <3>1. SkipString(r) = SubSeq(r, Len(a) + 1 + 1, Len(r))
      <4>1. Len(a) + 1 # 0 /\ ~(Len(r) < Len(a) + 1)
        BY <1>1, <1>5, <1>10
      <4>2. SkipString(r) = Skip(r, Len(a) + 1)
        BY <1>6, <2>3, <4>1 DEF SkipString
      <4>3. Skip(r, Len(a) + 1) = SubSeq(r, Len(a) + 1 + 1, Len(r))
        BY <1>6, <4>1 DEF Skip
      <4>4. QED
        BY <4>2, <4>3
    <3>2. k \in Len(t)..Len(t) + Len(b)
      BY <1>1, <1>2, <1>4, <1>5, <1>10
    <3>3. SubSeq(Cut(t \o b, k), Len(t) + 1, k) = Cut(b, k - Len(t))
      BY <1>2, <3>2, CutBehind
    <3>4. QED
      BY <1>2, <1>5, <3>1, <3>3 DEF Field, t, r
  <2>6. QED
    BY <1>1, <1>5, <1>10, <2>4, <2>5 DEF r
<1>11. QED
  BY <1>1, <1>5, <1>9, <1>10

-----------------------------------------------------------------------------
(* The layout of an answer.                                                *)

Preamble(f)    == Header \o <<InfoTag, f.protocol>>
Behind(f)   == Field(f.game, f.rest)
Behind2(f)  == Field(f.folder, Behind(f))
Behind3(f)  == Field(f.map, Behind2(f))
Behind4(f)  == Field(f.name, Behind3(f))

\* The length up to max players.
Needed(f) ==
  6 + (Len(f.name) + 1) + (Len(f.map) + 1) + (Len(f.folder) + 1)
    + (Len(f.game) + 1) + 4

LEMMA FieldOut ==
  ASSUME NEW x \in Seq(Byte), NEW a \in Text, NEW b \in Seq(Byte)
  PROVE  ((x \o a) \o <<0>>) \o b = x \o Field(a, b)
<1>1. a \in Seq(Byte) /\ <<0>> \in Seq(Byte)
  BY BytesAreBytes
<1>2. a \o <<0>> \in Seq(Byte)
  BY <1>1, ConcatProperties
<1>3. (x \o a) \o <<0>> = x \o (a \o <<0>>)
  BY <1>1, ConcatAssociative
<1>4. (x \o (a \o <<0>>)) \o b = x \o ((a \o <<0>>) \o b)
  BY <1>2, ConcatAssociative, SMTT(30)
<1>5. QED
  BY <1>3, <1>4 DEF Field

LEMMA InfoLayout ==
  ASSUME NEW f \in Infos
  PROVE  /\ f.protocol \in Byte /\ {f.name, f.map, f.folder, f.game} \subseteq Text
         /\ f.rest \in Seq(Byte) /\ Len(f.rest) >= 4 /\ Len(f.rest) \in Nat
         /\ Preamble(f) \in Seq(Byte) /\ Len(Preamble(f)) = 6
         /\ \A i \in 1..4 : Preamble(f)[i] = 255
         /\ Preamble(f)[5] = InfoTag
         /\ {Behind(f), Behind2(f), Behind3(f), Behind4(f)} \subseteq Seq(Byte)
         /\ InfoBytes(f) = Preamble(f) \o Behind4(f)
         /\ InfoBytes(f) \in Seq(Byte)
         /\ Len(InfoBytes(f)) = Needed(f) - 4 + Len(f.rest)
         /\ Len(InfoBytes(f)) = 6 + Len(Behind4(f))
<1>1. /\ f.protocol \in Byte /\ {f.name, f.map, f.folder, f.game} \subseteq Text
      /\ f.rest \in Seq(Byte) /\ Len(f.rest) >= 4 /\ Len(f.rest) \in Nat
  BY A2SAssumption, LenProperties
<1>2. /\ Preamble(f) \in Seq(Byte) /\ Len(Preamble(f)) = 6
      /\ \A i \in 1..4 : Preamble(f)[i] = 255
      /\ Preamble(f)[5] = InfoTag
  BY <1>1 DEF Preamble, Header, InfoTag, Byte
<1>3. /\ Behind(f) \in Seq(Byte) /\ Behind2(f) \in Seq(Byte)
      /\ Behind3(f) \in Seq(Byte) /\ Behind4(f) \in Seq(Byte)
      /\ Len(Behind(f)) = Len(f.game) + 1 + Len(f.rest)
      /\ Len(Behind2(f)) = Len(f.folder) + 1 + Len(Behind(f))
      /\ Len(Behind3(f)) = Len(f.map) + 1 + Len(Behind2(f))
      /\ Len(Behind4(f)) = Len(f.name) + 1 + Len(Behind3(f))
      /\ {Len(f.name), Len(f.map), Len(f.folder), Len(f.game)} \subseteq Nat
  <2>1. Behind(f) \in Seq(Byte) /\ Len(Behind(f)) = Len(f.game) + 1 + Len(f.rest)
        /\ Len(f.game) \in Nat
    BY <1>1, FieldType DEF Behind
  <2>2. Behind2(f) \in Seq(Byte)
        /\ Len(Behind2(f)) = Len(f.folder) + 1 + Len(Behind(f))
        /\ Len(f.folder) \in Nat
    BY <1>1, <2>1, FieldType DEF Behind2
  <2>3. Behind3(f) \in Seq(Byte)
        /\ Len(Behind3(f)) = Len(f.map) + 1 + Len(Behind2(f))
        /\ Len(f.map) \in Nat
    BY <1>1, <2>2, FieldType DEF Behind3
  <2>4. Behind4(f) \in Seq(Byte)
        /\ Len(Behind4(f)) = Len(f.name) + 1 + Len(Behind3(f))
        /\ Len(f.name) \in Nat
    BY <1>1, <2>3, FieldType DEF Behind4
  <2>5. QED
    BY <2>1, <2>2, <2>3, <2>4
<1>4. InfoBytes(f) = Preamble(f) \o Behind4(f)
  <2> DEFINE x1 == (Preamble(f) \o f.name) \o <<0>>
             x2 == (x1 \o f.map) \o <<0>>
             x3 == (x2 \o f.folder) \o <<0>>
  <2>1. \A a \in Text, x \in Seq(Byte) : (x \o a) \o <<0>> \in Seq(Byte)
    <3> SUFFICES ASSUME NEW a \in Text, NEW x \in Seq(Byte)
                 PROVE  (x \o a) \o <<0>> \in Seq(Byte)
      OBVIOUS
    <3>1. x \o a \in Seq(Byte)
      BY BytesAreBytes, ConcatProperties
    <3>2. QED
      BY <3>1, BytesAreBytes, ConcatProperties
  <2>2. x1 \in Seq(Byte)
    BY <1>1, <1>2, <2>1
  <2> HIDE DEF x1
  <2>3. x2 \in Seq(Byte)
    BY <1>1, <2>1, <2>2
  <2> HIDE DEF x2
  <2>4. x3 \in Seq(Byte)
    BY <1>1, <2>1, <2>3
  <2> HIDE DEF x3
  <2>5. InfoBytes(f) = ((x3 \o f.game) \o <<0>>) \o f.rest
    BY DEF InfoBytes, Preamble, x1, x2, x3
  <2>6. ((x3 \o f.game) \o <<0>>) \o f.rest = x3 \o Behind(f)
    BY <1>1, <2>4, FieldOut DEF Behind
  <2>7. x3 \o Behind(f) = x2 \o Behind2(f)
    BY <1>1, <1>3, <2>3, FieldOut DEF Behind2, x3
  <2>8. x2 \o Behind2(f) = x1 \o Behind3(f)
    BY <1>1, <1>3, <2>2, FieldOut DEF Behind3, x2
  <2>9. x1 \o Behind3(f) = Preamble(f) \o Behind4(f)
    <3>1. Preamble(f) \in Seq(Byte) /\ f.name \in Text /\ Behind3(f) \in Seq(Byte)
      BY <1>1, <1>2, <1>3
    <3>2. QED
      BY <3>1, FieldOut DEF Behind4, x1
  <2>10. QED
    BY <2>5, <2>6, <2>7, <2>8, <2>9
<1>5. /\ InfoBytes(f) \in Seq(Byte)
      /\ Len(InfoBytes(f)) = Len(Preamble(f)) + Len(Behind4(f))
  <2>1. Preamble(f) \in Seq(Byte) /\ Behind4(f) \in Seq(Byte)
    BY <1>2, <1>3
  <2>2. QED
    BY <1>4, <2>1, ConcatProperties
<1>6. Len(InfoBytes(f)) = Needed(f) - 4 + Len(f.rest)
  <2>1. Len(Preamble(f)) = 6
    BY <1>2
  <2>2. /\ Len(f.name) \in Nat /\ Len(f.map) \in Nat /\ Len(f.folder) \in Nat
        /\ Len(f.game) \in Nat /\ Len(f.rest) \in Nat
    BY <1>1, <1>3
  <2>3. PICK a \in Nat, b \in Nat, c \in Nat, d \in Nat, e \in Nat :
          /\ Len(f.name) = a /\ Len(f.map) = b /\ Len(f.folder) = c
          /\ Len(f.game) = d /\ Len(f.rest) = e
    BY <2>2
  <2>4. Needed(f) = 6 + (a + 1) + (b + 1) + (c + 1) + (d + 1) + 4
    BY <2>3 DEF Needed
  <2>5. Len(InfoBytes(f)) = 6 + (a + 1 + (b + 1 + (c + 1 + (d + 1 + e))))
    BY <1>3, <1>5, <2>1, <2>3
  <2>6. QED
    BY <2>3, <2>4, <2>5
<1>7. QED
  BY <1>1, <1>2, <1>3, <1>4, <1>5, <1>6

-----------------------------------------------------------------------------
(* The parser.                                                             *)

LEMMA PrefixIs ==
  ASSUME NEW X, NEW s \in Seq(X), NEW t \in Seq(X)
  PROVE  IsPrefix(s, t) <=>
           Len(s) <= Len(t) /\ \A i \in 1..Len(s) : s[i] = t[i]
<1>1. CASE Len(s) <= Len(t)
  <2>1. Len(s) \in 0..Len(s) /\ Len(s) \in 0..Len(t)
    BY <1>1
  <2>2. /\ Cut(s, Len(s)) \in Seq(X) /\ Len(Cut(s, Len(s))) = Len(s)
        /\ \A i \in 1..Len(s) : Cut(s, Len(s))[i] = s[i]
    BY <2>1, CutIs
  <2>3. /\ Cut(t, Len(s)) \in Seq(X) /\ Len(Cut(t, Len(s))) = Len(s)
        /\ \A i \in 1..Len(s) : Cut(t, Len(s))[i] = t[i]
    BY <2>1, CutIs
  <2>4. IsPrefix(s, t) <=> Cut(s, Len(s)) = Cut(t, Len(s))
    BY <1>1 DEF IsPrefix, Cut
  <2>5. ASSUME \A i \in 1..Len(s) : s[i] = t[i]
        PROVE  Cut(s, Len(s)) = Cut(t, Len(s))
    <3>1. \A i \in 1..Len(s) : Cut(s, Len(s))[i] = Cut(t, Len(s))[i]
      BY <2>2, <2>3, <2>5
    <3>2. QED
      BY <2>2, <2>3, <3>1, SeqEqual
  <2>6. ASSUME Cut(s, Len(s)) = Cut(t, Len(s)), NEW i \in 1..Len(s)
        PROVE  s[i] = t[i]
    BY <2>2, <2>3, <2>6
  <2>7. QED
    BY <1>1, <2>4, <2>5, <2>6
<1>2. CASE ~(Len(s) <= Len(t))
  BY <1>2 DEF IsPrefix
<1>3. QED
  BY <1>1, <1>2

LEMMA HeaderType ==
  /\ Header \in Seq(Byte) /\ Len(Header) = 4
  /\ \A i \in 1..4 : Header[i] = 255
  /\ InfoTag \in Byte /\ ChallengeTag \in Byte
BY DEF Header, InfoTag, ChallengeTag, Byte

LEMMA TagType ==
  ASSUME NEW tag \in {ChallengeTag, InfoTag}
  PROVE  /\ Append(Header, tag) \in Seq(Byte)
         /\ Len(Append(Header, tag)) = 5
         /\ Append(Header, tag)[5] = tag
         /\ \A i \in 1..4 : Append(Header, tag)[i] = 255
<1>1. \A t \in Seq(Byte), u \in Byte :
        /\ Append(t, u) \in Seq(Byte) /\ Len(Append(t, u)) = Len(t) + 1
        /\ Append(t, u)[Len(t) + 1] = u
        /\ \A i \in 1..Len(t) : Append(t, u)[i] = t[i]
  <2> SUFFICES ASSUME NEW t \in Seq(Byte), NEW u \in Byte
               PROVE  /\ Append(t, u) \in Seq(Byte)
                      /\ Len(Append(t, u)) = Len(t) + 1
                      /\ Append(t, u)[Len(t) + 1] = u
                      /\ \A i \in 1..Len(t) : Append(t, u)[i] = t[i]
    OBVIOUS
  <2>1. Append(t, u) \in Seq(Byte) /\ Len(Append(t, u)) = Len(t) + 1
    BY AppendProperties
  <2>2. Append(t, u)[Len(t) + 1] = u
    BY AppendProperties
  <2>3. \A i \in 1..Len(t) : Append(t, u)[i] = t[i]
    BY AppendProperties
  <2>4. QED
    BY <2>1, <2>2, <2>3
<1>2. Header \in Seq(Byte) /\ tag \in Byte
  BY HeaderType
<1>3. /\ Append(Header, tag) \in Seq(Byte)
      /\ Len(Append(Header, tag)) = Len(Header) + 1
      /\ Append(Header, tag)[Len(Header) + 1] = tag
      /\ \A i \in 1..Len(Header) : Append(Header, tag)[i] = Header[i]
  BY <1>1, <1>2
<1>4. QED
  BY <1>3, HeaderType

\* What the parser and the test for a challenge look at first.
LEMMA HeaderIs ==
  ASSUME NEW d \in Seq(Byte)
  PROVE  /\ IsPrefix(Header, d) <=> Len(d) >= 4 /\ \A i \in 1..4 : d[i] = 255
         /\ \A tag \in {ChallengeTag, InfoTag} :
              IsPrefix(Append(Header, tag), d) <=>
                /\ Len(d) >= 5 /\ d[5] = tag
                /\ \A i \in 1..4 : d[i] = 255
<1>1. /\ Header \in Seq(Byte) /\ Len(Header) = 4
      /\ \A i \in 1..4 : Header[i] = 255
  BY HeaderType
<1>2. IsPrefix(Header, d) <=> Len(d) >= 4 /\ \A i \in 1..4 : d[i] = 255
  <2>1. IsPrefix(Header, d) <=>
          Len(Header) <= Len(d) /\ \A i \in 1..Len(Header) : Header[i] = d[i]
    BY <1>1, PrefixIs, SMTT(30)
  <2>2. Len(d) \in Nat
    OBVIOUS
  <2>3. QED
    BY <1>1, <2>1, <2>2
<1>3. ASSUME NEW tag \in {ChallengeTag, InfoTag}
      PROVE  IsPrefix(Append(Header, tag), d) <=>
               /\ Len(d) >= 5 /\ d[5] = tag
               /\ \A i \in 1..4 : d[i] = 255
  <2> DEFINE h == Append(Header, tag)
  <2>1. h \in Seq(Byte)
    BY TagType
  <2>2. Len(h) = 5 /\ h[5] = tag /\ \A i \in 1..4 : h[i] = 255
    BY TagType
  <2> HIDE DEF h
  <2>3. IsPrefix(h, d) <=> Len(h) <= Len(d) /\ \A i \in 1..Len(h) : h[i] = d[i]
    BY <2>1, PrefixIs
  <2>4. 1..5 = (1..4) \cup {5} /\ Len(d) \in Nat
    OBVIOUS
  <2>5. IsPrefix(h, d) <=>
          /\ Len(d) >= 5 /\ d[5] = tag
          /\ \A i \in 1..4 : d[i] = 255
    BY <2>2, <2>3, <2>4
  <2>6. QED
    BY <2>5 DEF h
<1>4. QED
  BY <1>2, <1>3

\* What the sender says in f.
Saying(f) ==
  [name |-> f.name, map |-> f.map, players |-> f.rest[3],
   maxPlayers |-> f.rest[4]]

\* Reading to the end of the strings in a cut of the fields.
LEMMA PeelAll ==
  ASSUME NEW f \in Infos, NEW k \in 0..Len(InfoBytes(f)) - 6,
         NEW m, NEW g, NEW r,
         m = SkipString(Cut(Behind4(f), k)), g = SkipString(SkipString(m)),
         r = Skip(SkipString(g), 2)
  PROVE  IF Needed(f) <= k + 6
           THEN /\ r # None /\ ~(Len(r) < 2)
                /\ r[1] = f.rest[3] /\ r[2] = f.rest[4]
                /\ String(Cut(Behind4(f), k)) = f.name /\ String(m) = f.map
           ELSE r = None \/ Len(r) < 2
<1>1. /\ f.name \in Text /\ f.map \in Text /\ f.folder \in Text /\ f.game \in Text
      /\ f.rest \in Seq(Byte)
      /\ Behind(f) \in Seq(Byte) /\ Behind2(f) \in Seq(Byte)
      /\ Behind3(f) \in Seq(Byte) /\ Behind4(f) \in Seq(Byte)
      /\ Len(InfoBytes(f)) = 6 + Len(Behind4(f))
  BY InfoLayout
<1>2. PICK a \in Nat, b \in Nat, c \in Nat, d \in Nat, e \in Nat :
        /\ Len(f.name) = a /\ Len(f.map) = b /\ Len(f.folder) = c
        /\ Len(f.game) = d /\ Len(f.rest) = e
  BY <1>1, FieldType
<1>3. Needed(f) = 6 + (a + 1) + (b + 1) + (c + 1) + (d + 1) + 4
  BY <1>2 DEF Needed
<1>4. /\ Len(Behind(f)) = d + 1 + e
      /\ Len(Behind2(f)) = c + 1 + (d + 1 + e)
      /\ Len(Behind3(f)) = b + 1 + (c + 1 + (d + 1 + e))
      /\ Len(Behind4(f)) = a + 1 + (b + 1 + (c + 1 + (d + 1 + e)))
  <2>1. Len(Behind(f)) = d + 1 + e
    BY <1>1, <1>2, FieldType DEF Behind
  <2>2. Len(Behind2(f)) = c + 1 + (d + 1 + e)
    BY <1>1, <1>2, <2>1, FieldType DEF Behind2
  <2>3. Len(Behind3(f)) = b + 1 + (c + 1 + (d + 1 + e))
    BY <1>1, <1>2, <2>2, FieldType, ZenonT(30) DEF Behind3
  <2>4. Len(Behind4(f)) = a + 1 + (b + 1 + (c + 1 + (d + 1 + e)))
    <3>1. Len(Field(f.name, Behind3(f))) = Len(f.name) + 1 + Len(Behind3(f))
      BY <1>1, FieldType
    <3>2. QED
      BY <1>2, <2>3, <3>1 DEF Behind4
  <2>5. QED
    BY <2>1, <2>2, <2>3, <2>4
<1>5. SkipString(None) = None /\ Skip(None, 2) = None
  <2>1. SkipString(None) = None
    BY Zenon DEF SkipString
  <2>2. Skip(None, 2) = None
    BY Zenon DEF Skip
  <2>3. QED
    BY <2>1, <2>2
<1>6. k \in Nat /\ k <= a + 1 + (b + 1 + (c + 1 + (d + 1 + e)))
  BY <1>1, <1>2, <1>4, SMTT(30)
<1>7. CASE k <= a
  <2>1. m = None
    <3>1. k \in 0..Len(Behind4(f))
      BY <1>4, <1>6
    <3>2. QED
      BY <1>1, <1>2, <1>7, <3>1, PeelString DEF Behind4
  <2>2. ~(Needed(f) <= k + 6)
    BY <1>2, <1>3, <1>6, <1>7
  <2>3. QED
    BY <1>5, <2>1, <2>2
<1>8. CASE k > a
  <2> DEFINE k2 == k - (a + 1)
  <2>1. /\ String(Cut(Behind4(f), k)) = f.name
        /\ m = Cut(Behind3(f), k2)
    <3>1. k \in 0..Len(Behind4(f))
      BY <1>4, <1>6
    <3>2. QED
      BY <1>1, <1>2, <1>8, <3>1, PeelString DEF Behind4
  <2>2. /\ k2 \in 0..Len(Behind3(f)) /\ k2 \in Nat /\ k = k2 + (a + 1)
        /\ k2 <= b + 1 + (c + 1 + (d + 1 + e))
    BY <1>2, <1>4, <1>6, <1>8
  <2> HIDE DEF k2
  <2>3. CASE k2 <= b
    <3>1. SkipString(m) = None
      BY <1>1, <1>2, <2>1, <2>2, <2>3, PeelString DEF Behind3
    <3>2. ~(Needed(f) <= k + 6)
      BY <1>2, <1>3, <2>2, <2>3
    <3>3. QED
      BY <1>5, <3>1, <3>2
  <2>4. CASE k2 > b
    <3> DEFINE k3 == k2 - (b + 1)
    <3>1. String(m) = f.map /\ SkipString(m) = Cut(Behind2(f), k3)
      <4>1. k2 \in 0..Len(Field(f.map, Behind2(f))) /\ k2 > Len(f.map)
        BY <1>2, <2>2, <2>4 DEF Behind3
      <4>2. m = Cut(Field(f.map, Behind2(f)), k2)
        BY <2>1 DEF Behind3
      <4>3. String(m) = f.map /\ SkipString(m) = Cut(Behind2(f), k2 - (Len(f.map) + 1))
        BY <1>1, <4>1, <4>2, PeelString
      <4>4. QED
        BY <1>2, <4>3
    <3>2. /\ k3 \in 0..Len(Behind2(f)) /\ k3 \in Nat /\ k2 = k3 + (b + 1)
          /\ k3 <= c + 1 + (d + 1 + e)
      BY <1>2, <1>4, <2>2, <2>4
    <3> HIDE DEF k3
    <3>3. CASE k3 <= c
      <4>1. g = None
        BY <1>1, <1>2, <3>1, <3>2, <3>3, PeelString DEF Behind2
      <4>2. ~(Needed(f) <= k + 6)
        BY <1>2, <1>3, <2>2, <3>2, <3>3
      <4>3. QED
        BY <1>5, <4>1, <4>2
    <3>4. CASE k3 > c
      <4> DEFINE k4 == k3 - (c + 1)
      <4>1. g = Cut(Behind(f), k4)
        BY <1>1, <1>2, <3>1, <3>2, <3>4, PeelString, SMTT(30) DEF Behind2
      <4>2. /\ k4 \in 0..Len(Behind(f)) /\ k4 \in Nat /\ k3 = k4 + (c + 1)
            /\ k4 <= d + 1 + e
        BY <1>2, <1>4, <3>2, <3>4
      <4> HIDE DEF k4
      <4>3. CASE k4 <= d
        <5>1. SkipString(g) = None
          <6>1. k4 \in 0..Len(Field(f.game, f.rest)) /\ k4 <= Len(f.game)
            BY <1>2, <4>2, <4>3 DEF Behind
          <6>2. g = Cut(Field(f.game, f.rest), k4)
            BY <4>1 DEF Behind
          <6>3. QED
            BY <1>1, <6>1, <6>2, PeelString
        <5>2. ~(Needed(f) <= k + 6)
          BY <1>2, <1>3, <2>2, <3>2, <4>2, <4>3
        <5>3. QED
          BY <1>5, <5>1, <5>2
      <4>4. CASE k4 > d
        <5> DEFINE k5 == k4 - (d + 1)
                   h  == Cut(f.rest, k5)
        <5>1. SkipString(g) = h
          BY <1>1, <1>2, <4>1, <4>2, <4>4, PeelString DEF Behind
        <5>2. k5 \in Nat /\ k4 = k5 + (d + 1) /\ k5 <= e /\ k5 \in 0..Len(f.rest)
          BY <1>2, <4>2, <4>4
        <5> HIDE DEF k5
        <5>3. Needed(f) <= k + 6 <=> 4 <= k5
          BY <1>2, <1>3, <2>2, <3>2, <4>2, <5>2
        <5>4. /\ h \in Seq(Byte) /\ Len(h) = k5
              /\ \A i \in 1..k5 : h[i] = f.rest[i]
          BY <1>1, <5>2, CutIs
        <5>5. h # None
          BY <5>4, NoneAssumption
        <5> HIDE DEF h
        <5>6. CASE k5 < 2
          BY <5>1, <5>2, <5>3, <5>4, <5>6 DEF Skip
        <5>7. CASE ~(k5 < 2)
          <6>1. r = SubSeq(h, 3, k5)
            BY <5>1, <5>2, <5>4, <5>5, <5>7 DEF Skip
          <6>2. /\ 3 \in Nat \ {0} /\ k5 \in 0..Len(h) /\ 3 <= k5 + 1
                /\ k5 - 3 + 1 = k5 - 2
            BY <5>2, <5>4, <5>7
          <6>3. /\ r \in Seq(Byte) /\ Len(r) = k5 - 2
                /\ \A i \in 1..k5 - 2 : r[i] = h[3 + i - 1]
            <7>1. h \in Seq(Byte)
              BY <5>4
            <7>2. /\ SubSeq(h, 3, k5) \in Seq(Byte)
                  /\ Len(SubSeq(h, 3, k5)) = k5 - 3 + 1
                  /\ \A i \in 1..k5 - 3 + 1 : SubSeq(h, 3, k5)[i] = h[3 + i - 1]
              <8>1. 3 \in Nat \ {0} /\ k5 \in 0..Len(h) /\ 3 <= k5 + 1
                BY <6>2
              <8>2. QED
                BY <7>1, <8>1, SubSeqIs
            <7>3. QED
              BY <6>1, <6>2, <7>2
          <6>4. r # None
            BY <6>3, NoneAssumption
          <6>5. CASE 4 <= k5
            <7>1. r[1] = h[3] /\ r[2] = h[4]
              <8>1. 1 \in 1..k5 - 2 /\ 2 \in 1..k5 - 2
                BY <5>2, <6>5
              <8>2. r[1] = h[3 + 1 - 1] /\ r[2] = h[3 + 2 - 1]
                BY <6>3, <8>1
              <8>3. QED
                BY <8>2
            <7>2. h[3] = f.rest[3] /\ h[4] = f.rest[4]
              BY <5>2, <5>4, <6>5
            <7>3. ~(Len(r) < 2)
              BY <5>2, <6>3, <6>5
            <7>4. QED
              BY <2>1, <3>1, <5>3, <6>4, <6>5, <7>1, <7>2, <7>3
          <6>6. CASE ~(4 <= k5)
            <7>1. Len(r) < 2
              BY <5>2, <6>3, <6>6
            <7>2. QED
              BY <5>3, <6>6, <7>1
          <6>7. QED
            BY <6>5, <6>6
        <5>8. QED
          BY <5>6, <5>7
      <4>5. QED
        BY <1>2, <4>2, <4>3, <4>4
    <3>5. QED
      BY <1>2, <3>2, <3>3, <3>4
  <2>5. QED
    BY <1>2, <2>2, <2>3, <2>4
<1>9. QED
  BY <1>2, <1>6, <1>7, <1>8

\* parseA2SInfo on an answer that was cut after k bytes, which is also no
\* challenge.
LEMMA ParseOfInfo ==
  ASSUME NEW f \in Infos, NEW k \in 0..Len(InfoBytes(f))
  PROVE  /\ ParseInfo(Cut(InfoBytes(f), k)) =
              IF Needed(f) <= k THEN Saying(f) ELSE ParseError
         /\ ~IsChallenge(Cut(InfoBytes(f), k))
<1> DEFINE data == Cut(InfoBytes(f), k)
<1>1. /\ InfoBytes(f) = Preamble(f) \o Behind4(f) /\ InfoBytes(f) \in Seq(Byte)
      /\ Preamble(f) \in Seq(Byte) /\ Behind4(f) \in Seq(Byte)
      /\ Len(Preamble(f)) = 6 /\ Len(InfoBytes(f)) = 6 + Len(Behind4(f))
      /\ Len(Behind4(f)) \in Nat
  BY InfoLayout, LenProperties
<1>2. \A i \in 1..6 : InfoBytes(f)[i] = Preamble(f)[i]
  BY <1>1
<1>3. /\ data \in Seq(Byte) /\ Len(data) = k /\ k \in Nat
      /\ \A i \in 1..k : data[i] = InfoBytes(f)[i]
  <2>1. InfoBytes(f) \in Seq(Byte) /\ Len(InfoBytes(f)) \in Nat
    BY <1>1
  <2>2. QED
    BY <2>1, CutIs
<1>4. \A i \in 1..4 : Preamble(f)[i] = 255
  BY InfoLayout, SMTT(30)
<1>5. Preamble(f)[5] = 73
  BY InfoLayout DEF InfoTag
<1> HIDE DEF data
<1>6. k >= 5 => data[5] = 73
  BY <1>2, <1>3, <1>5
<1>7. k >= 4 => \A i \in 1..4 : data[i] = 255
  BY <1>2, <1>3, <1>4
<1>8. ~IsChallenge(data)
  BY <1>3, <1>6, HeaderIs DEF IsChallenge, ChallengeTag
<1>9. CASE k < 6
  <2>1. ParseInfo(data) = ParseError
    BY <1>3, <1>9 DEF ParseInfo
  <2>2. ~(Needed(f) <= k)
    <3>1. PICK a \in Nat, b \in Nat, c \in Nat, d \in Nat :
            /\ Len(f.name) = a /\ Len(f.map) = b /\ Len(f.folder) = c
            /\ Len(f.game) = d
      <4>1. /\ f.name \in Seq(Byte) /\ f.map \in Seq(Byte)
            /\ f.folder \in Seq(Byte) /\ f.game \in Seq(Byte)
        BY InfoLayout, BytesAreBytes, ZenonT(30)
      <4>2. QED
        BY <4>1
    <3>2. Needed(f) = 6 + (a + 1) + (b + 1) + (c + 1) + (d + 1) + 4
      BY <3>1 DEF Needed
    <3>3. QED
      BY <1>3, <1>9, <3>1, <3>2
  <2>3. QED
    BY <1>8, <2>1, <2>2 DEF data
<1>10. CASE ~(k < 6)
  <2> DEFINE m == SkipString(Cut(Behind4(f), k - 6))
             g == SkipString(SkipString(m))
             r == Skip(SkipString(g), 2)
  <2>1. Skip(data, 6) = Cut(Behind4(f), k - 6)
    <3>1. k \in Len(Preamble(f))..Len(Preamble(f)) + Len(Behind4(f))
      BY <1>1, <1>3, <1>10
    <3>2. SubSeq(data, 6 + 1, k) = Cut(Behind4(f), k - 6)
      BY <1>1, <3>1, CutBehind DEF data
    <3>3. data # None
      BY <1>3, NoneAssumption
    <3>4. QED
      BY <1>3, <1>10, <3>2, <3>3 DEF Skip
  <2>2. IsPrefix(Header, data) /\ data[5] = InfoTag /\ ~(Len(data) < 6)
    BY <1>3, <1>6, <1>7, <1>10, HeaderIs DEF InfoTag
  <2>3. ParseInfo(data) =
          IF r = None \/ Len(r) < 2 THEN ParseError
          ELSE [name |-> String(Cut(Behind4(f), k - 6)), map |-> String(m),
                players |-> r[1], maxPlayers |-> r[2]]
    BY <2>1, <2>2 DEF ParseInfo
  <2>4. k - 6 \in 0..Len(InfoBytes(f)) - 6 /\ (k - 6) + 6 = k
    BY <1>1, <1>3, <1>10
  <2>5. IF Needed(f) <= k
          THEN /\ r # None /\ ~(Len(r) < 2)
               /\ r[1] = f.rest[3] /\ r[2] = f.rest[4]
               /\ String(Cut(Behind4(f), k - 6)) = f.name /\ String(m) = f.map
          ELSE r = None \/ Len(r) < 2
    BY <2>4, PeelAll
  <2> HIDE DEF m, g, r
  <2>6. QED
    BY <1>8, <2>3, <2>5 DEF Saying, data
<1>11. QED
  BY <1>9, <1>10

-----------------------------------------------------------------------------
(* The messages, and what a Read leaves in the buffer.                     *)

\* What a Read of d returns.
Fits(d) == IF Len(d) < BufSize THEN Len(d) ELSE BufSize

\* Whatever the buffer held before, its first n bytes are those of d.
LEMMA Seen ==
  ASSUME buf \in Seq(Byte), Len(buf) <= BufSize, NEW d \in Seq(Byte)
  PROVE  /\ Filled(d) \in Seq(Byte) /\ Len(Filled(d)) <= BufSize
         /\ Fits(d) \in 0..Len(Filled(d))
         /\ Cut(Filled(d), Fits(d)) = Cut(d, Fits(d))
<1> DEFINE k == Fits(d)
           t == SubSeq(buf, k + 1, Len(buf))
           c == Cut(d, k)
<1>1. k \in 0..Len(d) /\ k <= BufSize /\ k \in Nat /\ BufSize \in Nat
  BY A2SAssumption DEF Fits
<1>2. Filled(d) = c \o t
  BY DEF Filled, Fits, Cut
<1> HIDE DEF k
<1>3. /\ c \in Seq(Byte) /\ Len(c) = k /\ \A i \in 1..k : c[i] = d[i]
  BY <1>1, CutIs
<1>4. t \in Seq(Byte) /\ Len(t) \in Nat /\ k + Len(t) <= BufSize
  <2>1. CASE k <= Len(buf)
    <3>1. k + 1 \in Nat \ {0} /\ Len(buf) \in 0..Len(buf) /\ k + 1 <= Len(buf) + 1
      BY <1>1, <2>1
    <3>2. t \in Seq(Byte) /\ Len(t) = Len(buf) - (k + 1) + 1
      BY <3>1, SubSeqIs
    <3>3. QED
      BY <1>1, <2>1, <3>2
  <2>2. CASE ~(k <= Len(buf))
    <3>1. t = << >>
      BY <1>1, <2>2
    <3>2. << >> \in Seq(Byte) /\ Len(<< >>) = 0
      OBVIOUS
    <3>3. t \in Seq(Byte) /\ Len(t) = 0
      BY <3>1, <3>2, Zenon
    <3>4. QED
      BY <1>1, <3>3
  <2>3. QED
    BY <2>1, <2>2
<1> HIDE DEF c, t
<1>5. /\ c \o t \in Seq(Byte) /\ Len(c \o t) = k + Len(t)
      /\ \A i \in 1..k : (c \o t)[i] = c[i]
  <2>1. /\ c \o t \in Seq(Byte) /\ Len(c \o t) = k + Len(t)
        /\ \A i \in 1..k : (c \o t)[i] = c[i]
    BY <1>1, <1>3, <1>4, JoinIs
  <2>2. QED
    BY <1>3, <2>1
<1>6. k \in 0..Len(Filled(d)) /\ Filled(d) \in Seq(Byte) /\ Len(Filled(d)) <= BufSize
  BY <1>1, <1>2, <1>4, <1>5
<1>7. /\ Cut(Filled(d), k) \in Seq(Byte) /\ Len(Cut(Filled(d), k)) = k
      /\ \A i \in 1..k : Cut(Filled(d), k)[i] = Filled(d)[i]
  BY <1>6, CutIs
<1>8. \A i \in 1..k : Cut(Filled(d), k)[i] = c[i]
  BY <1>2, <1>5, <1>7
<1>9. Cut(Filled(d), k) = c
  BY <1>3, <1>7, <1>8, SeqEqual
<1>10. QED
  BY <1>6, <1>9 DEF k, c

\* A message that is a complete challenge.
Challenges(m) == m.kind = "challenge" /\ Len(m.of) >= 4

LEMMA MessageCases ==
  ASSUME NEW m \in Messages
  PROVE  \/ /\ m.kind = "info" /\ m.of \in Infos
            /\ m.len \in 0..Len(InfoBytes(m.of))
         \/ m.kind = "challenge" /\ m.of \in Tokens
         \/ m.kind = "junk" /\ m.of \in Junk
<1> DEFINE A == UNION {{[kind |-> "info", of |-> f, len |-> k] :
                         k \in 0..Len(InfoBytes(f))} : f \in Infos}
           B == {[kind |-> "challenge", of |-> t, len |-> Len(t) + 5] : t \in Tokens}
           C == {[kind |-> "junk", of |-> d, len |-> Len(d)] : d \in Junk}
<1>1. ASSUME m \in A
      PROVE  /\ m.kind = "info" /\ m.of \in Infos
             /\ m.len \in 0..Len(InfoBytes(m.of))
  BY <1>1
<1>2. ASSUME m \in B PROVE m.kind = "challenge" /\ m.of \in Tokens
  BY <1>2
<1>3. ASSUME m \in C PROVE m.kind = "junk" /\ m.of \in Junk
  BY <1>3
<1>4. m \in A \/ m \in B \/ m \in C
  <2>1. m \in Messages
    OBVIOUS
  <2>2. QED
    BY <2>1 DEF Messages
<1> HIDE DEF A, B, C
<1>5. QED
  BY <1>1, <1>2, <1>3, <1>4

LEMMA InfoMessage ==
  ASSUME NEW m \in Messages, m.kind = "info"
  PROVE  /\ Bytes(m) \in Seq(Byte)
         /\ ~IsChallenge(Cut(Bytes(m), Fits(Bytes(m))))
         /\ ParseInfo(Cut(Bytes(m), Fits(Bytes(m)))) = Said(m)
         /\ Said(m) \in InfoResults \cup {ParseError}
<1> DEFINE f == m.of
<1>1. f \in Infos /\ m.len \in 0..Len(InfoBytes(f))
  BY MessageCases
<1>2. Bytes(m) = Cut(InfoBytes(f), m.len)
  BY DEF Bytes, Cut
<1>3. /\ InfoBytes(f) \in Seq(Byte)
      /\ f.rest \in Seq(Byte) /\ Len(f.rest) >= 4 /\ Len(f.rest) \in Nat
      /\ Len(InfoBytes(f)) = Needed(f) - 4 + Len(f.rest)
      /\ f.name \in Text /\ f.map \in Text
  <2>1. /\ InfoBytes(f) \in Seq(Byte)
        /\ f.rest \in Seq(Byte) /\ Len(f.rest) >= 4 /\ Len(f.rest) \in Nat
    BY <1>1, InfoLayout, SMTT(30)
  <2>2. Len(InfoBytes(f)) = Needed(f) - 4 + Len(f.rest)
    BY <1>1, InfoLayout
  <2>3. {f.name, f.map, f.folder, f.game} \subseteq Text
    BY <1>1, InfoLayout
  <2>4. QED
    BY <2>1, <2>2, <2>3
<1>4. Needed(f) \in Nat
  <2>1. /\ f.name \in Seq(Byte) /\ f.map \in Seq(Byte)
        /\ f.folder \in Seq(Byte) /\ f.game \in Seq(Byte)
    BY <1>1, InfoLayout, BytesAreBytes, ZenonT(30)
  <2>2. PICK a \in Nat, b \in Nat, c \in Nat, d \in Nat :
          /\ Len(f.name) = a /\ Len(f.map) = b /\ Len(f.folder) = c
          /\ Len(f.game) = d
    BY <2>1
  <2>3. Needed(f) = 6 + (a + 1) + (b + 1) + (c + 1) + (d + 1) + 4
    BY <2>2 DEF Needed
  <2>4. QED
    BY <2>3
<1>5. Len(InfoBytes(f)) - Len(f.rest) + 4 = Needed(f)
  <2>1. \A p, q, e \in Nat : q = p - 4 + e => q - e + 4 = p
    OBVIOUS
  <2>2. Len(InfoBytes(f)) \in Nat
    BY <1>3, LenProperties
  <2>3. QED
    BY <1>3, <1>4, <2>1, <2>2
<1> DEFINE k == IF m.len < BufSize THEN m.len ELSE BufSize
<1>6. Bytes(m) \in Seq(Byte) /\ Len(Bytes(m)) = m.len
  BY <1>1, <1>2, <1>3, CutIs
<1>7. Fits(Bytes(m)) = k
  BY <1>6 DEF Fits
<1>8. k \in 0..m.len /\ k \in 0..Len(InfoBytes(f)) /\ BufSize \in Nat
  BY <1>1, A2SAssumption
<1>9. Cut(Bytes(m), k) = Cut(InfoBytes(f), k)
  <2> HIDE DEF k, f
  <2>1. QED
    BY <1>1, <1>2, <1>3, <1>8, CutOfCut
<1>10. Needed(f) <= k <=> Needed(f) <= m.len /\ Needed(f) <= BufSize
  BY <1>1, <1>4, <1>8
<1>11. Said(m) = IF Needed(f) <= k THEN Saying(f) ELSE ParseError
  <2>1. Said(m) = IF Needed(f) <= m.len /\ Needed(f) <= BufSize
                    THEN Saying(f) ELSE ParseError
    BY <1>5 DEF Said, Saying
  <2>2. QED
    BY <1>10, <2>1
<1>12. Saying(f) \in InfoResults
  BY <1>3 DEF Saying, InfoResults
<1> HIDE DEF k, f
<1>13. /\ ~IsChallenge(Cut(InfoBytes(f), k))
       /\ ParseInfo(Cut(InfoBytes(f), k)) =
            IF Needed(f) <= k THEN Saying(f) ELSE ParseError
  BY <1>1, <1>8, ParseOfInfo
<1>14. QED
  BY <1>6, <1>7, <1>9, <1>11, <1>12, <1>13

LEMMA ChallengeMessage ==
  ASSUME NEW m \in Messages, m.kind = "challenge"
  PROVE  /\ m.of \in Seq(Byte)
         /\ Bytes(m) \in Seq(Byte)
         /\ Len(m.of) >= 4 =>
              /\ Fits(Bytes(m)) >= 9
              /\ \A i \in 1..4 : Bytes(m)[5 + i] = m.of[i]
         /\ IsChallenge(Cut(Bytes(m), Fits(Bytes(m)))) <=> Len(m.of) >= 4
         /\ ParseInfo(Cut(Bytes(m), Fits(Bytes(m)))) = ParseError
         /\ Said(m) = ParseError
<1> DEFINE t == m.of
           h == Header \o <<ChallengeTag>>
           d == Bytes(m)
           k == Fits(d)
           r == Cut(d, k)
<1>1. t \in Tokens /\ t \in Seq(Byte) /\ Len(t) \in Nat
  BY MessageCases, A2SAssumption, LenProperties
<1>2. h = Append(Header, ChallengeTag)
  BY HeaderType, AppendIsConcat
<1>3. /\ h \in Seq(Byte) /\ Len(h) = 5 /\ h[5] = 65
      /\ \A i \in 1..4 : h[i] = 255
  BY <1>2, TagType DEF ChallengeTag
<1>4. d = h \o t
  BY DEF Bytes, ChallengeBytes
<1> HIDE DEF h, d, t
<1>5. /\ d \in Seq(Byte) /\ Len(d) = 5 + Len(t)
      /\ \A i \in 1..5 : d[i] = h[i]
      /\ \A i \in 1..Len(t) : d[5 + i] = t[i]
  <2>1. /\ h \o t \in Seq(Byte) /\ Len(h \o t) = 5 + Len(t)
        /\ \A i \in 1..5 : (h \o t)[i] = h[i]
        /\ \A i \in 1..Len(t) : (h \o t)[5 + i] = t[i]
    <3>1. h \in Seq(Byte) /\ t \in Seq(Byte)
      BY <1>1, <1>3
    <3>2. h \o t \in Seq(Byte) /\ Len(h \o t) = Len(h) + Len(t)
      BY <3>1, ConcatProperties
    <3>3. \A i \in 1..Len(h) : (h \o t)[i] = h[i]
      BY <3>1
    <3>4. \A i \in 1..Len(t) : (h \o t)[Len(h) + i] = t[i]
      BY <3>1
    <3>5. QED
      BY <1>3, <3>2, <3>3, <3>4
  <2>2. QED
    BY <1>3, <1>4, <2>1
<1>6. /\ k \in 0..Len(d) /\ k >= 5 /\ (k >= 9 <=> Len(t) >= 4)
  BY <1>1, <1>5, A2SAssumption DEF Fits
<1>7. /\ r \in Seq(Byte) /\ Len(r) = k /\ \A i \in 1..k : r[i] = d[i]
  <2> HIDE DEF k
  <2>1. QED
    BY <1>5, <1>6, CutIs
<1> HIDE DEF k, r
<1>8. r[5] = 65 /\ \A i \in 1..4 : r[i] = 255
  BY <1>3, <1>5, <1>6, <1>7
<1>9. IsChallenge(r) <=> Len(t) >= 4
  BY <1>6, <1>7, <1>8, HeaderIs DEF IsChallenge, ChallengeTag
<1>10. ParseInfo(r) = ParseError
  BY <1>8 DEF ParseInfo, InfoTag
<1>11. Len(t) >= 4 => k >= 9 /\ \A i \in 1..4 : d[5 + i] = t[i]
  BY <1>1, <1>5, <1>6
<1>12. Said(m) = ParseError
  BY DEF Said
<1>13. QED
  BY <1>1, <1>5, <1>9, <1>10, <1>11, <1>12 DEF k, r, d, t

LEMMA JunkMessage ==
  ASSUME NEW m \in Messages, m.kind = "junk"
  PROVE  /\ Bytes(m) \in Seq(Byte)
         /\ ~IsChallenge(Cut(Bytes(m), Fits(Bytes(m))))
         /\ ParseInfo(Cut(Bytes(m), Fits(Bytes(m)))) = ParseError
         /\ Said(m) = ParseError
<1> DEFINE d == Bytes(m)
           k == Fits(d)
           r == Cut(d, k)
<1>1. /\ d \in Seq(Byte)
      /\ ~IsPrefix(Append(Header, ChallengeTag), d)
      /\ ~IsPrefix(Append(Header, InfoTag), d)
  <2>1. m.of \in Junk /\ d = m.of
    BY MessageCases DEF Bytes
  <2>2. QED
    BY <2>1, A2SAssumption
<1> HIDE DEF d
<1>2. k \in 0..Len(d) /\ (k = Len(d) \/ k >= 9) /\ Len(d) \in Nat /\ k \in Nat
  BY <1>1, A2SAssumption DEF Fits
<1>3. /\ r \in Seq(Byte) /\ Len(r) = k /\ \A i \in 1..k : r[i] = d[i]
  <2> HIDE DEF k
  <2>1. QED
    BY <1>1, <1>2, CutIs
<1> HIDE DEF k, r
<1>4. ASSUME NEW tag \in {ChallengeTag, InfoTag}, k >= 5, r[5] = tag,
             \A i \in 1..4 : r[i] = 255
      PROVE  IsPrefix(Append(Header, tag), d)
  <2>1. Len(d) >= 5 /\ d[5] = tag /\ \A i \in 1..4 : d[i] = 255
    BY <1>2, <1>3, <1>4
  <2>2. QED
    BY <1>1, <2>1, HeaderIs
<1>5. ~IsChallenge(r)
  <2>1. SUFFICES ASSUME IsChallenge(r) PROVE FALSE
    OBVIOUS
  <2>2. Len(r) >= 5 /\ r[5] = ChallengeTag /\ \A i \in 1..4 : r[i] = 255
    BY <1>3, <2>1, HeaderIs DEF IsChallenge
  <2>3. QED
    BY <1>1, <1>3, <1>4, <2>2
<1>6. ParseInfo(r) = ParseError
  <2>1. SUFFICES ASSUME ~(Len(r) < 6), IsPrefix(Header, r), r[5] = InfoTag
                 PROVE  FALSE
    BY DEF ParseInfo
  <2>2. \A i \in 1..4 : r[i] = 255
    BY <1>3, <2>1, HeaderIs
  <2>3. QED
    BY <1>1, <1>2, <1>3, <1>4, <2>1, <2>2
<1>7. QED
  BY <1>1, <1>5, <1>6 DEF r, k, d, Said

-----------------------------------------------------------------------------
(* The query.                                                              *)

\* What is known at each stage: the deadline was set once, before any time
\* passed; only a complete challenge leads behind the first read, and the
\* bytes that are sent back are then its own.
StageInv ==
  /\ deadline \in {None, Timeout}
  /\ at \in {"write", "read", "rewrite", "reread"} => deadline = Timeout
  /\ at = "dial" => deadline = None
  /\ deadline = None => clock = 0
  /\ at \in {"dial", "write", "read"} => read = << >>
  /\ at \in {"dial", "write"} => requests = << >>
  /\ at \in {"read", "rewrite"} => Len(requests) = 1
  /\ at \in {"rewrite", "reread"} => Len(read) = 1 /\ Challenges(read[1])
  /\ at = "rewrite" => SubSeq(buf, 6, 9) = SubSeq(read[1].of, 1, 4)
  /\ at = "reread" =>
       Len(requests) = 2 /\ requests[2] = SubSeq(read[1].of, 1, 4)

A2SInv ==
  TypeOK /\ StageInv /\ WithinTimeout /\ ChallengeEchoed /\ ResultIsWhatWasSaid

\* What a Read of m returns, parsed or recognised as a challenge.
LEMMA ReadingIs ==
  ASSUME TypeOK, NEW m \in Messages, Received(m)
  PROVE  /\ buf' \in Seq(Byte) /\ Len(buf') <= BufSize
         /\ n' \in 0..Len(buf')
         /\ read' \in Seq(Messages) /\ Len(read') = Len(read) + 1
         /\ read'[Len(read) + 1] = m
         /\ \A i \in 1..Len(read) : read'[i] = read[i]
         /\ IsChallenge(SubSeq(buf', 1, n')) <=> Challenges(m)
         /\ Challenges(m) => SubSeq(buf', 6, 9) = SubSeq(m.of, 1, 4)
         /\ ParseInfo(SubSeq(buf', 1, n')) = Said(m)
         /\ Said(m) \in InfoResults \cup {ParseError}
<1> DEFINE d == Bytes(m)
           k == Fits(d)
<1>1. /\ d \in Seq(Byte)
      /\ IsChallenge(Cut(d, k)) <=> Challenges(m)
      /\ ParseInfo(Cut(d, k)) = Said(m)
      /\ Said(m) \in InfoResults \cup {ParseError}
      /\ Challenges(m) => k >= 9 /\ m.of \in Seq(Byte)
                          /\ \A i \in 1..4 : d[5 + i] = m.of[i]
  <2>1. CASE m.kind = "info"
    BY <2>1, InfoMessage DEF Challenges
  <2>2. CASE m.kind = "challenge"
    BY <2>2, ChallengeMessage DEF Challenges
  <2>3. CASE m.kind = "junk"
    BY <2>3, JunkMessage DEF Challenges
  <2>4. QED
    BY <2>1, <2>2, <2>3, MessageCases
<1>2. buf' = Filled(d) /\ n' = k /\ read' = Append(read, m)
  BY DEF Received, Fits
<1> HIDE DEF d
<1>3. /\ Filled(d) \in Seq(Byte) /\ Len(Filled(d)) <= BufSize
      /\ k \in 0..Len(Filled(d)) /\ Cut(Filled(d), k) = Cut(d, k)
  BY <1>1, Seen DEF TypeOK
<1>4. k \in 0..Len(d)
  BY <1>1, A2SAssumption DEF Fits
<1> HIDE DEF k
<1>5. SubSeq(buf', 1, n') = Cut(d, k)
  BY <1>2, <1>3 DEF Cut
<1>6. ASSUME Challenges(m) PROVE SubSeq(buf', 6, 9) = SubSeq(m.of, 1, 4)
  <2> DEFINE b == Filled(d)
  <2>1. k >= 9 /\ \A i \in 1..4 : d[5 + i] = m.of[i]
    BY <1>1, <1>6
  <2>2. m.of \in Seq(Byte) /\ Len(m.of) >= 4 /\ Len(m.of) \in Nat
    BY <1>1, <1>6 DEF Challenges
  <2>3. \A i \in 1..k : b[i] = d[i]
    <3>1. \A i \in 1..k : Cut(b, k)[i] = b[i]
      BY <1>3, CutIs
    <3>2. \A i \in 1..k : Cut(d, k)[i] = d[i]
      BY <1>1, <1>4, CutIs
    <3>3. QED
      BY <1>3, <3>1, <3>2
  <2> HIDE DEF b
  <2>4. b \in Seq(Byte) /\ Len(b) \in Nat /\ Len(b) >= 9
    <3>1. b \in Seq(Byte) /\ Len(b) \in Nat
      BY <1>3 DEF b
    <3>2. k \in 0..Len(b)
      BY <1>3 DEF b
    <3>3. QED
      BY <2>1, <3>1, <3>2
  <2>5. /\ SubSeq(b, 6, 9) \in Seq(Byte) /\ Len(SubSeq(b, 6, 9)) = 4
        /\ \A i \in 1..4 : SubSeq(b, 6, 9)[i] = b[5 + i]
    <3>1. 6 \in Nat \ {0} /\ 9 \in 0..Len(b) /\ 6 <= 9 + 1
      BY <2>4
    <3>2. /\ SubSeq(b, 6, 9) \in Seq(Byte) /\ Len(SubSeq(b, 6, 9)) = 9 - 6 + 1
          /\ \A i \in 1..9 - 6 + 1 : SubSeq(b, 6, 9)[i] = b[6 + i - 1]
      BY <2>4, <3>1, SubSeqIs
    <3>3. 9 - 6 + 1 = 4 /\ \A i \in 1..4 : 6 + i - 1 = 5 + i
      OBVIOUS
    <3>4. QED
      BY <3>2, <3>3
  <2>6. \A i \in 1..4 : b[5 + i] = m.of[i]
    <3>1. \A i \in 1..4 : 5 + i \in 1..k
      BY <1>4, <2>1
    <3>2. QED
      BY <2>1, <2>3, <3>1
  <2>7. /\ Cut(m.of, 4) \in Seq(Byte) /\ Len(Cut(m.of, 4)) = 4
        /\ \A i \in 1..4 : Cut(m.of, 4)[i] = m.of[i]
    <3>1. 4 \in 0..Len(m.of)
      BY <2>2
    <3>2. QED
      BY <2>2, <3>1, CutIs
  <2>8. \A i \in 1..4 : SubSeq(b, 6, 9)[i] = Cut(m.of, 4)[i]
    BY <2>5, <2>6, <2>7
  <2>9. SubSeq(b, 6, 9) = Cut(m.of, 4)
    BY <2>5, <2>7, <2>8, SeqEqual
  <2>10. QED
    BY <1>2, <2>9 DEF b, Cut
<1>7. /\ read' \in Seq(Messages) /\ Len(read') = Len(read) + 1
      /\ read'[Len(read) + 1] = m
      /\ \A i \in 1..Len(read) : read'[i] = read[i]
  <2>1. read \in Seq(Messages)
    BY DEF TypeOK
  <2>2. read' \in Seq(Messages) /\ Len(read') = Len(read) + 1
    BY <1>2, <2>1, AppendProperties
  <2>3. read'[Len(read) + 1] = m
    BY <1>2, <2>1, AppendProperties
  <2>4. \A i \in 1..Len(read) : read'[i] = read[i]
    BY <1>2, <2>1, AppendProperties
  <2>5. QED
    BY <2>2, <2>3, <2>4
<1>8. QED
  BY <1>1, <1>2, <1>3, <1>5, <1>6, <1>7

LEMMA A2SInit == Init => A2SInv
<1> SUFFICES ASSUME Init PROVE A2SInv
  OBVIOUS
<1>1. TypeOK
  <2>1. 0 \in 0..MaxClock
    BY A2SAssumption DEF MaxClock
  <2>2. /\ << >> \in Seq(Byte) /\ << >> \in Seq(Seq(Byte))
        /\ << >> \in Seq(Messages)
        /\ Len(<< >>) = 0 /\ 0 <= BufSize /\ 0 <= 2
    BY A2SAssumption
  <2>3. 0 \in 0..Len(<< >>)
    BY <2>2
  <2>4. QED
    BY <2>1, <2>2, <2>3, Zenon DEF Init, TypeOK
<1>2. StageInv
  BY DEF Init, StageInv
<1>3. WithinTimeout
  BY A2SAssumption DEF Init, WithinTimeout
<1>4. ChallengeEchoed
  BY DEF Init, ChallengeEchoed
<1>5. ResultIsWhatWasSaid
  BY DEF Init, ResultIsWhatWasSaid
<1>6. QED
  BY <1>1, <1>2, <1>3, <1>4, <1>5 DEF A2SInv

LEMMA A2SStep == A2SInv /\ [Next]_vars => A2SInv'
<1> SUFFICES ASSUME A2SInv, [Next]_vars PROVE A2SInv'
  OBVIOUS
<1> USE DEF A2SInv
<1>0. Timeout \in Nat /\ Timeout # 0 /\ None \notin Nat
  BY A2SAssumption, NoneAssumption
<1>1. CASE UNCHANGED vars
  BY <1>1 DEF vars, TypeOK, StageInv, WithinTimeout, ChallengeEchoed,
              ResultIsWhatWasSaid
<1>2. CASE Dial
  <2>1. clock = 0 /\ deadline' = Timeout
    BY <1>0, <1>2 DEF Dial, StageInv
  <2>2. TypeOK'
    BY <1>0, <1>2, <2>1 DEF Dial, TypeOK
  <2>3. StageInv'
    BY <1>0, <1>2, <2>1 DEF Dial, StageInv
  <2>4. WithinTimeout' /\ ChallengeEchoed' /\ ResultIsWhatWasSaid'
    BY <1>2 DEF Dial, WithinTimeout, ChallengeEchoed, ResultIsWhatWasSaid
  <2>5. QED
    BY <2>2, <2>3, <2>4
<1>3. CASE Request
  <2>1. requests' \in Seq(Seq(Byte)) /\ Len(requests') = 1
    BY <1>3 DEF Request
  <2>2. TypeOK'
    BY <1>3, <2>1 DEF Request, TypeOK
  <2>3. StageInv'
    BY <1>3, <2>1 DEF Request, StageInv
  <2>4. WithinTimeout' /\ ChallengeEchoed' /\ ResultIsWhatWasSaid'
    BY <1>3, <2>1 DEF Request, WithinTimeout, ChallengeEchoed, ResultIsWhatWasSaid
  <2>5. QED
    BY <2>2, <2>3, <2>4
<1>4. CASE Answer
  <2> DEFINE t == SubSeq(read[1].of, 1, 4)
  <2>1. /\ Len(read) = 1 /\ Challenges(read[1]) /\ read \in Seq(Messages)
        /\ Len(requests) = 1 /\ requests \in Seq(Seq(Byte))
        /\ deadline = Timeout
    BY <1>4 DEF Answer, StageInv, TypeOK
  <2>2. requests' = Append(requests, t)
    BY <1>4 DEF Answer, StageInv
  <2>3. t \in Seq(Byte)
    <3>1. read[1] \in Messages
      <4>1. read \in Seq(Messages) /\ 1 \in 1..Len(read)
        BY <2>1
      <4>2. QED
        BY <4>1, ElementOfSeq
    <3>2. read[1].of \in Seq(Byte) /\ 4 \in 0..Len(read[1].of)
      BY <2>1, <3>1, ChallengeMessage DEF Challenges
    <3>3. QED
      BY <3>2, CutIs DEF Cut
  <2> HIDE DEF t
  <2>4. /\ requests' \in Seq(Seq(Byte)) /\ Len(requests') = 2
        /\ requests'[2] = t
    <3>1. requests \in Seq(Seq(Byte)) /\ t \in Seq(Byte)
      BY <2>1, <2>3
    <3>2. /\ Append(requests, t) \in Seq(Seq(Byte))
          /\ Len(Append(requests, t)) = Len(requests) + 1
      BY <3>1, AppendProperties
    <3>3. Append(requests, t)[Len(requests) + 1] = t
      BY <3>1, AppendProperties
    <3>4. QED
      BY <2>1, <2>2, <3>2, <3>3
  <2>5. TypeOK'
    BY <1>4, <2>4 DEF Answer, TypeOK
  <2>6. StageInv'
    BY <1>4, <2>1, <2>4 DEF Answer, StageInv, t
  <2>7. WithinTimeout' /\ ChallengeEchoed' /\ ResultIsWhatWasSaid'
    BY <1>4, <2>1, <2>4
       DEF Answer, WithinTimeout, ChallengeEchoed, ResultIsWhatWasSaid,
           Challenges, t
  <2>8. QED
    BY <2>5, <2>6, <2>7
<1>5. CASE Fails
  <2>1. TypeOK'
    BY <1>5 DEF Fails, TypeOK
  <2>2. StageInv'
    BY <1>5 DEF Fails, StageInv
  <2>3. WithinTimeout' /\ ChallengeEchoed' /\ ResultIsWhatWasSaid'
    BY <1>5 DEF Fails, WithinTimeout, ChallengeEchoed, ResultIsWhatWasSaid
  <2>4. QED
    BY <2>1, <2>2, <2>3
<1>6. CASE Tick
  <2>1. deadline = Timeout /\ clock < Timeout /\ clock \in Nat
    BY <1>0, <1>6 DEF Tick, Expired, StageInv, TypeOK
  <2>2. TypeOK'
    BY <1>0, <1>6, <2>1 DEF Tick, TypeOK, MaxClock
  <2>3. StageInv'
    BY <1>0, <1>6, <2>1 DEF Tick, StageInv
  <2>4. WithinTimeout'
    BY <1>0, <1>6, <2>1 DEF Tick, WithinTimeout
  <2>5. ChallengeEchoed' /\ ResultIsWhatWasSaid'
    BY <1>6 DEF Tick, ChallengeEchoed, ResultIsWhatWasSaid
  <2>6. QED
    BY <2>2, <2>3, <2>4, <2>5
<1>7. ASSUME NEW m \in Messages, Read(m) PROVE A2SInv'
  <2> DEFINE resp == SubSeq(buf', 1, n')
  <2>1. /\ read = << >> /\ Len(requests) = 1 /\ deadline = Timeout
        /\ at = "read" /\ Received(m) /\ UNCHANGED <<clock, deadline, requests>>
    BY <1>7 DEF Read, StageInv
  <2>2. /\ buf' \in Seq(Byte) /\ Len(buf') <= BufSize
        /\ n' \in 0..Len(buf')
        /\ read' \in Seq(Messages) /\ Len(read') = Len(read) + 1
        /\ read'[Len(read) + 1] = m
        /\ IsChallenge(resp) <=> Challenges(m)
        /\ Challenges(m) => SubSeq(buf', 6, 9) = SubSeq(m.of, 1, 4)
        /\ ParseInfo(resp) = Said(m)
        /\ Said(m) \in InfoResults \cup {ParseError}
    BY <2>1, ReadingIs
  <2>3. Len(read') = 1 /\ read'[1] = m /\ read' # << >> /\ Last(read') = m
    <3>1. Len(read) = 0
      BY <2>1
    <3>2. Len(read') = 1 /\ read'[1] = m
      BY <2>2, <3>1
    <3>3. Last(read') = m
      BY <3>2 DEF Last
    <3>4. QED
      BY <3>2, <3>3
  <2>4. CASE Challenges(m)
    <3>1. at' = "rewrite" /\ result' = result
      BY <1>7, <2>2, <2>4 DEF Read
    <3>2. TypeOK'
      BY <2>1, <2>2, <2>3, <3>1 DEF TypeOK
    <3>3. StageInv'
      BY <1>0, <2>1, <2>2, <2>3, <2>4, <3>1 DEF StageInv
    <3>4. WithinTimeout' /\ ChallengeEchoed' /\ ResultIsWhatWasSaid'
      BY <2>1, <3>1 DEF WithinTimeout, ChallengeEchoed, ResultIsWhatWasSaid
    <3>5. QED
      BY <3>2, <3>3, <3>4
  <2>5. CASE ~Challenges(m)
    <3>1. at' = "done" /\ result' = Said(m)
      BY <1>7, <2>2, <2>5 DEF Read
    <3>2. TypeOK'
      BY <2>1, <2>2, <2>3, <3>1 DEF TypeOK
    <3>3. StageInv'
      BY <1>0, <2>1, <3>1 DEF StageInv
    <3>4. WithinTimeout' /\ ResultIsWhatWasSaid'
      BY <2>1, <2>3, <3>1 DEF WithinTimeout, ResultIsWhatWasSaid
    <3>5. ChallengeEchoed'
      BY <2>1, <2>3, <2>5 DEF ChallengeEchoed, Challenges
    <3>6. QED
      BY <3>2, <3>3, <3>4, <3>5
  <2>6. QED
    BY <2>4, <2>5
<1>8. ASSUME NEW m \in Messages, Reread(m) PROVE A2SInv'
  <2> DEFINE resp == SubSeq(buf', 1, n')
  <2>1. /\ Len(read) = 1 /\ Challenges(read[1])
        /\ Len(requests) = 2 /\ requests[2] = SubSeq(read[1].of, 1, 4)
        /\ deadline = Timeout
        /\ Received(m) /\ UNCHANGED <<clock, deadline, requests>>
        /\ at' = "done" /\ result' = ParseInfo(resp)
    BY <1>8 DEF Reread, StageInv
  <2>2. /\ buf' \in Seq(Byte) /\ Len(buf') <= BufSize
        /\ n' \in 0..Len(buf')
        /\ read' \in Seq(Messages) /\ Len(read') = Len(read) + 1
        /\ read'[Len(read) + 1] = m
        /\ \A i \in 1..Len(read) : read'[i] = read[i]
        /\ ParseInfo(resp) = Said(m)
        /\ Said(m) \in InfoResults \cup {ParseError}
    BY <2>1, ReadingIs
  <2>3. /\ Len(read') = 2 /\ read'[1] = read[1] /\ read' # << >>
        /\ Last(read') = m
    <3>1. Len(read') = 2 /\ read'[2] = m
      BY <2>1, <2>2
    <3>2. read'[1] = read[1]
      BY <2>1, <2>2
    <3>3. Last(read') = m
      BY <3>1 DEF Last
    <3>4. QED
      BY <3>1, <3>2, <3>3
  <2>4. TypeOK'
    BY <2>1, <2>2, <2>3 DEF TypeOK
  <2>5. StageInv'
    BY <1>0, <2>1 DEF StageInv
  <2>6. WithinTimeout' /\ ResultIsWhatWasSaid'
    BY <2>1, <2>2, <2>3 DEF WithinTimeout, ResultIsWhatWasSaid
  <2>7. ChallengeEchoed'
    BY <2>1, <2>3 DEF ChallengeEchoed, Challenges
  <2>8. QED
    BY <2>4, <2>5, <2>6, <2>7
<1>9. QED
  BY <1>1, <1>2, <1>3, <1>4, <1>5, <1>6, <1>7, <1>8 DEF Next

LEMMA A2SInductive == Spec => []A2SInv
<1>1. Init => A2SInv
  BY A2SInit
<1>2. A2SInv /\ [Next]_vars => A2SInv'
  BY A2SStep
<1>3. QED
  BY <1>1, <1>2, PTL DEF Spec

\* Types: no Read writes past the end of the buffer, whatever its size and
\* however long the datagram, and a query sends at most two requests
\* (a2s.go:46-72).
THEOREM QueryTypes == Spec => []TypeOK
<1>1. A2SInv => TypeOK
  BY DEF A2SInv
<1>2. QED
  BY <1>1, A2SInductive, PTL

\* The probe is back within DST_HEALTH_TIMEOUT, whatever the timeout is and
\* however the two reads share it (a2s.go:39).
THEOREM QueryIsBackInTime == Spec => []WithinTimeout
<1>1. A2SInv => WithinTimeout
  BY DEF A2SInv
<1>2. QED
  BY <1>1, A2SInductive, PTL

\* A complete challenge, and nothing else, is answered, once, by its own four
\* bytes (a2s.go:55-72).
THEOREM ChallengesAreAnswered == Spec => []ChallengeEchoed
<1>1. A2SInv => ChallengeEchoed
  BY DEF A2SInv
<1>2. QED
  BY <1>1, A2SInductive, PTL

\* parseA2SInfo reads back what the last sender laid out, or refuses it, for
\* names of any length, datagrams cut at any byte and a buffer of any size
\* (a2s.go:46-71, 79-134).
THEOREM ResultsAreWhatWasSaid == Spec => []ResultIsWhatWasSaid
<1>1. A2SInv => ResultIsWhatWasSaid
  BY DEF A2SInv
<1>2. QED
  BY <1>1, A2SInductive, PTL

=============================================================================
