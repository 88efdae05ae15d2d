-------------------------- MODULE PrefixWriterProofs --------------------------
(***************************************************************************)
(* Theorems about PrefixWriter, for every cap, every size of the reads and *)
(* streams of any length.                                                  *)
(*                                                                         *)
(* CutInv says of the lines ls, the partial line p and the first c bytes   *)
(* of a stream with the newlines N that they are a cut of it.  A byte that *)
(* is fed and a flush keep it (lemmas TextByte, NewlineByte, EndOfLine),   *)
(* and so does the loop over a chunk, by induction over its bytes.         *)
(***************************************************************************)
EXTENDS PrefixWriter, SequenceTheorems, WellFoundedInduction, TLAPS

-----------------------------------------------------------------------------
(* Recursive functions over a range of numbers.                            *)

\* Induction over the natural numbers, for sets.
LEMMA NatSetInduction ==
  ASSUME NEW S, 0 \in S, \A n \in Nat : n \in S => n + 1 \in S
  PROVE  Nat \subseteq S
<1> DEFINE R == {p \in Nat \X Nat : p[1] < p[2]}
           T == Nat \ S
<1> SUFFICES ASSUME T # {} PROVE FALSE
  OBVIOUS
<1>1. IsWellFoundedOn(R, Nat)
  BY NatLessThanWellFounded DEF OpToRel
<1>2. PICK x \in T : \A y \in T : <<y, x>> \notin R
  <2>1. T \subseteq Nat
    OBVIOUS
  <2> HIDE DEF R, T
  <2>2. QED
    BY <1>1, <2>1, WFMin
<1>3. x \in Nat /\ x # 0
  OBVIOUS
<1>4. x - 1 \in T
  <2>1. x - 1 \in Nat /\ (x - 1) + 1 = x
    BY <1>3
  <2>2. QED
    BY <2>1, <1>3
<1>5. <<x - 1, x>> \in R
  BY <1>3, <1>4
<1>6. QED
  BY <1>2, <1>4, <1>5

\* f is a run of n steps of F from x0, within X.
IsRun(f, F, n, x0, X) ==
  /\ f \in [0..n -> X]
  /\ f[0] = x0
  /\ \A i \in 1..n : f[i] = F[<<f[i - 1], i>>]

\* Every function has such a run.
LEMMA RunExists ==
  ASSUME NEW X, NEW x0 \in X, NEW n \in Nat, NEW F \in [X \X (1..n) -> X]
  PROVE  \E f : IsRun(f, F, n, x0, X)
<1> DEFINE Steps(k) == {f \in [0..k -> X] :
                         f[0] = x0 /\ \A i \in 1..k : f[i] = F[<<f[i - 1], i>>]}
           S == {k \in Nat : k <= n => Steps(k) # {}}
<1>1. 0 \in S
  <2>1. [i \in 0..0 |-> x0] \in Steps(0)
    OBVIOUS
  <2>2. QED
    BY <2>1
<1>2. ASSUME NEW k \in Nat, k \in S, k + 1 <= n PROVE Steps(k + 1) # {}
  <2>1. PICK f \in Steps(k) : TRUE
    BY <1>2
  <2>2. /\ \A i \in 0..k : f[i] \in X
        /\ f[0] = x0
        /\ \A i \in 1..k : f[i] = F[<<f[i - 1], i>>]
    BY <2>1
  <2> DEFINE x == F[<<f[k], k + 1>>]
             g == [i \in 0..k + 1 |-> IF i = k + 1 THEN x ELSE f[i]]
  <2>3. x \in X
    BY <1>2, <2>2
  <2> HIDE DEF x
  <2>4. /\ g \in [0..k + 1 -> X]
        /\ g[k + 1] = x
        /\ \A i \in 0..k : g[i] = f[i]
    BY <2>2, <2>3
  <2> HIDE DEF g
  <2>5. g[0] = x0
    BY <2>2, <2>4
  <2>6. ASSUME NEW i \in 1..k + 1 PROVE g[i] = F[<<g[i - 1], i>>]
    <3>1. i - 1 \in 0..k /\ g[i - 1] = f[i - 1]
      BY <2>4
    <3>2. CASE i = k + 1
      <4>1. i - 1 = k
        BY <3>2
      <4>2. g[i] = x /\ g[i - 1] = f[k]
        BY <2>4, <3>1, <3>2, <4>1
      <4>3. QED
        BY <3>2, <4>2 DEF x
    <3>3. CASE i # k + 1
      <4>1. i \in 1..k /\ i \in 0..k
        BY <3>3
      <4>2. g[i] = f[i] /\ f[i] = F[<<f[i - 1], i>>]
        BY <2>2, <2>4, <4>1
      <4>3. QED
        BY <3>1, <4>2
    <3>4. QED
      BY <3>2, <3>3
  <2>7. g \in Steps(k + 1)
    BY <2>4, <2>5, <2>6
  <2>8. QED
    BY <2>7
<1>3. \A k \in Nat : k \in S => k + 1 \in S
  BY <1>2
<1> HIDE DEF S
<1>4. n \in S
  BY <1>1, <1>3, NatSetInduction
<1>5. QED
  BY <1>4 DEF S, IsRun

-----------------------------------------------------------------------------
(* Sequences.                                                              *)

LEMMA ConcatAppend ==
  ASSUME NEW X, NEW s \in Seq(X), NEW t \in Seq(X), NEW e \in X
  PROVE  s \o Append(t, e) = Append(s \o t, e)
OBVIOUS

\* A function that adds up the sequences of s ends in FlattenSeq(s).
LEMMA FlattenIs ==
  ASSUME NEW X, NEW s \in Seq(Seq(X)), NEW g \in [0..Len(s) -> Seq(X)],
         g[0] = << >>, \A i \in 1..Len(s) : g[i] = g[i - 1] \o s[i]
  PROVE  FlattenSeq(s) = g[Len(s)]
<1> DEFINE m == Len(s)
           G(h) == [i \in 1..m |-> IF i = 1 THEN s[i] ELSE h[i - 1] \o s[i]]
           flatten == CHOOSE h : h = G(h)
<1>1. CASE m = 0
  BY <1>1 DEF FlattenSeq
<1>2. CASE m # 0
  <2>1. m \in Nat /\ 1 \in 1..m /\ s[1] \in Seq(X)
    BY <1>2
  <2>2. g[1] = s[1]
    <3>1. g[1] = g[1 - 1] \o s[1]
      BY <2>1
    <3>2. g[1] = << >> \o s[1]
      BY <3>1
    <3>3. QED
      BY <2>1, <3>2, ConcatEmptySeq
  <2> DEFINE h0 == [i \in 1..m |-> g[i]]
  <2>3. h0 = G(h0)
    <3>1. ASSUME NEW i \in 1..m, i # 1 PROVE h0[i] = h0[i - 1] \o s[i]
      <4>1. i - 1 \in 1..m
        BY <2>1, <3>1
      <4>2. QED
        BY <4>1
    <3>2. \A i \in 1..m : h0[i] = IF i = 1 THEN s[i] ELSE h0[i - 1] \o s[i]
      BY <2>2, <3>1
    <3> HIDE DEF h0
    <3>3. h0 = [i \in 1..m |-> h0[i]]
      BY DEF h0
    <3>4. QED
      BY <3>2, <3>3
  <2>4. flatten = G(flatten)
    <3> HIDE DEF h0, G
    <3>1. QED
      BY <2>3
  <2> HIDE DEF flatten
  <2> DEFINE S == {k \in Nat : k + 1 <= m => flatten[k + 1] = g[k + 1]}
  <2>5. 0 \in S
    BY <2>1, <2>2, <2>4
  <2>6. ASSUME NEW k \in Nat, k \in S PROVE k + 1 \in S
    <3>1. CASE k + 2 <= m
      <4>1. k + 2 \in 1..m /\ k + 2 # 1 /\ (k + 2) - 1 = k + 1
        BY <2>1, <3>1
      <4>2. flatten[k + 2] = flatten[k + 1] \o s[k + 2]
        BY <2>4, <4>1
      <4>3. g[k + 2] = g[k + 1] \o s[k + 2]
        BY <4>1
      <4>4. flatten[k + 1] = g[k + 1]
        BY <2>1, <2>6, <3>1
      <4>5. flatten[k + 2] = g[k + 2]
        BY <4>2, <4>3, <4>4
      <4>6. (k + 1) + 1 = k + 2 /\ k + 1 \in Nat
        OBVIOUS
      <4>7. QED
        BY <4>5, <4>6
    <3>2. CASE ~(k + 2 <= m)
      BY <2>1, <3>2
    <3>3. QED
      BY <3>1, <3>2
  <2>7. m - 1 \in S
    <3> HIDE DEF S
    <3>1. Nat \subseteq S
      BY <2>5, <2>6, NatSetInduction
    <3>2. m - 1 \in Nat
      BY <1>2, <2>1
    <3>3. QED
      BY <3>1, <3>2
  <2>8. flatten[m] = g[m]
    BY <2>1, <2>7
  <2>9. FlattenSeq(s) = flatten[m]
    BY <1>2 DEF FlattenSeq, flatten
  <2>10. QED
    BY <2>8, <2>9
<1>3. QED
  BY <1>1, <1>2

LEMMA FlattenAppend ==
  ASSUME NEW X, NEW s \in Seq(Seq(X)), NEW l \in Seq(X)
  PROVE  /\ FlattenSeq(s) \in Seq(X)
         /\ FlattenSeq(Append(s, l)) = FlattenSeq(s) \o l
<1> DEFINE t == Append(s, l)
           n == Len(t)
           F == [c \in Seq(X) \X (1..n) |-> c[1] \o t[c[2]]]
<1>1. /\ t \in Seq(Seq(X)) /\ n \in Nat /\ n = Len(s) + 1
      /\ \A i \in 1..n : t[i] \in Seq(X)
      /\ \A i \in 1..Len(s) : t[i] = s[i]
      /\ t[n] = l
  OBVIOUS
<1>2. F \in [Seq(X) \X (1..n) -> Seq(X)]
  BY <1>1
<1>3. << >> \in Seq(X)
  OBVIOUS
<1> HIDE DEF F, t, n
<1>4. PICK g : IsRun(g, F, n, << >>, Seq(X))
  BY <1>1, <1>2, <1>3, RunExists
<1>5. \A i \in 1..n : g[i - 1] \in Seq(X) /\ g[i] = g[i - 1] \o t[i]
  <2> SUFFICES ASSUME NEW i \in 1..n
               PROVE  g[i - 1] \in Seq(X) /\ g[i] = g[i - 1] \o t[i]
    OBVIOUS
  <2>1. i - 1 \in 0..n
    BY <1>1
  <2>2. g[i - 1] \in Seq(X) /\ g[i] = F[<<g[i - 1], i>>]
    BY <1>4, <2>1 DEF IsRun
  <2>3. QED
    BY <2>2 DEF F
<1>6. FlattenSeq(t) = g[n]
  <2>1. g \in [0..Len(t) -> Seq(X)] /\ g[0] = << >>
    BY <1>4 DEF IsRun, n
  <2>2. QED
    BY <1>1, <1>5, <2>1, FlattenIs DEF n
<1>7. FlattenSeq(s) = g[Len(s)]
  <2> DEFINE h == [i \in 0..Len(s) |-> g[i]]
  <2>1. h \in [0..Len(s) -> Seq(X)] /\ h[0] = << >>
    BY <1>1, <1>4 DEF IsRun
  <2>2. \A i \in 1..Len(s) : h[i] = h[i - 1] \o s[i]
    <3> SUFFICES ASSUME NEW i \in 1..Len(s) PROVE h[i] = h[i - 1] \o s[i]
      OBVIOUS
    <3>1. i \in 1..n /\ i \in 0..Len(s) /\ i - 1 \in 0..Len(s) /\ t[i] = s[i]
      BY <1>1
    <3>2. QED
      BY <1>5, <3>1
  <2>3. FlattenSeq(s) = h[Len(s)]
    <3> HIDE DEF h
    <3>1. QED
      BY <2>1, <2>2, FlattenIs
  <2>4. QED
    BY <2>3
<1>8. Len(s) \in 0..n /\ n \in 1..n /\ n - 1 = Len(s)
  BY <1>1
<1>9. QED
  BY <1>1, <1>4, <1>5, <1>6, <1>7, <1>8 DEF IsRun, t

-----------------------------------------------------------------------------
(* A cut of the stream.                                                    *)

\* s holds the numbers of the set S, each once and in order.
Enumerates(s, S) ==
  /\ Range(s) = S
  /\ \A i, j \in DOMAIN s : i < j => s[i] < s[j]

Between(a, b, N) == \E n \in N : a < n /\ n < b

\* Where the line begins that p will become.
Start(p, c) == IF p = << >> THEN c + 1 ELSE Head(p)

CutInv(ls, p, c, N) ==
  /\ ls \in Seq(Seq(1..c)) /\ p \in Seq(1..c)
  /\ \A i \in DOMAIN ls : Len(ls[i]) < Cap + MaxChunk
  /\ Enumerates(FlattenSeq(ls) \o p, (1..c) \ N)
  /\ \A i \in DOMAIN ls :
       ls[i] # << >> /\ ~Between(Head(ls[i]), Last(ls[i]), N)
  /\ \A i \in 1..Len(ls) - 1 :
       Between(Last(ls[i]), Head(ls[i + 1]), N) \/ Len(ls[i]) >= Cap
  /\ \A n \in N : n <= c => n < Start(p, c)
  /\ ls # << >> =>
       Between(Last(Last(ls)), Start(p, c), N) \/ Len(Last(ls)) >= Cap

\* The next byte is no newline.
LEMMA TextByte ==
  ASSUME NEW ls, NEW p, NEW c \in Nat, NEW N \in SUBSET Nat,
         CutInv(ls, p, c, N), c + 1 \notin N
  PROVE  CutInv(ls, Append(p, c + 1), c + 1, N)
<1> DEFINE q == Append(p, c + 1)
           flat == FlattenSeq(ls) \o p
<1>1. /\ ls \in Seq(Seq(1..c)) /\ p \in Seq(1..c)
      /\ Enumerates(flat, (1..c) \ N)
  BY DEF CutInv
<1>2. ls \in Seq(Seq(1..c + 1)) /\ q \in Seq(1..c + 1)
  <2>1. Seq(1..c) \subseteq Seq(1..c + 1)
    OBVIOUS
  <2>2. Seq(Seq(1..c)) \subseteq Seq(Seq(1..c + 1))
    BY <2>1
  <2>3. QED
    BY <1>1, <2>1, <2>2
<1>3. FlattenSeq(ls) \in Seq(1..c)
  BY <1>1, FlattenAppend
<1>4. flat \in Seq(1..c) /\ FlattenSeq(ls) \o q = Append(flat, c + 1)
  <2>1. FlattenSeq(ls) \in Seq(Nat) /\ p \in Seq(Nat) /\ c + 1 \in Nat
    BY <1>1, <1>3
  <2>2. FlattenSeq(ls) \o q = Append(flat, c + 1)
    BY <2>1, ConcatAppend, SMTT(30)
  <2>3. QED
    BY <1>1, <1>3, <2>2
<1>5. Enumerates(Append(flat, c + 1), (1..c + 1) \ N)
  <2> HIDE DEF flat
  <2> DEFINE f == Append(flat, c + 1)
  <2>1. /\ DOMAIN f = 1..Len(flat) + 1 /\ Len(flat) \in Nat
        /\ DOMAIN flat = 1..Len(flat)
        /\ \A i \in DOMAIN flat : f[i] = flat[i] /\ flat[i] \in 1..c
        /\ f[Len(flat) + 1] = c + 1
    BY <1>4
  <2> HIDE DEF f
  <2>2. Range(f) = Range(flat) \cup {c + 1}
    BY <2>1 DEF Range
  <2>3. (1..c + 1) \ N = ((1..c) \ N) \cup {c + 1}
    OBVIOUS
  <2>4. \A i, j \in DOMAIN f : i < j => f[i] < f[j]
    BY <1>1, <2>1, SMTT(30) DEF Enumerates
  <2>5. QED
    BY <1>1, <2>2, <2>3, <2>4 DEF Enumerates, f
<1>6. Start(q, c + 1) = Start(p, c)
  <2>1. q # << >> /\ Head(q) = q[1]
    <3>1. Len(q) = Len(p) + 1 /\ Len(p) \in Nat
      BY <1>1
    <3> HIDE DEF q
    <3>2. q # << >>
      BY <3>1
    <3>3. Head(q) = q[1]
      BY <1>2, <3>2 DEF q
    <3>4. QED
      BY <3>2, <3>3
  <2>2. CASE p = << >>
    BY <2>1, <2>2 DEF Start
  <2>3. CASE p # << >>
    <3>1. q[1] = p[1] /\ Head(p) = p[1]
      BY <1>1, <2>3
    <3>2. QED
      BY <2>1, <2>3, <3>1 DEF Start
  <2>4. QED
    BY <2>2, <2>3
<1>7. \A n \in N : n <= c + 1 => n <= c
  OBVIOUS
<1> HIDE DEF q
<1>8. QED
  BY <1>2, <1>4, <1>5, <1>6, <1>7 DEF CutInv, q

\* The next byte is a newline and there is no partial line.
LEMMA NewlineByte ==
  ASSUME NEW ls, NEW c \in Nat, NEW N \in SUBSET Nat,
         CutInv(ls, << >>, c, N), c + 1 \in N
  PROVE  CutInv(ls, << >>, c + 1, N)
<1>1. ls \in Seq(Seq(1..c + 1)) /\ << >> \in Seq(1..c + 1)
  <2>1. Seq(1..c) \subseteq Seq(1..c + 1)
    OBVIOUS
  <2>2. Seq(Seq(1..c)) \subseteq Seq(Seq(1..c + 1))
    BY <2>1
  <2>3. QED
    BY <2>2 DEF CutInv
<1>2. (1..c + 1) \ N = (1..c) \ N
  OBVIOUS
<1>3. Start(<< >>, c) = c + 1 /\ Start(<< >>, c + 1) = c + 2
  BY DEF Start
<1>4. ls # << >> => Last(Last(ls)) \in 1..c
  <2>1. ls \in Seq(Seq(1..c)) /\ \A i \in DOMAIN ls : ls[i] # << >>
    BY DEF CutInv
  <2>2. QED
    BY <2>1 DEF Last
<1>5. ls # << >> => Between(Last(Last(ls)), c + 2, N)
  BY <1>4 DEF Between
<1>6. \A n \in N : n <= c + 1 => n < c + 2
  OBVIOUS
<1>7. QED
  BY <1>1, <1>2, <1>3, <1>5, <1>6 DEF CutInv

\* The partial line ends, by a newline or because it reached the cap.
LEMMA EndOfLine ==
  ASSUME NEW ls, NEW p, NEW c \in Nat, NEW d \in Nat, NEW N \in SUBSET Nat,
         CutInv(ls, p, c, N), p # << >>, Len(p) < Cap + MaxChunk,
         (d = c /\ Len(p) >= Cap) \/ (d = c + 1 /\ c + 1 \in N)
  PROVE  CutInv(Append(ls, p), << >>, d, N)
<1> DEFINE m == Append(ls, p)
<1>1. /\ ls \in Seq(Seq(1..c)) /\ p \in Seq(1..c)
      /\ \A i \in DOMAIN ls : Len(ls[i]) < Cap + MaxChunk
      /\ Enumerates(FlattenSeq(ls) \o p, (1..c) \ N)
      /\ \A i \in DOMAIN ls :
           ls[i] # << >> /\ ~Between(Head(ls[i]), Last(ls[i]), N)
      /\ \A i \in 1..Len(ls) - 1 :
           Between(Last(ls[i]), Head(ls[i + 1]), N) \/ Len(ls[i]) >= Cap
  BY DEF CutInv
<1>2. m \in Seq(Seq(1..d)) /\ << >> \in Seq(1..d)
  <2>1. Seq(1..c) \subseteq Seq(1..d)
    OBVIOUS
  <2>2. m \in Seq(Seq(1..c)) /\ Seq(Seq(1..c)) \subseteq Seq(Seq(1..d))
    BY <1>1, <2>1
  <2>3. QED
    BY <2>2
<1>3. /\ DOMAIN m = 1..Len(ls) + 1 /\ Len(m) = Len(ls) + 1 /\ Len(ls) \in Nat
      /\ DOMAIN ls = 1..Len(ls)
      /\ \A i \in DOMAIN ls : m[i] = ls[i]
      /\ m[Len(ls) + 1] = p /\ m # << >> /\ Last(m) = p
  <2>1. m[Len(ls) + 1] = p /\ Len(m) = Len(ls) + 1 /\ Len(ls) \in Nat
    BY <1>1
  <2>2. Last(m) = p
    BY <2>1 DEF Last
  <2>3. DOMAIN ls = 1..Len(ls) /\ \A i \in DOMAIN ls : m[i] = ls[i]
    BY <1>1
  <2>4. DOMAIN m = 1..Len(ls) + 1
    BY <1>1
  <2>5. m # << >>
    BY <2>1
  <2>6. QED
    BY <2>1, <2>2, <2>3, <2>4, <2>5
<1>4. Enumerates(FlattenSeq(m) \o << >>, (1..d) \ N)
  <2>1. FlattenSeq(m) = FlattenSeq(ls) \o p /\ FlattenSeq(ls) \in Seq(1..c)
    BY <1>1, FlattenAppend
  <2>2. FlattenSeq(m) \in Seq(1..c)
    BY <1>1, <2>1
  <2>3. FlattenSeq(m) \o << >> = FlattenSeq(ls) \o p
    BY <2>1, <2>2, ConcatEmptySeq
  <2>4. (1..d) \ N = (1..c) \ N
    OBVIOUS
  <2>5. QED
    BY <1>1, <2>3, <2>4
<1> HIDE DEF m
<1>5. Head(p) \in 1..c /\ Last(p) \in 1..c
  BY <1>1 DEF Last
<1>6. Start(p, c) = Head(p) /\ Start(<< >>, d) = d + 1
  BY DEF Start
<1>7. ~Between(Head(p), Last(p), N)
  BY <1>5, <1>6 DEF CutInv, Between
<1>8. \A i \in DOMAIN m :
        /\ Len(m[i]) < Cap + MaxChunk
        /\ m[i] # << >> /\ ~Between(Head(m[i]), Last(m[i]), N)
  <2> SUFFICES ASSUME NEW i \in DOMAIN m
               PROVE  /\ Len(m[i]) < Cap + MaxChunk
                      /\ m[i] # << >> /\ ~Between(Head(m[i]), Last(m[i]), N)
    OBVIOUS
  <2>1. CASE i \in DOMAIN ls
    <3>1. m[i] = ls[i]
      BY <1>3, <2>1
    <3>2. QED
      BY <1>1, <2>1, <3>1
  <2>2. CASE i \notin DOMAIN ls
    <3>1. m[i] = p
      BY <1>3, <2>2
    <3>2. QED
      BY <1>7, <3>1
  <2>3. QED
    BY <2>1, <2>2
<1>9. \A i \in 1..Len(m) - 1 :
        Between(Last(m[i]), Head(m[i + 1]), N) \/ Len(m[i]) >= Cap
  <2> SUFFICES ASSUME NEW i \in 1..Len(m) - 1
               PROVE  Between(Last(m[i]), Head(m[i + 1]), N) \/ Len(m[i]) >= Cap
    OBVIOUS
  <2>1. CASE i = Len(ls)
    <3>1. Last(ls) = ls[i]
      BY <2>1 DEF Last
    <3>2. i \in DOMAIN ls
      BY <1>3, <2>1
    <3>3. ls # << >> /\ m[i] = Last(ls) /\ m[i + 1] = p
      BY <1>3, <2>1, <3>1, <3>2
    <3>4. QED
      BY <1>6, <3>3 DEF CutInv
  <2>2. CASE i # Len(ls)
    <3>1. i \in 1..Len(ls) - 1 /\ i \in DOMAIN ls /\ i + 1 \in DOMAIN ls
      <4>1. Len(m) - 1 = Len(ls) /\ Len(ls) \in Nat /\ DOMAIN ls = 1..Len(ls)
        BY <1>3
      <4>2. i \in 1..Len(ls) /\ i # Len(ls)
        BY <2>2, <4>1
      <4>3. \A k \in Nat : \A j \in 1..k :
              j # k => j + 1 \in 1..k /\ j \in 1..k - 1
        OBVIOUS
      <4>4. i + 1 \in 1..Len(ls) /\ i \in 1..Len(ls) - 1
        BY <4>1, <4>2, <4>3
      <4>5. QED
        BY <4>1, <4>2, <4>4
    <3>2. m[i] = ls[i] /\ m[i + 1] = ls[i + 1]
      BY <1>3, <3>1
    <3>3. QED
      BY <1>1, <3>1, <3>2
  <2>3. QED
    BY <2>1, <2>2
<1>10. Between(Last(p), d + 1, N) \/ Len(p) >= Cap
  BY <1>5 DEF Between
<1>11. \A n \in N : n <= d => n < d + 1
  OBVIOUS
<1>12. QED
  BY <1>2, <1>3, <1>4, <1>6, <1>8, <1>9, <1>10, <1>11 DEF CutInv, m

-----------------------------------------------------------------------------
(* The loop over a chunk.                                                  *)

Writers == [partial : Seq(Nat), completed : Seq(Seq(Nat))]

LEMMA FeedKeeps ==
  ASSUME NEW ls \in Seq(Seq(Nat)), NEW w \in Writers, NEW c \in Nat,
         NEW N \in SUBSET Nat, NEW nl, c + 1 \in nl <=> c + 1 \in N,
         Len(w.partial) < Cap + MaxChunk,
         CutInv(ls \o w.completed, w.partial, c, N)
  PROVE  LET v == Feed(w, c + 1, nl)
         IN  /\ v \in Writers
             /\ Len(v.partial) <= Len(w.partial) + 1
             /\ CutInv(ls \o v.completed, v.partial, c + 1, N)
<1> DEFINE v == Feed(w, c + 1, nl)
<1>1. /\ w.partial \in Seq(Nat) /\ w.completed \in Seq(Seq(Nat))
      /\ w = [partial |-> w.partial, completed |-> w.completed]
      /\ << >> \in Seq(Nat) /\ Len(<< >>) = 0 /\ Len(w.partial) \in Nat
  BY DEF Writers
<1>2. CASE c + 1 \notin nl
  <2>1. v = [partial |-> Append(w.partial, c + 1), completed |-> w.completed]
    BY <1>1, <1>2 DEF Feed
  <2> HIDE DEF v
  <2>2. v.partial = Append(w.partial, c + 1) /\ v.completed = w.completed
    BY <2>1
  <2>3. v \in Writers
    <3>1. Append(w.partial, c + 1) \in Seq(Nat)
      BY <1>1
    <3>2. QED
      BY <1>1, <2>1, <3>1 DEF Writers
  <2>4. Len(v.partial) <= Len(w.partial) + 1
    BY <1>1, <2>2
  <2>5. CutInv(ls \o v.completed, v.partial, c + 1, N)
    BY <1>2, <2>2, TextByte
  <2>6. QED
    BY <2>3, <2>4, <2>5 DEF v
<1>3. CASE c + 1 \in nl /\ w.partial = << >>
  <2>1. v = [partial |-> << >>, completed |-> w.completed]
    BY <1>3 DEF Feed
  <2> HIDE DEF v
  <2>2. v \in Writers /\ v.partial = << >> /\ v.completed = w.completed
    BY <1>1, <2>1 DEF Writers
  <2>3. CutInv(ls \o v.completed, << >>, c + 1, N)
    BY <1>3, <2>2, NewlineByte
  <2>4. QED
    BY <1>1, <2>2, <2>3 DEF v
<1>4. CASE c + 1 \in nl /\ w.partial # << >>
  <2>1. v = [partial |-> << >>, completed |-> Append(w.completed, w.partial)]
    BY <1>4 DEF Feed
  <2> HIDE DEF v
  <2>2. /\ v \in Writers /\ v.partial = << >>
        /\ v.completed = Append(w.completed, w.partial)
    <3>1. Append(w.completed, w.partial) \in Seq(Seq(Nat))
      BY <1>1
    <3>2. QED
      BY <1>1, <2>1, <3>1 DEF Writers
  <2>3. CutInv(Append(ls \o w.completed, w.partial), << >>, c + 1, N)
    BY <1>4, EndOfLine
  <2>4. ls \o v.completed = Append(ls \o w.completed, w.partial)
    BY <1>1, <2>2, ConcatAppend, SMTT(30)
  <2>5. CutInv(ls \o v.completed, v.partial, c + 1, N)
    BY <2>2, <2>3, <2>4
  <2>6. Len(v.partial) <= Len(w.partial) + 1
    BY <1>1, <2>2
  <2>7. QED
    BY <2>2, <2>5, <2>6 DEF v
<1>5. QED
  BY <1>2, <1>3, <1>4

LEMMA FlushKeeps ==
  ASSUME NEW ls \in Seq(Seq(Nat)), NEW w \in Writers, NEW c \in Nat,
         NEW N \in SUBSET Nat, Len(w.partial) < Cap + MaxChunk,
         CutInv(ls \o w.completed, w.partial, c, N)
  PROVE  LET v == Flush(w)
         IN  /\ Len(v.partial) < Cap
             /\ CutInv(ls \o v.completed, v.partial, c, N)
<1> DEFINE v == Flush(w)
<1>1. w.partial \in Seq(Nat) /\ w.completed \in Seq(Seq(Nat))
  BY DEF Writers
<1>2. CASE Len(w.partial) >= Cap
  <2>1. v = [partial |-> << >>, completed |-> Append(w.completed, w.partial)]
    BY <1>2 DEF Flush
  <2> HIDE DEF v
  <2>2. w.partial # << >>
    BY <1>2, PrefixAssumption
  <2>3. CutInv(Append(ls \o w.completed, w.partial), << >>, c, N)
    BY <1>2, <2>2, EndOfLine
  <2>4. v.partial = << >> /\ v.completed = Append(w.completed, w.partial)
    BY <2>1
  <2>5. ls \o v.completed = Append(ls \o w.completed, w.partial)
    BY <1>1, <2>4, ConcatAppend
  <2>6. Len(v.partial) < Cap
    BY <2>4, PrefixAssumption
  <2>7. QED
    BY <2>3, <2>4, <2>5, <2>6 DEF v
<1>3. CASE ~(Len(w.partial) >= Cap)
  BY <1>1, <1>3, PrefixAssumption DEF Flush
<1>4. QED
  BY <1>2, <1>3

\* The newlines of the bytes to come change nothing.
LEMMA CutSame ==
  ASSUME NEW ls, NEW p, NEW c \in Nat, NEW N \in SUBSET (1..c),
         NEW M \in SUBSET Nat, M \cap (1..c) = N, CutInv(ls, p, c, N)
  PROVE  CutInv(ls, p, c, M)
<1>1. (1..c) \ M = (1..c) \ N
  OBVIOUS
<1>2. \A a, b \in 1..c + 1 : Between(a, b, M) <=> Between(a, b, N)
  BY DEF Between
<1>3. /\ ls \in Seq(Seq(1..c)) /\ p \in Seq(1..c)
      /\ \A i \in DOMAIN ls : ls[i] # << >>
  BY DEF CutInv
<1>4. \A i \in DOMAIN ls : Head(ls[i]) \in 1..c + 1 /\ Last(ls[i]) \in 1..c + 1
  <2> SUFFICES ASSUME NEW i \in DOMAIN ls
               PROVE  Head(ls[i]) \in 1..c + 1 /\ Last(ls[i]) \in 1..c + 1
    OBVIOUS
  <2>1. ls[i] \in Seq(1..c) /\ ls[i] # << >>
    BY <1>3
  <2>2. QED
    BY <2>1 DEF Last
<1>5. Start(p, c) \in 1..c + 1
  BY <1>3 DEF Start
<1>6. ls # << >> => Last(Last(ls)) \in 1..c + 1
  <2>1. ls # << >> => Len(ls) \in DOMAIN ls
    BY <1>3
  <2>2. QED
    BY <1>4, <2>1 DEF Last
<1>7. \A i \in 1..Len(ls) - 1 : i \in DOMAIN ls /\ i + 1 \in DOMAIN ls
  BY <1>3
<1>8. \A n \in M : n <= c => n < Start(p, c)
  <2> SUFFICES ASSUME NEW n \in M, n <= c PROVE n < Start(p, c)
    OBVIOUS
  <2>1. CASE n = 0
    BY <1>5, <2>1
  <2>2. CASE n # 0
    <3>1. n \in N
      BY <2>2
    <3>2. QED
      BY <3>1 DEF CutInv
  <2>3. QED
    BY <2>1, <2>2
<1>9. /\ \A i \in DOMAIN ls : ls[i] # << >> /\ ~Between(Head(ls[i]), Last(ls[i]), M)
      /\ \A i \in 1..Len(ls) - 1 :
           Between(Last(ls[i]), Head(ls[i + 1]), M) \/ Len(ls[i]) >= Cap
      /\ ls # << >> =>
           Between(Last(Last(ls)), Start(p, c), M) \/ Len(Last(ls)) >= Cap
  BY <1>2, <1>4, <1>5, <1>6, <1>7 DEF CutInv
<1>10. QED
  BY <1>1, <1>8, <1>9 DEF CutInv

\* A Write cuts the chunk it is given, and leaves less than Cap behind.
LEMMA WriteKeeps ==
  ASSUME NEW n \in 1..MaxChunk, NEW nl \in SUBSET (count + 1..count + n),
         count \in Nat, newlines \subseteq 1..count, Len(partial) < Cap,
         CutInv(lines, partial, count, newlines), Write(n, nl)
  PROVE  CutInv(lines', partial', count', newlines') /\ Len(partial') < Cap
<1> DEFINE start == [partial |-> partial, completed |-> << >>]
           N == newlines \cup nl
           Fed(h) == [i \in 0..n |-> IF i = 0 THEN start
                                     ELSE Feed(h[i - 1], count + i, nl)]
           fed == CHOOSE h : h = Fed(h)
           F == [c \in Writers \X (1..n) |-> Feed(c[1], count + c[2], nl)]
<1>1. /\ n \in Nat /\ n <= MaxChunk /\ N \in SUBSET Nat /\ nl \subseteq Nat
      /\ newlines \in SUBSET (1..count) /\ N \cap (1..count) = newlines
  <2>1. n \in Nat /\ n <= MaxChunk
    BY PrefixAssumption
  <2>2. nl \subseteq Nat /\ nl \cap (1..count) = {}
    BY <2>1
  <2>3. newlines \in SUBSET Nat /\ newlines \cap (1..count) = newlines
    <3>1. 1..count \subseteq Nat
      OBVIOUS
    <3>2. QED
      BY <3>1
  <2>4. QED
    BY <2>1, <2>2, <2>3
<1>2. /\ lines \in Seq(Seq(Nat)) /\ partial \in Seq(Nat) /\ lines \o << >> = lines
      /\ Len(partial) \in Nat
  <2>1. Seq(1..count) \subseteq Seq(Nat)
    OBVIOUS
  <2>2. lines \in Seq(Seq(1..count)) /\ partial \in Seq(1..count)
    BY DEF CutInv
  <2>3. Seq(Seq(1..count)) \subseteq Seq(Seq(Nat))
    BY <2>1
  <2>4. QED
    BY <2>1, <2>2, <2>3, ConcatEmptySeq
<1>3. start \in Writers
  BY <1>2 DEF Writers
<1>4. \A w \in Writers, b \in Nat : Feed(w, b, nl) \in Writers
  <2> SUFFICES ASSUME NEW w \in Writers, NEW b \in Nat
               PROVE  Feed(w, b, nl) \in Writers
    OBVIOUS
  <2>1. /\ w.partial \in Seq(Nat) /\ w.completed \in Seq(Seq(Nat))
        /\ w = [partial |-> w.partial, completed |-> w.completed]
        /\ << >> \in Seq(Nat)
    BY DEF Writers
  <2>2. Append(w.partial, b) \in Seq(Nat)
    BY <2>1
  <2>3. Append(w.completed, w.partial) \in Seq(Seq(Nat))
    BY <2>1
  <2>4. QED
    BY <2>1, <2>2, <2>3 DEF Writers, Feed
<1>5. fed = Fed(fed)
  <2>1. F \in [Writers \X (1..n) -> Writers]
    BY <1>4
  <2> HIDE DEF F, start
  <2>2. PICK f : IsRun(f, F, n, start, Writers)
    BY <1>1, <1>3, <2>1, RunExists
  <2>3. f = Fed(f)
    <3>1. ASSUME NEW i \in 0..n, i # 0 PROVE f[i] = Feed(f[i - 1], count + i, nl)
      <4>1. i \in 1..n /\ i - 1 \in 0..n
        BY <3>1
      <4>2. f[i - 1] \in Writers /\ f[i] = F[<<f[i - 1], i>>]
        BY <2>2, <4>1 DEF IsRun
      <4>3. QED
        BY <4>1, <4>2 DEF F
    <3>2. \A i \in 0..n : f[i] = IF i = 0 THEN start
                                 ELSE Feed(f[i - 1], count + i, nl)
      BY <2>2, <3>1 DEF IsRun
    <3>3. f = [i \in 0..n |-> f[i]]
      BY <2>2 DEF IsRun
    <3>4. QED
      BY <3>2, <3>3
  <2> HIDE DEF Fed
  <2>4. QED
    BY <2>3
<1> HIDE DEF fed
<1>6. fed[0] = start /\ \A i \in 1..n : fed[i] = Feed(fed[i - 1], count + i, nl)
  <2> HIDE DEF start
  <2>1. QED
    BY <1>5
<1> DEFINE Good(i) == /\ fed[i] \in Writers
                      /\ Len(fed[i].partial) < Cap + i
                      /\ CutInv(lines \o fed[i].completed, fed[i].partial,
                                count + i, N)
           S == {i \in Nat : i <= n => Good(i)}
<1>7. 0 \in S
  <2>1. CutInv(lines, partial, count, N)
    <3> HIDE DEF N
    <3>1. QED
      BY <1>1, CutSame
  <2>2. fed[0].partial = partial /\ fed[0].completed = << >>
    BY <1>6
  <2>3. fed[0] \in Writers
    BY <1>3, <1>6
  <2> HIDE DEF N, start
  <2>4. CutInv(lines \o fed[0].completed, fed[0].partial, count + 0, N)
    BY <1>2, <2>1, <2>2
  <2>5. Len(fed[0].partial) < Cap + 0
    BY <2>2, PrefixAssumption
  <2>6. QED
    BY <2>3, <2>4, <2>5
<1>8. ASSUME NEW i \in Nat, i \in S, i + 1 <= n PROVE Good(i + 1)
  <2>1. /\ Good(i) /\ i + 1 \in 1..n /\ (i + 1) - 1 = i /\ count + i \in Nat
        /\ count + (i + 1) = (count + i) + 1
    BY <1>8
  <2> HIDE DEF start
  <2>2. fed[i + 1] = Feed(fed[i], (count + i) + 1, nl)
    BY <1>6, <2>1
  <2>3. (count + i) + 1 \in nl <=> (count + i) + 1 \in N
    OBVIOUS
  <2>4. Len(fed[i].partial) < Cap + MaxChunk /\ Len(fed[i].partial) \in Nat
    BY <1>1, <2>1, PrefixAssumption DEF Writers
  <2> HIDE DEF N
  <2>5. LET v == Feed(fed[i], (count + i) + 1, nl)
        IN  /\ v \in Writers
            /\ Len(v.partial) <= Len(fed[i].partial) + 1
            /\ CutInv(lines \o v.completed, v.partial, (count + i) + 1, N)
    BY <1>1, <1>2, <2>1, <2>3, <2>4, FeedKeeps
  <2>6. /\ fed[i + 1] \in Writers
        /\ Len(fed[i + 1].partial) <= Len(fed[i].partial) + 1
        /\ CutInv(lines \o fed[i + 1].completed, fed[i + 1].partial,
                  count + (i + 1), N)
    BY <2>1, <2>2, <2>5
  <2>7. Len(fed[i + 1].partial) < Cap + (i + 1)
    <3>1. Len(fed[i + 1].partial) \in Nat
      BY <2>6 DEF Writers
    <3>2. Len(fed[i].partial) < Cap + i /\ Cap \in Nat
      BY <2>1, PrefixAssumption
    <3>3. \A x, y, k, m \in Nat : x <= y + 1 /\ y < k + m => x < k + (m + 1)
      OBVIOUS
    <3>4. QED
      BY <2>4, <2>6, <3>1, <3>2, <3>3
  <2>8. QED
    BY <2>6, <2>7
<1>9. \A i \in Nat : i \in S => i + 1 \in S
  <2> HIDE DEF Good
  <2>1. QED
    BY <1>8
<1>10. Good(n)
  <2> HIDE DEF S, Good
  <2>1. n \in S
    BY <1>1, <1>7, <1>9, NatSetInduction
  <2>2. QED
    BY <1>1, <2>1 DEF S
<1>11. Len(fed[n].partial) < Cap + MaxChunk
  <2>1. Len(fed[n].partial) \in Nat
    BY <1>10 DEF Writers
  <2>2. QED
    BY <1>1, <1>10, <2>1, PrefixAssumption
<1>12. LET v == Flush(fed[n])
       IN  /\ Len(v.partial) < Cap
           /\ CutInv(lines \o v.completed, v.partial, count + n, N)
  <2>1. /\ fed[n] \in Writers /\ count + n \in Nat
        /\ CutInv(lines \o fed[n].completed, fed[n].partial, count + n, N)
    BY <1>1, <1>10
  <2> HIDE DEF N
  <2>2. QED
    BY <1>1, <1>2, <1>11, <2>1, FlushKeeps
<1>13. /\ count' = count + n /\ newlines' = N
       /\ partial' = Flush(fed[n]).partial
       /\ lines' = lines \o Flush(fed[n]).completed
  BY DEF Write, fed
<1>14. QED
  BY <1>12, <1>13

-----------------------------------------------------------------------------
(* The invariant and what it implies.                                      *)

WriterInv ==
  /\ count \in 0..MaxBytes
  /\ newlines \subseteq 1..count
  /\ Len(partial) < Cap
  /\ CutInv(lines, partial, count, newlines)

LEMMA WriterInit == Init => WriterInv
<1> SUFFICES ASSUME Init PROVE WriterInv
  OBVIOUS
<1>1. /\ count = 0 /\ newlines = {} /\ partial = << >> /\ lines = << >>
      /\ << >> \in Seq(1..0) /\ << >> \in Seq(Seq(1..0)) /\ Len(<< >>) = 0
  BY DEF Init
<1>2. FlattenSeq(<< >>) = << >>
  BY DEF FlattenSeq
<1>3. FlattenSeq(<< >>) \o << >> = << >>
  BY <1>1, <1>2, ConcatEmptySeq
<1>4. Enumerates(<< >>, (1..0) \ {})
  BY DEF Enumerates, Range
<1>5. CutInv(<< >>, << >>, 0, {})
  BY <1>1, <1>3, <1>4 DEF CutInv
<1>6. QED
  BY <1>1, <1>5, PrefixAssumption DEF WriterInv

LEMMA WriterStep == WriterInv /\ [Next]_vars => WriterInv'
<1> SUFFICES ASSUME WriterInv, [Next]_vars PROVE WriterInv'
  OBVIOUS
<1>1. CASE Next
  <2> PICK n \in 1..MaxChunk :
        /\ count + n <= MaxBytes
        /\ \E nl \in SUBSET (count + 1..count + n) : Write(n, nl)
    BY <1>1 DEF Next
  <2>1. PICK nl \in SUBSET (count + 1..count + n) : Write(n, nl)
    OBVIOUS
  <2>2. count \in Nat /\ n \in Nat
    BY PrefixAssumption DEF WriterInv
  <2>3. CutInv(lines', partial', count', newlines') /\ Len(partial') < Cap
    BY <2>1, <2>2, WriteKeeps DEF WriterInv
  <2>4. count' = count + n /\ newlines' = newlines \cup nl
    BY <2>1 DEF Write
  <2>5. count' \in 0..MaxBytes /\ newlines' \subseteq 1..count'
    BY <2>1, <2>2, <2>4, PrefixAssumption DEF WriterInv
  <2>6. QED
    BY <2>3, <2>5 DEF WriterInv
<1>2. CASE UNCHANGED vars
  BY <1>2 DEF vars, WriterInv
<1>3. QED
  BY <1>1, <1>2

LEMMA WriterInvariance == Spec => []WriterInv
BY WriterInit, WriterStep, PTL DEF Spec

\* What a Write leaves behind is shorter than the cap, and no line exceeds it
\* by a whole read (logbuffer.go:62-65).
THEOREM WriterTypes == Spec => []TypeOK
<1>1. WriterInv => TypeOK
  BY DEF WriterInv, CutInv, TypeOK
<1>2. QED
  BY <1>1, WriterInvariance, PTL

\* Every byte but the newlines is kept, once and in the order of the stream,
\* whatever the sizes of the reads (logbuffer.go:51-93).
THEOREM EveryByteIsKept == Spec => []BytesPreserved
<1>1. WriterInv => BytesPreserved
  BY DEF WriterInv, CutInv, Enumerates, BytesPreserved, Kept
<1>2. QED
  BY <1>1, WriterInvariance, PTL

\* Lines end at newlines, or at the cap, and nowhere else
\* (logbuffer.go:8, 55-87).
THEOREM LinesEndAtNewlines == Spec => []CutAtNewlinesOnly
<1>1. WriterInv => CutAtNewlinesOnly
  BY DEF WriterInv, CutInv, Start, Between, CutAtNewlinesOnly, Separated
<1>2. QED
  BY <1>1, WriterInvariance, PTL

=============================================================================
