--------------------------- MODULE LogBufferProofs ----------------------------
(***************************************************************************)
(* What LogBuffer guarantees for any number of writers and subscribers and *)
(* any sizes of the ring, the channels and the batches.                    *)
(***************************************************************************)
EXTENDS LogBuffer, SequenceTheorems, FiniteSetTheorems, TLAPS

-----------------------------------------------------------------------------
(* Sequences.                                                              *)

LEMMA ConcatAppend ==
  ASSUME NEW S, NEW s \in Seq(S), NEW t \in Seq(S), NEW e \in S
  PROVE  s \o Append(t, e) = Append(s \o t, e)
BY AppendIsConcat, ConcatAssociative, ConcatProperties

\* The head of t moves to the end of s.
LEMMA HeadMoves ==
  ASSUME NEW S, NEW s \in Seq(S), NEW t \in Seq(S), t # << >>
  PROVE  Append(s, Head(t)) \o Tail(t) = s \o t
BY AppendProperties, HeadTailProperties, ConcatProperties, SeqEqual

-----------------------------------------------------------------------------
(* The fan-out: the ring and the bound on lines play no part in it.        *)

Jobs == [at : {"idle", "stored", "fan"}, batch : Seq(Lines),
         left : SUBSET Streams]

\* Lines of w whose store is over; the rest is job[w].batch.
Over(w) == stored[w] - Len(job[w].batch)

\* How many lines of w have been offered to s.
Offered(w, s) ==
  IF job[w].at = "fan" /\ s \notin job[w].left THEN Over(w) + 1 ELSE Over(w)

Seen(s) == got[s] \o chan[s]

FanTypeOK ==
  /\ stored \in [Writers -> 0..MaxLines]
  /\ job \in [Writers -> Jobs]
  /\ sub \in [Streams -> {"out", "joining", "in", "leaving", "closing", "gone"}]
  /\ chan \in [Streams -> Seq(Lines)]
  /\ got \in [Streams -> Seq(Lines)]
  /\ before \subseteq Lines \X Lines

\* A batch is the newest lines of its writer, none of them when it is idle.
BatchInv ==
  \A w \in Writers :
    /\ Len(job[w].batch) <= stored[w]
    /\ \A i \in 1..Len(job[w].batch) : job[w].batch[i] = <<w, Over(w) + i>>
    /\ job[w].at = "idle" <=> job[w].batch = << >>
    /\ job[w].at # "fan" => job[w].left = {}

\* Whoever may still be offered a line holds the read lock off Leave.
LeftInv ==
  \A w \in Writers : \A s \in job[w].left : sub[s] \in {"in", "leaving"}

\* A subscriber has only seen what it has been offered.
SeenInv ==
  \A s \in Streams : \A i \in 1..Len(Seen(s)) :
    Seen(s)[i][2] <= Offered(Seen(s)[i][1], s)

\* Lines that are before others are earlier lines of the same writer, or lines
\* whose store is over.
BeforeInv ==
  \A a, b \in Lines :
    <<a, b>> \in before =>
      /\ b[2] <= stored[b[1]]
      /\ IF a[1] = b[1] THEN a[2] < b[2] ELSE a[2] <= Over(a[1])

OrderInv ==
  \A s \in Streams : \A i, j \in 1..Len(Seen(s)) :
    i < j => Seen(s)[i] # Seen(s)[j] /\ <<Seen(s)[j], Seen(s)[i]>> \notin before

FanInv ==
  FanTypeOK /\ BatchInv /\ LeftInv /\ SeenInv /\ BeforeInv /\ OrderInv

LEMMA SeenType ==
  ASSUME FanTypeOK, NEW s \in Streams
  PROVE  /\ Seen(s) \in Seq(Lines)
         /\ DOMAIN Seen(s) = 1..Len(Seen(s))
BY DEF FanTypeOK, Seen

LEMMA OrderIsDelivery == FanTypeOK /\ OrderInv => DeliveredInOrder
BY SeenType DEF OrderInv, DeliveredInOrder, Seen

LEMMA FanInit == Init => FanInv
<1> SUFFICES ASSUME Init PROVE FanInv
  OBVIOUS
<1>1. \A s \in Streams : Seen(s) = << >>
  BY DEF Init, Seen
<1>2. FanTypeOK /\ BatchInv /\ LeftInv /\ BeforeInv
  BY LogAssumption
     DEF Init, Idle, Jobs, FanTypeOK, BatchInv, LeftInv, BeforeInv, Over
<1>3. SeenInv /\ OrderInv
  BY <1>1 DEF SeenInv, OrderInv
<1>4. QED
  BY <1>2, <1>3 DEF FanInv

\* The guard of Store keeps the lines of each writer within the bound.
LEMMA StoredBound ==
  ASSUME FanTypeOK, NEW w \in Writers, NEW n \in Nat,
         Cardinality(Stored) + n <= MaxLines
  PROVE  stored[w] + n <= MaxLines
<1> DEFINE k == stored[w]
           f == [i \in 1..k |-> <<w, i>>]
<1>1. k \in 0..MaxLines /\ MaxLines \in Nat
  BY LogAssumption DEF FanTypeOK
<1>2. IsFiniteSet(Lines)
  <2>1. IsFiniteSet(1..MaxLines)
    BY <1>1, FS_Interval
  <2>2. IsFiniteSet(Writers)
    BY LogAssumption
  <2>3. QED
    BY <2>1, <2>2, FS_Product DEF Lines
<1>3. IsFiniteSet(Stored)
  BY <1>2, FS_Subset DEF Stored
<1>4. f \in Injection(1..k, Stored)
  <2>1. \A i \in 1..k : <<w, i>> \in Stored
    BY <1>1 DEF Stored, Lines
  <2>2. QED
    BY <2>1 DEF Injection, IsInjective
<1>5. Cardinality(1..k) = k
  BY <1>1, FS_Interval
<1>6. Cardinality(1..k) <= Cardinality(Stored) /\ Cardinality(Stored) \in Nat
  BY <1>3, <1>4, FS_Injection, FS_CardinalityType
<1>7. QED
  BY <1>1, <1>5, <1>6

\* What Store appends for w.
LEMMA BatchFacts ==
  ASSUME FanTypeOK, NEW w \in Writers, NEW n \in 1..MaxBatch,
         stored[w] + n <= MaxLines
  PROVE  /\ Batch(w, n) \in Seq(Lines)
         /\ Len(Batch(w, n)) = n
         /\ Batch(w, n) # << >>
         /\ \A i \in 1..n : Batch(w, n)[i] = <<w, stored[w] + i>>
         /\ \A l \in ToSet(Batch(w, n)) :
              l \in Lines /\ l[1] = w /\ stored[w] < l[2] /\ l[2] <= stored[w] + n
<1> DEFINE b == Batch(w, n)
<1>1. n \in Nat \ {0} /\ stored[w] \in Nat
  BY LogAssumption DEF FanTypeOK
<1>2. \A i \in 1..n : <<w, stored[w] + i>> \in Lines
  BY <1>1, LogAssumption DEF Lines
<1>3. b \in [1..n -> Lines] /\ \A i \in 1..n : b[i] = <<w, stored[w] + i>>
  BY <1>2 DEF Batch
<1>4. b \in Seq(Lines) /\ Len(b) = n
  BY <1>1, <1>3
<1>5. ToSet(b) = {b[i] : i \in 1..n}
  BY <1>3 DEF ToSet
<1>6. QED
  BY <1>1, <1>2, <1>3, <1>4, <1>5

LEMMA FanStore ==
  ASSUME FanInv, NEW w \in Writers, NEW n \in 1..MaxBatch, Store(w, n)
  PROVE  FanInv'
<1> DEFINE new == ToSet(Batch(w, n))
<1> USE DEF FanInv
<1>1. n \in Nat \ {0} /\ stored[w] \in Nat /\ stored[w] + n <= MaxLines
  BY LogAssumption, StoredBound DEF Store, FanTypeOK
<1>2. /\ Batch(w, n) \in Seq(Lines) /\ Len(Batch(w, n)) = n
      /\ Batch(w, n) # << >>
      /\ \A i \in 1..n : Batch(w, n)[i] = <<w, stored[w] + i>>
      /\ \A l \in new : l \in Lines /\ l[1] = w /\ stored[w] < l[2]
                        /\ l[2] <= stored[w] + n
  BY <1>1, BatchFacts
<1>3. /\ stored' = [stored EXCEPT ![w] = @ + n]
      /\ job' = [job EXCEPT ![w] = [at |-> "stored", batch |-> Batch(w, n),
                                    left |-> {}]]
      /\ before' = before \cup (Completed \X new)
                          \cup {p \in new \X new : p[1][2] < p[2][2]}
      /\ UNCHANGED <<sub, chan, got>> /\ job[w].at = "idle"
  BY DEF Store
<1> HIDE DEF new
<1>4. Completed \subseteq Lines
  BY DEF Completed, Stored
<1>5. FanTypeOK'
  <2>1. stored' \in [Writers -> 0..MaxLines]
    BY <1>1, <1>3 DEF FanTypeOK
  <2>2. job' \in [Writers -> Jobs]
    BY <1>2, <1>3 DEF FanTypeOK, Jobs
  <2>3. before' \subseteq Lines \X Lines
    BY <1>2, <1>3, <1>4 DEF FanTypeOK
  <2>4. QED
    BY <1>3, <2>1, <2>2, <2>3 DEF FanTypeOK
<1>6. /\ Over(w)' = stored[w] /\ Over(w) = stored[w]
      /\ \A v \in Writers \ {w} : Over(v)' = Over(v)
  BY <1>1, <1>2, <1>3 DEF Over, BatchInv, FanTypeOK, Jobs
<1>7. BatchInv'
  <2> SUFFICES ASSUME NEW v \in Writers
               PROVE  /\ Len(job'[v].batch) <= stored'[v]
                      /\ \A i \in 1..Len(job'[v].batch) :
                           job'[v].batch[i] = <<v, Over(v)' + i>>
                      /\ job'[v].at = "idle" <=> job'[v].batch = << >>
                      /\ job'[v].at # "fan" => job'[v].left = {}
    BY DEF BatchInv
  <2>1. CASE v = w
    BY <1>1, <1>2, <1>3, <1>6, <2>1 DEF FanTypeOK
  <2>2. CASE v # w
    BY <1>3, <1>6, <2>2 DEF FanTypeOK, BatchInv
  <2>3. QED
    BY <2>1, <2>2
<1>8. LeftInv'
  BY <1>3 DEF LeftInv, FanTypeOK
<1>9. \A s \in Streams : Seen(s)' = Seen(s)
  BY <1>3 DEF Seen
<1>10. \A s \in Streams, v \in Writers : Offered(v, s)' = Offered(v, s)
  BY <1>3, <1>6 DEF Offered, FanTypeOK
<1>11. SeenInv'
  BY <1>9, <1>10, SeenType, ElementOfSeq DEF SeenInv, Lines
<1>12. \A l \in Completed : l[1] \in Writers /\ l[2] <= Over(l[1])
  <2> SUFFICES ASSUME NEW l \in Completed
               PROVE  l[1] \in Writers /\ l[2] <= Over(l[1])
    OBVIOUS
  <2> DEFINE b == job[l[1]].batch
  <2>1. /\ l[1] \in Writers /\ l[2] \in Nat /\ l[2] <= stored[l[1]]
        /\ \A i \in DOMAIN b : l[2] < b[i][2]
    BY DEF Completed, Stored, Lines
  <2>2. b \in Seq(Lines) /\ stored[l[1]] \in Nat
    BY <2>1 DEF FanTypeOK, Jobs
  <2>3. CASE b = << >>
    BY <2>1, <2>2, <2>3 DEF Over
  <2>4. CASE b # << >>
    <3>1. 1 \in 1..Len(b) /\ DOMAIN b = 1..Len(b)
      BY <2>2, <2>4
    <3>2. b[1] = <<l[1], Over(l[1]) + 1>>
      BY <2>1, <3>1 DEF BatchInv
    <3>3. Over(l[1]) \in Int
      BY <2>2 DEF Over
    <3>4. QED
      BY <2>1, <3>1, <3>2, <3>3
  <2>5. QED
    BY <2>3, <2>4
<1>13. BeforeInv'
  <2> SUFFICES ASSUME NEW a \in Lines, NEW b \in Lines, <<a, b>> \in before'
               PROVE  /\ b[2] <= stored'[b[1]]
                      /\ IF a[1] = b[1] THEN a[2] < b[2]
                         ELSE a[2] <= Over(a[1])'
    BY DEF BeforeInv
  <2>1. a[1] \in Writers /\ b[1] \in Writers /\ a[2] \in Nat /\ b[2] \in Nat
    BY DEF Lines
  <2>2. \A v \in Writers : stored[v] \in Nat /\ stored'[v] \in Nat
                            /\ stored[v] <= stored'[v] /\ Over(v)' = Over(v)
    BY <1>1, <1>3, <1>6 DEF FanTypeOK
  <2>3. CASE <<a, b>> \in before
    BY <2>1, <2>2, <2>3 DEF BeforeInv
  <2>4. CASE a \in Completed /\ b \in new
    BY <1>1, <1>2, <1>3, <1>6, <1>12, <2>1, <2>2, <2>4 DEF FanTypeOK
  <2>5. CASE a \in new /\ b \in new /\ a[2] < b[2]
    BY <1>1, <1>2, <1>3, <2>5 DEF FanTypeOK
  <2>6. QED
    BY <1>3, <2>3, <2>4, <2>5
<1>14. OrderInv'
  <2> SUFFICES ASSUME NEW s \in Streams, NEW i \in 1..Len(Seen(s)),
                      NEW j \in 1..Len(Seen(s)), i < j
               PROVE  /\ Seen(s)[i] # Seen(s)[j]
                      /\ <<Seen(s)[j], Seen(s)[i]>> \notin before'
    BY <1>9 DEF OrderInv
  <2>1. Seen(s)[i] \in Lines
    BY SeenType, ElementOfSeq
  <2>2. Seen(s)[i] \notin new
    <3>1. Seen(s)[i][2] <= Offered(Seen(s)[i][1], s)
      BY DEF SeenInv
    <3>2. Offered(w, s) = stored[w]
      BY <1>3, <1>6 DEF Offered
    <3>3. QED
      BY <1>1, <1>2, <2>1, <3>1, <3>2 DEF Lines
  <2>3. QED
    BY <1>3, <2>2 DEF OrderInv
<1>15. QED
  BY <1>5, <1>7, <1>8, <1>11, <1>13, <1>14

\* Steps that change neither the batches nor what has been seen nor the order.
LEMMA SameSeen ==
  ASSUME UNCHANGED <<chan, got, before>>, OrderInv
  PROVE  OrderInv' /\ \A s \in Streams : Seen(s)' = Seen(s)
<1>1. \A s \in Streams : Seen(s)' = Seen(s)
  BY DEF Seen
<1>2. QED
  BY <1>1 DEF OrderInv

LEMMA FanStart ==
  ASSUME FanInv, NEW w \in Writers, StartFan(w)
  PROVE  FanInv'
<1> USE DEF FanInv
<1>1. /\ job' = [job EXCEPT ![w].at = "fan", ![w].left = subs]
      /\ job[w].at = "stored"
      /\ UNCHANGED <<stored, sub, chan, got, before>>
  BY DEF StartFan
<1>2. subs \subseteq Streams
  BY DEF subs
<1>3. FanTypeOK'
  BY <1>1, <1>2, ZenonT(30) DEF FanTypeOK, Jobs
<1>4. \A v \in Writers : job'[v].batch = job[v].batch /\ Over(v)' = Over(v)
  BY <1>1 DEF FanTypeOK, Jobs, Over
<1>5. BatchInv'
  BY <1>1, <1>4 DEF FanTypeOK, Jobs, BatchInv
<1>6. LeftInv'
  BY <1>1 DEF FanTypeOK, Jobs, LeftInv, subs
<1>7. \A s \in Streams, v \in Writers : Offered(v, s) <= Offered(v, s)'
  <2> SUFFICES ASSUME NEW s \in Streams, NEW v \in Writers
               PROVE  Offered(v, s) <= Offered(v, s)'
    OBVIOUS
  <2>1. Over(v) \in Int /\ Over(v)' = Over(v)
    BY <1>4 DEF Over, FanTypeOK, Jobs
  <2>2. v # w => job'[v] = job[v]
    BY <1>1 DEF FanTypeOK
  <2>3. QED
    BY <1>1, <2>1, <2>2 DEF Offered
<1>8. SeenInv'
  <2> SUFFICES ASSUME NEW s \in Streams, NEW i \in 1..Len(Seen(s))
               PROVE  Seen(s)[i][2] <= Offered(Seen(s)[i][1], s)'
    BY <1>1, SameSeen DEF SeenInv
  <2>1. Seen(s)[i] \in Lines
    BY SeenType, ElementOfSeq
  <2>2. \A v \in Writers : Over(v) \in Int /\ Over(v)' = Over(v)
    BY <1>4 DEF Over, FanTypeOK, Jobs
  <2>3. \A v \in Writers : Offered(v, s) \in Int /\ Offered(v, s)' \in Int
    BY <2>2 DEF Offered
  <2>4. Seen(s)[i][1] \in Writers /\ Seen(s)[i][2] \in Nat
    BY <2>1 DEF Lines
  <2>5. Seen(s)[i][2] <= Offered(Seen(s)[i][1], s)
    BY DEF SeenInv
  <2>6. QED
    BY <1>1, <1>7, <2>3, <2>4, <2>5, SameSeen
<1>9. BeforeInv'
  BY <1>1, <1>4 DEF BeforeInv, Lines
<1>10. QED
  BY <1>1, <1>3, <1>5, <1>6, <1>8, <1>9, SameSeen

LEMMA FanOffer ==
  ASSUME FanInv, NEW w \in Writers, NEW s \in Streams, Offer(w, s)
  PROVE  FanInv'
<1> DEFINE line == Head(job[w].batch)
<1> USE DEF FanInv
<1>1. /\ job[w].at = "fan" /\ s \in job[w].left
      /\ job' = [job EXCEPT ![w].left = @ \ {s}]
      /\ chan' = [chan EXCEPT ![s] = Append(@, line)] \/ chan' = chan
      /\ UNCHANGED <<stored, sub, got, before>>
  BY DEF Offer
<1>2. /\ job[w].batch \in Seq(Lines) /\ job[w].batch # << >>
      /\ stored[w] \in Nat /\ Over(w) \in Nat
  BY <1>1 DEF FanTypeOK, Jobs, BatchInv, Over
<1>3. line = <<w, Over(w) + 1>> /\ line \in Lines
  BY <1>2 DEF BatchInv
<1> HIDE DEF line
<1>4. FanTypeOK'
  <2>1. job' \in [Writers -> Jobs]
    BY <1>1, ZenonT(30) DEF FanTypeOK, Jobs
  <2>2. chan' \in [Streams -> Seq(Lines)]
    <3>1. Append(chan[s], line) \in Seq(Lines)
      BY <1>3, AppendProperties DEF FanTypeOK
    <3>2. QED
      BY <1>1, <3>1 DEF FanTypeOK
  <2>3. QED
    BY <1>1, <2>1, <2>2 DEF FanTypeOK
<1>5. \A v \in Writers : /\ job'[v].batch = job[v].batch
                          /\ job'[v].at = job[v].at
                          /\ job'[v].left \subseteq job[v].left
                          /\ Over(v)' = Over(v)
  BY <1>1 DEF FanTypeOK, Jobs, Over
<1>6. BatchInv'
  BY <1>1, <1>5 DEF FanTypeOK, Jobs, BatchInv
<1>7. LeftInv'
  BY <1>1, <1>5 DEF LeftInv
<1>8. BeforeInv'
  BY <1>1, <1>5 DEF BeforeInv, Lines
<1>9. /\ \A u \in Streams \ {s} : Seen(u)' = Seen(u)
      /\ Seen(s)' = Append(Seen(s), line) \/ Seen(s)' = Seen(s)
  <2>1. \A u \in Streams \ {s} : chan'[u] = chan[u]
    BY <1>1 DEF FanTypeOK
  <2>2. chan'[s] = Append(chan[s], line) \/ chan'[s] = chan[s]
    BY <1>1 DEF FanTypeOK
  <2>3. got[s] \o Append(chan[s], line) = Append(got[s] \o chan[s], line)
    BY <1>3, ConcatAppend DEF FanTypeOK
  <2>4. QED
    BY <1>1, <2>1, <2>2, <2>3 DEF Seen
<1>10. \A u \in Streams, v \in Writers :
         Over(v) \in Int /\ Offered(v, u) \in Int /\ Offered(v, u)' \in Int
         /\ Offered(v, u) <= Offered(v, u)'
  <2> SUFFICES ASSUME NEW u \in Streams, NEW v \in Writers
               PROVE  Over(v) \in Int /\ Offered(v, u) \in Int
                      /\ Offered(v, u)' \in Int /\ Offered(v, u) <= Offered(v, u)'
    OBVIOUS
  <2>1. Over(v) \in Int
    BY DEF Over, FanTypeOK, Jobs
  <2>2. QED
    BY <1>5, <2>1 DEF Offered
<1>11. Offered(w, s) = Over(w) /\ Offered(w, s)' = Over(w) + 1
  BY <1>1, <1>5 DEF Offered, FanTypeOK, Jobs
<1>12. \A u \in Streams : \A i \in 1..Len(Seen(u)) :
         /\ Seen(u)[i] \in Lines /\ Seen(u)[i][1] \in Writers
         /\ Seen(u)[i][2] \in Nat
         /\ Seen(u)[i][2] <= Offered(Seen(u)[i][1], u)
         /\ \A v \in Writers : Seen(u)[i][1] = v => Seen(u)[i][2] <= Offered(v, u)'
  <2> SUFFICES ASSUME NEW u \in Streams, NEW i \in 1..Len(Seen(u))
               PROVE  LET l == Seen(u)[i] IN
                        /\ l \in Lines /\ l[1] \in Writers /\ l[2] \in Nat
                        /\ l[2] <= Offered(l[1], u)
                        /\ \A v \in Writers : l[1] = v => l[2] <= Offered(v, u)'
    OBVIOUS
  <2>1. Seen(u)[i] \in Lines
    BY SeenType, ElementOfSeq
  <2>2. Seen(u)[i][1] \in Writers /\ Seen(u)[i][2] \in Nat
    BY <2>1 DEF Lines
  <2>3. Seen(u)[i][2] <= Offered(Seen(u)[i][1], u)
    BY DEF SeenInv
  <2>4. QED
    BY <1>10, <2>1, <2>2, <2>3
<1>13. SeenInv' /\ OrderInv'
  <2>1. CASE Seen(s)' = Seen(s)
    BY <1>1, <1>9, <1>12, <2>1 DEF SeenInv, OrderInv
  <2>2. CASE Seen(s)' = Append(Seen(s), line)
    <3> DEFINE k == Len(Seen(s))
    <3>1. /\ k \in Nat /\ Len(Seen(s)') = k + 1
          /\ \A i \in 1..k : Seen(s)'[i] = Seen(s)[i]
          /\ Seen(s)'[k + 1] = line
      BY <1>3, <2>2, SeenType, AppendProperties
    <3>2. SeenInv'
      BY <1>2, <1>3, <1>9, <1>11, <1>12, <3>1 DEF SeenInv
    <3>3. \A i \in 1..k : /\ Seen(s)[i] # line
                           /\ <<line, Seen(s)[i]>> \notin before
      <4> SUFFICES ASSUME NEW i \in 1..k
                   PROVE  /\ Seen(s)[i] # line
                          /\ <<line, Seen(s)[i]>> \notin before
        OBVIOUS
      <4>1. /\ Seen(s)[i] \in Lines /\ Seen(s)[i][2] \in Nat
            /\ Seen(s)[i][1] = w => Seen(s)[i][2] <= Over(w)
        BY <1>11, <1>12
      <4>2. line[1] = w /\ line[2] = Over(w) + 1
        BY <1>3
      <4>3. QED
        BY <1>2, <1>3, <4>1, <4>2 DEF BeforeInv
    <3>4. OrderInv'
      BY <1>1, <1>9, <3>1, <3>3 DEF OrderInv
    <3>5. QED
      BY <3>2, <3>4
  <2>3. QED
    BY <1>9, <2>1, <2>2
<1>14. QED
  BY <1>4, <1>6, <1>7, <1>8, <1>13

LEMMA FanNextLine ==
  ASSUME FanInv, NEW w \in Writers, NextLine(w)
  PROVE  FanInv'
<1> DEFINE b == job[w].batch
           next == IF Len(b) = 1 THEN Idle
                   ELSE [at |-> "fan", batch |-> Tail(b), left |-> subs]
<1> USE DEF FanInv
<1>1. /\ job[w].at = "fan" /\ job[w].left = {}
      /\ job' = [job EXCEPT ![w] = next]
      /\ UNCHANGED <<stored, sub, chan, got, before>>
  BY DEF NextLine
<1>2. /\ b \in Seq(Lines) /\ b # << >> /\ Len(b) \in Nat \ {0}
      /\ stored[w] \in Nat /\ Len(b) <= stored[w]
      /\ \A i \in 1..Len(b) : b[i] = <<w, stored[w] - Len(b) + i>>
  BY <1>1 DEF FanTypeOK, Jobs, BatchInv, Over
<1>3. subs \subseteq Streams
  BY DEF subs
<1>4. /\ next \in Jobs
      /\ next.batch \in Seq(Lines) /\ Len(next.batch) = Len(b) - 1
      /\ \A i \in 1..Len(next.batch) : next.batch[i] = b[i + 1]
      /\ next.at = "idle" <=> next.batch = << >>
      /\ next.at # "fan" => next.left = {}
      /\ next.left \subseteq subs
  <2>1. CASE Len(b) = 1
    BY <1>2, <2>1 DEF Idle, Jobs
  <2>2. CASE Len(b) # 1
    <3>1. /\ Tail(b) \in Seq(Lines) /\ Len(Tail(b)) = Len(b) - 1
          /\ \A i \in 1..Len(Tail(b)) : Tail(b)[i] = b[i + 1]
      BY <1>2, HeadTailProperties
    <3>2. Tail(b) # << >>
      <4>1. Len(Tail(b)) # 0
        BY <1>2, <2>2, <3>1
      <4>2. QED
        BY <4>1, EmptySeq
    <3>3. QED
      BY <1>3, <2>2, <3>1, <3>2 DEF Jobs
  <2>3. QED
    BY <2>1, <2>2
<1>5. job'[w] = next /\ \A v \in Writers \ {w} : job'[v] = job[v]
  BY <1>1 DEF FanTypeOK
<1> HIDE DEF next
<1>6. FanTypeOK'
  BY <1>1, <1>4 DEF FanTypeOK
<1>7. /\ Over(w)' = Over(w) + 1 /\ Over(w) \in Int
      /\ \A v \in Writers \ {w} : Over(v)' = Over(v) /\ Over(v) \in Int
  BY <1>1, <1>2, <1>4, <1>5 DEF Over, FanTypeOK, Jobs
<1>8. BatchInv'
  <2> SUFFICES ASSUME NEW v \in Writers
               PROVE  /\ Len(job'[v].batch) <= stored'[v]
                      /\ \A i \in 1..Len(job'[v].batch) :
                           job'[v].batch[i] = <<v, Over(v)' + i>>
                      /\ job'[v].at = "idle" <=> job'[v].batch = << >>
                      /\ job'[v].at # "fan" => job'[v].left = {}
    BY DEF BatchInv
  <2>1. CASE v = w
    <3>1. \A i \in 1..Len(next.batch) : next.batch[i] = <<w, Over(w) + 1 + i>>
      <4> SUFFICES ASSUME NEW i \in 1..Len(next.batch)
                   PROVE  next.batch[i] = <<w, Over(w) + 1 + i>>
        OBVIOUS
      <4>1. i + 1 \in 1..Len(b) /\ next.batch[i] = b[i + 1]
        BY <1>2, <1>4
      <4>2. b[i + 1] = <<w, stored[w] - Len(b) + (i + 1)>>
        BY <1>2, <4>1
      <4>3. Over(w) = stored[w] - Len(b) /\ i \in Int
        BY DEF Over
      <4>4. \A p, q \in Int : p - q + (i + 1) = (p - q) + 1 + i
        BY <4>3
      <4>5. Len(b) \in Int /\ stored[w] \in Int
        BY <1>2
      <4>6. QED
        BY <4>1, <4>2, <4>3, <4>4, <4>5
    <3>2. QED
      BY <1>1, <1>2, <1>4, <1>5, <1>7, <2>1, <3>1
  <2>2. CASE v # w
    BY <1>1, <1>5, <1>7, <2>2 DEF BatchInv
  <2>3. QED
    BY <2>1, <2>2
<1>9. LeftInv'
  BY <1>1, <1>4, <1>5 DEF LeftInv, subs
<1>10. \A s \in Streams, v \in Writers :
         Offered(v, s) \in Int /\ Offered(v, s)' \in Int
         /\ Offered(v, s) <= Offered(v, s)'
  BY <1>1, <1>5, <1>7 DEF Offered
<1>11. SeenInv'
  <2> SUFFICES ASSUME NEW s \in Streams, NEW i \in 1..Len(Seen(s))
               PROVE  Seen(s)[i][2] <= Offered(Seen(s)[i][1], s)'
    BY <1>1, SameSeen DEF SeenInv
  <2>1. Seen(s)[i][1] \in Writers /\ Seen(s)[i][2] \in Nat
    BY SeenType, ElementOfSeq DEF Lines
  <2>2. Seen(s)[i][2] <= Offered(Seen(s)[i][1], s)
    BY DEF SeenInv
  <2>3. QED
    BY <1>1, <1>10, <2>1, <2>2, SameSeen
<1>12. BeforeInv'
  <2>1. \A v \in Writers : Over(v) <= Over(v)' /\ Over(v) \in Int /\ Over(v)' \in Int
    BY <1>7
  <2>2. QED
    BY <1>1, <2>1 DEF BeforeInv, Lines
<1>13. QED
  BY <1>1, <1>6, <1>8, <1>9, <1>11, <1>12, SameSeen

\* The lock keeps a fan-out and the changes of the map of subscribers apart.
LEMMA FanSubscriber ==
  ASSUME FanInv, NEW s \in Streams,
         Subscribe(s) \/ Unsubscribe(s) \/ Locking(s) \/ Close(s)
  PROVE  FanInv'
<1> USE DEF FanInv
<1>1. UNCHANGED <<ring, stored, job, chan, got, before>>
  BY DEF Subscribe, Unsubscribe, Locking, Join, Leave, Close
<1>2. /\ sub' \in [Streams -> {"out", "joining", "in", "leaving", "closing",
                               "gone"}]
      /\ \A u \in Streams \ {s} : sub'[u] = sub[u]
  BY DEF Subscribe, Unsubscribe, Locking, Join, Leave, Close, Step, FanTypeOK
<1>3. LeftInv'
  <2>1. CASE Subscribe(s) \/ Unsubscribe(s) \/ Join(s) \/ Close(s)
    BY <1>1, <1>2, <2>1
       DEF LeftInv, Subscribe, Unsubscribe, Join, Close, Step, FanTypeOK, Jobs
  <2>2. CASE Leave(s)
    BY <1>1, <1>2, <2>2 DEF LeftInv, Leave, Fanning, BatchInv
  <2>3. QED
    BY <2>1, <2>2 DEF Locking
<1>4. FanTypeOK' /\ BatchInv'
  BY <1>1, <1>2 DEF FanTypeOK, BatchInv, Over
<1>5. BeforeInv'
  BY <1>1 DEF BeforeInv, Over
<1>6. SeenInv'
  <2>1. \A u \in Streams : Seen(u)' = Seen(u)
    BY <1>1, SameSeen
  <2>2. \A u \in Streams : \A v : Offered(v, u)' = Offered(v, u)
    BY <1>1 DEF Offered, Over
  <2>3. QED
    BY <2>1, <2>2 DEF SeenInv
<1>7. QED
  BY <1>1, <1>3, <1>4, <1>5, <1>6, SameSeen

LEMMA FanReceive ==
  ASSUME FanInv, NEW s \in Streams, Receive(s)
  PROVE  FanInv'
<1> USE DEF FanInv
<1>1. /\ chan[s] # << >>
      /\ got' = [got EXCEPT ![s] = Append(@, Head(chan[s]))]
      /\ chan' = [chan EXCEPT ![s] = Tail(@)]
      /\ UNCHANGED <<ring, stored, job, sub, before>>
  BY DEF Receive
<1>2. chan[s] \in Seq(Lines) /\ got[s] \in Seq(Lines)
  BY DEF FanTypeOK
<1>3. Head(chan[s]) \in Lines /\ Tail(chan[s]) \in Seq(Lines)
  BY <1>1, <1>2, HeadTailProperties
<1>4. FanTypeOK'
  <2>1. Append(got[s], Head(chan[s])) \in Seq(Lines)
    BY <1>2, <1>3, AppendProperties
  <2>2. QED
    BY <1>1, <1>3, <2>1 DEF FanTypeOK
<1>5. \A u \in Streams : Seen(u)' = Seen(u)
  <2>1. Append(got[s], Head(chan[s])) \o Tail(chan[s]) = got[s] \o chan[s]
    BY <1>1, <1>2, HeadMoves
  <2>2. QED
    BY <1>1, <2>1 DEF FanTypeOK, Seen
<1>6. \A u \in Streams : \A v : Offered(v, u)' = Offered(v, u)
  BY <1>1 DEF Offered, Over
<1>7. BatchInv' /\ LeftInv' /\ BeforeInv'
  BY <1>1 DEF BatchInv, LeftInv, BeforeInv, Over
<1>8. SeenInv' /\ OrderInv'
  BY <1>1, <1>5, <1>6 DEF SeenInv, OrderInv
<1>9. QED
  BY <1>4, <1>7, <1>8

LEMMA FanStep == FanInv /\ [Next]_vars => FanInv'
<1> SUFFICES ASSUME FanInv, [Next]_vars PROVE FanInv'
  OBVIOUS
<1>1. ASSUME NEW w \in Writers, NEW n \in 1..MaxBatch, Store(w, n) PROVE FanInv'
  BY <1>1, FanStore
<1>2. ASSUME NEW w \in Writers, FanOut(w) PROVE FanInv'
  BY <1>2, FanStart, FanNextLine, FanOffer DEF FanOut
<1>3. ASSUME NEW s \in Streams,
             Subscribe(s) \/ Unsubscribe(s) \/ Locking(s) \/ Close(s)
      PROVE  FanInv'
  BY <1>3, FanSubscriber
<1>4. ASSUME NEW s \in Streams, Receive(s) PROVE FanInv'
  BY <1>4, FanReceive
<1>5. CASE UNCHANGED vars
  <2>1. UNCHANGED <<stored, job, sub, chan, got, before>>
    BY <1>5 DEF vars
  <2>2. /\ \A w : Over(w)' = Over(w)
        /\ \A w, s : Offered(w, s)' = Offered(w, s)
        /\ \A s : Seen(s)' = Seen(s)
    BY <2>1 DEF Over, Offered, Seen
  <2>3. FanTypeOK' /\ BatchInv' /\ LeftInv' /\ BeforeInv'
    BY <2>1, <2>2 DEF FanInv, FanTypeOK, BatchInv, LeftInv, BeforeInv
  <2>4. SeenInv' /\ OrderInv'
    BY <2>1, <2>2 DEF FanInv, SeenInv, OrderInv
  <2>5. QED
    BY <2>3, <2>4 DEF FanInv
<1>6. QED
  BY <1>1, <1>2, <1>3, <1>4, <1>5 DEF Next

LEMMA FanInvariance == Spec => []FanInv
BY FanInit, FanStep, PTL DEF Spec

\* Nobody sends on the channel of a subscriber that has closed it, whoever
\* subscribes and leaves while lines are fanned out (logbuffer.go:107-115,
\* 156-161).
THEOREM NobodySendsOnClosed == Spec => []NoSendOnClosed
<1>1. FanInv => NoSendOnClosed
  BY DEF FanInv, LeftInv, NoSendOnClosed
<1>2. QED
  BY <1>1, FanInvariance, PTL

\* No subscriber gets a line twice, or a line before one that came before it
\* in the log (logbuffer.go:97-116).
THEOREM LinesComeInOrder == Spec => []DeliveredInOrder
<1>1. FanInv => DeliveredInOrder
  BY OrderIsDelivery DEF FanInv
<1>2. QED
  BY <1>1, FanInvariance, PTL

-----------------------------------------------------------------------------
(* The ring.                                                               *)

\* Induction over the natural numbers, for sets.
LEMMA NatSetInduction ==
  ASSUME NEW S, 0 \in S, \A n \in Nat : n \in S => n + 1 \in S
  PROVE  Nat \subseteq S
<1> DEFINE R == {p \in Nat \X Nat : p[1] < p[2]}
           T == Nat \ S
<1> SUFFICES ASSUME T # {} PROVE FALSE
  OBVIOUS
<1>1. IsWellFoundedOn(R, Nat)
  BY NatLessThanWellFounded DEF OpToRel
<1>2. PICK x \in T : \A y \in T : <<y, x>> \notin R
  <2>1. T \subseteq Nat
    OBVIOUS
  <2> HIDE DEF R, T
  <2>2. QED
    BY <1>1, <2>1, WFMin
<1>3. x \in Nat /\ x # 0
  OBVIOUS
<1>4. x - 1 \in T
  <2>1. x - 1 \in Nat /\ (x - 1) + 1 = x
    BY <1>3
  <2>2. QED
    BY <2>1, <1>3
<1>5. <<x - 1, x>> \in R
  BY <1>3, <1>4
<1>6. QED
  BY <1>2, <1>4, <1>5

\* f is a run of n steps of F from x0, within X.
IsRun(f, F, n, x0, X) ==
  /\ f \in [0..n -> X]
  /\ f[0] = x0
  /\ \A i \in 1..n : f[i] = F[<<f[i - 1], i>>]

\* Every function has such a run.
LEMMA RunExists ==
  ASSUME NEW X, NEW x0 \in X, NEW n \in Nat, NEW F \in [X \X (1..n) -> X]
  PROVE  \E f : IsRun(f, F, n, x0, X)
<1> DEFINE Steps(k) == {f \in [0..k -> X] :
                         f[0] = x0 /\ \A i \in 1..k : f[i] = F[<<f[i - 1], i>>]}
           S == {k \in Nat : k <= n => Steps(k) # {}}
<1>1. 0 \in S
  <2>1. [i \in 0..0 |-> x0] \in Steps(0)
    OBVIOUS
  <2>2. QED
    BY <2>1
<1>2. ASSUME NEW k \in Nat, k \in S, k + 1 <= n PROVE Steps(k + 1) # {}
  <2>1. PICK f \in Steps(k) : TRUE
    BY <1>2
  <2>2. /\ \A i \in 0..k : f[i] \in X
        /\ f[0] = x0
        /\ \A i \in 1..k : f[i] = F[<<f[i - 1], i>>]
    BY <2>1
  <2> DEFINE x == F[<<f[k], k + 1>>]
             g == [i \in 0..k + 1 |-> IF i = k + 1 THEN x ELSE f[i]]
  <2>3. x \in X
    BY <1>2, <2>2
  <2> HIDE DEF x
  <2>4. /\ g \in [0..k + 1 -> X]
        /\ g[k + 1] = x
        /\ \A i \in 0..k : g[i] = f[i]
    BY <2>2, <2>3
  <2> HIDE DEF g
  <2>5. g[0] = x0
    BY <2>2, <2>4
  <2>6. ASSUME NEW i \in 1..k + 1 PROVE g[i] = F[<<g[i - 1], i>>]
    <3>1. i - 1 \in 0..k /\ g[i - 1] = f[i - 1]
      BY <2>4
    <3>2. CASE i = k + 1
      <4>1. i - 1 = k
        BY <3>2
      <4>2. g[i] = x /\ g[i - 1] = f[k]
        BY <2>4, <3>1, <3>2, <4>1
      <4>3. QED
        BY <3>2, <4>2 DEF x
    <3>3. CASE i # k + 1
      <4>1. i \in 1..k /\ i \in 0..k
        BY <3>3
      <4>2. g[i] = f[i] /\ f[i] = F[<<f[i - 1], i>>]
        BY <2>2, <2>4, <4>1
      <4>3. QED
        BY <3>1, <4>2
    <3>4. QED
      BY <3>2, <3>3
  <2>7. g \in Steps(k + 1)
    BY <2>4, <2>5, <2>6
  <2>8. QED
    BY <2>7
<1>3. \A k \in Nat : k \in S => k + 1 \in S
  BY <1>2
<1> HIDE DEF S
<1>4. n \in S
  BY <1>1, <1>3, NatSetInduction
<1>5. QED
  BY <1>4 DEF S, IsRun

LEMMA ModSize ==
  ASSUME NEW a \in 0..2 * Size - 1
  PROVE  a % Size = IF a < Size THEN a ELSE a - Size
BY LogAssumption

Texts == Lines \cup {NoLine}

Window(r) == LastLines(r, Size)

LEMMA LastLinesType ==
  ASSUME NEW r \in Rings, NEW n \in Nat
  PROVE  LET m == IF n > Total(r) THEN Total(r) ELSE n IN
           /\ Total(r) \in 0..Size
           /\ LastLines(r, n) \in Seq(Texts)
           /\ Len(LastLines(r, n)) = m
           /\ \A i \in 1..m :
                LastLines(r, n)[i] =
                  LET k == r.pos - m + i - 1
                  IN  r.lines[IF k < 0 THEN k + Size ELSE k]
<1> DEFINE m == IF n > Total(r) THEN Total(r) ELSE n
           start == IF r.pos < m THEN r.pos + Size - m ELSE r.pos - m
<1>1. /\ r.pos \in 0..Size - 1 /\ Size \in Nat \ {0}
      /\ r.lines \in [0..Size - 1 -> Texts] /\ r.wrapped \in BOOLEAN
  BY LogAssumption DEF Rings, Texts
<1>2. Total(r) \in 0..Size /\ m \in 0..Size /\ m <= Total(r)
  BY <1>1 DEF Total
<1>3. LastLines(r, n) = [i \in 1..m |-> r.lines[(start + i - 1) % Size]]
  BY DEF LastLines
<1>4. /\ start \in 0..Size - 1
      /\ start = r.pos - m \/ start = r.pos - m + Size
  BY <1>1, <1>2
<1> HIDE DEF start, m
<1>5. ASSUME NEW i \in 1..m
      PROVE  LET k == r.pos - m + i - 1
             IN  /\ (start + i - 1) % Size = IF k < 0 THEN k + Size ELSE k
                 /\ (start + i - 1) % Size \in 0..Size - 1
  <2> DEFINE a == start + i - 1
  <2>1. a \in 0..2 * Size - 1
    BY <1>1, <1>2, <1>4
  <2>2. a = r.pos - m + i - 1 \/ a = r.pos - m + i - 1 + Size
    BY <1>1, <1>2, <1>4, SMTT(30)
  <2> HIDE DEF a
  <2>3. a % Size = IF a < Size THEN a ELSE a - Size
    BY <2>1, ModSize
  <2>4. r.pos - m + i - 1 \in Int /\ r.pos - m + i - 1 < Size
    BY <1>1, <1>2
  <2>5. /\ a % Size = IF r.pos - m + i - 1 < 0 THEN r.pos - m + i - 1 + Size
                      ELSE r.pos - m + i - 1
        /\ a % Size \in 0..Size - 1
    BY <1>1, <2>1, <2>2, <2>3, <2>4
  <2>6. QED
    BY <2>5 DEF a
<1>6. \A i \in 1..m : r.lines[(start + i - 1) % Size] \in Texts
  BY <1>1, <1>5
<1>7. LastLines(r, n) \in [1..m -> Texts]
  BY <1>3, <1>6
<1>8. m \in Nat
  BY <1>2
<1>9. LastLines(r, n) \in Seq(Texts) /\ Len(LastLines(r, n)) = m
  BY <1>7, <1>8
<1>10. \A i \in 1..m :
        LastLines(r, n)[i] =
          LET k == r.pos - m + i - 1
          IN  r.lines[IF k < 0 THEN k + Size ELSE k]
  BY <1>3, <1>5
<1>11. QED
  BY <1>2, <1>9, <1>10 DEF m

LEMMA NewestType ==
  ASSUME NEW S, NEW s \in Seq(S), NEW n \in Nat
  PROVE  LET m == IF Len(s) <= n THEN Len(s) ELSE n IN
           /\ W!Newest(s, n) \in Seq(S)
           /\ Len(W!Newest(s, n)) = m
           /\ \A i \in 1..m : W!Newest(s, n)[i] = s[Len(s) - m + i]
<1> DEFINE l == Len(s)
           new == W!Newest(s, n)
<1>1. l \in Nat /\ \A i \in 1..l : s[i] \in S
  BY ElementOfSeq
<1>2. ASSUME l <= n
      PROVE  new \in Seq(S) /\ Len(new) = l /\ \A i \in 1..l : new[i] = s[l - l + i]
  BY <1>1, <1>2 DEF W!Newest
<1>3. ASSUME l > n
      PROVE  new \in Seq(S) /\ Len(new) = n /\ \A i \in 1..n : new[i] = s[l - n + i]
  <2> DEFINE a == l - n + 1
  <2>1. new = SubSeq(s, a, l)
    BY <1>1, <1>3 DEF W!Newest
  <2>2. \A i \in a..l : s[i] \in S
    BY <1>1, <1>3
  <2>3. /\ a \in Int /\ l \in Int /\ l - a + 1 = n /\ (a > l => n = 0)
        /\ \A i \in Int : a + i - 1 = l - n + i
    BY <1>1, <1>3
  <2> HIDE DEF a, l, new
  <2>4. /\ new \in Seq(S)
        /\ Len(new) = IF a <= l THEN l - a + 1 ELSE 0
        /\ \A i \in 1..l - a + 1 : new[i] = s[a + i - 1]
    BY <2>1, <2>2, <2>3, SubSeqProperties
  <2>5. Len(new) = n
    BY <2>3, <2>4
  <2>6. ASSUME NEW i \in 1..n PROVE new[i] = s[l - n + i]
    <3>1. i \in 1..l - a + 1
      BY <2>3
    <3>2. a + i - 1 = l - n + i
      BY <2>3
    <3>3. QED
      BY <2>4, <3>1, <3>2
  <2>7. QED
    BY <2>4, <2>5, <2>6
<1> DEFINE m == IF Len(s) <= n THEN Len(s) ELSE n
<1>4. /\ l \in Int /\ n \in Int
      /\ l <= n => m = l
      /\ l > n => m = n
  BY <1>1
<1> HIDE DEF l, m, new
<1>5. new \in Seq(S) /\ Len(new) = m /\ \A i \in 1..m : new[i] = s[l - m + i]
  <2>1. CASE l <= n
    BY <1>2, <1>4, <2>1
  <2>2. CASE l > n
    BY <1>3, <1>4, <2>2
  <2>3. QED
    BY <1>4, <2>1, <2>2
<1>6. QED
  BY <1>5 DEF l, m, new

\* Short and long requests agree, in every ring.
LEMMA SuffixOfLast ==
  ASSUME NEW r \in Rings, NEW n \in 0..Size
  PROVE  LastLines(r, n) = W!Newest(LastLines(r, Size + 1), n)
<1> DEFINE t == Total(r)
           m == IF n > t THEN t ELSE n
           all == LastLines(r, Size + 1)
<1>1. t \in 0..Size /\ n \in Nat /\ Size \in Nat /\ r.pos \in Nat
  BY LogAssumption, LastLinesType DEF Rings
<1>2. /\ LastLines(r, n) \in Seq(Texts) /\ Len(LastLines(r, n)) = m
      /\ \A i \in 1..m : LastLines(r, n)[i] =
           LET k == r.pos - m + i - 1 IN r.lines[IF k < 0 THEN k + Size ELSE k]
  BY <1>1, LastLinesType
<1>3. /\ all \in Seq(Texts) /\ Len(all) = t
      /\ \A i \in 1..t : all[i] =
           LET k == r.pos - t + i - 1 IN r.lines[IF k < 0 THEN k + Size ELSE k]
  <2>1. Size + 1 \in Nat /\ ~(Size + 1 <= t) /\ ~(Size + 1 < t)
    BY <1>1
  <2>2. (IF Size + 1 > t THEN t ELSE Size + 1) = t
    BY <1>1
  <2> HIDE DEF t
  <2>3. QED
    BY <2>1, <2>2, LastLinesType, ZenonT(30) DEF t
<1> HIDE DEF all, t
<1>4. /\ W!Newest(all, n) \in Seq(Texts) /\ Len(W!Newest(all, n)) = m
      /\ \A i \in 1..m : W!Newest(all, n)[i] = all[t - m + i]
  <2>1. (IF Len(all) <= n THEN Len(all) ELSE n) = m
    BY <1>1, <1>3
  <2>2. n \in Nat /\ all \in Seq(Texts) /\ Len(all) = t
    BY <1>1, <1>3
  <2> HIDE DEF m
  <2>3. LET k == IF Len(all) <= n THEN Len(all) ELSE n IN
          /\ W!Newest(all, n) \in Seq(Texts)
          /\ Len(W!Newest(all, n)) = k
          /\ \A i \in 1..k : W!Newest(all, n)[i] = all[Len(all) - k + i]
    BY <2>2, NewestType
  <2>4. QED
    BY <2>1, <2>2, <2>3
<1>5. ASSUME NEW i \in 1..m PROVE W!Newest(all, n)[i] = LastLines(r, n)[i]
  <2> DEFINE j == t - m + i
  <2>1. j \in 1..t /\ r.pos - t + j - 1 = r.pos - m + i - 1
    BY <1>1
  <2>2. W!Newest(all, n)[i] = all[j]
    BY <1>4
  <2>3. all[j] = LET k == r.pos - t + j - 1
                 IN  r.lines[IF k < 0 THEN k + Size ELSE k]
    BY <1>3, <2>1
  <2> HIDE DEF j, m
  <2>4. LastLines(r, n)[i] = LET k == r.pos - m + i - 1
                             IN  r.lines[IF k < 0 THEN k + Size ELSE k]
    BY <1>2
  <2>5. QED
    BY <2>1, <2>2, <2>3, <2>4
<1>6. QED
  BY <1>2, <1>4, <1>5, SeqEqual DEF all

\* One line enters the window at its end.
LEMMA PutFacts ==
  ASSUME NEW r \in Rings, NEW line \in Lines
  PROVE  /\ Put(r, line) \in Rings
         /\ Window(Put(r, line)) = W!Newest(Append(Window(r), line), Size)
<1> DEFINE q == Put(r, line)
           full == r.pos + 1 = Size
<1>1. /\ r.pos \in 0..Size - 1 /\ Size \in Nat \ {0} /\ line \in Texts
      /\ r.lines \in [0..Size - 1 -> Texts] /\ r.wrapped \in BOOLEAN
  BY LogAssumption DEF Rings, Texts
<1>2. (r.pos + 1) % Size = IF full THEN 0 ELSE r.pos + 1
  <2>1. r.pos + 1 \in 0..2 * Size - 1
    BY <1>1
  <2>2. QED
    BY <1>1, <2>1, ModSize, SMTT(30)
<1>3. /\ q.lines = [r.lines EXCEPT ![r.pos] = line]
      /\ q.pos = IF full THEN 0 ELSE r.pos + 1
      /\ q.wrapped <=> r.wrapped \/ full
      /\ q.wrapped \in BOOLEAN
      /\ q = [lines |-> q.lines, pos |-> q.pos, wrapped |-> q.wrapped]
  <2>1. q = [lines |-> [r.lines EXCEPT ![r.pos] = line],
             pos |-> (r.pos + 1) % Size,
             wrapped |-> r.wrapped \/ (r.pos + 1) % Size = 0]
    BY DEF Put
  <2>2. (r.pos + 1) % Size = 0 <=> full
    BY <1>1, <1>2
  <2>3. (r.wrapped \/ (r.pos + 1) % Size = 0) \in BOOLEAN
    OBVIOUS
  <2> HIDE DEF q
  <2>4. QED
    BY <1>2, <2>1, <2>2, <2>3
<1>4. q \in Rings
  <2>1. q.lines \in [0..Size - 1 -> Texts] /\ q.pos \in 0..Size - 1
    BY <1>1, <1>3
  <2>2. QED
    BY <1>3, <2>1 DEF Rings, Texts
<1> HIDE DEF q
<1>5. \A k \in 0..Size - 1 : q.lines[k] = IF k = r.pos THEN line ELSE r.lines[k]
  BY <1>1, <1>3
<1> DEFINE t == Total(r)
           u == Total(q)
           new == W!Newest(Append(Window(r), line), Size)
<1>6. /\ t \in 0..Size /\ u \in 0..Size
      /\ IF r.wrapped THEN t = Size /\ u = Size ELSE t = r.pos /\ u = r.pos + 1
  BY <1>1, <1>3 DEF Total
<1>7. /\ Window(r) \in Seq(Texts) /\ Len(Window(r)) = t
      /\ \A i \in 1..t : Window(r)[i] =
           LET k == r.pos - t + i - 1 IN r.lines[IF k < 0 THEN k + Size ELSE k]
  <2>1. (IF Size > t THEN t ELSE Size) = t
    BY <1>1, <1>6
  <2> HIDE DEF t
  <2>2. QED
    <3>1. Size \in Nat
      BY <1>1
    <3>2. LET m == IF Size > Total(r) THEN Total(r) ELSE Size IN
            /\ LastLines(r, Size) \in Seq(Texts)
            /\ Len(LastLines(r, Size)) = m
            /\ \A i \in 1..m : LastLines(r, Size)[i] =
                 LET k == r.pos - m + i - 1
                 IN  r.lines[IF k < 0 THEN k + Size ELSE k]
      BY <3>1, LastLinesType
    <3>3. QED
      BY <2>1, <3>2 DEF t, Window
<1>8. /\ Window(q) \in Seq(Texts) /\ Len(Window(q)) = u
      /\ \A i \in 1..u : Window(q)[i] =
           LET k == q.pos - u + i - 1 IN q.lines[IF k < 0 THEN k + Size ELSE k]
  <2>1. (IF Size > u THEN u ELSE Size) = u
    BY <1>1, <1>6
  <2> HIDE DEF u
  <2>2. QED
    <3>1. Size \in Nat
      BY <1>1
    <3>2. LET m == IF Size > Total(q) THEN Total(q) ELSE Size IN
            /\ LastLines(q, Size) \in Seq(Texts)
            /\ Len(LastLines(q, Size)) = m
            /\ \A i \in 1..m : LastLines(q, Size)[i] =
                 LET k == q.pos - m + i - 1
                 IN  q.lines[IF k < 0 THEN k + Size ELSE k]
      BY <1>4, <3>1, LastLinesType
    <3>3. QED
      BY <2>1, <3>2 DEF u, Window
<1>9. /\ Append(Window(r), line) \in Seq(Texts)
      /\ Len(Append(Window(r), line)) = t + 1
      /\ \A i \in 1..t : Append(Window(r), line)[i] = Window(r)[i]
      /\ Append(Window(r), line)[t + 1] = line
  BY <1>1, <1>7, AppendProperties
<1>10. /\ new \in Seq(Texts) /\ Len(new) = u
       /\ \A i \in 1..u : new[i] = Append(Window(r), line)[t + 1 - u + i]
  <2>1. (IF t + 1 <= Size THEN t + 1 ELSE Size) = u
    BY <1>1, <1>6
  <2> HIDE DEF t, u
  <2> DEFINE s == Append(Window(r), line)
  <2>2. s \in Seq(Texts) /\ Size \in Nat /\ Len(s) = t + 1
    BY <1>1, <1>9
  <2> HIDE DEF s
  <2>3. LET m == IF Len(s) <= Size THEN Len(s) ELSE Size IN
          /\ W!Newest(s, Size) \in Seq(Texts)
          /\ Len(W!Newest(s, Size)) = m
          /\ \A i \in 1..m : W!Newest(s, Size)[i] = s[Len(s) - m + i]
    BY <2>2, NewestType
  <2>4. (IF Len(s) <= Size THEN Len(s) ELSE Size) = u
    BY <2>1, <2>2
  <2>5. /\ W!Newest(s, Size) \in Seq(Texts)
        /\ Len(W!Newest(s, Size)) = u
        /\ \A i \in 1..u : W!Newest(s, Size)[i] = s[Len(s) - u + i]
    BY <2>3, <2>4
  <2>6. ASSUME NEW i \in 1..u PROVE W!Newest(s, Size)[i] = s[t + 1 - u + i]
    <3>1. W!Newest(s, Size)[i] = s[Len(s) - u + i]
      BY <2>5
    <3>2. /\ t \in Int /\ u \in Int /\ i \in Int /\ Len(s) = t + 1
          /\ Len(s) - u + i = t + 1 - u + i
      BY <1>1, <1>6, <2>2
    <3>3. QED
      BY <3>1, <3>2
  <2>7. QED
    BY <2>5, <2>6 DEF s
<1> HIDE DEF t, u, new
<1>11. ASSUME NEW i \in 1..u PROVE Window(q)[i] = new[i]
  <2>1. CASE i = u
    <3>1. t + 1 - u + i = t + 1
      BY <1>6, <2>1
    <3>2. new[i] = line
      BY <1>9, <1>10, <3>1
    <3>3. LET k == q.pos - u + i - 1 IN (IF k < 0 THEN k + Size ELSE k) = r.pos
      BY <1>1, <1>3, <1>6, <2>1
    <3>4. Window(q)[i] = line
      BY <1>1, <1>5, <1>8, <3>3
    <3>5. QED
      BY <3>2, <3>4
  <2>2. CASE i # u
    <3> DEFINE j == t + 1 - u + i
               k == r.pos - t + j - 1
               c == IF k < 0 THEN k + Size ELSE k
    <3>1. j \in 1..t /\ c \in 0..Size - 1 /\ c # r.pos
      BY <1>1, <1>6, <2>2, SMTT(30)
    <3>2. new[i] = r.lines[c]
      <4>1. new[i] = Window(r)[j]
        BY <1>9, <1>10, <3>1
      <4>2. QED
        BY <1>7, <3>1, <4>1
    <3>3. Window(q)[i] = q.lines[c]
      <4>1. LET e == q.pos - u + i - 1 IN (IF e < 0 THEN e + Size ELSE e) = c
        <5>1. CASE full /\ r.wrapped
          <6>1. q.pos = 0 /\ r.pos = Size - 1 /\ t = Size /\ u = Size
            BY <1>1, <1>3, <1>6, <5>1
          <6>2. i - 1 \in Nat /\ i < Size /\ k = i - 1
            BY <1>1, <2>2, <6>1
          <6>3. q.pos - u + i - 1 = i - 1 - Size
            BY <1>1, <6>1
          <6>4. QED
            BY <1>1, <6>2, <6>3
        <5>2. CASE full /\ ~r.wrapped
          <6>1. q.pos = 0 /\ r.pos = Size - 1 /\ t = Size - 1 /\ u = Size
            BY <1>1, <1>3, <1>6, <5>2
          <6>2. i - 1 \in Nat /\ i < Size /\ k = i - 1
            BY <1>1, <2>2, <6>1
          <6>3. q.pos - u + i - 1 = i - 1 - Size
            BY <1>1, <6>1
          <6>4. QED
            BY <1>1, <6>2, <6>3
        <5>3. CASE ~full /\ r.wrapped
          BY <1>1, <1>3, <1>6, <2>2, <5>3
        <5>4. CASE ~full /\ ~r.wrapped
          BY <1>1, <1>3, <1>6, <2>2, <5>4
        <5>5. QED
          BY <5>1, <5>2, <5>3, <5>4
      <4>2. QED
        BY <1>8, <4>1
    <3>4. QED
      BY <1>5, <3>1, <3>2, <3>3
  <2>3. QED
    BY <2>1, <2>2
<1>12. QED
  BY <1>4, <1>8, <1>10, <1>11, SeqEqual DEF new, q


\* The newest lines of a longer log need only the newest lines of a shorter.
LEMMA NewestAppend ==
  ASSUME NEW S, NEW s \in Seq(S), NEW e \in S, NEW n \in Nat \ {0}
  PROVE  W!Newest(Append(W!Newest(s, n), e), n) = W!Newest(Append(s, e), n)
<1> DEFINE l == Len(s)
           m == IF l <= n THEN l ELSE n
           short == W!Newest(s, n)
           a == Append(short, e)
           b == Append(s, e)
<1>1. l \in Nat /\ n \in Nat \ {0} /\ m \in Nat
  OBVIOUS
<1>2. short \in Seq(S) /\ Len(short) = m
      /\ \A i \in 1..m : short[i] = s[l - m + i]
  BY NewestType
<1> HIDE DEF short, m
<1>3. /\ a \in Seq(S) /\ Len(a) = m + 1 /\ a[m + 1] = e
      /\ \A i \in 1..m : a[i] = s[l - m + i]
  BY <1>2, AppendProperties
<1>4. /\ b \in Seq(S) /\ Len(b) = l + 1 /\ b[l + 1] = e
      /\ \A i \in 1..l : b[i] = s[i]
  BY AppendProperties
<1>5. /\ m \in Nat /\ l \in Nat
      /\ (l <= n /\ m = l) \/ (l > n /\ m = n)
  BY <1>1 DEF m
<1> HIDE DEF a, b, l
<1> DEFINE ka == IF Len(a) <= n THEN Len(a) ELSE n
           kb == IF Len(b) <= n THEN Len(b) ELSE n
<1>6. /\ W!Newest(a, n) \in Seq(S) /\ Len(W!Newest(a, n)) = ka
      /\ \A i \in 1..ka : W!Newest(a, n)[i] = a[Len(a) - ka + i]
  BY <1>3, NewestType, ZenonT(60)
<1>7. /\ W!Newest(b, n) \in Seq(S) /\ Len(W!Newest(b, n)) = kb
      /\ \A i \in 1..kb : W!Newest(b, n)[i] = b[Len(b) - kb + i]
  <2>1. b \in Seq(S) /\ n \in Nat
    BY <1>1, <1>4
  <2>2. QED
    BY <2>1, NewestType
<1>8. ka = kb /\ kb \in Nat
  BY <1>1, <1>3, <1>4, <1>5
<1>9. \A i \in 1..kb : a[Len(a) - kb + i] = b[Len(b) - kb + i]
  <2> SUFFICES ASSUME NEW i \in 1..kb
               PROVE  a[Len(a) - kb + i] = b[Len(b) - kb + i]
    OBVIOUS
  <2> DEFINE p == Len(a) - kb + i
             q == Len(b) - kb + i
  <2>1. (p = m + 1 /\ q = l + 1) \/ (p \in 1..m /\ q \in 1..l /\ l - m + p = q)
    BY <1>1, <1>3, <1>4, <1>5
  <2>2. QED
    BY <1>3, <1>4, <2>1
<1> HIDE DEF ka, kb
<1>10. \A i \in 1..kb : W!Newest(a, n)[i] = W!Newest(b, n)[i]
  BY <1>6, <1>7, <1>8, <1>9, SMTT(60)
<1>11. W!Newest(a, n) = W!Newest(b, n)
  BY <1>6, <1>7, <1>8, <1>10, SeqEqual
<1>12. QED
  BY <1>11 DEF a, b, short

\* A batch enters the window at once, whatever its length.
LEMMA PutAllFacts ==
  ASSUME NEW r \in Rings, NEW batch \in Seq(Lines)
  PROVE  /\ PutAll(r, batch) \in Rings
         /\ Window(PutAll(r, batch)) = W!Newest(Window(r) \o batch, Size)
<1> DEFINE n == Len(batch)
           F == [p \in Rings \X (1..n) |-> Put(p[1], batch[p[2]])]
           IsFill(f) == f = [i \in 0..n |->
                              IF i = 0 THEN r ELSE Put(f[i - 1], batch[i])]
           after == CHOOSE f : IsFill(f)
<1>1. n \in Nat /\ \A i \in 1..n : batch[i] \in Lines
  BY ElementOfSeq
<1>2. F \in [Rings \X (1..n) -> Rings]
  BY <1>1, PutFacts
<1>3. PICK f : IsRun(f, F, n, r, Rings)
  <2>1. n \in Nat
    BY <1>1
  <2> HIDE DEF F, n
  <2>2. QED
    BY <1>2, <2>1, RunExists
<1>4. \A i \in 1..n : f[i] = Put(f[i - 1], batch[i])
  BY <1>1, <1>3 DEF IsRun
<1> HIDE DEF F
<1>5. IsFill(f)
  <2> DEFINE g == [i \in 0..n |-> IF i = 0 THEN r ELSE Put(f[i - 1], batch[i])]
  <2>1. \A i \in 0..n : f[i] = g[i]
    BY <1>1, <1>3, <1>4 DEF IsRun
  <2>2. QED
    BY <1>3, <2>1 DEF IsRun
<1>6. IsFill(after)
  BY <1>5
<1>7. PutAll(r, batch) = after[n]
  BY DEF PutAll
<1> HIDE DEF after
<1>8. /\ after[0] = r
      /\ \A i \in 1..n : after[i] = Put(after[i - 1], batch[i])
  BY <1>1, <1>6
<1> DEFINE Log(i) == Window(r) \o SubSeq(batch, 1, i)
           S == {i \in Nat : i <= n =>
                  /\ after[i] \in Rings
                  /\ Window(after[i]) = W!Newest(Log(i), Size)}
<1>9. Window(r) \in Seq(Texts) /\ Len(Window(r)) <= Size /\ Size \in Nat \ {0}
  <2>1. Size \in Nat \ {0}
    BY LogAssumption
  <2>2. LET m == IF Size > Total(r) THEN Total(r) ELSE Size IN
          /\ Total(r) \in 0..Size
          /\ LastLines(r, Size) \in Seq(Texts)
          /\ Len(LastLines(r, Size)) = m
    BY <2>1, LastLinesType
  <2>3. QED
    BY <2>1, <2>2 DEF Window
<1>10. batch \in Seq(Texts)
  BY <1>1 DEF Texts
<1>11. 0 \in S
  <2>1. SubSeq(batch, 1, 0) = << >>
    OBVIOUS
  <2>2. Log(0) = Window(r)
    BY <1>9, <2>1
  <2>3. W!Newest(Window(r), Size) = Window(r)
    BY <1>9 DEF W!Newest
  <2>4. QED
    BY <1>8, <2>2, <2>3
<1>12. ASSUME NEW i \in Nat, i \in S, i + 1 <= n
       PROVE  /\ after[i + 1] \in Rings
              /\ Window(after[i + 1]) = W!Newest(Log(i + 1), Size)
  <2>1. i + 1 \in 1..n /\ (i + 1) - 1 = i /\ i <= n
    BY <1>1, <1>12
  <2>2. after[i] \in Rings /\ Window(after[i]) = W!Newest(Log(i), Size)
    BY <1>12, <2>1
  <2>3. after[i + 1] = Put(after[i], batch[i + 1]) /\ batch[i + 1] \in Lines
    BY <1>1, <1>8, <2>1
  <2>4. /\ after[i + 1] \in Rings
        /\ Window(after[i + 1])
             = W!Newest(Append(W!Newest(Log(i), Size), batch[i + 1]), Size)
    BY <2>2, <2>3, PutFacts
  <2>5. Log(i) \in Seq(Texts)
    BY <1>9, <1>10, <2>1
  <2>6. W!Newest(Append(W!Newest(Log(i), Size), batch[i + 1]), Size)
          = W!Newest(Append(Log(i), batch[i + 1]), Size)
    <3>1. batch[i + 1] \in Texts
      BY <2>3 DEF Texts
    <3> HIDE DEF Log
    <3>2. QED
      BY <1>9, <2>5, <3>1, NewestAppend
  <2>7. Append(Log(i), batch[i + 1]) = Log(i + 1)
    <3> DEFINE w == Window(r)
               e == batch[i + 1]
    <3>1. Append(SubSeq(batch, 1, i), batch[i + 1]) = SubSeq(batch, 1, i + 1)
      BY <2>1
    <3>2. w \in Seq(Texts) /\ SubSeq(batch, 1, i) \in Seq(Texts)
      BY <1>9, <1>10, <2>1
    <3>3. e \in Texts
      BY <2>3 DEF Texts
    <3> HIDE DEF w, e
    <3>4. ASSUME NEW v \in Seq(Texts)
          PROVE  w \o Append(v, e) = Append(w \o v, e)
      BY <3>2, <3>3, ConcatAppend
    <3>5. QED
      BY <3>1, <3>2, <3>4 DEF w, e
  <2>8. QED
    BY <2>4, <2>6, <2>7
<1>13. \A i \in Nat : i \in S => i + 1 \in S
  BY <1>12
<1> HIDE DEF S
<1>14. n \in S
  BY <1>1, <1>11, <1>13, NatSetInduction
<1>15. Log(n) = Window(r) \o batch
  <2>1. SubSeq(batch, 1, Len(batch)) = batch
    OBVIOUS
  <2>2. QED
    BY <2>1
<1>16. after[n] \in Rings /\ Window(after[n]) = W!Newest(Log(n), Size)
  <2>1. n <= n
    BY <1>1
  <2> HIDE DEF Log, n
  <2>2. QED
    BY <1>14, <2>1 DEF S
<1>17. QED
  BY <1>7, <1>15, <1>16

-----------------------------------------------------------------------------
(* The whole buffer.                                                       *)

RingInv == ring \in Rings

ChanInv == \A s \in Streams : Len(chan[s]) <= SubCap

BufferInv == FanInv /\ RingInv /\ ChanInv

\* The batch of a store that the guards let begin.
LEMMA StoreBatch ==
  ASSUME FanInv, NEW w \in Writers, NEW n \in 1..MaxBatch, Store(w, n)
  PROVE  /\ Batch(w, n) \in Seq(Lines) /\ Len(Batch(w, n)) = n
         /\ ring' = PutAll(ring, Batch(w, n))
<1>1. n \in Nat /\ stored[w] + n <= MaxLines
  BY LogAssumption, StoredBound DEF FanInv, Store
<1>2. QED
  BY <1>1, BatchFacts DEF FanInv, Store

\* Only Store changes the ring, and takes lines from a writer.
LEMMA RingSteps ==
  ASSUME [Next]_vars
  PROVE  \/ UNCHANGED <<ring, stored>>
         \/ \E w \in Writers, n \in 1..MaxBatch : Store(w, n)
BY DEF Next, vars, FanOut, StartFan, NextLine, Offer, Subscribe, Unsubscribe,
       Locking, Join, Leave, Close, Receive

LEMMA ChanStep ==
  ASSUME FanInv, ChanInv, [Next]_vars
  PROVE  ChanInv'
<1>1. \A s \in Streams : chan[s] \in Seq(Lines)
  BY DEF FanInv, FanTypeOK
<1>2. ASSUME NEW w \in Writers, NEW s \in Streams, Offer(w, s) PROVE ChanInv'
  <2> DEFINE e == Head(job[w].batch)
  <2>1. CASE Len(chan[s]) < SubCap
    <3>1. chan' = [chan EXCEPT ![s] = Append(@, e)]
      BY <1>2, <2>1 DEF Offer
    <3>2. Len(Append(chan[s], e)) = Len(chan[s]) + 1 /\ Len(chan[s]) \in Nat
      BY <1>1
    <3> HIDE DEF e
    <3>3. QED
      BY <2>1, <3>1, <3>2, LogAssumption DEF ChanInv, FanInv, FanTypeOK
  <2>2. CASE ~(Len(chan[s]) < SubCap)
    BY <1>2, <2>2 DEF Offer, ChanInv
  <2>3. QED
    BY <2>1, <2>2
<1>3. ASSUME NEW s \in Streams, Receive(s) PROVE ChanInv'
  <2>1. chan' = [chan EXCEPT ![s] = Tail(@)] /\ chan[s] # << >>
    BY <1>3 DEF Receive
  <2>2. Len(Tail(chan[s])) <= Len(chan[s]) /\ Len(chan[s]) \in Nat
        /\ Len(Tail(chan[s])) \in Nat
    BY <1>1, <2>1, HeadTailProperties
  <2>3. QED
    BY <2>1, <2>2, LogAssumption DEF ChanInv, FanInv, FanTypeOK
<1>4. CASE UNCHANGED chan
  BY <1>4 DEF ChanInv
<1>5. QED
  BY <1>2, <1>3, <1>4
     DEF Next, vars, FanOut, Store, StartFan, NextLine, Subscribe, Unsubscribe,
         Locking, Join, Leave, Close

LEMMA BufferInit == Init => BufferInv
<1> SUFFICES ASSUME Init PROVE BufferInv
  OBVIOUS
<1>1. ring \in Rings
  BY LogAssumption DEF Init, Rings
<1>2. ChanInv
  BY LogAssumption DEF Init, ChanInv
<1>3. QED
  BY <1>1, <1>2, FanInit DEF BufferInv, RingInv

LEMMA BufferStep == BufferInv /\ [Next]_vars => BufferInv'
<1> SUFFICES ASSUME BufferInv, [Next]_vars PROVE BufferInv'
  OBVIOUS
<1>1. RingInv'
  BY RingSteps, StoreBatch, PutAllFacts DEF BufferInv, RingInv
<1>2. QED
  BY <1>1, FanStep, ChanStep DEF BufferInv

LEMMA BufferInvariance == Spec => []BufferInv
BY BufferInit, BufferStep, PTL DEF Spec

\* No index leaves the ring, no channel holds more than its slots, no store
\* has a subscriber to visit that is not in the map, and all else has its type
\* (logbuffer.go:15-22, 95-116, 149).
THEOREM BufferTypes == Spec => []TypeOK
<1>1. BufferInv => TypeOK
  <2> SUFFICES ASSUME BufferInv PROVE TypeOK
    OBVIOUS
  <2>1. \A w \in Writers : job[w].left \subseteq subs
    BY DEF BufferInv, FanInv, FanTypeOK, Jobs, LeftInv, subs
  <2>2. QED
    BY <2>1 DEF BufferInv, RingInv, ChanInv, FanInv, FanTypeOK, Jobs, TypeOK
<1>2. QED
  BY <1>1, BufferInvariance, PTL

\* A request for n lines gets the end of what a longer request gets, also when
\* the ring has wrapped (logbuffer.go:121-144).
THEOREM ShortIsSuffix == Spec => []LastIsSuffix
<1>1. BufferInv => LastIsSuffix
  BY SuffixOfLast DEF BufferInv, RingInv, LastIsSuffix
<1>2. QED
  BY <1>1, BufferInvariance, PTL

\* The ring is a window on the last Size lines of the log: each line that a
\* writer passes to store enters it, once and in the writer's order, also when
\* its batch is longer than the ring, and nothing else changes what readers get
\* (logbuffer.go:95-144).
THEOREM RingIsWindow == Spec => ShowsLastLines
<1>1. Init => W!Init
  <2> SUFFICES ASSUME Init PROVE Window(ring) = << >>
    BY DEF W!Init, Window, Init
  <2>1. ring \in Rings /\ Total(ring) = 0 /\ Size \in Nat
    BY BufferInit, LogAssumption DEF Init, BufferInv, RingInv, Total
  <2>2. LET m == IF Size > Total(ring) THEN Total(ring) ELSE Size IN
          LastLines(ring, Size) \in Seq(Texts) /\ Len(LastLines(ring, Size)) = m
    BY <2>1, LastLinesType
  <2>3. Len(Window(ring)) = 0 /\ Window(ring) \in Seq(Texts)
    BY <2>1, <2>2, LogAssumption DEF Window
  <2>4. QED
    BY <2>3, EmptySeq
<1>2. BufferInv /\ [Next]_vars => [W!Next]_<<stored, Window(ring)>>
  <2> SUFFICES ASSUME BufferInv, [Next]_vars PROVE [W!Next]_<<stored, Window(ring)>>
    OBVIOUS
  <2>1. CASE UNCHANGED <<ring, stored>>
    BY <2>1 DEF Window, LastLines, Total
  <2>2. ASSUME NEW w \in Writers, NEW n \in 1..MaxBatch, Store(w, n)
        PROVE  W!Next
    <3> DEFINE b == Batch(w, n)
    <3>1. b \in Seq(Lines) /\ Len(b) = n /\ ring' = PutAll(ring, b)
      BY <2>2, StoreBatch DEF BufferInv
    <3>2. Window(ring)' = Window(ring')
      BY DEF Window, LastLines, Total
    <3> HIDE DEF b
    <3>3. Window(PutAll(ring, b)) = W!Newest(Window(ring) \o b, Size)
      BY <3>1, PutAllFacts DEF BufferInv, RingInv
    <3>4. W!Batch(w, n) = b
      BY DEF W!Batch, Batch, b
    <3>5. stored' = [stored EXCEPT ![w] = @ + n]
      BY <2>2 DEF Store
    <3>6. W!Store(w, n)
      BY <3>1, <3>2, <3>3, <3>4, <3>5 DEF W!Store, Window
    <3>7. QED
      BY <3>6 DEF W!Next
  <2>3. QED
    BY <2>1, <2>2, RingSteps
<1>3. QED
  BY <1>1, <1>2, BufferInvariance, PTL DEF Spec, ShowsLastLines, W!Spec, Window

=============================================================================
