--------------------------- MODULE LogViewerProofs ----------------------------
(***************************************************************************)
(* What LogViewer guarantees for any set of shards, any number of calls    *)
(* and crashes and any sizes of the backlog, the view and the channels.    *)
(***************************************************************************)
EXTENDS LogViewer, SequenceTheorems, FiniteSetTheorems, TLAPS

Entries == Lines \cup {ErrorLine}

CallRecords == [shard : Shards, at : {"none", "fetch", "append", "over"},
                got : Seq(Entries)]

ViewTypeOK ==
  /\ up \in [Shards -> BOOLEAN]
  /\ logged \in [Shards -> 0..MaxLines]
  /\ base \in [Shards -> 0..MaxLines]
  /\ \A s \in Shards : base[s] <= logged[s]
  /\ crashes \in 0..MaxCrashes
  /\ calls \in Calls
  /\ call \in [Calls -> CallRecords]
  /\ current \in Shards
  /\ logStream \in 0..calls
  /\ stream \in [Calls -> StreamStates]
  /\ chan \in [Calls -> Seq(Lines)]
  /\ output \in Seq(Entries)
  /\ overlapped \subseteq 1..calls
  /\ missed \subseteq Lines

CapsInv == /\ Len(output) <= MaxOutput
           /\ \A c \in Calls : Len(chan[c]) <= SubCap

\* The stages of a call.  The call for the shard selected is the last one.
StageInv ==
  /\ current = call[calls].shard
  /\ logStream # 0 => call[logStream].at = "over"
  /\ \A c \in Calls :
       /\ c > calls <=> call[c].at = "none"
       /\ call[c].at # "append" => call[c].got = << >>
       /\ call[c].at # "over" => stream[c] = "none"
       /\ chan[c] # << >> => Subscribed(c)

\* A call carries lines of its own shard only.
OwnInv ==
  \A c \in Calls :
    /\ \A i \in 1..Len(call[c].got) :
         call[c].got[i] = ErrorLine \/ call[c].got[i][1] = call[c].shard
    /\ \A i \in 1..Len(chan[c]) : chan[c][i][1] = call[c].shard

\* A call that met no other at its await is the last one while it is in
\* flight or its stream is open, nobody else is in flight then, and its
\* stream is the one in logStream.
AloneInv ==
  /\ \A c \in Calls \ overlapped : InFlight(c) \/ Live(c) => c = calls
  /\ calls \notin overlapped => \A c \in Calls : InFlight(c) => c = calls
  /\ \A c \in Calls \ overlapped : Live(c) => c = logStream

-----------------------------------------------------------------------------
\* The numbers of the lines of s in a sequence of entries.
Numbers(x, s) == {k \in 1..MaxLines : \E i \in 1..Len(x) : x[i] = <<s, k>>}

Ordered(x, s) ==
  \A i, j \in 1..Len(x) : \A k, l \in 1..MaxLines :
    i < j /\ x[i] = <<s, k>> /\ x[j] = <<s, l>> => k < l

\* x is shown and y still to come: the lines of s in them are in order, and
\* what is between the first of them and line n is among them or in gaps.
Flow(x, y, s, n, gaps) ==
  LET there == Numbers(x, s) \cup Numbers(y, s) IN
  /\ Ordered(x, s) /\ Ordered(y, s)
  /\ \A k \in Numbers(x, s), l \in Numbers(y, s) : k < l
  /\ \A k \in there : /\ k <= n
                      /\ \A m \in k + 1..n : m \in there \/ <<s, m>> \in gaps

\* What the last call has still to show.
Coming == IF call[calls].at = "over" THEN chan[calls] ELSE call[calls].got

\* The lines of the shard selected flow into the view up to the last logged.
FlowInv ==
  ~Overlapped(current) =>
    /\ call[calls].at = "fetch" => Numbers(output, current) = {}
    /\ Flow(output, Coming, current, logged[current], missed)

ViewInv ==
  ViewTypeOK /\ CapsInv /\ StageInv /\ OwnInv /\ AloneInv /\ ShowsSelectedShard
             /\ FlowInv

-----------------------------------------------------------------------------
(* Sequences of entries.                                                   *)

LEMMA Bounds ==
  /\ MaxCalls \in Nat \ {0} /\ MaxLines \in Nat /\ MaxOutput \in Nat \ {0}
  /\ Backlog \in Nat \ {0} /\ SubCap \in Nat \ {0} /\ MaxCrashes \in Nat
  /\ First \in Shards /\ ErrorLine \notin Lines
  /\ \A s \in Shards, k \in 1..MaxLines : <<s, k>> \in Lines /\ <<s, k>> # ErrorLine
<1>1. Lines \subseteq Shards \X Nat
  BY ViewerAssumption DEF Lines
<1>2. QED
  BY <1>1, ViewerAssumption DEF Lines

\* The view shows an end of what is put into it.
LEMMA ShownFacts ==
  ASSUME NEW x \in Seq(Entries)
  PROVE  /\ Shown(x) \in Seq(Entries) /\ Len(Shown(x)) <= MaxOutput
         /\ \E d \in Nat : /\ Len(x) = Len(Shown(x)) + d
                           /\ \A i \in 1..Len(Shown(x)) : Shown(x)[i] = x[i + d]
<1> DEFINE n == Len(x)
           a == n - MaxOutput + 1
<1>1. n \in Nat /\ \A i \in 1..n : x[i] \in Entries
  BY ElementOfSeq
<1>2. CASE n <= MaxOutput
  <2>1. Shown(x) = x
    BY <1>2 DEF Shown
  <2>2. n = n + 0 /\ \A i \in 1..n : x[i] = x[i + 0]
    BY <1>1
  <2>3. QED
    BY <1>2, <2>1, <2>2
<1>3. CASE n > MaxOutput
  <2>1. Shown(x) = SubSeq(x, a, n)
    BY <1>1, <1>3, Bounds DEF Shown
  <2>2. /\ a \in Int /\ n \in Int /\ a >= 1 /\ a <= n /\ n - a + 1 = MaxOutput
        /\ \A i \in Int : a + i - 1 = i + (n - MaxOutput)
        /\ n - MaxOutput \in Nat /\ n = MaxOutput + (n - MaxOutput)
    BY <1>1, <1>3, Bounds
  <2> HIDE DEF a, n
  <2>3. \A i \in a..n : x[i] \in Entries
    BY <1>1, <2>2
  <2>4. /\ SubSeq(x, a, n) \in Seq(Entries)
        /\ Len(SubSeq(x, a, n)) = IF a <= n THEN n - a + 1 ELSE 0
        /\ \A i \in 1..n - a + 1 : SubSeq(x, a, n)[i] = x[a + i - 1]
    <3>1. a \in Int /\ n \in Int
      BY <2>2
    <3>2. QED
      BY <2>3, <3>1, SubSeqProperties
  <2>5. /\ Shown(x) \in Seq(Entries) /\ Len(Shown(x)) = MaxOutput
        /\ \A i \in 1..MaxOutput : Shown(x)[i] = x[i + (n - MaxOutput)]
    BY <2>1, <2>2, <2>4, Bounds
  <2>6. /\ Len(Shown(x)) <= MaxOutput /\ n - MaxOutput \in Nat
        /\ n = Len(Shown(x)) + (n - MaxOutput)
        /\ \A i \in 1..Len(Shown(x)) : Shown(x)[i] = x[i + (n - MaxOutput)]
    BY <2>2, <2>5, Bounds
  <2> DEFINE e == n - MaxOutput
  <2> HIDE DEF e
  <2>7. /\ e \in Nat /\ n = Len(Shown(x)) + e
        /\ \A i \in 1..Len(Shown(x)) : Shown(x)[i] = x[i + e]
    BY <2>6 DEF e
  <2>8. QED
    BY <2>5, <2>6, <2>7 DEF n
<1>4. QED
  BY <1>1, <1>2, <1>3, Bounds

LEMMA OrderedConcat ==
  ASSUME NEW x \in Seq(Entries), NEW y \in Seq(Entries), NEW s
  PROVE  /\ Numbers(x \o y, s) = Numbers(x, s) \cup Numbers(y, s)
         /\ Ordered(x, s) /\ Ordered(y, s)
            /\ (\A k \in Numbers(x, s), l \in Numbers(y, s) : k < l)
            => Ordered(x \o y, s)
<1> DEFINE z == x \o y
<1>1. /\ z \in Seq(Entries) /\ Len(z) = Len(x) + Len(y)
      /\ Len(x) \in Nat /\ Len(y) \in Nat
      /\ \A i \in 1..Len(x) + Len(y) :
           z[i] = IF i <= Len(x) THEN x[i] ELSE y[i - Len(x)]
  BY ConcatProperties
<1> HIDE DEF z
<1>2. \A i \in 1..Len(y) : i + Len(x) \in 1..Len(z) /\ z[i + Len(x)] = y[i]
  BY <1>1, SMTT(30)
<1>3. \A i \in 1..Len(x) : i \in 1..Len(z) /\ z[i] = x[i]
  BY <1>1
<1>4. \A i \in 1..Len(z) : \/ i \in 1..Len(x) /\ z[i] = x[i]
                           \/ i - Len(x) \in 1..Len(y) /\ z[i] = y[i - Len(x)]
  BY <1>1
<1>5. Numbers(z, s) = Numbers(x, s) \cup Numbers(y, s)
  BY <1>2, <1>3, <1>4, ZenonT(30) DEF Numbers
<1>6. ASSUME Ordered(x, s), Ordered(y, s),
             \A k \in Numbers(x, s), l \in Numbers(y, s) : k < l
      PROVE  Ordered(z, s)
  <2> SUFFICES ASSUME NEW i \in 1..Len(z), NEW j \in 1..Len(z), i < j,
                      NEW k \in 1..MaxLines, NEW l \in 1..MaxLines,
                      z[i] = <<s, k>>, z[j] = <<s, l>>
               PROVE  k < l
    BY DEF Ordered
  <2>1. CASE j <= Len(x)
    <3>1. /\ i \in 1..Len(x) /\ j \in 1..Len(x)
          /\ x[i] = <<s, k>> /\ x[j] = <<s, l>>
      BY <1>1, <2>1
    <3>2. QED
      BY <1>6, <3>1 DEF Ordered
  <2>2. CASE i > Len(x)
    <3>1. /\ i - Len(x) \in 1..Len(y) /\ j - Len(x) \in 1..Len(y)
          /\ i - Len(x) < j - Len(x)
          /\ y[i - Len(x)] = <<s, k>> /\ y[j - Len(x)] = <<s, l>>
      BY <1>1, <2>2
    <3>2. QED
      BY <1>6, <3>1 DEF Ordered
  <2>3. CASE i <= Len(x) /\ j > Len(x)
    <3>1. i \in 1..Len(x) /\ x[i] = <<s, k>>
      BY <1>1, <2>3
    <3>2. j - Len(x) \in 1..Len(y) /\ y[j - Len(x)] = <<s, l>>
      BY <1>1, <2>3
    <3>3. k \in Numbers(x, s) /\ l \in Numbers(y, s)
      BY <3>1, <3>2 DEF Numbers
    <3>4. QED
      BY <1>6, <3>3
  <2>4. QED
    BY <1>1, <2>1, <2>2, <2>3
<1>7. QED
  BY <1>5, <1>6 DEF z

\* What the cap takes away from an ordered sequence are the lowest numbers.
LEMMA OrderedShown ==
  ASSUME NEW x \in Seq(Entries), NEW s, Ordered(x, s)
  PROVE  /\ Ordered(Shown(x), s)
         /\ Numbers(Shown(x), s) \subseteq Numbers(x, s)
         /\ \A k \in Numbers(Shown(x), s), m \in Numbers(x, s) :
              k <= m => m \in Numbers(Shown(x), s)
<1> DEFINE y == Shown(x)
<1>1. PICK d \in Nat : /\ Len(x) = Len(y) + d
                       /\ \A i \in 1..Len(y) : y[i] = x[i + d]
  BY ShownFacts
<1>2. Len(y) \in Nat /\ Len(x) \in Nat
  BY ShownFacts
<1> HIDE DEF y
<1>3. \A i \in 1..Len(y) : i + d \in 1..Len(x) /\ y[i] = x[i + d]
  BY <1>1, <1>2
<1>4. Ordered(y, s)
  <2> SUFFICES ASSUME NEW i \in 1..Len(y), NEW j \in 1..Len(y), i < j,
                      NEW k \in 1..MaxLines, NEW l \in 1..MaxLines,
                      y[i] = <<s, k>>, y[j] = <<s, l>>
               PROVE  k < l
    BY DEF Ordered
  <2>1. /\ i + d \in 1..Len(x) /\ j + d \in 1..Len(x) /\ i + d < j + d
        /\ x[i + d] = <<s, k>> /\ x[j + d] = <<s, l>>
    BY <1>2, <1>3
  <2>2. QED
    BY <2>1 DEF Ordered
<1>5. Numbers(y, s) \subseteq Numbers(x, s)
  BY <1>3 DEF Numbers
<1>6. ASSUME NEW k \in Numbers(y, s), NEW m \in Numbers(x, s), k <= m
      PROVE  m \in Numbers(y, s)
  <2>1. PICK i \in 1..Len(y) : y[i] = <<s, k>>
    BY DEF Numbers
  <2>2. PICK j \in 1..Len(x) : x[j] = <<s, m>>
    BY DEF Numbers
  <2>3. k \in 1..MaxLines /\ m \in 1..MaxLines
    BY DEF Numbers
  <2>4. j > d
    <3> SUFFICES ASSUME j <= d PROVE FALSE
      BY <1>2
    <3>1. i + d \in 1..Len(x) /\ x[i + d] = <<s, k>> /\ j < i + d
      BY <1>2, <1>3, <2>1
    <3>2. m < k
      BY <2>2, <2>3, <3>1 DEF Ordered
    <3>3. QED
      BY <1>6, <2>3, <3>2, Bounds
  <2>5. j - d \in 1..Len(y) /\ y[j - d] = x[j]
    <3>1. j - d \in 1..Len(y) /\ (j - d) + d = j
      BY <1>1, <1>2, <2>4
    <3>2. QED
      BY <1>1, <3>1
  <2>6. QED
    BY <2>2, <2>3, <2>5 DEF Numbers
<1>7. QED
  BY <1>4, <1>5, <1>6 DEF y

LEMMA OrderedParts ==
  ASSUME NEW x \in Seq(Entries), NEW y \in Seq(Entries), NEW s, Ordered(x \o y, s)
  PROVE  /\ Ordered(x, s) /\ Ordered(y, s)
         /\ \A k \in Numbers(x, s), l \in Numbers(y, s) : k < l
<1> DEFINE z == x \o y
<1>1. /\ z \in Seq(Entries) /\ Len(z) = Len(x) + Len(y)
      /\ Len(x) \in Nat /\ Len(y) \in Nat
      /\ \A i \in 1..Len(x) + Len(y) :
           z[i] = IF i <= Len(x) THEN x[i] ELSE y[i - Len(x)]
  BY ConcatProperties
<1>2. Ordered(z, s)
  OBVIOUS
<1> HIDE DEF z
<1>3. \A i \in 1..Len(y) : i + Len(x) \in 1..Len(z) /\ z[i + Len(x)] = y[i]
  BY <1>1, SMTT(30)
<1>4. \A i \in 1..Len(x) : i \in 1..Len(z) /\ z[i] = x[i]
  BY <1>1
<1>5. Ordered(x, s)
  BY <1>2, <1>4 DEF Ordered
<1>6. Ordered(y, s)
  <2> SUFFICES ASSUME NEW i \in 1..Len(y), NEW j \in 1..Len(y), i < j,
                      NEW k \in 1..MaxLines, NEW l \in 1..MaxLines,
                      y[i] = <<s, k>>, y[j] = <<s, l>>
               PROVE  k < l
    BY DEF Ordered
  <2>1. /\ i + Len(x) \in 1..Len(z) /\ j + Len(x) \in 1..Len(z)
        /\ i + Len(x) < j + Len(x)
        /\ z[i + Len(x)] = <<s, k>> /\ z[j + Len(x)] = <<s, l>>
    BY <1>1, <1>3
  <2>2. QED
    BY <1>2, <2>1 DEF Ordered
<1>7. ASSUME NEW k \in Numbers(x, s), NEW l \in Numbers(y, s) PROVE k < l
  <2>1. PICK i \in 1..Len(x) : x[i] = <<s, k>>
    BY DEF Numbers
  <2>2. PICK j \in 1..Len(y) : y[j] = <<s, l>>
    BY DEF Numbers
  <2>3. k \in 1..MaxLines /\ l \in 1..MaxLines
    BY DEF Numbers
  <2>4. /\ i \in 1..Len(z) /\ j + Len(x) \in 1..Len(z) /\ i < j + Len(x)
        /\ z[i] = <<s, k>> /\ z[j + Len(x)] = <<s, l>>
    BY <1>1, <1>3, <1>4, <2>1, <2>2
  <2>5. QED
    BY <1>2, <2>3, <2>4 DEF Ordered
<1>8. QED
  BY <1>5, <1>6, <1>7

\* What comes next is put into the view.
LEMMA FlowMoves ==
  ASSUME NEW x \in Seq(Entries), NEW h \in Seq(Entries), NEW t \in Seq(Entries),
         NEW s, NEW n \in Nat, NEW gaps, Flow(x, h \o t, s, n, gaps)
  PROVE  Flow(Shown(x \o h), t, s, n, gaps)
<1> DEFINE z == x \o h
           v == Shown(z)
<1>1. Ordered(x, s) /\ Ordered(h \o t, s)
  BY DEF Flow
<1>2. /\ Ordered(h, s) /\ Ordered(t, s)
      /\ \A k \in Numbers(h, s), l \in Numbers(t, s) : k < l
  BY <1>1, OrderedParts
<1>3. Numbers(h \o t, s) = Numbers(h, s) \cup Numbers(t, s)
  BY OrderedConcat
<1>4. \A k \in Numbers(x, s), l \in Numbers(h, s) \cup Numbers(t, s) : k < l
  BY <1>3 DEF Flow
<1>5. /\ Ordered(z, s) /\ z \in Seq(Entries)
      /\ Numbers(z, s) = Numbers(x, s) \cup Numbers(h, s)
  BY <1>1, <1>2, <1>4, OrderedConcat, ConcatProperties
<1> HIDE DEF z
<1>6. /\ Ordered(v, s) /\ Numbers(v, s) \subseteq Numbers(z, s)
      /\ \A k \in Numbers(v, s), m \in Numbers(z, s) :
           k <= m => m \in Numbers(v, s)
  BY <1>5, OrderedShown
<1> HIDE DEF v
<1>7. \A k \in Numbers(v, s), l \in Numbers(t, s) : k < l
  BY <1>2, <1>4, <1>5, <1>6
<1>8. ASSUME NEW k \in Numbers(v, s) \cup Numbers(t, s)
      PROVE  /\ k <= n
             /\ \A m \in k + 1..n : \/ m \in Numbers(v, s) \cup Numbers(t, s)
                                   \/ <<s, m>> \in gaps
  <2>1. k \in Numbers(x, s) \cup Numbers(h \o t, s)
    BY <1>3, <1>5, <1>6
  <2>2. /\ k <= n
        /\ \A m \in k + 1..n : \/ m \in Numbers(x, s) \cup Numbers(h \o t, s)
                              \/ <<s, m>> \in gaps
    BY <2>1 DEF Flow
  <2>3. ASSUME NEW m \in k + 1..n, m \in Numbers(z, s)
        PROVE  m \in Numbers(v, s) \cup Numbers(t, s)
    <3>1. m \in 1..MaxLines /\ k \in 1..MaxLines
      BY <2>1, <2>3 DEF Numbers
    <3>2. k <= m /\ ~(m < k)
      BY <2>3, <3>1, Bounds
    <3>3. CASE k \in Numbers(v, s)
      BY <1>6, <2>3, <3>2, <3>3
    <3>4. CASE k \in Numbers(t, s)
      BY <1>2, <1>4, <1>5, <2>3, <3>2, <3>4
    <3>5. QED
      BY <3>3, <3>4
  <2>4. QED
    BY <1>3, <1>5, <2>2, <2>3
<1>9. QED
  BY <1>2, <1>6, <1>7, <1>8 DEF Flow, v, z

\* Lines of other shards do not matter.
LEMMA FlowIgnores ==
  ASSUME NEW x \in Seq(Entries), NEW h \in Seq(Entries), NEW y \in Seq(Entries),
         NEW s, NEW n \in Nat, NEW gaps, Flow(x, y, s, n, gaps),
         Numbers(h, s) = {}
  PROVE  /\ Flow(Shown(x \o h), y, s, n, gaps)
         /\ Numbers(Shown(x \o h), s) \subseteq Numbers(x, s)
<1>1. Ordered(h, s)
  BY DEF Ordered, Numbers
<1>2. Ordered(x, s) /\ Ordered(y, s)
  BY DEF Flow
<1>3. /\ Ordered(h \o y, s) /\ Numbers(h \o y, s) = Numbers(y, s)
      /\ Ordered(x \o h, s) /\ Numbers(x \o h, s) = Numbers(x, s)
      /\ x \o h \in Seq(Entries)
  <2>1. Ordered(h \o y, s)
    BY <1>1, <1>2, OrderedConcat
  <2>2. Ordered(x \o h, s)
    BY <1>1, <1>2, OrderedConcat
  <2>3. \A a, b \in Seq(Entries) :
          Numbers(a \o b, s) = Numbers(a, s) \cup Numbers(b, s)
    BY OrderedConcat
  <2>4. Numbers(h \o y, s) = Numbers(h, s) \cup Numbers(y, s)
    BY ONLY <2>3
  <2>5. Numbers(x \o h, s) = Numbers(x, s) \cup Numbers(h, s)
    BY ONLY <2>3
  <2>6. QED
    BY <2>1, <2>2, <2>4, <2>5, ConcatProperties
<1>4. Flow(x, h \o y, s, n, gaps)
  BY <1>3 DEF Flow
<1>5. QED
  BY <1>3, <1>4, FlowMoves, OrderedShown

-----------------------------------------------------------------------------
(* Types, capacities and the stages of a call.                             *)

\* The lines that a supervisor has kept.
LEMMA LastLinesFacts ==
  ASSUME ViewTypeOK, NEW s \in Shards
  PROVE  \E from \in 0..logged[s] :
           /\ LastLines(s) \in Seq(Lines)
           /\ Len(LastLines(s)) = logged[s] - from
           /\ \A i \in 1..logged[s] - from :
                LastLines(s)[i] = <<s, from + i>> /\ from + i \in 1..MaxLines
<1> DEFINE from == IF logged[s] - base[s] > Backlog THEN logged[s] - Backlog
                                                    ELSE base[s]
<1>1. /\ logged[s] \in 0..MaxLines /\ base[s] \in 0..MaxLines
      /\ base[s] <= logged[s]
  BY DEF ViewTypeOK
<1>2. from \in 0..logged[s]
  BY <1>1, Bounds
<1>3. LastLines(s) = [i \in 1..(logged[s] - from) |-> <<s, from + i>>]
  BY DEF LastLines
<1> HIDE DEF from
<1>4. \A i \in 1..(logged[s] - from) : from + i \in 1..MaxLines
  BY <1>1, <1>2, Bounds
<1>5. LastLines(s) \in [1..(logged[s] - from) -> Lines]
  BY <1>3, <1>4, Bounds
<1>6. logged[s] - from \in Nat
  BY <1>1, <1>2, Bounds
<1>7. LastLines(s) \in Seq(Lines) /\ Len(LastLines(s)) = logged[s] - from
  BY <1>5, <1>6
<1>8. QED
  BY <1>2, <1>3, <1>4, <1>7

\* The guard of Log keeps the lines of each shard within the bound.
LEMMA LoggedBound ==
  ASSUME ViewTypeOK, NEW s \in Shards, Cardinality(Logged) < MaxLines
  PROVE  logged[s] < MaxLines
<1> DEFINE k == logged[s]
           f == [i \in 1..k |-> <<s, i>>]
<1>1. k \in 0..MaxLines /\ MaxLines \in Nat
  BY Bounds DEF ViewTypeOK
<1>2. IsFiniteSet(Lines)
  <2>1. IsFiniteSet(1..MaxLines) /\ IsFiniteSet(Shards)
    BY <1>1, ViewerAssumption, FS_Interval
  <2>2. QED
    BY <2>1, FS_Product DEF Lines
<1>3. IsFiniteSet(Logged)
  BY <1>2, FS_Subset DEF Logged
<1>4. f \in Injection(1..k, Logged)
  <2>1. \A i \in 1..k : <<s, i>> \in Logged
    BY <1>1 DEF Logged, Lines
  <2>2. QED
    BY <2>1 DEF Injection, IsInjective
<1>5. Cardinality(1..k) = k
  BY <1>1, FS_Interval
<1>6. Cardinality(1..k) <= Cardinality(Logged) /\ Cardinality(Logged) \in Nat
  BY <1>3, <1>4, FS_Injection, FS_CardinalityType
<1>7. QED
  BY <1>1, <1>5, <1>6

\* What the browser puts into the view.
LEMMA BrowserShows ==
  ASSUME ViewTypeOK, NEW c \in Calls
  PROVE  /\ Continue(c) =>
              /\ call[c].got \in Seq(Entries)
              /\ output' = Shown(output \o call[c].got)
         /\ Deliver(c) =>
              /\ <<Head(chan[c])>> \in Seq(Entries)
              /\ Head(chan[c]) \in Lines /\ Head(chan[c]) = chan[c][1]
              /\ Len(chan[c]) \in Nat \ {0} /\ chan[c] \in Seq(Lines)
              /\ output' = Shown(output \o <<Head(chan[c])>>)
<1>1. ASSUME Continue(c)
      PROVE  /\ call[c].got \in Seq(Entries)
             /\ output' = Shown(output \o call[c].got)
  BY <1>1 DEF Continue, ViewTypeOK, CallRecords
<1>2. ASSUME Deliver(c)
      PROVE  /\ <<Head(chan[c])>> \in Seq(Entries)
             /\ Head(chan[c]) \in Lines /\ Head(chan[c]) = chan[c][1]
             /\ Len(chan[c]) \in Nat \ {0} /\ chan[c] \in Seq(Lines)
             /\ output' = Shown(output \o <<Head(chan[c])>>)
  <2> DEFINE h == Head(chan[c])
  <2>1. /\ chan[c] \in Seq(Lines) /\ chan[c] # << >>
        /\ output' = Shown(Append(output, h)) /\ output \in Seq(Entries)
    BY <1>2 DEF Deliver, ViewTypeOK
  <2>2. h \in Lines /\ h = chan[c][1] /\ Len(chan[c]) \in Nat \ {0}
    BY <2>1
  <2> HIDE DEF h
  <2>3. h \in Entries /\ <<h>> \in Seq(Entries)
    BY <2>2 DEF Entries
  <2>4. Append(output, h) = output \o <<h>>
    BY <2>1, <2>3, AppendIsConcat
  <2>5. QED
    BY <2>1, <2>2, <2>3, <2>4 DEF h
<1>3. QED
  BY <1>1, <1>2

LEMMA ViewTypeStep == ViewTypeOK /\ StageInv /\ [Next]_vars => ViewTypeOK'
<1> SUFFICES ASSUME ViewTypeOK, StageInv, [Next]_vars PROVE ViewTypeOK'
  OBVIOUS
<1> USE DEF ViewTypeOK, shardVars, viewVars
<1>1. ASSUME NEW s \in Shards, Switch(s) PROVE ViewTypeOK'
  <2>1. calls' = calls + 1 /\ calls' \in Calls /\ calls \in Nat
    BY <1>1, Bounds DEF Switch, Calls
  <2>2. /\ call' \in [Calls -> CallRecords]
        /\ << >> \in Seq(Entries) /\ << >> \in Seq(Lines)
    BY <1>1, <2>1 DEF Switch, CallRecords
  <2>3. stream' \in [Calls -> StreamStates] /\ chan' \in [Calls -> Seq(Lines)]
        /\ logStream' = 0
    BY <1>1, <2>2 DEF Switch, CloseStream, StreamStates
  <2>4. overlapped' \subseteq 1..calls'
    <3>1. overlapped' = Overlap
      BY <1>1 DEF Switch
    <3>2. 1..calls \subseteq 1..calls + 1 /\ calls + 1 \in 1..calls + 1
      BY <2>1, Bounds
    <3>3. Overlap \subseteq 1..calls + 1
      BY <3>2 DEF Overlap
    <3>4. QED
      BY <2>1, <3>1, <3>3
  <2>5. QED
    BY <1>1, <2>1, <2>2, <2>3, <2>4, SMTT(30) DEF Switch
<1>2. ASSUME NEW c \in Calls, Answer(c) PROVE ViewTypeOK'
  <2> DEFINE s == call[c].shard
             got == IF up[s] THEN LastLines(s) ELSE <<ErrorLine>>
  <2>1. got \in Seq(Entries)
    <3>1. s \in Shards
      BY DEF CallRecords
    <3>2. LastLines(s) \in Seq(Lines)
      BY <3>1, LastLinesFacts
    <3>3. LastLines(s) \in Seq(Entries) /\ <<ErrorLine>> \in Seq(Entries)
      BY <3>2 DEF Entries
    <3>4. QED
      BY <3>3
  <2>2. call' = [call EXCEPT ![c].at = "append", ![c].got = got]
    BY <1>2 DEF Answer
  <2> HIDE DEF got
  <2>3. call' \in [Calls -> CallRecords]
    BY <2>1, <2>2 DEF CallRecords
  <2>4. QED
    BY <1>2, <2>3 DEF Answer
<1>3. ASSUME NEW c \in Calls, Continue(c) PROVE ViewTypeOK'
  <2>1. call' \in [Calls -> CallRecords]
    <3>1. << >> \in Seq(Entries)
      OBVIOUS
    <3>2. QED
      BY <1>3, <3>1 DEF Continue, CallRecords
  <2>2. output' \in Seq(Entries)
    <3>1. /\ call[c].got \in Seq(Entries) /\ output \in Seq(Entries)
          /\ output' = Shown(output \o call[c].got)
      BY <1>3, BrowserShows DEF ViewTypeOK
    <3>2. output \o call[c].got \in Seq(Entries)
      BY <3>1, ConcatProperties
    <3>3. QED
      BY <3>1, <3>2, ShownFacts
  <2>3. c \in 0..calls
    BY <1>3, Bounds, SMTT(30) DEF Continue, StageInv, Calls
  <2>4. QED
    BY <1>3, <2>1, <2>2, <2>3 DEF Continue, StreamStates
<1>4. ASSUME NEW c \in Calls, Connect(c) PROVE ViewTypeOK'
  BY <1>4 DEF Connect, StreamStates
<1>5. ASSUME NEW c \in Calls, Deliver(c) PROVE ViewTypeOK'
  <2>1. output' \in Seq(Entries)
    BY <1>5, BrowserShows, ShownFacts, ConcatProperties
  <2>2. chan' \in [Calls -> Seq(Lines)]
    BY <1>5 DEF Deliver
  <2>3. QED
    BY <1>5, <2>1, <2>2 DEF Deliver, StreamStates
<1>6. ASSUME NEW s \in Shards, Log(s) PROVE ViewTypeOK'
  <2> DEFINE line == <<s, logged[s] + 1>>
  <2>1. logged[s] + 1 \in 1..MaxLines
    BY <1>6, LoggedBound, Bounds, SMTT(30) DEF Log
  <2>2. line \in Lines
    BY <2>1 DEF Lines
  <2>3. chan' \in [Calls -> Seq(Lines)]
    <3>1. \A c \in Calls : Append(chan[c], line) \in Seq(Lines)
      BY <2>2
    <3>2. \A c \in Calls : chan'[c] \in Seq(Lines)
      BY <1>6, <3>1 DEF Log
    <3>3. DOMAIN chan' = Calls /\ chan' = [c \in Calls |-> chan'[c]]
      BY <1>6 DEF Log
    <3>4. QED
      BY <3>2, <3>3
  <2>6. missed' \subseteq Lines
    BY <1>6, <2>2 DEF Log
  <2>4. /\ logged' \in [Shards -> 0..MaxLines]
        /\ \A t \in Shards : base[t] <= logged'[t]
    BY <1>6, <2>1, Bounds DEF Log
  <2>5. QED
    BY <1>6, <2>3, <2>4, <2>6 DEF Log
<1>7. ASSUME NEW s \in Shards, Crash(s) PROVE ViewTypeOK'
  <2>1. crashes' \in 0..MaxCrashes
    BY <1>7, Bounds DEF Crash
  <2>2. /\ stream' \in [Calls -> StreamStates]
        /\ chan' \in [Calls -> Seq(Lines)]
    BY <1>7 DEF Crash, StreamStates
  <2>3. \A c \in 1..calls : ToSet(chan[c]) \subseteq Lines
    <3>1. \A c \in 1..calls : chan[c] \in Seq(Lines)
      BY Bounds DEF Calls
    <3>2. QED
      BY <3>1 DEF ToSet
  <2>4. missed' \subseteq Lines
    BY <1>7, <2>3 DEF Crash
  <2>5. QED
    BY <1>7, <2>1, <2>2, <2>4 DEF Crash
<1>8. ASSUME NEW s \in Shards, Restart(s) PROVE ViewTypeOK'
  BY <1>8, Bounds DEF Restart
<1>9. CASE UNCHANGED vars
  BY <1>9 DEF vars
<1>10. QED
  BY <1>1, <1>2, <1>3, <1>4, <1>5, <1>6, <1>7, <1>8, <1>9 DEF Next, Browser

LEMMA CapsStep == ViewTypeOK /\ CapsInv /\ [Next]_vars => CapsInv'
<1> SUFFICES ASSUME ViewTypeOK, CapsInv, [Next]_vars PROVE CapsInv'
  OBVIOUS
<1> USE DEF CapsInv, shardVars, viewVars
<1>1. \A c \in Calls : chan[c] \in Seq(Lines) /\ Len(chan[c]) \in Nat
  BY DEF ViewTypeOK
<1>2. Len(output') <= MaxOutput
  <2>1. ASSUME NEW c \in Calls, Continue(c) \/ Deliver(c) PROVE Len(output') <= MaxOutput
    <3>1. output \in Seq(Entries)
      BY DEF ViewTypeOK
    <3>2. \A x \in Seq(Entries) : output \o x \in Seq(Entries)
      BY <3>1, ConcatProperties
    <3>3. QED
      BY <2>1, <3>2, BrowserShows, ShownFacts
  <2>2. ASSUME NEW s \in Shards, Switch(s) PROVE Len(output') <= MaxOutput
    BY <2>2, Bounds DEF Switch
  <2>3. CASE UNCHANGED output
    BY <2>3
  <2>4. QED
    BY <2>1, <2>2, <2>3
       DEF Next, Browser, Answer, Connect, Log, Crash, Restart, vars
<1>3. \A c \in Calls : Len(chan'[c]) <= SubCap
  <2>1. ASSUME NEW c \in Calls, Deliver(c), NEW d \in Calls
        PROVE  Len(chan'[d]) <= SubCap
    <3>1. /\ chan[c] # << >>
          /\ chan' = [chan EXCEPT ![c] = Tail(@)]
      BY <2>1 DEF Deliver
    <3>2. Len(Tail(chan[c])) = Len(chan[c]) - 1
      BY <1>1, <3>1, HeadTailProperties
    <3>3. QED
      BY <1>1, <3>1, <3>2, Bounds DEF ViewTypeOK
  <2>2. ASSUME NEW s \in Shards, Log(s), NEW d \in Calls
        PROVE  Len(chan'[d]) <= SubCap
    <3> DEFINE line == <<s, logged[s] + 1>>
               mine == {c \in PastBacklog(s) : Takes(c)}
    <3>1. chan'[d] = IF d \in mine THEN Append(chan[d], line) ELSE chan[d]
      BY <2>2 DEF Log
    <3>2. d \in mine => Len(chan[d]) < SubCap
      BY DEF Takes
    <3>3. Len(Append(chan[d], line)) = Len(chan[d]) + 1
      <4>1. chan[d] \in Seq(Lines \cup {line})
        BY <1>1
      <4>2. QED
        BY <4>1, AppendProperties
    <3> HIDE DEF line, mine
    <3>4. QED
      BY <1>1, <3>1, <3>2, <3>3, Bounds
  <2>3. ASSUME NEW s \in Shards, Switch(s) \/ Crash(s), NEW d \in Calls
        PROVE  Len(chan'[d]) <= SubCap
    BY <2>3, Bounds DEF Switch, CloseStream, Crash
  <2>4. CASE UNCHANGED chan
    BY <2>4
  <2>5. QED
    BY <2>1, <2>2, <2>3, <2>4
       DEF Next, Browser, Answer, Continue, Connect, Restart, vars
<1>4. QED
  BY <1>2, <1>3

\* The call that Switch makes is one that was not made before.
LEMMA SwitchFacts ==
  ASSUME ViewTypeOK, StageInv, NEW s \in Shards, Switch(s)
  PROVE  LET n == calls + 1 IN
         /\ calls' = n /\ n \in Calls /\ calls \in Nat /\ n # logStream
         /\ call'[n] = [shard |-> s, at |-> "fetch", got |-> << >>]
         /\ \A c \in Calls : c # n => call'[c] = call[c]
         /\ call[n].at = "none" /\ stream[n] = "none" /\ chan[n] = << >>
         /\ current' = s /\ logStream' = 0
         /\ \A c \in Calls : IF c = logStream
                               THEN stream'[c] = "closed" /\ chan'[c] = << >>
                               ELSE stream'[c] = stream[c] /\ chan'[c] = chan[c]
<1> DEFINE n == calls + 1
<1>1. calls' = n /\ n \in Calls /\ calls \in Nat /\ n # logStream /\ n > calls
  BY Bounds DEF Switch, ViewTypeOK, Calls
<1>2. call' = [call EXCEPT ![n] = [shard |-> s, at |-> "fetch",
                                   got |-> << >>]]
  BY <1>1 DEF Switch
<1> HIDE DEF n
<1>3. call[n].at = "none"
  BY <1>1 DEF StageInv
<1>4. stream[n] = "none"
  BY <1>1, <1>3 DEF StageInv
<1>5. chan[n] = << >>
  BY <1>1, <1>4 DEF StageInv, Subscribed
<1>6. QED
  BY <1>1, <1>2, <1>3, <1>4, <1>5 DEF n, Switch, CloseStream, ViewTypeOK

\* What the other steps of a call leave behind.
LEMMA AnswerFacts ==
  ASSUME ViewTypeOK, NEW c \in Calls, Answer(c)
  PROVE  /\ call[c].at = "fetch" /\ call'[c].at = "append"
         /\ call'[c].shard = call[c].shard
         /\ call'[c].got = IF up[call[c].shard] THEN LastLines(call[c].shard)
                                               ELSE <<ErrorLine>>
         /\ \A d \in Calls : d # c => call'[d] = call[d]
         /\ UNCHANGED <<calls, current, logStream, output, overlapped, stream,
                        chan, missed, logged>>
<1> DEFINE got == IF up[call[c].shard] THEN LastLines(call[c].shard)
                                       ELSE <<ErrorLine>>
<1>1. call' = [call EXCEPT ![c].at = "append", ![c].got = got]
  BY DEF Answer
<1>2. call \in [Calls -> CallRecords]
  BY DEF ViewTypeOK
<1> HIDE DEF got
<1>3. /\ call'[c].at = "append" /\ call'[c].shard = call[c].shard
      /\ call'[c].got = got
      /\ \A d \in Calls : d # c => call'[d] = call[d]
  BY <1>1, <1>2 DEF CallRecords
<1>4. QED
  BY <1>3 DEF Answer, got, shardVars

LEMMA ContinueFacts ==
  ASSUME ViewTypeOK, NEW c \in Calls, Continue(c)
  PROVE  /\ call[c].at = "append" /\ call'[c].at = "over"
         /\ call'[c].shard = call[c].shard /\ call'[c].got = << >>
         /\ \A d \in Calls : d # c => call'[d] = call[d]
         /\ stream'[c] = "connecting"
         /\ \A d \in Calls : d # c => stream'[d] = stream[d]
         /\ logStream' = c
         /\ UNCHANGED <<calls, current, overlapped, chan, missed, logged>>
<1>1. call' = [call EXCEPT ![c].at = "over", ![c].got = << >>]
  BY DEF Continue
<1>2. call \in [Calls -> CallRecords]
  BY DEF ViewTypeOK
<1>3. /\ call'[c].at = "over" /\ call'[c].shard = call[c].shard
      /\ call'[c].got = << >>
      /\ \A d \in Calls : d # c => call'[d] = call[d]
  BY <1>1, <1>2 DEF CallRecords
<1>4. QED
  BY <1>3 DEF Continue, ViewTypeOK, shardVars

LEMMA StageStep == ViewTypeOK /\ StageInv /\ [Next]_vars => StageInv'
<1> SUFFICES ASSUME ViewTypeOK, StageInv, [Next]_vars PROVE StageInv'
  OBVIOUS
<1> USE DEF shardVars, viewVars
<1>1. calls \in 1..MaxCalls /\ MaxCalls \in Nat
  BY Bounds DEF ViewTypeOK, Calls
<1>2. ASSUME NEW s \in Shards, Switch(s) PROVE StageInv'
  <2> DEFINE n == calls + 1
  <2>1. /\ calls' = n /\ n \in Calls /\ calls \in Nat /\ n # logStream
        /\ call'[n] = [shard |-> s, at |-> "fetch", got |-> << >>]
        /\ \A c \in Calls : c # n => call'[c] = call[c]
        /\ stream[n] = "none" /\ chan[n] = << >>
        /\ current' = s /\ logStream' = 0
        /\ \A c \in Calls : IF c = logStream
                              THEN stream'[c] = "closed" /\ chan'[c] = << >>
                              ELSE stream'[c] = stream[c] /\ chan'[c] = chan[c]
    BY <1>2, SwitchFacts
  <2>2. \A c \in Calls : c \in Nat /\ (c # n => (c > n <=> c > calls))
    BY <1>1 DEF Calls
  <2> HIDE DEF n
  <2>3. ASSUME NEW c \in Calls
        PROVE  /\ c > n <=> call'[c].at = "none"
               /\ call'[c].at # "append" => call'[c].got = << >>
               /\ call'[c].at # "over" => stream'[c] = "none"
               /\ chan'[c] # << >> => Subscribed(c)'
    <3>1. CASE c = n
      BY <2>1, <2>2, <3>1
    <3>2. CASE c # n /\ c = logStream
      <4>1. call[c].at = "over" /\ c \in Nat
        BY <1>1, <3>2 DEF StageInv, Calls
      <4>2. QED
        BY <2>1, <2>2, <3>2, <4>1 DEF StageInv
    <3>3. CASE c # n /\ c # logStream
      BY <2>1, <2>2, <3>3 DEF StageInv, Subscribed
    <3>4. QED
      BY <3>1, <3>2, <3>3
  <2>4. QED
    BY <2>1, <2>3 DEF StageInv
<1>3. ASSUME NEW c \in Calls, Answer(c) PROVE StageInv'
  <2>1. /\ call[c].at = "fetch" /\ call'[c].at = "append"
        /\ call'[c].shard = call[c].shard
        /\ \A d \in Calls : d # c => call'[d] = call[d]
        /\ UNCHANGED <<calls, current, logStream, stream, chan>>
    BY <1>3, AnswerFacts
  <2>2. calls \in Calls /\ logStream # c
        /\ (logStream # 0 => logStream \in Calls)
    <3>1. call[c].at # "over" /\ 0 \notin Calls
      BY <2>1 DEF Calls
    <3>2. logStream \in 0..calls
      BY DEF ViewTypeOK
    <3>3. QED
      BY <1>1, <3>1, <3>2 DEF StageInv, Calls
  <2>3. QED
    BY <2>1, <2>2 DEF StageInv, Subscribed
<1>4. ASSUME NEW c \in Calls, Continue(c) PROVE StageInv'
  <2>1. /\ call[c].at = "append" /\ call'[c].at = "over"
        /\ call'[c].shard = call[c].shard /\ call'[c].got = << >>
        /\ \A d \in Calls : d # c => call'[d] = call[d]
        /\ stream'[c] = "connecting"
        /\ \A d \in Calls : d # c => stream'[d] = stream[d]
        /\ logStream' = c
        /\ UNCHANGED <<calls, current, chan>>
    BY <1>4, ContinueFacts
  <2>2. calls \in Calls /\ stream[c] = "none" /\ chan[c] = << >>
    BY <1>1, <2>1 DEF StageInv, Subscribed, Calls
  <2>3. QED
    BY <2>1, <2>2 DEF StageInv, Subscribed
<1>5. ASSUME NEW c \in Calls, Connect(c) PROVE StageInv'
  BY <1>5 DEF Connect, StageInv, ViewTypeOK, Subscribed
<1>6. ASSUME NEW c \in Calls, Deliver(c) PROVE StageInv'
  BY <1>6 DEF Deliver, StageInv, ViewTypeOK, Subscribed
<1>7. ASSUME NEW s \in Shards, Log(s) PROVE StageInv'
  BY <1>7 DEF Log, StageInv, ViewTypeOK, Subscribed, Takes
<1>8. ASSUME NEW s \in Shards, Crash(s) PROVE StageInv'
  BY <1>1, <1>8 DEF Crash, StageInv, ViewTypeOK, Subscribed, Calls
<1>9. ASSUME UNCHANGED <<calls, call, current, logStream, stream, chan>>
      PROVE  StageInv'
  BY <1>9 DEF StageInv, Subscribed
<1>10. QED
  BY <1>2, <1>3, <1>4, <1>5, <1>6, <1>7, <1>8, <1>9
     DEF Next, Browser, Restart, vars

LEMMA OwnStep == ViewTypeOK /\ StageInv /\ OwnInv /\ [Next]_vars => OwnInv'
<1> SUFFICES ASSUME ViewTypeOK, StageInv, OwnInv, [Next]_vars PROVE OwnInv'
  OBVIOUS
<1> USE DEF shardVars, viewVars
<1>1. \A c \in Calls : /\ call[c] \in CallRecords /\ chan[c] \in Seq(Lines)
                       /\ call[c].got \in Seq(Entries) /\ call[c].shard \in Shards
  BY DEF ViewTypeOK, CallRecords
<1>2. ASSUME NEW s \in Shards, Switch(s) PROVE OwnInv'
  <2> DEFINE n == calls + 1
  <2>1. /\ n \in Calls
        /\ call'[n] = [shard |-> s, at |-> "fetch", got |-> << >>]
        /\ \A c \in Calls : c # n => call'[c] = call[c]
        /\ chan[n] = << >>
        /\ \A c \in Calls : chan'[c] = << >> \/ chan'[c] = chan[c]
    BY <1>2, SwitchFacts
  <2> HIDE DEF n
  <2>2. QED
    BY <2>1 DEF OwnInv
<1>3. ASSUME NEW c \in Calls, Answer(c) PROVE OwnInv'
  <2> DEFINE s == call[c].shard
             got == IF up[s] THEN LastLines(s) ELSE <<ErrorLine>>
  <2>1. \A i \in 1..Len(got) : got[i] = ErrorLine \/ got[i][1] = s
    <3>1. PICK from \in 0..logged[s] :
            /\ Len(LastLines(s)) = logged[s] - from
            /\ \A i \in 1..logged[s] - from : LastLines(s)[i] = <<s, from + i>>
      BY <1>1, LastLinesFacts
    <3>2. \A i \in 1..Len(LastLines(s)) : LastLines(s)[i][1] = s
      BY <3>1
    <3>3. Len(<<ErrorLine>>) = 1 /\ <<ErrorLine>>[1] = ErrorLine
      OBVIOUS
    <3>4. QED
      BY <3>2, <3>3
  <2>2. /\ call'[c].shard = s /\ call'[c].got = got /\ chan' = chan
        /\ \A d \in Calls : d # c => call'[d] = call[d]
    BY <1>3, AnswerFacts
  <2> HIDE DEF got
  <2>3. QED
    BY <2>1, <2>2 DEF OwnInv
<1>4. ASSUME NEW c \in Calls, Continue(c) PROVE OwnInv'
  <2>1. /\ call'[c].shard = call[c].shard /\ call'[c].got = << >>
        /\ \A d \in Calls : d # c => call'[d] = call[d]
        /\ chan' = chan
    BY <1>4, ContinueFacts
  <2>2. \A i \in 1..Len(<< >>) : FALSE
    OBVIOUS
  <2>3. QED
    BY <2>1, <2>2 DEF OwnInv
<1>5. ASSUME NEW c \in Calls, Deliver(c) PROVE OwnInv'
  <2>1. chan' = [chan EXCEPT ![c] = Tail(@)] /\ chan[c] # << >> /\ call' = call
    BY <1>5 DEF Deliver
  <2>2. /\ Len(Tail(chan[c])) = Len(chan[c]) - 1 /\ Len(chan[c]) \in Nat
        /\ \A i \in 1..Len(Tail(chan[c])) : Tail(chan[c])[i] = chan[c][i + 1]
    BY <1>1, <2>1, HeadTailProperties
  <2>3. \A i \in 1..Len(Tail(chan[c])) : i + 1 \in 1..Len(chan[c])
    BY <2>2
  <2>4. QED
    BY <2>1, <2>2, <2>3 DEF OwnInv, ViewTypeOK
<1>6. ASSUME NEW s \in Shards, Log(s) PROVE OwnInv'
  <2> DEFINE line == <<s, logged[s] + 1>>
             mine == {c \in PastBacklog(s) : Takes(c)}
  <2>1. /\ call' = call
        /\ \A d \in Calls :
             chan'[d] = IF d \in mine THEN Append(chan[d], line) ELSE chan[d]
    BY <1>6 DEF Log
  <2>2. \A d \in mine : call[d].shard = s
    BY DEF PastBacklog
  <2>3. line[1] = s
    OBVIOUS
  <2> HIDE DEF line, mine
  <2>4. ASSUME NEW d \in Calls, NEW i \in 1..Len(Append(chan[d], line))
        PROVE  \/ Append(chan[d], line)[i] = line
               \/ i \in 1..Len(chan[d]) /\ Append(chan[d], line)[i] = chan[d][i]
    <3> DEFINE x == chan[d]
    <3>1. x \in Seq(Lines \cup {line})
      BY <1>1
    <3>2. Len(x) \in Nat
      BY <3>1
    <3> HIDE DEF x
    <3>3. /\ Len(Append(x, line)) = Len(x) + 1
          /\ \A j \in 1..Len(x) : Append(x, line)[j] = x[j]
          /\ Append(x, line)[Len(x) + 1] = line
      BY <3>1, AppendProperties
    <3>4. i \in 1..Len(x) + 1
      BY <2>4, <3>3 DEF x
    <3>5. i \in 1..Len(x) \/ i = Len(x) + 1
      BY <3>2, <3>4
    <3>6. \/ Append(x, line)[i] = line
          \/ i \in 1..Len(x) /\ Append(x, line)[i] = x[i]
      BY <3>3, <3>5
    <3>7. QED
      BY <3>6 DEF x
  <2>5. \A d \in Calls : \A i \in 1..Len(chan'[d]) : chan'[d][i][1] = call[d].shard
    <3> SUFFICES ASSUME NEW d \in Calls, NEW i \in 1..Len(chan'[d])
                 PROVE  chan'[d][i][1] = call[d].shard
      OBVIOUS
    <3>1. CASE d \in mine
      <4>1. chan'[d] = Append(chan[d], line) /\ call[d].shard = s
        BY <2>1, <2>2, <3>1
      <4>2. \/ chan'[d][i] = line
            \/ i \in 1..Len(chan[d]) /\ chan'[d][i] = chan[d][i]
        BY <2>4, <4>1
      <4>3. QED
        BY <2>3, <4>1, <4>2 DEF OwnInv
    <3>2. CASE d \notin mine
      BY <2>1, <3>2 DEF OwnInv
    <3>3. QED
      BY <3>1, <3>2
  <2>6. QED
    BY <2>1, <2>5 DEF OwnInv
<1>7. ASSUME NEW s \in Shards, Crash(s) PROVE OwnInv'
  BY <1>7 DEF Crash, OwnInv
<1>8. CASE UNCHANGED <<call, chan>>
  BY <1>8 DEF OwnInv
<1>9. QED
  BY <1>2, <1>3, <1>4, <1>5, <1>6, <1>7, <1>8
     DEF Next, Browser, Connect, Restart, vars

-----------------------------------------------------------------------------
(* Which calls and streams there are at a time.                            *)

LEMMA AloneStep ==
  ViewTypeOK /\ StageInv /\ AloneInv /\ [Next]_vars => AloneInv'
<1> SUFFICES ASSUME ViewTypeOK, StageInv, AloneInv, [Next]_vars PROVE AloneInv'
  OBVIOUS
<1> USE DEF shardVars, viewVars
<1>1. calls \in 1..MaxCalls /\ MaxCalls \in Nat
  BY Bounds DEF ViewTypeOK, Calls
<1>2. ASSUME NEW s \in Shards, Switch(s) PROVE AloneInv'
  <2> DEFINE n == calls + 1
             flying == {c \in 1..calls : InFlight(c)}
             leaked == {c \in overlapped : Live(c) /\ c # logStream}
  <2>0. /\ calls' = n /\ n \in Calls /\ calls \in Nat /\ n # logStream
        /\ call'[n] = [shard |-> s, at |-> "fetch", got |-> << >>]
        /\ \A c \in Calls : c # n => call'[c] = call[c]
        /\ call[n].at = "none" /\ stream[n] = "none" /\ chan[n] = << >>
        /\ current' = s /\ logStream' = 0
        /\ \A c \in Calls : IF c = logStream
                              THEN stream'[c] = "closed" /\ chan'[c] = << >>
                              ELSE stream'[c] = stream[c] /\ chan'[c] = chan[c]
    BY <1>2, SwitchFacts
  <2>1. /\ calls' = n /\ n \in Calls /\ calls \in Nat /\ n # logStream
        /\ call'[n].at = "fetch"
        /\ \A c \in Calls : c # n => call'[c] = call[c]
        /\ call[n].at = "none" /\ stream[n] = "none"
        /\ logStream' = 0
        /\ \A c \in Calls : IF c = logStream THEN stream'[c] = "closed"
                                             ELSE stream'[c] = stream[c]
    BY <2>0
  <2>2. /\ overlapped' = leaked \cup
                          (IF flying = {} THEN {} ELSE flying \cup {n})
        /\ \A c \in overlapped : Live(c) /\ c # logStream => c \in leaked
    BY <1>2 DEF Switch, Overlap
  <2>3. \A c \in Calls : InFlight(c) => c \in flying
    BY <1>1 DEF StageInv, InFlight, Calls
  <2> HIDE DEF n, flying, leaked
  <2>4. ASSUME NEW c \in Calls, c \notin overlapped' PROVE ~Live(c)'
    <3>0. c \in overlapped => ~(Live(c) /\ c # logStream)
      BY <2>2, <2>4
    <3>1. CASE c = n
      BY <2>1, <3>1 DEF Live, Subscribed
    <3>2. CASE c # n
      <4>1. CASE c = logStream
        BY <2>1, <4>1 DEF Live, Subscribed
      <4>2. CASE c # logStream
        <5>1. ~Live(c)
          BY <3>0, <4>2 DEF AloneInv
        <5>2. stream'[c] = stream[c]
          BY <2>1, <4>2
        <5>3. QED
          BY <5>1, <5>2 DEF Live, Subscribed
      <4>3. QED
        BY <4>1, <4>2
    <3>3. QED
      BY <3>1, <3>2
  <2>5. ASSUME NEW c \in Calls, c # n PROVE InFlight(c)' <=> c \in flying
    BY <2>1, <2>3, <2>5 DEF InFlight, flying
  <2>6. QED
    BY <2>1, <2>2, <2>4, <2>5 DEF AloneInv
<1>3. ASSUME NEW c \in Calls, Answer(c) PROVE AloneInv'
  <2>1. /\ \A d \in Calls : InFlight(d)' <=> InFlight(d)
        /\ \A d \in Calls : Live(d)' <=> Live(d)
        /\ UNCHANGED <<calls, overlapped, logStream>>
    BY <1>3 DEF Answer, ViewTypeOK, CallRecords, InFlight, Live, Subscribed
  <2>2. QED
    BY <2>1 DEF AloneInv
<1>4. ASSUME NEW c \in Calls, Continue(c) PROVE AloneInv'
  <2>1. /\ InFlight(c) /\ ~InFlight(c)' /\ logStream' = c
        /\ \A d \in Calls : d # c => (InFlight(d)' <=> InFlight(d))
        /\ \A d \in Calls : d # c => (Live(d)' <=> Live(d))
        /\ UNCHANGED <<calls, overlapped>>
    BY <1>4 DEF Continue, ViewTypeOK, CallRecords, InFlight, Live, Subscribed
  <2>2. QED
    BY <2>1 DEF AloneInv
<1>5. ASSUME NEW c \in Calls, Connect(c) \/ Deliver(c) PROVE AloneInv'
  <2>1. Live(c)
    BY <1>5 DEF Connect, Deliver, StageInv, Live
  <2>2. /\ \A d \in Calls : InFlight(d)' <=> InFlight(d)
        /\ \A d \in Calls : Live(d)' => Live(d)
        /\ UNCHANGED <<calls, overlapped, logStream>>
    BY <1>5, <2>1 DEF Connect, Deliver, ViewTypeOK, InFlight, Live, Subscribed
  <2>3. QED
    BY <2>2 DEF AloneInv
<1>6. ASSUME NEW s \in Shards, Log(s) \/ Crash(s) \/ Restart(s) PROVE AloneInv'
  <2>1. /\ \A d \in Calls : InFlight(d)' <=> InFlight(d)
        /\ \A d \in Calls : Live(d)' => Live(d)
        /\ UNCHANGED <<calls, overlapped, logStream>>
    BY <1>6 DEF Log, Crash, Restart, ViewTypeOK, InFlight, Live, Subscribed
  <2>2. QED
    BY <2>1 DEF AloneInv
<1>7. CASE UNCHANGED vars
  BY <1>7 DEF vars, AloneInv, InFlight, Live, Subscribed
<1>8. QED
  BY <1>2, <1>3, <1>4, <1>5, <1>6, <1>7 DEF Next, Browser

-----------------------------------------------------------------------------
(* What the view shows.                                                    *)

\* A call that met no other at its await is for the shard selected as long as
\* it adds to the view.
LEMMA AddsToCurrent ==
  ASSUME ViewTypeOK, StageInv, AloneInv, NEW c \in Calls,
         Continue(c) \/ Deliver(c)
  PROVE  /\ InFlight(c) \/ Live(c)
         /\ c \in overlapped \/ c = calls
         /\ c \in overlapped \/ call[c].shard = current
<1>1. InFlight(c) \/ Live(c)
  BY DEF Continue, Deliver, StageInv, InFlight, Live
<1>2. QED
  BY <1>1 DEF AloneInv, StageInv

\* Calls keep their shard.
LEMMA OverlapStays ==
  ASSUME ViewTypeOK, StageInv, [Next]_vars, overlapped' = overlapped, NEW s
  PROVE  Overlapped(s) => Overlapped(s)'
<1> USE DEF shardVars, viewVars
<1>1. ASSUME NEW c \in Calls, c \in overlapped
      PROVE  call'[c].shard = call[c].shard
  <2>0. calls \in Calls /\ c <= calls /\ call[c] \in CallRecords
    BY <1>1, Bounds DEF ViewTypeOK, Calls
  <2>1. ASSUME NEW t \in Shards, Switch(t)
        PROVE  call'[c].shard = call[c].shard
    <3> DEFINE n == calls + 1
    <3>1. \A d \in Calls : d # n => call'[d] = call[d]
      BY <2>1, SwitchFacts
    <3>2. c # n
      BY <2>0 DEF Calls
    <3>3. QED
      BY <3>1, <3>2
  <2>2. ASSUME NEW d \in Calls, Answer(d)
        PROVE  call'[c].shard = call[c].shard
    <3>1. /\ call'[d].shard = call[d].shard
          /\ \A e \in Calls : e # d => call'[e] = call[e]
      BY <2>2, AnswerFacts
    <3>2. QED
      BY <3>1
  <2>3. ASSUME NEW d \in Calls, Continue(d)
        PROVE  call'[c].shard = call[c].shard
    <3>1. /\ call'[d].shard = call[d].shard
          /\ \A e \in Calls : e # d => call'[e] = call[e]
      BY <2>3, ContinueFacts
    <3>2. QED
      BY <3>1
  <2>4. CASE UNCHANGED call
    BY <2>4
  <2>5. QED
    BY <2>1, <2>2, <2>3, <2>4
       DEF Next, Browser, Connect, Deliver, Log, Crash, Restart, vars
<1>2. overlapped \subseteq Calls
  BY Bounds DEF ViewTypeOK, Calls
<1>3. QED
  BY <1>1, <1>2 DEF Overlapped

LEMMA ShardStep ==
  ViewTypeOK /\ StageInv /\ OwnInv /\ AloneInv /\ ShowsSelectedShard
    /\ [Next]_vars => ShowsSelectedShard'
<1> SUFFICES ASSUME ViewTypeOK, StageInv, OwnInv, AloneInv, ShowsSelectedShard,
                    [Next]_vars
             PROVE  ShowsSelectedShard'
  OBVIOUS
<1> USE DEF shardVars, viewVars
<1>1. overlapped' = overlapped => \A s : Overlapped(s) => Overlapped(s)'
  BY OverlapStays
\* What is put into the view is lines of one call.
<1>2. ASSUME NEW c \in Calls, NEW x \in Seq(Entries),
             c \in overlapped \/ call[c].shard = current,
             \A i \in 1..Len(x) : x[i] = ErrorLine \/ x[i][1] = call[c].shard,
             output' = Shown(output \o x), current' = current,
             overlapped' = overlapped
      PROVE  ShowsSelectedShard'
  <2> DEFINE z == output \o x
  <2>1. output \in Seq(Entries)
    BY DEF ViewTypeOK
  <2>2. /\ z \in Seq(Entries) /\ Len(z) = Len(output) + Len(x)
        /\ Len(output) \in Nat /\ Len(x) \in Nat
        /\ \A i \in 1..Len(output) + Len(x) :
             z[i] = IF i <= Len(output) THEN output[i] ELSE x[i - Len(output)]
    BY <2>1, ConcatProperties
  <2>3. output' = Shown(z)
    BY <1>2
  <2> HIDE DEF z
  <2>4. PICK d \in Nat : /\ Len(z) = Len(output') + d
                         /\ \A i \in 1..Len(output') : output'[i] = z[i + d]
    BY <2>2, <2>3, ShownFacts
  <2>5. output' \in Seq(Entries)
    BY <2>2, <2>3, ShownFacts
  <2>6. SUFFICES ASSUME NEW s \in Shards, NEW i \in 1..Len(output'),
                        output'[i] # ErrorLine, output'[i][1] = s
                 PROVE  s = current \/ Overlapped(s)'
    BY <1>2, <2>5 DEF ShowsSelectedShard, ShownAt
  <2>7. i + d \in 1..Len(z) /\ output'[i] = z[i + d] /\ i + d \in Nat
    BY <2>2, <2>4, <2>5
  <2>8. CASE i + d <= Len(output)
    <3>1. i + d \in 1..Len(output) /\ output[i + d] = output'[i]
      BY <2>2, <2>7, <2>8
    <3>2. s = current \/ Overlapped(s)
      BY <2>1, <2>6, <3>1 DEF ShowsSelectedShard, ShownAt
    <3>3. QED
      BY <1>1, <1>2, <3>2
  <2>9. CASE i + d > Len(output)
    <3> DEFINE j == i + d - Len(output)
    <3>1. j \in 1..Len(x) /\ x[j] = output'[i]
      BY <2>2, <2>7, <2>9, SMTT(30)
    <3> HIDE DEF j
    <3>2. s = call[c].shard
      BY <1>2, <2>6, <3>1
    <3>3. c \in overlapped => Overlapped(s)
      BY <3>2 DEF Overlapped
    <3>4. QED
      BY <1>1, <1>2, <3>2, <3>3
  <2>10. QED
    BY <2>2, <2>7, <2>8, <2>9
<1>3. ASSUME NEW s \in Shards, Switch(s) PROVE ShowsSelectedShard'
  BY <1>3 DEF Switch, ShowsSelectedShard
<1>4. ASSUME NEW c \in Calls, Continue(c) PROVE ShowsSelectedShard'
  <2>1. /\ call[c].got \in Seq(Entries)
        /\ output' = Shown(output \o call[c].got)
        /\ current' = current /\ overlapped' = overlapped
    BY <1>4, BrowserShows, ContinueFacts
  <2>2. c \in overlapped \/ call[c].shard = current
    BY <1>4, AddsToCurrent
  <2>3. QED
    BY <1>2, <2>1, <2>2 DEF OwnInv
<1>5. ASSUME NEW c \in Calls, Deliver(c) PROVE ShowsSelectedShard'
  <2> DEFINE h == Head(chan[c])
  <2>1. /\ <<h>> \in Seq(Entries) /\ h = chan[c][1] /\ Len(chan[c]) \in Nat \ {0}
        /\ output' = Shown(output \o <<h>>)
    BY <1>5, BrowserShows
  <2>2. c \in overlapped \/ call[c].shard = current
    BY <1>5, AddsToCurrent
  <2>3. h[1] = call[c].shard
    BY <2>1 DEF OwnInv
  <2> HIDE DEF h
  <2>4. \A i \in 1..Len(<<h>>) : <<h>>[i][1] = call[c].shard
    BY <2>3
  <2>5. current' = current /\ overlapped' = overlapped
    BY <1>5 DEF Deliver
  <2>6. QED
    BY <1>2, <2>1, <2>2, <2>4, <2>5
<1>6. CASE UNCHANGED <<current, output, overlapped>>
  BY <1>1, <1>6 DEF ShowsSelectedShard, ShownAt
<1>7. QED
  BY <1>3, <1>4, <1>5, <1>6
     DEF Next, Browser, Answer, Connect, Log, Crash, Restart, vars

-----------------------------------------------------------------------------
(* The flow of lines into the view.                                        *)

\* The numbers in a sequence of lines that a subscriber is sent.
LEMMA NumbersAppend ==
  ASSUME NEW x \in Seq(Lines), NEW s \in Shards, NEW t \in Shards,
         NEW k \in 1..MaxLines
  PROVE  /\ s # t => /\ Numbers(Append(x, <<t, k>>), s) = Numbers(x, s)
                     /\ Ordered(x, s) => Ordered(Append(x, <<t, k>>), s)
         /\ Numbers(Append(x, <<s, k>>), s) = Numbers(x, s) \cup {k}
         /\ Ordered(x, s) /\ (\A j \in Numbers(x, s) : j < k)
            => Ordered(Append(x, <<s, k>>), s)
<1>1. /\ <<t, k>> \in Entries /\ <<s, k>> \in Entries
      /\ x \in Seq(Lines) /\ x \in Seq(Entries)
  BY Bounds DEF Entries
<1>2. /\ <<<<t, k>>>> \in Seq(Entries) /\ <<<<s, k>>>> \in Seq(Entries)
      /\ Append(x, <<t, k>>) = x \o <<<<t, k>>>>
      /\ Append(x, <<s, k>>) = x \o <<<<s, k>>>>
  <2>1. \A e \in Entries : <<e>> \in Seq(Entries)
    OBVIOUS
  <2>2. Append(x, <<t, k>>) = x \o <<<<t, k>>>>
    BY <1>1, AppendIsConcat
  <2>3. Append(x, <<s, k>>) = x \o <<<<s, k>>>>
    BY <1>1, AppendIsConcat
  <2>4. <<<<t, k>>>> \in Seq(Entries) /\ <<<<s, k>>>> \in Seq(Entries)
    BY <1>1, <2>1
  <2>5. QED
    BY <2>2, <2>3, <2>4
<1>3. \A u \in Shards : LET y == <<<<u, k>>>> IN
        /\ Ordered(y, s)
        /\ Numbers(y, s) = IF u = s THEN {k} ELSE {}
  <2> SUFFICES ASSUME NEW u \in Shards
               PROVE  /\ Ordered(<<<<u, k>>>>, s)
                      /\ Numbers(<<<<u, k>>>>, s) = IF u = s THEN {k} ELSE {}
    OBVIOUS
  <2> DEFINE y == <<<<u, k>>>>
  <2>1. Len(y) = 1 /\ y[1] = <<u, k>>
    OBVIOUS
  <2> HIDE DEF y
  <2>2. \A i \in 1..Len(y) : i = 1 /\ y[i] = <<u, k>>
    BY <2>1
  <2>3. Ordered(y, s)
    BY <2>2 DEF Ordered
  <2>4. Numbers(y, s) = IF u = s THEN {k} ELSE {}
    BY <2>1, <2>2 DEF Numbers
  <2>5. QED
    BY <2>3, <2>4 DEF y
<1>4. QED
  <2> DEFINE y == <<<<t, k>>>>
             z == <<<<s, k>>>>
  <2>1. /\ y \in Seq(Entries) /\ z \in Seq(Entries)
        /\ Append(x, <<t, k>>) = x \o y /\ Append(x, <<s, k>>) = x \o z
        /\ Ordered(y, s) /\ Ordered(z, s)
        /\ (s # t => Numbers(y, s) = {}) /\ Numbers(z, s) = {k}
    BY <1>2, <1>3
  <2> HIDE DEF y, z
  <2>2. /\ Numbers(x \o y, s) = Numbers(x, s) \cup Numbers(y, s)
        /\ Numbers(x \o z, s) = Numbers(x, s) \cup Numbers(z, s)
    BY <1>1, <2>1, OrderedConcat
  <2>3. s # t /\ Ordered(x, s) => Ordered(x \o y, s)
    BY <1>1, <2>1, OrderedConcat
  <2>4. Ordered(x, s) /\ (\A j \in Numbers(x, s) : j < k) => Ordered(x \o z, s)
    BY <1>1, <2>1, OrderedConcat
  <2>5. QED
    BY <2>1, <2>2, <2>3, <2>4

\* The backlog that a call gets.
LEMMA LastLinesFlow ==
  ASSUME ViewTypeOK, NEW s \in Shards, NEW x \in Seq(Entries), Ordered(x, s),
         Numbers(x, s) = {}, NEW gaps
  PROVE  Flow(x, LastLines(s), s, logged[s], gaps)
<1> DEFINE y == LastLines(s)
           n == logged[s]
<1>1. n \in 0..MaxLines /\ MaxLines \in Nat
  BY Bounds DEF ViewTypeOK
<1>2. PICK from \in 0..n :
        /\ Len(y) = n - from
        /\ \A i \in 1..n - from : y[i] = <<s, from + i>> /\ from + i \in 1..MaxLines
  BY LastLinesFacts
<1> HIDE DEF y, n
<1>3. Ordered(y, s)
  BY <1>1, <1>2 DEF Ordered
<1>4. \A k \in 1..MaxLines : k \in Numbers(y, s) <=> k > from /\ k <= n
  <2> SUFFICES ASSUME NEW k \in 1..MaxLines
               PROVE  k \in Numbers(y, s) <=> k > from /\ k <= n
    OBVIOUS
  <2>1. ASSUME k > from, k <= n PROVE k \in Numbers(y, s)
    <3>1. k - from \in 1..n - from /\ from + (k - from) = k
      BY <1>1, <2>1
    <3>2. k - from \in 1..Len(y) /\ y[k - from] = <<s, k>>
      BY <1>2, <3>1
    <3>3. QED
      BY <3>2 DEF Numbers
  <2>2. ASSUME k \in Numbers(y, s) PROVE k > from /\ k <= n
    <3>1. PICK i \in 1..Len(y) : y[i] = <<s, k>>
      BY <2>2 DEF Numbers
    <3>2. i \in 1..n - from /\ k = from + i
      BY <1>2, <3>1
    <3>3. QED
      BY <1>1, <3>2
  <2>3. QED
    BY <2>1, <2>2
<1>5. ASSUME NEW k \in Numbers(y, s), NEW m \in k + 1..n
      PROVE  k <= n /\ m \in Numbers(y, s)
  <2>1. k \in 1..MaxLines
    BY DEF Numbers
  <2>2. m \in 1..MaxLines /\ m > from /\ m <= n
    BY <1>1, <1>4, <2>1
  <2>3. QED
    BY <1>4, <2>1, <2>2
<1>6. \A k \in Numbers(y, s) : k <= n
  BY <1>4 DEF Numbers
<1>7. QED
  BY <1>3, <1>5, <1>6 DEF Flow, y, n

\* Entries of a call for another shard.
LEMMA OthersCount ==
  ASSUME ViewTypeOK, NEW x \in Seq(Entries), NEW s \in Shards,
         \A i \in 1..Len(x) : x[i] = ErrorLine \/ x[i][1] # s
  PROVE  Numbers(x, s) = {}
<1>1. ASSUME NEW k \in Numbers(x, s) PROVE FALSE
  <2>1. PICK i \in 1..Len(x) : x[i] = <<s, k>>
    BY DEF Numbers
  <2>2. k \in 1..MaxLines
    BY DEF Numbers
  <2>3. <<s, k>> # ErrorLine /\ <<s, k>>[1] = s
    BY <2>2, Bounds
  <2>4. QED
    BY <2>1, <2>3
<1>2. QED
  BY <1>1

LEMMA FlowStep ==
  ViewTypeOK /\ StageInv /\ OwnInv /\ AloneInv /\ FlowInv /\ [Next]_vars
    => FlowInv'
<1> SUFFICES ASSUME ViewTypeOK, StageInv, OwnInv, AloneInv, FlowInv, [Next]_vars
             PROVE  FlowInv'
  OBVIOUS
<1> USE DEF shardVars, viewVars
<1>1. /\ calls \in Calls /\ current \in Shards /\ current = call[calls].shard
      /\ logged[current] \in Nat /\ output \in Seq(Entries)
      /\ chan[calls] \in Seq(Lines) /\ chan[calls] \in Seq(Entries)
      /\ call[calls].got \in Seq(Entries) /\ Coming \in Seq(Entries)
  <2>1. /\ calls \in Calls /\ current \in Shards /\ current = call[calls].shard
        /\ logged[current] \in 0..MaxLines /\ output \in Seq(Entries)
        /\ chan[calls] \in Seq(Lines) /\ call[calls] \in CallRecords
    BY DEF ViewTypeOK, StageInv
  <2>2. chan[calls] \in Seq(Entries) /\ call[calls].got \in Seq(Entries)
    BY <2>1 DEF CallRecords, Entries
  <2>3. QED
    BY <2>1, <2>2, Bounds DEF Coming
<1>2. overlapped' = overlapped => \A s : ~Overlapped(s)' => ~Overlapped(s)
  BY OverlapStays
\* The selection and the last call stay.
<1>3. ASSUME current' = current, calls' = calls, call'[calls].at # "fetch",
             ~Overlapped(current)' =>
               Flow(output', Coming', current, logged'[current], missed')
      PROVE  FlowInv'
  BY <1>3 DEF FlowInv
<1>4. ASSUME ~Overlapped(current)
      PROVE  /\ calls \notin overlapped
             /\ call[calls].at = "fetch" => Numbers(output, current) = {}
             /\ Flow(output, Coming, current, logged[current], missed)
  BY <1>1, <1>4 DEF FlowInv, Overlapped
<1>5. ASSUME NEW s \in Shards, Switch(s) PROVE FlowInv'
  <2> DEFINE n == calls + 1
  <2>1. calls' = n /\ call'[n] = [shard |-> s, at |-> "fetch", got |-> << >>]
    BY <1>5, SwitchFacts
  <2>2. output' = << >>
    BY <1>5 DEF Switch
  <2>3. Coming' = << >>
    BY <2>1 DEF Coming
  <2> HIDE DEF n
  <2>4. \A t : Numbers(<< >>, t) = {} /\ Ordered(<< >>, t)
    BY DEF Numbers, Ordered
  <2>5. QED
    BY <2>2, <2>3, <2>4 DEF FlowInv, Flow
<1>6. ASSUME NEW c \in Calls, Answer(c) PROVE FlowInv'
  <2>1. /\ call[c].at = "fetch" /\ call'[c].at = "append"
        /\ call'[c].got = IF up[call[c].shard] THEN LastLines(call[c].shard)
                                              ELSE <<ErrorLine>>
        /\ \A d \in Calls : d # c => call'[d] = call[d]
        /\ UNCHANGED <<calls, current, output, overlapped, chan, missed, logged>>
    BY <1>6, AnswerFacts
  <2>2. CASE c = calls
    <3>1. Coming' = call'[calls].got
      BY <2>1, <2>2 DEF Coming
    <3>2. SUFFICES ASSUME ~Overlapped(current)
                   PROVE  Flow(output, Coming', current, logged[current], missed)
      BY <1>1, <1>2, <1>3, <2>1, <2>2
    <3>3. Ordered(output, current) /\ Numbers(output, current) = {}
      BY <1>4, <2>1, <2>2, <3>2 DEF Flow
    <3>4. CASE up[current]
      BY <1>1, <2>1, <2>2, <3>1, <3>3, <3>4, LastLinesFlow
    <3>5. CASE ~up[current]
      <4>1. Coming' = <<ErrorLine>>
        BY <1>1, <2>1, <2>2, <3>1, <3>5
      <4>2. Len(<<ErrorLine>>) = 1 /\ <<ErrorLine>>[1] = ErrorLine
        OBVIOUS
      <4>3. Numbers(<<ErrorLine>>, current) = {}
        <5>1. SUFFICES ASSUME NEW k \in 1..MaxLines, NEW i \in 1..Len(<<ErrorLine>>),
                              <<ErrorLine>>[i] = <<current, k>>
                       PROVE  FALSE
          BY DEF Numbers
        <5>2. ErrorLine = <<current, k>>
          BY <4>2, <5>1
        <5>3. current \in Shards
          BY DEF ViewTypeOK
        <5>4. QED
          BY <5>2, <5>3, Bounds
      <4>4. Ordered(<<ErrorLine>>, current)
        BY <4>2 DEF Ordered
      <4>5. QED
        BY <3>3, <4>1, <4>3, <4>4 DEF Flow
    <3>6. QED
      BY <3>4, <3>5
  <2>3. CASE c # calls
    <3>1. call'[calls] = call[calls] /\ Coming' = Coming
      BY <1>1, <2>1, <2>3 DEF Coming
    <3>2. QED
      BY <1>2, <2>1, <3>1 DEF FlowInv
  <2>4. QED
    BY <2>2, <2>3
\* A call that met another one adds nothing to the shard selected.
<1>7. ASSUME NEW c \in Calls, NEW h \in Seq(Entries), Continue(c) \/ Deliver(c),
             c # calls, output' = Shown(output \o h),
             \A i \in 1..Len(h) : h[i] = ErrorLine \/ h[i][1] = call[c].shard,
             Coming' = Coming, call'[calls].at = call[calls].at,
             UNCHANGED <<calls, current, overlapped, missed, logged>>
      PROVE  FlowInv'
  <2>1. SUFFICES ASSUME ~Overlapped(current)
                 PROVE  /\ call[calls].at = "fetch" => Numbers(output', current) = {}
                        /\ Flow(output', Coming, current, logged[current], missed)
    BY <1>2, <1>7 DEF FlowInv
  <2>2. c \in overlapped
    BY <1>7, AddsToCurrent
  <2>3. call[c].shard # current
    BY <2>1, <2>2 DEF Overlapped
  <2>4. Numbers(h, current) = {}
    BY <1>1, <1>7, <2>3, OthersCount
  <2>5. /\ Flow(Shown(output \o h), Coming, current, logged[current], missed)
        /\ Numbers(Shown(output \o h), current) \subseteq Numbers(output, current)
    BY <1>1, <1>4, <2>1, <2>4, FlowIgnores
  <2>6. QED
    BY <1>4, <1>7, <2>1, <2>5
<1>8. ASSUME NEW c \in Calls, Continue(c) PROVE FlowInv'
  <2> DEFINE h == call[c].got
  <2>1. h \in Seq(Entries) /\ output' = Shown(output \o h)
    BY <1>8, BrowserShows
  <2>2. /\ call[c].at = "append" /\ call'[c].at = "over"
        /\ \A d \in Calls : d # c => call'[d] = call[d]
        /\ UNCHANGED <<calls, current, overlapped, chan, missed, logged>>
    BY <1>8, ContinueFacts
  <2>3. \A i \in 1..Len(h) : h[i] = ErrorLine \/ h[i][1] = call[c].shard
    BY DEF OwnInv
  <2>4. CASE c # calls
    <3>1. call'[calls] = call[calls] /\ Coming' = Coming
      BY <1>1, <2>2, <2>4 DEF Coming
    <3> HIDE DEF h
    <3>2. QED
      BY <1>7, <1>8, <2>1, <2>2, <2>3, <2>4, <3>1
  <2>5. CASE c = calls
    <3>1. chan[calls] = << >>
      BY <1>1, <2>2, <2>5 DEF StageInv, Subscribed
    <3>2. Coming = h /\ Coming' = << >>
      BY <2>2, <2>5, <3>1 DEF Coming
    <3> HIDE DEF h
    <3>3. h = h \o << >> /\ << >> \in Seq(Entries)
      BY <2>1
    <3>4. ASSUME ~Overlapped(current)
          PROVE  Flow(output', << >>, current, logged[current], missed)
      <4>1. Flow(output, h \o << >>, current, logged[current], missed)
        BY <1>4, <3>2, <3>3, <3>4
      <4>2. QED
        BY <1>1, <2>1, <3>3, <4>1, FlowMoves
    <3>5. QED
      BY <1>2, <1>3, <2>2, <2>5, <3>2, <3>4
  <2>6. QED
    BY <2>4, <2>5
<1>9. ASSUME NEW c \in Calls, Deliver(c) PROVE FlowInv'
  <2> DEFINE q == chan[c]
             h == <<Head(q)>>
             t == Tail(q)
  <2>1. /\ h \in Seq(Entries) /\ Head(q) = q[1] /\ Len(q) \in Nat \ {0}
        /\ q \in Seq(Lines) /\ output' = Shown(output \o h)
    BY <1>9, BrowserShows
  <2>2. /\ chan' = [chan EXCEPT ![c] = t] /\ q # << >>
        /\ UNCHANGED <<call, calls, current, overlapped, missed, logged>>
    BY <1>9 DEF Deliver
  <2>3. q = h \o t /\ t \in Seq(Entries)
    <3>1. q = <<Head(q)>> \o Tail(q) /\ Tail(q) \in Seq(Lines)
      BY <2>1, <2>2
    <3>2. QED
      BY <3>1 DEF Entries
  <2>4. Head(q)[1] = call[c].shard
    BY <2>1 DEF OwnInv
  <2>5. \A i \in 1..Len(h) : h[i] = ErrorLine \/ h[i][1] = call[c].shard
    <3> DEFINE e == Head(q)
    <3>1. Len(<<e>>) = 1 /\ <<e>>[1] = e
      OBVIOUS
    <3>2. QED
      BY <2>4, <3>1
  <2>6. call[c].at = "over"
    BY <2>2 DEF StageInv, Subscribed
  <2>7. /\ chan'[c] = t
        /\ \A d \in Calls : d # c => chan'[d] = chan[d]
    BY <2>2 DEF ViewTypeOK
  <2> HIDE DEF h, t
  <2>8. CASE c # calls
    <3>1. call'[calls] = call[calls] /\ Coming' = Coming
      BY <1>1, <2>2, <2>7, <2>8 DEF Coming
    <3>2. QED
      BY <1>7, <1>9, <2>1, <2>2, <2>5, <2>8, <3>1
  <2>9. CASE c = calls
    <3>1. Coming = h \o t /\ Coming' = t
      BY <2>2, <2>3, <2>6, <2>7, <2>9 DEF Coming
    <3>2. ASSUME ~Overlapped(current)
          PROVE  Flow(output', t, current, logged[current], missed)
      <4>1. Flow(output, h \o t, current, logged[current], missed)
        BY <1>4, <3>1, <3>2
      <4>2. QED
        BY <1>1, <2>1, <2>3, <4>1, FlowMoves
    <3>3. QED
      BY <1>2, <1>3, <2>2, <2>6, <2>9, <3>1, <3>2
  <2>10. QED
    BY <2>8, <2>9
<1>10. ASSUME NEW s \in Shards, Log(s) PROVE FlowInv'
  <2> DEFINE k == logged[s] + 1
             mine == {c \in PastBacklog(s) : Takes(c)}
  <2>1. k \in 1..MaxLines /\ k \in Nat
    BY <1>10, LoggedBound, Bounds, SMTT(30) DEF Log, ViewTypeOK
  <2>2. /\ logged' = [logged EXCEPT ![s] = k]
        /\ chan'[calls] = IF calls \in mine THEN Append(chan[calls], <<s, k>>)
                                            ELSE chan[calls]
        /\ missed' = IF calls \in PastBacklog(s) \ mine THEN missed \cup {<<s, k>>}
                                                       ELSE missed
        /\ UNCHANGED <<call, calls, current, output, overlapped>>
    BY <1>1, <1>10 DEF Log
  <2>3. calls \in mine => call[calls].shard = s /\ call[calls].at = "over"
    BY <1>1 DEF PastBacklog, Takes, StageInv, Subscribed
  <2>4. ASSUME s = current, call[calls].at # "fetch", calls \notin mine
        PROVE  <<s, k>> \in missed'
    <3>1. calls \in PastBacklog(s)
      <4>1. call[calls].at \in {"none", "fetch", "append", "over"}
        BY <1>1 DEF ViewTypeOK, CallRecords
      <4>2. call[calls].at # "none" /\ calls \in 1..calls
        BY <1>1, Bounds DEF StageInv, Calls
      <4>3. QED
        BY <1>1, <2>4, <4>1, <4>2 DEF PastBacklog
    <3>2. QED
      BY <2>2, <2>4, <3>1
  <2>5. missed \subseteq missed'
    BY <2>2
  <2> HIDE DEF k, mine
  <2>6. SUFFICES ASSUME ~Overlapped(current)
                 PROVE  Flow(output, Coming', current, logged'[current], missed')
    <3>1. call[calls].at = "fetch" => call'[calls].at = "fetch"
      BY <2>2
    <3>2. QED
      BY <1>2, <1>4, <2>2, <2>6 DEF FlowInv
  <2> DEFINE a == current
             x == output
             y == Coming
             y2 == Coming'
             n == logged[a]
  <2>7. /\ Flow(x, y, a, n, missed) /\ n \in Nat
        /\ (call[calls].at = "fetch" => Numbers(x, a) = {})
    BY <1>1, <1>4, <2>6
  <2>8. CASE calls \in mine
    <3>1. s = a /\ y = chan[calls] /\ y2 = Append(y, <<a, k>>) /\ k = n + 1
          /\ logged'[a] = k
      BY <1>1, <2>2, <2>3, <2>8 DEF Coming, k, ViewTypeOK
    <3>2. y \in Seq(Lines)
      BY <1>1, <3>1
    <3>3. \A j \in Numbers(x, a) \cup Numbers(y, a) : j \in Nat /\ j <= n
      BY <2>7 DEF Flow, Numbers
    <3> HIDE DEF a, x, y, y2, n
    <3>4. \A j \in Numbers(y, a) : j < k
      BY <2>7, <3>1, <3>3
    <3>5. Numbers(y2, a) = Numbers(y, a) \cup {k} /\ Ordered(y2, a)
      <4>1. Ordered(y, a)
        BY <2>7 DEF Flow
      <4>2. QED
        BY <2>1, <3>1, <3>2, <3>4, <4>1, NumbersAppend
    <3>6. \A i \in Numbers(x, a), j \in Numbers(y2, a) : i < j
      BY <2>7, <3>1, <3>3, <3>5 DEF Flow
    <3>7. \A i \in Numbers(x, a) \cup Numbers(y2, a) :
            /\ i <= k
            /\ \A m \in i + 1..k : \/ m \in Numbers(x, a) \cup Numbers(y2, a)
                                  \/ <<a, m>> \in missed'
      <4>1. ASSUME NEW i \in Numbers(x, a) \cup Numbers(y, a), NEW m \in i + 1..k
            PROVE  m = k \/ m \in i + 1..n
        BY <2>7, <3>1, <3>3
      <4>2. \A m \in k + 1..k : FALSE
        BY <2>1
      <4>3. \A i \in Numbers(x, a) \cup Numbers(y, a) :
              \A m \in i + 1..n : \/ m \in Numbers(x, a) \cup Numbers(y, a)
                                \/ <<a, m>> \in missed
        BY <2>7 DEF Flow
      <4>4. \A i \in Numbers(x, a) \cup Numbers(y, a) : i <= k
        BY <2>7, <3>1, <3>3
      <4>5. QED
        BY <2>1, <2>5, <3>5, <4>1, <4>2, <4>3, <4>4
    <3>8. Flow(x, y2, a, k, missed')
      BY <2>7, <3>5, <3>6, <3>7 DEF Flow
    <3>9. QED
      BY <3>1, <3>8 DEF a, x, y2
  <2>9. CASE calls \notin mine
    <3>1. y2 = y
      BY <2>2, <2>9 DEF Coming
    <3> HIDE DEF a, x, y, y2, n
    <3>2. CASE s # a
      <4>1. logged'[a] = n
        BY <1>1, <2>2, <3>2 DEF n, ViewTypeOK, a
      <4>2. Flow(x, y, a, n, missed')
        BY <2>5, <2>7 DEF Flow
      <4>3. QED
        BY <3>1, <4>1, <4>2 DEF a, x, y2
    <3>3. CASE s = a /\ call[calls].at = "fetch"
      <4>1. y = << >>
        BY <1>1, <3>3 DEF y, Coming, StageInv
      <4>2. Numbers(y, a) = {}
        BY <4>1 DEF Numbers
      <4>3. Numbers(x, a) = {}
        BY <2>7, <3>3
      <4>4. Flow(x, y, a, logged'[a], missed')
        BY <2>7, <4>2, <4>3 DEF Flow
      <4>5. QED
        BY <3>1, <4>4 DEF a, x, y2
    <3>4. CASE s = a /\ call[calls].at # "fetch"
      <4>1. <<a, k>> \in missed' /\ logged'[a] = k /\ k = n + 1
        BY <1>1, <2>2, <2>4, <2>9, <3>4 DEF a, k, n, ViewTypeOK
      <4>2. \A i \in Numbers(x, a) \cup Numbers(y, a) :
              /\ i <= k
              /\ \A m \in i + 1..k : m = k \/ m \in i + 1..n
        BY <2>7, <4>1 DEF Flow, Numbers
      <4>3. Flow(x, y, a, k, missed')
        BY <2>5, <2>7, <4>1, <4>2 DEF Flow
      <4>4. QED
        BY <3>1, <4>1, <4>3 DEF a, x, y2
    <3>5. QED
      BY <3>2, <3>3, <3>4
  <2>10. QED
    BY <2>8, <2>9
<1>11. ASSUME NEW s \in Shards, Crash(s) PROVE FlowInv'
  <2>1. /\ UNCHANGED <<logged, call, calls, current, output, overlapped>>
        /\ missed \subseteq missed'
        /\ chan'[calls] = IF calls \in 1..calls /\ call[calls].shard = s
                           THEN << >> ELSE chan[calls]
    BY <1>1, <1>11 DEF Crash
  <2>2. call[calls].shard = s => ToSet(chan[calls]) \subseteq missed'
    <3>1. calls \in 1..calls
      BY <1>1, Bounds DEF Calls
    <3>2. QED
      BY <1>11, <3>1 DEF Crash
  <2>3. SUFFICES ASSUME ~Overlapped(current)
                 PROVE  Flow(output, Coming', current, logged[current], missed')
    BY <1>2, <1>4, <2>1 DEF FlowInv
  <2>4. Flow(output, Coming, current, logged[current], missed)
    BY <1>4, <2>3
  <2>5. CASE Coming' = Coming
    BY <2>1, <2>4, <2>5 DEF Flow
  <2>6. CASE Coming' # Coming
    <3>1. Coming' = << >> /\ Coming = chan[calls] /\ call[calls].shard = s
      BY <2>1, <2>6 DEF Coming
    <3>2. ASSUME NEW m \in Numbers(Coming, current)
          PROVE  <<current, m>> \in missed'
      <4>1. PICK i \in 1..Len(chan[calls]) : chan[calls][i] = <<current, m>>
        BY <3>1, <3>2 DEF Numbers
      <4>2. <<current, m>> \in ToSet(chan[calls])
        BY <1>1, <4>1 DEF ToSet
      <4>3. QED
        BY <2>2, <3>1, <4>2
    <3>3. Numbers(<< >>, current) = {} /\ Ordered(<< >>, current)
      BY DEF Numbers, Ordered
    <3>4. Flow(output, << >>, current, logged[current], missed')
      BY <2>1, <2>4, <3>2, <3>3 DEF Flow
    <3>5. QED
      BY <3>1, <3>4
  <2>7. QED
    BY <2>5, <2>6
<1>12. CASE UNCHANGED <<logged, call, calls, current, output, overlapped, chan,
                        missed>>
  BY <1>2, <1>12 DEF FlowInv, Coming
<1>13. QED
  BY <1>5, <1>6, <1>8, <1>9, <1>10, <1>11, <1>12
     DEF Next, Browser, Connect, Restart, vars

-----------------------------------------------------------------------------
(* The theorems.                                                           *)

LEMMA ViewInvInit == Init => ViewInv
<1> SUFFICES ASSUME Init PROVE ViewInv
  OBVIOUS
<1> USE DEF Init
<1>1. /\ 1 \in Calls /\ \A c \in Calls : c \in Nat /\ (c > 1 <=> c # 1)
      /\ First \in Shards
  BY Bounds DEF Calls
<1>2. /\ call[1] = [shard |-> First, at |-> "fetch", got |-> << >>]
      /\ \A c \in Calls : c # 1 =>
           call[c] = [shard |-> First, at |-> "none", got |-> << >>]
  BY <1>1 DEF NoCall
<1>3. << >> \in Seq(Entries) /\ << >> \in Seq(Lines) /\ Len(<< >>) = 0
  OBVIOUS
<1>4. call \in [Calls -> CallRecords]
  <2>1. call = [c \in Calls |-> call[c]]
    OBVIOUS
  <2>2. \A at \in {"fetch", "none"} :
          [shard |-> First, at |-> at, got |-> << >>] \in CallRecords
    BY <1>1, <1>3 DEF CallRecords
  <2>3. \A c \in Calls : call[c] \in CallRecords
    <3>1. SUFFICES ASSUME NEW c \in Calls PROVE call[c] \in CallRecords
      OBVIOUS
    <3>2. CASE c = 1
      BY <1>2, <2>2, <3>2, Zenon
    <3>3. CASE c # 1
      BY <1>2, <2>2, <3>3, Zenon
    <3>4. QED
      BY <3>2, <3>3
  <2>4. QED
    BY <2>1, <2>3
<1>5. ViewTypeOK
  BY <1>1, <1>3, <1>4, Bounds DEF ViewTypeOK, StreamStates
<1>6. CapsInv
  BY <1>3, Bounds DEF CapsInv
<1>7. StageInv
  BY <1>1, <1>2 DEF StageInv, Subscribed
<1>8. OwnInv
  BY <1>1, <1>2, <1>3 DEF OwnInv
<1>9. AloneInv
  BY <1>1, <1>2 DEF AloneInv, InFlight, Live, Subscribed
<1>10. ShowsSelectedShard
  BY DEF ShowsSelectedShard
<1>11. FlowInv
  <2>1. Coming = << >>
    BY <1>2 DEF Coming
  <2>2. \A s : Numbers(<< >>, s) = {} /\ Ordered(<< >>, s)
    BY DEF Numbers, Ordered
  <2>3. QED
    BY <2>1, <2>2 DEF FlowInv, Flow
<1>12. QED
  BY <1>5, <1>6, <1>7, <1>8, <1>9, <1>10, <1>11 DEF ViewInv

LEMMA ViewInvariant == Spec => []ViewInv
<1>1. ViewInv /\ [Next]_vars => ViewInv'
  BY ViewTypeStep, CapsStep, StageStep, OwnStep, AloneStep, ShardStep, FlowStep
     DEF ViewInv
<1>2. QED
  BY ViewInvInit, <1>1, PTL DEF Spec

\* Types and capacities: the view keeps its cap and a channel its slots
\* (app.js:435, logbuffer.go:79).
THEOREM ViewTypes == Spec => []TypeOK
<1>1. ViewInv => TypeOK
  <2> SUFFICES ASSUME ViewInv PROVE TypeOK
    OBVIOUS
  <2>1. ViewTypeOK /\ CapsInv
    BY DEF ViewInv
  <2>2. \A c \in Calls : call[c] \in CallRecords
    BY <2>1 DEF ViewTypeOK
  <2>3. QED
    BY <2>1, <2>2 DEF ViewTypeOK, CapsInv, TypeOK, CallRecords, Entries
<1>2. QED
  BY ViewInvariant, <1>1, PTL

\* Whatever the user selects, and however fetches, streams and crashes fall
\* together, the view shows a line of another shard only if a call for that
\* shard was in flight together with another call and has not come to its end
\* since (app.js:397-424).
THEOREM OneShardAtATime == Spec => []ShowsSelectedShard
<1>1. ViewInv => ShowsSelectedShard
  BY DEF ViewInv
<1>2. QED
  BY ViewInvariant, <1>1, PTL

\* The EventSource in logStream, which the next call closes, is the only one
\* that is alive, but for those of calls that themselves were in flight
\* together with another one (app.js:397,419).
THEOREM OneStreamAtATime == Spec => []NoStreamLeaks
<1>1. ViewInv => NoStreamLeaks
  BY DEF ViewInv, AloneInv, NoStreamLeaks
<1>2. QED
  BY ViewInvariant, <1>1, PTL

\* The view shows the log of the selected shard in order, each line once, over
\* the change from backlog to stream, reconnects, crashes and restarts, and
\* leaves out only lines that were logged after the call that shows it took
\* its backlog and not sent to that call's stream, however often the shard was
\* selected before (app.js:397-440, logbuffer.go:97-117).
THEOREM ViewIsTheLog == Spec => []ShowsLogInOrder
<1>1. ViewInv => ShowsLogInOrder
  <2> SUFFICES ASSUME ViewInv, NEW s \in Shards, ~Overlapped(s),
                      NEW i \in DOMAIN output, NEW j \in DOMAIN output,
                      i < j, ShownAt(i, s), ShownAt(j, s)
               PROVE  /\ output[i][2] < output[j][2]
                      /\ \A m \in output[i][2] + 1..output[j][2] - 1 :
                           <<s, m>> \in missed \cup ToSet(output)
    BY DEF ShowsLogInOrder
  <2>1. s = current
    BY DEF ViewInv, ShowsSelectedShard
  <2>2. /\ output \in Seq(Entries) /\ i \in 1..Len(output) /\ j \in 1..Len(output)
    BY DEF ViewInv, ViewTypeOK
  <2>3. \A h \in 1..Len(output) : output[h] \in Lines \/ output[h] = ErrorLine
    BY <2>2 DEF Entries
  <2> DEFINE k == output[i][2]
             l == output[j][2]
  <2>4. /\ k \in 1..MaxLines /\ output[i] = <<s, k>>
        /\ l \in 1..MaxLines /\ output[j] = <<s, l>>
    BY <2>2, <2>3 DEF ShownAt, Lines
  <2> HIDE DEF k, l
  <2>5. Flow(output, Coming, s, logged[s], missed) /\ logged[s] \in Nat
    BY <2>1, Bounds DEF ViewInv, FlowInv, ViewTypeOK
  <2>6. k < l
    BY <2>2, <2>4, <2>5 DEF Flow, Ordered
  <2>7. k \in Numbers(output, s) /\ l \in Numbers(output, s)
    BY <2>2, <2>4 DEF Numbers
  <2>8. l <= logged[s]
    BY <2>5, <2>7 DEF Flow
  <2>9. ASSUME NEW m \in k + 1..l - 1 PROVE <<s, m>> \in missed \cup ToSet(output)
    <3>1. m \in k + 1..logged[s] /\ m < l /\ m \in Nat /\ ~(l < m)
      BY <2>4, <2>5, <2>8, Bounds
    <3>2. \/ m \in Numbers(output, s) \cup Numbers(Coming, s)
          \/ <<s, m>> \in missed
      BY <2>5, <2>7, <3>1 DEF Flow
    <3>3. m \notin Numbers(Coming, s)
      BY <2>5, <2>7, <3>1 DEF Flow
    <3>4. m \in Numbers(output, s) => <<s, m>> \in ToSet(output)
      <4>1. SUFFICES ASSUME NEW h \in 1..Len(output), output[h] = <<s, m>>
                     PROVE  <<s, m>> \in ToSet(output)
        BY DEF Numbers
      <4>2. h \in DOMAIN output
        BY <2>2
      <4>3. QED
        BY <4>1, <4>2 DEF ToSet
    <3>5. QED
      BY <3>2, <3>3, <3>4
  <2>10. QED
    BY <2>6, <2>9 DEF k, l
<1>2. QED
  BY ViewInvariant, <1>1, PTL

=============================================================================
