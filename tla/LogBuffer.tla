------------------------------ MODULE LogBuffer ------------------------------
(***************************************************************************)
(* The ring buffer of log lines and its subscribers                        *)
(* (supervisor/logbuffer.go).  Writers are the drainPipe goroutines of     *)
(* stdout and stderr, each with its own PrefixWriter (module PrefixWriter  *)
(* has the cutting into lines); streams are the subscribers, the observer  *)
(* and the clients of GET /api/logs/stream.                                *)
(*                                                                         *)
(* store appends a batch to the ring under mu, then offers each line to    *)
(* each subscriber under subMu.RLock, without waiting for room.  A pending *)
(* subMu.Lock keeps new readers out, as sync.RWMutex does.                 *)
(*                                                                         *)
(* The k-th line that writer w stores is named <<w, k>>.                   *)
(***************************************************************************)
EXTENDS Naturals, Sequences, SequencesExt, FiniteSets

CONSTANTS
  Writers,   \* drainPipe goroutines
  Streams,   \* subscribers, each of which subscribes once
  Size,      \* capacity of the ring
  SubCap,    \* slots of a subscriber channel (64)
  MaxBatch,  \* lines that one Write completes
  MaxLines,  \* bound: lines stored by all writers together
  NoLine     \* the empty string of a slot never written

ASSUME LogAssumption ==
  /\ Size \in Nat \ {0} /\ SubCap \in Nat \ {0}
  /\ MaxBatch \in Nat \ {0} /\ MaxLines \in Nat
  /\ IsFiniteSet(Writers)

VARIABLES
  ring,    \* lines, pos and wrapped
  stored,  \* stored[w]: lines that w has stored
  job,     \* job[w]: where w is in store, and what it has still to offer
  sub,     \* sub[s]: where s is
  chan,    \* chan[s]: the subscriber's channel
  got,     \* got[s]: what s has received
  before   \* <<a, b>>: the store of a was over when that of b began, or the
           \* two are lines of one batch in this order (history)

vars == <<ring, stored, job, sub, chan, got, before>>

Lines == Writers \X (1..MaxLines)
Idle  == [at |-> "idle", batch |-> << >>, left |-> {}]

\* The subscribers in the map subs.
subs == {s \in Streams : sub[s] \in {"in", "leaving"}}

Rings == [lines : [0..Size - 1 -> Lines \cup {NoLine}],
          pos : 0..Size - 1, wrapped : BOOLEAN]

\* No send to a full channel, no index outside the ring, and no offer to a
\* subscriber outside of subs: left is what the range over subs has still to
\* visit.
TypeOK ==
  /\ ring \in Rings
  /\ stored \in [Writers -> 0..MaxLines]
  /\ \A w \in Writers : /\ job[w].at \in {"idle", "stored", "fan"}
                        /\ job[w].batch \in Seq(Lines)
                        /\ job[w].left \subseteq subs
  /\ sub \in [Streams -> {"out", "joining", "in", "leaving", "closing", "gone"}]
  /\ \A s \in Streams : /\ chan[s] \in Seq(Lines) /\ Len(chan[s]) <= SubCap
                        /\ got[s] \in Seq(Lines)
  /\ before \subseteq Lines \X Lines

Init ==
  /\ ring   = [lines |-> [i \in 0..Size - 1 |-> NoLine], pos |-> 0,
               wrapped |-> FALSE]
  /\ stored = [w \in Writers |-> 0]
  /\ job    = [w \in Writers |-> Idle]
  /\ sub    = [s \in Streams |-> "out"]
  /\ chan   = [s \in Streams |-> << >>]
  /\ got    = [s \in Streams |-> << >>]
  /\ before = {}

-----------------------------------------------------------------------------
(* store.                                                                  *)

\* Mutant of Put: the position is not taken modulo the size.
PutPastEnd(r, line) ==
  [lines   |-> [r.lines EXCEPT ![r.pos] = line],
   pos     |-> r.pos + 1,
   wrapped |-> r.wrapped \/ r.pos + 1 = Size]

Put(r, line) ==
  [lines   |-> [r.lines EXCEPT ![r.pos] = line],
   pos     |-> (r.pos + 1) % Size,
   wrapped |-> r.wrapped \/ (r.pos + 1) % Size = 0]

\* Mutant of PutAll: of a batch larger than the ring, the rest is dropped.
PutAllThatFit(r, batch) ==
  LET after[i \in 0..Len(batch)] ==
        IF i = 0 THEN r
        ELSE IF i > Size THEN after[i - 1] ELSE Put(after[i - 1], batch[i])
  IN  after[Len(batch)]

\* The ring after a batch, whose lines enter one by one.
PutAll(r, batch) ==
  LET after[i \in 0..Len(batch)] ==
        IF i = 0 THEN r ELSE Put(after[i - 1], batch[i])
  IN  after[Len(batch)]

\* The next n lines of w.
Batch(w, n) == [i \in 1..n |-> <<w, stored[w] + i>>]

Stored == {l \in Lines : l[2] <= stored[l[1]]}

\* Lines whose store is over.
Completed ==
  {l \in Stored : \A i \in DOMAIN job[l[1]].batch :
                    l[2] < job[l[1]].batch[i][2]}

(* The part of store under mu.                                             *)
Store(w, n) ==
  /\ job[w].at = "idle"
  /\ Cardinality(Stored) + n <= MaxLines
  /\ ring' = PutAll(ring, Batch(w, n))
  /\ stored' = [stored EXCEPT ![w] = @ + n]
  /\ job' = [job EXCEPT ![w] =
               [at |-> "stored", batch |-> Batch(w, n), left |-> {}]]
  /\ LET new == ToSet(Batch(w, n)) IN
       before' = before \cup (Completed \X new)
                        \cup {p \in new \X new : p[1][2] < p[2][2]}
  /\ UNCHANGED <<sub, chan, got>>

LockPending == \E s \in Streams : sub[s] \in {"joining", "leaving"}

(* subMu.RLock, and the range over subs for the first line.                *)
StartFan(w) ==
  /\ job[w].at = "stored"
  /\ ~LockPending
  /\ job' = [job EXCEPT ![w].at = "fan", ![w].left = subs]
  /\ UNCHANGED <<ring, stored, sub, chan, got, before>>

\* Mutant of Offer: the select has no default case.
OfferWaits(w, s) ==
  /\ job[w].at = "fan" /\ s \in job[w].left
  /\ Len(chan[s]) < SubCap
  /\ chan' = [chan EXCEPT ![s] = Append(@, Head(job[w].batch))]
  /\ job' = [job EXCEPT ![w].left = @ \ {s}]
  /\ UNCHANGED <<ring, stored, sub, got, before>>

\* Mutant of Offer: the send captures the loop's variable, and so offers the
\* last line of the batch each time.
OfferLast(w, s) ==
  /\ job[w].at = "fan" /\ s \in job[w].left
  /\ chan' = IF Len(chan[s]) < SubCap
               THEN [chan EXCEPT ![s] = Append(@, Last(job[w].batch))]
               ELSE chan
  /\ job' = [job EXCEPT ![w].left = @ \ {s}]
  /\ UNCHANGED <<ring, stored, sub, got, before>>

(* select { case ch <- line: default: }                                    *)
Offer(w, s) ==
  /\ job[w].at = "fan" /\ s \in job[w].left
  /\ chan' = IF Len(chan[s]) < SubCap
               THEN [chan EXCEPT ![s] = Append(@, Head(job[w].batch))]
               ELSE chan
  /\ job' = [job EXCEPT ![w].left = @ \ {s}]
  /\ UNCHANGED <<ring, stored, sub, got, before>>

(* The next line of the batch, or subMu.RUnlock.                           *)
NextLine(w) ==
  /\ job[w].at = "fan" /\ job[w].left = {}
  /\ job' = [job EXCEPT ![w] =
               IF Len(@.batch) = 1 THEN Idle
               ELSE [at |-> "fan", batch |-> Tail(@.batch), left |-> subs]]
  /\ UNCHANGED <<ring, stored, sub, chan, got, before>>

-----------------------------------------------------------------------------
(* Subscribe, Unsubscribe and the subscriber's loop.                       *)

Step(s, from, to) == sub[s] = from /\ sub' = [sub EXCEPT ![s] = to]

Fanning == \E w \in Writers : job[w].at = "fan"

(* Subscribe and Unsubscribe wait in subMu.Lock ...                        *)
Subscribe(s) ==
  /\ Step(s, "out", "joining")
  /\ UNCHANGED <<ring, stored, job, chan, got, before>>

Unsubscribe(s) ==
  /\ Step(s, "in", "leaving")
  /\ UNCHANGED <<ring, stored, job, chan, got, before>>

(* ... until no store is fanning out, and change the map.                  *)
Join(s) ==
  /\ ~Fanning
  /\ Step(s, "joining", "in")
  /\ UNCHANGED <<ring, stored, job, chan, got, before>>

\* Mutant of Leave: the map is a sync.Map and delete takes no lock.
LeaveUnlocked(s) ==
  /\ Step(s, "leaving", "closing")
  /\ UNCHANGED <<ring, stored, job, chan, got, before>>

Leave(s) ==
  /\ ~Fanning
  /\ Step(s, "leaving", "closing")
  /\ UNCHANGED <<ring, stored, job, chan, got, before>>

(* close(ch), after the unlock.                                            *)
Close(s) ==
  /\ Step(s, "closing", "gone")
  /\ UNCHANGED <<ring, stored, job, chan, got, before>>

(* The subscriber, as fast or as slow as it likes, takes a line.           *)
Receive(s) ==
  /\ sub[s] = "in" /\ chan[s] # << >>
  /\ got' = [got EXCEPT ![s] = Append(@, Head(chan[s]))]
  /\ chan' = [chan EXCEPT ![s] = Tail(@)]
  /\ UNCHANGED <<ring, stored, job, sub, before>>

-----------------------------------------------------------------------------
FanOut(w) == StartFan(w) \/ NextLine(w) \/ \E s \in Streams : Offer(w, s)

Locking(s) == Join(s) \/ Leave(s)

Next ==
  \/ \E w \in Writers : \/ \E n \in 1..MaxBatch : Store(w, n)
                        \/ FanOut(w)
  \/ \E s \in Streams :
       Subscribe(s) \/ Unsubscribe(s) \/ Locking(s) \/ Close(s) \/ Receive(s)

Spec == Init /\ [][Next]_vars

\* Goroutines that can run do; a subscriber owes nothing once it is past
\* subMu.Lock, so it may stop reading its channel for ever.
Fairness ==
  /\ \A w \in Writers : WF_vars(FanOut(w))
  /\ \A s \in Streams : WF_vars(Locking(s))

FairSpec == Spec /\ Fairness

-----------------------------------------------------------------------------
(* Last(n) of a ring r.                                                    *)

Total(r) == IF r.wrapped THEN Size ELSE r.pos

\* Mutant of LastLines: the start index lacks the + size of a wrapped ring.
LastFromZero(r, n) ==
  LET m     == IF n > Total(r) THEN Total(r) ELSE n
      start == IF r.pos < m THEN 0 ELSE r.pos - m
  IN  [i \in 1..m |-> r.lines[(start + i - 1) % Size]]

LastLines(r, n) ==
  LET m     == IF n > Total(r) THEN Total(r) ELSE n
      start == IF r.pos < m THEN r.pos + Size - m ELSE r.pos - m
  IN  [i \in 1..m |-> r.lines[(start + i - 1) % Size]]

-----------------------------------------------------------------------------
\* GET /api/logs shows the last lines of all that were passed to store, each
\* once and oldest first, whatever the sizes of the batches that wrapped the
\* ring (logbuffer.go:95-144).
W == INSTANCE LogWindow
       WITH passed <- stored, window <- LastLines(ring, Size)

ShowsLastLines == W!Spec

\* A short request (?lines=N) shows the end of what a long one shows.
LastIsSuffix ==
  \A n \in 0..Size :
    LastLines(ring, n) = W!Newest(LastLines(ring, Size + 1), n)

\* A send on a closed channel panics and would end the supervisor
\* (logbuffer.go:107-115, 156-161): nobody that a store may still offer a
\* line to has been closed.
NoSendOnClosed ==
  \A w \in Writers : \A s \in job[w].left : sub[s] # "gone"

\* Subscribers see one order of the log as far as it has one: if the store of
\* a was over before that of b began, or both are lines of one batch, nobody
\* receives b before a, and nobody receives a line twice.  (Two stores that
\* overlap may reach a subscriber in another order than the ring,
\* logbuffer.go:97-116.)
DeliveredInOrder ==
  \A s \in Streams :
    LET seen == got[s] \o chan[s] IN
      \A i, j \in DOMAIN seen :
        i < j => seen[i] # seen[j] /\ <<seen[j], seen[i]>> \notin before

\* process.go:67 "DST writes to OS pipes and is never blocked by our log
\* processing": a store ends, even with subscribers that never read.
StoresEnd == \A w \in Writers : job[w].at # "idle" ~> job[w].at = "idle"

=============================================================================
