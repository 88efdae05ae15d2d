----------------------------- MODULE PrefixWriter -----------------------------
(***************************************************************************)
(* How a prefixWriter cuts the byte stream of a DST pipe into lines        *)
(* (prefixWriter.Write in supervisor/logbuffer.go), whatever the sizes of  *)
(* the reads of drainPipe.                                                 *)
(*                                                                         *)
(* A byte is named by its position in the stream, so that a lost, doubled  *)
(* or moved byte shows; whether it is a newline is chosen as it is read.   *)
(* The prefix of a line is left out: a line is the sequence of its bytes.  *)
(***************************************************************************)
EXTENDS Naturals, Sequences, SequencesExt

CONSTANTS
  Cap,       \* maxPartialLen (16 KiB)
  MaxChunk,  \* bytes that one read of drainPipe returns (32 KiB)
  MaxBytes   \* bound: length of the stream

ASSUME PrefixAssumption ==
  Cap \in Nat \ {0} /\ MaxChunk \in Nat \ {0} /\ MaxBytes \in Nat

VARIABLES
  count,     \* bytes written so far
  newlines,  \* those of them that are newlines
  partial,   \* prefixWriter.partial
  lines      \* every line passed to LogBuffer.store

vars == <<count, newlines, partial, lines>>

\* Types, and the memory that the cap bounds: what a Write leaves behind is
\* shorter than the cap (logbuffer.go:62), a line may exceed it, but by less
\* than one read.
TypeOK ==
  /\ count \in 0..MaxBytes
  /\ newlines \subseteq 1..count
  /\ partial \in Seq(1..count) /\ Len(partial) < Cap
  /\ lines \in Seq(Seq(1..count))
  /\ \A i \in DOMAIN lines : Len(lines[i]) < Cap + MaxChunk

Init ==
  /\ count = 0
  /\ newlines = {}
  /\ partial = << >>
  /\ lines = << >>

-----------------------------------------------------------------------------
\* Mutant of Feed: a newline does not reset the partial buffer.
FeedNoReset(w, byte, nl) ==
  IF byte \in nl
    THEN IF w.partial = << >> THEN w
         ELSE [w EXCEPT !.completed = Append(@, w.partial)]
    ELSE [w EXCEPT !.partial = Append(@, byte)]

\* One byte of the chunk: a newline ends the line, an empty line is skipped.
Feed(w, byte, nl) ==
  IF byte \in nl
    THEN [partial   |-> << >>,
          completed |-> IF w.partial = << >> THEN w.completed
                        ELSE Append(w.completed, w.partial)]
    ELSE [w EXCEPT !.partial = Append(@, byte)]

\* Mutant of Flush: the cap is checked with > instead of >=.
FlushLate(w) ==
  IF Len(w.partial) > Cap
    THEN [partial |-> << >>, completed |-> Append(w.completed, w.partial)]
    ELSE w

\* Mutant of Flush: the partial line is flushed after every chunk.
FlushAlways(w) ==
  IF w.partial # << >>
    THEN [partial |-> << >>, completed |-> Append(w.completed, w.partial)]
    ELSE w

\* What is left when the chunk has no further newline; the cap is an implicit
\* newline.
Flush(w) ==
  IF Len(w.partial) >= Cap
    THEN [partial |-> << >>, completed |-> Append(w.completed, w.partial)]
    ELSE w

(* Write(p) for a chunk of n bytes, of which those in nl are newlines.     *)
Write(n, nl) ==
  LET fed[i \in 0..n] == IF i = 0
                           THEN [partial |-> partial, completed |-> << >>]
                           ELSE Feed(fed[i - 1], count + i, nl)
      final == Flush(fed[n])
  IN  /\ count' = count + n
      /\ newlines' = newlines \cup nl
      /\ partial' = final.partial
      /\ lines' = lines \o final.completed

Next ==
  \E n \in 1..MaxChunk :
    /\ count + n <= MaxBytes
    /\ \E nl \in SUBSET (count + 1..count + n) : Write(n, nl)

Spec == Init /\ [][Next]_vars

-----------------------------------------------------------------------------
\* The bytes in the lines and behind them, in this order.
Kept == FlattenSeq(lines) \o partial

\* No read boundary, newline or flush loses, doubles or moves a byte of the
\* log: every byte but the newlines is kept, in the order of the stream
\* (logbuffer.go:51-93).
BytesPreserved ==
  /\ Range(Kept) = (1..count) \ newlines
  /\ \A i, j \in DOMAIN Kept : i < j => Kept[i] < Kept[j]

\* A newline between the bytes a and b.
Separated(a, b) == \E n \in newlines : a < n /\ n < b

\* The reference cut: lines are not empty and do not span a newline; two of
\* them are neighbours without a newline in between only where the first one
\* reached the cap, the "implicit newline" of logbuffer.go:8; what waits in
\* partial follows the last newline.
CutAtNewlinesOnly ==
  /\ \A i \in DOMAIN lines :
       lines[i] # << >> /\ ~Separated(Head(lines[i]), Last(lines[i]))
  /\ \A i \in 1..Len(lines) - 1 :
       \/ Separated(Last(lines[i]), Head(lines[i + 1]))
       \/ Len(lines[i]) >= Cap
  /\ partial # << >> =>
       /\ \A n \in newlines : n < Head(partial)
       /\ lines # << >> => \/ Separated(Last(Last(lines)), Head(partial))
                           \/ Len(Last(lines)) >= Cap

=============================================================================
