------------------------------ MODULE LogWindow ------------------------------
(***************************************************************************)
(* What the LogBuffer promises to its readers: a window on the last Size   *)
(* lines of the log, in the order in which they were stored.  Each line    *)
(* that a writer passes on enters it, once and in the writer's order, a    *)
(* batch of lines at once.                                                 *)
(***************************************************************************)
EXTENDS Naturals, Sequences

CONSTANTS
  Writers,  \* who stores lines
  Size,     \* length of the window
  MaxBatch  \* lines stored at once

VARIABLES
  passed,   \* passed[w]: lines that w has passed on
  window

\* The next n lines of w.
Batch(w, n) == [i \in 1..n |-> <<w, passed[w] + i>>]

\* The last n elements of s, all of them if there are fewer.
Newest(s, n) == IF Len(s) <= n THEN s ELSE SubSeq(s, Len(s) - n + 1, Len(s))

Init == passed = [w \in Writers |-> 0] /\ window = << >>

Store(w, n) ==
  /\ passed' = [passed EXCEPT ![w] = @ + n]
  /\ window' = Newest(window \o Batch(w, n), Size)

Next == \E w \in Writers, n \in 1..MaxBatch : Store(w, n)

Spec == Init /\ [][Next]_<<passed, window>>
=============================================================================
