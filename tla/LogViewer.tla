------------------------------ MODULE LogViewer -------------------------------
(***************************************************************************)
(* The log viewer of the dashboard (webui/static/app.js): switchLogShard   *)
(* fetches the last lines of the selected shard, awaits them, and then     *)
(* opens an EventSource on the shard's live stream; both go through the    *)
(* proxy of webui/main.go to the supervisor's /api/logs and                *)
(* /api/logs/stream (supervisor/http.go).                                  *)
(*                                                                         *)
(* A call of switchLogShard has a number, and so has the EventSource that  *)
(* it opens.  Everything in the browser is one task at a time, but at the  *)
(* await other tasks get in between: lines of other streams, and the next  *)
(* call.  Line k of shard s is <<s, k>>, counted over the supervisor's     *)
(* restarts; a restarted supervisor has an empty log buffer.               *)
(***************************************************************************)
EXTENDS Naturals, Sequences, SequencesExt, FiniteSets

CONSTANTS
  Shards,     \* names of the shards
  First,      \* shardNames[0]
  Backlog,    \* lines that a call asks for (200)
  MaxOutput,  \* lines that the view keeps (500)
  SubCap,     \* slots of a subscriber channel (64)
  ErrorLine,  \* "[error loading logs: ...]"
  MaxCalls,   \* bound: calls of switchLogShard
  MaxLines,   \* bound: lines that all shards log
  MaxCrashes  \* bound: crashes of supervisors

ASSUME ViewerAssumption ==
  /\ First \in Shards /\ IsFiniteSet(Shards)
  /\ Backlog \in Nat \ {0} /\ MaxOutput \in Nat \ {0} /\ SubCap \in Nat \ {0}
  /\ ErrorLine \notin Shards \X Nat
  /\ MaxCalls \in Nat \ {0} /\ MaxLines \in Nat /\ MaxCrashes \in Nat

VARIABLES
  up,         \* up[s]: the supervisor of s answers
  base,       \* base[s]: lines of s that a restart has discarded
  logged,     \* logged[s]: lines of s so far
  crashes,    \* crashes so far
  calls,      \* calls made so far
  call,       \* call[c]: its shard, where it is, and the backlog it got
  current,    \* currentLogShard, which is what the select element shows
  logStream,  \* the call whose EventSource is in logStream, 0 for null
  stream,     \* stream[c]: the state of the EventSource of call c
  chan,       \* chan[c]: lines sent to it and not shown yet
  output,     \* the lines of #log-output
  overlapped, \* calls that were in flight together, until they can write
              \* into the view no more (history)
  missed      \* lines logged after the last call took its backlog, and not
              \* sent to its stream (history)

shardVars == <<up, base, logged, crashes>>
viewVars  == <<calls, call, current, logStream, output, overlapped>>
vars      == <<shardVars, viewVars, stream, chan, missed>>

Calls == 1..MaxCalls
Lines == Shards \X (1..MaxLines)

\* The connection states of an EventSource.  The supervisor sends nothing, not
\* even headers, before the first line: until then it has only subscribed
\* ("asked").  "refused" is an answer other than 200.
StreamStates == {"none", "connecting", "asked", "open", "refused", "closed"}

Subscribed(c) == stream[c] \in {"asked", "open"}
Live(c)       == Subscribed(c) \/ stream[c] = "connecting"

\* Types and capacities: the view never grows past its cap (app.js:435).
TypeOK ==
  /\ up \in [Shards -> BOOLEAN]
  /\ logged \in [Shards -> 0..MaxLines]
  /\ base \in [Shards -> 0..MaxLines]
  /\ crashes \in 0..MaxCrashes
  /\ calls \in Calls
  /\ \A c \in Calls : /\ call[c].shard \in Shards
                      /\ call[c].at \in {"none", "fetch", "append", "over"}
                      /\ call[c].got \in Seq(Lines \cup {ErrorLine})
                      /\ chan[c] \in Seq(Lines) /\ Len(chan[c]) <= SubCap
  /\ current \in Shards
  /\ logStream \in 0..calls
  /\ stream \in [Calls -> StreamStates]
  /\ output \in Seq(Lines \cup {ErrorLine}) /\ Len(output) <= MaxOutput
  /\ overlapped \subseteq 1..calls
  /\ missed \subseteq Lines

NoCall == [shard |-> First, at |-> "none", got |-> << >>]

(* init calls populateLogSelect, which makes the first call.               *)
Init ==
  /\ up = [s \in Shards |-> TRUE]
  /\ base = [s \in Shards |-> 0]
  /\ logged = [s \in Shards |-> 0]
  /\ crashes = 0
  /\ calls = 1
  /\ call = [c \in Calls |-> IF c = 1 THEN [NoCall EXCEPT !.at = "fetch"]
                                      ELSE NoCall]
  /\ current = First
  /\ logStream = 0
  /\ stream = [c \in Calls |-> "none"]
  /\ chan = [c \in Calls |-> << >>]
  /\ output = << >>
  /\ overlapped = {}
  /\ missed = {}

-----------------------------------------------------------------------------
(* switchLogShard up to its await.                                         *)

InFlight(c) == call[c].at \in {"fetch", "append"}

\* The calls that the next one meets at their await, and that one with them;
\* and those that met another before and have a stream that CloseStream does
\* not close.
Overlap ==
  LET met    == {c \in 1..calls : InFlight(c)}
      leaked == {c \in overlapped : Live(c) /\ c # logStream}
  IN  IF met = {} THEN leaked ELSE leaked \cup met \cup {calls + 1}

\* Close the EventSource in logStream, if there is one.
CloseStream ==
  /\ logStream' = 0
  /\ stream' = [c \in Calls |-> IF c = logStream THEN "closed" ELSE stream[c]]
  /\ chan' = [c \in Calls |-> IF c = logStream THEN << >> ELSE chan[c]]

\* Mutant of Switch: logStream.close() is gone.
SwitchLeavesStream(s) ==
  /\ s # current /\ calls < MaxCalls
  /\ current' = s
  /\ calls' = calls + 1
  /\ call' = [call EXCEPT ![calls'] = [shard |-> s, at |-> "fetch",
                                       got |-> << >>]]
  /\ overlapped' = Overlap
  /\ logStream' = 0
  /\ output' = << >>
  /\ missed' = {}
  /\ UNCHANGED <<shardVars, stream, chan>>

\* Mutant of Switch: output.innerHTML = '' is gone.
SwitchKeepsOutput(s) ==
  /\ s # current /\ calls < MaxCalls
  /\ current' = s
  /\ calls' = calls + 1
  /\ call' = [call EXCEPT ![calls'] = [shard |-> s, at |-> "fetch",
                                       got |-> << >>]]
  /\ overlapped' = Overlap
  /\ CloseStream
  /\ missed' = {}
  /\ UNCHANGED <<shardVars, output>>

(* The user selects another shard; the old stream is closed and the view   *)
(* cleared at once.                                                        *)
Switch(s) ==
  /\ s # current /\ calls < MaxCalls
  /\ current' = s
  /\ calls' = calls + 1
  /\ call' = [call EXCEPT ![calls'] = [shard |-> s, at |-> "fetch",
                                       got |-> << >>]]
  /\ overlapped' = Overlap
  /\ CloseStream
  /\ output' = << >>
  /\ missed' = {}
  /\ UNCHANGED shardVars

\* The last lines in the log buffer of s (module LogBuffer).
LastLines(s) ==
  LET from == IF logged[s] - base[s] > Backlog THEN logged[s] - Backlog
                                               ELSE base[s]
  IN  [i \in 1..(logged[s] - from) |-> <<s, from + i>>]

\* Mutant of Answer: the line just being logged is left out.
AnswerWithoutLast(c) ==
  LET s == call[c].shard IN
  /\ call[c].at = "fetch"
  /\ call' = [call EXCEPT
       ![c].at = "append",
       ![c].got = IF ~up[s] THEN <<ErrorLine>>
                  ELSE IF LastLines(s) = << >> THEN << >>
                  ELSE Front(LastLines(s))]
  /\ UNCHANGED <<shardVars, calls, current, logStream, output, overlapped,
                 stream, chan, missed>>

(* The supervisor answers GET /api/logs, or the proxy answers 502 for it   *)
(* and resp.json() throws.                                                 *)
Answer(c) ==
  LET s == call[c].shard IN
  /\ call[c].at = "fetch"
  /\ call' = [call EXCEPT
       ![c].at = "append",
       ![c].got = IF up[s] THEN LastLines(s) ELSE <<ErrorLine>>]
  /\ UNCHANGED <<shardVars, calls, current, logStream, output, overlapped,
                 stream, chan, missed>>

-----------------------------------------------------------------------------
(* switchLogShard from its await on, and the events of the stream.         *)

\* Mutant of Shown: the view has no cap.
ShownAll(lines) == lines

\* appendLogLine: the oldest lines give way.
Shown(lines) == IF Len(lines) <= MaxOutput THEN lines
                ELSE SubSeq(lines, Len(lines) - MaxOutput + 1, Len(lines))

\* Mutant of Continue: the stream is opened inside the try block, and so not
\* after an error.
ContinueInTry(c) ==
  /\ call[c].at = "append"
  /\ output' = Shown(output \o call[c].got)
  /\ IF call[c].got = <<ErrorLine>>
       THEN UNCHANGED <<logStream, stream>>
       ELSE /\ logStream' = c
            /\ stream' = [stream EXCEPT ![c] = "connecting"]
  /\ call' = [call EXCEPT ![c].at = "over", ![c].got = << >>]
  /\ UNCHANGED <<shardVars, calls, current, overlapped, chan, missed>>

(* The backlog is shown and the stream opened, even after an error, and    *)
(* whatever shard is selected by now.                                      *)
Continue(c) ==
  /\ call[c].at = "append"
  /\ output' = Shown(output \o call[c].got)
  /\ logStream' = c
  /\ stream' = [stream EXCEPT ![c] = "connecting"]
  /\ call' = [call EXCEPT ![c].at = "over", ![c].got = << >>]
  /\ UNCHANGED <<shardVars, calls, current, overlapped, chan, missed>>

(* The first request of an EventSource or one after its retry time.  An    *)
(* answer other than 200 ends it for good; onerror does nothing.           *)
Connect(c) ==
  /\ stream[c] = "connecting"
  /\ stream' = [stream EXCEPT ![c] =
                  IF up[call[c].shard] THEN "asked" ELSE "refused"]
  /\ UNCHANGED <<shardVars, viewVars, chan, missed>>

(* onmessage.                                                              *)
Deliver(c) ==
  /\ chan[c] # << >>
  /\ output' = Shown(Append(output, Head(chan[c])))
  /\ chan' = [chan EXCEPT ![c] = Tail(@)]
  /\ stream' = [stream EXCEPT ![c] = "open"]
  /\ UNCHANGED <<shardVars, calls, call, current, logStream, overlapped,
                 missed>>

-----------------------------------------------------------------------------
(* The supervisors.                                                        *)

Takes(c) == Subscribed(c) /\ Len(chan[c]) < SubCap

\* Calls for s that have their backlog, and so are past it.
PastBacklog(s) ==
  {c \in 1..calls : call[c].shard = s /\ call[c].at \in {"append", "over"}}

Logged == {l \in Lines : l[2] <= logged[l[1]]}

(* A line of s goes to every subscriber that has room for it.              *)
Log(s) ==
  LET line == <<s, logged[s] + 1>>
      mine == {c \in PastBacklog(s) : Takes(c)}
  IN  /\ up[s] /\ Cardinality(Logged) < MaxLines
      /\ logged' = [logged EXCEPT ![s] = @ + 1]
      /\ chan' = [c \in Calls |-> IF c \in mine THEN Append(chan[c], line)
                                                ELSE chan[c]]
      /\ missed' = IF calls \in PastBacklog(s) \ mine THEN missed \cup {line}
                                                     ELSE missed
      /\ UNCHANGED <<up, base, crashes, viewVars, stream>>

(* The supervisor of s ends.  A browser that has seen a line retries; one  *)
(* that waits for the headers gets the proxy's 502.                        *)
Crash(s) ==
  LET mine == {c \in 1..calls : call[c].shard = s}
  IN  /\ up[s] /\ crashes < MaxCrashes
      /\ crashes' = crashes + 1
      /\ up' = [up EXCEPT ![s] = FALSE]
      /\ stream' = [c \in Calls |->
                      IF c \in mine /\ stream[c] = "open" THEN "connecting"
                      ELSE IF c \in mine /\ stream[c] = "asked" THEN "refused"
                      ELSE stream[c]]
      /\ chan' = [c \in Calls |-> IF c \in mine THEN << >> ELSE chan[c]]
      /\ missed' = IF calls \in mine THEN missed \cup ToSet(chan[calls])
                                     ELSE missed
      /\ UNCHANGED <<base, logged, viewVars>>

(* docker's restart: unless-stopped.                                       *)
Restart(s) ==
  /\ ~up[s]
  /\ up' = [up EXCEPT ![s] = TRUE]
  /\ base' = [base EXCEPT ![s] = logged[s]]
  /\ UNCHANGED <<logged, crashes, viewVars, stream, chan, missed>>

-----------------------------------------------------------------------------
Browser(c) == Continue(c) \/ Connect(c) \/ Deliver(c)

Next ==
  \/ \E s \in Shards : Switch(s) \/ Log(s) \/ Crash(s) \/ Restart(s)
  \/ \E c \in Calls : Answer(c) \/ Browser(c)

Spec == Init /\ [][Next]_vars

\* The event loop runs its tasks, a supervisor that is up answers, and docker
\* starts a supervisor again.  Users and shards owe nothing.
FairSpec ==
  /\ Spec
  /\ \A c \in Calls : WF_vars(Answer(c)) /\ WF_vars(Continue(c))
                      /\ WF_vars(Connect(c)) /\ WF_vars(Deliver(c))
  /\ \A s \in Shards : WF_vars(Restart(s))

-----------------------------------------------------------------------------
\* The i-th entry of the view is a line of s.
ShownAt(i, s) == output[i] # ErrorLine /\ output[i][1] = s

\* Some call for s was in flight together with another call, and has not come
\* to its end since: its backlog or its stream may still get into the view.
Overlapped(s) == \E c \in overlapped : call[c].shard = s

\* The view shows lines of the selected shard only, except for shards whose
\* call was in flight together with another one (app.js:407): the backlog of
\* the first arrives after the second has cleared the view, and the stream of
\* whichever continues first stays open.  The exception ends with the first
\* switch at which neither is the case any more.
ShowsSelectedShard ==
  \A s \in Shards, i \in DOMAIN output :
    ShownAt(i, s) => s = current \/ Overlapped(s)

\* An EventSource that is open is the one in logStream, so that the next call
\* can close it; only that of a call that overlapped with another one leaks
\* (app.js:397,419).
NoStreamLeaks ==
  \A c \in Calls : Live(c) => c = logStream \/ c \in overlapped

\* The view is the log of the shard selected: no line is shown twice or after
\* a later one, over restarts, reconnects and the change from backlog to
\* stream, and lines are only missing in between where the code leaves gaps in
\* what the call that shows them gets: those logged between its backlog and
\* its subscription or during a reconnect (app.js:407-419), those for which
\* its channel had no room (logbuffer.go:109), and those that a crash took
\* along.  Shards whose call overlapped with another one are excepted, as
\* above.
ShowsLogInOrder ==
  \A s \in Shards :
    ~Overlapped(s) =>
      \A i, j \in DOMAIN output :
        i < j /\ ShownAt(i, s) /\ ShownAt(j, s) =>
          LET k == output[i][2]
              l == output[j][2]
          IN  /\ k < l
              /\ \A m \in k + 1..l - 1 : <<s, m>> \in missed \cup ToSet(output)

\* However the user switched, in the end the view is subscribed to the shard
\* selected, unless that shard was down when the browser asked (app.js:423).
FollowsInTheEnd ==
  <>[](\E c \in Calls : /\ call[c].shard = current
                        /\ Subscribed(c) \/ stream[c] = "refused")

=============================================================================
