---------------------------- MODULE PlayerTracker -----------------------------
(***************************************************************************)
(* The list of online players (supervisor/players.go) and what keeps it up *)
(* to date: lines that the observer reads (supervisor/observer.go), the    *)
(* poll that sends c_listplayers() and then prunes, and Restart, which     *)
(* clears it (supervisor/server.go) and may overlap with another Restart.  *)
(*                                                                         *)
(* Time is discrete.  LastSeen is represented by its age.  The behaviour   *)
(* begins when main has stored the first process; that main ends with it   *)
(* (module Supervisor) is left out, which only prolongs behaviours.        *)
(***************************************************************************)
EXTENDS Naturals

CONSTANTS
  Players,
  Restarts,      \* goroutines that run Restart
  PollInterval,  \* DST_PLAYER_POLL_INTERVAL (5 minutes)
  StaleAge,      \* DST_PLAYER_STALE (12 minutes)
  AnswerTime     \* between the poll's command and Prune (2 seconds)

ASSUME PlayerAssumption ==
  PollInterval \in Nat \ {0} /\ StaleAge \in Nat \ {0} /\ AnswerTime \in Nat \ {0}

VARIABLES
  server,   \* sup.dst is "down", or up and State "running" or not ("loading")
  orphaned, \* a DST runs that is not sup.dst any more
  restart,  \* restart[r]: where r is in Restart
  met,      \* Restarts under way together with another one (history)
  online,   \* players connected to sup.dst
  lines,    \* players with a line on its way to the observer
  asked,    \* a c_listplayers() that sup.dst has not answered
  tracked,  \* keys of PlayerTracker.players
  age,      \* age[p]: time since LastSeen, while p is tracked
  timer,    \* time until the poll's ticker fires
  tick,     \* the ticker's channel holds a tick
  poll,     \* pollPlayers: "idle", "sending" its command, or "waiting"
  rest,     \* how long it has still to wait
  known,    \* online players seen since they joined, and since they were
            \* cleared by a Restart that met another (history)
  miss,     \* miss[p]: ticks since p was last seen (history)
  prompt,   \* no c_listplayers() has had to wait for the console (history)
  skipped   \* since the last Prune a tick brought none, or a
            \* c_listplayers() had to wait (history)

dstVars  == <<server, orphaned, restart, met, online, asked>>
listVars == <<tracked, age>>
pollVars == <<timer, tick, poll, rest>>
histVars == <<miss, prompt, skipped>>
vars     == <<dstVars, lines, listVars, pollVars, known, histVars>>

\* Ages and misses are not told apart beyond these.
MaxAge  == StaleAge + PollInterval + AnswerTime + 1
MaxMiss == StaleAge + 1

CapAt(n, max) == IF n > max THEN max ELSE n

Init ==
  /\ server = "loading" /\ orphaned = FALSE
  /\ restart = [r \in Restarts |-> "idle"] /\ met = {}
  /\ online = {} /\ lines = {} /\ tracked = {} /\ known = {}
  /\ age = [p \in Players |-> 0] /\ miss = [p \in Players |-> 0]
  /\ timer \in 1..PollInterval /\ rest = 0 /\ poll = "idle"
  /\ asked = FALSE /\ tick = FALSE /\ prompt = TRUE /\ skipped = FALSE

-----------------------------------------------------------------------------
(* DST and its players (external), and the way of a line.                  *)

ServerReady ==
  /\ server = "loading"
  /\ server' = "running"
  /\ UNCHANGED <<orphaned, restart, met, online, asked, lines, listVars,
                 pollVars, known, histVars>>

\* A Restart that has captured this process is past its Wait.
ServerStops ==
  /\ server # "down"
  /\ server' = "down"
  /\ restart' = [r \in Restarts |->
                   IF restart[r] = "waiting" THEN "clearing" ELSE restart[r]]
  /\ online' = {} /\ known' = {} /\ asked' = FALSE
  /\ UNCHANGED <<orphaned, met, lines, listVars, pollVars, histVars>>

\* "Client authenticated: (KU_...) name"
Join(p) ==
  /\ server # "down" /\ p \notin online
  /\ online' = online \cup {p}
  /\ lines' = lines \cup {p}
  /\ UNCHANGED <<server, orphaned, restart, met, asked, listVars, pollVars,
                 known, histVars>>

\* "[Leave Announcement] name" carries no ID; its handler changes nothing.
LeaveAnnounced(p) ==
  /\ p \in online
  /\ online' = online \ {p}
  /\ known' = known \ {p}
  /\ UNCHANGED <<server, orphaned, restart, met, asked, lines, listVars,
                 pollVars, histVars>>

\* The answer to c_listplayers(), however late.
Answer ==
  /\ asked
  /\ asked' = FALSE
  /\ lines' = lines \cup online
  /\ UNCHANGED <<server, orphaned, restart, met, online, listVars, pollVars,
                 known, histVars>>

(* POST /api/players/sync: a c_listplayers() that no Prune follows.        *)
Sync ==
  /\ server # "down"
  /\ asked' = TRUE
  /\ UNCHANGED <<server, orphaned, restart, met, online, lines, listVars,
                 pollVars, known, histVars>>

\* A DST that the supervisor has lost goes on printing into its log.
OrphanLine(p) ==
  /\ orphaned
  /\ lines' = lines \cup {p}
  /\ UNCHANGED <<dstVars, listVars, pollVars, known, histVars>>

\* A full subscriber channel loses a line.
LoseLine(p) ==
  /\ p \in lines
  /\ lines' = lines \ {p}
  /\ UNCHANGED <<dstVars, listVars, pollVars, known, histVars>>

-----------------------------------------------------------------------------
(* Restart.                                                                *)

UnderWay == {r \in Restarts : restart[r] # "idle"}

\* State is set to something other than Running.
NotRunning == IF server = "down" THEN "down" ELSE "loading"

(* Restart captures the process and sets Stopping; it waits, through save, *)
(* c_shutdown() and perhaps SIGKILL, until that process has exited.        *)
RestartBegins(r) ==
  /\ restart[r] = "idle"
  /\ restart' = [restart EXCEPT ![r] =
                   IF server = "down" THEN "clearing" ELSE "waiting"]
  /\ met' = IF UnderWay = {} THEN met \ {r} ELSE met \cup UnderWay \cup {r}
  /\ server' = NotRunning
  /\ UNCHANGED <<orphaned, online, asked, lines, listVars, pollVars, known,
                 histVars>>

\* Mutant of Clear: the list is cleared before the old process has exited.
ClearEarly(r) ==
  /\ restart[r] \in {"waiting", "clearing"}
  /\ restart' = [restart EXCEPT ![r] = "launching"]
  /\ server' = NotRunning
  /\ tracked' = {}
  /\ age' = [p \in Players |-> 0]
  /\ known' = IF r \in met THEN {} ELSE known
  /\ UNCHANGED <<orphaned, met, online, asked, lines, pollVars, histVars>>

(* Starting, and Players.Clear, also when another Restart has launched a   *)
(* new process by now.                                                     *)
Clear(r) ==
  /\ restart[r] = "clearing"
  /\ restart' = [restart EXCEPT ![r] = "launching"]
  /\ server' = NotRunning
  /\ tracked' = {}
  /\ age' = [p \in Players |-> 0]
  /\ known' = IF r \in met THEN {} ELSE known
  /\ UNCHANGED <<orphaned, met, online, asked, lines, pollVars, histVars>>

(* StartDST.  A process that another Restart has launched is orphaned; who *)
(* waits for that one goes on whenever it exits.                           *)
Launch(r) ==
  /\ restart[r] = "launching"
  /\ restart' = [q \in Restarts |->
                   IF q = r THEN "idle"
                   ELSE IF restart[q] = "waiting" THEN "clearing"
                   ELSE restart[q]]
  /\ server' = "loading"
  /\ orphaned' = (orphaned \/ server # "down")
  /\ online' = {} /\ known' = {} /\ asked' = FALSE
  /\ UNCHANGED <<met, lines, listVars, pollVars, histVars>>

LaunchFails(r) ==
  /\ restart[r] = "launching"
  /\ restart' = [restart EXCEPT ![r] = "idle"]
  /\ server' = NotRunning
  /\ UNCHANGED <<orphaned, met, online, asked, lines, listVars, pollVars, known,
                 histVars>>

-----------------------------------------------------------------------------
(* The observer.                                                           *)

\* Mutant of Seen: a player already in the map keeps LastSeen.
SeenOnce(p) ==
  /\ p \in lines
  /\ lines' = lines \ {p}
  /\ tracked' = tracked \cup {p}
  /\ known' = known \cup ({p} \cap online)
  /\ miss' = [miss EXCEPT ![p] = 0]
  /\ UNCHANGED <<dstVars, age, pollVars, prompt, skipped>>

(* The handler of an authentication or list line: Players.Seen.            *)
Seen(p) ==
  /\ p \in lines
  /\ lines' = lines \ {p}
  /\ tracked' = tracked \cup {p}
  /\ age' = [age EXCEPT ![p] = 0]
  /\ known' = known \cup ({p} \cap online)
  /\ miss' = [miss EXCEPT ![p] = 0]
  /\ UNCHANGED <<dstVars, pollVars, prompt, skipped>>

\* A tick that finds the channel full is dropped.
Tick ==
  /\ timer = 0
  /\ timer' = PollInterval
  /\ tick' = TRUE
  /\ miss' = [p \in Players |-> CapAt(miss[p] + 1, MaxMiss)]
  /\ UNCHANGED <<dstVars, lines, listVars, poll, rest, known, prompt, skipped>>

(* The poll finds State other than Running.                                *)
PollSkipped ==
  /\ poll = "idle" /\ tick /\ server # "running"
  /\ tick' = FALSE
  /\ skipped' = TRUE
  /\ UNCHANGED <<dstVars, lines, listVars, timer, poll, rest, known, miss,
                 prompt>>

PollSends ==
  /\ poll = "idle" /\ tick /\ server = "running"
  /\ tick' = FALSE
  /\ poll' = "sending"
  /\ UNCHANGED <<dstVars, lines, listVars, timer, rest, known, histVars>>

(* SendCommand returns; without an error the poll sleeps.                  *)
Sent ==
  /\ poll = "sending" /\ server # "down"
  /\ asked' = TRUE
  /\ poll' = "waiting" /\ rest' = AnswerTime
  /\ UNCHANGED <<server, orphaned, restart, met, online, lines, listVars, timer,
                 tick, known, histVars>>

SendFails ==
  /\ poll = "sending"
  /\ poll' = "idle"
  /\ skipped' = TRUE
  /\ UNCHANGED <<dstVars, lines, listVars, timer, tick, rest, known, miss,
                 prompt>>

\* The end of a poll that removes the players in stale.
RemoveStale(stale) ==
  /\ poll = "waiting" /\ rest = 0
  /\ tracked' = tracked \ stale
  /\ age' = [p \in Players |-> IF p \in stale THEN 0 ELSE age[p]]
  /\ poll' = "idle"
  /\ skipped' = FALSE
  /\ UNCHANGED <<dstVars, lines, timer, tick, rest, known, miss, prompt>>

\* Mutant of Prune: the comparison is turned round.
PruneYoung ==
  RemoveStale({p \in tracked : age[p] < StaleAge})

(* AnswerTime after the command: Players.Prune.                            *)
Prune == RemoveStale({p \in tracked : age[p] > StaleAge})

\* Only SendCommand, which may wait for a lock or for room in the pipe, and
\* DST take time; the rest of the poll is done at once.
Pass ==
  /\ timer > 0
  /\ poll = "idle" => ~tick
  /\ poll = "waiting" => rest > 0
  /\ timer' = timer - 1
  /\ rest' = IF poll = "waiting" THEN rest - 1 ELSE rest
  /\ age' = [p \in Players |->
               IF p \in tracked THEN CapAt(age[p] + 1, MaxAge) ELSE 0]
  /\ prompt' = (prompt /\ poll # "sending")
  /\ skipped' = (skipped \/ poll = "sending")
  /\ UNCHANGED <<dstVars, lines, tracked, tick, poll, known, miss>>

-----------------------------------------------------------------------------
DST == ServerReady \/ ServerStops \/ Answer \/ Sync

Line(p) ==
  Join(p) \/ LeaveAnnounced(p) \/ OrphanLine(p) \/ LoseLine(p) \/ Seen(p)

Restart(r) == RestartBegins(r) \/ Clear(r) \/ Launch(r) \/ LaunchFails(r)

Poll == Tick \/ PollSkipped \/ PollSends \/ Sent \/ SendFails \/ Prune

Next ==
  \/ DST \/ Poll \/ Pass
  \/ \E p \in Players : Line(p)
  \/ \E r \in Restarts : Restart(r)

Spec == Init /\ [][Next]_vars

-----------------------------------------------------------------------------
\* The Prune of a tick runs AnswerTime after it, or at any time before the next
\* one if a command has had to wait.
LastWait ==
  IF prompt /\ AnswerTime < PollInterval THEN AnswerTime ELSE PollInterval

\* How long p may have been without a line when the next Prune runs.
Silence(p) == miss[p] * PollInterval + LastWait

\* A player who is online and has been seen stays listed unless so many ticks
\* in a row brought no line of the player that they span the stale age
\* (players.go:60, observer.go:159-176): with the defaults (main.go:40-41), two
\* lost answers, or an answer that comes after the Prune of its own poll,
\* remove nobody.  The one exception is a Restart that met another
\* (server.go:156-158): it clears the players of the process that the other has
\* launched.  A Restart on its own never clears a player who is online.
OnlineStayListed ==
  \A p \in known : Silence(p) < StaleAge => p \in tracked

\* Players who left (the next poll does not reconcile them, as observer.go:100
\* has it: Prune waits for StaleAge), who were cleared and came back through a
\* late line, or whose server went away are listed for StaleAge and one poll at
\* most, unless a poll was skipped or had to wait (observer.go:165-171): while
\* the state is not Running nothing ages out.
GhostsAgeOut ==
  ~skipped =>
    \A p \in tracked : age[p] <= StaleAge + PollInterval + AnswerTime

=============================================================================
