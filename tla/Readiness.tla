------------------------------ MODULE Readiness -------------------------------
(***************************************************************************)
(* How Supervisor.State becomes Running: the supervisor of module          *)
(* Supervisor together with the two goroutines that report readiness, the  *)
(* observer (supervisor/observer.go) and the health checker                *)
(* (supervisor/health.go), and the path of a DST's ready line from its     *)
(* stdout to the observer (drainPipe, LogBuffer.store, the subscriber      *)
(* channel).                                                               *)
(*                                                                         *)
(* Each process prints its ready line ("Server registered via geo DNS" or  *)
(* "secondary shard LUA is now ready") at most once; all its other lines   *)
(* only take up room in the channel.  A line is named by its process, a    *)
(* line that matches no readiness pattern by NoProc.                       *)
(*                                                                         *)
(* Spec of module Supervisor leaves readiness to its action ReportRunning; *)
(* here that action is replaced by what the goroutines do, and Spec        *)
(* remains true (theorem RefinesSupervisor).                               *)
(***************************************************************************)
EXTENDS Supervisor

CONSTANTS
  QueueCap,    \* slots of a subscriber channel (64)
  AnswersA2S   \* whether this DST answers A2S queries at all (http.go:48)

ASSUME QueueAssumption == QueueCap \in Nat \ {0}
ASSUME A2SAssumption   == AnswersA2S \in BOOLEAN

VARIABLES
  printed,   \* processes that have written their ready line to stdout
  inPipe,    \* ready lines that drainPipe has not handed to the LogBuffer
  queue,     \* the observer's subscriber channel
  dropped,   \* ready lines that found the channel full or the pipe closed
  obs,       \* the observer: where it is, and the ready line in its hands
  fired,     \* the line that set the readiness pattern's fired, else NoProc
  lateFire,  \* fired was set for a process that a Reset had already retired
  answered,  \* processes that answered an A2S query
  probe      \* what the health checker does with a state it read as starting

readyVars == <<printed, inPipe, queue, dropped, obs, fired, lateFire, answered,
               probe>>
rvars     == <<vars, readyVars>>

Lines == Procs \cup {NoProc}

ReadyInit ==
  /\ Init
  /\ printed = {} /\ inPipe = {} /\ dropped = {} /\ answered = {}
  /\ queue = << >>
  /\ obs = [at |-> "recv", line |-> NoProc]
  /\ fired = NoProc
  /\ lateFire = FALSE
  /\ probe = "idle"

-----------------------------------------------------------------------------
(* The way of a line to the observer.                                      *)

(* DST announces that it is ready (external).                              *)
Announce(p) ==
  /\ Up /\ Alive(p) /\ p \notin printed
  /\ printed' = printed \cup {p}
  /\ inPipe' = inPipe \cup {p}
  /\ UNCHANGED <<vars, queue, dropped, obs, fired, lateFire, answered, probe>>

\* store's select: a full channel loses the line.
Offer(line) ==
  IF Len(queue) < QueueCap
    THEN queue' = Append(queue, line) /\ UNCHANGED dropped
    ELSE UNCHANGED queue /\ dropped' = dropped \cup ({line} \cap Procs)

(* drainPipe reads the line and the LogBuffer offers it to the observer,   *)
(* which may happen after p has exited.                                    *)
Drain(p) ==
  /\ Up /\ p \in inPipe
  /\ inPipe' = inPipe \ {p}
  /\ Offer(p)
  /\ UNCHANGED <<vars, printed, obs, fired, lateFire, answered, probe>>

(* cmd.Wait closes the pipe, with what drainPipe has not read.             *)
CloseStdout(p) ==
  /\ Up /\ p \in inPipe /\ exit[p] # "none"
  /\ inPipe' = inPipe \ {p}
  /\ dropped' = dropped \cup {p}
  /\ UNCHANGED <<vars, printed, queue, obs, fired, lateFire, answered, probe>>

(* Any other line of a running DST.                                        *)
OtherLine ==
  /\ Up /\ \E p \in Procs : Alive(p)
  /\ Offer(NoProc)
  /\ UNCHANGED <<vars, printed, inPipe, obs, fired, lateFire, answered, probe>>

-----------------------------------------------------------------------------
(* Observer.Run: receive a line, run the handler unless the pattern has    *)
(* fired, then set fired.  The handler reads the state, then writes it.    *)

ObsReceive ==
  /\ Up /\ obs.at = "recv" /\ queue # << >>
  /\ queue' = Tail(queue)
  /\ obs' = IF Head(queue) = NoProc \/ fired # NoProc
              THEN obs
              ELSE [at |-> "get", line |-> Head(queue)]
  /\ UNCHANGED <<vars, printed, inPipe, dropped, fired, lateFire, answered,
                 probe>>

ObsGet ==
  /\ Up /\ obs.at = "get"
  /\ obs' = [obs EXCEPT !.at = IF state = "starting" THEN "set" ELSE "fire"]
  /\ UNCHANGED <<vars, printed, inPipe, queue, dropped, fired, lateFire,
                 answered, probe>>

SetRunning ==
  /\ Up
  /\ state' = "running"
  /\ UNCHANGED <<procVars, dst, sending, pc, target, got, sig, code>>

ObsSet ==
  /\ obs.at = "set"
  /\ SetRunning
  /\ obs' = [obs EXCEPT !.at = "fire"]
  /\ UNCHANGED <<printed, inPipe, queue, dropped, fired, lateFire, answered,
                 probe>>

\* A Restart has stopped p and is past Observer.Reset().
Retired(p) ==
  \E t \in Restarters : target[t] = p /\ pc[t] \in {"launch", "store", "done"}

ObsFire ==
  /\ Up /\ obs.at = "fire"
  /\ fired' = obs.line
  /\ lateFire' = (lateFire \/ Retired(obs.line))
  /\ obs' = [at |-> "recv", line |-> NoProc]
  /\ UNCHANGED <<vars, printed, inPipe, queue, dropped, answered, probe>>

-----------------------------------------------------------------------------
(* HealthChecker.probe.  The state is read before the query, which takes   *)
(* up to DST_HEALTH_TIMEOUT, and decides after it.  A probe that read      *)
(* another state than Starting leaves the state alone, and so does one to  *)
(* a DST that never answers; they are no steps here (module HealthChecker  *)
(* has them).  Probes need the port that a launched DST announced.         *)

ProbeStart ==
  /\ AnswersA2S
  /\ Up /\ probe = "idle" /\ launched # {}
  /\ state = "starting"
  /\ probe' = "query"
  /\ UNCHANGED <<vars, printed, inPipe, queue, dropped, obs, fired, lateFire,
                 answered>>

\* Mutant of ProbeFails: the early return after an error is gone.
ProbeFailsUnnoticed ==
  /\ Up /\ probe = "query"
  /\ probe' = "set"
  /\ UNCHANGED <<vars, printed, inPipe, queue, dropped, obs, fired, lateFire,
                 answered>>

ProbeFails ==
  /\ Up /\ probe = "query"
  /\ probe' = "idle"
  /\ UNCHANGED <<vars, printed, inPipe, queue, dropped, obs, fired, lateFire,
                 answered>>

ProbeAnswered(p) ==
  /\ Up /\ probe = "query" /\ Alive(p)
  /\ answered' = answered \cup {p}
  /\ probe' = "set"
  /\ UNCHANGED <<vars, printed, inPipe, queue, dropped, obs, fired, lateFire>>

ProbeSet ==
  /\ probe = "set"
  /\ SetRunning
  /\ probe' = "idle"
  /\ UNCHANGED <<printed, inPipe, queue, dropped, obs, fired, lateFire,
                 answered>>

-----------------------------------------------------------------------------
\* Mutant of ResetObserver: Restart no longer calls Observer.Reset().
ResetForgotten(t) == Reset(t) /\ UNCHANGED readyVars

(* Restart's Observer.Reset(), which nothing synchronises with Run.        *)
ResetObserver(t) ==
  /\ Reset(t)
  /\ fired' = NoProc
  /\ UNCHANGED <<printed, inPipe, queue, dropped, obs, lateFire, answered,
                 probe>>

\* The rest of the supervisor; Reset is ResetObserver here.
Lifecycle ==
  /\ \/ MainStep \/ Client \/ Signal
     \/ \E t \in Requests : Request(t)
     \/ \E t \in Threads : HandlerStep(t)
     \/ \E t \in Restarters :
          Relaunch(t) \/ Launch(t) \/ LaunchFails(t) \/ Store(t)
     \/ \E p \in Procs : Process(p)
     \/ Exited
  /\ UNCHANGED readyVars

Observer == ObsReceive \/ ObsGet \/ ObsSet \/ ObsFire

Health ==
  ProbeStart \/ ProbeFails \/ ProbeSet \/ \E p \in Procs : ProbeAnswered(p)

Line == OtherLine \/ \E p \in Procs : Announce(p) \/ Drain(p) \/ CloseStdout(p)

ReadyNext ==
  \/ Lifecycle
  \/ \E t \in Restarters : ResetObserver(t)
  \/ Observer
  \/ Health
  \/ Line

ReadySpec == ReadyInit /\ [][ReadyNext]_rvars

-----------------------------------------------------------------------------
\* Running is never reported out of nothing (state.go:12): some DST has
\* announced its readiness or answered an A2S query, even though both
\* reporters act on a state they read earlier.
RunningHasEvidence == state = "running" => printed \cup answered # {}

\* The current server's ready line has been read from the channel, or lost.
Consumed(p) ==
  /\ p \in printed \ inPipe
  /\ obs.line # p
  /\ \A i \in DOMAIN queue : queue[i] # p

\* A shard is only stuck in Starting after its DST announced that it is
\* ready if the line was lost on the way, or if the one-shot pattern was set
\* by a line of the previous process after Reset (observer.go:149-153,
\* 178-184), or if two Restart calls captured the same process: the later one
\* marks the shard Stopping while the line is handled, and Starting again
\* afterwards (server.go:121-170).  Nothing else loses the announcement.
ReadinessNoticed ==
  \A p \in Procs :
    Up /\ state = "starting" /\ p = dst /\ Alive(p) /\ Consumed(p) =>
      \/ p \in dropped \/ lateFire
      \/ \E o \in launched : Overlap(o)

=============================================================================
