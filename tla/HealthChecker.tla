---------------------------- MODULE HealthChecker -----------------------------
(***************************************************************************)
(* The health checker (supervisor/health.go): the observer hands it the    *)
(* query port through a channel of one slot, Run probes that port at once  *)
(* and then on every tick.  Its result feeds GET /status.                  *)
(*                                                                         *)
(* The DST servers launched one after the other are numbered; each listens *)
(* on some port and prints it once.  State is written by everyone else as  *)
(* they like (module Readiness has who writes what).                       *)
(***************************************************************************)
EXTENDS Naturals, Sequences

CONSTANTS
  Ports,   \* query ports
  NoPort,  \* the empty address
  MaxGen   \* bound: DST servers launched

ASSUME HealthAssumption == NoPort \notin Ports /\ MaxGen \in Nat

VARIABLES
  state,    \* StateManager: "starting", "running" or any "other"
  gen,      \* servers launched so far
  port,     \* port[g]: where server g listens
  up,       \* the last server still runs
  lines,    \* port announcements on their way to the observer
  obs,      \* the observer in SetQueryPort, and the port in its hands
  portCh,   \* HealthChecker.portCh
  hc,       \* Run: where it is, addr, and the state that probe read
  info,     \* lastInfo: the server that answered, 0 for nil
  skipped,  \* the last probe returned early because of the state (history)
  newest    \* the port the observer took last (history)

vars == <<state, gen, port, up, lines, obs, portCh, hc, info, skipped, newest>>

serverVars == <<gen, port, up>>
AnyPort    == Ports \cup {NoPort}
States     == {"starting", "running", "other"}

\* Types, the capacity of portCh, and no probe before the first port is known
\* (health.go:9-11).
TypeOK ==
  /\ state \in States
  /\ gen \in 0..MaxGen
  /\ port \in [1..MaxGen -> AnyPort]
  /\ up \in BOOLEAN
  /\ lines \in Seq(Ports)
  /\ obs \in [at : {"idle", "drain", "send"}, port : AnyPort]
  /\ portCh \in Seq(Ports) /\ Len(portCh) <= 1
  /\ hc \in [at : {"wait", "select", "probe", "query", "set"},
             addr : AnyPort, s : States]
  /\ hc.at # "wait" => hc.addr \in Ports
  /\ info \in 0..gen
  /\ skipped \in BOOLEAN
  /\ newest \in AnyPort

Init ==
  /\ state = "other"
  /\ gen = 0 /\ up = FALSE
  /\ port = [g \in 1..MaxGen |-> NoPort]
  /\ lines = << >>
  /\ obs = [at |-> "idle", port |-> NoPort]
  /\ portCh = << >>
  /\ hc = [at |-> "wait", addr |-> NoPort, s |-> "other"]
  /\ info = 0
  /\ skipped = FALSE
  /\ newest = NoPort

-----------------------------------------------------------------------------
(* DST and the other writers of State (external).                          *)

Launch(p) ==
  /\ gen < MaxGen /\ ~up
  /\ gen' = gen + 1
  /\ up' = TRUE
  /\ port' = [port EXCEPT ![gen + 1] = p]
  /\ lines' = Append(lines, p)
  /\ UNCHANGED <<state, obs, portCh, hc, info, skipped, newest>>

ServerExits ==
  /\ up
  /\ up' = FALSE
  /\ UNCHANGED <<state, gen, port, lines, obs, portCh, hc, info, skipped,
                 newest>>

OthersSetState ==
  /\ state' \in States
  /\ UNCHANGED <<serverVars, lines, obs, portCh, hc, info, skipped, newest>>

(* A full subscriber channel or a pattern that has fired loses the line.   *)
LoseLine ==
  /\ lines # << >>
  /\ lines' = Tail(lines)
  /\ UNCHANGED <<serverVars, state, obs, portCh, hc, info, skipped, newest>>

-----------------------------------------------------------------------------
(* SetQueryPort, which the observer calls for a port announcement.         *)

ObserverTakes ==
  /\ obs.at = "idle" /\ lines # << >>
  /\ lines' = Tail(lines)
  /\ obs' = [at |-> "drain", port |-> Head(lines)]
  /\ newest' = Head(lines)
  /\ UNCHANGED <<serverVars, state, portCh, hc, info, skipped>>

\* Mutant of Drain: the channel is not drained before the send.
DrainForgotten ==
  /\ obs.at = "drain"
  /\ obs' = [obs EXCEPT !.at = "send"]
  /\ UNCHANGED <<serverVars, state, lines, portCh, hc, info, skipped, newest>>

\* Mutant of Drain: a non-blocking send that keeps the port already there.
DrainKeepsOld ==
  /\ obs.at = "drain"
  /\ obs' = [obs EXCEPT !.at = IF portCh = << >> THEN "send" ELSE "idle"]
  /\ UNCHANGED <<serverVars, state, lines, portCh, hc, info, skipped, newest>>

(* select { case <-hc.portCh: default: }                                   *)
Drain ==
  /\ obs.at = "drain"
  /\ portCh' = << >>
  /\ obs' = [obs EXCEPT !.at = "send"]
  /\ UNCHANGED <<serverVars, state, lines, hc, info, skipped, newest>>

(* hc.portCh <- port                                                       *)
Send ==
  /\ obs.at = "send" /\ portCh = << >>
  /\ portCh' = <<obs.port>>
  /\ obs' = [obs EXCEPT !.at = "idle"]
  /\ UNCHANGED <<serverVars, state, lines, hc, info, skipped, newest>>

-----------------------------------------------------------------------------
(* Run and probe.                                                          *)

\* Mutant of TakePort: the receive does not wait for a port.
TakePortOrNone ==
  /\ hc.at \in {"wait", "select"}
  /\ portCh' = << >>
  /\ hc' = [hc EXCEPT !.at = "probe",
                      !.addr = IF portCh = << >> THEN NoPort ELSE Head(portCh)]
  /\ UNCHANGED <<serverVars, state, lines, obs, info, skipped, newest>>

(* The first port, or a port after a restart.                              *)
TakePort ==
  /\ hc.at \in {"wait", "select"} /\ portCh # << >>
  /\ portCh' = << >>
  /\ hc' = [hc EXCEPT !.at = "probe", !.addr = Head(portCh)]
  /\ UNCHANGED <<serverVars, state, lines, obs, info, skipped, newest>>

Tick ==
  /\ hc.at = "select"
  /\ hc' = [hc EXCEPT !.at = "probe"]
  /\ UNCHANGED <<serverVars, state, lines, obs, portCh, info, skipped, newest>>

ReadState ==
  /\ hc.at = "probe"
  /\ hc' = [hc EXCEPT !.at = IF state = "other" THEN "select" ELSE "query",
                      !.s = state]
  /\ skipped' = (state = "other")
  /\ UNCHANGED <<serverVars, state, lines, obs, portCh, info, newest>>

\* Mutant of QueryFails: a failed probe keeps the last result, as the comment
\* of Info (health.go:110) has it.
QueryFailsKeepsInfo ==
  /\ hc.at = "query"
  /\ hc' = [hc EXCEPT !.at = "select"]
  /\ UNCHANGED <<serverVars, state, lines, obs, portCh, info, skipped, newest>>

(* QueryA2SInfo returns nil and an error, at the latest after the timeout. *)
QueryFails ==
  /\ hc.at = "query"
  /\ info' = 0
  /\ hc' = [hc EXCEPT !.at = "select"]
  /\ UNCHANGED <<serverVars, state, lines, obs, portCh, skipped, newest>>

QueryAnswered ==
  /\ hc.at = "query" /\ up /\ port[gen] = hc.addr
  /\ info' = gen
  /\ hc' = [hc EXCEPT !.at = IF hc.s = "starting" THEN "set" ELSE "select"]
  /\ UNCHANGED <<serverVars, state, lines, obs, portCh, skipped, newest>>

SetRunning ==
  /\ hc.at = "set"
  /\ state' = "running"
  /\ hc' = [hc EXCEPT !.at = "select"]
  /\ UNCHANGED <<serverVars, lines, obs, portCh, info, skipped, newest>>

-----------------------------------------------------------------------------
Observer == ObserverTakes \/ Drain \/ Send

Probe == ReadState \/ QueryFails \/ QueryAnswered \/ SetRunning

Next ==
  \/ \E p \in Ports : Launch(p)
  \/ ServerExits \/ OthersSetState \/ LoseLine
  \/ Observer
  \/ TakePort \/ Tick \/ Probe

Spec == Init /\ [][Next]_vars

\* Runnable goroutines run and a query ends by its deadline: weak fairness.
\* Run's select picks at random among the ready cases, so a port is not
\* passed over for ever when each tick is due at once: strong fairness.
FairSpec == Spec /\ WF_vars(Observer) /\ WF_vars(Probe) /\ SF_vars(TakePort)

-----------------------------------------------------------------------------
\* The observer, which also carries readiness and player events, never waits
\* in SetQueryPort (health.go:37-45): with one producer the drain leaves room.
ObserverNeverWaits == obs.at = "send" => portCh = << >>

\* What GET /status shows of the server (http.go:86) comes from the address
\* that is probed now: a result from before a change of port does not outlive
\* the first probe that reads a state to probe in.
InfoFromCurrentPort ==
  hc.at = "select" /\ info # 0 => port[info] = hc.addr \/ skipped

\* The port of the last announcement is the one probed in the end, however
\* fast the announcements follow each other and wherever Run is.
NewestPortProbed == <>[](newest # NoPort => hc.addr = newest)

=============================================================================
