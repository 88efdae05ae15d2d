------------------------------ MODULE Dashboard -------------------------------
(***************************************************************************)
(* The status display of the dashboard: the handler of GET /events         *)
(* (webui/main.go), which asks the supervisors for their status one after  *)
(* the other and sends what it got as one event, and the browser           *)
(* (webui/static/app.js), which shows it and picks the master shard for    *)
(* the cluster actions.                                                    *)
(*                                                                         *)
(* Each shard lives the life of module ShardLife, which module Supervisor  *)
(* implements.  It reads is_master from its server.ini when it starts      *)
(* (supervisor/config.go).                                                 *)
(***************************************************************************)
EXTENDS Naturals, Sequences, SequencesExt

CONSTANTS
  ShardSeq,   \* the shards in the order of DST_BACKENDS
  Entries,    \* the shards in the order of the JSON object: sorted by name
  IniAtStart, \* IniAtStart[s]: the is_master values in the server.ini of s
  IniFiles,   \* what an operator may write there: sequences of values
  None,       \* no status shown yet, null in masterShard
  WireCap,    \* bound: events between handler and browser
  MaxChanges, \* bound: changes of the shards' status
  MaxEdits,   \* bound: edits of server.ini files
  MaxFreezes, \* bound: times that a supervisor stops answering
  MaxBreaks   \* bound: times that the event stream breaks

Shards == ToSet(ShardSeq)

ASSUME DashboardAssumption ==
  /\ ShardSeq \in Seq(Shards) \ {<< >>} /\ Entries \in Seq(Shards)
  /\ IsInjective(ShardSeq) /\ IsInjective(Entries)
  /\ ToSet(Entries) = Shards /\ None \notin Shards
  /\ IniAtStart \in [Shards -> IniFiles]
  /\ IniFiles \subseteq Seq(STRING)
  /\ WireCap \in Nat \ {0}
  /\ {MaxChanges, MaxEdits, MaxFreezes, MaxBreaks} \subseteq Nat

VARIABLES
  state,    \* state[s]: State of the supervisor of s
  up,       \* up[s]: the supervisor of s runs
  ini,      \* ini[s]: the server.ini of s
  master,   \* master[s]: IsMaster, as the supervisor read it
  frozen,   \* supervisors that accept connections and answer nothing
  changes, edits, freezes, breaks,  \* counts for the bounds
  handler,  \* the handler of /events: where it is, its answers in this round
  wire,     \* events on their way to the browser
  page      \* the browser: badge, statuses shown, masterShard

shardVars == <<state, up, ini, master, frozen, changes, edits, freezes>>
vars      == <<shardVars, breaks, handler, wire, page>>

Life(s) == INSTANCE ShardLife WITH state <- state[s], up <- up[s]

States == Life(ShardSeq[1])!States

\* What the answer to one http.Get becomes in the event.  A body that a crash
\* cuts off is not JSON ("cut").
StatusOf(s) == IF up[s] THEN [state |-> state[s], master |-> master[s]]
                        ELSE [state |-> "unreachable", master |-> FALSE]

Statuses == [state : States \cup {"unreachable"}, master : BOOLEAN]
Cut      == [state |-> "cut", master |-> FALSE]
Answers  == Statuses \cup {Cut}

ASSUME NoneIsNoStatus == None \notin Statuses

\* The states of the shards, the handler's answers, the events and the page
\* have their type: an event never has more answers than there are shards,
\* and a cut body never reaches the browser (result is a new map in every
\* call of send, webui/main.go:105-125).
TypeOK ==
  /\ state \in [Shards -> States]
  /\ up \in [Shards -> BOOLEAN]
  /\ ini \in [Shards -> IniFiles]
  /\ master \in [Shards -> BOOLEAN]
  /\ frozen \subseteq Shards
  /\ changes \in 0..MaxChanges /\ edits \in 0..MaxEdits
  /\ freezes \in 0..MaxFreezes /\ breaks \in 0..MaxBreaks
  /\ handler.at \in {"off", "get", "body", "wait"}
  /\ handler.got \in Seq(Answers) /\ Len(handler.got) <= Len(ShardSeq)
  /\ handler.at \in {"get", "body"} => Len(handler.got) < Len(ShardSeq)
  /\ handler.body \in Answers \cup {None}
  /\ wire \in Seq(Seq(Statuses)) /\ Len(wire) <= WireCap
  /\ page.badge \in {"connecting", "connected", "disconnected"}
  /\ page.shown \in [Shards -> Statuses \cup {None}]
  /\ page.masterShard \in Shards \cup {None}

-----------------------------------------------------------------------------
\* ParseShardConfig: the last is_master line decides, a file without one (or
\* no file) means false.
IsMaster(file) == file # << >> /\ Last(file) = "true"

Init ==
  /\ state = [s \in Shards |-> "preparing"]
  /\ up = [s \in Shards |-> TRUE]
  /\ ini = IniAtStart
  /\ master = [s \in Shards |-> IsMaster(ini[s])]
  /\ frozen = {}
  /\ changes = 0 /\ edits = 0 /\ freezes = 0 /\ breaks = 0
  /\ handler = [at |-> "off", got |-> << >>, body |-> None]
  /\ wire = << >>
  /\ page = [badge |-> "connecting", shown |-> [s \in Shards |-> None],
             masterShard |-> None]

-----------------------------------------------------------------------------
(* The shards.                                                             *)

\* The shard that the handler asks, or whose body it reads.
Asked == ShardSeq[Len(handler.got) + 1]

(* A supervisor that is not frozen takes a step of its life: a new one     *)
(* reads its server.ini, one that ends cuts off the answer it is sending.  *)
Step(s) ==
  /\ changes < MaxChanges
  /\ s \notin frozen
  /\ \E x \in States, u \in BOOLEAN :
       /\ <<x, u>> # <<state[s], up[s]>>
       /\ state' = [state EXCEPT ![s] = x]
       /\ up' = [up EXCEPT ![s] = u]
  /\ Life(s)!Next
  /\ master' = IF up[s] THEN master
               ELSE [master EXCEPT ![s] = IsMaster(ini[s])]
  /\ changes' = changes + 1
  /\ handler' \in
       IF ~up'[s] /\ handler.at = "body" /\ Asked = s
         THEN {handler, [handler EXCEPT !.body = Cut]}
         ELSE {handler}
  /\ UNCHANGED <<ini, frozen, edits, freezes, breaks, wire, page>>

(* An operator edits a server.ini.                                         *)
Edit(s) ==
  /\ edits < MaxEdits
  /\ edits' = edits + 1
  /\ \E file \in IniFiles \ {ini[s]} : ini' = [ini EXCEPT ![s] = file]
  /\ UNCHANGED <<state, up, master, frozen, changes, freezes, breaks, handler,
                 wire, page>>

(* A container is paused: its kernel takes the request, nobody answers.    *)
Freeze(s) ==
  /\ up[s] /\ s \notin frozen /\ freezes < MaxFreezes
  /\ freezes' = freezes + 1
  /\ frozen' = frozen \cup {s}
  /\ UNCHANGED <<state, up, ini, master, changes, edits, breaks, handler, wire,
                 page>>

Thaw(s) ==
  /\ s \in frozen
  /\ frozen' = frozen \ {s}
  /\ UNCHANGED <<state, up, ini, master, changes, edits, freezes, breaks,
                 handler, wire, page>>

-----------------------------------------------------------------------------
(* The handler of GET /events.                                             *)

(* The EventSource's request arrives.                                      *)
Connect ==
  /\ handler.at = "off" /\ page.badge = "connecting"
  /\ handler' = [at |-> "get", got |-> << >>, body |-> None]
  /\ UNCHANGED <<shardVars, breaks, wire, page>>

(* http.Get without a timeout: a frozen supervisor is waited for.          *)
Get ==
  /\ handler.at = "get" /\ Asked \notin frozen
  /\ handler' = [handler EXCEPT !.at = "body", !.body = StatusOf(Asked)]
  /\ UNCHANGED <<shardVars, breaks, wire, page>>

\* json.Marshal fails on a cut body, and its error is ignored: the event is
\* empty then.
Marshal(got) == IF Cut \in ToSet(got) THEN << >> ELSE got

\* Mutant of ReadBody: the answers of the last round stay in result.
ReadBodyKeepsResult ==
  /\ handler.at = "body"
  /\ LET got == Append(handler.got, handler.body) IN
       \/ /\ Len(got) < Len(ShardSeq)
          /\ handler' = [at |-> "get", got |-> got, body |-> None]
          /\ UNCHANGED wire
       \/ /\ Len(got) = Len(ShardSeq)
          /\ Len(wire) < WireCap
          /\ wire' = Append(wire, Marshal(got))
          /\ handler' = [at |-> "wait", got |-> got, body |-> None]
  /\ UNCHANGED <<shardVars, breaks, page>>

(* The answer enters the result; after the last shard the event is sent.   *)
ReadBody ==
  /\ handler.at = "body"
  /\ LET got == Append(handler.got, handler.body) IN
       \/ /\ Len(got) < Len(ShardSeq)
          /\ handler' = [at |-> "get", got |-> got, body |-> None]
          /\ UNCHANGED wire
       \/ /\ Len(got) = Len(ShardSeq)
          /\ Len(wire) < WireCap
          /\ wire' = Append(wire, Marshal(got))
          /\ handler' = [at |-> "wait", got |-> << >>, body |-> None]
  /\ UNCHANGED <<shardVars, breaks, page>>

(* ticker.C                                                                *)
Tick ==
  /\ handler.at = "wait"
  /\ handler' = [handler EXCEPT !.at = "get"]
  /\ UNCHANGED <<shardVars, breaks, wire, page>>

-----------------------------------------------------------------------------
(* The browser.                                                            *)

\* The status of s in an event.
Entry(event, s) == event[CHOOSE i \in DOMAIN ShardSeq : ShardSeq[i] = s]

\* Mutant of Displayed: an unreachable shard keeps its last status.
DisplayedReachable(p, event) ==
  [s \in Shards |-> IF Entry(event, s).state = "unreachable" THEN p.shown[s]
                                                            ELSE Entry(event, s)]

\* updateShard for every shard of an event: the status is shown.
Displayed(p, event) == [s \in Shards |-> Entry(event, s)]

\* Mutant of NextMaster: the master found once stays.
NextMasterOnce(p, event) ==
  LET masters == {i \in DOMAIN Entries : Entry(event, Entries[i]).master}
  IN  IF masters = {} \/ p.masterShard # None THEN p.masterShard
                                              ELSE Entries[Max(masters)]

\* A master becomes the target of the cluster actions, the last one in the
\* order of the JSON object.  Other statuses leave masterShard.
NextMaster(p, event) ==
  LET masters == {i \in DOMAIN Entries : Entry(event, Entries[i]).master}
  IN  IF masters = {} THEN p.masterShard ELSE Entries[Max(masters)]

\* The page after an event.  An empty event is a parse error and changes the
\* badge only.
Shown(p, event) ==
  IF event = << >> THEN [p EXCEPT !.badge = "connected"]
  ELSE [badge |-> "connected", shown |-> Displayed(p, event),
        masterShard |-> NextMaster(p, event)]

(* onmessage                                                               *)
Message ==
  /\ wire # << >>
  /\ page' = Shown(page, Head(wire))
  /\ wire' = Tail(wire)
  /\ UNCHANGED <<shardVars, breaks, handler>>

(* The stream breaks: onerror closes the EventSource.                      *)
Break ==
  /\ page.badge # "disconnected" /\ breaks < MaxBreaks
  /\ breaks' = breaks + 1
  /\ handler' = [at |-> "off", got |-> << >>, body |-> None]
  /\ wire' = << >>
  /\ page' = [page EXCEPT !.badge = "disconnected"]
  /\ UNCHANGED shardVars

(* Three seconds later connectSSE opens another.                           *)
Reconnect ==
  /\ page.badge = "disconnected"
  /\ page' = [page EXCEPT !.badge = "connecting"]
  /\ UNCHANGED <<shardVars, breaks, handler, wire>>

-----------------------------------------------------------------------------
Next ==
  \/ \E s \in Shards : Step(s) \/ Edit(s) \/ Freeze(s) \/ Thaw(s)
  \/ Connect \/ Get \/ ReadBody \/ Tick
  \/ Message \/ Break \/ Reconnect

Spec == Init /\ [][Next]_vars

\* The handler's goroutine and the browser's event loop take their steps, the
\* ticker ticks and the timer of setTimeout fires.  A Get of a supervisor that
\* is frozen for ever never returns.  The shards owe nothing.
FairSpec ==
  /\ Spec
  /\ WF_vars(Connect) /\ WF_vars(Get) /\ WF_vars(ReadBody) /\ WF_vars(Tick)
  /\ WF_vars(Message) /\ WF_vars(Reconnect)

-----------------------------------------------------------------------------
\* getMaster: where the browser sends the cluster actions (app.js:188-190).
Target == IF page.masterShard = None THEN ShardSeq[1] ELSE page.masterShard

\* While the page shows some shard as the master, the cluster actions go to a
\* shard that it shows as a master, although masterShard is never unset and
\* the server.ini files may name no master or several (app.js:139-149).
\* When no shard is shown as the master, the target is the last one that was.
TargetIsShownMaster ==
  (\E s \in Shards : page.shown[s] # None /\ page.shown[s].master) =>
    page.shown[Target] # None /\ page.shown[Target].master

\* Unless a supervisor hangs for ever (http.Get has no timeout and the shards
\* are asked one after the other, webui/main.go:107-122), the page shows in
\* the end that it is connected and how every shard is, a shard that is down
\* included, and cluster actions reach a master if one is up: a stream that
\* broke is opened again, an event lost to a cut body is made up for.
CatchesUp ==
  <>[](frozen = {}) =>
    <>[](/\ page.badge = "connected"
         /\ \A s \in Shards : page.shown[s] = StatusOf(s)
         /\ (\E s \in Shards : up[s] /\ master[s]) => up[Target] /\ master[Target])
=============================================================================
