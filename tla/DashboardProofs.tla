--------------------------- MODULE DashboardProofs ----------------------------
(***************************************************************************)
(* What Dashboard guarantees for any number of shards and any contents of  *)
(* their server.ini files.                                                 *)
(***************************************************************************)
EXTENDS Dashboard, NaturalsInduction, WellFoundedInduction, TLAPS

\* The handler works its way through the shards; an answer that it reads is
\* one that it got.
HandlerInv ==
  /\ handler \in [at : {"off", "get", "body", "wait"}, got : Seq(Answers),
                  body : Answers \cup {None}]
  /\ handler.at \in {"off", "wait"} => handler.got = << >>
  /\ handler.at \in {"get", "body"} => Len(handler.got) < Len(ShardSeq)
  /\ handler.at = "body" => handler.body \in Answers

\* An event is empty or has the status of every shard.
Events == {e \in Seq(Statuses) : e = << >> \/ Len(e) = Len(ShardSeq)}

PageTypes == [badge : {"connecting", "connected", "disconnected"},
              shown : [Shards -> Statuses \cup {None}],
              masterShard : Shards \cup {None}]

ShownMaster(s) == page.shown[s] # None /\ page.shown[s].master

\* A shard shown as a master is the target or the target is shown as one, too.
MasterInv ==
  \A s \in Shards : ShownMaster(s) =>
    page.masterShard \in Shards /\ ShownMaster(page.masterShard)

ShardTypes ==
  /\ state \in [Shards -> States] /\ up \in [Shards -> BOOLEAN]
  /\ ini \in [Shards -> IniFiles] /\ master \in [Shards -> BOOLEAN]
  /\ frozen \subseteq Shards
  /\ changes \in 0..MaxChanges /\ edits \in 0..MaxEdits
  /\ freezes \in 0..MaxFreezes /\ breaks \in 0..MaxBreaks

DashInv ==
  /\ ShardTypes
  /\ HandlerInv
  /\ wire \in Seq(Events) /\ Len(wire) <= WireCap
  /\ page \in PageTypes
  /\ MasterInv

-----------------------------------------------------------------------------
LEMMA Sequences ==
  /\ ShardSeq \in Seq(Shards) /\ Len(ShardSeq) \in Nat \ {0}
  /\ DOMAIN ShardSeq = 1..Len(ShardSeq)
  /\ Entries \in Seq(Shards) /\ Len(Entries) \in Nat
  /\ DOMAIN Entries = 1..Len(Entries)
BY DashboardAssumption

LEMMA ShardIsListed ==
  ASSUME NEW s \in Shards
  PROVE  /\ \E i \in DOMAIN ShardSeq : ShardSeq[i] = s
         /\ \E i \in DOMAIN Entries : Entries[i] = s
<1>1. \E i \in DOMAIN ShardSeq : ShardSeq[i] = s
  BY DEF Shards, ToSet
<1>2. \E i \in DOMAIN Entries : Entries[i] = s
  BY DashboardAssumption DEF ToSet
<1>3. QED
  BY <1>1, <1>2

LEMMA Bounds ==
  /\ MaxChanges \in Nat /\ MaxEdits \in Nat /\ MaxFreezes \in Nat
  /\ MaxBreaks \in Nat /\ WireCap \in Nat \ {0}
BY DashboardAssumption

LEMMA Starts == "preparing" \in States
BY DEF States, Life!States, Life!Early

\* Of some numbers up to n one is the greatest.
LEMMA GreatestExists ==
  ASSUME NEW n \in Nat, NEW S, S \subseteq 1..n, S # {}
  PROVE  Max(S) \in S
<1> DEFINE R == {p \in Nat \X Nat : p[1] < p[2]}
           T == {d \in Nat : n - d \in S}
<1>1. IsWellFoundedOn(R, Nat)
  BY NatLessThanWellFounded DEF OpToRel
<1>2. T # {}
  <2>1. PICK m \in S : TRUE
    OBVIOUS
  <2>2. n - m \in Nat /\ n - (n - m) = m
    BY <2>1
  <2>3. QED
    BY <2>1, <2>2
<1>3. PICK d \in T : \A e \in T : <<e, d>> \notin R
  <2>1. T \subseteq Nat
    OBVIOUS
  <2> HIDE DEF R, T
  <2>2. QED
    BY <1>1, <1>2, <2>1, WFMin
<1>4. ASSUME NEW m \in S PROVE n - d >= m
  <2>1. n - m \in T /\ m \in 1..n
    <3>1. n - m \in Nat /\ n - (n - m) = m
      OBVIOUS
    <3>2. QED
      BY <3>1
  <2>2. ~(n - m < d)
    BY <1>3, <2>1
  <2>3. QED
    BY <1>3, <2>1, <2>2
<1>5. n - d \in S
  BY <1>3
<1>6. QED
  BY <1>4, <1>5 DEF Max

LEMMA EntryFacts ==
  ASSUME NEW event \in Events, event # << >>, NEW s \in Shards
  PROVE  Entry(event, s) \in Statuses
<1>1. event \in Seq(Statuses) /\ Len(event) = Len(ShardSeq)
  BY DEF Events
<1>2. \E i \in DOMAIN ShardSeq : ShardSeq[i] = s
  BY ShardIsListed
<1> DEFINE i == CHOOSE i \in DOMAIN ShardSeq : ShardSeq[i] = s
<1>3. i \in DOMAIN ShardSeq
  BY <1>2
<1> HIDE DEF i
<1>4. i \in 1..Len(event)
  BY <1>1, <1>3, Sequences
<1>5. event[i] \in Statuses
  BY <1>1, <1>4
<1>6. QED
  BY <1>5 DEF Entry, i

\* The target after an event is a master of the event, if it has one.
LEMMA NextMasterFacts ==
  ASSUME NEW p \in PageTypes, NEW event \in Events, event # << >>
  PROVE  /\ NextMaster(p, event) \in Shards \cup {None}
         /\ (\E s \in Shards : Entry(event, s).master) =>
              /\ NextMaster(p, event) \in Shards
              /\ Entry(event, NextMaster(p, event)).master
<1> DEFINE masters == {i \in DOMAIN Entries : Entry(event, Entries[i]).master}
           m == Max(masters)
<1>1. NextMaster(p, event) = IF masters = {} THEN p.masterShard ELSE Entries[m]
  BY DEF NextMaster
<1>2. \A s \in Shards : Entry(event, s).master => masters # {}
  <2> SUFFICES ASSUME NEW s \in Shards, Entry(event, s).master PROVE masters # {}
    OBVIOUS
  <2>1. PICK i \in DOMAIN Entries : Entries[i] = s
    BY ShardIsListed
  <2>2. i \in masters
    BY <2>1
  <2>3. QED
    BY <2>2
<1>3. masters \subseteq 1..Len(Entries) /\ Len(Entries) \in Nat
  BY Sequences
<1>4. masters # {} => m \in masters
  <2> HIDE DEF masters
  <2>1. QED
    BY <1>3, GreatestExists
<1>5. masters # {} => Entry(event, Entries[m]).master /\ m \in 1..Len(Entries)
  BY <1>3, <1>4
<1> HIDE DEF masters, m
<1>6. masters # {} => Entries[m] \in Shards
  BY <1>5, Sequences
<1>7. p.masterShard \in Shards \cup {None}
  BY DEF PageTypes
<1>8. QED
  BY <1>1, <1>2, <1>5, <1>6, <1>7

-----------------------------------------------------------------------------
(* The parts of the invariant.                                             *)

LEMMA ShardTypesStep == ShardTypes /\ [Next]_vars => ShardTypes'
<1> SUFFICES ASSUME ShardTypes, [Next]_vars PROVE ShardTypes'
  OBVIOUS
<1> USE Bounds DEF ShardTypes, shardVars
<1>1. ASSUME NEW s \in Shards, Step(s) PROVE ShardTypes'
  <2>1. PICK x \in States, u \in BOOLEAN :
          state' = [state EXCEPT ![s] = x] /\ up' = [up EXCEPT ![s] = u]
    BY <1>1 DEF Step
  <2>2. master' \in [Shards -> BOOLEAN]
    <3>1. IsMaster(ini[s]) \in BOOLEAN
      BY DEF IsMaster
    <3>2. QED
      BY <1>1, <3>1 DEF Step
  <2>3. changes' \in 0..MaxChanges
    BY <1>1 DEF Step
  <2>4. QED
    BY <1>1, <2>1, <2>2, <2>3 DEF Step
<1>2. ASSUME NEW s \in Shards, Edit(s) PROVE ShardTypes'
  BY <1>2 DEF Edit
<1>3. ASSUME NEW s \in Shards, Freeze(s) \/ Thaw(s) PROVE ShardTypes'
  BY <1>3 DEF Freeze, Thaw
<1>4. CASE Break
  BY <1>4 DEF Break
<1>5. CASE UNCHANGED <<shardVars, breaks>>
  BY <1>5
<1>6. QED
  BY <1>1, <1>2, <1>3, <1>4, <1>5
     DEF Next, Connect, Get, ReadBody, Tick, Message, Reconnect, vars

LEMMA StatusFacts ==
  ASSUME ShardTypes, NEW s \in Shards
  PROVE  StatusOf(s) \in Statuses /\ StatusOf(s) \in Answers
<1>1. state[s] \in States /\ master[s] \in BOOLEAN
  BY DEF ShardTypes
<1>2. StatusOf(s) \in Statuses
  BY <1>1 DEF StatusOf, Statuses
<1>3. QED
  BY <1>2 DEF Answers

LEMMA HandlerStep == ShardTypes /\ HandlerInv /\ [Next]_vars => HandlerInv'
<1> SUFFICES ASSUME ShardTypes, HandlerInv, [Next]_vars PROVE HandlerInv'
  OBVIOUS
<1> USE DEF HandlerInv
<1>1. << >> \in Seq(Answers) /\ Len(<< >>) = 0 /\ Cut \in Answers
  BY DEF Answers
<1>2. ASSUME NEW s \in Shards, Step(s) PROVE HandlerInv'
  <2>1. \/ handler' = handler
        \/ handler.at = "body" /\ handler' = [handler EXCEPT !.body = Cut]
    BY <1>2 DEF Step
  <2>2. QED
    BY <1>1, <2>1
<1>3. CASE Connect \/ Break
  <2>1. handler'.at \in {"get", "off"} /\ handler'.got = << >> /\ handler'.body = None
        /\ handler' = [at |-> handler'.at, got |-> << >>, body |-> None]
    BY <1>3 DEF Connect, Break
  <2>2. Len(handler'.got) < Len(ShardSeq)
    BY <1>1, <2>1, Sequences
  <2>3. handler' \in [at : {"off", "get", "body", "wait"}, got : Seq(Answers),
                      body : Answers \cup {None}]
    BY <1>1, <2>1
  <2>4. QED
    BY <2>1, <2>2, <2>3
<1>4. CASE Get
  <2>1. Asked \in Shards
    <3> DEFINE i == Len(handler.got) + 1
    <3>1. i \in 1..Len(ShardSeq)
      BY <1>4, Sequences DEF Get
    <3> HIDE DEF i
    <3>2. ShardSeq[i] \in Shards
      BY <3>1, Sequences
    <3>3. QED
      BY <3>2 DEF Asked, i
  <2>2. QED
    BY <1>4, <2>1, StatusFacts DEF Get
<1>5. CASE ReadBody
  <2> DEFINE got == Append(handler.got, handler.body)
  <2>1. got \in Seq(Answers)
    BY <1>5 DEF ReadBody
  <2>2. \/ Len(got) < Len(ShardSeq) /\ handler' = [at |-> "get", got |-> got, body |-> None]
        \/ handler' = [at |-> "wait", got |-> << >>, body |-> None]
    BY <1>5 DEF ReadBody
  <2>3. None \in Answers \cup {None}
    OBVIOUS
  <2> HIDE DEF got
  <2>4. CASE handler' = [at |-> "wait", got |-> << >>, body |-> None]
    BY <1>1, <2>3, <2>4
  <2>5. CASE /\ Len(got) < Len(ShardSeq)
             /\ handler' = [at |-> "get", got |-> got, body |-> None]
    BY <2>1, <2>3, <2>5
  <2>6. QED
    BY <2>2, <2>4, <2>5
<1>6. CASE Tick
  BY <1>1, <1>6, Sequences DEF Tick
<1>7. CASE UNCHANGED handler
  BY <1>7
<1>8. QED
  BY <1>2, <1>3, <1>4, <1>5, <1>6, <1>7
     DEF Next, Edit, Freeze, Thaw, Message, Reconnect, vars

LEMMA WireStep ==
  HandlerInv /\ wire \in Seq(Events) /\ Len(wire) <= WireCap /\ [Next]_vars
    => wire' \in Seq(Events) /\ Len(wire') <= WireCap
<1> SUFFICES ASSUME HandlerInv, wire \in Seq(Events), Len(wire) <= WireCap,
                    [Next]_vars
             PROVE  wire' \in Seq(Events) /\ Len(wire') <= WireCap
  OBVIOUS
<1>1. CASE ReadBody
  <2> DEFINE got == Append(handler.got, handler.body)
  <2>1. got \in Seq(Answers)
    BY <1>1 DEF ReadBody, HandlerInv
  <2>2. \/ UNCHANGED wire
        \/ /\ Len(got) = Len(ShardSeq) /\ Len(wire) < WireCap
           /\ wire' = Append(wire, Marshal(got))
    BY <1>1 DEF ReadBody
  <2> HIDE DEF got
  <2>3. ASSUME Len(got) = Len(ShardSeq) PROVE Marshal(got) \in Events
    <3>1. CASE Cut \in ToSet(got)
      BY <3>1 DEF Marshal, Events
    <3>2. CASE Cut \notin ToSet(got)
      <4>1. \A i \in 1..Len(got) : got[i] \in Answers /\ got[i] # Cut
        BY <2>1, <3>2 DEF ToSet
      <4>2. \A i \in 1..Len(got) : got[i] \in Statuses
        BY <4>1 DEF Answers
      <4>3. got \in Seq(Statuses)
        BY <2>1, <4>2
      <4>4. QED
        BY <2>3, <3>2, <4>3 DEF Marshal, Events
    <3>3. QED
      BY <3>1, <3>2
  <2>4. ASSUME NEW e \in Events
        PROVE  Append(wire, e) \in Seq(Events) /\ Len(Append(wire, e)) = Len(wire) + 1
    OBVIOUS
  <2>5. QED
    BY <2>2, <2>3, <2>4, Bounds
<1>2. CASE Message
  <2>1. wire # << >> /\ wire' = Tail(wire)
    BY <1>2 DEF Message
  <2>2. QED
    BY <2>1, Bounds
<1>3. CASE Break
  BY <1>3, Bounds DEF Break
<1>4. CASE UNCHANGED wire
  BY <1>4
<1>5. QED
  BY <1>1, <1>2, <1>3, <1>4
     DEF Next, Step, Edit, Freeze, Thaw, Connect, Get, Tick, Reconnect, vars

LEMMA PageStep ==
  page \in PageTypes /\ MasterInv /\ wire \in Seq(Events) /\ [Next]_vars
    => page' \in PageTypes /\ MasterInv'
<1> SUFFICES ASSUME page \in PageTypes, MasterInv, wire \in Seq(Events), [Next]_vars
             PROVE  page' \in PageTypes /\ MasterInv'
  OBVIOUS
<1>1. CASE Message
  <2> DEFINE e == Head(wire)
  <2>1. e \in Events /\ page' = Shown(page, e)
    BY <1>1 DEF Message
  <2> HIDE DEF e
  <2>2. CASE e = << >>
    BY <2>1, <2>2 DEF Shown, PageTypes, MasterInv, ShownMaster
  <2>3. CASE e # << >>
    <3>1. page' = [badge |-> "connected", shown |-> Displayed(page, e),
                   masterShard |-> NextMaster(page, e)]
      BY <2>1, <2>3 DEF Shown
    <3>2. \A s \in Shards : Entry(e, s) \in Statuses
      BY <2>1, <2>3, EntryFacts
    <3> DEFINE m == NextMaster(page, e)
    <3>3. /\ m \in Shards \cup {None}
          /\ (\E s \in Shards : Entry(e, s).master) =>
               m \in Shards /\ Entry(e, m).master
      BY <2>1, <2>3, NextMasterFacts
    <3>4. /\ page'.shown = [s \in Shards |-> Entry(e, s)]
          /\ page'.masterShard = m /\ page'.badge = "connected"
      BY <3>1 DEF Displayed
    <3> HIDE DEF m
    <3>5. page' \in PageTypes
      BY <3>1, <3>2, <3>3, <3>4 DEF PageTypes
    <3>6. \A s \in Shards : ShownMaster(s)' <=> page'.shown[s] # None /\ Entry(e, s).master
      BY <3>4 DEF ShownMaster
    <3>7. \A s \in Shards : page'.shown[s] = Entry(e, s)
      BY <3>4
    <3>8. ASSUME NEW s \in Shards, ShownMaster(s)'
          PROVE  /\ page'.masterShard \in Shards
                 /\ page'.shown[page'.masterShard] # None
                 /\ page'.shown[page'.masterShard].master
      <4>1. m \in Shards /\ Entry(e, m).master
        BY <3>3, <3>6, <3>8
      <4>2. page'.shown[m] = Entry(e, m) /\ Entry(e, m) # None
        BY <3>2, <3>7, <4>1, NoneIsNoStatus
      <4>3. QED
        BY <3>4, <4>1, <4>2
    <3>9. MasterInv'
      BY <3>8 DEF MasterInv, ShownMaster
    <3>10. QED
      BY <3>5, <3>9
  <2>4. QED
    BY <2>2, <2>3
<1>2. CASE Break \/ Reconnect
  BY <1>2 DEF Break, Reconnect, PageTypes, MasterInv, ShownMaster
<1>3. CASE UNCHANGED page
  BY <1>3 DEF MasterInv, ShownMaster
<1>4. QED
  BY <1>1, <1>2, <1>3
     DEF Next, Step, Edit, Freeze, Thaw, Connect, Get, ReadBody, Tick, vars

-----------------------------------------------------------------------------
(* The theorems.                                                           *)

LEMMA DashInvInit == Init => DashInv
<1> SUFFICES ASSUME Init PROVE DashInv
  OBVIOUS
<1> USE DEF Init
<1>1. ShardTypes
  <2>1. \A s \in Shards : IsMaster(ini[s]) \in BOOLEAN
    BY DEF IsMaster
  <2>2. ini \in [Shards -> IniFiles]
    BY DashboardAssumption
  <2>3. QED
    BY <2>1, <2>2, Starts, Bounds DEF ShardTypes
<1>2. HandlerInv
  <2>1. << >> \in Seq(Answers)
    OBVIOUS
  <2>2. QED
    BY <2>1 DEF HandlerInv
<1>3. wire \in Seq(Events) /\ Len(wire) <= WireCap
  BY Bounds
<1>4. page \in PageTypes
  BY DEF PageTypes
<1>5. MasterInv
  BY DEF MasterInv, ShownMaster
<1>6. QED
  BY <1>1, <1>2, <1>3, <1>4, <1>5 DEF DashInv

LEMMA DashInvariance == Spec => []DashInv
<1>1. DashInv /\ [Next]_vars => DashInv'
  BY ShardTypesStep, HandlerStep, WireStep, PageStep DEF DashInv
<1>2. QED
  BY DashInvInit, <1>1, PTL DEF Spec

\* No event has more answers than there are shards, none has a body that was
\* cut off, and the page shows what events carry (webui/main.go:105-125).
THEOREM DashboardTypes == Spec => []TypeOK
<1>1. DashInv => TypeOK
  <2> SUFFICES ASSUME DashInv PROVE TypeOK
    OBVIOUS
  <2>1. ShardTypes /\ HandlerInv /\ wire \in Seq(Events) /\ Len(wire) <= WireCap
        /\ page \in PageTypes
    BY DEF DashInv
  <2>2. wire \in Seq(Seq(Statuses))
    <3>1. Events \subseteq Seq(Statuses)
      BY DEF Events
    <3>2. QED
      BY <2>1, <3>1
  <2>3. Len(handler.got) <= Len(ShardSeq)
    <3>1. handler.at \in {"get", "body"} \/ handler.got = << >>
      BY <2>1 DEF HandlerInv
    <3>2. Len(handler.got) \in Nat /\ Len(<< >>) = 0
      BY <2>1 DEF HandlerInv
    <3>3. QED
      BY <2>1, <3>1, <3>2, Sequences DEF HandlerInv
  <2>4. QED
    BY <2>1, <2>2, <2>3 DEF TypeOK, ShardTypes, HandlerInv, PageTypes
<1>2. QED
  BY DashInvariance, <1>1, PTL

\* Whatever the server.ini files say, and in whatever order the shards are
\* asked, as long as the page shows a master, the cluster actions go to one
\* (app.js:139-149, 188-190).
THEOREM ActionsReachAMaster == Spec => []TargetIsShownMaster
<1>1. DashInv => TargetIsShownMaster
  <2> SUFFICES ASSUME DashInv, NEW s \in Shards,
                      page.shown[s] # None, page.shown[s].master
               PROVE  page.shown[Target] # None /\ page.shown[Target].master
    BY DEF TargetIsShownMaster
  <2>1. page.masterShard \in Shards /\ ShownMaster(page.masterShard)
    BY DEF DashInv, MasterInv, ShownMaster
  <2>2. Target = page.masterShard
    BY <2>1, DashboardAssumption DEF Target
  <2>3. QED
    BY <2>1, <2>2 DEF ShownMaster
<1>2. QED
  BY DashInvariance, <1>1, PTL

=============================================================================
