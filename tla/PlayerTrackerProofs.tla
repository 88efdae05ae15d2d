------------------------- MODULE PlayerTrackerProofs --------------------------
(***************************************************************************)
(* What PlayerTracker guarantees for any set of players, any number of     *)
(* Restarts, and any poll interval, stale age and answer time.             *)
(***************************************************************************)
EXTENDS PlayerTracker, Integers, TLAPS

TimesOK ==
  /\ timer \in 0..PollInterval /\ rest \in 0..AnswerTime
  /\ age \in [Players -> 0..MaxAge]
  /\ miss \in [Players -> 0..MaxMiss]
  /\ poll \in {"idle", "sending", "waiting"}
  /\ tick \in BOOLEAN /\ prompt \in BOOLEAN /\ skipped \in BOOLEAN

SetsOK ==
  /\ lines \subseteq Players /\ online \subseteq Players
  /\ known \subseteq online
  /\ server = "down" => online = {}

\* A Restart that has met no other is the only one under way, and so the
\* server that it has waited for is still the last one.
AloneInv ==
  /\ restart \in [Restarts -> {"idle", "waiting", "clearing", "launching"}]
  /\ \A r \in Restarts \ met :
       restart[r] # "idle" =>
         /\ UnderWay = {r}
         /\ restart[r] # "waiting" => server = "down"

\* As long as no command has had to wait, a poll keeps step with the ticker.
StepInv ==
  prompt /\ AnswerTime < PollInterval =>
    /\ tick => timer = PollInterval
    /\ poll = "sending" => timer = PollInterval /\ ~tick
    /\ poll = "waiting" => PollInterval - timer = AnswerTime - rest /\ ~tick

\* Whoever has been seen since the tick before last is young: the ticks since
\* then account for the age, up to the time since the last one.
Accounted(p) ==
  miss[p] = MaxMiss \/ age[p] <= miss[p] * PollInterval + PollInterval - timer

ListedInv ==
  /\ \A p \in tracked : Accounted(p)
  /\ OnlineStayListed

\* The age that a player may have reached since the last Prune.
Tolerated ==
  StaleAge + PollInterval
    + (IF poll = "waiting" THEN AnswerTime - rest
       ELSE IF poll = "idle" /\ ~tick THEN 0 - timer ELSE 0)

AgeInv == ~skipped => \A p \in tracked : age[p] <= Tolerated

PlayerInv == TimesOK /\ SetsOK /\ AloneInv /\ StepInv
             /\ tracked \subseteq Players /\ ListedInv /\ AgeInv

-----------------------------------------------------------------------------
LEMMA Constants ==
  /\ PollInterval \in Nat \ {0} /\ StaleAge \in Nat \ {0}
  /\ AnswerTime \in Nat \ {0}
  /\ MaxAge \in Nat /\ MaxMiss \in Nat
  /\ MaxAge = StaleAge + PollInterval + AnswerTime + 1
BY PlayerAssumption DEF MaxAge, MaxMiss

\* One more tick is one more interval.
LEMMA NextTick ==
  ASSUME NEW m \in Nat
  PROVE  /\ m * PollInterval \in Nat
         /\ (m + 1) * PollInterval = m * PollInterval + PollInterval
         /\ 0 * PollInterval = 0
BY Constants

\* Who has been missed as often as is counted has been missed too long.
LEMMA MaxMissSpansStale == MaxMiss * PollInterval > StaleAge
<1>1. \A a, b \in Nat : b > 0 => a * b >= a
  OBVIOUS
<1>2. QED
  BY <1>1, Constants DEF MaxMiss

\* The silence of a player bounds the age that Prune finds.
LEMMA SilenceBoundsAge ==
  ASSUME TimesOK, StepInv, poll = "waiting", rest = 0,
         NEW p \in Players, Accounted(p), Silence(p) < StaleAge
  PROVE  age[p] < StaleAge
<1>1. /\ miss[p] \in Nat /\ age[p] \in Nat /\ timer \in 0..PollInterval
      /\ miss[p] * PollInterval \in Nat
  BY Constants, NextTick DEF TimesOK
<1>2. PollInterval - timer <= LastWait /\ LastWait \in Nat
  BY <1>1, Constants DEF LastWait, StepInv
<1>3. miss[p] # MaxMiss
  BY <1>1, <1>2, MaxMissSpansStale, Constants DEF Silence
<1>4. age[p] <= miss[p] * PollInterval + PollInterval - timer
  BY <1>3 DEF Accounted
<1>5. QED
  BY <1>1, <1>2, <1>4, Constants DEF Silence

-----------------------------------------------------------------------------
LEMMA PlayerInit == Init => PlayerInv
<1> SUFFICES ASSUME Init PROVE PlayerInv
  OBVIOUS
<1>1. TimesOK
  <2>1. age \in [Players -> 0..MaxAge] /\ miss \in [Players -> 0..MaxMiss]
    BY Constants DEF Init
  <2>2. timer \in 0..PollInterval /\ rest \in 0..AnswerTime
    BY Constants DEF Init
  <2>3. QED
    BY <2>1, <2>2 DEF Init, TimesOK
<1>2. SetsOK /\ tracked \subseteq Players
  BY DEF Init, SetsOK
<1>3. AloneInv /\ StepInv
  BY DEF Init, AloneInv, StepInv
<1>4. ListedInv /\ AgeInv
  BY DEF Init, ListedInv, OnlineStayListed, AgeInv
<1>5. QED
  BY <1>1, <1>2, <1>3, <1>4 DEF PlayerInv

\* Steps that leave the list, the poll and the clocks alone.
LEMMA PlayerQuiet ==
  ASSUME PlayerInv, SetsOK', AloneInv', known' \subseteq known,
         UNCHANGED <<listVars, pollVars, histVars>>
  PROVE  PlayerInv'
<1> USE DEF PlayerInv, listVars, pollVars, histVars
<1>1. TimesOK' /\ StepInv' /\ (tracked \subseteq Players)'
  BY DEF TimesOK, StepInv
<1>2. ListedInv'
  BY DEF ListedInv, Accounted, OnlineStayListed, Silence, LastWait
<1>3. AgeInv'
  BY DEF AgeInv, Tolerated
<1>4. QED
  BY <1>1, <1>2, <1>3

\* Neither the poll nor a line is about processes.
LEMMA ProcessesKept ==
  ASSUME AloneInv, UNCHANGED <<server, restart, met>>
  PROVE  AloneInv'
BY DEF AloneInv, UnderWay

-----------------------------------------------------------------------------
(* Time and lines.                                                         *)

LEMMA PlayerPass == PlayerInv /\ Pass => PlayerInv'
<1> SUFFICES ASSUME PlayerInv, Pass PROVE PlayerInv'
  OBVIOUS
<1> USE DEF PlayerInv
<1>1. /\ timer \in Nat \ {0} /\ timer <= PollInterval /\ timer' = timer - 1
      /\ poll = "idle" => ~tick
      /\ poll = "waiting" => rest > 0
      /\ rest \in 0..AnswerTime
      /\ rest' = IF poll = "waiting" THEN rest - 1 ELSE rest
      /\ prompt' = (prompt /\ poll # "sending")
      /\ skipped' = (skipped \/ poll = "sending")
      /\ poll \in {"idle", "sending", "waiting"}
      /\ UNCHANGED <<server, restart, met, online, lines, tracked, tick, poll,
                     known, miss>>
  BY Constants DEF Pass, TimesOK, dstVars
<1>2. \A p \in tracked : /\ p \in Players /\ age[p] \in Nat
                         /\ age'[p] \in Nat /\ age'[p] <= age[p] + 1
  BY Constants DEF Pass, TimesOK, CapAt
<1>3. TimesOK'
  <2>1. age' \in [Players -> 0..MaxAge]
    BY Constants DEF Pass, TimesOK, CapAt
  <2>2. prompt' \in BOOLEAN /\ skipped' \in BOOLEAN
    BY <1>1, Zenon DEF TimesOK
  <2>3. timer' \in 0..PollInterval /\ rest' \in 0..AnswerTime
    BY <1>1, Constants
  <2>4. QED
    BY <1>1, <2>1, <2>2, <2>3 DEF TimesOK
<1>4. SetsOK' /\ AloneInv'
  BY <1>1, ProcessesKept DEF SetsOK
<1>5. StepInv'
  <2> SUFFICES ASSUME prompt', AnswerTime < PollInterval
               PROVE  /\ ~tick /\ poll # "sending"
                      /\ poll = "waiting" =>
                           PollInterval - timer' = AnswerTime - rest'
    BY <1>1 DEF StepInv
  <2>1. prompt /\ poll # "sending"
    BY <1>1
  <2>2. ~tick
    BY <1>1, <2>1 DEF StepInv
  <2>3. ASSUME poll = "waiting"
        PROVE  PollInterval - timer' = AnswerTime - rest'
    BY <1>1, <2>1, <2>3, Constants DEF StepInv
  <2>4. QED
    BY <2>1, <2>2, <2>3
<1>6. ASSUME NEW p \in tracked PROVE Accounted(p)'
  <2>1. miss[p] \in Nat /\ Accounted(p)
    BY <1>2, Constants DEF TimesOK, ListedInv
  <2>2. miss[p] * PollInterval \in Nat
    BY <2>1, NextTick
  <2>3. QED
    BY <1>1, <1>2, <2>1, <2>2, Constants DEF Accounted
<1>7. OnlineStayListed'
  <2> SUFFICES ASSUME NEW p \in known, Silence(p)' < StaleAge
               PROVE  p \in tracked
    BY <1>1 DEF OnlineStayListed
  <2>1. LastWait \in Nat /\ LastWait' \in Nat /\ LastWait <= LastWait'
    <3>1. prompt' => prompt
      BY <1>1
    <3>2. QED
      BY <3>1, Constants DEF LastWait
  <2>2. miss[p] * PollInterval \in Nat
    BY NextTick, Constants DEF TimesOK, SetsOK
  <2>3. Silence(p) < StaleAge
    BY <1>1, <2>1, <2>2, Constants DEF Silence
  <2>4. QED
    BY <2>3 DEF ListedInv, OnlineStayListed
<1>8. AgeInv'
  <2> SUFFICES ASSUME ~skipped', NEW p \in tracked
               PROVE  age'[p] <= Tolerated'
    BY <1>1 DEF AgeInv
  <2>1. ~skipped /\ poll # "sending"
    BY <1>1
  <2>2. /\ Tolerated \in Int /\ Tolerated' = Tolerated + 1
    BY <1>1, <2>1, Constants DEF Tolerated
  <2>3. QED
    BY <1>2, <2>1, <2>2 DEF AgeInv
<1>9. QED
  BY <1>1, <1>3, <1>4, <1>5, <1>6, <1>7, <1>8 DEF ListedInv

LEMMA PlayerSeen ==
  ASSUME PlayerInv, NEW p \in Players, Seen(p)
  PROVE  PlayerInv'
<1> USE DEF PlayerInv
<1>1. /\ tracked' = tracked \cup {p} /\ known' = known \cup ({p} \cap online)
      /\ age' = [age EXCEPT ![p] = 0] /\ miss' = [miss EXCEPT ![p] = 0]
      /\ UNCHANGED <<server, restart, met, online, timer, tick, poll, rest,
                     prompt, skipped>>
  BY DEF Seen, dstVars, pollVars
<1>2. TimesOK' /\ StepInv'
  BY <1>1, Constants DEF TimesOK, StepInv
<1>3. SetsOK' /\ AloneInv' /\ tracked' \subseteq Players
  BY <1>1, ProcessesKept DEF SetsOK, Seen
<1>4. /\ age'[p] = 0 /\ miss'[p] = 0
      /\ \A q \in Players \ {p} : age'[q] = age[q] /\ miss'[q] = miss[q]
  BY <1>1 DEF TimesOK
<1>5. ASSUME NEW q \in tracked' PROVE Accounted(q)'
  <2>1. CASE q = p
    <3>1. timer \in Nat /\ timer <= PollInterval /\ 0 * PollInterval = 0
      BY Constants, NextTick DEF TimesOK
    <3>2. QED
      BY <1>1, <1>4, <2>1, <3>1, Constants DEF Accounted
  <2>2. CASE q # p
    BY <1>1, <1>4, <2>2 DEF ListedInv, Accounted
  <2>3. QED
    BY <2>1, <2>2
<1>6. OnlineStayListed'
  <2> SUFFICES ASSUME NEW q \in known', Silence(q)' < StaleAge, q # p
               PROVE  q \in tracked
    BY <1>1 DEF OnlineStayListed
  <2>1. q \in known /\ q \in Players
    BY <1>1 DEF SetsOK
  <2>2. Silence(q)' = Silence(q)
    BY <1>1, <1>4, <2>1 DEF Silence, LastWait
  <2>3. QED
    BY <2>1, <2>2 DEF ListedInv, OnlineStayListed
<1>7. AgeInv'
  <2>1. Tolerated' = Tolerated
    BY <1>1 DEF Tolerated
  <2>2. 0 <= Tolerated
    BY Constants DEF Tolerated, TimesOK
  <2>3. QED
    BY <1>1, <1>4, <2>1, <2>2 DEF AgeInv
<1>8. QED
  BY <1>2, <1>3, <1>5, <1>6, <1>7 DEF ListedInv

-----------------------------------------------------------------------------
(* The poll.                                                               *)

LEMMA PlayerTick == PlayerInv /\ Tick => PlayerInv'
<1> SUFFICES ASSUME PlayerInv, Tick PROVE PlayerInv'
  OBVIOUS
<1> USE DEF PlayerInv
<1>1. /\ timer = 0 /\ timer' = PollInterval /\ tick' = TRUE
      /\ miss' = [p \in Players |-> CapAt(miss[p] + 1, MaxMiss)]
      /\ UNCHANGED <<server, restart, met, online, lines, tracked, age, poll,
                     rest, known, prompt, skipped>>
  BY DEF Tick, dstVars, listVars
<1>2. \A p \in Players :
        /\ miss[p] \in 0..MaxMiss /\ miss'[p] \in 0..MaxMiss
        /\ miss[p] # MaxMiss => miss'[p] = miss[p] + 1
        /\ miss[p] = MaxMiss => miss'[p] = MaxMiss
  BY <1>1, Constants DEF TimesOK, CapAt
<1>3. TimesOK'
  <2>1. miss' \in [Players -> 0..MaxMiss]
    BY <1>1, <1>2
  <2>2. QED
    BY <1>1, <2>1, Constants DEF TimesOK
<1>4. SetsOK' /\ AloneInv'
  BY <1>1, ProcessesKept DEF SetsOK
<1>5. StepInv'
  BY <1>1, Constants DEF StepInv, TimesOK
<1>6. ASSUME NEW p \in tracked PROVE Accounted(p)'
  <2>1. CASE miss[p] = MaxMiss
    BY <1>2, <2>1 DEF Accounted, MaxMiss
  <2>2. CASE miss[p] # MaxMiss
    <3>1. /\ miss'[p] = miss[p] + 1 /\ miss[p] \in Nat /\ age[p] \in Nat
          /\ age[p] <= miss[p] * PollInterval + PollInterval
      <4>1. miss[p] \in Nat /\ age[p] \in Nat
        BY <1>2, Constants DEF TimesOK
      <4>2. miss[p] * PollInterval \in Nat
        BY <4>1, NextTick
      <4>3. QED
        BY <1>1, <1>2, <2>2, <4>1, <4>2, Constants DEF ListedInv, Accounted
    <3>2. /\ miss'[p] * PollInterval = miss[p] * PollInterval + PollInterval
          /\ miss[p] * PollInterval \in Nat
      BY <3>1, NextTick
    <3>3. QED
      BY <1>1, <3>1, <3>2, Constants DEF Accounted
  <2>3. QED
    BY <2>1, <2>2
<1>7. OnlineStayListed'
  <2> SUFFICES ASSUME NEW p \in known, Silence(p)' < StaleAge
               PROVE  p \in tracked
    BY <1>1 DEF OnlineStayListed
  <2>1. p \in Players /\ miss[p] * PollInterval \in Nat
        /\ miss'[p] * PollInterval \in Nat
    BY <1>2, NextTick, Constants DEF SetsOK
  <2>2. LastWait' = LastWait /\ LastWait \in Nat
    BY <1>1, Constants DEF LastWait
  <2>3. miss[p] # MaxMiss
    BY <1>2, <2>1, <2>2, MaxMissSpansStale, Constants DEF Silence
  <2>4. miss'[p] * PollInterval = miss[p] * PollInterval + PollInterval
    <3>1. miss[p] \in Nat /\ miss'[p] = miss[p] + 1
      BY <1>2, <2>1, <2>3, Constants
    <3>2. QED
      BY <3>1, NextTick
  <2>5. Silence(p) < StaleAge
    BY <2>1, <2>2, <2>4, Constants DEF Silence
  <2>6. QED
    BY <2>5 DEF ListedInv, OnlineStayListed
<1>8. AgeInv'
  BY <1>1, Constants DEF AgeInv, Tolerated
<1>9. QED
  BY <1>1, <1>3, <1>4, <1>5, <1>6, <1>7, <1>8 DEF ListedInv

\* The steps of a poll up to its sleep.
LEMMA PlayerPoll ==
  PlayerInv /\ (PollSkipped \/ PollSends \/ Sent \/ SendFails) => PlayerInv'
<1> SUFFICES ASSUME PlayerInv, PollSkipped \/ PollSends \/ Sent \/ SendFails
             PROVE  PlayerInv'
  OBVIOUS
<1> USE DEF PlayerInv
<1>1. UNCHANGED <<server, restart, met, online, lines, tracked, age, timer,
                  known, miss, prompt>>
  BY DEF PollSkipped, PollSends, Sent, SendFails, dstVars, listVars, histVars
<1>2. TimesOK'
  <2>1. /\ tick' \in BOOLEAN /\ skipped' \in BOOLEAN
        /\ poll' \in {"idle", "sending", "waiting"}
    BY DEF TimesOK, PollSkipped, PollSends, Sent, SendFails, histVars
  <2>2. rest' \in 0..AnswerTime
    BY Constants DEF TimesOK, PollSkipped, PollSends, Sent, SendFails
  <2>3. QED
    BY <1>1, <2>1, <2>2 DEF TimesOK
<1>3. SetsOK' /\ AloneInv'
  BY <1>1, ProcessesKept DEF SetsOK
<1>4. StepInv'
  BY <1>1, Constants
     DEF StepInv, TimesOK, PollSkipped, PollSends, Sent, SendFails
<1>5. ListedInv'
  BY <1>1 DEF ListedInv, Accounted, OnlineStayListed, Silence, LastWait
<1>6. AgeInv'
  <2>1. CASE PollSkipped \/ SendFails
    BY <2>1 DEF PollSkipped, SendFails, AgeInv
  <2>2. CASE PollSends \/ Sent
    <3>1. Tolerated' = Tolerated
      BY <1>1, <2>2, Constants DEF PollSends, Sent, Tolerated
    <3>2. QED
      BY <1>1, <2>2, <3>1 DEF PollSends, Sent, AgeInv, histVars
  <2>3. QED
    BY <2>1, <2>2
<1>7. QED
  BY <1>1, <1>2, <1>3, <1>4, <1>5, <1>6

LEMMA PlayerPrune == PlayerInv /\ Prune => PlayerInv'
<1> DEFINE stale == {p \in tracked : age[p] > StaleAge}
<1> SUFFICES ASSUME PlayerInv, Prune PROVE PlayerInv'
  OBVIOUS
<1> USE DEF PlayerInv
<1>1. /\ poll = "waiting" /\ rest = 0 /\ poll' = "idle" /\ ~skipped'
      /\ skipped' \in BOOLEAN
      /\ tracked' = tracked \ stale
      /\ age' = [p \in Players |-> IF p \in stale THEN 0 ELSE age[p]]
      /\ UNCHANGED <<server, restart, met, online, lines, timer, tick, rest,
                     known, miss, prompt>>
  BY DEF Prune, RemoveStale, dstVars
<1>2. TimesOK' /\ StepInv'
  BY <1>1, Constants DEF TimesOK, StepInv
<1>3. SetsOK' /\ AloneInv'
  BY <1>1, ProcessesKept DEF SetsOK
<1>4. \A p \in tracked' : /\ p \in tracked /\ age'[p] = age[p]
                          /\ age[p] \in Nat /\ age[p] <= StaleAge
  BY <1>1, Constants DEF TimesOK
<1>5. \A p \in tracked' : Accounted(p)'
  BY <1>1, <1>4 DEF ListedInv, Accounted
<1>6. OnlineStayListed'
  <2> SUFFICES ASSUME NEW p \in known, Silence(p)' < StaleAge
               PROVE  p \in tracked'
    BY <1>1 DEF OnlineStayListed
  <2>1. Silence(p) < StaleAge
    BY <1>1 DEF Silence, LastWait
  <2>2. p \in tracked /\ p \in Players
    BY <2>1 DEF ListedInv, OnlineStayListed
  <2>3. age[p] < StaleAge
    BY <1>1, <2>1, <2>2, SilenceBoundsAge DEF ListedInv
  <2>4. QED
    BY <1>1, <2>2, <2>3, Constants DEF TimesOK
<1>7. AgeInv'
  <2>1. StaleAge <= Tolerated' /\ Tolerated' \in Int
    BY <1>1, Constants DEF Tolerated, TimesOK
  <2>2. QED
    BY <1>1, <1>4, <2>1, Constants DEF AgeInv
<1>8. QED
  BY <1>1, <1>2, <1>3, <1>5, <1>6, <1>7 DEF ListedInv

-----------------------------------------------------------------------------
(* Processes and Restarts.                                                 *)

LEMMA PlayerServer == PlayerInv /\ DST => PlayerInv'
<1> SUFFICES ASSUME PlayerInv, DST PROVE PlayerInv'
  OBVIOUS
<1>1. SetsOK /\ AloneInv
  BY DEF PlayerInv
<1>2. SetsOK' /\ known' \subseteq known
  BY <1>1 DEF DST, ServerReady, ServerStops, Answer, Sync, SetsOK
<1>3. AloneInv'
  <2>1. CASE ServerReady
    BY <1>1, <2>1 DEF ServerReady, AloneInv, UnderWay
  <2>2. CASE ServerStops
    <3>1. restart' \in [Restarts -> {"idle", "waiting", "clearing", "launching"}]
      BY <1>1, <2>2 DEF ServerStops, AloneInv
    <3>2. \A r \in Restarts : restart'[r] = "idle" <=> restart[r] = "idle"
      BY <2>2 DEF ServerStops
    <3>3. UnderWay' = UnderWay /\ met' = met /\ server' = "down"
      BY <2>2, <3>2 DEF ServerStops, UnderWay
    <3>4. QED
      BY <1>1, <3>1, <3>2, <3>3 DEF AloneInv
  <2>3. CASE Answer \/ Sync
    BY <1>1, <2>3, ProcessesKept DEF Answer, Sync
  <2>4. QED
    BY <2>1, <2>2, <2>3 DEF DST
<1>4. QED
  BY <1>2, <1>3, PlayerQuiet DEF DST, ServerReady, ServerStops, Answer, Sync

LEMMA PlayerBegins ==
  ASSUME PlayerInv, NEW r \in Restarts, RestartBegins(r)
  PROVE  PlayerInv'
<1>1. SetsOK /\ AloneInv
  BY DEF PlayerInv
<1>2. SetsOK' /\ known' \subseteq known
  BY <1>1 DEF RestartBegins, SetsOK, NotRunning
<1>3. restart' \in [Restarts -> {"idle", "waiting", "clearing", "launching"}]
  BY <1>1 DEF RestartBegins, AloneInv
<1>4. ASSUME NEW q \in Restarts \ met', restart'[q] # "idle"
      PROVE  /\ UnderWay' = {q}
             /\ restart'[q] # "waiting" => server' = "down"
  <2>1. q = r
    BY <1>1, <1>4 DEF RestartBegins, AloneInv, UnderWay
  <2>2. UnderWay = {}
    BY <1>4, <2>1 DEF RestartBegins
  <2>3. UnderWay' = {r}
    <3>1. \A s \in Restarts \ {r} : restart'[s] = "idle"
      BY <1>1, <2>2 DEF RestartBegins, AloneInv, UnderWay
    <3>2. QED
      BY <1>4, <2>1, <3>1 DEF UnderWay
  <2>4. restart'[r] # "waiting" => server' = "down"
    BY <1>1 DEF RestartBegins, AloneInv, NotRunning
  <2>5. QED
    BY <2>1, <2>3, <2>4
<1>5. AloneInv'
  BY <1>3, <1>4 DEF AloneInv
<1>6. QED
  BY <1>2, <1>5, PlayerQuiet DEF RestartBegins

\* A Restart that is alone clears the list while no player can be online; of
\* one that is not, known forgets the players that it clears.
LEMMA PlayerClear ==
  ASSUME PlayerInv, NEW r \in Restarts, Clear(r)
  PROVE  PlayerInv'
<1> USE DEF PlayerInv
<1>1. /\ restart[r] = "clearing"
      /\ restart' = [restart EXCEPT ![r] = "launching"]
      /\ server' = NotRunning
      /\ tracked' = {} /\ age' = [p \in Players |-> 0]
      /\ UNCHANGED <<met, online, timer, tick, poll, rest, miss, prompt,
                     skipped>>
  BY DEF Clear, pollVars, histVars
<1>2. TimesOK' /\ StepInv'
  BY <1>1, Constants DEF TimesOK, StepInv
<1>3. known' = {}
  BY <1>1 DEF Clear, AloneInv, SetsOK
<1>4. SetsOK'
  BY <1>1, <1>3 DEF SetsOK, NotRunning, Clear
<1>5. AloneInv'
  <2>1. restart' \in [Restarts -> {"idle", "waiting", "clearing", "launching"}]
    BY <1>1 DEF AloneInv
  <2>2. \A q \in Restarts : /\ restart'[q] = "idle" <=> restart[q] = "idle"
                            /\ restart'[q] = "waiting" <=> restart[q] = "waiting"
    BY <1>1 DEF AloneInv
  <2>3. UnderWay' = UnderWay /\ (server = "down" => server' = "down")
    BY <1>1, <2>2 DEF UnderWay, NotRunning
  <2>4. QED
    BY <1>1, <2>1, <2>2, <2>3 DEF AloneInv
<1>6. QED
  BY <1>1, <1>2, <1>3, <1>4, <1>5 DEF ListedInv, OnlineStayListed, AgeInv

\* When a Restart ends, whoever is still under way has met it.
LEMMA PlayerRestartEnds ==
  ASSUME PlayerInv, NEW r \in Restarts, Launch(r) \/ LaunchFails(r)
  PROVE  PlayerInv'
<1>1. SetsOK /\ AloneInv
  BY DEF PlayerInv
<1>2. SetsOK' /\ known' \subseteq known
  BY <1>1 DEF Launch, LaunchFails, SetsOK, NotRunning
<1>3. restart' \in [Restarts -> {"idle", "waiting", "clearing", "launching"}]
  BY <1>1 DEF Launch, LaunchFails, AloneInv
<1>4. \A q \in Restarts \ met' : restart'[q] = "idle"
  BY <1>1 DEF Launch, LaunchFails, AloneInv, UnderWay
<1>5. AloneInv'
  BY <1>3, <1>4 DEF AloneInv
<1>6. QED
  BY <1>2, <1>5, PlayerQuiet DEF Launch, LaunchFails

LEMMA PlayerStep == PlayerInv /\ [Next]_vars => PlayerInv'
<1> SUFFICES ASSUME PlayerInv, [Next]_vars PROVE PlayerInv'
  OBVIOUS
<1>1. ASSUME NEW p \in Players,
             Join(p) \/ LeaveAnnounced(p) \/ OrphanLine(p) \/ LoseLine(p)
      PROVE  PlayerInv'
  <2>1. UNCHANGED <<server, restart, met, listVars, pollVars, histVars>>
    BY <1>1 DEF Join, LeaveAnnounced, OrphanLine, LoseLine, dstVars
  <2>2. SetsOK' /\ known' \subseteq known
    BY <1>1 DEF Join, LeaveAnnounced, OrphanLine, LoseLine, dstVars, PlayerInv,
                SetsOK
  <2>3. QED
    BY <2>1, <2>2, ProcessesKept, PlayerQuiet DEF PlayerInv
<1>2. CASE UNCHANGED vars
  <2>1. UNCHANGED <<server, restart, met, online, lines, known, listVars,
                    pollVars, histVars>>
    BY <1>2 DEF vars, dstVars
  <2>2. SetsOK'
    BY <2>1 DEF PlayerInv, SetsOK
  <2>3. QED
    BY <2>1, <2>2, ProcessesKept, PlayerQuiet DEF PlayerInv
<1>3. CASE Poll
  BY <1>3, PlayerTick, PlayerPoll, PlayerPrune DEF Poll
<1>4. ASSUME NEW r \in Restarts, Restart(r) PROVE PlayerInv'
  BY <1>4, PlayerBegins, PlayerClear, PlayerRestartEnds DEF Restart
<1>5. QED
  BY <1>1, <1>2, <1>3, <1>4, PlayerServer, PlayerPass, PlayerSeen
     DEF Next, Line

LEMMA PlayerInvariance == Spec => []PlayerInv
BY PlayerInit, PlayerStep, PTL DEF Spec

\* However lines are lost, commands delayed and answers late, a player who is
\* online is only removed after ticks in a row without a line that, with the
\* wait of the last one, span the stale age, or by the Clear of a Restart that
\* met another (players.go:54-66, observer.go:159-176, server.go:151-158).
THEOREM NobodyOnlineIsPruned == Spec => []OnlineStayListed
<1>1. PlayerInv => OnlineStayListed
  BY DEF PlayerInv, ListedInv
<1>2. QED
  BY <1>1, PlayerInvariance, PTL

\* Unless a poll was skipped or had to wait, nobody is listed longer than the
\* stale age, one interval and the answer time after the last line
\* (players.go:54-66, observer.go:165-175).
THEOREM EntriesAgeOut == Spec => []GhostsAgeOut
<1>1. PlayerInv => GhostsAgeOut
  <2> SUFFICES ASSUME PlayerInv, ~skipped, NEW p \in tracked
               PROVE  age[p] <= StaleAge + PollInterval + AnswerTime
    BY DEF GhostsAgeOut
  <2>1. /\ age[p] \in Nat /\ timer \in Nat /\ rest \in 0..AnswerTime
        /\ age[p] <= Tolerated
    BY Constants DEF PlayerInv, AgeInv, TimesOK
  <2>2. QED
    BY <2>1, Constants DEF Tolerated
<1>2. QED
  BY <1>1, PlayerInvariance, PTL

=============================================================================
