------------------------- MODULE HealthCheckerProofs --------------------------
(***************************************************************************)
(* What HealthChecker guarantees for any set of ports and any number of    *)
(* servers launched one after the other.                                   *)
(***************************************************************************)
EXTENDS HealthChecker, TLAPS

\* A port that the observer holds is one that a server announced, and the
\* drain has emptied the channel when the send begins.
ObserverInv ==
  /\ obs.at # "idle" => obs.port \in Ports
  /\ ObserverNeverWaits

\* What is known of the last answer wherever Run is: a query has forgotten
\* that the last probe was skipped, and a result about to be reported comes
\* from the address that was asked.
ResultInv ==
  /\ hc.at = "query" => ~skipped
  /\ hc.at = "set" /\ info # 0 => port[info] = hc.addr
  /\ InfoFromCurrentPort

HealthInv == TypeOK /\ ObserverInv /\ ResultInv

LEMMA HealthInit == Init => HealthInv
<1> SUFFICES ASSUME Init PROVE HealthInv
  OBVIOUS
<1>1. TypeOK
  <2>1. gen \in 0..MaxGen /\ info \in 0..gen
    BY HealthAssumption DEF Init
  <2>2. lines \in Seq(Ports) /\ portCh \in Seq(Ports) /\ Len(portCh) <= 1
    BY DEF Init
  <2>3. /\ hc \in [at : {"wait", "select", "probe", "query", "set"},
                  addr : AnyPort, s : States]
        /\ hc.at = "wait"
    BY DEF Init, AnyPort, States
  <2>4. obs \in [at : {"idle", "drain", "send"}, port : AnyPort]
    BY DEF Init, AnyPort
  <2>5. port \in [1..MaxGen -> AnyPort]
    BY DEF Init, AnyPort
  <2>6. QED
    BY <2>1, <2>2, <2>3, <2>4, <2>5 DEF Init, TypeOK, AnyPort, States
<1>2. ObserverInv /\ ResultInv
  BY DEF Init, ObserverInv, ObserverNeverWaits, ResultInv, InfoFromCurrentPort
<1>3. QED
  BY <1>1, <1>2 DEF HealthInv

\* What announces and loses lines keeps them ports.
LEMMA LineTypes ==
  ASSUME TypeOK
  PROVE  /\ \A p \in Ports : Append(lines, p) \in Seq(Ports)
         /\ lines # << >> => Head(lines) \in Ports /\ Tail(lines) \in Seq(Ports)
         /\ portCh # << >> => Head(portCh) \in Ports
         /\ << >> \in Seq(Ports) /\ Len(<< >>) <= 1
         /\ \A p \in Ports : <<p>> \in Seq(Ports) /\ Len(<<p>>) <= 1
BY DEF TypeOK

LEMMA TypeStep == TypeOK /\ ObserverInv /\ [Next]_vars => TypeOK'
<1> SUFFICES ASSUME TypeOK, ObserverInv, [Next]_vars PROVE TypeOK'
  OBVIOUS
<1> USE HealthAssumption, LineTypes DEF AnyPort, States, serverVars
<1>1. ASSUME NEW p \in Ports, Launch(p) PROVE TypeOK'
  BY <1>1 DEF Launch, TypeOK
<1>2. CASE ServerExits \/ OthersSetState \/ LoseLine
  BY <1>2 DEF ServerExits, OthersSetState, LoseLine, TypeOK
<1>3. CASE ObserverTakes
  BY <1>3 DEF ObserverTakes, TypeOK
<1>4. CASE Drain
  BY <1>4 DEF Drain, TypeOK
<1>5. CASE Send
  BY <1>5 DEF Send, TypeOK, ObserverInv
<1>6. CASE TakePort
  BY <1>6 DEF TakePort, TypeOK
<1>7. CASE Tick
  BY <1>7 DEF Tick, TypeOK
<1>8. CASE ReadState
  BY <1>8 DEF ReadState, TypeOK
<1>9. CASE QueryFails
  BY <1>9, SMTT(30) DEF QueryFails, TypeOK
<1>10. CASE QueryAnswered
  BY <1>10 DEF QueryAnswered, TypeOK
<1>11. CASE SetRunning
  BY <1>11 DEF SetRunning, TypeOK
<1>12. CASE UNCHANGED vars
  BY <1>12 DEF vars, TypeOK
<1>13. QED
  BY <1>1, <1>2, <1>3, <1>4, <1>5, <1>6, <1>7, <1>8, <1>9, <1>10, <1>11, <1>12
     DEF Next, Observer, Probe

\* One producer: only the observer fills the channel, and it does so from
\* "send", which it leaves at once.
LEMMA ObserverStep == TypeOK /\ ObserverInv /\ [Next]_vars => ObserverInv'
<1> SUFFICES ASSUME TypeOK, ObserverInv, [Next]_vars PROVE ObserverInv'
  OBVIOUS
<1> USE DEF ObserverInv, ObserverNeverWaits
<1>1. CASE Observer
  BY <1>1, LineTypes DEF Observer, ObserverTakes, Drain, Send, TypeOK
<1>2. CASE TakePort
  BY <1>2 DEF TakePort
<1>3. CASE UNCHANGED <<obs, portCh>>
  BY <1>3
<1>4. QED
  BY <1>1, <1>2, <1>3
     DEF Next, Launch, ServerExits, OthersSetState, LoseLine, Tick, Probe,
         ReadState, QueryFails, QueryAnswered, SetRunning, vars

LEMMA ResultStep == TypeOK /\ ResultInv /\ [Next]_vars => ResultInv'
<1> SUFFICES ASSUME TypeOK, ResultInv, [Next]_vars PROVE ResultInv'
  OBVIOUS
<1> USE DEF ResultInv, InfoFromCurrentPort
\* A new server gets a number that no result has yet.
<1>1. ASSUME NEW p \in Ports, Launch(p) PROVE ResultInv'
  <2>1. info # 0 => port'[info] = port[info]
    BY <1>1, HealthAssumption DEF Launch, TypeOK
  <2>2. QED
    BY <1>1, <2>1 DEF Launch
<1>2. CASE TakePort \/ Tick
  BY <1>2 DEF TakePort, Tick, TypeOK, serverVars
<1>3. CASE ReadState
  BY <1>3 DEF ReadState, TypeOK, serverVars
<1>4. CASE QueryFails
  BY <1>4 DEF QueryFails, TypeOK, serverVars
<1>5. CASE QueryAnswered
  BY <1>5 DEF QueryAnswered, TypeOK, serverVars
<1>6. CASE SetRunning
  BY <1>6 DEF SetRunning, TypeOK, serverVars
<1>7. CASE UNCHANGED <<port, hc, info, skipped>>
  BY <1>7
<1>8. QED
  BY <1>1, <1>2, <1>3, <1>4, <1>5, <1>6, <1>7
     DEF Next, ServerExits, OthersSetState, LoseLine, Observer, ObserverTakes,
         Drain, Send, Probe, serverVars, vars

LEMMA HealthInvariance == Spec => []HealthInv
<1>1. HealthInv /\ [Next]_vars => HealthInv'
  BY TypeStep, ObserverStep, ResultStep DEF HealthInv
<1>2. QED
  BY HealthInit, <1>1, PTL DEF Spec

\* portCh never holds more than its one slot, and Run probes no address before
\* it has one (health.go:9-11, 47-60).
THEOREM HealthTypes == Spec => []TypeOK
<1>1. HealthInv => TypeOK
  BY DEF HealthInv
<1>2. QED
  BY <1>1, HealthInvariance, PTL

\* SetQueryPort never blocks the observer, whatever Run does in between the
\* drain and the send (health.go:37-45).
THEOREM SetQueryPortNeverWaits == Spec => []ObserverNeverWaits
<1>1. HealthInv => ObserverNeverWaits
  BY DEF HealthInv, ObserverInv
<1>2. QED
  BY <1>1, HealthInvariance, PTL

\* A result shown between two probes is of a server that listened on the
\* address probed, unless the last probe was skipped because of the state
\* (health.go:81-108).
THEOREM InfoIsCurrent == Spec => []InfoFromCurrentPort
<1>1. HealthInv => InfoFromCurrentPort
  BY DEF HealthInv, ResultInv
<1>2. QED
  BY <1>1, HealthInvariance, PTL

=============================================================================
