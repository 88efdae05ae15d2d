--------------------------- MODULE SupervisorProofs ---------------------------
(***************************************************************************)
(* Theorems about Supervisor, alone and with the observer and the health   *)
(* checker of Readiness, for any number of requests, console writers       *)
(* and any capacity of the pipe.  The inductive invariant IInv has one     *)
(* part per question:                                                      *)
(*                                                                         *)
(*   TypeOK, LaunchInv  who has launched what, and what dst may be;        *)
(*   ConsoleInv         what stands in the stdin pipes, and in what order; *)
(*   DoneInv            where the result of an exit has gone;              *)
(*   FreshInv, ParentInv, LeafInv                                          *)
(*                      which process is the current server.               *)
(***************************************************************************)
EXTENDS Readiness, TLAPS

-----------------------------------------------------------------------------
(* The inductive invariant.                                                *)

NotLaunchedYet == {"prepare", "install", "start", "idle", "capture", "mark",
                   "save", "shut", "wait", "kill", "waitkill", "relaunch",
                   "reset", "launch"}

LaunchInv ==
  /\ dst \in launched \cup {NoProc}
  /\ \A t \in Threads : target[t] \in launched \cup {NoProc}
  /\ killed \subseteq launched
  /\ \A t \in Threads : pc[t] \in {"setproc", "store"} => t \in launched
  /\ pc[Main] \in {"notify", "watch"} => dst # NoProc
  /\ pc[Main] \in {"prepare", "install", "start"} => launched = {}
  /\ \A t \in Requests : pc[t] \in {"idle", "capture"} => target[t] = NoProc
  /\ \A t \in Restarters : pc[t] \in NotLaunchedYet => t \notin launched
  /\ \A t \in Restarters :
       pc[t] \in {"relaunch", "reset", "launch", "store"} =>
         target[t] \in launched

SaveSent(p) ==
  p \in saved \/ \E i \in DOMAIN stdin[p] : stdin[p][i] = "c_save"

\* Each c_shutdown in a pipe has a c_save somewhere ahead of it, or the
\* process has carried one out.
SaveFirst(p) ==
  \A i \in DOMAIN stdin[p] :
    stdin[p][i] = "c_shutdown" =>
      p \in saved \/ \E j \in 1..(i - 1) : stdin[p][j] = "c_save"

ConsoleInv ==
  /\ \A p \in Procs : SaveFirst(p)
  /\ \A t \in Threads :
       pc[t] = "shut" => exit[target[t]] # "none" \/ SaveSent(target[t])
  /\ \A t \in Threads :
       pc[t] \in {"wait", "kill", "waitkill"} =>
         exit[target[t]] # "none" \/ AskedToStop(target[t])
  /\ SavedBeforeQuit
  /\ KilledAfterAsking

\* Some thread has received the exit result of p.
Taken(p) == \E t \in Threads : target[t] = p /\ got[t] = exit[p]

\* Where a thread has received from a done channel.
Received == {"exiting", "relaunch", "reset", "launch", "store", "finish", "done"}

\* main, once it has received, holds the result or knows who has it.
MainKnows ==
  /\ target[Main] \in Procs
  /\ exit[target[Main]] # "none"
  /\ got[Main] # exit[target[Main]] =>
       \E t \in Requests : target[t] = target[Main] /\ got[t] = exit[target[Main]]

DoneInv ==
  /\ \A p \in Procs :
       IF done[p].reaper = "waiting"
         THEN done[p].buf = "none"
         ELSE /\ exit[p] # "none"
              /\ done[p].buf = exit[p] \/ (done[p].buf = "none" /\ Taken(p))
  /\ \A t \in Threads : pc[t] \notin Received => got[t] = "none"
  /\ pc[Main] = "exiting" => MainKnows /\ (code = "0" => got[Main] # "err")

\* A restart has put another process in p's place.
Replaced(p) == \E t \in Restarters \cap launched : target[t] = p

Leaf(p) == p \in launched /\ ~Replaced(p)

\* Nobody knows a process that its launcher has not stored yet.
FreshInv ==
  \A p \in Procs :
    pc[p] \in {"setproc", "store"} =>
      dst # p /\ \A t \in Threads : target[t] # p

\* A process is only replaced after it has exited.
ParentInv ==
  \A t \in Restarters :
    /\ pc[t] \in {"relaunch", "reset", "launch", "store"} =>
         exit[target[t]] # "none"
    /\ t \in launched => target[t] \in launched /\ exit[target[t]] # "none"

\* One process is current: it is dst or about to be stored there.
LeafInv ==
  \/ \E o \in launched : Overlap(o)
  \/ /\ \A p, q \in Procs : Leaf(p) /\ Leaf(q) => p = q
     /\ \A p \in Procs : Leaf(p) => p = dst \/ pc[p] \in {"setproc", "store"}

IInv ==
  TypeOK /\ LaunchInv /\ ConsoleInv /\ DoneInv /\ FreshInv /\ ParentInv /\ LeafInv

-----------------------------------------------------------------------------
(* What the operations on a process do to the parts of the invariant.      *)

LEMMA SendCommandType ==
  ASSUME ProcTypeOK, NEW p \in Procs, NEW cmd \in Commands, SendCommand(p, cmd)
  PROVE  ProcTypeOK'
<1>1. Append(stdin[p], cmd) \in Seq(Commands)
  BY DEF ProcTypeOK
<1>2. stdin' \in [Procs -> Seq(Commands)]
  BY <1>1 DEF ProcTypeOK, SendCommand
<1>3. QED
  BY <1>2 DEF ProcTypeOK, SendCommand

LEMMA ReaperType ==
  ASSUME ProcTypeOK, NEW p \in Procs, ReaperSend(p) \/ ReaperClose(p)
  PROVE  ProcTypeOK'
<1>1. CASE ReaperSend(p)
  BY <1>1 DEF ProcTypeOK, ReaperSend, Results
<1>2. CASE ReaperClose(p)
  BY <1>2 DEF ProcTypeOK, ReaperClose, Results
<1>3. QED
  BY <1>1, <1>2

LEMMA ReceiveType ==
  ASSUME ProcTypeOK, NEW p \in Procs, NEW v \in Results, Receive(p, v)
  PROVE  ProcTypeOK'
BY DEF ProcTypeOK, Receive, Results

\* A command that reaches a live process stands at the end of its pipe,
\* behind whatever stood there.
LEMMA SendAppends ==
  ASSUME ProcTypeOK, NEW p \in Procs, NEW cmd \in Commands, SendCommand(p, cmd),
         exit[p] = "none"
  PROVE  /\ stdin'[p] = Append(stdin[p], cmd)
         /\ DOMAIN stdin'[p] = 1..(Len(stdin[p]) + 1)
         /\ DOMAIN stdin[p] = 1..Len(stdin[p])
         /\ Len(stdin[p]) \in Nat
         /\ \A i \in DOMAIN stdin[p] : stdin'[p][i] = stdin[p][i]
         /\ stdin'[p][Len(stdin[p]) + 1] = cmd
         /\ \A q \in Procs \ {p} : stdin'[q] = stdin[q]
<1>1. stdin[p] \in Seq(Commands)
  BY DEF ProcTypeOK
<1>2. stdin'[p] = Append(stdin[p], cmd) /\ \A q \in Procs \ {p} : stdin'[q] = stdin[q]
  BY DEF ProcTypeOK, SendCommand
<1>3. QED
  BY <1>1, <1>2

LEMMA SendCommandConsole ==
  ASSUME ProcTypeOK, NEW p \in Procs, NEW cmd \in Commands, SendCommand(p, cmd),
         \A q \in Procs : SaveFirst(q),
         cmd = "c_shutdown" => exit[p] # "none" \/ SaveSent(p)
  PROVE  /\ \A q \in Procs : SaveFirst(q)'
         /\ \A q \in Procs : SaveSent(q) => SaveSent(q)'
         /\ \A q \in Procs : AskedToStop(q) => AskedToStop(q)'
         /\ exit[p] = "none" /\ cmd = "c_save" => SaveSent(p)'
         /\ exit[p] = "none" /\ cmd = "c_shutdown" => AskedToStop(p)'
         /\ UNCHANGED <<launched, exit, saved, quitting, killed, done>>
<1>1. UNCHANGED <<launched, exit, saved, quitting, killed, done>>
  BY DEF SendCommand
<1>2. CASE exit[p] # "none"
  <2>1. stdin' = stdin
    BY <1>2 DEF SendCommand
  <2>2. QED
    BY <1>1, <1>2, <2>1 DEF SaveFirst, SaveSent, AskedToStop
<1>3. CASE exit[p] = "none"
  <2>1. \A q \in Procs \ {p} : stdin'[q] = stdin[q]
    BY <1>3, SendAppends
  <2>2. \A q \in Procs \ {p} : /\ SaveFirst(q)'
                               /\ SaveSent(q) => SaveSent(q)'
                               /\ AskedToStop(q) => AskedToStop(q)'
    BY <1>1, <2>1 DEF SaveFirst, SaveSent, AskedToStop
  <2>3. /\ SaveSent(p) => SaveSent(p)'
        /\ AskedToStop(p) => AskedToStop(p)'
        /\ cmd = "c_save" => SaveSent(p)'
        /\ cmd = "c_shutdown" => AskedToStop(p)'
    BY <1>1, <1>3, SendAppends DEF SaveSent, AskedToStop
  <2>4. SaveFirst(p)'
    <3> SUFFICES ASSUME NEW i \in DOMAIN stdin'[p], stdin'[p][i] = "c_shutdown",
                        p \notin saved
                 PROVE  \E j \in 1..(i - 1) : stdin'[p][j] = "c_save"
      BY <1>1 DEF SaveFirst
    <3>1. CASE i \in DOMAIN stdin[p]
      <4>1. stdin[p][i] = "c_shutdown"
        BY <1>3, <3>1, SendAppends
      <4>2. PICK j \in 1..(i - 1) : stdin[p][j] = "c_save"
        BY <3>1, <4>1 DEF SaveFirst
      <4>3. j \in DOMAIN stdin[p]
        BY <1>3, <3>1, <4>2, SendAppends
      <4>4. QED
        BY <1>3, <4>2, <4>3, SendAppends
    <3>2. CASE i \notin DOMAIN stdin[p]
      <4>1. i = Len(stdin[p]) + 1 /\ cmd = "c_shutdown"
        BY <1>3, <3>2, SendAppends
      <4>2. PICK j \in DOMAIN stdin[p] : stdin[p][j] = "c_save"
        BY <1>3, <4>1 DEF SaveSent
      <4>3. j \in 1..(i - 1) /\ stdin'[p][j] = "c_save"
        BY <1>3, <4>1, <4>2, SendAppends
      <4>4. QED
        BY <4>3
    <3>3. QED
      BY <3>1, <3>2
  <2>5. QED
    BY <1>1, <2>2, <2>3, <2>4
<1>4. QED
  BY <1>2, <1>3

\* DST reads its console in order, so a c_shutdown it reaches is preceded by
\* a c_save it has read.
LEMMA ReadCommandConsole ==
  ASSUME ProcTypeOK, NEW p \in Procs, ReadCommand(p),
         \A q \in Procs : SaveFirst(q), quitting \subseteq saved
  PROVE  /\ \A q \in Procs : SaveFirst(q)'
         /\ \A q \in Procs : SaveSent(q) => SaveSent(q)'
         /\ \A q \in Procs : AskedToStop(q) => AskedToStop(q)'
         /\ quitting' \subseteq saved'
         /\ UNCHANGED <<launched, exit, killed, done>>
<1> DEFINE s == stdin[p]
<1>1. /\ s \in Seq(Commands)
      /\ s # << >>
      /\ stdin' = [stdin EXCEPT ![p] = Tail(s)]
      /\ saved' = IF s[1] = "c_save" THEN saved \cup {p} ELSE saved
      /\ quitting' = IF s[1] = "c_shutdown" THEN quitting \cup {p} ELSE quitting
      /\ UNCHANGED <<launched, exit, killed, done>>
  BY DEF ProcTypeOK, ReadCommand
<1>2. /\ Len(s) \in Nat
      /\ DOMAIN s = 1..Len(s)
      /\ 1 \in DOMAIN s
      /\ DOMAIN Tail(s) = 1..(Len(s) - 1)
      /\ \A i \in 1..(Len(s) - 1) : Tail(s)[i] = s[i + 1]
  BY <1>1
<1>3. /\ stdin'[p] = Tail(s)
      /\ \A q \in Procs \ {p} : stdin'[q] = stdin[q]
  BY <1>1 DEF ProcTypeOK
<1>4. \A q \in Procs \ {p} : /\ SaveFirst(q)'
                             /\ SaveSent(q) => SaveSent(q)'
                             /\ AskedToStop(q) => AskedToStop(q)'
  BY <1>1, <1>3 DEF SaveFirst, SaveSent, AskedToStop
<1>5. s[1] = "c_shutdown" => p \in saved
  BY <1>2 DEF SaveFirst
<1>6. ASSUME NEW c \in Commands, NEW i \in DOMAIN s, s[i] = c, s[1] # c
      PROVE  \E j \in DOMAIN stdin'[p] : stdin'[p][j] = c
  <2>1. i - 1 \in 1..(Len(s) - 1)
    BY <1>2, <1>6
  <2>2. stdin'[p][i - 1] = c
    BY <1>2, <1>3, <1>6, <2>1
  <2>3. QED
    BY <1>2, <1>3, <2>1, <2>2
<1>7. SaveSent(p) => SaveSent(p)'
  BY <1>1, <1>6 DEF SaveSent, Commands
<1>8. AskedToStop(p) => AskedToStop(p)'
  BY <1>1, <1>6 DEF AskedToStop, Commands
<1>9. SaveFirst(p)'
  <2> SUFFICES ASSUME NEW i \in 1..(Len(s) - 1), s[i + 1] = "c_shutdown",
                      p \notin saved'
               PROVE  \E j \in 1..(i - 1) : stdin'[p][j] = "c_save"
    BY <1>2, <1>3 DEF SaveFirst
  <2>1. p \notin saved /\ s[1] # "c_save" /\ i + 1 \in DOMAIN s
    BY <1>1, <1>2
  <2>2. PICK j \in 1..((i + 1) - 1) : s[j] = "c_save"
    BY <2>1 DEF SaveFirst
  <2>3. j - 1 \in 1..(i - 1) /\ j - 1 \in 1..(Len(s) - 1)
    BY <1>2, <2>1, <2>2
  <2>4. stdin'[p][j - 1] = "c_save"
    BY <1>2, <1>3, <2>2, <2>3
  <2>5. QED
    BY <2>3, <2>4
<1>10. QED
  BY <1>1, <1>4, <1>5, <1>7, <1>8, <1>9

LEMMA ConsoleSame ==
  ASSUME NEW q \in Procs, stdin'[q] = stdin[q], UNCHANGED <<saved, quitting>>
  PROVE  /\ SaveFirst(q)' <=> SaveFirst(q)
         /\ SaveSent(q)' <=> SaveSent(q)
         /\ AskedToStop(q)' <=> AskedToStop(q)
BY DEF SaveFirst, SaveSent, AskedToStop

\* Thread t, which had received nothing yet, receives v from its process.
ReceivedBy(t, v) ==
  /\ target[t] \in Procs
  /\ got[t] = "none"
  /\ Receive(target[t], v)
  /\ got' = [got EXCEPT ![t] = v]
  /\ UNCHANGED target

\* It gets the exit result, or nil because another thread got the result.
LEMMA ReceiveDone ==
  ASSUME TypeOK, DoneInv, NEW t \in Threads, NEW v \in Results, ReceivedBy(t, v)
  PROVE  /\ v = exit[target[t]] \/ (v = "nil" /\ Taken(target[t]))
         /\ \A p \in Procs :
              IF done'[p].reaper = "waiting"
                THEN done'[p].buf = "none"
                ELSE /\ exit'[p] # "none"
                     /\ \/ done'[p].buf = exit'[p]
                        \/ done'[p].buf = "none" /\ Taken(p)'
<1> DEFINE q == target[t]
<1>1. /\ q \in Procs /\ got[t] = "none" /\ exit' = exit
      /\ got' = [got EXCEPT ![t] = v] /\ target' = target
      /\ done' = [done EXCEPT ![q].buf = "none"]
      /\ \/ done[q].buf # "none" /\ v = done[q].buf
         \/ done[q].buf = "none" /\ done[q].reaper = "closed" /\ v = "nil"
  BY DEF ReceivedBy, Receive
<1>2. done[q].reaper # "waiting" /\ exit[q] # "none"
  BY <1>1 DEF DoneInv
<1>3. v = exit[q] \/ (v = "nil" /\ Taken(q))
  BY <1>1, <1>2 DEF DoneInv
<1>4. \A p \in Procs : exit[p] # "none" /\ Taken(p) => Taken(p)'
  BY <1>1 DEF Taken, TypeOK
<1>5. Taken(q)'
  <2>1. got'[t] = v
    BY <1>1 DEF TypeOK
  <2>2. CASE v = exit[q]
    BY <1>1, <2>1, <2>2 DEF Taken
  <2>3. CASE Taken(q)
    BY <1>1, <1>2, <1>4, <2>3
  <2>4. QED
    BY <1>3, <2>2, <2>3
<1>6. \A p \in Procs :
        /\ done'[p].reaper = done[p].reaper
        /\ p # q => done'[p].buf = done[p].buf
        /\ done'[q].buf = "none"
  BY <1>1 DEF TypeOK, ProcTypeOK
<1>7. ASSUME NEW p \in Procs
      PROVE  IF done'[p].reaper = "waiting"
               THEN done'[p].buf = "none"
               ELSE /\ exit'[p] # "none"
                    /\ \/ done'[p].buf = exit'[p]
                       \/ done'[p].buf = "none" /\ Taken(p)'
  <2>1. CASE p = q
    BY <1>1, <1>2, <1>5, <1>6, <2>1
  <2>2. CASE p # q
    BY <1>1, <1>4, <1>6, <2>2 DEF DoneInv
  <2>3. QED
    BY <2>1, <2>2
<1>8. QED
  BY <1>3, <1>7

\* A step that leaves the done channels and their receivers alone.
LEMMA DoneFrame ==
  ASSUME DoneInv, UNCHANGED <<exit, done, got, target>>,
         \A t \in Threads : pc[t] \in Received => pc'[t] \in Received,
         pc'[Main] = "exiting" => pc[Main] = "exiting" /\ code' = code
  PROVE  DoneInv'
<1>1. \A p \in Procs : Taken(p)' <=> Taken(p)
  BY DEF Taken
<1>2. MainKnows' <=> MainKnows
  BY DEF MainKnows
<1>3. QED
  BY <1>1, <1>2 DEF DoneInv

\* A step that launches nothing, stores nothing and captures nothing.
LEMMA LeafFrame ==
  ASSUME LeafInv, UNCHANGED <<launched, dst>>,
         \A t \in Restarters : target'[t] = target[t],
         \A p \in Procs : pc[p] \in {"setproc", "store"} => pc'[p] = pc[p]
  PROVE  LeafInv'
<1>1. \A o \in launched : Overlap(o)' <=> Overlap(o)
  BY DEF Overlap
<1>2. \A p \in Procs : Leaf(p)' <=> Leaf(p)
  BY DEF Leaf, Replaced
<1>3. QED
  BY <1>1, <1>2 DEF LeafInv

LEMMA TypeStep ==
  ASSUME TypeOK, LaunchInv, [Next]_vars
  PROVE  TypeOK' /\ LaunchInv'
<1> USE ThreadAssumption, ClientAssumption DEF TypeOK, LaunchInv, ProcTypeOK,
      Requests, Threads, Results, Commands, States, Labels, WorkLabels,
      NotLaunchedYet, Goto, procVars, supVars, Up
<1>1. CASE Prepare
  BY <1>1 DEF Prepare
<1>2. CASE Install
  BY <1>2 DEF Install
<1>3. CASE FirstStart
  BY <1>3 DEF FirstStart, StartDST
<1>4. CASE StartupFailure
  BY <1>4 DEF StartupFailure
<1>5. CASE SetProcess
  BY <1>5 DEF SetProcess
<1>6. CASE Notify
  BY <1>6 DEF Notify
<1>7. CASE WaitForExit
  BY <1>7 DEF WaitForExit
<1>8. CASE SelectExit
  <2>1. PICK v \in Results : Receive(target[Main], v) /\ got' = [got EXCEPT ![Main] = v]
    BY <1>8 DEF SelectExit
  <2>2. target[Main] \in Procs
    BY <1>8 DEF SelectExit
  <2>3. ProcTypeOK'
    BY <2>1, <2>2, ReceiveType
  <2>4. QED
    BY <1>8, <2>1, <2>3 DEF SelectExit, Receive
<1>9. CASE SelectSignal
  BY <1>9, ZenonT(30) DEF SelectSignal
<1>10. CASE \E t \in Requests : Request(t)
  BY <1>10 DEF Request
<1>11. CASE \E t \in Threads : Capture(t)
  BY <1>11 DEF Capture
<1>12. CASE \E t \in Threads : Mark(t)
  BY <1>12 DEF Mark
<1>13. CASE \E t \in Threads : SendSave(t)
  <2>1. PICK t \in Threads : SendSave(t)
    BY <1>13
  <2>2. target[t] \in Procs /\ SendCommand(target[t], "c_save")
    BY <2>1 DEF SendSave
  <2>3. ProcTypeOK'
    BY <2>2, SendCommandType
  <2>4. QED
    BY <2>1, <2>3 DEF SendSave, SendCommand
<1>14. CASE \E t \in Threads : SendShutdown(t)
  <2>1. PICK t \in Threads : SendShutdown(t)
    BY <1>14
  <2>2. target[t] \in Procs /\ SendCommand(target[t], "c_shutdown")
    BY <2>1 DEF SendShutdown
  <2>3. ProcTypeOK'
    BY <2>2, SendCommandType
  <2>4. QED
    BY <2>1, <2>3 DEF SendShutdown, SendCommand
<1>15. CASE \E t \in Threads : Timeout(t)
  BY <1>15 DEF Timeout
<1>16. CASE \E t \in Threads : Kill(t)
  BY <1>16 DEF Kill, SignalKill, Alive
<1>17. CASE \E t \in Threads : WaitReturns(t)
  <2>1. PICK t \in Threads : WaitReturns(t)
    BY <1>17
  <2>2. PICK v \in Results : Receive(target[t], v) /\ got' = [got EXCEPT ![t] = v]
    BY <2>1 DEF WaitReturns
  <2>3. target[t] \in Procs
    BY <2>1 DEF WaitReturns
  <2>4. ProcTypeOK'
    BY <2>2, <2>3, ReceiveType
  <2>5. QED
    BY <2>1, <2>2, <2>4 DEF WaitReturns, Receive, AfterExit
<1>18. CASE \E t \in Threads : Finish(t)
  BY <1>18 DEF Finish
<1>19. CASE \E t \in Restarters : Relaunch(t)
  BY <1>19 DEF Relaunch
<1>20. CASE \E t \in Restarters : Reset(t)
  BY <1>20 DEF Reset
<1>21. CASE \E t \in Restarters : Launch(t)
  BY <1>21 DEF Launch, StartDST
<1>22. CASE \E t \in Restarters : LaunchFails(t)
  BY <1>22 DEF LaunchFails
<1>23. CASE \E t \in Restarters : Store(t)
  BY <1>23 DEF Store
<1>24. CASE \E cmd \in ClientCmds : ClientLocks(cmd)
  BY <1>24 DEF ClientLocks
<1>25. CASE ClientWrites
  <2>1. dst \in Procs /\ sending \in Commands /\ SendCommand(dst, sending)
    BY <1>25 DEF ClientWrites
  <2>2. ProcTypeOK'
    BY <2>1, SendCommandType
  <2>3. QED
    BY <1>25, <2>2 DEF ClientWrites, SendCommand
<1>26. CASE Signal
  BY <1>26 DEF Signal, BeforeNotify
<1>27. CASE ReportRunning
  BY <1>27 DEF ReportRunning
<1>28. CASE \E p \in Procs : Reaper(p)
  <2>1. PICK p \in Procs : ReaperSend(p) \/ ReaperClose(p)
    BY <1>28 DEF Reaper
  <2>2. ProcTypeOK'
    BY <2>1, ReaperType
  <2>3. QED
    BY <1>28, <2>1, <2>2 DEF Reaper, ReaperSend, ReaperClose
<1>29. CASE \E p \in Procs : DSTReads(p)
  BY <1>29 DEF DSTReads, ReadCommand, Alive
<1>30. CASE \E p \in Procs : DSTExits(p)
  BY <1>30 DEF DSTExits, Exit, Alive
<1>31. CASE UNCHANGED vars
  BY <1>31 DEF vars
<1>32. CASE MainEnds
  BY <1>32 DEF MainEnds
<1>33. QED
  BY <1>1, <1>2, <1>3, <1>4, <1>5, <1>6, <1>7, <1>8, <1>9, <1>10, <1>11,
     <1>12, <1>13, <1>14, <1>15, <1>16, <1>17, <1>18, <1>19, <1>20, <1>21,
     <1>22, <1>23, <1>24, <1>25, <1>26, <1>27, <1>28, <1>29, <1>30, <1>31,
     <1>32
  DEF Next, MainStep, HandlerStep, RestartStep, Client, Process, Exited

LEMMA ConsoleStep ==
  ASSUME TypeOK, LaunchInv, TypeOK', ConsoleInv, [Next]_vars
  PROVE  ConsoleInv'
<1> USE ThreadAssumption, ClientAssumption DEF TypeOK, LaunchInv, ProcTypeOK,
      Requests, Threads, Results, Commands, States, Labels, WorkLabels,
      NotLaunchedYet, Goto, procVars, supVars, Up,
      ConsoleInv, SavedBeforeQuit, KilledAfterAsking, Alive
<1>1. CASE Prepare
  BY <1>1, ConsoleSame DEF Prepare
<1>2. CASE Install
  BY <1>2, ConsoleSame DEF Install
<1>3. CASE FirstStart
  BY <1>3, ConsoleSame DEF FirstStart, StartDST
<1>4. CASE StartupFailure
  BY <1>4, ConsoleSame DEF StartupFailure
<1>5. CASE SetProcess
  BY <1>5, ConsoleSame DEF SetProcess
<1>6. CASE Notify
  BY <1>6, ConsoleSame DEF Notify
<1>7. CASE WaitForExit
  BY <1>7, ConsoleSame DEF WaitForExit
<1>8. CASE SelectExit
  BY <1>8, ConsoleSame DEF SelectExit, Receive
<1>9. CASE SelectSignal
  BY <1>9, ConsoleSame DEF SelectSignal
<1>10. CASE \E t \in Requests : Request(t)
  BY <1>10, ConsoleSame DEF Request
<1>11. CASE \E t \in Threads : Capture(t)
  BY <1>11, ConsoleSame DEF Capture
<1>12. CASE \E t \in Threads : Mark(t)
  BY <1>12, ConsoleSame DEF Mark
<1>13. CASE \E t \in Threads : SendSave(t)
  <2>1. PICK t \in Threads : SendSave(t)
    BY <1>13
  <2>2. PICK p \in Procs : p = target[t] /\ SendCommand(p, "c_save")
    BY <2>1 DEF SendSave
  <2>3. "c_save" \in Commands
    BY DEF Commands
  <2>4. /\ \A q \in Procs : SaveFirst(q)'
        /\ \A q \in Procs : SaveSent(q) => SaveSent(q)'
        /\ \A q \in Procs : AskedToStop(q) => AskedToStop(q)'
        /\ exit[p] = "none" => SaveSent(p)'
        /\ UNCHANGED <<launched, exit, saved, quitting, killed>>
    BY <2>2, <2>3, SendCommandConsole
  <2>5. target' = target /\ pc' = [pc EXCEPT ![t] = "shut"]
    BY <2>1 DEF SendSave
  <2>6. \A u \in Threads :
          pc'[u] = "shut" => exit'[target'[u]] # "none" \/ SaveSent(target[u])'
    BY <2>2, <2>4, <2>5
  <2>7. \A u \in Threads :
          pc'[u] \in {"wait", "kill", "waitkill"} =>
            exit'[target'[u]] # "none" \/ AskedToStop(target[u])'
    BY <2>4, <2>5
  <2>8. QED
    BY <2>4, <2>5, <2>6, <2>7
<1>14. CASE \E t \in Threads : SendShutdown(t)
  <2>1. PICK t \in Threads : SendShutdown(t)
    BY <1>14
  <2>2. target[t] \in Procs /\ SendCommand(target[t], "c_shutdown")
    BY <2>1 DEF SendShutdown
  <2>3. "c_shutdown" \in Commands /\ (exit[target[t]] # "none" \/ SaveSent(target[t]))
    BY <2>1 DEF SendShutdown
  <2>4. QED
    BY <2>1, <2>2, <2>3, SendCommandConsole DEF SendShutdown
<1>15. CASE \E t \in Threads : Timeout(t)
  BY <1>15, ConsoleSame DEF Timeout
<1>16. CASE \E t \in Threads : Kill(t)
  BY <1>16, ConsoleSame DEF Kill, SignalKill, Alive
<1>17. CASE \E t \in Threads : WaitReturns(t)
  BY <1>17, ConsoleSame DEF WaitReturns, Receive, AfterExit
<1>18. CASE \E t \in Threads : Finish(t)
  BY <1>18, ConsoleSame DEF Finish
<1>19. CASE \E t \in Restarters : Relaunch(t)
  BY <1>19, ConsoleSame DEF Relaunch
<1>20. CASE \E t \in Restarters : Reset(t)
  BY <1>20, ConsoleSame DEF Reset
<1>21. CASE \E t \in Restarters : Launch(t)
  BY <1>21, ConsoleSame DEF Launch, StartDST
<1>22. CASE \E t \in Restarters : LaunchFails(t)
  BY <1>22, ConsoleSame DEF LaunchFails
<1>23. CASE \E t \in Restarters : Store(t)
  BY <1>23, ConsoleSame DEF Store
<1>24. CASE \E cmd \in ClientCmds : ClientLocks(cmd)
  BY <1>24, ConsoleSame DEF ClientLocks
<1>25. CASE ClientWrites
  <2>1. dst \in Procs /\ sending \in Commands /\ sending # "c_shutdown" /\ SendCommand(dst, sending)
    BY <1>25 DEF ClientWrites
  <2>2. /\ \A q \in Procs : SaveFirst(q)'
        /\ \A q \in Procs : SaveSent(q) => SaveSent(q)'
        /\ \A q \in Procs : AskedToStop(q) => AskedToStop(q)'
        /\ UNCHANGED <<launched, exit, saved, quitting, killed>>
    BY <2>1, SendCommandConsole
  <2>3. UNCHANGED <<pc, target>>
    BY <1>25 DEF ClientWrites
  <2>4. QED
    BY <2>2, <2>3
<1>26. CASE Signal
  BY <1>26, ConsoleSame DEF Signal, BeforeNotify
<1>27. CASE ReportRunning
  BY <1>27, ConsoleSame DEF ReportRunning
<1>28. CASE \E p \in Procs : Reaper(p)
  BY <1>28, ConsoleSame DEF Reaper, ReaperSend, ReaperClose
<1>29. CASE \E p \in Procs : DSTReads(p)
  <2>1. PICK p \in Procs : ReadCommand(p) /\ UNCHANGED supVars
    BY <1>29 DEF DSTReads
  <2>2. /\ \A q \in Procs : SaveFirst(q)'
        /\ \A q \in Procs : SaveSent(q) => SaveSent(q)'
        /\ \A q \in Procs : AskedToStop(q) => AskedToStop(q)'
        /\ quitting' \subseteq saved'
        /\ UNCHANGED <<launched, exit, killed>>
    BY <2>1, ReadCommandConsole
  <2>3. UNCHANGED <<pc, target>>
    BY <2>1
  <2>4. QED
    BY <2>2, <2>3
<1>30. CASE \E p \in Procs : DSTExits(p)
  <2>1. PICK p \in Procs : \E r \in Results : Exit(p, r)
    BY <1>30 DEF DSTExits
  <2>2. /\ \A q \in Procs : q # p => stdin'[q] = stdin[q] /\ exit'[q] = exit[q]
        /\ stdin'[p] = << >> /\ exit'[p] # "none"
        /\ UNCHANGED <<launched, saved, quitting, killed>>
    BY <2>1 DEF Exit
  <2>3. UNCHANGED <<pc, target>>
    BY <1>30 DEF DSTExits
  <2>4. ASSUME NEW q \in Procs, q # p
        PROVE  /\ SaveFirst(q)' <=> SaveFirst(q)
               /\ SaveSent(q)' <=> SaveSent(q)
               /\ AskedToStop(q)' <=> AskedToStop(q)
    BY <2>2, <2>4, ConsoleSame
  <2>5. SaveFirst(p)'
    BY <2>2 DEF SaveFirst
  <2>6. \A q \in Procs : SaveFirst(q)'
    BY <2>4, <2>5
  <2>7. \A t \in Threads :
          pc'[t] = "shut" => exit'[target'[t]] # "none" \/ SaveSent(target[t])'
    BY <2>2, <2>3, <2>4
  <2>8. \A t \in Threads :
          pc'[t] \in {"wait", "kill", "waitkill"} =>
            exit'[target'[t]] # "none" \/ AskedToStop(target[t])'
    BY <2>2, <2>3, <2>4
  <2>9. SavedBeforeQuit' /\ KilledAfterAsking'
    BY <2>2, <2>4
  <2>10. QED
    BY <2>3, <2>6, <2>7, <2>8, <2>9
<1>31. CASE UNCHANGED vars
  BY <1>31, ConsoleSame DEF vars
<1>32. CASE MainEnds
  BY <1>32, ConsoleSame DEF MainEnds
<1>33. QED
  BY <1>1, <1>2, <1>3, <1>4, <1>5, <1>6, <1>7, <1>8, <1>9, <1>10, <1>11,
     <1>12, <1>13, <1>14, <1>15, <1>16, <1>17, <1>18, <1>19, <1>20, <1>21,
     <1>22, <1>23, <1>24, <1>25, <1>26, <1>27, <1>28, <1>29, <1>30, <1>31,
     <1>32
  DEF Next, MainStep, HandlerStep, RestartStep, Client, Process, Exited

LEMMA DoneStep ==
  ASSUME TypeOK, LaunchInv, TypeOK', DoneInv, [Next]_vars
  PROVE  DoneInv'
<1> USE ThreadAssumption, ClientAssumption DEF TypeOK, LaunchInv, ProcTypeOK,
      Requests, Threads, Results, Commands, States, Labels, WorkLabels,
      NotLaunchedYet, Goto, procVars, supVars, Up, Received
<1>1. CASE Prepare
  BY <1>1, DoneFrame DEF Prepare
<1>2. CASE Install
  BY <1>2, DoneFrame DEF Install
<1>3. CASE FirstStart
  BY <1>3, DoneFrame DEF FirstStart, StartDST
<1>4. CASE StartupFailure
  BY <1>4, DoneFrame DEF StartupFailure
<1>5. CASE SetProcess
  BY <1>5, DoneFrame DEF SetProcess
<1>6. CASE Notify
  BY <1>6, DoneFrame DEF Notify
<1>7. CASE WaitForExit
  <2>1. /\ UNCHANGED <<exit, done, got>>
        /\ pc' = [pc EXCEPT ![Main] = "select"] /\ pc[Main] = "watch"
        /\ \A t \in Requests : target'[t] = target[t]
    BY <1>7 DEF WaitForExit
  <2>2. got[Main] = "none"
    BY <2>1 DEF DoneInv
  <2>3. \A p \in Procs : exit[p] # "none" /\ Taken(p) => Taken(p)'
    BY <2>1, <2>2 DEF Taken
  <2>4. QED
    BY <2>1, <2>2, <2>3 DEF DoneInv
<1>8. CASE SelectExit
  <2>1. PICK v \in Results : Receive(target[Main], v) /\ got' = [got EXCEPT ![Main] = v]
    BY <1>8 DEF SelectExit
  <2>2. /\ target[Main] \in Procs /\ pc[Main] = "select" /\ code = "none"
        /\ pc' = [pc EXCEPT ![Main] = "exiting"] /\ UNCHANGED <<target, code>>
    BY <1>8, <2>1 DEF SelectExit
  <2>3. got[Main] = "none"
    BY <2>2 DEF DoneInv
  <2>4. ReceivedBy(Main, v)
    BY <2>1, <2>2, <2>3 DEF ReceivedBy
  <2>5. exit[target[Main]] # "none" /\ exit' = exit
    BY <2>1, <2>2 DEF Receive, DoneInv
  <2>6. got'[Main] = v /\ \A t \in Requests : got'[t] = got[t]
    BY <2>1
  <2>7. v # exit[target[Main]] => Taken(target[Main])
    BY <2>4, ReceiveDone
  <2>8. MainKnows'
    <3> SUFFICES ASSUME v # exit[target[Main]]
                 PROVE  \E t \in Requests :
                          target[t] = target[Main] /\ got'[t] = exit[target[Main]]
      BY <2>2, <2>5, <2>6 DEF MainKnows
    <3>1. PICK t \in Threads : target[t] = target[Main] /\ got[t] = exit[target[Main]]
      BY <2>7 DEF Taken
    <3>2. t \in Requests
      BY <2>3, <2>5, <3>1
    <3>3. QED
      BY <2>6, <3>1, <3>2
  <2>9. QED
    BY <2>2, <2>4, <2>6, <2>8, ReceiveDone DEF DoneInv
<1>9. CASE SelectSignal
  BY <1>9, DoneFrame DEF SelectSignal
<1>10. CASE \E t \in Requests : Request(t)
  BY <1>10, DoneFrame DEF Request
<1>11. CASE \E t \in Threads : Capture(t)
  <2>1. PICK t \in Threads : Capture(t)
    BY <1>11
  <2>2. /\ UNCHANGED <<exit, done, got, code>>
        /\ pc[t] = "capture" /\ Up
        /\ \A u \in Threads \ {t} : target'[u] = target[u] /\ pc'[u] = pc[u]
        /\ pc'[t] \in {"mark", "done"}
    BY <2>1 DEF Capture
  <2>3. got[t] = "none"
    BY <2>2 DEF DoneInv
  <2>4. \A p \in Procs : exit[p] # "none" /\ Taken(p) => Taken(p)'
    BY <2>2, <2>3 DEF Taken
  <2>5. pc'[Main] = "exiting" => pc[Main] = "exiting" /\ MainKnows'
    BY <2>2, <2>3 DEF DoneInv, MainKnows
  <2>6. QED
    BY <2>2, <2>3, <2>4, <2>5, SMTT(30) DEF DoneInv
<1>12. CASE \E t \in Threads : Mark(t)
  BY <1>12, DoneFrame DEF Mark
<1>13. CASE \E t \in Threads : SendSave(t)
  BY <1>13, DoneFrame DEF SendSave, SendCommand
<1>14. CASE \E t \in Threads : SendShutdown(t)
  BY <1>14, DoneFrame DEF SendShutdown, SendCommand
<1>15. CASE \E t \in Threads : Timeout(t)
  BY <1>15, DoneFrame DEF Timeout
<1>16. CASE \E t \in Threads : Kill(t)
  BY <1>16, DoneFrame DEF Kill, SignalKill, Alive
<1>17. CASE \E t \in Threads : WaitReturns(t)
  <2>1. PICK t \in Threads : WaitReturns(t)
    BY <1>17
  <2>2. PICK v \in Results : Receive(target[t], v) /\ got' = [got EXCEPT ![t] = v]
    BY <2>1 DEF WaitReturns
  <2>3. /\ target[t] \in Procs /\ pc[t] \in {"wait", "waitkill"} /\ Up
        /\ UNCHANGED <<target, code>>
        /\ pc' = [pc EXCEPT ![t] = AfterExit(t)]
    BY <2>1 DEF WaitReturns
  <2>4. got[t] = "none"
    BY <2>3 DEF DoneInv
  <2>5. ReceivedBy(t, v)
    BY <2>2, <2>3, <2>4 DEF ReceivedBy
  <2>6. pc'[Main] = "exiting" =>
          pc[Main] = "exiting" /\ MainKnows' /\ got'[Main] = got[Main]
    <3> SUFFICES ASSUME pc'[Main] = "exiting"
                 PROVE  pc[Main] = "exiting" /\ MainKnows' /\ got'[Main] = got[Main]
      OBVIOUS
    <3>1. pc[Main] = "exiting" /\ t # Main /\ got'[Main] = got[Main] /\ exit' = exit
      BY <2>2, <2>3 DEF AfterExit, Receive
    <3>2. MainKnows
      BY <3>1 DEF DoneInv
    <3>3. QED
      BY <2>2, <2>3, <2>4, <3>1, <3>2 DEF MainKnows
  <2>7. AfterExit(t) \in Received /\ AfterExit(t) # "exiting"
    BY DEF AfterExit
  <2>8. \A u \in Threads : pc'[u] \notin Received => u # t /\ pc'[u] = pc[u]
    BY <2>3, <2>7
  <2>9. \A u \in Threads \ {t} : got'[u] = got[u]
    BY <2>2
  <2>10. QED
    BY <2>3, <2>5, <2>6, <2>8, <2>9, ReceiveDone DEF DoneInv
<1>18. CASE \E t \in Threads : Finish(t)
  BY <1>18, DoneFrame DEF Finish
<1>19. CASE \E t \in Restarters : Relaunch(t)
  BY <1>19, DoneFrame DEF Relaunch
<1>20. CASE \E t \in Restarters : Reset(t)
  BY <1>20, DoneFrame DEF Reset
<1>21. CASE \E t \in Restarters : Launch(t)
  BY <1>21, DoneFrame DEF Launch, StartDST
<1>22. CASE \E t \in Restarters : LaunchFails(t)
  BY <1>22, DoneFrame DEF LaunchFails
<1>23. CASE \E t \in Restarters : Store(t)
  BY <1>23, DoneFrame DEF Store
<1>24. CASE \E cmd \in ClientCmds : ClientLocks(cmd)
  BY <1>24, DoneFrame DEF ClientLocks
<1>25. CASE ClientWrites
  BY <1>25, DoneFrame DEF ClientWrites, SendCommand
<1>26. CASE Signal
  BY <1>26, DoneFrame DEF Signal, BeforeNotify
<1>27. CASE ReportRunning
  BY <1>27, DoneFrame DEF ReportRunning
<1>28. CASE \E p \in Procs : Reaper(p)
  <2>1. PICK p \in Procs : ReaperSend(p) \/ ReaperClose(p)
    BY <1>28 DEF Reaper
  <2>2. UNCHANGED <<exit, pc, target, got, code>>
    BY <1>28 DEF Reaper, ReaperSend, ReaperClose
  <2>3. /\ \A q \in Procs : q # p => done'[q] = done[q]
        /\ exit[p] # "none"
        /\ done'[p].reaper # "waiting"
        /\ done'[p].buf = exit[p] \/ (done'[p].buf = "none" /\ Taken(p))
    <3>1. CASE ReaperSend(p)
      BY <3>1 DEF ReaperSend
    <3>2. CASE ReaperClose(p)
      BY <3>2 DEF ReaperClose, DoneInv
    <3>3. QED
      BY <2>1, <3>1, <3>2
  <2>4. \A q \in Procs : Taken(q)' <=> Taken(q)
    BY <2>2 DEF Taken
  <2>5. MainKnows' <=> MainKnows
    BY <2>2 DEF MainKnows
  <2>6. \A q \in Procs :
          IF done'[q].reaper = "waiting"
            THEN done'[q].buf = "none"
            ELSE /\ exit'[q] # "none"
                 /\ done'[q].buf = exit'[q] \/ (done'[q].buf = "none" /\ Taken(q)')
    BY <2>2, <2>3, <2>4 DEF DoneInv
  <2>7. QED
    BY <2>2, <2>5, <2>6 DEF DoneInv
<1>29. CASE \E p \in Procs : DSTReads(p)
  BY <1>29, DoneFrame DEF DSTReads, ReadCommand, Alive
<1>30. CASE \E p \in Procs : DSTExits(p)
  <2>1. PICK p \in Procs, r \in Results : Exit(p, r)
    BY <1>30 DEF DSTExits
  <2>2. /\ UNCHANGED <<done, pc, target, got, code>>
        /\ Up /\ exit[p] = "none"
        /\ \A q \in Procs \ {p} : exit'[q] = exit[q]
    BY <1>30, <2>1 DEF DSTExits, Exit, Alive
  <2>3. \A q \in Procs \ {p} : Taken(q)' <=> Taken(q)
    BY <2>2 DEF Taken
  <2>4. done[p].reaper = "waiting" /\ done[p].buf = "none"
    BY <2>2 DEF DoneInv
  <2>5. MainKnows => MainKnows'
    BY <2>2 DEF MainKnows
  <2>6. QED
    BY <2>2, <2>3, <2>4, <2>5 DEF DoneInv
<1>31. CASE UNCHANGED vars
  BY <1>31, DoneFrame DEF vars
<1>32. CASE MainEnds
  <2>1. /\ UNCHANGED <<exit, done, got, target, pc>> /\ pc[Main] = "exiting"
        /\ code' = IF got[Main] = "err" THEN "1" ELSE "0"
    BY <1>32 DEF MainEnds
  <2>2. \A p \in Procs : Taken(p)' <=> Taken(p)
    BY <2>1 DEF Taken
  <2>3. MainKnows' <=> MainKnows
    BY <2>1 DEF MainKnows
  <2>4. QED
    BY <2>1, <2>2, <2>3 DEF DoneInv
<1>33. QED
  BY <1>1, <1>2, <1>3, <1>4, <1>5, <1>6, <1>7, <1>8, <1>9, <1>10, <1>11,
     <1>12, <1>13, <1>14, <1>15, <1>16, <1>17, <1>18, <1>19, <1>20, <1>21,
     <1>22, <1>23, <1>24, <1>25, <1>26, <1>27, <1>28, <1>29, <1>30, <1>31,
     <1>32
  DEF Next, MainStep, HandlerStep, RestartStep, Client, Process, Exited

LEMMA FreshStep ==
  ASSUME TypeOK, LaunchInv, TypeOK', FreshInv, [Next]_vars
  PROVE  FreshInv'
<1> USE ThreadAssumption, ClientAssumption DEF TypeOK, LaunchInv, ProcTypeOK,
      Requests, Threads, Results, Commands, States, Labels, WorkLabels,
      NotLaunchedYet, Goto, procVars, supVars, Up,
      FreshInv
<1>1. CASE Prepare
  BY <1>1 DEF Prepare
<1>2. CASE Install
  BY <1>2 DEF Install
<1>3. CASE FirstStart
  BY <1>3 DEF FirstStart, StartDST
<1>4. CASE StartupFailure
  BY <1>4 DEF StartupFailure
<1>5. CASE SetProcess
  BY <1>5 DEF SetProcess
<1>6. CASE Notify
  BY <1>6 DEF Notify
<1>7. CASE WaitForExit
  BY <1>7 DEF WaitForExit
<1>8. CASE SelectExit
  BY <1>8 DEF SelectExit, Receive
<1>9. CASE SelectSignal
  BY <1>9 DEF SelectSignal
<1>10. CASE \E t \in Requests : Request(t)
  BY <1>10 DEF Request
<1>11. CASE \E t \in Threads : Capture(t)
  BY <1>11 DEF Capture
<1>12. CASE \E t \in Threads : Mark(t)
  BY <1>12 DEF Mark
<1>13. CASE \E t \in Threads : SendSave(t)
  BY <1>13 DEF SendSave, SendCommand
<1>14. CASE \E t \in Threads : SendShutdown(t)
  BY <1>14 DEF SendShutdown, SendCommand
<1>15. CASE \E t \in Threads : Timeout(t)
  BY <1>15 DEF Timeout
<1>16. CASE \E t \in Threads : Kill(t)
  BY <1>16 DEF Kill, SignalKill, Alive
<1>17. CASE \E t \in Threads : WaitReturns(t)
  BY <1>17 DEF WaitReturns, Receive, AfterExit
<1>18. CASE \E t \in Threads : Finish(t)
  BY <1>18 DEF Finish
<1>19. CASE \E t \in Restarters : Relaunch(t)
  BY <1>19 DEF Relaunch
<1>20. CASE \E t \in Restarters : Reset(t)
  BY <1>20 DEF Reset
<1>21. CASE \E t \in Restarters : Launch(t)
  BY <1>21 DEF Launch, StartDST
<1>22. CASE \E t \in Restarters : LaunchFails(t)
  BY <1>22 DEF LaunchFails
<1>23. CASE \E t \in Restarters : Store(t)
  BY <1>23 DEF Store
<1>24. CASE \E cmd \in ClientCmds : ClientLocks(cmd)
  BY <1>24 DEF ClientLocks
<1>25. CASE ClientWrites
  BY <1>25 DEF ClientWrites, SendCommand
<1>26. CASE Signal
  BY <1>26 DEF Signal, BeforeNotify
<1>27. CASE ReportRunning
  BY <1>27 DEF ReportRunning
<1>28. CASE \E p \in Procs : Reaper(p)
  BY <1>28 DEF Reaper, ReaperSend, ReaperClose
<1>29. CASE \E p \in Procs : DSTReads(p)
  BY <1>29 DEF DSTReads, ReadCommand, Alive
<1>30. CASE \E p \in Procs : DSTExits(p)
  BY <1>30 DEF DSTExits, Exit, Alive
<1>31. CASE UNCHANGED vars
  BY <1>31 DEF vars
<1>32. CASE MainEnds
  BY <1>32 DEF MainEnds
<1>33. QED
  BY <1>1, <1>2, <1>3, <1>4, <1>5, <1>6, <1>7, <1>8, <1>9, <1>10, <1>11,
     <1>12, <1>13, <1>14, <1>15, <1>16, <1>17, <1>18, <1>19, <1>20, <1>21,
     <1>22, <1>23, <1>24, <1>25, <1>26, <1>27, <1>28, <1>29, <1>30, <1>31,
     <1>32
  DEF Next, MainStep, HandlerStep, RestartStep, Client, Process, Exited

LEMMA ParentStep ==
  ASSUME TypeOK, LaunchInv, TypeOK', DoneInv, ParentInv, [Next]_vars
  PROVE  ParentInv'
<1> USE ThreadAssumption, ClientAssumption DEF TypeOK, LaunchInv, ProcTypeOK,
      Requests, Threads, Results, Commands, States, Labels, WorkLabels,
      NotLaunchedYet, Goto, procVars, supVars, Up,
      ParentInv
<1>1. CASE Prepare
  BY <1>1 DEF Prepare
<1>2. CASE Install
  BY <1>2 DEF Install
<1>3. CASE FirstStart
  BY <1>3 DEF FirstStart, StartDST
<1>4. CASE StartupFailure
  BY <1>4 DEF StartupFailure
<1>5. CASE SetProcess
  BY <1>5 DEF SetProcess
<1>6. CASE Notify
  BY <1>6 DEF Notify
<1>7. CASE WaitForExit
  BY <1>7 DEF WaitForExit
<1>8. CASE SelectExit
  BY <1>8 DEF SelectExit, Receive
<1>9. CASE SelectSignal
  BY <1>9 DEF SelectSignal
<1>10. CASE \E t \in Requests : Request(t)
  BY <1>10 DEF Request
<1>11. CASE \E t \in Threads : Capture(t)
  BY <1>11 DEF Capture
<1>12. CASE \E t \in Threads : Mark(t)
  BY <1>12 DEF Mark
<1>13. CASE \E t \in Threads : SendSave(t)
  BY <1>13 DEF SendSave, SendCommand
<1>14. CASE \E t \in Threads : SendShutdown(t)
  BY <1>14 DEF SendShutdown, SendCommand
<1>15. CASE \E t \in Threads : Timeout(t)
  BY <1>15 DEF Timeout
<1>16. CASE \E t \in Threads : Kill(t)
  BY <1>16 DEF Kill, SignalKill, Alive
<1>17. CASE \E t \in Threads : WaitReturns(t)
  <2>1. PICK t \in Threads : WaitReturns(t)
    BY <1>17
  <2>2. PICK v \in Results : Receive(target[t], v)
    BY <2>1 DEF WaitReturns
  <2>3. target[t] \in Procs /\ exit[target[t]] # "none"
    BY <2>1, <2>2 DEF WaitReturns, Receive, DoneInv
  <2>4. /\ UNCHANGED <<launched, target, exit>>
        /\ pc' = [pc EXCEPT ![t] = AfterExit(t)]
    BY <2>1, <2>2 DEF WaitReturns, Receive
  <2>5. QED
    BY <2>3, <2>4
<1>18. CASE \E t \in Threads : Finish(t)
  BY <1>18 DEF Finish
<1>19. CASE \E t \in Restarters : Relaunch(t)
  BY <1>19 DEF Relaunch
<1>20. CASE \E t \in Restarters : Reset(t)
  BY <1>20 DEF Reset
<1>21. CASE \E t \in Restarters : Launch(t)
  BY <1>21 DEF Launch, StartDST
<1>22. CASE \E t \in Restarters : LaunchFails(t)
  BY <1>22 DEF LaunchFails
<1>23. CASE \E t \in Restarters : Store(t)
  BY <1>23 DEF Store
<1>24. CASE \E cmd \in ClientCmds : ClientLocks(cmd)
  BY <1>24 DEF ClientLocks
<1>25. CASE ClientWrites
  BY <1>25 DEF ClientWrites, SendCommand
<1>26. CASE Signal
  BY <1>26 DEF Signal, BeforeNotify
<1>27. CASE ReportRunning
  BY <1>27 DEF ReportRunning
<1>28. CASE \E p \in Procs : Reaper(p)
  BY <1>28 DEF Reaper, ReaperSend, ReaperClose
<1>29. CASE \E p \in Procs : DSTReads(p)
  BY <1>29 DEF DSTReads, ReadCommand, Alive
<1>30. CASE \E p \in Procs : DSTExits(p)
  BY <1>30 DEF DSTExits, Exit, Alive
<1>31. CASE UNCHANGED vars
  BY <1>31 DEF vars
<1>32. CASE MainEnds
  BY <1>32 DEF MainEnds
<1>33. QED
  BY <1>1, <1>2, <1>3, <1>4, <1>5, <1>6, <1>7, <1>8, <1>9, <1>10, <1>11,
     <1>12, <1>13, <1>14, <1>15, <1>16, <1>17, <1>18, <1>19, <1>20, <1>21,
     <1>22, <1>23, <1>24, <1>25, <1>26, <1>27, <1>28, <1>29, <1>30, <1>31,
     <1>32
  DEF Next, MainStep, HandlerStep, RestartStep, Client, Process, Exited

LEMMA LeafStep ==
  ASSUME TypeOK, LaunchInv, TypeOK', FreshInv, ParentInv, LeafInv, [Next]_vars
  PROVE  LeafInv'
<1> USE ThreadAssumption, ClientAssumption DEF TypeOK, LaunchInv, ProcTypeOK,
      Requests, Threads, Results, Commands, States, Labels, WorkLabels,
      NotLaunchedYet, Goto, procVars, supVars, Up
<1>1. CASE Prepare
  BY <1>1, LeafFrame DEF Prepare
<1>2. CASE Install
  BY <1>2, LeafFrame DEF Install
<1>3. CASE FirstStart
  <2>1. /\ launched = {} /\ launched' = {Main}
        /\ pc'[Main] = "setproc"
    BY <1>3 DEF FirstStart, StartDST
  <2>2. \A p \in Procs : Leaf(p)' => p = Main
    BY <2>1 DEF Leaf
  <2>3. QED
    BY <2>1, <2>2 DEF LeafInv
<1>4. CASE StartupFailure
  BY <1>4, LeafFrame DEF StartupFailure
<1>5. CASE SetProcess
  <2>1. /\ dst' = Main /\ UNCHANGED <<launched, target>>
        /\ \A p \in Procs \ {Main} : pc'[p] = pc[p]
        /\ pc[Main] = "setproc" /\ Main \in launched
    BY <1>5 DEF SetProcess
  <2>2. \A p \in Procs : Leaf(p)' <=> Leaf(p)
    BY <2>1 DEF Leaf, Replaced
  <2>3. \A o \in launched : Overlap(o)' <=> Overlap(o)
    BY <2>1 DEF Overlap
  <2>4. Leaf(Main)
    BY <2>1 DEF Leaf, Replaced, FreshInv
  <2>5. QED
    BY <2>1, <2>2, <2>3, <2>4 DEF LeafInv
<1>6. CASE Notify
  BY <1>6, LeafFrame DEF Notify
<1>7. CASE WaitForExit
  BY <1>7, LeafFrame DEF WaitForExit
<1>8. CASE SelectExit
  BY <1>8, LeafFrame DEF SelectExit, Receive
<1>9. CASE SelectSignal
  BY <1>9, LeafFrame DEF SelectSignal
<1>10. CASE \E t \in Requests : Request(t)
  BY <1>10, LeafFrame DEF Request
<1>11. CASE \E t \in Threads : Capture(t)
  <2>1. PICK t \in Threads : Capture(t)
    BY <1>11
  <2>2. /\ UNCHANGED <<launched, dst>> /\ pc[t] = "capture"
        /\ \A u \in Threads \ {t} : target'[u] = target[u] /\ pc'[u] = pc[u]
    BY <2>1 DEF Capture
  <2>3. t \in Restarters => t \notin launched /\ target[t] \notin Procs
    BY <2>2
  <2>4. ASSUME NEW o \in launched, Overlap(o)
        PROVE  Overlap(o)'
    <3>1. PICK q, r \in Restarters : q # r /\ target[q] = o /\ target[r] = o
      BY <2>4 DEF Overlap
    <3>2. q # t /\ r # t
      BY <2>3, <3>1
    <3>3. target'[q] = o /\ target'[r] = o
      BY <2>2, <3>1, <3>2
    <3>4. QED
      BY <3>1, <3>3 DEF Overlap
  <2>5. \A q \in Procs : Leaf(q)' <=> Leaf(q)
    BY <2>2, <2>3 DEF Leaf, Replaced
  <2>6. \A q \in Procs : pc[q] \in {"setproc", "store"} => pc'[q] = pc[q]
    BY <2>2
  <2>7. QED
    BY <2>2, <2>4, <2>5, <2>6 DEF LeafInv
<1>12. CASE \E t \in Threads : Mark(t)
  BY <1>12, LeafFrame DEF Mark
<1>13. CASE \E t \in Threads : SendSave(t)
  BY <1>13, LeafFrame DEF SendSave, SendCommand
<1>14. CASE \E t \in Threads : SendShutdown(t)
  BY <1>14, LeafFrame DEF SendShutdown, SendCommand
<1>15. CASE \E t \in Threads : Timeout(t)
  BY <1>15, LeafFrame DEF Timeout
<1>16. CASE \E t \in Threads : Kill(t)
  BY <1>16, LeafFrame DEF Kill, SignalKill, Alive
<1>17. CASE \E t \in Threads : WaitReturns(t)
  BY <1>17, LeafFrame DEF WaitReturns, Receive, AfterExit
<1>18. CASE \E t \in Threads : Finish(t)
  BY <1>18, LeafFrame DEF Finish
<1>19. CASE \E t \in Restarters : Relaunch(t)
  BY <1>19, LeafFrame DEF Relaunch
<1>20. CASE \E t \in Restarters : Reset(t)
  BY <1>20, LeafFrame DEF Reset
<1>21. CASE \E t \in Restarters : Launch(t)
  <2>1. PICK t \in Restarters : Launch(t)
    BY <1>21
  <2>2. /\ launched' = launched \cup {t} /\ t \notin launched /\ pc[t] = "launch"
        /\ pc' = [pc EXCEPT ![t] = "store"]
        /\ UNCHANGED <<target, dst>>
    BY <2>1 DEF Launch, StartDST
  <2>3. target[t] \in launched /\ target[t] # t
    BY <2>2
  <2>4. \A o \in launched : Overlap(o) => Overlap(o)'
    BY <2>2 DEF Overlap
  <2>5. CASE \E o \in launched : Overlap(o)
    BY <2>2, <2>4, <2>5 DEF LeafInv
  <2>6. CASE ~\E o \in launched : Overlap(o)
    <3>1. ~Replaced(target[t])
      BY <2>2, <2>3, <2>6 DEF Replaced, Overlap
    <3>2. \A q \in Procs : Leaf(q) => q = target[t]
      BY <2>3, <2>6, <3>1 DEF LeafInv, Leaf
    <3>3. \A q \in Procs : Leaf(q)' => Leaf(q) \/ q = t
      BY <2>2 DEF Leaf, Replaced
    <3>4. \A q \in Procs : q = target[t] => ~(Leaf(q)')
      BY <2>2 DEF Leaf, Replaced
    <3>5. \A q \in Procs : Leaf(q)' => q = t
      BY <3>2, <3>3, <3>4
    <3>6. pc'[t] = "store"
      BY <2>2
    <3>7. QED
      BY <3>5, <3>6 DEF LeafInv
  <2>7. QED
    BY <2>5, <2>6
<1>22. CASE \E t \in Restarters : LaunchFails(t)
  BY <1>22, LeafFrame DEF LaunchFails
<1>23. CASE \E t \in Restarters : Store(t)
  <2>1. PICK t \in Restarters : Store(t)
    BY <1>23
  <2>2. /\ dst' = t /\ UNCHANGED <<launched, target>> /\ pc[t] = "store"
        /\ t \in launched /\ \A p \in Procs \ {t} : pc'[p] = pc[p]
    BY <2>1 DEF Store
  <2>3. \A p \in Procs : Leaf(p)' <=> Leaf(p)
    BY <2>2 DEF Leaf, Replaced
  <2>4. \A o \in launched : Overlap(o)' <=> Overlap(o)
    BY <2>2 DEF Overlap
  <2>5. Leaf(t)
    BY <2>2 DEF Leaf, Replaced, FreshInv
  <2>6. QED
    BY <2>2, <2>3, <2>4, <2>5 DEF LeafInv
<1>24. CASE \E cmd \in ClientCmds : ClientLocks(cmd)
  BY <1>24, LeafFrame DEF ClientLocks
<1>25. CASE ClientWrites
  BY <1>25, LeafFrame DEF ClientWrites, SendCommand
<1>26. CASE Signal
  BY <1>26, LeafFrame DEF Signal, BeforeNotify
<1>27. CASE ReportRunning
  BY <1>27, LeafFrame DEF ReportRunning
<1>28. CASE \E p \in Procs : Reaper(p)
  BY <1>28, LeafFrame DEF Reaper, ReaperSend, ReaperClose
<1>29. CASE \E p \in Procs : DSTReads(p)
  BY <1>29, LeafFrame DEF DSTReads, ReadCommand, Alive
<1>30. CASE \E p \in Procs : DSTExits(p)
  BY <1>30, LeafFrame DEF DSTExits, Exit, Alive
<1>31. CASE UNCHANGED vars
  BY <1>31, LeafFrame DEF vars
<1>32. CASE MainEnds
  BY <1>32, LeafFrame DEF MainEnds
<1>33. QED
  BY <1>1, <1>2, <1>3, <1>4, <1>5, <1>6, <1>7, <1>8, <1>9, <1>10, <1>11,
     <1>12, <1>13, <1>14, <1>15, <1>16, <1>17, <1>18, <1>19, <1>20, <1>21,
     <1>22, <1>23, <1>24, <1>25, <1>26, <1>27, <1>28, <1>29, <1>30, <1>31,
     <1>32
  DEF Next, MainStep, HandlerStep, RestartStep, Client, Process, Exited

-----------------------------------------------------------------------------
(* The invariant and what it implies.                                      *)

LEMMA IInvInit == Init => IInv
<1> USE ThreadAssumption
    DEF Requests, Threads, Results, States, Labels, WorkLabels, NotLaunchedYet
<1> SUFFICES ASSUME Init PROVE IInv
  OBVIOUS
<1>1. TypeOK
  <2>1. stdin \in [Procs -> Seq(Commands)]
    BY DEF Init, ProcInit
  <2>2. ProcTypeOK
    BY <2>1 DEF Init, ProcInit, ProcTypeOK
  <2>3. QED
    BY <2>2 DEF Init, ProcInit, TypeOK
<1>2. LaunchInv
  BY DEF Init, ProcInit, LaunchInv
<1>3. ConsoleInv
  BY DEF Init, ProcInit, ConsoleInv, SaveFirst, SavedBeforeQuit, KilledAfterAsking
<1>4. DoneInv
  BY DEF Init, ProcInit, DoneInv
<1>5. FreshInv /\ ParentInv
  BY DEF Init, ProcInit, FreshInv, ParentInv
<1>6. LeafInv
  BY DEF Init, ProcInit, LeafInv, Leaf
<1>7. QED
  BY <1>1, <1>2, <1>3, <1>4, <1>5, <1>6 DEF IInv

LEMMA IInvStep == IInv /\ [Next]_vars => IInv'
BY TypeStep, ConsoleStep, DoneStep, FreshStep, ParentStep, LeafStep DEF IInv

LEMMA Invariance == Spec => []IInv
BY IInvInit, IInvStep, PTL DEF Spec

\* Every variable keeps its type and no thread uses a nil process handle
\* (server.go:64, 92, 128), for any number of requests.
THEOREM TypeCorrect == Spec => []TypeOK
<1>1. IInv => TypeOK
  BY DEF IInv
<1>2. QED
  BY <1>1, Invariance, PTL

\* A DST that carries out c_shutdown has carried out a c_save
\* (server.go:99-105, 136-140).
THEOREM ShutdownSavesFirst == Spec => []SavedBeforeQuit
<1>1. IInv => SavedBeforeQuit
  BY DEF IInv, ConsoleInv
<1>2. QED
  BY <1>1, Invariance, PTL

\* A live server that was sent SIGKILL was asked to shut down before
\* (server.go:109-116, 142-149).
THEOREM KillIsLastResort == Spec => []KilledAfterAsking
<1>1. IInv => KilledAfterAsking
  BY DEF IInv, ConsoleInv
<1>2. QED
  BY <1>1, Invariance, PTL

\* main takes a failed DST for a clean exit only if a request received the
\* error (process.go:137-140, main.go:109-117).
THEOREM ErrorIsMaskedOnlyByRequest == Spec => []ErrorMaskedOnlyByRequest
<1>1. IInv => ErrorMaskedOnlyByRequest
  BY DEF IInv, DoneInv, MainKnows, TypeOK, ErrorMaskedOnlyByRequest
<1>2. QED
  BY <1>1, Invariance, PTL

\* A process that runs is the current one.
LEMMA AliveIsLeaf == IInv => \A p \in Procs : Alive(p) => Leaf(p)
BY DEF IInv, ParentInv, Alive, Leaf, Replaced

\* As long as no two restarts captured the same process, at most one DST
\* server runs (server.go:122-173).
THEOREM AtMostOneServer == Spec => []OneServerUnlessOverlap
<1>1. IInv => OneServerUnlessOverlap
  <2> SUFFICES ASSUME IInv, NEW p \in Procs, NEW q \in Procs,
                      Alive(p), Alive(q), p # q
               PROVE  \E o \in launched : Overlap(o)
    BY DEF OneServerUnlessOverlap
  <2>1. Leaf(p) /\ Leaf(q)
    BY AliveIsLeaf
  <2>2. QED
    BY <2>1 DEF IInv, LeafInv
<1>2. QED
  BY <1>1, Invariance, PTL

\* ... and the supervisor never loses track of it (server.go:166-168).
THEOREM NoServerIsOrphaned == Spec => []LiveServerIsManaged
<1>1. IInv => LiveServerIsManaged
  BY AliveIsLeaf DEF IInv, LeafInv, LiveServerIsManaged
<1>2. QED
  BY <1>1, Invariance, PTL

-----------------------------------------------------------------------------
(* The life of a shard.  The supervisor implements ShardLife, from which   *)
(* module Dashboard is built; that, and what an ordered end of the         *)
(* supervisor leaves behind, need two more invariants:                     *)
(*                                                                         *)
(*   LifeInv  State follows main through the start-up, and before the      *)
(*            first launch no request gets past its nil check;             *)
(*   EndInv   when main has shut a process down, that process has exited.  *)

LifeInv ==
  /\ pc[Main] = "prepare" => state = "preparing"
  /\ pc[Main] = "install" => state = "installing"
  /\ pc[Main] \notin {"prepare", "install"} => state \in Life!Later
  /\ launched = {} => \A t \in Requests : pc[t] \in {"idle", "capture", "done"}

EndInv ==
  pc[Main] = "finish" \/ (pc[Main] = "done" /\ code = "0") =>
    target[Main] \in launched /\ exit[target[Main]] # "none"

LEMMA LifeInit == Init => LifeInv /\ EndInv /\ Life!Init
BY ThreadAssumption
   DEF Init, ProcInit, LifeInv, EndInv, Requests, Threads, Up, Life!Init

\* Every step of the supervisor is a step of the shard's life or hidden.
LEMMA LifeStep ==
  ASSUME TypeOK, LaunchInv, LifeInv, [Next]_vars
  PROVE  LifeInv' /\ (Life!Next \/ UNCHANGED <<state, Up>>)
<1> USE ThreadAssumption
    DEF TypeOK, ProcTypeOK, LaunchInv, LifeInv, Requests, Threads, Labels,
        WorkLabels, Goto, procVars, supVars, Up, Life!Next, Life!Prepared,
        Life!Installed, Life!Moves, Life!Ends, Life!Later
<1>1. CASE Prepare
  BY <1>1 DEF Prepare
<1>2. CASE Install
  BY <1>2 DEF Install
<1>3. CASE FirstStart
  BY <1>3 DEF FirstStart, StartDST
<1>4. CASE StartupFailure
  BY <1>4 DEF StartupFailure
<1>5. CASE SetProcess
  BY <1>5 DEF SetProcess
<1>6. CASE Notify
  BY <1>6 DEF Notify
<1>7. CASE WaitForExit
  BY <1>7 DEF WaitForExit
<1>8. CASE SelectExit
  BY <1>8 DEF SelectExit, Receive
<1>9. CASE MainEnds
  BY <1>9 DEF MainEnds
<1>10. CASE SelectSignal
  BY <1>10 DEF SelectSignal
<1>11. CASE \E t \in Requests : Request(t)
  BY <1>11 DEF Request
<1>12. CASE \E t \in Threads : Capture(t)
  BY <1>12 DEF Capture
<1>13. CASE \E t \in Threads : Mark(t)
  BY <1>13 DEF Mark
<1>14. CASE \E t \in Threads : SendSave(t)
  BY <1>14 DEF SendSave, SendCommand
<1>15. CASE \E t \in Threads : SendShutdown(t)
  BY <1>15 DEF SendShutdown, SendCommand
<1>16. CASE \E t \in Threads : Timeout(t)
  BY <1>16 DEF Timeout
<1>17. CASE \E t \in Threads : Kill(t)
  BY <1>17 DEF Kill, SignalKill
<1>18. CASE \E t \in Threads : WaitReturns(t)
  BY <1>18 DEF WaitReturns, Receive, AfterExit
<1>19. CASE \E t \in Threads : Finish(t)
  BY <1>19, ZenonT(60) DEF Finish
<1>20. CASE \E t \in Restarters : Relaunch(t)
  BY <1>20 DEF Relaunch
<1>21. CASE \E t \in Restarters : Reset(t)
  BY <1>21 DEF Reset
<1>22. CASE \E t \in Restarters : Launch(t)
  BY <1>22 DEF Launch, StartDST
<1>23. CASE \E t \in Restarters : LaunchFails(t)
  BY <1>23 DEF LaunchFails
<1>24. CASE \E t \in Restarters : Store(t)
  BY <1>24 DEF Store
<1>25. CASE \E cmd \in ClientCmds : ClientLocks(cmd)
  BY <1>25 DEF ClientLocks
<1>26. CASE ClientWrites
  BY <1>26 DEF ClientWrites, SendCommand
<1>27. CASE Signal
  BY <1>27 DEF Signal, BeforeNotify
<1>28. CASE ReportRunning
  BY <1>28 DEF ReportRunning
<1>29. CASE \E p \in Procs : Reaper(p)
  BY <1>29 DEF Reaper, ReaperSend, ReaperClose
<1>30. CASE \E p \in Procs : DSTReads(p)
  BY <1>30 DEF DSTReads, ReadCommand, Alive
<1>31. CASE \E p \in Procs : DSTExits(p)
  BY <1>31 DEF DSTExits, Exit, Alive
<1>32. CASE UNCHANGED vars
  BY <1>32 DEF vars
<1>33. QED
  BY <1>1, <1>2, <1>3, <1>4, <1>5, <1>6, <1>7, <1>8, <1>9, <1>10, <1>11,
     <1>12, <1>13, <1>14, <1>15, <1>16, <1>17, <1>18, <1>19, <1>20,
     <1>21, <1>22, <1>23, <1>24, <1>25, <1>26, <1>27, <1>28, <1>29,
     <1>30, <1>31, <1>32
  DEF Next, MainStep, HandlerStep, RestartStep, Client, Process, Exited

LEMMA EndStep ==
  ASSUME TypeOK, LaunchInv, DoneInv, EndInv, [Next]_vars
  PROVE  EndInv'
<1> USE ThreadAssumption
    DEF TypeOK, ProcTypeOK, LaunchInv, EndInv, Requests, Threads, Labels,
        WorkLabels, Goto, procVars, supVars, Up
<1>1. CASE Prepare
  BY <1>1 DEF Prepare
<1>2. CASE Install
  BY <1>2 DEF Install
<1>3. CASE FirstStart
  BY <1>3 DEF FirstStart, StartDST
<1>4. CASE StartupFailure
  BY <1>4 DEF StartupFailure
<1>5. CASE SetProcess
  BY <1>5 DEF SetProcess
<1>6. CASE Notify
  BY <1>6 DEF Notify
<1>7. CASE WaitForExit
  BY <1>7 DEF WaitForExit
<1>8. CASE SelectExit
  BY <1>8 DEF SelectExit, Receive
<1>9. CASE MainEnds
  BY <1>9 DEF MainEnds
<1>10. CASE SelectSignal
  BY <1>10 DEF SelectSignal
<1>11. CASE \E t \in Requests : Request(t)
  BY <1>11 DEF Request
<1>12. CASE \E t \in Threads : Capture(t)
  BY <1>12 DEF Capture
<1>13. CASE \E t \in Threads : Mark(t)
  BY <1>13 DEF Mark
<1>14. CASE \E t \in Threads : SendSave(t)
  BY <1>14 DEF SendSave, SendCommand
<1>15. CASE \E t \in Threads : SendShutdown(t)
  BY <1>15 DEF SendShutdown, SendCommand
<1>16. CASE \E t \in Threads : Timeout(t)
  BY <1>16 DEF Timeout
<1>17. CASE \E t \in Threads : Kill(t)
  BY <1>17 DEF Kill, SignalKill
<1>18. CASE \E t \in Threads : WaitReturns(t)
  <2>1. PICK t \in Threads : WaitReturns(t)
    BY <1>18
  <2>2. PICK v \in Results : Receive(target[t], v)
    BY <2>1 DEF WaitReturns
  <2>3. target[t] \in launched /\ exit[target[t]] # "none"
    BY <2>1, <2>2 DEF WaitReturns, Receive, DoneInv
  <2>4. /\ UNCHANGED <<launched, target, exit, code>>
        /\ pc' = [pc EXCEPT ![t] = AfterExit(t)]
        /\ code = "none"
    BY <2>1, <2>2 DEF WaitReturns, Receive
  <2>5. QED
    BY <2>3, <2>4
<1>19. CASE \E t \in Threads : Finish(t)
  BY <1>19 DEF Finish
<1>20. CASE \E t \in Restarters : Relaunch(t)
  BY <1>20 DEF Relaunch
<1>21. CASE \E t \in Restarters : Reset(t)
  BY <1>21 DEF Reset
<1>22. CASE \E t \in Restarters : Launch(t)
  BY <1>22 DEF Launch, StartDST
<1>23. CASE \E t \in Restarters : LaunchFails(t)
  BY <1>23 DEF LaunchFails
<1>24. CASE \E t \in Restarters : Store(t)
  BY <1>24 DEF Store
<1>25. CASE \E cmd \in ClientCmds : ClientLocks(cmd)
  BY <1>25 DEF ClientLocks
<1>26. CASE ClientWrites
  BY <1>26 DEF ClientWrites, SendCommand
<1>27. CASE Signal
  BY <1>27 DEF Signal, BeforeNotify
<1>28. CASE ReportRunning
  BY <1>28 DEF ReportRunning
<1>29. CASE \E p \in Procs : Reaper(p)
  BY <1>29 DEF Reaper, ReaperSend, ReaperClose
<1>30. CASE \E p \in Procs : DSTReads(p)
  BY <1>30 DEF DSTReads, ReadCommand, Alive
<1>31. CASE \E p \in Procs : DSTExits(p)
  BY <1>31 DEF DSTExits, Exit, Alive
<1>32. CASE UNCHANGED vars
  BY <1>32 DEF vars
<1>33. QED
  BY <1>1, <1>2, <1>3, <1>4, <1>5, <1>6, <1>7, <1>8, <1>9, <1>10, <1>11,
     <1>12, <1>13, <1>14, <1>15, <1>16, <1>17, <1>18, <1>19, <1>20,
     <1>21, <1>22, <1>23, <1>24, <1>25, <1>26, <1>27, <1>28, <1>29,
     <1>30, <1>31, <1>32
  DEF Next, MainStep, HandlerStep, RestartStep, Client, Process, Exited

LEMMA LifeInvariance == Spec => [](LifeInv /\ EndInv)
<1>1. Init => LifeInv /\ EndInv
  BY LifeInit
<1>2. IInv /\ LifeInv /\ EndInv /\ [Next]_vars => (LifeInv /\ EndInv)'
  BY LifeStep, EndStep DEF IInv
<1>3. QED
  BY <1>1, <1>2, Invariance, PTL DEF Spec

\* Whatever requests, signals and readiness reports come, State and the end
\* of the supervisor follow the abstract life of a shard (main.go:70-117,
\* server.go:85-170).
THEOREM SupervisorLivesOneLife == Spec => LivesOneLife
<1>1. Init => Life!Init
  BY LifeInit
<1>2. IInv /\ LifeInv /\ [Next]_vars => [Life!Next]_<<state, Up>>
  BY LifeStep DEF IInv
<1>3. QED
  BY <1>1, <1>2, Invariance, LifeInvariance, PTL DEF Spec, LivesOneLife, Life!Spec

\* After a signal the supervisor exits without a live server, but for the
\* one of a Restart of the same process or of overlapping Restart calls
\* (server.go:85-119, main.go:105-107).
THEOREM SignalLeavesOnlyRestarted == Spec => []ServerLeftOnlyByRestart
<1>1. IInv /\ EndInv => ServerLeftOnlyByRestart
  <2> SUFFICES ASSUME IInv, EndInv, code = "0", pc[Main] = "done",
                      NEW p \in Procs, Alive(p),
                      ~ \E o \in launched : Overlap(o)
               PROVE  \E t \in Restarters : target[t] = target[Main]
    BY DEF ServerLeftOnlyByRestart
  <2> DEFINE q == target[Main]
  <2>1. q \in launched /\ exit[q] # "none" /\ q # p
    BY DEF EndInv, Alive
  <2>2. q \in Procs /\ Leaf(p)
    BY <2>1, AliveIsLeaf DEF IInv, TypeOK, ProcTypeOK
  <2>3. ~Leaf(q)
    BY <2>1, <2>2 DEF IInv, LeafInv
  <2>4. QED
    BY <2>1, <2>3 DEF Leaf, Replaced
<1>2. QED
  BY <1>1, Invariance, LifeInvariance, PTL

-----------------------------------------------------------------------------
(* The observer and the health checker.  Readiness implements Supervisor:  *)
(* replacing the action ReportRunning by the two goroutines adds no        *)
(* behaviour, so what is proved of Spec holds of ReadySpec.  EvidenceInv   *)
(* says that whatever they are about to report comes from a process that   *)
(* has been launched, NoticeInv where the evidence is, between the pipe    *)
(* and SetState, while the state is not Running yet.                       *)

EvidenceInv ==
  /\ printed \subseteq launched
  /\ inPipe \subseteq printed
  /\ answered \subseteq launched
  /\ queue \in Seq(printed \cup {NoProc})
  /\ obs \in [at : {"recv", "get", "set", "fire"}, line : printed \cup {NoProc}]
  /\ IF obs.at = "recv" THEN obs.line = NoProc ELSE obs.line \in printed
  /\ probe = "set" => answered # {}
  /\ RunningHasEvidence

LEMMA EvidenceInit == ReadyInit => EvidenceInv
BY DEF ReadyInit, Init, ProcInit, EvidenceInv,
       RunningHasEvidence

\* No step of the supervisor proper stores Running or takes a process back.
LEMMA LifecycleKeeps ==
  ASSUME Lifecycle \/ \E t \in Restarters : ResetObserver(t)
  PROVE  launched \subseteq launched' /\ (state' = "running" => state = "running")
<1> USE DEF Goto, procVars, supVars
<1>1. CASE Lifecycle
  <2>1. CASE MainStep
    BY <2>1 DEF MainStep, Prepare, Install, FirstStart, StartDST, StartupFailure,
                SetProcess, Notify, WaitForExit, SelectExit, MainEnds,
                SelectSignal, Receive
  <2>2. CASE Client \/ Signal
    BY <2>2 DEF Client, ClientLocks, ClientWrites, SendCommand, Signal
  <2>3. CASE \E t \in Requests : Request(t)
    BY <2>3 DEF Request
  <2>4. CASE \E t \in Threads : HandlerStep(t)
    BY <2>4 DEF HandlerStep, Capture, Mark, SendSave, SendShutdown, SendCommand,
                Timeout, Kill, SignalKill, WaitReturns, Receive, Finish
  <2>5. CASE \E t \in Restarters :
               Relaunch(t) \/ Launch(t) \/ LaunchFails(t) \/ Store(t)
    BY <2>5 DEF Relaunch, Launch, StartDST, LaunchFails, Store
  <2>6. CASE \E p \in Procs : Process(p)
    BY <2>6 DEF Process, Reaper, ReaperSend, ReaperClose, DSTReads, ReadCommand,
                DSTExits, Exit
  <2>7. CASE Exited
    BY <2>7 DEF Exited, vars
  <2>8. QED
    BY <1>1, <2>1, <2>2, <2>3, <2>4, <2>5, <2>6, <2>7 DEF Lifecycle
<1>2. CASE \E t \in Restarters : ResetObserver(t)
  BY <1>2 DEF ResetObserver, Reset
<1>3. QED
  BY <1>1, <1>2

LEMMA OfferKeeps ==
  ASSUME NEW S, NEW line \in S, queue \in Seq(S), Offer(line)
  PROVE  queue' \in Seq(S)
BY DEF Offer

LEMMA EvidenceStep == EvidenceInv /\ [ReadyNext]_rvars => EvidenceInv'
<1> SUFFICES ASSUME EvidenceInv, [ReadyNext]_rvars PROVE EvidenceInv'
  OBVIOUS
<1> USE DEF EvidenceInv, RunningHasEvidence
<1>1. CASE Lifecycle
  <2>1. UNCHANGED readyVars
    BY <1>1 DEF Lifecycle
  <2>2. QED
    BY <1>1, <2>1, LifecycleKeeps DEF readyVars
<1>2. CASE \E t \in Restarters : ResetObserver(t)
  BY <1>2, LifecycleKeeps DEF ResetObserver
<1>3. CASE Observer
  <2>1. CASE ObsReceive
    <3>1. /\ Head(queue) \in printed \cup {NoProc}
          /\ Tail(queue) \in Seq(printed \cup {NoProc})
      BY <2>1 DEF ObsReceive
    <3>2. QED
      BY <2>1, <3>1 DEF ObsReceive, vars, procVars, supVars
  <2>2. CASE ObsGet
    BY <2>2 DEF ObsGet, vars, procVars, supVars
  <2>3. CASE ObsSet
    BY <2>3 DEF ObsSet, SetRunning, procVars
  <2>4. CASE ObsFire
    BY <2>4 DEF ObsFire, vars, procVars, supVars
  <2>5. QED
    BY <1>3, <2>1, <2>2, <2>3, <2>4 DEF Observer
<1>4. CASE Health
  BY <1>4 DEF Health, ProbeStart, ProbeFails, ProbeSet, ProbeAnswered, Alive,
              SetRunning, vars, procVars, supVars
<1>5. CASE Line
  <2>1. CASE OtherLine
    BY <2>1, OfferKeeps DEF OtherLine, vars, procVars, supVars
  <2>2. CASE \E p \in Procs : Announce(p)
    <3>1. printed \subseteq printed'
      BY <2>2 DEF Announce
    <3>2. queue' \in Seq(printed' \cup {NoProc})
      BY <2>2, <3>1 DEF Announce
    <3>3. QED
      BY <2>2, <3>1, <3>2 DEF Announce, Alive, vars, procVars, supVars
  <2>3. CASE \E p \in Procs : Drain(p)
    BY <2>3, OfferKeeps DEF Drain, vars, procVars, supVars
  <2>4. CASE \E p \in Procs : CloseStdout(p)
    BY <2>4 DEF CloseStdout, vars, procVars, supVars
  <2>5. QED
    BY <1>5, <2>1, <2>2, <2>3, <2>4 DEF Line
<1>6. CASE UNCHANGED rvars
  BY <1>6 DEF rvars, readyVars, vars, procVars, supVars
<1>7. QED
  BY <1>1, <1>2, <1>3, <1>4, <1>5, <1>6 DEF ReadyNext

LEMMA EvidenceInvariance == ReadySpec => []EvidenceInv
BY EvidenceInit, EvidenceStep, PTL DEF ReadySpec

\* Running is only reported after a DST has announced that it is ready or
\* has answered a query (observer.go:61-62, 72-73, health.go:99-100).
THEOREM RunningIsEarned == ReadySpec => []RunningHasEvidence
<1>1. EvidenceInv => RunningHasEvidence
  BY DEF EvidenceInv
<1>2. QED
  BY <1>1, EvidenceInvariance, PTL

\* Each step of the goroutines together is a step of module Supervisor.
LEMMA StepRefines == EvidenceInv /\ [ReadyNext]_rvars => [Next]_vars
<1> SUFFICES ASSUME EvidenceInv, [ReadyNext]_rvars PROVE [Next]_vars
  OBVIOUS
<1>1. CASE Lifecycle
  BY <1>1 DEF Lifecycle, Next, RestartStep
<1>2. CASE \E t \in Restarters : ResetObserver(t)
  BY <1>2 DEF ResetObserver, Next, RestartStep
<1>3. CASE ObsSet \/ ProbeSet
  <2>1. launched # {}
    BY <1>3 DEF ObsSet, ProbeSet, EvidenceInv
  <2>2. ReportRunning
    BY <1>3, <2>1 DEF ObsSet, ProbeSet, SetRunning, ReportRunning
  <2>3. QED
    BY <2>2 DEF Next
<1>4. CASE ObsReceive \/ ObsGet \/ ObsFire \/ ProbeStart \/ ProbeFails
           \/ (\E p \in Procs : ProbeAnswered(p)) \/ Line
  BY <1>4 DEF ObsReceive, ObsGet, ObsFire, ProbeStart, ProbeFails, ProbeAnswered,
              Line, OtherLine, Announce, Drain, CloseStdout
<1>5. CASE UNCHANGED rvars
  BY <1>5 DEF rvars
<1>6. QED
  BY <1>1, <1>2, <1>3, <1>4, <1>5 DEF ReadyNext, Observer, Health

\* Every behaviour of the supervisor with its observer and health checker is
\* one of module Supervisor, whose ReportRunning they implement.
THEOREM RefinesSupervisor == ReadySpec => Spec
<1>1. ReadyInit => Init
  BY DEF ReadyInit
<1>2. QED
  BY <1>1, StepRefines, EvidenceInvariance, PTL DEF ReadySpec, Spec

\* With its readiness reporters, too, the supervisor saves a server before it
\* shuts it down.
THEOREM ReadyShutdownSavesFirst == ReadySpec => []SavedBeforeQuit
BY RefinesSupervisor, ShutdownSavesFirst, PTL

-----------------------------------------------------------------------------
(* No announcement is overlooked.  A process that runs has only ever seen  *)
(* its own launch's Starting: Starting is stored again by a Restart that   *)
(* is about to replace an exited process, and as the processes form a      *)
(* chain (LeafInv) nothing else runs then.  So while the state is Starting *)
(* the line of the running process is still on its way or lost, and a      *)
(* pattern fired by another line was fired after that process's restart.   *)

RestartLabels == {"idle", "capture", "mark", "save", "shut", "wait", "kill",
                  "waitkill", "relaunch", "reset", "launch", "store", "done"}

PatternInv ==
  /\ fired \in printed \cup {NoProc}
  /\ \A t \in Restarters : pc[t] \in RestartLabels

Overlapped == \E o \in launched : Overlap(o)

OnItsWay(p) ==
  \/ p \in inPipe \cup dropped
  \/ obs.line = p
  \/ \E i \in DOMAIN queue : queue[i] = p

\* What holds of the pattern and of p's line while p runs.
Heeded(p) ==
  /\ fired \in {p, NoProc} \/ lateFire
  /\ state = "starting" =>
       /\ fired # p
       /\ obs.line = p => obs.at # "fire"
       /\ p \in printed => OnItsWay(p) \/ lateFire

NoticeInv ==
  \/ Overlapped
  \/ /\ \A t \in Restarters : pc[t] = "launch" => fired = NoProc \/ lateFire
     /\ \A p \in Procs : Alive(p) => Heeded(p)

LEMMA NoticeInit == ReadyInit => PatternInv /\ NoticeInv
BY ThreadAssumption
   DEF ReadyInit, Init, ProcInit, PatternInv, NoticeInv, RestartLabels,
       Requests, Threads, Alive

\* Nothing runs while a restart is between the exit of a process and the
\* launch of the next.
LEMMA NothingRuns ==
  ASSUME IInv, ~Overlapped, NEW t \in Restarters,
         pc[t] \in {"relaunch", "reset", "launch"}
  PROVE  /\ Leaf(target[t])
         /\ \A p \in Procs : ~Alive(p)
<1>1. target[t] \in launched /\ exit[target[t]] # "none" /\ t \notin launched
  BY DEF IInv, LaunchInv, ParentInv, NotLaunchedYet
<1>2. Leaf(target[t])
  BY <1>1 DEF Leaf, Replaced, Overlapped, Overlap
<1>3. target[t] \in Procs
  BY <1>1 DEF IInv, TypeOK, ProcTypeOK
<1>4. ASSUME NEW p \in Procs, Alive(p) PROVE FALSE
  <2>1. Leaf(p)
    BY <1>4, AliveIsLeaf
  <2>2. p = target[t]
    BY <1>2, <1>3, <2>1 DEF IInv, LeafInv, Overlapped
  <2>3. QED
    BY <1>1, <1>4, <2>2 DEF Alive
<1>5. QED
  BY <1>2, <1>4

\* Only the current process is not retired.
LEMMA OthersAreRetired ==
  ASSUME IInv, PatternInv, ~Overlapped, NEW q \in launched,
         \/ \E p \in Procs : Alive(p) /\ p # q
         \/ \E t \in Restarters : pc[t] = "launch"
  PROVE  Retired(q)
<1>1. q \in Procs
  BY DEF IInv, TypeOK, ProcTypeOK
<1>2. CASE Replaced(q)
  <2>1. PICK t \in Restarters \cap launched : target[t] = q
    BY <1>2 DEF Replaced
  <2>2. pc[t] \in {"store", "done"}
    BY <2>1 DEF IInv, LaunchInv, NotLaunchedYet, PatternInv, RestartLabels
  <2>3. QED
    BY <2>1, <2>2 DEF Retired
<1>3. CASE Leaf(q)
  <2>1. \A p \in Procs : Leaf(p) => p = q
    BY <1>1, <1>3 DEF IInv, LeafInv, Overlapped
  <2>2. \A p \in Procs : Alive(p) => p = q
    BY <2>1, AliveIsLeaf
  <2>3. PICK t \in Restarters : pc[t] = "launch"
    BY <2>2
  <2>4. Leaf(target[t])
    BY <2>3, NothingRuns
  <2>5. target[t] = q
    BY <2>1, <2>4 DEF Leaf, IInv, TypeOK, ProcTypeOK
  <2>6. QED
    BY <2>3, <2>5 DEF Retired
<1>4. QED
  BY <1>2, <1>3 DEF Leaf

\* Two restarts that captured the same process keep it.
LEMMA OverlapStays ==
  ASSUME TypeOK, LaunchInv, [Next]_vars, Overlapped
  PROVE  Overlapped'
<1> USE DEF Goto
<1>1. PICK o \in launched, q \in Restarters, r \in Restarters :
        q # r /\ target[q] = o /\ target[r] = o
  BY DEF Overlapped, Overlap
<1>2. o # NoProc
  BY ThreadAssumption DEF TypeOK, ProcTypeOK, Threads, Requests
<1>3. pc[q] # "capture" /\ pc[r] # "capture"
  BY <1>1, <1>2 DEF LaunchInv, Requests
<1>4. q # Main /\ r # Main /\ q \in Threads /\ r \in Threads
  BY ThreadAssumption DEF Requests, Threads
<1>5. target \in [Threads -> Procs \cup {NoProc}]
  BY DEF TypeOK
<1>6. o \in launched' /\ target'[q] = o /\ target'[r] = o
  <2> USE <1>1, <1>3, <1>4, <1>5
  <2>1. CASE MainStep
    BY <2>1 DEF MainStep, Prepare, Install, FirstStart, StartDST, StartupFailure,
                SetProcess, Notify, WaitForExit, SelectExit, MainEnds,
                SelectSignal, Receive, procVars
  <2>2. CASE Client \/ Signal \/ ReportRunning
    BY <2>2 DEF Client, ClientLocks, ClientWrites, SendCommand, Signal,
                ReportRunning, procVars
  <2>3. CASE \E t \in Requests : Request(t)
    BY <2>3 DEF Request, procVars
  <2>4. CASE \E t \in Threads : HandlerStep(t)
    BY <2>4 DEF HandlerStep, Capture, Mark, SendSave, SendShutdown, SendCommand,
                Timeout, Kill, SignalKill, WaitReturns, Receive, Finish, procVars
  <2>5. CASE \E t \in Restarters : RestartStep(t)
    BY <2>5 DEF RestartStep, Relaunch, Reset, Launch, StartDST, LaunchFails, Store,
                procVars
  <2>6. CASE \E p \in Procs : Process(p)
    BY <2>6 DEF Process, Reaper, ReaperSend, ReaperClose, DSTReads, ReadCommand,
                DSTExits, Exit, supVars
  <2>7. CASE UNCHANGED vars
    BY <2>7 DEF vars, procVars, supVars
  <2>8. QED
    BY <2>1, <2>2, <2>3, <2>4, <2>5, <2>6, <2>7 DEF Next, Exited
<1>7. QED
  BY <1>1, <1>6 DEF Overlapped, Overlap

\* What a step of the supervisor proper means for readiness: it enters the
\* launch by ResetObserver only, stores Starting while nothing runs, and
\* starts a process that has not run before.
LEMMA LifecycleStep ==
  ASSUME IInv, PatternInv, ~Overlapped,
         Lifecycle \/ \E t \in Restarters : ResetObserver(t)
  PROVE  /\ \A t \in Restarters :
              pc'[t] = "launch" => pc[t] = "launch" \/ ResetObserver(t)
         /\ \A p \in Procs :
              Alive(p)' =>
                \/ Alive(p) /\ (state' = "starting" => state = "starting")
                \/ /\ p \notin launched
                   /\ launched = {} \/ (p \in Restarters /\ pc[p] = "launch")
<1> USE DEF Goto, procVars, supVars, Alive
<1>1. /\ pc \in [Threads -> Labels]
      /\ exit \in [Procs -> Results \cup {"none"}]
      /\ pc[Main] \in {"prepare", "install", "start"} => launched = {}
      /\ Main \in Threads /\ Restarters \subseteq Threads
  BY DEF IInv, TypeOK, ProcTypeOK, LaunchInv, Threads, Requests
<1>2. \A t \in Restarters : t # Main
  BY ThreadAssumption DEF Requests
<1> USE <1>1, <1>2
<1>3. CASE MainStep \/ Client \/ Signal \/ Exited
  <2>1. CASE Prepare \/ Install \/ FirstStart
    BY <2>1 DEF Prepare, Install, FirstStart, StartDST
  <2>2. CASE StartupFailure \/ SetProcess \/ Notify \/ WaitForExit
    BY <2>2 DEF StartupFailure, SetProcess, Notify, WaitForExit
  <2>3. CASE SelectExit \/ MainEnds \/ SelectSignal
    BY <2>3 DEF SelectExit, MainEnds, SelectSignal, Receive
  <2>4. CASE Client \/ Signal \/ Exited
    BY <2>4 DEF Client, ClientLocks, ClientWrites, SendCommand, Signal, Exited,
                vars
  <2>5. QED
    BY <1>3, <2>1, <2>2, <2>3, <2>4 DEF MainStep
<1>4. CASE \E t \in Requests : Request(t)
  BY <1>4 DEF Request
<1>5. CASE \E t \in Threads : HandlerStep(t)
  BY <1>5 DEF HandlerStep, Capture, Mark, SendSave, SendShutdown, SendCommand,
              Timeout, Kill, SignalKill, WaitReturns, AfterExit, Receive, Finish
<1>6. CASE \E t \in Restarters : Relaunch(t)
  BY <1>6, NothingRuns DEF Relaunch
<1>7. CASE \E t \in Restarters : Launch(t) \/ LaunchFails(t) \/ Store(t)
  BY <1>7 DEF Launch, StartDST, LaunchFails, Store
<1>8. CASE \E p \in Procs : Process(p)
  BY <1>8 DEF Process, Reaper, ReaperSend, ReaperClose, DSTReads, ReadCommand,
              DSTExits, Exit, Results
<1>9. CASE \E t \in Restarters : ResetObserver(t)
  BY <1>9 DEF ResetObserver, Reset
<1>10. QED
  BY <1>3, <1>4, <1>5, <1>6, <1>7, <1>8, <1>9 DEF Lifecycle

LEMMA PatternStep ==
  ASSUME IInv, EvidenceInv, PatternInv, [ReadyNext]_rvars
  PROVE  PatternInv'
<1> USE DEF PatternInv, Goto
<1>1. /\ pc \in [Threads -> Labels]
      /\ Main \in Threads /\ Restarters \subseteq Threads
      /\ \A t \in Restarters : t # Main
  BY ThreadAssumption DEF IInv, TypeOK, Threads, Requests
<1>2. CASE Lifecycle \/ \E t \in Restarters : ResetObserver(t)
  <2> USE <1>1
  <2>1. fired' \in printed' \cup {NoProc}
    BY <1>2 DEF Lifecycle, readyVars, ResetObserver
  <2>2. CASE MainStep \/ Client \/ Signal \/ Exited
    BY <2>2, <2>1 DEF MainStep, Prepare, Install, FirstStart, StartupFailure,
                SetProcess, Notify, WaitForExit, SelectExit, MainEnds, SelectSignal,
                Client, ClientLocks, ClientWrites, Signal, Exited, vars, supVars
  <2>3. CASE \E t \in Requests : Request(t)
    BY <2>3, <2>1 DEF Request, RestartLabels
  <2>4. CASE \E t \in Threads : HandlerStep(t)
    BY <2>4, <2>1 DEF HandlerStep, Capture, Mark, SendSave, SendShutdown, Timeout,
                Kill, WaitReturns, AfterExit, Finish, RestartLabels
  <2>5. CASE \E t \in Restarters :
               Relaunch(t) \/ Reset(t) \/ Launch(t) \/ LaunchFails(t) \/ Store(t)
    BY <2>5, <2>1 DEF Relaunch, Reset, Launch, LaunchFails, Store, RestartLabels
  <2>6. CASE \E p \in Procs : Process(p)
    BY <2>6, <2>1 DEF Process, Reaper, DSTReads, DSTExits, supVars
  <2>7. QED
    BY <1>2, <2>2, <2>3, <2>4, <2>5, <2>6 DEF Lifecycle, ResetObserver
<1>3. CASE Observer
  BY <1>3 DEF Observer, ObsReceive, ObsGet, ObsSet, ObsFire, SetRunning, vars,
              supVars, EvidenceInv
<1>4. CASE Health
  BY <1>4 DEF Health, ProbeStart, ProbeFails, ProbeSet, ProbeAnswered, SetRunning,
              vars, supVars
<1>5. CASE Line
  BY <1>5 DEF Line, OtherLine, Announce, Drain, CloseStdout, vars, supVars
<1>6. CASE UNCHANGED rvars
  BY <1>6 DEF rvars, readyVars, vars, supVars
<1>7. QED
  BY <1>2, <1>3, <1>4, <1>5, <1>6 DEF ReadyNext

LEMMA NoticeStep ==
  ASSUME IInv, EvidenceInv, PatternInv, NoticeInv, [ReadyNext]_rvars
  PROVE  NoticeInv'
<1>1. CASE Overlapped
  BY <1>1, OverlapStays, StepRefines DEF IInv, NoticeInv
<1>2. CASE ~Overlapped
  <2> USE <1>2
  <2>1. /\ \A t \in Restarters : pc[t] = "launch" => fired = NoProc \/ lateFire
        /\ \A p \in Procs : Alive(p) => Heeded(p)
    BY DEF NoticeInv
  <2>2. SUFFICES
          /\ \A t \in Restarters :
               pc'[t] = "launch" => fired' = NoProc \/ lateFire'
          /\ \A p \in Procs : Alive(p)' => Heeded(p)'
    BY DEF NoticeInv
  <2>3. \A p \in Procs : p # NoProc
    BY ThreadAssumption DEF Threads, Requests
  <2>4. CASE Lifecycle \/ \E t \in Restarters : ResetObserver(t)
    <3>1. /\ UNCHANGED <<printed, inPipe, queue, dropped, obs, lateFire>>
          /\ fired' = fired \/ (fired' = NoProc /\ \E t \in Restarters : ResetObserver(t))
      BY <2>4 DEF Lifecycle, readyVars, ResetObserver
    <3>2. ASSUME NEW t \in Restarters, pc'[t] = "launch"
          PROVE  fired' = NoProc \/ lateFire'
      BY <2>1, <2>4, <3>1, <3>2, LifecycleStep DEF ResetObserver
    <3>3. ASSUME NEW p \in Procs, Alive(p)' PROVE Heeded(p)'
      <4>1. CASE Alive(p) /\ (state' = "starting" => state = "starting")
        BY <2>1, <2>3, <3>1, <4>1 DEF Heeded, OnItsWay
      <4>2. CASE /\ p \notin launched
                 /\ launched = {} \/ (p \in Restarters /\ pc[p] = "launch")
        <5>1. p \notin printed /\ fired # p /\ obs.line # p
          BY <2>3, <4>2 DEF EvidenceInv, PatternInv
        <5>2. fired = NoProc \/ lateFire
          BY <2>1, <4>2 DEF EvidenceInv, PatternInv
        <5>3. QED
          BY <2>3, <3>1, <5>1, <5>2 DEF Heeded
      <4>3. QED
        BY <2>4, <3>3, <4>1, <4>2, LifecycleStep
    <3>4. QED
      BY <3>2, <3>3
  <2>5. CASE ObsReceive
    <3>1. UNCHANGED <<pc, state, launched, exit, printed, inPipe, dropped, fired, lateFire>>
      BY <2>5 DEF ObsReceive, vars, procVars, supVars
    <3>2. ASSUME NEW p \in Procs, Alive(p) PROVE Heeded(p)'
      <4>1. CASE state = "starting" /\ p \in printed /\ ~lateFire
        <5>1. Heeded(p)
          BY <2>1, <3>2
        <5>2. fired = NoProc
          BY <4>1, <5>1 DEF Heeded
        <5>3. /\ queue \in Seq(printed \cup {NoProc}) /\ queue # << >>
              /\ queue' = Tail(queue)
              /\ obs' = IF Head(queue) = NoProc THEN obs
                          ELSE [at |-> "get", line |-> Head(queue)]
              /\ obs.at = "recv"
          BY <2>5, <5>2 DEF ObsReceive, EvidenceInv
        <5>4. CASE p \in inPipe \cup dropped
          BY <2>3, <3>1, <5>1, <5>2, <5>3, <5>4, <4>1 DEF Heeded, OnItsWay
        <5>5. CASE obs.line = p
          BY <2>5, <5>5, <2>3 DEF ObsReceive, EvidenceInv
        <5>6. CASE \E i \in DOMAIN queue : queue[i] = p
          <6>1. PICK i \in DOMAIN queue : queue[i] = p
            BY <5>6
          <6>2. CASE i = 1
            <7>1. obs'.line = p /\ obs'.at = "get"
              BY <2>3, <5>3, <6>1, <6>2
            <7>2. QED
              BY <3>1, <5>1, <5>2, <7>1, <4>1 DEF Heeded, OnItsWay
          <6>3. CASE i # 1
            <7>1. i - 1 \in DOMAIN queue' /\ queue'[i - 1] = p
              BY <5>3, <6>1, <6>3
            <7>2. QED
              BY <2>3, <3>1, <5>1, <5>2, <5>3, <7>1, <4>1 DEF Heeded, OnItsWay
          <6>4. QED
            BY <6>2, <6>3
        <5>7. QED
          BY <4>1, <5>1, <5>4, <5>5, <5>6 DEF Heeded, OnItsWay
      <4>2. CASE ~(state = "starting" /\ p \in printed /\ ~lateFire)
        <5>1. obs'.at = "fire" => obs' = obs
          BY <2>5 DEF ObsReceive
        <5>2. QED
          BY <2>1, <3>1, <3>2, <4>2, <5>1 DEF Heeded
      <4>3. QED
        BY <4>1, <4>2
    <3>3. QED
      BY <2>1, <3>1, <3>2 DEF Alive
  <2>6. CASE ObsGet
    <3>1. /\ UNCHANGED <<pc, state, launched, exit, printed, inPipe, dropped,
                         queue, fired, lateFire>>
          /\ obs'.line = obs.line
          /\ state = "starting" => obs'.at = "set"
      BY <2>6 DEF ObsGet, vars, procVars, supVars, EvidenceInv
    <3>2. QED
      BY <2>1, <3>1 DEF Alive, Heeded, OnItsWay
  <2>7. CASE ObsSet \/ ProbeSet
    BY <2>1, <2>7 DEF ObsSet, ProbeSet, SetRunning, procVars, Alive, Heeded
  <2>8. CASE ObsFire
    <3>1. /\ UNCHANGED <<pc, state, launched, exit, printed, inPipe, dropped, queue>>
          /\ fired' = obs.line /\ obs.at = "fire"
          /\ obs'.at = "recv" /\ obs'.line = NoProc
          /\ lateFire' = (lateFire \/ Retired(obs.line))
      BY <2>8 DEF ObsFire, vars, procVars, supVars
    <3>2. obs.line \in printed /\ obs.line \in launched
      BY <3>1 DEF EvidenceInv
    <3>3. ASSUME NEW t \in Restarters, pc'[t] = "launch" PROVE lateFire'
      BY <3>1, <3>2, <3>3, OthersAreRetired
    <3>4. ASSUME NEW p \in Procs, Alive(p) PROVE Heeded(p)'
      <4>1. CASE obs.line = p
        BY <2>1, <3>1, <3>4, <4>1 DEF Heeded
      <4>2. CASE obs.line # p
        BY <2>1, <2>3, <3>1, <3>2, <3>4, <4>2, OthersAreRetired DEF Heeded, OnItsWay
      <4>3. QED
        BY <4>1, <4>2
    <3>5. QED
      BY <3>1, <3>3, <3>4 DEF Alive
  <2>9. CASE ProbeStart \/ ProbeFails \/ \E p \in Procs : ProbeAnswered(p)
    BY <2>1, <2>9 DEF ProbeStart, ProbeFails, ProbeAnswered, vars, procVars, supVars,
                      Alive, Heeded, OnItsWay
  <2>10. CASE Line
    <3>1. /\ UNCHANGED <<pc, state, launched, exit, obs, fired, lateFire>>
      BY <2>10 DEF Line, OtherLine, Announce, Drain, CloseStdout, vars, procVars,
                   supVars
    <3>2. ASSUME NEW p \in Procs, p \in printed', p \notin printed \/ OnItsWay(p)
          PROVE  OnItsWay(p)'
      <4>1. \A l \in printed \cup {NoProc} :
              Offer(l) =>
                /\ l \in Procs => l \in dropped' \/ \E i \in DOMAIN queue' : queue'[i] = l
                /\ dropped \subseteq dropped'
                /\ \A i \in DOMAIN queue : i \in DOMAIN queue' /\ queue'[i] = queue[i]
        <5> SUFFICES ASSUME NEW l \in printed \cup {NoProc}, Offer(l)
                     PROVE /\ l \in Procs => l \in dropped' \/ \E i \in DOMAIN queue' : queue'[i] = l
                           /\ dropped \subseteq dropped'
                           /\ \A i \in DOMAIN queue : i \in DOMAIN queue' /\ queue'[i] = queue[i]
          OBVIOUS
        <5>1. queue \in Seq(printed \cup {NoProc})
          BY DEF EvidenceInv
        <5>2. CASE Len(queue) < QueueCap
          <6>1. queue' = Append(queue, l) /\ dropped' = dropped
            BY <5>2 DEF Offer
          <6>2. /\ Len(queue) + 1 \in DOMAIN queue' /\ queue'[Len(queue) + 1] = l
                /\ \A i \in DOMAIN queue : i \in DOMAIN queue' /\ queue'[i] = queue[i]
            BY <5>1, <6>1
          <6>3. QED
            BY <6>1, <6>2
        <5>3. CASE ~(Len(queue) < QueueCap)
          BY <5>3 DEF Offer
        <5>4. QED
          BY <5>2, <5>3
      <4>2. CASE OtherLine
        BY <3>1, <3>2, <4>1, <4>2 DEF OtherLine, OnItsWay
      <4>3. CASE \E q \in Procs : Announce(q)
        BY <3>1, <3>2, <4>3 DEF Announce, OnItsWay
      <4>4. CASE \E q \in Procs : Drain(q)
        <5>1. PICK q \in Procs : Drain(q)
          BY <4>4
        <5>2. q \in printed /\ inPipe' = inPipe \ {q} /\ Offer(q) /\ printed' = printed
          BY <5>1 DEF Drain, EvidenceInv
        <5>3. QED
          BY <3>1, <3>2, <4>1, <5>2 DEF OnItsWay
      <4>5. CASE \E q \in Procs : CloseStdout(q)
        BY <3>1, <3>2, <4>5 DEF CloseStdout, OnItsWay
      <4>6. QED
        BY <2>10, <4>2, <4>3, <4>4, <4>5 DEF Line
    <3>3. QED
      BY <2>1, <3>1, <3>2 DEF Alive, Heeded
  <2>11. CASE UNCHANGED rvars
    BY <2>1, <2>11 DEF rvars, readyVars, vars, procVars, supVars, Alive, Heeded,
                       OnItsWay
  <2>12. QED
    BY <2>4, <2>5, <2>6, <2>7, <2>8, <2>9, <2>10, <2>11
       DEF ReadyNext, Observer, Health
<1>3. QED
  BY <1>1, <1>2

\* Whatever the number of restarts and of lines, a shard whose DST has
\* announced that it is ready stays in Starting only if the line was lost, if
\* the observer's one-shot pattern was set late, or if restarts overlapped
\* (observer.go:149-153, 178-184, logbuffer.go:111).
THEOREM ReadinessIsNoticed == ReadySpec => []ReadinessNoticed
<1>1. ReadySpec => []IInv
  BY RefinesSupervisor, Invariance, PTL
<1>2. ReadySpec => [](PatternInv /\ NoticeInv)
  <2>1. IInv /\ EvidenceInv /\ (PatternInv /\ NoticeInv) /\ [ReadyNext]_rvars
          => (PatternInv /\ NoticeInv)'
    BY PatternStep, NoticeStep
  <2>2. QED
    BY <1>1, <2>1, NoticeInit, EvidenceInvariance, PTL DEF ReadySpec
<1>3. NoticeInv => ReadinessNoticed
  BY DEF NoticeInv, ReadinessNoticed, Heeded, OnItsWay, Consumed, Overlapped
<1>4. QED
  BY <1>2, <1>3, PTL

=============================================================================
