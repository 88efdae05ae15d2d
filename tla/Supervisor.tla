------------------------------ MODULE Supervisor ------------------------------
(***************************************************************************)
(* The lifecycle of one dst-supervisor: main (supervisor/main.go), the     *)
(* Shutdown and Restart goroutines that POST /api/shutdown and             *)
(* POST /api/restart start (supervisor/http.go), and the SendCommand       *)
(* callers, all sharing the Supervisor struct (supervisor/server.go).      *)
(*                                                                         *)
(* A thread is main or one request goroutine; it runs its handler once,    *)
(* with a label in pc for every point where another goroutine can get in   *)
(* between.  The process that a thread launches carries the thread's name, *)
(* so the number of launches is bounded by the number of requests and by   *)
(* nothing else.                                                           *)
(*                                                                         *)
(* State is written here and by the two readiness reporters (observer and  *)
(* health checker).  Nothing in this module reads it, so the reporters are *)
(* one environment action here, ReportRunning; module Readiness says when  *)
(* they take it.                                                           *)
(***************************************************************************)
EXTENDS DSTProcess

CONSTANTS
  Main,        \* the main goroutine
  Restarters,  \* goroutines started by POST /api/restart
  Stoppers,    \* goroutines started by POST /api/shutdown
  ClientCmds,  \* commands the other management endpoints and the poll send
  NoProc       \* the nil *DSTProcess

Requests == Restarters \cup Stoppers
Threads  == {Main} \cup Requests

ASSUME ThreadAssumption ==
  /\ Main \notin Requests
  /\ Restarters \cap Stoppers = {}
  /\ Procs = {Main} \cup Restarters
  /\ NoProc \notin Threads

\* c_save() from /api/save; "other" is any further console command.
ASSUME ClientAssumption == ClientCmds \subseteq {"c_save", "other"}

VARIABLES
  state,    \* Supervisor.State
  dst,      \* Supervisor.dst
  sending,  \* the command whose writer holds Supervisor.mu, "none" if free
  pc,       \* pc[t]: where thread t is
  target,   \* target[t]: the process t works on, its local variable dst
  got,      \* got[t]: what t last received from a done channel
  sig,      \* a SIGTERM or SIGINT waits in sigCh
  code      \* exit status of the supervisor, "none" while it runs

supVars == <<state, dst, sending, pc, target, got, sig, code>>
vars    == <<procVars, supVars>>

States == {"preparing", "installing", "starting", "running",
           "stopping", "stopped"}
Labels == {"prepare", "install", "start", "setproc", "notify", "watch",
           "select", "exiting", "idle", "capture", "mark", "save", "shut",
           "wait", "kill", "waitkill", "finish", "relaunch", "reset",
           "launch", "store", "done"}

\* Where a thread uses the process it captured.
WorkLabels == {"select", "mark", "save", "shut", "wait", "kill", "waitkill"}

\* Every variable has a value of its type, and nobody is about to use a nil
\* *DSTProcess (server.go:64, 92, 128): a thread past the nil check works on
\* a launched process, and so does the writer that holds mu.
TypeOK ==
  /\ ProcTypeOK
  /\ state \in States
  /\ dst \in Procs \cup {NoProc}
  /\ sending \in ClientCmds \cup {"none"}
  /\ pc \in [Threads -> Labels]
  /\ target \in [Threads -> Procs \cup {NoProc}]
  /\ got \in [Threads -> Results \cup {"none"}]
  /\ sig \in BOOLEAN
  /\ code \in {"none", "0", "1", "2"}
  /\ sending # "none" => dst \in launched
  /\ \A t \in Threads : pc[t] \in WorkLabels => target[t] \in launched

Init ==
  /\ ProcInit
  /\ state   = "preparing"
  /\ dst     = NoProc
  /\ sending = "none"
  /\ pc      = [t \in Threads |-> IF t = Main THEN "prepare" ELSE "idle"]
  /\ target  = [t \in Threads |-> NoProc]
  /\ got     = [t \in Threads |-> "none"]
  /\ sig     = FALSE
  /\ code    = "none"

Up == code = "none"

\* One step of thread t; os.Exit ends every goroutine and, with PID 1, DST.
Goto(t, from, to) ==
  /\ Up
  /\ pc[t] = from
  /\ pc' = [pc EXCEPT ![t] = to]

-----------------------------------------------------------------------------
(* main, up to the select.                                                 *)

(* prepare.sh and install.sh: success moves on, failure is os.Exit(1).     *)
Prepare ==
  /\ Goto(Main, "prepare", "install")
  /\ state' = "installing"
  /\ UNCHANGED <<procVars, dst, sending, target, got, sig, code>>

Install ==
  /\ Goto(Main, "install", "start")
  /\ state' = "starting"
  /\ UNCHANGED <<procVars, dst, sending, target, got, sig, code>>

FirstStart ==
  /\ Goto(Main, "start", "setproc")
  /\ StartDST(Main)
  /\ UNCHANGED <<state, dst, sending, target, got, sig, code>>

StartupFailure ==
  /\ Up
  /\ pc[Main] \in {"prepare", "install", "start"}
  /\ code' = "1"
  /\ UNCHANGED <<procVars, state, dst, sending, pc, target, got, sig>>

SetProcess ==
  /\ Goto(Main, "setproc", "notify")
  /\ sending = "none"
  /\ dst' = Main
  /\ UNCHANGED <<procVars, state, sending, target, got, sig, code>>

(* signal.Notify: from here on a signal waits in sigCh.                    *)
Notify ==
  /\ Goto(Main, "notify", "watch")
  /\ UNCHANGED <<procVars, state, dst, sending, target, got, sig, code>>

(* The select evaluates WaitForExit() once, under mu, on entry.            *)
WaitForExit ==
  /\ Goto(Main, "watch", "select")
  /\ sending = "none"
  /\ target' = [target EXCEPT ![Main] = dst]
  /\ UNCHANGED <<procVars, state, dst, sending, got, sig, code>>

\* Mutant of SelectExit: main only ends for an error, and selects again
\* after an exit without one.
SelectExitOnError ==
  /\ Up
  /\ pc[Main] = "select"
  /\ \E v \in Results :
       /\ Receive(target[Main], v)
       /\ got' = [got EXCEPT ![Main] = v]
       /\ pc' = [pc EXCEPT ![Main] = IF v = "err" THEN "exiting" ELSE "watch"]
  /\ UNCHANGED <<state, dst, sending, target, sig, code>>

(* The two cases of the select: the watched process exited, and main ends  *)
(* with the result it received ...                                         *)
SelectExit ==
  /\ Goto(Main, "select", "exiting")
  /\ \E v \in Results :
       /\ Receive(target[Main], v)
       /\ got' = [got EXCEPT ![Main] = v]
  /\ UNCHANGED <<state, dst, sending, target, sig, code>>

MainEnds ==
  /\ Up
  /\ pc[Main] = "exiting"
  /\ state' = "stopped"
  /\ code' = IF got[Main] = "err" THEN "1" ELSE "0"
  /\ UNCHANGED <<procVars, dst, sending, pc, target, got, sig>>

(* ... or a signal arrived: main calls GracefulShutdownFromSignal, which   *)
(* is Shutdown in this goroutine and then os.Exit(0) (see Finish).         *)
SelectSignal ==
  /\ sig
  /\ sig' = FALSE
  /\ Goto(Main, "select", "capture")
  /\ UNCHANGED <<procVars, state, dst, sending, target, got, code>>

-----------------------------------------------------------------------------
(* Shutdown and Restart.  They share every step up to the process's exit.  *)

(* The handler of the request starts its goroutine.                        *)
Request(t) ==
  /\ Goto(t, "idle", "capture")
  /\ UNCHANGED <<procVars, state, dst, sending, target, got, sig, code>>

\* Mutant of Capture: the nil check is gone.
CaptureUnchecked(t) ==
  /\ sending = "none"
  /\ target' = [target EXCEPT ![t] = dst]
  /\ Goto(t, "capture", "mark")
  /\ UNCHANGED <<procVars, state, dst, sending, got, sig, code>>

\* Mutant of Capture: State.Set(StateStopping) stands before the nil check.
CaptureMarks(t) ==
  /\ sending = "none"
  /\ target' = [target EXCEPT ![t] = dst]
  /\ Goto(t, "capture", IF dst = NoProc THEN "done" ELSE "mark")
  /\ state' = "stopping"
  /\ UNCHANGED <<procVars, dst, sending, got, sig, code>>

(* dst is read under mu.  Without a process the call returns an error,     *)
(* which ends the goroutine (main's os.Exit(0) is never reached so: its    *)
(* dst is set).                                                            *)
Capture(t) ==
  /\ sending = "none"
  /\ target' = [target EXCEPT ![t] = dst]
  /\ Goto(t, "capture", IF dst = NoProc THEN "done" ELSE "mark")
  /\ UNCHANGED <<procVars, state, dst, sending, got, sig, code>>

Mark(t) ==
  /\ Goto(t, "mark", "save")
  /\ state' = "stopping"
  /\ UNCHANGED <<procVars, dst, sending, target, got, sig, code>>

\* Mutant of SendSave: Restart goes straight to c_shutdown().
SendSaveOnlyToStop(t) ==
  /\ Goto(t, "save", "shut")
  /\ IF t \in Restarters THEN UNCHANGED procVars
                         ELSE SendCommand(target[t], "c_save")
  /\ UNCHANGED <<state, dst, sending, target, got, sig, code>>

(* The writes go to the captured process and do not take mu.               *)
SendSave(t) ==
  /\ Goto(t, "save", "shut")
  /\ SendCommand(target[t], "c_save")
  /\ UNCHANGED <<state, dst, sending, target, got, sig, code>>

(* After time.Sleep(SaveDelay), however long DST takes to save.            *)
SendShutdown(t) ==
  /\ Goto(t, "shut", "wait")
  /\ SendCommand(target[t], "c_shutdown")
  /\ UNCHANGED <<state, dst, sending, target, got, sig, code>>

\* Where a thread goes once its process is gone.
AfterExit(t) == IF t \in Restarters THEN "relaunch" ELSE "finish"

\* Mutant of Timeout: the timer runs from before c_shutdown() is written.
TimeoutFromSave(t) ==
  /\ Goto(t, "shut", "kill") \/ Goto(t, "wait", "kill")
  /\ UNCHANGED <<procVars, state, dst, sending, target, got, sig, code>>

\* Mutant of Kill: the second <-dst.Wait() is gone.
KillWithoutWait(t) ==
  /\ Goto(t, "kill", AfterExit(t))
  /\ SignalKill(target[t])
  /\ UNCHANGED <<state, dst, sending, target, got, sig, code>>

(* time.After(shutdownTimeout) fires first: SIGKILL, and wait again.       *)
Timeout(t) ==
  /\ Goto(t, "wait", "kill")
  /\ UNCHANGED <<procVars, state, dst, sending, target, got, sig, code>>

Kill(t) ==
  /\ Goto(t, "kill", "waitkill")
  /\ SignalKill(target[t])
  /\ UNCHANGED <<state, dst, sending, target, got, sig, code>>

WaitReturns(t) ==
  /\ Up
  /\ pc[t] \in {"wait", "waitkill"}
  /\ pc' = [pc EXCEPT ![t] = AfterExit(t)]
  /\ \E v \in Results :
       /\ Receive(target[t], v)
       /\ got' = [got EXCEPT ![t] = v]
  /\ UNCHANGED <<state, dst, sending, target, sig, code>>

(* The end of Shutdown; if it is that of GracefulShutdownFromSignal,       *)
(* os.Exit(0) follows at once.                                             *)
Finish(t) ==
  /\ Goto(t, "finish", "done")
  /\ state' = "stopped"
  /\ code' = IF t = Main THEN "0" ELSE code
  /\ UNCHANGED <<procVars, dst, sending, target, got, sig>>

(* The rest of Restart.                                                    *)
Relaunch(t) ==
  /\ Goto(t, "relaunch", "reset")
  /\ state' = "starting"
  /\ UNCHANGED <<procVars, dst, sending, target, got, sig, code>>

(* Observer.Reset() and Players.Clear() change no variable of this module; *)
(* Readiness adds their effect to this step.                               *)
Reset(t) ==
  /\ Goto(t, "reset", "launch")
  /\ UNCHANGED <<procVars, state, dst, sending, target, got, sig, code>>

Launch(t) ==
  /\ Goto(t, "launch", "store")
  /\ StartDST(t)
  /\ UNCHANGED <<state, dst, sending, target, got, sig, code>>

LaunchFails(t) ==
  /\ Goto(t, "launch", "done")
  /\ state' = "stopped"
  /\ UNCHANGED <<procVars, dst, sending, target, got, sig, code>>

\* Mutant of Store: the new handle stays in the local variable newDst.
StoreForgotten(t) ==
  /\ Goto(t, "store", "done")
  /\ sending = "none"
  /\ UNCHANGED <<procVars, state, dst, sending, target, got, sig, code>>

Store(t) ==
  /\ Goto(t, "store", "done")
  /\ sending = "none"
  /\ dst' = t
  /\ UNCHANGED <<procVars, state, sending, target, got, sig, code>>

-----------------------------------------------------------------------------
(* Supervisor.SendCommand, for /api/save, /api/rollback, /api/console,     *)
(* /api/players/sync and the player poll.  It holds mu across the write.   *)

ClientLocks(cmd) ==
  /\ Up
  /\ sending = "none"
  /\ dst # NoProc
  /\ sending' = cmd
  /\ UNCHANGED <<procVars, state, dst, pc, target, got, sig, code>>

\* Mutant of ClientWrites: an early return on a write error keeps mu locked.
ClientKeepsLock ==
  /\ Up
  /\ sending # "none"
  /\ SendCommand(dst, sending)
  /\ sending' = IF exit[dst] = "none" THEN "none" ELSE sending
  /\ UNCHANGED <<state, dst, pc, target, got, sig, code>>

ClientWrites ==
  /\ Up
  /\ sending # "none"
  /\ SendCommand(dst, sending)
  /\ sending' = "none"
  /\ UNCHANGED <<state, dst, pc, target, got, sig, code>>

-----------------------------------------------------------------------------
(* The environment.                                                        *)

(* The observer or the health checker stores Running.                      *)
ReportRunning ==
  /\ Up
  /\ launched # {}
  /\ state' = "running"
  /\ UNCHANGED <<procVars, dst, sending, pc, target, got, sig, code>>

(* SIGTERM or SIGINT: before Notify the Go runtime ends the process with   *)
(* status 2, afterwards sigCh holds one of them.                           *)
BeforeNotify ==
  pc[Main] \in {"prepare", "install", "start", "setproc", "notify"}

Signal ==
  /\ Up
  /\ IF BeforeNotify
       THEN code' = "2" /\ UNCHANGED sig
       ELSE sig' = TRUE /\ UNCHANGED code
  /\ UNCHANGED <<procVars, state, dst, sending, pc, target, got>>

Reaper(p) == Up /\ (ReaperSend(p) \/ ReaperClose(p)) /\ UNCHANGED supVars

DSTReads(p) == Up /\ ReadCommand(p) /\ UNCHANGED supVars

DSTExits(p) == Up /\ (\E r \in Results : Exit(p, r)) /\ UNCHANGED supVars

\* The program has ended: no code, but no deadlock either.
Exited == ~Up /\ UNCHANGED vars

-----------------------------------------------------------------------------
MainStep ==
  \/ Prepare \/ Install \/ FirstStart \/ StartupFailure \/ SetProcess
  \/ Notify \/ WaitForExit \/ SelectExit \/ MainEnds \/ SelectSignal

\* What Shutdown and Restart do once entered.
HandlerStep(t) ==
  \/ Capture(t) \/ Mark(t) \/ SendSave(t) \/ SendShutdown(t)
  \/ Timeout(t) \/ Kill(t) \/ WaitReturns(t) \/ Finish(t)

RestartStep(t) ==
  Relaunch(t) \/ Reset(t) \/ Launch(t) \/ LaunchFails(t) \/ Store(t)

Client == (\E cmd \in ClientCmds : ClientLocks(cmd)) \/ ClientWrites

Process(p) == Reaper(p) \/ DSTReads(p) \/ DSTExits(p)

Next ==
  \/ MainStep
  \/ \E t \in Requests : Request(t)
  \/ \E t \in Threads : HandlerStep(t)
  \/ \E t \in Restarters : RestartStep(t)
  \/ Client
  \/ Signal
  \/ ReportRunning
  \/ \E p \in Procs : Process(p)
  \/ Exited

Spec == Init /\ [][Next]_vars

-----------------------------------------------------------------------------
(* Safety.                                                                 *)

\* README.md:38 "handles graceful shutdown (saves before stopping)": a DST
\* that acts on the supervisor's c_shutdown() has carried out a c_save()
\* before, whichever of the overlapping Shutdown and Restart calls sent them
\* and whatever other writers put into the pipe in between.
SavedBeforeQuit == quitting \subseteq saved

\* c_shutdown has been delivered to p's console.
AskedToStop(p) ==
  p \in quitting \/ \E i \in DOMAIN stdin[p] : stdin[p][i] = "c_shutdown"

\* SIGKILL (server.go:114,147) is the last resort: a live server that was
\* killed had the graceful c_shutdown() delivered, and so (SavedBeforeQuit)
\* a c_save() ahead of it.
KilledAfterAsking == \A p \in killed : Alive(p) => AskedToStop(p)

Overlap(p) ==
  \E q, r \in Restarters :
    q # r /\ target[q] = p /\ target[r] = p

\* Two DST servers never run on the same world unless two Restart calls
\* captured the same process (server.go:124-126): sequential restarts, with
\* any number of concurrent Shutdown calls, keep at most one server alive.
OneServerUnlessOverlap ==
  \A p, q \in Procs :
    Alive(p) /\ Alive(q) /\ p # q => \E o \in launched : Overlap(o)

\* No server is orphaned: a live one is Supervisor.dst, or its launcher is
\* about to store it there, or two Restart calls overlapped.
LiveServerIsManaged ==
  \A p \in Procs :
    Alive(p) => \/ p = dst
                \/ pc[p] \in {"setproc", "store"}
                \/ \E o \in launched : Overlap(o)

\* The done channel broadcasts the exit but carries the error only once
\* (process.go:137-140).  So main may report a failed DST as a clean exit
\* (status 0, main.go:109-117), but only when a Shutdown or Restart of the
\* same process took the error from the channel.
ErrorMaskedOnlyByRequest ==
  code = "0" /\ pc[Main] = "exiting" /\ exit[target[Main]] = "err"
    => \E t \in Requests : target[t] = target[Main] /\ got[t] = "err"

\* README.md:38 "handles graceful shutdown (saves before stopping)": when the
\* Shutdown that a signal started is over, and os.Exit takes the container
\* down, no server is left to die unsaved, unless a Restart of the process
\* that main shut down was under way and had put a new one in its place, or
\* two Restart calls overlapped (server.go:85-119, main.go:105-107).
ServerLeftOnlyByRestart ==
  code = "0" /\ pc[Main] = "done" =>
    \A p \in Procs :
      Alive(p) => \/ \E t \in Restarters : target[t] = target[Main]
                  \/ \E o \in launched : Overlap(o)

\* The supervisor lives the abstract life of a shard: whatever requests come
\* during the start-up, State moves from preparing to installing to starting
\* in this order, the start-up never shows again, and an end stores nothing
\* but "stopped" (main.go:70-117, server.go:85-170).
Life == INSTANCE ShardLife WITH state <- state, up <- Up

LivesOneLife == Life!Spec

-----------------------------------------------------------------------------
(* Liveness.  The Go scheduler runs every runnable goroutine, timers fire, *)
(* a killed process dies and is reaped: weak fairness.  sync.Mutex hands   *)
(* mu to a waiter after 1 ms and writers queue on the pipe's descriptor:   *)
(* strong fairness for the steps that need mu or room in the pipe.         *)
(* Requests, signals, crashes and the two scripts owe nothing.             *)

MainProgress ==
  FirstStart \/ SetProcess \/ Notify \/ WaitForExit \/ SelectExit
  \/ MainEnds \/ SelectSignal

KilledDies(p) == p \in killed /\ DSTExits(p)

Fairness ==
  /\ SF_vars(MainProgress)
  /\ \A t \in Threads : SF_vars(HandlerStep(t))
  /\ \A t \in Restarters : SF_vars(RestartStep(t))
  /\ SF_vars(ClientWrites)
  /\ \A p \in Procs : /\ WF_vars(Reaper(p))
                      /\ WF_vars(KilledDies(p))

\* DST keeps reading its console until it quits.
ConsoleFairness == \A p \in Procs : WF_vars(DSTReads(p))

FairSpec == Spec /\ Fairness /\ ConsoleFairness

\* A SIGTERM or SIGINT is eventually answered by the end of the supervisor
\* (main.go:105-107), whatever requests and console writers run meanwhile.
SignalEndsSupervisor == sig ~> ~Up

\* A Shutdown or Restart request runs to its end: nobody waits for ever on
\* mu, on the pipe, or on a done channel whose value another thread took.
RequestsFinish ==
  \A t \in Requests : pc[t] = "capture" ~> (pc[t] = "done" \/ ~Up)

\* Once the process that main watches has exited, the supervisor ends, and
\* docker's restart policy starts the container again, whether DST crashed or
\* POST /api/shutdown or /api/restart stopped it, and whichever goroutine took
\* the exit result from the done channel (main.go:104-117).
WatchedExitEndsSupervisor ==
  pc[Main] = "select" /\ exit[target[Main]] # "none" ~> ~Up

-----------------------------------------------------------------------------
(* What the documentation says and the code does not do.                   *)

\* README.md:90: POST /api/restart restarts DST "without restarting the
\* container".  The supervisor is the container's entry point, so it may
\* only end for another reason than a restart.
ShutdownRequested ==
  \E t \in Stoppers \cup {Main} :
    pc[t] \in {"wait", "kill", "waitkill", "finish", "done"}

RestartKeepsSupervisor ==
  code = "0" => ShutdownRequested \/ \E p \in Procs : Spontaneous(p)

=============================================================================
