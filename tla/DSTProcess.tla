------------------------------ MODULE DSTProcess ------------------------------
(***************************************************************************)
(* The DST server as the supervisor sees it through DSTProcess             *)
(* (supervisor/process.go): a child process with a stdin pipe for console  *)
(* commands and a channel "done" that a goroutine fills with the exit      *)
(* result and then closes.                                                 *)
(*                                                                         *)
(* A process is named by the goroutine that launched it.  The module has   *)
(* no specification of its own: the operators of its first half are what   *)
(* the methods of DSTProcess do, those of its second half what the         *)
(* operating system and the (closed source) DST binary may do.             *)
(***************************************************************************)
EXTENDS Naturals, Sequences

CONSTANTS
  Procs,    \* every DST process that may ever be launched
  PipeCap   \* console commands that fit in the stdin pipe (64 KiB in Linux)

ASSUME PipeCapAssumption == PipeCap \in Nat \ {0}

VARIABLES
  launched,  \* processes for which StartDST returned a handle
  exit,      \* exit[p]: "none" until p exits, then nil or an exit error
  stdin,     \* stdin[p]: commands written to p and not read by it yet
  saved,     \* processes that carried out a c_save()
  quitting,  \* processes that carried out a c_shutdown()
  killed,    \* processes that were sent SIGKILL while alive
  done       \* done[p]: the done channel and the goroutine that feeds it

procVars == <<launched, exit, stdin, saved, quitting, killed, done>>

Results  == {"nil", "err"}
Commands == {"c_save", "c_shutdown", "other"}

ProcTypeOK ==
  /\ launched \subseteq Procs
  /\ exit \in [Procs -> Results \cup {"none"}]
  /\ stdin \in [Procs -> Seq(Commands)]
  /\ saved \subseteq Procs
  /\ quitting \subseteq Procs
  /\ killed \subseteq Procs
  /\ done \in [Procs -> [buf    : Results \cup {"none"},
                         reaper : {"waiting", "sent", "closed"}]]

ProcInit ==
  /\ launched = {}
  /\ exit     = [p \in Procs |-> "none"]
  /\ stdin    = [p \in Procs |-> << >>]
  /\ saved    = {}
  /\ quitting = {}
  /\ killed   = {}
  /\ done     = [p \in Procs |-> [buf |-> "none", reaper |-> "waiting"]]

Alive(p) == p \in launched /\ exit[p] = "none"

-----------------------------------------------------------------------------
(* What the supervisor does with a process.                                *)

(* StartDST succeeds: the child runs, its pipes and done channel are new.  *)
StartDST(p) ==
  /\ p \notin launched
  /\ launched' = launched \cup {p}
  /\ UNCHANGED <<exit, stdin, saved, quitting, killed, done>>

(* SendCommand writes one line to the pipe.  The write blocks while the    *)
(* pipe is full; once the process is gone it returns an error instead,     *)
(* which no caller in this model lets change its control flow.             *)
SendCommand(p, cmd) ==
  /\ IF exit[p] = "none"
       THEN /\ Len(stdin[p]) < PipeCap
            /\ stdin' = [stdin EXCEPT ![p] = Append(@, cmd)]
       ELSE UNCHANGED stdin
  /\ UNCHANGED <<launched, exit, saved, quitting, killed, done>>

(* Signal(SIGKILL); signalling a finished process only returns an error.   *)
SignalKill(p) ==
  /\ killed' = IF Alive(p) THEN killed \cup {p} ELSE killed
  /\ UNCHANGED <<launched, exit, stdin, saved, quitting, done>>

(* A receive from Wait(): the buffered result, or nil once the channel is  *)
(* closed and drained.  Neither is available: the receiver blocks.         *)
Receive(p, v) ==
  /\ \/ /\ done[p].buf # "none"
        /\ v = done[p].buf
     \/ /\ done[p].buf = "none"
        /\ done[p].reaper = "closed"
        /\ v = "nil"
  /\ done' = [done EXCEPT ![p].buf = "none"]
  /\ UNCHANGED <<launched, exit, stdin, saved, quitting, killed>>

\* Mutant of ReaperSend: the goroutine drops the error of cmd.Wait().
ReaperSendsNil(p) ==
  /\ p \in launched
  /\ exit[p] # "none"
  /\ done[p].reaper = "waiting"
  /\ done' = [done EXCEPT ![p] = [buf |-> "nil", reaper |-> "sent"]]
  /\ UNCHANGED <<launched, exit, stdin, saved, quitting, killed>>

\* Mutant of ReaperClose: the goroutine returns without close(p.done).
ReaperNeverCloses(p) ==
  /\ done[p].reaper = "sent"
  /\ UNCHANGED procVars

(* The goroutine of StartDST: send the result of cmd.Wait(), then close.   *)
ReaperSend(p) ==
  /\ p \in launched
  /\ exit[p] # "none"
  /\ done[p].reaper = "waiting"
  /\ done' = [done EXCEPT ![p] = [buf |-> exit[p], reaper |-> "sent"]]
  /\ UNCHANGED <<launched, exit, stdin, saved, quitting, killed>>

ReaperClose(p) ==
  /\ done[p].reaper = "sent"
  /\ done' = [done EXCEPT ![p].reaper = "closed"]
  /\ UNCHANGED <<launched, exit, stdin, saved, quitting, killed>>

-----------------------------------------------------------------------------
(* What the operating system and the DST binary do (external).             *)

(* DST reads its console in order.                                         *)
ReadCommand(p) ==
  /\ Alive(p)
  /\ p \notin quitting
  /\ stdin[p] # << >>
  /\ stdin' = [stdin EXCEPT ![p] = Tail(@)]
  /\ saved' = IF Head(stdin[p]) = "c_save" THEN saved \cup {p} ELSE saved
  /\ quitting' = IF Head(stdin[p]) = "c_shutdown"
                   THEN quitting \cup {p} ELSE quitting
  /\ UNCHANGED <<launched, exit, killed, done>>

(* DST exits with result r: after c_shutdown, killed, or of its own accord *)
(* (a crash, or a console command that ends it).                           *)
Exit(p, r) ==
  /\ Alive(p)
  /\ r \in Results
  /\ p \in killed => r = "err"
  /\ exit' = [exit EXCEPT ![p] = r]
  /\ stdin' = [stdin EXCEPT ![p] = << >>]
  /\ UNCHANGED <<launched, saved, quitting, killed, done>>

(* An exit the supervisor did not ask for.                                 *)
Spontaneous(p) == exit[p] # "none" /\ p \notin quitting \cup killed

=============================================================================
