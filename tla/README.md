# A TLA+ model of dst-dedicated-server

`supervisor/` is a Go process that runs as PID 1 of a container, starts one Don't Starve Together
(DST) server, watches its output, and offers an HTTP API to save, stop, restart and inspect it.
`webui/` is a dashboard over several supervisors. This directory holds TLA+ specifications of the
supervisor and of the dashboard, TLC configurations that check them on small instances, and TLAPS
proofs of the most important results for every instance.

Source lines are given as in `PROJECT.json`; a name without a directory is under `supervisor/`.

## 1. Inventory

| Component | State | Operations | Interacts with |
|---|---|---|---|
| Lifecycle (`main.go`, `server.go`, `state.go`) | `State`, `dst` (under `mu`), the select of `main`, exit code | start-up, `Shutdown`, `Restart`, `SendCommand`, `WaitForExit`, signals | everything below |
| DST handle (`process.go`) | stdin pipe, `done` channel | `StartDST`, `SendCommand`, `Signal`, `Wait`, reaper and drain goroutines | the DST binary (external) |
| Log buffer (`logbuffer.go`) | ring, subscriber map and channels, partial line of each stream | `Write`, `store`, `Last`, `Subscribe`, `Unsubscribe` | drain goroutines write; the observer and `/api/logs*` read |
| Observer (`observer.go`) | one-shot flags of its patterns | `Run`, `Reset`, `pollPlayers` | reads the log buffer; writes `State`, players, query port |
| Health checker (`health.go`) | `portCh`, `addr`, `lastInfo`, `lastErr` | `SetQueryPort`, `Run`, `probe`, `Info` | port from the observer; A2S over UDP; writes `State` |
| Player tracker (`players.go`) | map from ID to player and `LastSeen` | `Seen`, `Prune`, `Clear` | written by observer, poll and `Restart` |
| A2S client (`a2s.go`) | none | `QueryA2SInfo` | DST's query port |
| HTTP API (`http.go`) | none of its own | probes, status, metrics, logs, management | starts the `Shutdown` and `Restart` goroutines |
| Configuration (`config.go`, `main.go`) | none | parsing of environment and `server.ini` | read at each start |
| Web UI backend (`webui/main.go`) | the answers of one round of `/events` | `/events`, `/shard/...` proxy | polls each supervisor's `/status` |
| Web UI client (`webui/static/app.js`) | shown statuses, `masterShard`, event stream, log stream, current log shard | status display, log viewer, actions | backend |
| Container scripts, compose files | volumes | prepare, install, restart policy | start the supervisor |

Hard behaviours: every management request runs in a goroutine of its own and only parts of
`Shutdown` and `Restart` are under `mu`; a console write can block on a full pipe while `mu` is held;
the exit of a process is announced once with its error and then by a closed channel, to any number of
receivers; two reporters read `State` and write it later; lines reach the observer late, out of step
with restarts, or not at all; channels have bounds and drop or block. The browser's tasks interleave at
an await; shards crash, hang and restart under a dashboard that polls them one after the other; the
datagrams of an A2S query are late, cut or foreign. `PROJECT.json` lists these
hazards at their lines, with the properties about each.

What makes each component correct:

* lifecycle: the world is saved before DST is stopped, SIGKILL is the last resort, at most one server
  runs, none is orphaned, requests and signals come to an end;
* readiness: `Running` is never reported out of nothing, and a ready server does not stay `Starting`;
* log buffer: readers see the last lines in order, a slow or departing subscriber hurts nobody, no
  byte is lost between reads;
* health checker: the newest port wins, nobody waits in the hand-over, results are not stale;
* players: who is online is listed, who left disappears;
* A2S client: the result is what the last sender said, or an error, within the timeout;
* dashboard: it shows the shards as they are in the end, sends cluster actions to the master, and the
  log view shows the selected shard's log.

## 2. Modules

| Module | Models | Role |
|---|---|---|
| `DSTProcess` | `process.go`; the DST binary and the operating system (external) | operators used by `Supervisor` |
| `Supervisor` | `main.go`, `server.go`, the management half of `http.go` | specification of the lifecycle |
| `Readiness` | readiness half of `observer.go` and `health.go`, the way of a line | extends `Supervisor`, refines it |
| `LogWindow` | what the log buffer promises | abstract specification |
| `LogBuffer` | ring, fan-out, subscribers of `logbuffer.go` | refines `LogWindow` |
| `PrefixWriter` | `prefixWriter.Write` | the algorithm against a reference cut |
| `HealthChecker` | `health.go` and the port hand-over | specification |
| `PlayerTracker` | `players.go`, the poll and the player patterns of `observer.go` | specification in discrete time |
| `A2S` | `a2s.go`; the network (external) | the algorithm against what the senders said |
| `ShardLife` | what a supervisor's clients see of it; docker's restart policy (external) | abstract specification |
| `Dashboard` | `/events` of `webui/main.go`, the event stream of `app.js`, `config.go` | composed of one `ShardLife` per shard |
| `LogViewer` | the log viewer of `app.js` over the proxy and the log endpoints | specification |
| `SupervisorProofs` | | theorems about `Supervisor` and `Readiness` |
| `LogBufferProofs`, `PrefixWriterProofs`, `HealthCheckerProofs`, `PlayerTrackerProofs`, `A2SProofs`, `DashboardProofs`, `LogViewerProofs` | | theorems about the module of that name |
| `MC*` | | constants and symmetry for TLC |

Mutated definitions (`Mutant of ...` in a comment) stand beside the definitions they change. They are
in no specification; each turns a property of some run false and so shows that the property speaks
about that code.

### Supervisor

A thread is `Main` or one request goroutine; `pc[t]` has a label for each point where another
goroutine can get in between. One action is the code between two such points:

* `Prepare` ... `WaitForExit`, `SelectExit`, `MainEnds`, `SelectSignal`: `main`. The channel that the
  select receives from is evaluated once, so `target[Main]` keeps the first process.
* `Capture`, `Mark`, `SendSave`, `SendShutdown`, `Timeout`, `Kill`, `WaitReturns`: the common part of
  `Shutdown` and `Restart`; `Finish` ends the first, `Relaunch`, `Reset`, `Launch`, `Store` the second.
  Neither holds `mu` except in `Capture` and `Store`.
* `ClientLocks`, `ClientWrites`: `SendCommand`, which holds `mu` (variable `sending`) across the write.

A process carries the name of the thread that launched it, so the number of processes needs no bound
of its own. `SaveDelay` and the timeout have no duration: any order of timer, exit and command is
possible. The pipe has `PipeCap` slots for commands; a write to a live process waits for a slot, one
to a dead process returns an error that the code only logs. `os.Exit` sets `code`, and nothing moves
afterwards; with PID 1 the server dies too.

`DSTProcess` models the `done` channel as the buffered result and the state of the goroutine that
feeds it, because the order of the send and the close decides what a second receiver sees.

### Readiness

Adds to `Supervisor` the ready line of each process on its way (stdout pipe, subscriber channel),
`Observer.Run` with receive, `State.Get`, `State.Set` and `fired = true` as four steps, and
`HealthChecker.probe` with the read of the state before the query. All other lines only occupy slots.
One ready line per process stands for geo-DNS (master) or secondary-shard readiness: a shard prints
one of them.

### Log buffer

`Store(w, n)` is the part of `store` under `mu`, `StartFan`, `Offer`, `NextLine` the part under
`subMu.RLock`, one action per send. `Join` and `Leave` need the write lock; while one of them waits no
new reader gets in, as with `sync.RWMutex`. `LastLines(n)` computes `Last(n)` with the code's index
arithmetic. Lines are named by writer and number. `LogWindow` is the promise: each line that a writer
passes to `store` enters the window once, in the writer's order, and the window is the last of them. The
refinement maps its `passed` to `stored`, the count of lines that each writer's `Write` has passed on, so a
ring that dropped, repeated or reordered lines would not implement it.

### Health checker, players

`HealthChecker` has a server per launch on any port and lets every other writer change `State` as it
likes.

`PlayerTracker` has a clock (`Pass`), the poll's ticker with its channel of one tick (`Tick`), and the poll:
`PollSkipped`, or `PollSends`, then `Sent` or `SendFails` (`SendCommand` may wait for `mu` or for room in the
pipe, during which time passes), then `AnswerTime` of sleep and `Prune`. The answer may come before or
after that `Prune`, and each line may be lost. `Restart` is its four steps as they concern the list, in any
number of goroutines that may overlap: `RestartBegins` (capture, save, stop), `Clear` after the exit of the
captured process, whatever runs by then, and `Launch` or `LaunchFails`. A process that `Launch` replaces
while it runs is orphaned and goes on printing (`OrphanLine`). `met` is a history variable of the Restarts
that were under way together, `miss` of the ticks since a player's last line, `prompt` and `skipped` of
polls that were delayed or did not take place.

### A2S

One query. `Dial`, `Request`, `Answer` are the calls before, between and after the reads; `Read(m)` and
`Reread(m)` take any message `m`, since anything may arrive at a UDP socket: answers cut at every
length, challenges of every length, other datagrams. `buf` keeps its old bytes behind a shorter
datagram, as the Go slice does. `ParseInfo` walks over the bytes with the code's readers, and is checked
against `Said`, which looks at what the sender meant. Time passes only while a read waits.

### ShardLife, Dashboard

`ShardLife` is what remains of a supervisor for a client: `State`, and whether it answers. `Supervisor`
implements it (`LivesOneLife`, proved), for one life; `Restart` is docker's. `Dashboard` lets each shard
take steps of its `ShardLife` (`Step`), so what `Supervisor` can show is all that the dashboard may meet.
The request for a status and the read of its body are two steps (`Get`, `ReadBody`), so a shard can end
in between and leave a body that is not JSON. A supervisor that accepts connections but does not run
(`Freeze`) holds up the handler. `Message` handles a whole event, `Break` and `Reconnect` are the two
halves of `onerror`. The handler of a broken stream is taken to be gone at once: in the code it may still
wait for a shard, but what it writes reaches nobody.

### LogViewer

Each call of `switchLogShard` has a number. `Switch` is the call up to its await, `Answer` the backend's
answer, `Continue` the rest of the call, and in between any other task of the browser runs. A stream's
state follows the EventSource: the supervisor sends no byte, not even headers, before the first line
(`asked`), so a crash before it is a 502 of the proxy, which ends the EventSource (`refused`), and one
after it a broken stream, which reconnects. Lines are numbered per shard over its restarts, each of which
empties the log buffer. Two history variables: `missed` has the lines that were logged after the last
call took its backlog and not sent to that call's stream, and starts anew with each call; `overlapped` has
the calls that were in flight together, until the first switch at which they can write into the view no
more.

## 3. Runs

"States" are distinct states; all passing runs explore their whole state space.

| Run | Instance | Shows | States |
|---|---|---|---|
| `Supervisor` | 2 restarts and a signal, pipe of 2 | the safety properties of the lifecycle; `LivesOneLife` (refinement of `ShardLife`) | 1.8 M |
| `SupervisorLive` | 1 restart, a signal, console writers, pipe of 1 | `SignalEndsSupervisor`, `WatchedExitEndsSupervisor`, `RequestsFinish` | 70 k |
| `Readiness` | 1 restart, channel of 1, no A2S answers | `ReadinessNoticed` | 1.6 M |
| `ReadinessA2S` | 1 shutdown, channel of 1, A2S answers | `RunningHasEvidence` | 0.4 M |
| `LogBuffer` | 2 writers, 3 lines, batches up to 3, ring of 2, 2 subscribers with channels of 1 | `ShowsLastLines` (refinement), `LastIsSuffix`, `NoSendOnClosed`, `DeliveredInOrder`, `StoresEnd` | 0.4 M |
| `PrefixWriter` | all streams up to 12 bytes, cap 3, reads up to 6 | `BytesPreserved`, `CutAtNewlinesOnly`, bounded partial line | 13 k |
| `Health` | 3 servers, 2 ports | `ObserverNeverWaits`, `InfoFromCurrentPort`, `NewestPortProbed` | 24 k |
| `Players` | 1 player, 2 restarts, the default interval 5 and age 12, answer time 1 | `OnlineStayListed`, `GhostsAgeOut` | 2.1 M |
| `A2S` | 72 answers cut at every byte, 4 challenges, 4 other datagrams, buffer of 18, timeout of 2 | `ResultIsWhatWasSaid`, `ChallengeEchoed`, `WithinTimeout` | 15 k |
| `Dashboard` | 2 shards, 3 changes, an edit, a hang, a break | `TargetIsShownMaster`, `CatchesUp` | 0.25 M |
| `LogViewer` | 3 shards, 3 calls, 3 lines, a crash, backlog 2, view 3, channel 1 | `ShowsSelectedShard`, `NoStreamLeaks`, `ShowsLogInOrder`, `FollowsInTheEnd` | 1.5 M |

Some properties name exceptions, and each exception is something the code really does, not a weakness
of the model.

* `OneServerUnlessOverlap`, `LiveServerIsManaged`: two `Restart` calls that capture the same process
  before either stores its new one both relaunch (`server.go:122-126`), and two servers then run on
  one world, of which one cannot be reached through the supervisor any more. Without that overlap it
  never happens, and a signal that meets a restart is covered.
* `ServerLeftOnlyByRestart`: a signal during a `Restart` makes `Shutdown` wait for the process that
  `Restart` replaces (`server.go:88`), and the `os.Exit` that follows takes the container and with it the
  new server down, unsaved, where `README.md:38` promises a save before stopping. This is the only way,
  besides overlapping restarts, for an ordered end to leave a server alive.
* `SignalEndsSupervisor`, `RequestsFinish` assume a DST that reads its console (see Fairness).
* `ReadinessNoticed`: a ready line may be lost (a full channel, or the pipe closed by `cmd.Wait`), or a
  handler that runs across `Reset` sets `fired` after it (`observer.go:149-153` and `178-184`), and the
  new process's line is then ignored. Also, a ready line of the old process that is read after the
  restart's `Starting` makes the new process `Running` too early. The third way takes two `Restart` calls
  that overlap: the later one stores `Stopping` while the observer handles the line of the new process,
  which is then skipped, and stores `Starting` after it. The run has one restart and cannot show this;
  the proof for any number of restarts needs the exception. The property says that these are all the
  ways for a ready shard to stay in `Starting`.
* `RunningHasEvidence` is what remains of "`Running` means ready": some process of this supervisor did
  announce itself or answer.
  Nor is "Starting → Running" (`observer.go:54`) the only change they cause: both reporters read the
  state and store `Running` later, over a `Stopping` that a request has stored in between.
* `InfoFromCurrentPort`: the code keeps the result of the last probe, successful or not (a failure
  stores nil, `health.go:90-94`, although the comment on `health.go:110` speaks of the last successful
  one), and no probe runs while the state is `Stopping` or `Stopped`.
* `OnlineStayListed`: a player who is online may be pruned after ticks in a row without a line that, with
  the wait of the last poll (`observer.go:173`), reach the stale age (`Silence`). With the defaults two
  ticks and the two seconds do not; with a stale age that is a multiple of the interval the two seconds
  decide. A poll whose command had to wait counts as a whole interval. And of two `Restart` calls that
  overlap, the later one clears the list (`server.go:156-158`) although players may be online on the process
  that the other has launched. They come back with the next answer to `c_listplayers()`; `known` forgets
  them until then. A `Restart` that meets no other clears nobody who is online.
* `GhostsAgeOut`: a player who left stays listed for up to 12 minutes, an interval and two seconds, not
  until the next poll as `observer.go:100` has it, and for ever while the state is not `Running`.
* `TargetIsShownMaster`: while no shard is shown as the master, cluster actions go to the last one that
  was, or at first to the first of the list (`app.js:188-190`); `masterShard` is never unset.
* `CatchesUp`: `http.Get` has no timeout (`webui/main.go:109`), so while one supervisor hangs no shard's
  status is updated; the property is about supervisors that do not hang for ever. One body that is cut
  off costs the whole event (`webui/main.go:118-122` ignores both errors) but not the next one.
* `ShowsSelectedShard`, `NoStreamLeaks`, `ShowsLogInOrder`: two calls of `switchLogShard` that are in flight
  together (`app.js:407`) each append their backlog and each open a stream; only the last one is in
  `logStream`, and the other stays open and writes into the view for as long as the page lives. The
  exceptions name exactly these calls and their shards, and end with the first switch at which none of them
  is in flight or has a stream that is left open; calls that met no other are covered also beside them.
* `ShowsLogInOrder`: lines in between are only missing if they are in `missed`: logged between backlog and
  subscription or during a reconnect, dropped for want of room in the channel, or lost with a crash. What
  an earlier call for the same shard was or was not sent excuses nothing.
* `FollowsInTheEnd`: "Will auto-reconnect via EventSource spec" (`app.js:424`) holds for a connection that
  breaks, not for a reconnect that is answered 502 because the shard is still down; such a stream is
  over, and no code opens another until the user switches.

One run checks a sentence of the documentation that the code does not keep; TLC prints the shortest way
there.

| Run | What the documentation says | What happens |
|---|---|---|
| `RestartExits` | `README.md:90`: restart "without restarting the container" | `main` still waits for the old process and may return when `Restart` stops it |

`WatchedExitEndsSupervisor` shows the other side of it: once the process that `main` watches has exited,
for whatever reason, the supervisor does end, and with `restart: unless-stopped` the container starts
again, also after `POST /api/shutdown`.

What follows a restart (the second half of `Readiness`, a second request in `Supervisor`) needs the
supervisor to survive it. `RestartExits` shows that it may exit instead; whether it does depends on
which receiver of `done` runs first and on when `main`, having received, gets to its `os.Exit` or
return (`MainEnds`), and the model has every order.

### Bounds

* Requests: two are what the overlap of two needs; every property about requests names at most two,
  and the theorems below are for any number.
* `PipeCap`: 1 makes every write wait, 2 lets a client's command stand between `c_save` and
  `c_shutdown`; both occur in the runs.
* `QueueCap`, `SubCap`: 1 makes full channels happen at once.
* `Size`, `MaxBatch`, `MaxLines`: three lines in all (over both writers) in a ring of two: the ring wraps,
  a batch is larger than the ring, and the stores of two writers overlap.
* `Cap`, `MaxChunk`, `MaxBytes`: 3, 6 and 12 keep the code's ratio of 16 KiB to 32 KiB; a read can
  hold several lines, an over-long one, or nothing but newlines.
* `MaxGen`: three servers, so that a second change of port can hit an unfinished first one.
* `BufSize`: 18 bytes are less than the longest answer and the longest challenge of the run, so both are
  cut by the buffer too; names hold the bytes of header and tags. `MaxClock` is three timeouts, more than
  a correct query can use.
* `MaxChanges`: three changes let both shards be masters in turn (one ends, the other ends and restarts
  with an edited file). `WireCap` 1: the handler waits for the browser to take each event.
* `MaxCalls`, `MaxLines`, `MaxCrashes`: a third call can meet two overlapping ones; three lines exceed the
  backlog and fill the view; one crash happens in every state of every stream.
  Three shards let a call be for a shard that has nothing to do with the two that overlapped.
* `PollInterval`, `StaleAge`: the defaults in minutes; `AnswerTime`, two seconds in the code, is the
  smallest time there is, 1. Ages and misses are capped just above the largest values that the properties
  tell apart. One player is enough because no action of one player reads or writes what belongs to another;
  two Restarts are what an overlap needs. The theorems are for any number of either.

`CHECK_DEADLOCK FALSE` is used for `LogBuffer`, `PrefixWriter` and `LogViewer`, where the end of the bounded
input is the end of the run, and for `A2S`, where a query is over when it has returned.

### Fairness

* The Go scheduler runs every runnable goroutine, timers fire, the kernel delivers SIGKILL and the
  reaper goroutine runs: weak fairness.
* `mu` is handed to a waiter that has waited for 1 ms (starvation mode of `sync.Mutex`), and writers
  queue on the pipe's descriptor: strong fairness for steps that need `mu` or room in the pipe.
* `select` chooses at random among ready cases: strong fairness for `main`'s and the health checker's.
* DST reads its console (`ConsoleFairness`). Without this nothing ends: the shutdown timer
  (`main.go:15` "max time to wait for DST to exit") is armed only after `c_save()` and `c_shutdown()` were
  written, and a write to the full pipe of a DST that hangs blocks for ever.
* Browser tasks, the handler of `/events`, timers and docker's restart of an ended container: weak
  fairness. A request to a hung supervisor is not enabled, so nothing is assumed about it. Users,
  operators and shards owe nothing.
* Requests, signals, crashes, the two scripts, and subscribers past their lock owe nothing.

## 4. Proofs

`SupervisorProofs` proves, for any sets of requests and client commands and any pipe capacity, six
properties that the run `Supervisor` checks, as `Spec => []P`: `TypeCorrect`, `ShutdownSavesFirst`,
`KillIsLastResort`, `ErrorIsMaskedOnlyByRequest`, `AtMostOneServer`, `NoServerIsOrphaned`. None of them
is inductive. The inductive invariant `IInv` is the conjunction of

* `TypeOK`;
* `LaunchInv`: which processes are launched, and where a thread must be for its process to exist;
* `ConsoleInv`: a `c_shutdown` in a pipe has a `c_save` before it in the pipe or already carried out,
  a thread past its save has one delivered or its process is gone, and killed processes were asked;
* `DoneInv`: the exit result is in the `done` channel or with a receiver, and when `main` is about to end
  with another value, a request has it;
* `FreshInv`, `ParentInv`, `LeafInv`: the processes form a tree in which each is launched by a thread
  that saw its parent exit; a process that is alive has no children, and without an overlap a process
  has one child at most. "At most one server" is that the tree is then a path with `dst`, or the
  process about to be stored, at its end.

`IInv` was first checked with TLC as an invariant. Each part has a lemma per group of actions; the
theorems combine them. The assumptions are the named `ASSUME`s of `DSTProcess` and `Supervisor`, which
say that thread names are distinct, that the pipe has room for a command, and that clients do not send
`c_shutdown`. (A `c_shutdown` typed into the console is a server stopped without a save by the
operator; it is left out of the client's commands, and with it the properties about saving would speak
of something the supervisor does not control.)

`SupervisorLivesOneLife` is the refinement `Spec => Life!Spec`:
each action of `Supervisor` is mapped to a step of `ShardLife` or to a stutter, with the invariant
`LifeInv`, which says that `State` follows `main` through the start-up and that no request gets past its
nil check before the first launch. `SignalLeavesOnlyRestarted` follows from `LeafInv` (the tree is a path)
and `EndInv`: the process that `main` shut down has exited, so a server that is alive has taken its place.

`RunningIsEarned` (`ReadySpec => []RunningHasEvidence`) has an invariant that
says what the observer and the health checker hold in their hands between read and write, and
`RefinesSupervisor` is `ReadySpec => Spec`: every step of the composed system is a step of `Supervisor`
or leaves its variables alone, the readers' writes being its `ReportRunning`. So every theorem about
`Supervisor` holds of the composed system too; `ReadyShutdownSavesFirst` states one, and
`ReadinessIsNoticed` (`ReadySpec => []ReadinessNoticed`) uses `IInv` in this way. Its invariant
`NoticeInv` says where the ready line of the running process is: in the pipe, in the channel, in the
observer's hands, or lost; and who may have set the one-shot pattern. From `LeafInv` comes that nothing
runs while a restart is between the exit of one process and the launch of the next.

The other components have a proof module each. All their safety invariants are proved, for every value
of the constants that the named `ASSUME`s allow, and each invariant was first checked with TLC. What
makes each of them inductive:

| Module | Theorems | The argument |
|---|---|---|
| `LogBufferProofs` | `NobodySendsOnClosed`, `LinesComeInOrder`, `BufferTypes` | `LeftInv`: a subscriber that a store has still to serve is held from closing by the read lock. With it `BufferTypes` says that a store never offers to one who is not subscribed. `OrderInv` with `BeforeInv`: a line comes before another one only if it is an earlier one of its writer or its store is over, and a subscriber has seen of each writer only what was offered (`SeenInv`). |
| | `ShortIsSuffix`, `RingIsWindow` | `RingIsWindow` is `Spec => ShowsLastLines`, the refinement of `LogWindow`: one `Put` moves the window by one line, by cases on `pos` and `wrapped`; a batch moves it by its length, by induction over the batch, and is the writer's next lines. |
| `PrefixWriterProofs` | `WriterTypes`, `EveryByteIsKept`, `LinesEndAtNewlines` | `CutInv`: the lines and the partial line are a cut of the bytes so far. A byte and a flush keep it, hence the loop over a read, by induction over its bytes. |
| `HealthCheckerProofs` | `HealthTypes`, `SetQueryPortNeverWaits`, `InfoIsCurrent` | The observer is the only sender, so a drained channel stays empty until it sends; a result about to be stored is of the address that was asked. |
| `PlayerTrackerProofs` | `NobodyOnlineIsPruned`, `EntriesAgeOut` | `Accounted`: the ticks that a player missed, times the interval, and the time since the last one account for the age. `StepInv`: as long as no command had to wait, `Prune` runs `AnswerTime` after its tick. `AloneInv`: a `Restart` that met no other is the only one, so it clears while no server runs. `Tolerated`: what the age may have reached since the last `Prune`. The products are with an unknown interval. |
| `A2SProofs` | `QueryTypes`, `QueryIsBackInTime`, `ChallengesAreAnswered`, `ResultsAreWhatWasSaid` | `ParseOfInfo`: what is left behind a string is again a string's field cut somewhere, so `ParseInfo` reads back what `InfoBytes` laid out, or fails. `Seen`: the first `n` bytes of the buffer are those of the last datagram. `StageInv`: what is known at each stage of the query. |
| `DashboardProofs` | `DashboardTypes`, `ActionsReachAMaster` | `MasterInv`: a shard shown as the master is the target, or the target is shown as one too; an event keeps it, shard by shard. |
| `LogViewerProofs` | `ViewTypes`, `OneShardAtATime`, `OneStreamAtATime`, `ViewIsTheLog` | `AloneInv`: a call that met no other is the last one while its stream is alive. `FlowInv`: the view, then what the last call has still to show, are in order, and every later line that was logged is in one of them or was not sent to this call's stream. |

Where a definition walks over data (`PutAll`, `fed`, `NextMaster`), it is a recursive function or a closed
form, and the proof is an induction over the numbers: the library's induction theorems take an operator,
so `NatSetInduction` states induction for a set of numbers, proved from the library's theorem that `<` is
well-founded, and `RunExists` derives from it that a recursively defined function exists.

Assumptions are on constants only. Beside those above they say that sizes and times are positive, that
model values such as "no line" or "no deadline" are none of the values they stand beside, and, for `A2S`,
how an answer is laid out and that a foreign datagram does not begin like an answer or a challenge.

Two proofs changed what is stated. `ReadinessNoticed` was false for two overlapping restarts (section 3),
which the run with one restart does not reach. `Messages` of `A2S` was ambiguous: TLC and TLAPS read
`UNION S \cup T` differently; it has parentheses now.

Only model-checked: the liveness properties (`SignalEndsSupervisor`, `RequestsFinish`,
`WatchedExitEndsSupervisor`, `StoresEnd`, `NewestPortProbed`, `FollowsInTheEnd`, `CatchesUp`), since
fairness and `ENABLED` are outside the prover's reach; and `RestartExits`, which expects a violation.
No module uses a `RECURSIVE` operator.

## 5. Not modelled

* Parsing of the environment and of `DST_BACKENDS`, `overrideEnv`, credentials, the command line of DST:
  sequential text processing at start-up.
* `ServerStart`, `game_port`, `region`: display data.
* Authentication, JSON and the probes of the HTTP API, which only format `State` (`/readyz` reads it twice,
  so its body can contradict its code); informational log patterns; `PlayerTracker.Remove`, which has no
  caller.
* The buttons and dialogs of the dashboard: each sends one request, whose effect on the supervisor is in
  `Supervisor`, and shows a message. Cluster actions that go to all shards are a loop of such requests.
* The mock supervisor, Lua and ini files, CI, style and markup.

## 6. Plan

Done: the lifecycle with its proofs, readiness with its refinement, log buffer, line splitting, health
checker, player tracker, A2S client, the abstract shard with its refinement proof, the dashboard built
from it, the log viewer.

All safety properties of the runs are proved, and both refinements. Next:

1. Every theorem about `Supervisor` for the composed system of `Readiness` by name, where a reader would
   look for it.
2. `Dashboard`: that each shard of it lives a `ShardLife` (`Step` and docker's `Restart` are its only
   changes), as a refinement theorem per shard.
3. The safety part of the liveness properties: that a thread that waits for an exit always finds the
   result in the channel or the channel closed.
